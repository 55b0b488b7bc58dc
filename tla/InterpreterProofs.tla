-------------------------- MODULE InterpreterProofs --------------------------
(***************************************************************************)
(* Proofs about Interpreter, for every set of constructs and every bound:  *)
(* the scopes balance, a break or a continue leaves exactly the loops it   *)
(* names, a called function hands no flag of its own to its caller, a      *)
(* return runs nothing on its way, errors go to the innermost try, and a   *)
(* rank falls with every step on the way out.                              *)
(***************************************************************************)
EXTENDS Interpreter, SequenceFacts

FrameType == [kind : Kinds, at : BlockAt \cup ExprAt, left : 0..MaxBlock,
              loops : Nat, entry : Seq(Nat)]

\* A scope that is pushed and popped again leaves the scope stack as it was.
LEMMA PopPush ==
  ASSUME NEW e \in Seq(Nat), e # <<>>
  PROVE  /\ PushBlock(e) \in Seq(Nat) \ {<<>>}
         /\ PopBlock(PushBlock(e)) = e
<1>1. Len(e) \in 1..Len(e) /\ e[Len(e)] \in Nat /\ e[Len(e)] + 1 \in Nat
  BY EmptySeq, ElementOfSeq
<1> DEFINE n == Len(e)
           p == PushBlock(e)
<1>2. /\ p \in Seq(Nat) /\ Len(p) = n
      /\ \A j \in 1..n : p[j] = IF j = n THEN e[n] + 1 ELSE e[j]
  BY <1>1, ExceptSeq DEF PushBlock
<1>3. p # <<>>
  BY <1>1, <1>2, EmptySeq
<1>4. p[n] - 1 = e[n]
  BY <1>1, <1>2
<1> HIDE DEF p
<1>5. PopBlock(p) = [p EXCEPT ![n] = e[n]]
  BY <1>2, <1>4 DEF PopBlock
<1>6. /\ PopBlock(p) \in Seq(Nat) /\ Len(PopBlock(p)) = n
      /\ \A j \in 1..n : PopBlock(p)[j] = IF j = n THEN e[n] ELSE p[j]
  BY <1>1, <1>2, <1>5, ExceptSeq
<1>7. \A j \in 1..n : PopBlock(p)[j] = e[j]
  BY <1>2, <1>6
<1>8. PopBlock(p) = e
  BY <1>6, <1>7, SeqEqual
<1> QED BY <1>2, <1>3, <1>8 DEF p

\* The same for the Scope of a function.
LEMMA PopPushStack ==
  ASSUME NEW e \in Seq(Nat)
  PROVE  /\ PushStack(e) \in Seq(Nat) \ {<<>>}
         /\ PopStack(PushStack(e)) = e
  BY AppendProperties, FrontAppend DEF PushStack, PopStack

\* What a frame holds is a scope stack, unless it holds nothing.
LEMMA HeldType ==
  ASSUME NEW f \in FrameType, f.entry # <<>> \/ f.kind = "func"
  PROVE  Held(f) \in Seq(Nat) \ {<<>>}
<1>1. f.entry \in Seq(Nat)
  BY DEF FrameType
<1>2. CASE f.kind = "func"
  <2>1. Held(f) = PushStack(f.entry)
    BY <1>2 DEF Held
  <2> QED BY <1>1, <2>1, PopPushStack
<1>3. CASE f.kind # "func"
  <2>1. f.entry # <<>>
    BY <1>3
  <2>2. PushBlock(f.entry) \in Seq(Nat) \ {<<>>}
    BY <1>1, <2>1, PopPush
  <2>3. PushBlock(PushBlock(f.entry)) \in Seq(Nat) \ {<<>>}
    BY <2>2, PopPush
  <2>4. Pushed(f) \in {0, 1, 2}
    BY DEF Pushed
  <2>5. CASE Pushed(f) = 0
    <3>1. Held(f) = f.entry
      BY <1>3, <2>5 DEF Held
    <3> QED BY <1>1, <2>1, <3>1
  <2>6. CASE Pushed(f) = 1
    <3>1. Held(f) = PushBlock(f.entry)
      BY <1>3, <2>6 DEF Held
    <3> QED BY <2>2, <3>1
  <2>7. CASE Pushed(f) = 2
    <3>1. Held(f) = PushBlock(PushBlock(f.entry))
      BY <1>3, <2>7 DEF Held
    <3> QED BY <2>3, <3>1
  <2> QED BY <2>4, <2>5, <2>6, <2>7
<1> QED BY <1>2, <1>3

\* The last of the frames that fit holds the scopes, and there is one.
LEMMA FitLast ==
  ASSUME NEW s \in Seq(FrameType), s # <<>>, NEW b, Fits(s, b)
  PROVE  /\ Last(s) \in FrameType /\ Last(s).at \in Places(Last(s).kind)
         /\ Last(s).kind \in {"func", "const"} => Last(s).loops = 0
         /\ Last(s).entry # <<>> \/ Last(s).kind = "func"
         /\ b = Held(Last(s)) /\ b \in Seq(Nat) \ {<<>>}
<1>1. Len(s) \in Nat \ {0} /\ Last(s) \in FrameType /\ Last(s) = s[Len(s)]
  BY FrontFacts
<1>2. Last(s).at \in Places(Last(s).kind)
  BY <1>1 DEF Fits
<1>3. /\ Last(s).entry # <<>> \/ Last(s).kind = "func"
      /\ Last(s).kind \in {"func", "const"} => Last(s).loops = 0
  <2>1. CASE Len(s) = 1
    <3>1. Outermost(Last(s))
      BY <1>1, <2>1 DEF Fits
    <3>2. <<2>> # <<>>
      OBVIOUS
    <3> QED BY <3>1, <3>2 DEF Outermost
  <2>2. CASE Len(s) # 1
    <3>1. Len(s) - 1 \in 1..(Len(s) - 1) /\ Len(s) - 1 + 1 = Len(s)
      <4> DEFINE n == Len(s)
      <4>1. n \in Nat \ {0} /\ n # 1
        BY <1>1, <2>2
      <4> HIDE DEF n
      <4>2. n - 1 \in 1..(n - 1) /\ n - 1 + 1 = n
        BY <4>1
      <4> QED BY <4>2 DEF n
    <3>2. Nested(s[Len(s) - 1], s[Len(s)])
      BY <3>1 DEF Fits
    <3> QED BY <1>1, <3>2 DEF Nested
  <2> QED BY <2>1, <2>2
<1>4. b = Held(Last(s))
  BY DEF Fits
<1>5. b \in Seq(Nat) \ {<<>>}
  BY <1>1, <1>3, <1>4, HeldType
<1> QED BY <1>1, <1>2, <1>3, <1>4, <1>5

\* The last frame may move on, as long as it holds what the scopes hold then.
LEMMA FitMove ==
  ASSUME NEW s \in Seq(FrameType), s # <<>>, NEW b, Fits(s, b),
         NEW g \in FrameType, g.at \in Places(g.kind),
         g.kind = Last(s).kind, g.loops = Last(s).loops, g.entry = Last(s).entry
  PROVE  LET t == [s EXCEPT ![Len(s)] = g] IN
         /\ t \in Seq(FrameType) /\ t # <<>>
         /\ Len(t) = Len(s) /\ Last(t) = g
         /\ t[1].kind = s[1].kind
         /\ Fits(t, Held(g))
<1> DEFINE n == Len(s)
           t == [s EXCEPT ![n] = g]
<1>1. /\ t \in Seq(FrameType) /\ t # <<>>
      /\ Len(t) = n /\ Last(t) = g /\ t[n] = g
      /\ \A i \in 1..(n - 1) : t[i] = s[i]
  BY ReplaceLast
<1>2. n \in Nat \ {0} /\ Last(s) = s[n]
  BY FrontFacts
<1> HIDE DEF n, t
<1>3. t[1].kind = s[1].kind
  <2>1. n = 1 \/ 1 \in 1..(n - 1)
    BY <1>2
  <2> QED BY <1>1, <1>2, <2>1
<1>4. \A i \in 1..Len(t) : t[i].at \in Places(t[i].kind)
  <2>1. \A i \in 1..(n - 1) : s[i].at \in Places(s[i].kind)
    BY <1>2 DEF Fits, n
  <2>2. \A i \in 1..n : i = n \/ i \in 1..(n - 1)
    BY <1>2
  <2> QED BY <1>1, <2>1, <2>2
<1>5. \A i \in 1..Len(t) - 1 : Nested(t[i], t[i + 1])
  <2> TAKE i \in 1..Len(t) - 1
  <2>1. i \in 1..(n - 1) /\ i + 1 \in 1..n /\ (i + 1 = n \/ i + 1 \in 1..(n - 1))
    BY <1>1, <1>2
  <2>2. Nested(s[i], s[i + 1]) /\ t[i] = s[i]
    BY <1>1, <2>1 DEF Fits, n
  <2>3. CASE i + 1 = n
    <3>1. t[i + 1] = g /\ s[i + 1] = Last(s)
      BY <1>1, <1>2, <2>3
    <3> QED BY <2>2, <3>1 DEF Nested
  <2>4. CASE i + 1 \in 1..(n - 1)
    BY <1>1, <2>2, <2>4
  <2> QED BY <2>1, <2>3, <2>4
<1>6. Outermost(t[1])
  <2>1. Outermost(s[1])
    BY DEF Fits
  <2>2. CASE n = 1
    BY <1>1, <1>2, <2>1, <2>2 DEF Outermost
  <2>3. CASE 1 \in 1..(n - 1)
    BY <1>1, <2>1, <2>3
  <2> QED BY <1>2, <2>2, <2>3
<1>7. Fits(t, Held(g))
  BY <1>1, <1>4, <1>5, <1>6 DEF Fits
<1> QED BY <1>1, <1>3, <1>7 DEF n, t

\* A resolve() that is called with the scopes of its caller fits on top of it.
LEMMA FitPush ==
  ASSUME NEW s \in Seq(FrameType), s # <<>>, NEW b, Fits(s, b),
         NEW g \in FrameType, g.at \in Places(g.kind), Nested(Last(s), g)
  PROVE  LET t == Append(s, g) IN
         /\ t \in Seq(FrameType) /\ t # <<>>
         /\ Len(t) = Len(s) + 1 /\ Last(t) = g
         /\ t[1].kind = s[1].kind
         /\ Fits(t, Held(g))
<1> DEFINE n == Len(s)
           t == Append(s, g)
<1>1. /\ t \in Seq(FrameType) /\ t # <<>>
      /\ Len(t) = n + 1 /\ t[n + 1] = g
      /\ \A i \in 1..n : t[i] = s[i]
  BY AppendProperties
<1>2. n \in Nat \ {0} /\ Last(s) = s[n]
  BY FrontFacts
<1> HIDE DEF n, t
<1>3. Last(t) = g
  BY <1>1 DEF Last
<1>4. 1 \in 1..n /\ t[1] = s[1]
  BY <1>1, <1>2
<1>5. \A i \in 1..Len(t) : t[i].at \in Places(t[i].kind)
  <2>1. \A i \in 1..n : s[i].at \in Places(s[i].kind)
    BY DEF Fits, n
  <2>2. \A i \in 1..(n + 1) : i = n + 1 \/ i \in 1..n
    BY <1>2
  <2> QED BY <1>1, <2>1, <2>2
<1>6. \A i \in 1..Len(t) - 1 : Nested(t[i], t[i + 1])
  <2> TAKE i \in 1..Len(t) - 1
  <2>1. i \in 1..n /\ (i = n \/ (i \in 1..(n - 1) /\ i + 1 \in 1..n))
    BY <1>1, <1>2
  <2>2. CASE i = n
    BY <1>1, <1>2, <2>1, <2>2
  <2>3. CASE i \in 1..(n - 1) /\ i + 1 \in 1..n
    <3>1. Nested(s[i], s[i + 1])
      BY <2>3 DEF Fits, n
    <3> QED BY <1>1, <2>1, <2>3, <3>1
  <2> QED BY <2>1, <2>2, <2>3
<1>7. Fits(t, Held(g))
  BY <1>1, <1>3, <1>4, <1>5, <1>6 DEF Fits
<1> QED BY <1>1, <1>3, <1>4, <1>7 DEF n, t

\* When a resolve() returns, its caller fits the scopes it was called with.
LEMMA FitPop ==
  ASSUME NEW s \in Seq(FrameType), s # <<>>, NEW b, Fits(s, b)
  PROVE  LET t == Front(s) IN
         /\ t \in Seq(FrameType)
         /\ t = <<>> => Outermost(Last(s)) /\ Last(s) = s[1]
         /\ t # <<>> => /\ Fits(t, Last(s).entry)
                        /\ Nested(Last(t), Last(s))
                        /\ t[1].kind = s[1].kind
<1> DEFINE n == Len(s)
           t == Front(s)
<1>1. /\ n \in Nat \ {0}
      /\ t \in Seq(FrameType) /\ Len(t) = n - 1
      /\ \A i \in 1..(n - 1) : t[i] = s[i]
      /\ Last(s) = s[n]
  BY FrontFacts
<1> HIDE DEF n, t
<1>2. t = <<>> => n = 1
  <2>1. t = <<>> => Len(t) = 0
    OBVIOUS
  <2> QED BY <1>1, <2>1
<1>3. t = <<>> => Outermost(Last(s)) /\ Last(s) = s[1]
  BY <1>1, <1>2 DEF Fits
<1>4. ASSUME t # <<>>
      PROVE  Fits(t, Last(s).entry) /\ Nested(Last(t), Last(s)) /\ t[1].kind = s[1].kind
  <2>1. n - 1 \in Nat \ {0} /\ Last(t) = t[n - 1]
    <3>1. Len(t) \in Nat \ {0} /\ Last(t) = t[Len(t)]
      BY <1>1, <1>4, FrontFacts
    <3> QED BY <1>1, <3>1
  <2>2. 1 \in 1..(n - 1) /\ n - 1 \in 1..(n - 1) /\ n - 1 + 1 = n
    BY <1>1, <2>1
  <2>3. t[1] = s[1] /\ Last(t) = s[n - 1]
    BY <1>1, <2>1, <2>2
  <2>4. Nested(s[n - 1], s[n - 1 + 1])
    BY <2>2 DEF Fits, n
  <2>5. Nested(Last(t), Last(s))
    BY <1>1, <2>2, <2>3, <2>4
  <2>6. Held(Last(t)) = Last(s).entry
    BY <2>5 DEF Nested
  <2>7. \A i \in 1..Len(t) : t[i].at \in Places(t[i].kind)
    <3>1. \A i \in 1..(n - 1) : i \in 1..n
      BY <1>1
    <3>2. \A i \in 1..n : s[i].at \in Places(s[i].kind)
      BY DEF Fits, n
    <3> QED BY <1>1, <3>1, <3>2
  <2>8. \A i \in 1..Len(t) - 1 : Nested(t[i], t[i + 1])
    <3> TAKE i \in 1..Len(t) - 1
    <3>1. i \in 1..(n - 1) /\ i + 1 \in 1..(n - 1)
      BY <1>1, <2>1
    <3>2. Nested(s[i], s[i + 1])
      BY <3>1 DEF Fits, n
    <3> QED BY <1>1, <3>1, <3>2
  <2>9. Outermost(t[1])
    BY <2>3 DEF Fits
  <2>10. Fits(t, Last(s).entry)
    BY <2>6, <2>7, <2>8, <2>9 DEF Fits
  <2> QED BY <2>3, <2>5, <2>10
<1> QED BY <1>1, <1>3, <1>4 DEF t

\* What each kind of frame holds, and what popping it gives back.
LEMMA Scoping ==
  ASSUME NEW f \in FrameType, f.entry # <<>>
  PROVE  /\ f.kind \in {"while", "for"} /\ f.at = "body" =>
              /\ Held(f) = PushBlock(PushBlock(f.entry))
              /\ PopBlock(Held(f)) = PushBlock(f.entry)
              /\ PopBlock(PopBlock(Held(f))) = f.entry
         /\ f.kind \in {"while", "for"} /\ f.at # "body" =>
              Held(f) = PushBlock(f.entry) /\ PopBlock(Held(f)) = f.entry
         /\ f.kind \in {"if", "foreach", "try"} /\ f.at \in BlockAt =>
              Held(f) = PushBlock(f.entry) /\ PopBlock(Held(f)) = f.entry
         /\ f.kind \in {"if", "foreach", "try"} /\ f.at \notin BlockAt => Held(f) = f.entry
         /\ f.kind \in ExprStatements \cup {"const"} => Held(f) = f.entry
<1>1. f.entry \in Seq(Nat)
  BY DEF FrameType
<1>2. PushBlock(f.entry) \in Seq(Nat) \ {<<>>} /\ PopBlock(PushBlock(f.entry)) = f.entry
  BY <1>1, PopPush
<1>3. PopBlock(PushBlock(PushBlock(f.entry))) = PushBlock(f.entry)
  BY <1>2, PopPush
<1>4. ASSUME f.kind # "func"
      PROVE  /\ Pushed(f) = 0 => Held(f) = f.entry
             /\ Pushed(f) = 1 => Held(f) = PushBlock(f.entry)
             /\ Pushed(f) = 2 => Held(f) = PushBlock(PushBlock(f.entry))
  BY <1>4 DEF Held
<1>5. f.kind \in {"while", "for"} => f.kind # "func" /\ Pushed(f) = IF f.at = "body" THEN 2 ELSE 1
  BY DEF Pushed
<1>6. f.kind \in {"if", "foreach", "try"} =>
        f.kind # "func" /\ Pushed(f) = IF f.at \in BlockAt THEN 1 ELSE 0
  BY DEF Pushed
<1>7. f.kind \in ExprStatements \cup {"const"} => f.kind # "func" /\ Pushed(f) = 0
  BY DEF Pushed, ExprStatements
<1> HIDE DEF PushBlock, PopBlock
<1> QED BY <1>2, <1>3, <1>4, <1>5, <1>6, <1>7

LegalJump == jump.legal /\ (BREAK_COUNTER > 0 \/ CONTINUE_FLAG)

\* The last frame of a stack that satisfies the invariant.
LEMMA TopFacts ==
  ASSUME IInv, InProgress, stack # <<>>
  PROVE  /\ stack \in Seq(FrameType) /\ Fits(stack, blockscope)
         /\ Top \in FrameType /\ Top.at \in Places(Top.kind)
         /\ Top.entry # <<>> \/ Top.kind = "func"
         /\ Top.kind \in {"func", "const"} => Top.loops = 0 /\ ~LegalJump
         /\ blockscope = Held(Top) /\ blockscope \in Seq(Nat) \ {<<>>}
         /\ stack[1].kind = "const" => status = "parsing"
<1>1. stack \in Seq(FrameType) /\ Fits(stack, blockscope)
  BY DEF IInv, TypeOK, StackInv, FrameType
<1>2. /\ Top \in FrameType /\ Top.at \in Places(Top.kind)
      /\ Top.kind \in {"func", "const"} => Top.loops = 0
      /\ Top.entry # <<>> \/ Top.kind = "func"
      /\ blockscope = Held(Top) /\ blockscope \in Seq(Nat) \ {<<>>}
  BY <1>1, FitLast DEF Top
<1>3. ASSUME Top.kind \in {"func", "const"} PROVE ~LegalJump
  <2> SUFFICES ASSUME LegalJump PROVE FALSE
    OBVIOUS
  <2>1. 0 = jump.kept + BREAK_COUNTER /\ (CONTINUE_FLAG => jump.kept > 0)
    BY <1>2, <1>3 DEF IInv, JumpExact, LegalJump
  <2>2. jump.kept \in Nat /\ BREAK_COUNTER \in Nat
    BY BoundsAssumption DEF IInv, TypeOK
  <2> QED BY <2>1, <2>2 DEF LegalJump
<1>4. stack[1].kind = "const" => status = "parsing"
  BY DEF IInv, StackInv
<1> QED BY <1>1, <1>2, <1>3, <1>4

\* A break or continue that is under way meets neither an expression nor a
\* block that may take another statement.
LEMMA NoJumpHere ==
  ASSUME IInv, AtExpr \/ AtStatement
  PROVE  ~LegalJump
<1>1. CASE AtExpr
  BY <1>1 DEF IInv, JumpExact, CallsReturnClean, LegalJump, AtExpr, TypeOK
<1>2. CASE AtStatement
  <2>1. InProgress /\ stack # <<>> /\ (ctl = "exec" \/ Top.kind = "func" \/ ~Pending)
    BY <1>2 DEF AtStatement, InBlock
  <2>2. CASE ctl = "exec"
    BY <2>2 DEF IInv, JumpExact, LegalJump
  <2>3. CASE Top.kind = "func"
    BY <2>1, <2>3, TopFacts
  <2>4. CASE ~Pending
    BY <2>4 DEF Pending, LegalJump
  <2> QED BY <2>1, <2>2, <2>3, <2>4
<1> QED BY <1>1, <1>2

Inside == IInv /\ InProgress /\ stack # <<>>

\* A frame that moves on keeps the invariant, when the scopes move on with it.
LEMMA Going ==
  ASSUME Inside, NEW place \in Places(Top.kind) \cap (BlockAt \cup ExprAt), Goto(place),
         blockscope' = Held([Top EXCEPT !.at = place, !.left = MaxBlock]),
         UNCHANGED <<control, jump, BREAK_COUNTER>>, error' \in Errors,
         FORCE_RETURN' \in BOOLEAN, CONTINUE_FLAG' \in BOOLEAN,
         ~LegalJump', jump.legal /\ CONTINUE_FLAG' => jump.kept > 0
  PROVE  IInv'
<1> DEFINE g == [Top EXCEPT !.at = place, !.left = MaxBlock]
<1>1. /\ stack \in Seq(FrameType) /\ stack # <<>> /\ Fits(stack, blockscope)
      /\ Top \in FrameType /\ (stack[1].kind = "const" => status = "parsing")
  BY TopFacts DEF Inside
<1>2. /\ g \in FrameType /\ g.at = place /\ g.kind = Top.kind
      /\ g.loops = Top.loops /\ g.entry = Top.entry
  <2>1. MaxBlock \in 0..MaxBlock /\ place \in BlockAt \cup ExprAt
    BY BoundsAssumption
  <2>2. g \in FrameType
    BY <1>1, <2>1 DEF FrameType
  <2> QED BY <1>1, <2>2 DEF FrameType
<1> HIDE DEF g
<1>3. /\ stack' = [stack EXCEPT ![Len(stack)] = g] /\ ctl' = "exec" /\ blockscope' = Held(g)
      /\ status' = status /\ todo' = todo
  BY DEF Goto, WithTop, g, control
<1>4. /\ stack' \in Seq(FrameType) /\ stack' # <<>>
      /\ stack'[1].kind = stack[1].kind /\ Fits(stack', blockscope')
  BY <1>1, <1>2, <1>3, FitMove DEF Top
<1>5. TypeOK'
  <2>1. blockscope' \in Seq(Nat)
    BY <1>4, FitLast
  <2> QED BY <1>3, <1>4, <2>1 DEF Inside, IInv, TypeOK, FrameType
<1>6. StackInv'
  BY <1>1, <1>3, <1>4 DEF Inside, StackInv, InProgress
<1>7. JumpExact' /\ CallsReturnClean'
  BY <1>3 DEF JumpExact, CallsReturnClean, LegalJump
<1>8. (jump.legal /\ CONTINUE_FLAG => jump.kept > 0)'
  OBVIOUS
<1> QED BY <1>5, <1>6, <1>7, <1>8 DEF IInv

\* So does a resolve() that returns with the scopes it was called with, if the
\* jump that is under way, if any, still has to leave the loops that remain.
LEMMA Leaving ==
  ASSUME Inside, Top.kind \notin {"func", "const"}, Leave, blockscope' = Top.entry,
         UNCHANGED <<control, jump>>, error' \in Errors, BREAK_COUNTER' \in 0..MaxBreak,
         FORCE_RETURN' \in BOOLEAN, CONTINUE_FLAG' \in BOOLEAN,
         jump.legal /\ CONTINUE_FLAG' => jump.kept > 0,
         LegalJump' =>
           /\ error' = NoError /\ ~FORCE_RETURN' /\ (CONTINUE_FLAG' => BREAK_COUNTER' = 0)
           /\ Top.loops = jump.kept + BREAK_COUNTER' + IF Top.kind \in Loops THEN 1 ELSE 0
  PROVE  IInv'
<1>1. /\ stack \in Seq(FrameType) /\ stack # <<>> /\ Fits(stack, blockscope)
      /\ Top \in FrameType /\ (stack[1].kind = "const" => status = "parsing")
  BY TopFacts DEF Inside
<1>2. stack' = Front(stack) /\ ctl' = "back" /\ status' = status /\ todo' = todo
  BY DEF Leave, control
<1>3. stack' \in Seq(FrameType) /\ (stack' = <<>> => Outermost(Top))
  BY <1>1, <1>2, FitPop DEF Top
<1>4. stack' # <<>>
  BY <1>3 DEF Outermost
<1>5. Fits(stack', Top.entry) /\ Nested(Last(stack'), Top) /\ stack'[1].kind = stack[1].kind
  BY <1>1, <1>2, <1>4, FitPop DEF Top
<1>6. Last(stack') \in FrameType
  BY <1>3, <1>4, <1>5, FitLast
<1>7. /\ Last(stack').at \notin ExprAt
      /\ Top.loops = Last(stack').loops + IF Top.kind \in Loops THEN 1 ELSE 0
  BY <1>5 DEF Nested
<1>8. TypeOK'
  <2>1. blockscope' \in Seq(Nat)
    BY <1>1 DEF FrameType
  <2> QED BY <1>2, <1>3, <2>1 DEF Inside, IInv, TypeOK, FrameType
<1>9. StackInv'
  BY <1>1, <1>2, <1>4, <1>5 DEF Inside, StackInv, InProgress
<1>10. JumpExact'
  <2> SUFFICES ASSUME LegalJump'
               PROVE  Last(stack').loops = jump.kept + BREAK_COUNTER'
    BY <1>2, <1>4 DEF JumpExact, LegalJump, Top
  <2>1. Last(stack').loops \in Nat /\ jump.kept \in Nat /\ BREAK_COUNTER' \in Nat
    BY <1>6, BoundsAssumption DEF FrameType, Inside, IInv, TypeOK
  <2> QED BY <1>7, <2>1
<1>11. CallsReturnClean'
  BY <1>7 DEF CallsReturnClean, AtExpr, Top
<1>12. (jump.legal /\ CONTINUE_FLAG => jump.kept > 0)'
  OBVIOUS
<1> QED BY <1>8, <1>9, <1>10, <1>11, <1>12 DEF IInv

\* And so does a resolve() that is called.
LEMMA Calling ==
  ASSUME Inside, NEW g \in FrameType, g.at \in Places(g.kind), Nested(Top, g),
         NEW f \in FrameType, f.at \in Places(f.kind), Held(f) = Held(Top),
         f.kind = Top.kind, f.loops = Top.loops, f.entry = Top.entry, f.at = Top.at,
         stack' = Append(WithTop(f), g), ctl' = "exec",
         blockscope' = Held(g), UNCHANGED <<control, flags, error, jump>>, ~LegalJump
  PROVE  IInv'
<1> DEFINE s == WithTop(f)
<1>1. /\ stack \in Seq(FrameType) /\ stack # <<>> /\ Fits(stack, blockscope)
      /\ Top \in FrameType /\ (stack[1].kind = "const" => status = "parsing")
  BY TopFacts DEF Inside
<1>2. /\ s \in Seq(FrameType) /\ s # <<>> /\ Last(s) = f
      /\ s[1].kind = stack[1].kind /\ Fits(s, Held(f))
  BY <1>1, FitMove DEF Top, WithTop
<1>3. Nested(f, g)
  BY DEF Nested
<1> HIDE DEF s
<1>4. stack' = Append(s, g)
  BY DEF s
<1>5. /\ stack' \in Seq(FrameType) /\ stack' # <<>>
      /\ stack'[1].kind = s[1].kind /\ Last(stack') = g /\ Fits(stack', blockscope')
  BY <1>2, <1>3, <1>4, FitPush
<1>6. blockscope' \in Seq(Nat)
  BY <1>5, FitLast
<1>7. TypeOK'
  BY <1>5, <1>6 DEF Inside, IInv, TypeOK, FrameType, control, flags
<1>8. StackInv'
  BY <1>1, <1>2, <1>5 DEF Inside, IInv, StackInv, InProgress, control
<1>9. JumpExact' /\ CallsReturnClean'
  BY DEF JumpExact, CallsReturnClean, LegalJump, flags
<1>10. (jump.legal /\ CONTINUE_FLAG => jump.kept > 0)'
  BY DEF Inside, IInv, flags
<1> QED BY <1>7, <1>8, <1>9, <1>10 DEF IInv

\* Where an expression is evaluated.
LEMMA ExprFacts ==
  ASSUME IInv, AtExpr
  PROVE  /\ Inside /\ ~LegalJump
         /\ Top \in FrameType /\ Top.at \in Places(Top.kind) \cap ExprAt
         /\ Top.kind \notin {"func", "const"} /\ Top.entry # <<>>
         /\ blockscope = Held(Top)
<1>1. Inside /\ ~LegalJump /\ Top.at \in ExprAt
  BY NoJumpHere DEF Inside, AtExpr
<1>2. /\ Top \in FrameType /\ Top.at \in Places(Top.kind)
      /\ blockscope = Held(Top) /\ (Top.entry # <<>> \/ Top.kind = "func")
  BY <1>1, TopFacts DEF Inside
<1>3. Top.kind \notin {"func", "const"}
  BY <1>1, <1>2 DEF Places, ExprAt
<1> QED BY <1>1, <1>2, <1>3

\* Where Block::iterate has returned.
LEMMA BlockFacts ==
  ASSUME IInv, NEW kind, NEW place, Iterated(kind, place), kind # "func"
  PROVE  /\ Inside
         /\ Top \in FrameType /\ Top.kind = kind /\ Top.at = place
         /\ place \in BlockAt /\ Top.entry # <<>>
         /\ blockscope = Held(Top)
         /\ LegalJump => kind # "const"
  BY TopFacts DEF Iterated, InBlock, Inside

\* An operand yields nothing but the errors there are.
LEMMA Evaluated ==
  ASSUME IInv, NEW truth, NEW err, Evaluates(truth, err)
  PROVE  err \in Errors
  BY DEF Evaluates, Errors, IInv, TypeOK

\* The part of an expression is evaluated and the resolve() around it returns.
LEMMA ExprLeaves ==
  ASSUME IInv, AtExpr, Leave, blockscope' = Top.entry, error' \in Errors,
         UNCHANGED <<control, BREAK_COUNTER, CONTINUE_FLAG, jump>>,
         FORCE_RETURN' \in BOOLEAN
  PROVE  IInv'
<1>1. Inside /\ ~LegalJump /\ Top.kind \notin {"func", "const"}
  BY ExprFacts
<1>2. ~LegalJump'
  BY <1>1 DEF LegalJump
<1>3. /\ BREAK_COUNTER' \in 0..MaxBreak /\ CONTINUE_FLAG' \in BOOLEAN
      /\ jump.legal /\ CONTINUE_FLAG' => jump.kept > 0
  BY DEF IInv, TypeOK
<1> QED BY <1>1, <1>2, <1>3, Leaving

\* The part of an expression is evaluated and the same resolve() goes on.
LEMMA ExprGoes ==
  ASSUME IInv, AtExpr, NEW place \in Places(Top.kind) \cap (BlockAt \cup ExprAt), Goto(place),
         blockscope' = Held([Top EXCEPT !.at = place, !.left = MaxBlock]),
         UNCHANGED <<control, flags, jump>>, error' \in Errors
  PROVE  IInv'
<1>1. Inside /\ ~LegalJump
  BY ExprFacts
<1>2. ~LegalJump' /\ UNCHANGED <<control, jump, BREAK_COUNTER>>
  BY <1>1 DEF LegalJump, flags
<1>3. /\ FORCE_RETURN' \in BOOLEAN /\ CONTINUE_FLAG' \in BOOLEAN
      /\ jump.legal /\ CONTINUE_FLAG' => jump.kept > 0
  BY DEF IInv, TypeOK, flags
<1> QED BY <1>1, <1>2, <1>3, Going

\* What a frame holds depends on its kind, its place and where it was called.
LEMMA Placing ==
  ASSUME NEW f \in FrameType, f.entry # <<>>, NEW place \in BlockAt \cup ExprAt
  PROVE  LET g == [f EXCEPT !.at = place, !.left = MaxBlock] IN
         /\ f.kind \in {"while", "for"} /\ place = "body" => Held(g) = PushBlock(PushBlock(f.entry))
         /\ f.kind \in {"while", "for"} /\ place # "body" => Held(g) = PushBlock(f.entry)
         /\ f.kind \in {"if", "foreach", "try"} /\ place \in BlockAt => Held(g) = PushBlock(f.entry)
         /\ f.kind \in {"if", "foreach", "try"} /\ place \notin BlockAt => Held(g) = f.entry
         /\ f.kind \in ExprStatements \cup {"const"} => Held(g) = f.entry
<1> DEFINE g == [f EXCEPT !.at = place, !.left = MaxBlock]
<1>1. MaxBlock \in 0..MaxBlock
  BY BoundsAssumption
<1>2. g \in FrameType
  BY <1>1 DEF FrameType
<1>3. g.kind = f.kind /\ g.entry = f.entry /\ g.at = place
  BY DEF FrameType
<1> HIDE DEF g
<1>4. g.entry # <<>>
  BY <1>3
<1>5. /\ f.kind \in {"while", "for"} /\ place = "body" => Held(g) = PushBlock(PushBlock(f.entry))
      /\ f.kind \in {"while", "for"} /\ place # "body" => Held(g) = PushBlock(f.entry)
      /\ f.kind \in {"if", "foreach", "try"} /\ place \in BlockAt => Held(g) = PushBlock(f.entry)
      /\ f.kind \in {"if", "foreach", "try"} /\ place \notin BlockAt => Held(g) = f.entry
      /\ f.kind \in ExprStatements \cup {"const"} => Held(g) = f.entry
  BY <1>2, <1>3, <1>4, Scoping
<1> QED BY <1>5 DEF g

\* A statement or a function called by an expression begins.
LEMMA BeginStep ==
  ASSUME IInv, NEW kind \in ExprStatements \cup Compounds, Begin(kind)
  PROVE  IInv'
<1> DEFINE f == [Top EXCEPT !.left = @ - 1]
           nested == Top.loops + IF kind \in Loops THEN 1 ELSE 0
           g == Frame(kind, nested)
<1>1. Inside /\ AtStatement /\ Top.left > 0 /\ Top.at \in BlockAt /\ ~LegalJump
  BY NoJumpHere DEF Begin, AtStatement, InBlock, Inside
<1>2. /\ Top \in FrameType /\ Top.at \in Places(Top.kind)
      /\ blockscope = Held(Top) /\ blockscope \in Seq(Nat) \ {<<>>}
  BY <1>1, TopFacts DEF Inside
<1>3. Top.left \in 0..MaxBlock /\ Top.left - 1 \in 0..MaxBlock
  BY <1>1, <1>2, BoundsAssumption DEF FrameType
<1>4. /\ f \in FrameType /\ f.at = Top.at /\ f.kind = Top.kind
      /\ f.loops = Top.loops /\ f.entry = Top.entry
  BY <1>2, <1>3 DEF FrameType
<1>5. Held(f) = Held(Top)
  BY <1>4 DEF Held, Pushed
<1>6. /\ kind \in Kinds /\ kind \notin {"func", "const"}
      /\ FirstAt(kind) \in Places(kind) /\ FirstAt(kind) \in BlockAt \cup ExprAt
  BY DEF Kinds, Compounds, Loops, ExprStatements, FirstAt, Places, BlockAt, ExprAt
<1>7. nested \in Nat
  BY <1>2 DEF FrameType
<1> HIDE DEF nested, f
<1>8. /\ g \in FrameType /\ g.kind = kind /\ g.at = FirstAt(kind)
      /\ g.loops = nested /\ g.entry = blockscope
  <2>1. MaxBlock \in 0..MaxBlock
    BY BoundsAssumption
  <2> QED BY <1>2, <1>6, <1>7, <2>1 DEF Frame, FrameType
<1>9. stack' = Append(WithTop(f), g) /\ ctl' = "exec"
  BY DEF Begin, Spend, f, nested
<1>10. blockscope' = IF kind \in {"while", "for", "try"} THEN PushBlock(blockscope) ELSE blockscope
  BY DEF Begin
<1> HIDE DEF g
<1>11. blockscope' = Held(g)
  <2>1. g.entry # <<>>
    BY <1>2, <1>8
  <2>2. CASE kind \in {"while", "for"}
    <3>1. g.at # "body"
      BY <1>8, <2>2 DEF FirstAt
    <3>2. Held(g) = PushBlock(g.entry)
      BY <1>8, <2>1, <2>2, <3>1, Scoping
    <3> QED BY <1>8, <1>10, <2>2, <3>2
  <2>3. CASE kind = "try"
    <3>1. g.at \in BlockAt
      BY <1>8, <2>3 DEF FirstAt, BlockAt
    <3>2. Held(g) = PushBlock(g.entry)
      BY <1>8, <2>1, <2>3, <3>1, Scoping
    <3> QED BY <1>8, <1>10, <2>3, <3>2
  <2>4. CASE kind \in {"if", "foreach"}
    <3>1. g.at \notin BlockAt
      BY <1>8, <2>4 DEF FirstAt, BlockAt
    <3>2. Held(g) = g.entry
      BY <1>8, <2>1, <2>4, <3>1, Scoping
    <3> QED BY <1>8, <1>10, <2>4, <3>2
  <2>5. CASE kind \in ExprStatements
    <3>1. Held(g) = g.entry
      BY <1>8, <2>1, <2>5, Scoping
    <3> QED BY <1>8, <1>10, <2>5, <3>1 DEF ExprStatements
  <2> QED BY <2>2, <2>3, <2>4, <2>5 DEF Compounds, Loops
<1>12. Nested(Top, g)
  <2>1. Top.at \notin ExprAt
    BY <1>1 DEF BlockAt, ExprAt
  <2> QED BY <1>2, <1>6, <1>8, <2>1 DEF Nested, nested
<1>13. UNCHANGED <<control, flags, error, jump>>
  BY DEF Begin
<1> QED BY <1>1, <1>2, <1>4, <1>5, <1>6, <1>8, <1>9, <1>11, <1>12, <1>13, Calling

\* A function is called: its resolve() begins in a scope stack of its own.
LEMMA CallFunctionStep ==
  ASSUME IInv, CallFunction
  PROVE  IInv'
<1> DEFINE f == [Top EXCEPT !.left = @ - 1]
           g == Frame("func", 0)
<1>1. AtExpr /\ Inside /\ ~LegalJump /\ Top.left > 0
  BY ExprFacts DEF CallFunction
<1>2. /\ Top \in FrameType /\ Top.at \in Places(Top.kind) \cap ExprAt
      /\ blockscope = Held(Top)
  BY <1>1, ExprFacts
<1>3. blockscope \in Seq(Nat) \ {<<>>}
  BY <1>1, TopFacts DEF Inside
<1>4. Top.left \in 0..MaxBlock /\ Top.left - 1 \in 0..MaxBlock
  BY <1>1, <1>2, BoundsAssumption DEF FrameType
<1>5. /\ f \in FrameType /\ f.at = Top.at /\ f.kind = Top.kind
      /\ f.loops = Top.loops /\ f.entry = Top.entry
  BY <1>2, <1>4 DEF FrameType
<1>6. Held(f) = Held(Top)
  BY <1>5 DEF Held, Pushed
<1> HIDE DEF f
<1>7. /\ g \in FrameType /\ g.kind = "func" /\ g.at = "body"
      /\ g.loops = 0 /\ g.entry = blockscope
  <2>1. MaxBlock \in 0..MaxBlock
    BY BoundsAssumption
  <2> QED BY <1>3, <2>1 DEF Frame, FrameType, FirstAt, Kinds, BlockAt
<1>8. /\ stack' = Append(WithTop(f), g) /\ ctl' = "exec"
      /\ blockscope' = PushStack(blockscope)
      /\ UNCHANGED <<control, flags, error, jump>>
  BY DEF CallFunction, Spend, f
<1> HIDE DEF g
<1>9. blockscope' = Held(g)
  BY <1>7, <1>8 DEF Held
<1>10. Nested(Top, g)
  BY <1>2, <1>3, <1>7 DEF Nested
<1>11. g.at \in Places(g.kind) /\ f.at \in Places(f.kind)
  BY <1>2, <1>5, <1>7 DEF Places
<1> QED BY <1>1, <1>2, <1>5, <1>6, <1>7, <1>8, <1>9, <1>10, <1>11, Calling

\* The statements that only evaluate expressions.
LEMMA ExprStatementStep ==
  ASSUME IInv, CallStatement \/ AssignRhs \/ AssignLhs \/ ReturnStatement \/ ThrowStatement
  PROVE  IInv'
<1>1. AtExpr
  BY DEF CallStatement, AssignRhs, AssignLhs, ReturnStatement, ThrowStatement
<1>2. /\ Top \in FrameType /\ Top.at \in Places(Top.kind) \cap ExprAt /\ Top.entry # <<>>
      /\ blockscope = Held(Top) /\ Top.kind \notin {"func", "const"}
  BY <1>1, ExprFacts
<1>3. Top.kind \in ExprStatements => blockscope = Top.entry
  BY <1>2, Scoping
<1>4. FORCE_RETURN \in BOOLEAN
  BY DEF IInv, TypeOK
<1>5. CASE CallStatement
  <2>1. error' \in Errors
    BY <1>5, Evaluated DEF CallStatement
  <2>2. blockscope' = Top.entry
    BY <1>3, <1>5 DEF CallStatement, ExprStatements
  <2> QED BY <1>1, <1>4, <1>5, <2>1, <2>2, ExprLeaves DEF CallStatement, flags
<1>6. CASE AssignRhs
  <2>1. error' \in Errors
    BY <1>6, Evaluated DEF AssignRhs
  <2>2. Top.kind = "assign"
    BY <1>2, <1>6 DEF AssignRhs, Places, ExprAt
  <2>3. "lhs" \in Places(Top.kind) \cap (BlockAt \cup ExprAt)
    BY <2>2 DEF Places, ExprAt
  <2>4. blockscope' = Held([Top EXCEPT !.at = "lhs", !.left = MaxBlock])
    <3>1. Held([Top EXCEPT !.at = "lhs", !.left = MaxBlock]) = Top.entry
      BY <1>2, <2>2, <2>3, Placing DEF ExprStatements
    <3> QED BY <1>3, <1>6, <2>2, <3>1 DEF AssignRhs, ExprStatements
  <2> QED BY <1>1, <1>6, <2>1, <2>3, <2>4, ExprGoes DEF AssignRhs
<1>7. CASE AssignLhs
  <2>1. error' \in Errors
    BY <1>7, Evaluated DEF AssignLhs
  <2>2. Top.kind = "assign"
    BY <1>2, <1>7 DEF AssignLhs, Places, ExprAt
  <2>3. blockscope' = Top.entry
    BY <1>3, <1>7, <2>2 DEF AssignLhs, ExprStatements
  <2> QED BY <1>1, <1>4, <1>7, <2>1, <2>3, ExprLeaves DEF AssignLhs, flags
<1>8. CASE ReturnStatement
  <2>1. error' \in Errors
    BY <1>8, Evaluated DEF ReturnStatement
  <2>2. blockscope' = Top.entry
    BY <1>3, <1>8 DEF ReturnStatement, ExprStatements
  <2> QED BY <1>1, <1>8, <2>1, <2>2, ExprLeaves DEF ReturnStatement
<1>9. CASE ThrowStatement
  <2>1. error' \in Errors
    BY <1>9, Evaluated DEF ThrowStatement, Errors
  <2>2. blockscope' = Top.entry
    BY <1>3, <1>9 DEF ThrowStatement, ExprStatements
  <2> QED BY <1>1, <1>4, <1>9, <2>1, <2>2, ExprLeaves DEF ThrowStatement, flags
<1> QED BY <1>5, <1>6, <1>7, <1>8, <1>9

\* A block, or the condition of an if, gives up one of its statements.
LEMMA Spending ==
  ASSUME Inside, Top.left > 0, stack' = Spend, UNCHANGED <<control, blockscope>>
  PROVE  /\ stack' \in Seq(FrameType) /\ stack' # <<>> /\ StackInv'
         /\ Last(stack').at = Top.at /\ Last(stack').loops = Top.loops
<1> DEFINE f == [Top EXCEPT !.left = @ - 1]
<1>1. /\ stack \in Seq(FrameType) /\ stack # <<>> /\ Fits(stack, blockscope)
      /\ Top \in FrameType /\ Top.at \in Places(Top.kind) /\ blockscope = Held(Top)
      /\ stack[1].kind = "const" => status = "parsing"
  BY TopFacts DEF Inside
<1>2. Top.left - 1 \in 0..MaxBlock
  BY <1>1, BoundsAssumption DEF FrameType
<1>3. /\ f \in FrameType /\ f.at = Top.at /\ f.kind = Top.kind
      /\ f.loops = Top.loops /\ f.entry = Top.entry
  BY <1>1, <1>2 DEF FrameType
<1>4. Held(f) = Held(Top)
  BY <1>3 DEF Held, Pushed
<1>5. stack' = [stack EXCEPT ![Len(stack)] = f]
  BY DEF Spend, WithTop
<1> HIDE DEF f
<1>6. /\ stack' \in Seq(FrameType) /\ stack' # <<>> /\ Last(stack') = f
      /\ stack'[1].kind = stack[1].kind /\ Fits(stack', blockscope')
  BY <1>1, <1>3, <1>4, <1>5, FitMove DEF Top
<1>7. StackInv'
  BY <1>1, <1>6 DEF Inside, StackInv, InProgress, control
<1> QED BY <1>3, <1>6, <1>7

\* The conditions of if, while and for, the clauses of for, the table of foreach.
LEMMA ConditionStep ==
  ASSUME IInv, \/ IfTaken \/ IfFails \/ ConditionHolds \/ ConditionFails \/ ForClause
               \/ ForEachEnters \/ ForEachRefuses
  PROVE  IInv'
<1>1. AtExpr
  BY DEF IfTaken, IfFails, ConditionHolds, ConditionFails, ForClause, ForEachEnters, ForEachRefuses
<1>2. /\ Top \in FrameType /\ Top.at \in Places(Top.kind) \cap ExprAt /\ Top.entry # <<>>
      /\ blockscope = Held(Top) /\ Top.at \notin BlockAt /\ Top.at # "body"
  BY <1>1, ExprFacts DEF BlockAt, ExprAt
<1>3. Top.kind \in {"if", "foreach"} => blockscope = Top.entry
  BY <1>2, Scoping
<1>4. Top.kind \in {"while", "for"} =>
        blockscope = PushBlock(Top.entry) /\ PopBlock(blockscope) = Top.entry
  BY <1>2, Scoping
<1>5. FORCE_RETURN \in BOOLEAN
  BY DEF IInv, TypeOK
<1>6. "body" \in BlockAt \cup ExprAt /\ "cond" \in BlockAt \cup ExprAt /\ "body" \in BlockAt
  BY DEF BlockAt, ExprAt
<1> DEFINE g(place) == [Top EXCEPT !.at = place, !.left = MaxBlock]
<1>7. /\ Top.kind \in {"if", "foreach"} => Held(g("body")) = PushBlock(Top.entry)
      /\ Top.kind \in {"while", "for"} => /\ Held(g("body")) = PushBlock(PushBlock(Top.entry))
                                          /\ Held(g("cond")) = PushBlock(Top.entry)
  <2>1. /\ Top.kind \in {"if", "foreach"} => Held(g("body")) = PushBlock(Top.entry)
        /\ Top.kind \in {"while", "for"} => Held(g("body")) = PushBlock(PushBlock(Top.entry))
    BY <1>2, <1>6, Placing
  <2>2. Top.kind \in {"while", "for"} => Held(g("cond")) = PushBlock(Top.entry)
    BY <1>2, <1>6, Placing
  <2> QED BY <2>1, <2>2
<1>8. CASE IfTaken
  <2>1. error' \in Errors
    BY <1>8, Evaluated DEF IfTaken
  <2>2. "body" \in Places(Top.kind) \cap (BlockAt \cup ExprAt)
    BY <1>6, <1>8 DEF IfTaken, Places
  <2>3. blockscope' = Held(g("body"))
    BY <1>3, <1>7, <1>8 DEF IfTaken
  <2> QED BY <1>1, <1>8, <2>1, <2>2, <2>3, ExprGoes DEF IfTaken
<1>9. CASE IfFails
  <2>1. error' \in Errors
    BY <1>9, Evaluated DEF IfFails
  <2>2. Top.kind = "if" /\ UNCHANGED <<control, flags, jump>>
    BY <1>9 DEF IfFails
  <2>3. CASE Leave /\ UNCHANGED blockscope
    <3>1. blockscope' = Top.entry
      BY <1>3, <2>2, <2>3
    <3> QED BY <1>1, <1>5, <2>1, <2>2, <2>3, <3>1, ExprLeaves DEF flags
  <2>4. CASE Top.left > 0 /\ stack' = Spend /\ ctl' = "exec" /\ UNCHANGED blockscope
    <3>1. Inside /\ ~LegalJump
      BY <1>1, ExprFacts
    <3>2. UNCHANGED <<control, blockscope>>
      BY <2>2, <2>4
    <3>3. stack' \in Seq(FrameType) /\ StackInv'
      BY <2>4, <3>1, <3>2, Spending
    <3>4. TypeOK'
      BY <2>1, <2>2, <2>4, <3>3 DEF IInv, TypeOK, FrameType, flags, control
    <3>5. JumpExact' /\ CallsReturnClean' /\ (jump.legal /\ CONTINUE_FLAG => jump.kept > 0)'
      BY <2>2, <2>4, <3>1 DEF JumpExact, CallsReturnClean, LegalJump, IInv, flags
    <3> QED BY <3>3, <3>4, <3>5 DEF IInv
  <2>5. CASE Goto("body") /\ blockscope' = PushBlock(blockscope)
    <3>1. "body" \in Places(Top.kind) \cap (BlockAt \cup ExprAt)
      BY <1>6, <2>2 DEF Places
    <3>2. blockscope' = Held(g("body"))
      BY <1>3, <1>7, <2>2, <2>5
    <3> QED BY <1>1, <2>1, <2>2, <2>5, <3>1, <3>2, ExprGoes
  <2> QED BY <1>9, <2>3, <2>4, <2>5 DEF IfFails
<1>10. CASE ConditionHolds
  <2>1. error' \in Errors
    BY <1>10, Evaluated DEF ConditionHolds
  <2>2. "body" \in Places(Top.kind) \cap (BlockAt \cup ExprAt)
    BY <1>6, <1>10 DEF ConditionHolds, Places
  <2>3. blockscope' = Held(g("body"))
    BY <1>4, <1>7, <1>10 DEF ConditionHolds
  <2> QED BY <1>1, <1>10, <2>1, <2>2, <2>3, ExprGoes DEF ConditionHolds
<1>11. CASE ConditionFails
  <2>1. error' \in Errors
    BY <1>11, Evaluated DEF ConditionFails
  <2>2. blockscope' = Top.entry
    BY <1>4, <1>11 DEF ConditionFails
  <2> QED BY <1>1, <1>5, <1>11, <2>1, <2>2, ExprLeaves DEF ConditionFails, flags
<1>12. CASE ForClause
  <2>1. error' \in Errors
    BY <1>12, Evaluated DEF ForClause
  <2>2. Top.kind = "for"
    BY <1>2, <1>12 DEF ForClause, Places
  <2>3. "cond" \in Places(Top.kind) \cap (BlockAt \cup ExprAt)
    BY <1>6, <2>2 DEF Places
  <2>4. blockscope' = Held(g("cond"))
    BY <1>4, <1>7, <1>12, <2>2 DEF ForClause
  <2> QED BY <1>1, <1>12, <2>1, <2>3, <2>4, ExprGoes DEF ForClause
<1>13. ASSUME ForEachEnters \/ ForEachRefuses PROVE Top.kind = "foreach"
  BY <1>2, <1>13 DEF ForEachEnters, ForEachRefuses, Places
<1>14. CASE ForEachEnters
  <2>1. error' \in Errors
    BY <1>14, Evaluated DEF ForEachEnters
  <2>2. CASE Goto("body") /\ blockscope' = PushBlock(blockscope)
    <3>1. "body" \in Places(Top.kind) \cap (BlockAt \cup ExprAt)
      BY <1>6, <1>13, <1>14 DEF Places
    <3>2. blockscope' = Held(g("body"))
      BY <1>3, <1>7, <1>13, <1>14, <2>2
    <3> QED BY <1>1, <1>14, <2>1, <2>2, <3>1, <3>2, ExprGoes DEF ForEachEnters
  <2>3. CASE Leave /\ UNCHANGED blockscope
    <3>1. blockscope' = Top.entry
      BY <1>3, <1>13, <1>14, <2>3
    <3> QED BY <1>1, <1>5, <1>14, <2>1, <2>3, <3>1, ExprLeaves DEF ForEachEnters, flags
  <2> QED BY <1>14, <2>2, <2>3 DEF ForEachEnters
<1>15. CASE ForEachRefuses
  <2>1. error' \in Errors
    BY <1>15 DEF ForEachRefuses, Errors
  <2>2. blockscope' = Top.entry
    BY <1>3, <1>13, <1>15 DEF ForEachRefuses
  <2> QED BY <1>1, <1>5, <1>15, <2>1, <2>2, ExprLeaves DEF ForEachRefuses, flags
<1> QED BY <1>8, <1>9, <1>10, <1>11, <1>12, <1>14, <1>15

\* A compound statement returns when its block has been iterated.
LEMMA BlockLeaves ==
  ASSUME IInv, NEW kind \in Compounds, NEW place, Iterated(kind, place),
         Leave, blockscope' = Top.entry,
         UNCHANGED <<control, jump, FORCE_RETURN, error>>, BREAK_COUNTER' \in 0..MaxBreak,
         CONTINUE_FLAG' \in BOOLEAN, CONTINUE_FLAG' => CONTINUE_FLAG,
         LegalJump' => /\ LegalJump /\ CONTINUE_FLAG' = CONTINUE_FLAG
                       /\ IF kind \in Loops THEN BREAK_COUNTER = BREAK_COUNTER' + 1
                                            ELSE BREAK_COUNTER = BREAK_COUNTER'
  PROVE  IInv'
<1>1. Inside /\ Top \in FrameType /\ Top.kind = kind /\ kind \notin {"func", "const"}
  BY BlockFacts DEF Compounds, Loops
<1>2. /\ error' \in Errors /\ FORCE_RETURN' \in BOOLEAN
      /\ jump.legal /\ CONTINUE_FLAG' => jump.kept > 0
  BY DEF IInv, TypeOK
<1>3. ASSUME LegalJump'
      PROVE  /\ error' = NoError /\ ~FORCE_RETURN' /\ (CONTINUE_FLAG' => BREAK_COUNTER' = 0)
             /\ Top.loops = jump.kept + BREAK_COUNTER' + IF Top.kind \in Loops THEN 1 ELSE 0
  <2>1. /\ error = NoError /\ ~FORCE_RETURN /\ (CONTINUE_FLAG => BREAK_COUNTER = 0)
        /\ Top.loops = jump.kept + BREAK_COUNTER
    BY <1>3 DEF IInv, JumpExact, LegalJump
  <2>2. jump.kept \in Nat /\ BREAK_COUNTER' \in Nat /\ BREAK_COUNTER \in Nat
    BY BoundsAssumption DEF IInv, TypeOK
  <2>3. error' = NoError /\ ~FORCE_RETURN'
    BY <2>1
  <2>4. CASE kind \in Loops
    <3>1. BREAK_COUNTER = BREAK_COUNTER' + 1
      BY <1>3, <2>4
    <3>2. ~CONTINUE_FLAG'
      <4>1. BREAK_COUNTER # 0
        <5> DEFINE n == BREAK_COUNTER'
        <5>1. n \in Nat /\ BREAK_COUNTER = n + 1
          BY <2>2, <3>1
        <5> HIDE DEF n
        <5> QED BY <5>1
      <4>2. ~CONTINUE_FLAG
        BY <2>1, <4>1
      <4> QED BY <4>2
    <3>3. Top.loops = jump.kept + BREAK_COUNTER' + 1
      BY <2>1, <2>2, <3>1
    <3> QED BY <1>1, <2>3, <2>4, <3>2, <3>3
  <2>5. CASE kind \notin Loops
    <3>1. BREAK_COUNTER = BREAK_COUNTER' /\ CONTINUE_FLAG' = CONTINUE_FLAG
      BY <1>3, <2>5
    <3>2. Top.loops = jump.kept + BREAK_COUNTER' + 0
      BY <2>1, <2>2, <3>1
    <3> QED BY <1>1, <2>1, <2>3, <2>5, <3>1, <3>2
  <2> QED BY <2>4, <2>5
<1> QED BY <1>1, <1>2, <1>3, Leaving

\* A compound statement goes on when its block has been iterated.
LEMMA BlockGoes ==
  ASSUME IInv, NEW kind \in Compounds, NEW at, Iterated(kind, at),
         NEW place \in Places(Top.kind) \cap (BlockAt \cup ExprAt), Goto(place),
         blockscope' = Held([Top EXCEPT !.at = place, !.left = MaxBlock]),
         UNCHANGED <<control, jump, BREAK_COUNTER, FORCE_RETURN>>, error' \in Errors,
         CONTINUE_FLAG' \in BOOLEAN, CONTINUE_FLAG' => CONTINUE_FLAG, ~LegalJump'
  PROVE  IInv'
<1>1. Inside
  BY BlockFacts DEF Compounds, Loops
<1>2. /\ FORCE_RETURN' \in BOOLEAN
      /\ jump.legal /\ CONTINUE_FLAG' => jump.kept > 0
  BY DEF IInv, TypeOK
<1>3. UNCHANGED <<control, jump, BREAK_COUNTER>>
  OBVIOUS
<1> QED BY <1>1, <1>2, <1>3, Going

\* What is popped when a block has been iterated.
LEMMA BlockPops ==
  ASSUME IInv, NEW kind \in Compounds, NEW place, Iterated(kind, place)
  PROVE  /\ Top \in FrameType /\ Top.kind = kind /\ Top.at = place
         /\ place \in BlockAt /\ Top.entry # <<>>
         /\ kind \in {"if", "foreach", "try"} =>
              blockscope = PushBlock(Top.entry) /\ PopBlock(blockscope) = Top.entry
         /\ kind \in {"while", "for"} /\ place = "body" =>
              PopBlock(blockscope) = PushBlock(Top.entry) /\ PopBlock(PopBlock(blockscope)) = Top.entry
<1>1. /\ Top \in FrameType /\ Top.kind = kind /\ Top.at = place
      /\ place \in BlockAt /\ Top.entry # <<>> /\ blockscope = Held(Top)
  BY BlockFacts DEF Compounds, Loops
<1>2. kind \in {"if", "foreach", "try"} =>
        blockscope = PushBlock(Top.entry) /\ PopBlock(blockscope) = Top.entry
  BY <1>1, Scoping
<1>3. kind \in {"while", "for"} /\ place = "body" =>
        PopBlock(blockscope) = PushBlock(Top.entry) /\ PopBlock(PopBlock(blockscope)) = Top.entry
  BY <1>1, Scoping
<1> QED BY <1>1, <1>2, <1>3

\* A loop is left by a break, by a return or an error, or because it is over.
LEMMA LoopLeavesStep ==
  ASSUME IInv, \/ LoopBreaks \/ WhileLeaves \/ ForLeaves \/ ForEachLeaves
               \/ ForEachGoesOn /\ Leave /\ blockscope' = PopBlock(blockscope)
  PROVE  IInv'
<1>1. /\ BREAK_COUNTER \in 0..MaxBreak /\ CONTINUE_FLAG \in BOOLEAN /\ BREAK_COUNTER \in Nat
      /\ LegalJump => (CONTINUE_FLAG => BREAK_COUNTER = 0)
  BY BoundsAssumption DEF IInv, TypeOK, JumpExact, LegalJump
<1>2. PICK kind \in Loops :
        /\ Iterated(kind, "body") /\ Leave
        /\ IF kind = "foreach" THEN blockscope' = PopBlock(blockscope)
                               ELSE blockscope' = PopBlock(PopBlock(blockscope))
  BY DEF LoopBreaks, WhileLeaves, ForLeaves, ForEachLeaves, ForEachGoesOn, Loops
<1>3. kind \in Compounds /\ (kind = "foreach" \/ kind \in {"while", "for"})
  BY DEF Compounds, Loops
<1>4. blockscope' = Top.entry
  <2>1. CASE kind = "foreach"
    BY <1>2, <1>3, <2>1, BlockPops
  <2>2. CASE kind \in {"while", "for"}
    BY <1>2, <1>3, <2>2, BlockPops
  <2> QED BY <1>3, <2>1, <2>2
<1>5. UNCHANGED <<control, jump, FORCE_RETURN, error>>
  BY DEF LoopBreaks, WhileLeaves, ForLeaves, ForEachLeaves, ForEachGoesOn, flags
<1>6. CASE LoopBreaks
  <2>1. BREAK_COUNTER > 0 /\ BREAK_COUNTER' = BREAK_COUNTER - 1 /\ CONTINUE_FLAG' = CONTINUE_FLAG
    BY <1>6 DEF LoopBreaks
  <2>2. BREAK_COUNTER' \in 0..MaxBreak /\ BREAK_COUNTER = BREAK_COUNTER' + 1
    <3> DEFINE n == BREAK_COUNTER
    <3>1. n \in 0..MaxBreak /\ n > 0 /\ BREAK_COUNTER' = n - 1
      BY <1>1, <2>1
    <3> HIDE DEF n
    <3>2. n - 1 \in 0..MaxBreak /\ n = n - 1 + 1
      BY <3>1, BoundsAssumption
    <3> QED BY <3>1, <3>2 DEF n
  <2>3. LegalJump' => LegalJump
    BY <1>5, <2>1 DEF LegalJump
  <2> QED BY <1>1, <1>2, <1>3, <1>4, <1>5, <2>1, <2>2, <2>3, BlockLeaves
<1>7. CASE WhileLeaves \/ ForLeaves \/ ForEachLeaves \/ ForEachGoesOn
  <2>1. BREAK_COUNTER = 0 /\ BREAK_COUNTER' = BREAK_COUNTER /\ CONTINUE_FLAG' = FALSE
    BY <1>1, <1>7 DEF WhileLeaves, ForLeaves, ForEachLeaves, ForEachGoesOn, flags
  <2>2. ~LegalJump'
    BY <2>1 DEF LegalJump
  <2>3. BREAK_COUNTER' \in 0..MaxBreak /\ CONTINUE_FLAG' \in BOOLEAN /\ ~CONTINUE_FLAG'
    BY <1>1, <2>1
  <2> QED BY <1>2, <1>3, <1>4, <1>5, <2>2, <2>3, BlockLeaves
<1> QED BY <1>6, <1>7

\* A loop goes on with its next iteration.
LEMMA LoopGoesStep ==
  ASSUME IInv, \/ WhileGoesOn \/ ForGoesOn
               \/ ForEachGoesOn /\ Goto("body") /\ UNCHANGED blockscope
  PROVE  IInv'
<1>1. error \in Errors
  BY DEF IInv, TypeOK
<1>2. /\ UNCHANGED <<control, jump, BREAK_COUNTER, FORCE_RETURN>> /\ error' = error
      /\ BREAK_COUNTER = 0 /\ CONTINUE_FLAG' = FALSE
  BY DEF WhileGoesOn, ForGoesOn, ForEachGoesOn
<1>3. ~LegalJump' /\ error' \in Errors /\ CONTINUE_FLAG' \in BOOLEAN /\ ~CONTINUE_FLAG'
  <2>1. BREAK_COUNTER' = 0 /\ ~(0 > 0)
    BY <1>2
  <2>2. ~CONTINUE_FLAG'
    BY <1>2
  <2>3. ~LegalJump'
    BY <2>1, <2>2 DEF LegalJump
  <2> QED BY <1>1, <1>2, <2>2, <2>3
<1>4. /\ "body" \in BlockAt \cup ExprAt /\ "cond" \in BlockAt \cup ExprAt
      /\ "incr" \in BlockAt \cup ExprAt /\ "body" \in BlockAt
      /\ Loops \subseteq Compounds
  BY DEF BlockAt, ExprAt, Compounds
<1>5. CASE WhileGoesOn \/ ForGoesOn
  <2>1. PICK kind \in {"while", "for"}, place \in {"cond", "incr"} :
          /\ Iterated(kind, "body") /\ Goto(place) /\ blockscope' = PopBlock(blockscope)
          /\ (kind = "while" /\ place = "cond") \/ (kind = "for" /\ place = "incr")
    BY <1>5 DEF WhileGoesOn, ForGoesOn
  <2>2. kind \in Compounds
    BY <1>4 DEF Loops
  <2>3. /\ Top \in FrameType /\ Top.kind = kind /\ Top.entry # <<>>
        /\ blockscope' = PushBlock(Top.entry)
    BY <2>1, <2>2, BlockPops
  <2>4. place \in Places(Top.kind) \cap (BlockAt \cup ExprAt)
    BY <1>4, <2>1, <2>3 DEF Places
  <2>5. Held([Top EXCEPT !.at = place, !.left = MaxBlock]) = PushBlock(Top.entry)
    BY <1>4, <2>1, <2>3, <2>4, Placing
  <2> QED BY <1>2, <1>3, <2>1, <2>2, <2>3, <2>4, <2>5, BlockGoes
<1>6. CASE ForEachGoesOn /\ Goto("body") /\ UNCHANGED blockscope
  <2>1. Iterated("foreach", "body") /\ "foreach" \in Compounds
    BY <1>4, <1>6 DEF ForEachGoesOn, Loops
  <2>2. /\ Top \in FrameType /\ Top.kind = "foreach" /\ Top.entry # <<>>
        /\ blockscope = PushBlock(Top.entry)
    BY <2>1, BlockPops
  <2>3. "body" \in Places(Top.kind) \cap (BlockAt \cup ExprAt)
    BY <1>4, <2>2 DEF Places
  <2>4. Held([Top EXCEPT !.at = "body", !.left = MaxBlock]) = PushBlock(Top.entry)
    BY <1>4, <2>2, Placing
  <2>5. blockscope' = Held([Top EXCEPT !.at = "body", !.left = MaxBlock])
    BY <1>6, <2>2, <2>4
  <2> QED BY <1>2, <1>3, <1>6, <2>1, <2>3, <2>5, BlockGoes
<1> QED BY <1>5, <1>6

\* if and try are left, and try hands an error to its catch block.
LEMMA BranchStep ==
  ASSUME IInv, IfLeaves \/ TryLeaves \/ CatchLeaves \/ TryCatches
  PROVE  IInv'
<1>1. BREAK_COUNTER \in 0..MaxBreak /\ CONTINUE_FLAG \in BOOLEAN
  BY DEF IInv, TypeOK
<1>2. {"if", "try"} \subseteq Compounds /\ {"if", "try"} \cap Loops = {}
  BY DEF Compounds, Loops
<1>3. CASE IfLeaves \/ TryLeaves \/ CatchLeaves
  <2>1. PICK kind \in {"if", "try"}, place \in BlockAt :
          Iterated(kind, place) /\ Leave /\ blockscope' = PopBlock(blockscope)
    BY <1>3 DEF IfLeaves, TryLeaves, CatchLeaves, BlockAt
  <2>2. UNCHANGED <<control, flags, error, jump>>
    BY <1>3 DEF IfLeaves, TryLeaves, CatchLeaves
  <2>3. blockscope' = Top.entry
    BY <1>2, <2>1, BlockPops
  <2>4. LegalJump' => LegalJump
    BY <2>2 DEF LegalJump, flags
  <2>5. /\ UNCHANGED <<control, jump, FORCE_RETURN, error>>
        /\ BREAK_COUNTER' = BREAK_COUNTER /\ CONTINUE_FLAG' = CONTINUE_FLAG
    BY <2>2 DEF flags
  <2> QED BY <1>1, <1>2, <2>1, <2>3, <2>4, <2>5, BlockLeaves
<1>4. CASE TryCatches
  <2>1. /\ Iterated("try", "body") /\ error # NoError /\ error' = NoError
        /\ blockscope' = PushBlock(PopBlock(blockscope)) /\ Goto("catch")
        /\ UNCHANGED <<control, flags, jump>>
    BY <1>4 DEF TryCatches
  <2>2. ~LegalJump' /\ error' \in Errors
    BY <2>1 DEF IInv, JumpExact, LegalJump, flags, Errors
  <2>3. /\ Top \in FrameType /\ Top.kind = "try" /\ Top.entry # <<>>
        /\ blockscope' = PushBlock(Top.entry)
    BY <1>2, <2>1, BlockPops
  <2>4. "catch" \in Places(Top.kind) \cap (BlockAt \cup ExprAt) /\ "catch" \in BlockAt
    BY <2>3 DEF Places, BlockAt
  <2>5. Held([Top EXCEPT !.at = "catch", !.left = MaxBlock]) = PushBlock(Top.entry)
    BY <2>3, <2>4, Placing
  <2>6. UNCHANGED <<control, jump, BREAK_COUNTER, FORCE_RETURN>> /\ CONTINUE_FLAG' = CONTINUE_FLAG
    BY <2>1 DEF flags
  <2> QED BY <1>1, <1>2, <2>1, <2>2, <2>3, <2>4, <2>5, <2>6, BlockGoes
<1> QED BY <1>3, <1>4

\* A break or a continue raises its flag.
LEMMA JumpStep ==
  ASSUME IInv, Continue \/ \E n \in 1..MaxBreak : Break(n)
  PROVE  IInv'
<1>1. AtStatement /\ Top.left > 0 /\ Top.at \in BlockAt /\ Inside
  BY DEF Continue, Break, MayJump, AtStatement, InBlock, Inside
<1>2. stack' = Spend /\ ctl' = "back" /\ UNCHANGED <<control, blockscope, FORCE_RETURN, error>>
  BY DEF Continue, Break
<1>3. /\ stack' \in Seq(FrameType) /\ stack' # <<>> /\ StackInv'
      /\ Last(stack').at = Top.at /\ Last(stack').loops = Top.loops
  BY <1>1, <1>2, Spending
<1>4. Top.loops \in Nat /\ BREAK_COUNTER \in Nat
  BY <1>1, TopFacts, BoundsAssumption DEF Inside, FrameType, IInv, TypeOK
<1>5. CallsReturnClean'
  BY <1>1, <1>3 DEF CallsReturnClean, AtExpr, Top, BlockAt, ExprAt
<1>6. CASE Continue
  <2>1. /\ CONTINUE_FLAG' = TRUE /\ BREAK_COUNTER' = BREAK_COUNTER
        /\ jump' = [legal |-> ~Pending /\ Top.loops > 0, kept |-> Top.loops]
    BY <1>6 DEF Continue
  <2>2. TypeOK'
    BY <1>2, <1>3, <1>4, <2>1 DEF IInv, TypeOK, FrameType, control
  <2>3. ASSUME jump'.legal
        PROVE  /\ Top.loops > 0 /\ ~FORCE_RETURN /\ error = NoError
               /\ BREAK_COUNTER = 0 /\ jump'.kept = Top.loops
    <3>1. jump'.kept = Top.loops
      BY <2>1
    <3>2. ~Pending /\ Top.loops > 0
      BY <2>1, <2>3
    <3>3. ~(BREAK_COUNTER > 0) /\ ~FORCE_RETURN /\ error = NoError
      BY <3>2 DEF Pending
    <3>4. BREAK_COUNTER = 0
      BY <1>4, <3>3
    <3> QED BY <3>1, <3>2, <3>3, <3>4
  <2>4. JumpExact'
    BY <1>2, <1>3, <1>4, <2>1, <2>3 DEF JumpExact, Top
  <2>5. (jump.legal /\ CONTINUE_FLAG => jump.kept > 0)'
    BY <2>3
  <2> QED BY <1>3, <1>5, <2>2, <2>4, <2>5 DEF IInv
<1>7. ASSUME NEW n \in 1..MaxBreak, Break(n) PROVE IInv'
  <2>1. /\ BREAK_COUNTER' = n /\ CONTINUE_FLAG' = CONTINUE_FLAG
        /\ jump' = [legal |-> ~Pending /\ n <= Top.loops,
                    kept  |-> IF n <= Top.loops THEN Top.loops - n ELSE 0]
    BY <1>7 DEF Break
  <2>2. n \in 0..MaxBreak /\ n \in Nat /\ jump'.kept \in Nat
    BY <1>4, <2>1, BoundsAssumption
  <2>3. TypeOK'
    BY <1>2, <1>3, <2>1, <2>2 DEF IInv, TypeOK, FrameType, control
  <2>4. ASSUME jump'.legal
        PROVE  /\ ~FORCE_RETURN /\ error = NoError /\ ~CONTINUE_FLAG
               /\ Top.loops = jump'.kept + n
    <3>1. n <= Top.loops /\ jump'.kept = Top.loops - n
      BY <2>1, <2>4
    <3>2. Top.loops = jump'.kept + n
      BY <1>4, <2>2, <3>1
    <3> QED BY <2>1, <2>4, <3>2 DEF Pending
  <2>5. JumpExact'
    BY <1>2, <1>3, <2>1, <2>4 DEF JumpExact, Top
  <2>6. (jump.legal /\ CONTINUE_FLAG => jump.kept > 0)'
    BY <2>1, <2>4
  <2> QED BY <1>3, <1>5, <2>3, <2>5, <2>6 DEF IInv
<1> QED BY <1>6, <1>7

\* One frame fits the scopes it holds.
LEMMA FitOne ==
  ASSUME NEW g \in FrameType, Outermost(g), g.at \in Places(g.kind)
  PROVE  LET t == Append(<<>>, g) IN
         t \in Seq(FrameType) /\ t # <<>> /\ t[1] = g /\ Fits(t, Held(g))
<1> DEFINE t == Append(<<>>, g)
<1>1. t \in Seq(FrameType) /\ t # <<>> /\ Len(t) = 1 /\ t[1] = g
  OBVIOUS
<1> HIDE DEF t
<1>2. Last(t) = g
  BY <1>1 DEF Last
<1>3. 1..Len(t) = {1} /\ 1..Len(t) - 1 = {}
  BY <1>1
<1>4. Fits(t, Held(g))
  BY <1>1, <1>2, <1>3 DEF Fits
<1> QED BY <1>1, <1>4 DEF t

\* A function returns to the expression that called it, or /main() is over.
LEMMA FunctionReturnsStep ==
  ASSUME IInv, FunctionReturns
  PROVE  IInv'
<1>1. Inside /\ Top.kind = "func"
  BY DEF FunctionReturns, InBlock, Inside
<1>2. /\ stack \in Seq(FrameType) /\ Fits(stack, blockscope) /\ Top \in FrameType
      /\ blockscope = Held(Top)
      /\ stack[1].kind = "const" => status = "parsing"
  BY <1>1, TopFacts DEF Inside
<1>3. /\ stack' = Front(stack) /\ BREAK_COUNTER' = 0 /\ CONTINUE_FLAG' = FALSE
      /\ FORCE_RETURN' = FALSE /\ todo' = todo /\ jump' = jump /\ ctl' = "back"
      /\ blockscope' = PopStack(blockscope)
      /\ error' \in {error, "BadBreak"}
      /\ status' = IF stack' # <<>> THEN status
                   ELSE IF error' = NoError THEN "done" ELSE "uncaught"
  BY DEF FunctionReturns, Leave, ClearJumps
<1>4. Top.entry \in Seq(Nat) /\ blockscope' = Top.entry
  <2>1. Top.entry \in Seq(Nat)
    BY <1>2 DEF FrameType
  <2>2. blockscope = PushStack(Top.entry)
    BY <1>1, <1>2 DEF Held
  <2> QED BY <1>3, <2>1, <2>2, PopPushStack
<1>5. /\ stack' \in Seq(FrameType)
      /\ stack' = <<>> => Outermost(Top)
      /\ stack' # <<>> => Fits(stack', Top.entry) /\ stack'[1].kind = stack[1].kind
  BY <1>1, <1>2, <1>3, FitPop DEF Top, Inside
<1>6. TypeOK'
  <2>1. error' \in Errors
    BY <1>3 DEF IInv, TypeOK, Errors
  <2>2. 0 \in 0..MaxBreak
    BY BoundsAssumption
  <2> QED BY <1>3, <1>4, <1>5, <2>1, <2>2 DEF IInv, TypeOK, FrameType
<1>7. StackInv'
  <2>1. CASE stack' = <<>>
    <3>1. Top.entry = <<>>
      BY <1>1, <1>5, <2>1 DEF Outermost
    <3> QED BY <1>3, <1>4, <2>1, <3>1 DEF StackInv, InProgress
  <2>2. CASE stack' # <<>>
    BY <1>1, <1>2, <1>3, <1>4, <1>5, <2>2 DEF StackInv, InProgress, Inside
  <2> QED BY <2>1, <2>2
<1>8. JumpExact' /\ CallsReturnClean' /\ (jump.legal /\ CONTINUE_FLAG => jump.kept > 0)'
  <2>1. ~(0 > 0)
    OBVIOUS
  <2> QED BY <1>3, <2>1 DEF JumpExact, CallsReturnClean
<1> QED BY <1>6, <1>7, <1>8 DEF IInv

\* Const blocks are evaluated one by one, then /main() is executed.
LEMMA ProgramStep ==
  ASSUME IInv, TransmuteConst \/ ConstDone \/ Execute
  PROVE  IInv'
<1>1. MaxBlock \in 0..MaxBlock /\ 0 \in 0..MaxBreak /\ todo \in 0..ConstBlocks
  BY BoundsAssumption DEF IInv, TypeOK
<1>2. "body" \in BlockAt \cup ExprAt /\ {"func", "const"} \subseteq Kinds
  BY DEF BlockAt, Kinds
<1>3. stack = <<>> => ~LegalJump
  BY DEF IInv, JumpExact, LegalJump
<1>4. CASE TransmuteConst
  <2> DEFINE g == [Frame("const", 0) EXCEPT !.entry = blockscope']
  <2>1. /\ status = "parsing" /\ stack = <<>> /\ todo > 0 /\ todo' = todo - 1
        /\ blockscope' = PushBlock(blockscope) /\ stack' = Append(stack, g) /\ ctl' = "exec"
        /\ UNCHANGED <<status, flags, error, jump>>
    BY <1>4 DEF TransmuteConst, Enter
  <2>2. blockscope = <<1>>
    BY <2>1 DEF IInv, StackInv, InProgress
  <2>3. blockscope' = <<2>>
    BY <2>1, <2>2 DEF PushBlock
  <2>4. /\ g \in FrameType /\ g.kind = "const" /\ g.at = "body"
        /\ g.loops = 0 /\ g.entry = <<2>>
    <3>1. FirstAt("const") = "body" /\ 0 \in Nat /\ <<2>> \in Seq(Nat)
      BY DEF FirstAt
    <3>2. g = [kind |-> "const", at |-> "body", left |-> MaxBlock, loops |-> 0, entry |-> <<2>>]
      BY <2>3, <3>1 DEF Frame
    <3> QED BY <1>1, <1>2, <3>1, <3>2 DEF FrameType
  <2> HIDE DEF g
  <2>5. Outermost(g) /\ g.at \in Places(g.kind) /\ Held(g) = <<2>>
    <3>1. g.entry # <<>>
      BY <2>4
    <3>2. Held(g) = <<2>>
      BY <2>4, <3>1, Scoping
    <3>3. g.at \in Places(g.kind)
      BY <2>4 DEF Places
    <3> QED BY <2>4, <3>2, <3>3 DEF Outermost
  <2>6. stack' \in Seq(FrameType) /\ stack' # <<>> /\ stack'[1] = g /\ Fits(stack', blockscope')
    BY <2>1, <2>3, <2>4, <2>5, FitOne
  <2>7. todo' \in 0..ConstBlocks /\ blockscope' \in Seq(Nat)
    BY <1>1, <2>1, <2>3, BoundsAssumption
  <2>8. TypeOK'
    BY <2>1, <2>6, <2>7 DEF IInv, TypeOK, FrameType, flags
  <2>9. StackInv'
    BY <2>1, <2>4, <2>6 DEF StackInv, InProgress
  <2>10. JumpExact' /\ CallsReturnClean' /\ (jump.legal /\ CONTINUE_FLAG => jump.kept > 0)'
    BY <1>3, <2>1 DEF JumpExact, CallsReturnClean, LegalJump, IInv, flags
  <2> QED BY <2>8, <2>9, <2>10 DEF IInv
<1>5. CASE ConstDone
  <2>1. /\ Iterated("const", "body") /\ blockscope' = PopBlock(blockscope)
        /\ stack' = Front(stack) /\ ctl' = "back" /\ status' \in {"uncaught", status}
        /\ UNCHANGED <<todo, flags, error, jump>>
    BY <1>5 DEF ConstDone, Leave
  <2>2. /\ Inside /\ Top.kind = "const" /\ Top \in FrameType /\ Top.entry # <<>>
        /\ blockscope = Held(Top)
    BY <2>1, BlockFacts
  <2>3. /\ ~LegalJump /\ stack \in Seq(FrameType) /\ Fits(stack, blockscope)
        /\ stack[1].kind = "const" => status = "parsing"
    BY <2>2, TopFacts DEF Inside
  <2>4. stack' = <<>> /\ Outermost(Top) /\ Top = stack[1]
    BY <2>1, <2>2, <2>3, FitPop DEF Inside, Top, Nested
  <2>5. blockscope = <<2>>
    BY <2>2, <2>4, Scoping DEF Outermost
  <2>6. blockscope' = <<1>>
    BY <2>1, <2>5 DEF PopBlock
  <2>7. status' \in {"uncaught", "parsing"}
    BY <2>1, <2>2, <2>3, <2>4
  <2>8. TypeOK'
    BY <2>1, <2>4, <2>6, <2>7 DEF IInv, TypeOK, flags
  <2>9. StackInv'
    BY <2>4, <2>6, <2>7 DEF StackInv, InProgress
  <2>10. JumpExact' /\ CallsReturnClean' /\ (jump.legal /\ CONTINUE_FLAG => jump.kept > 0)'
    BY <2>1, <2>3, <2>4 DEF JumpExact, CallsReturnClean, LegalJump, AtExpr, IInv, flags
  <2> QED BY <2>8, <2>9, <2>10 DEF IInv
<1>6. CASE Execute
  <2> DEFINE g == [Frame("func", 0) EXCEPT !.entry = <<>>]
  <2>1. /\ stack = <<>> /\ status' = "running" /\ todo' = todo /\ jump' = jump
        /\ blockscope' = PushStack(<<>>) /\ stack' = Append(stack, g) /\ ctl' = "exec"
        /\ BREAK_COUNTER' = 0 /\ FORCE_RETURN' = FALSE /\ CONTINUE_FLAG' = FALSE
        /\ error' = NoError
    BY <1>6 DEF Execute, Enter
  <2>2. /\ g \in FrameType /\ g.kind = "func" /\ g.at = "body"
        /\ g.loops = 0 /\ g.entry = <<>>
    <3>1. FirstAt("func") = "body" /\ 0 \in Nat /\ <<>> \in Seq(Nat)
      BY DEF FirstAt
    <3>2. g = [kind |-> "func", at |-> "body", left |-> MaxBlock, loops |-> 0, entry |-> <<>>]
      BY <3>1 DEF Frame
    <3> QED BY <1>1, <1>2, <3>1, <3>2 DEF FrameType
  <2> HIDE DEF g
  <2>3. Outermost(g) /\ g.at \in Places(g.kind) /\ Held(g) = PushStack(<<>>)
    BY <2>2 DEF Outermost, Places, Held
  <2>4. stack' \in Seq(FrameType) /\ stack' # <<>> /\ stack'[1] = g /\ Fits(stack', blockscope')
    BY <2>1, <2>2, <2>3, FitOne
  <2>5. TypeOK'
    <3>1. blockscope' \in Seq(Nat)
      <4>1. <<>> \in Seq(Nat)
        OBVIOUS
      <4> QED BY <2>1, <4>1, PopPushStack
    <3> QED BY <1>1, <2>1, <2>4, <3>1 DEF IInv, TypeOK, FrameType, Errors
  <2>6. StackInv'
    BY <2>1, <2>2, <2>4 DEF StackInv, InProgress
  <2>7. JumpExact' /\ CallsReturnClean' /\ (jump.legal /\ CONTINUE_FLAG => jump.kept > 0)'
    <3>1. ~(0 > 0)
      OBVIOUS
    <3> QED BY <2>1, <3>1 DEF JumpExact, CallsReturnClean
  <2> QED BY <2>5, <2>6, <2>7 DEF IInv
<1> QED BY <1>4, <1>5, <1>6

\* An error without a code, or one that a catch block leaves behind, is the end.
LEMMA EndStep ==
  ASSUME IInv, FatalError \/ CatchFails
  PROVE  IInv'
<1>1. /\ status' \in {"fatal", "uncaught"}
      /\ UNCHANGED <<todo, stack, ctl, blockscope, flags, error, jump>>
  BY DEF FatalError, CatchFails
<1>2. TypeOK'
  BY <1>1 DEF IInv, TypeOK, flags
<1>3. StackInv'
  BY <1>1 DEF StackInv, InProgress
<1>4. JumpExact' /\ (jump.legal /\ CONTINUE_FLAG => jump.kept > 0)'
  BY <1>1 DEF IInv, JumpExact, flags, Top
<1>5. CallsReturnClean'
  BY <1>1 DEF CallsReturnClean, AtExpr, InProgress
<1> QED BY <1>2, <1>3, <1>4, <1>5 DEF IInv

\* Every step of the program keeps the invariant.
LEMMA Inductive ==
  IInv /\ [Next]_vars => IInv'
<1> SUFFICES ASSUME IInv, [Next]_vars
             PROVE  IInv'
  OBVIOUS
<1>1. ASSUME NEW kind \in Constructs \cap (ExprStatements \cup Compounds), Begin(kind)
      PROVE  IInv'
  BY <1>1, BeginStep
<1>2. CASE CallFunction
  BY <1>2, CallFunctionStep
<1>3. CASE CallStatement \/ AssignRhs \/ AssignLhs \/ ReturnStatement \/ ThrowStatement
  BY <1>3, ExprStatementStep
<1>4. CASE \/ IfTaken \/ IfFails \/ ConditionHolds \/ ConditionFails \/ ForClause
           \/ ForEachEnters \/ ForEachRefuses
  BY <1>4, ConditionStep
<1>5. CASE LoopBreaks \/ WhileLeaves \/ ForLeaves \/ ForEachLeaves
  BY <1>5, LoopLeavesStep
<1>6. CASE WhileGoesOn \/ ForGoesOn
  BY <1>6, LoopGoesStep
<1>7. CASE ForEachGoesOn
  BY <1>7, LoopLeavesStep, LoopGoesStep DEF ForEachGoesOn
<1>8. CASE IfLeaves \/ TryLeaves \/ CatchLeaves \/ TryCatches
  BY <1>8, BranchStep
<1>9. CASE Continue \/ \E n \in 1..MaxBreak : Break(n)
  BY <1>9, JumpStep
<1>10. CASE FunctionReturns
  BY <1>10, FunctionReturnsStep
<1>11. CASE TransmuteConst \/ ConstDone \/ Execute
  BY <1>11, ProgramStep
<1>12. CASE FatalError \/ CatchFails
  BY <1>12, EndStep
<1>13. CASE UNCHANGED vars
  BY <1>13 DEF IInv, TypeOK, StackInv, JumpExact, CallsReturnClean, InProgress, AtExpr, Top,
               vars, control, flags
<1> QED
  BY <1>1, <1>2, <1>3, <1>4, <1>5, <1>6, <1>7, <1>8, <1>9, <1>10, <1>11, <1>12, <1>13
  DEF Next, Step, Ended

\* The program starts with nothing but the scope of the const blocks.
LEMMA Initial ==
  Init => IInv
<1> SUFFICES ASSUME Init PROVE IInv
  OBVIOUS
<1>1. blockscope = <<1>>
  BY DEF Init, PushStack
<1>2. TypeOK
  <2>1. <<1>> \in Seq(Nat) /\ <<>> \in Seq(FrameType)
    OBVIOUS
  <2>2. 0 \in 0..MaxBreak /\ ConstBlocks \in 0..ConstBlocks
    BY BoundsAssumption
  <2>3. stack \in Seq(FrameType) /\ blockscope \in Seq(Nat)
    BY <1>1, <2>1 DEF Init
  <2>4. jump \in [legal : BOOLEAN, kept : Nat] /\ error \in Errors
    BY DEF Init, Errors
  <2> QED BY <2>2, <2>3, <2>4 DEF Init, TypeOK, FrameType
<1>3. StackInv
  BY <1>1 DEF Init, StackInv, InProgress
<1>4. JumpExact /\ CallsReturnClean /\ ~jump.legal
  BY DEF Init, JumpExact, CallsReturnClean, AtExpr
<1> QED BY <1>2, <1>3, <1>4 DEF IInv

\* The frames of the active calls and the scopes fit in every reachable state.
THEOREM Invariant == Spec => []IInv
<1>1. IInv /\ [Next]_vars => IInv'
  BY Inductive
<1> QED BY Initial, <1>1, PTL DEF Spec

\* Every variable of the interpreter always has its type.
THEOREM TypeCorrect == Spec => []TypeOK
<1>1. IInv => TypeOK
  BY DEF IInv
<1> QED BY Invariant, <1>1, PTL

\* Whatever the program, and however deep its calls: the scope stacks hold what
\* the active resolve() calls have pushed, so every exit pops what it pushed.
THEOREM ScopesBalance == Spec => []ScopeBalance
<1>1. IInv => ScopeBalance
  <2> SUFFICES ASSUME IInv PROVE ScopeBalance
    OBVIOUS
  <2>1. ASSUME InProgress, stack # <<>>
        PROVE  \A i \in 1..Len(stack) :
                 Held(stack[i]) = IF i = Len(stack) THEN blockscope ELSE stack[i + 1].entry
    <3>1. Fits(stack, blockscope) /\ stack \in Seq(FrameType)
      BY <2>1, TopFacts
    <3> DEFINE n == Len(stack)
    <3>2. n \in Nat /\ Last(stack) = stack[n]
      BY <2>1, <3>1, FrontFacts
    <3>3. \A i \in 1..n - 1 : Held(stack[i]) = stack[i + 1].entry
      BY <3>1 DEF Fits, Nested
    <3>4. Held(stack[n]) = blockscope
      BY <3>1, <3>2 DEF Fits
    <3> HIDE DEF n
    <3>5. \A i \in 1..n : i = n \/ i \in 1..n - 1
      BY <3>2
    <3>6. \A i \in 1..n : Held(stack[i]) = IF i = n THEN blockscope ELSE stack[i + 1].entry
      BY <3>3, <3>4, <3>5
    <3> QED BY <3>6 DEF n
  <2>2. stack = <<>> => 1..Len(stack) = {}
    OBVIOUS
  <2>3. status = "done" => stack = <<>> /\ blockscope = <<>> /\ status # "parsing"
    BY DEF IInv, StackInv
  <2>4. InProgress /\ stack = <<>> => status = "parsing" /\ blockscope = <<1>>
    BY DEF IInv, StackInv
  <2>5. CASE stack = <<>>
    BY <2>2, <2>3, <2>4, <2>5 DEF ScopeBalance
  <2>6. CASE stack # <<>>
    BY <2>1, <2>3, <2>6 DEF ScopeBalance
  <2> QED BY <2>5, <2>6
<1> QED BY Invariant, <1>1, PTL

\* A break or a continue that names loops which exist leaves exactly those, and
\* runs nothing on its way, in every program.
THEOREM JumpsExact == Spec => []JumpExact
<1>1. IInv => JumpExact
  BY DEF IInv
<1> QED BY Invariant, <1>1, PTL

\* No function hands a break, a continue or a return of its own to its caller.
THEOREM CallsClean == Spec => []CallsReturnClean
<1>1. IInv => CallsReturnClean
  BY DEF IInv
<1> QED BY Invariant, <1>1, PTL

(***************************************************************************)
(* Pending returns.  The frame that ignores one stays while the program    *)
(* goes on.                                                                *)
(***************************************************************************)
Ignored(s) == \E i \in 1..Len(s) : IgnoresReturn(s[i])

\* A frame that moves on ignores what it ignored, but what comes after a catch block.
LEMMA IgnoredMove ==
  ASSUME NEW s \in Seq(FrameType), s # <<>>, NEW g \in FrameType, g.kind = Last(s).kind,
         Last(s).at = "catch" => g.at = "catch", Ignored(s)
  PROVE  Ignored([s EXCEPT ![Len(s)] = g])
<1> DEFINE t == [s EXCEPT ![Len(s)] = g]
<1>1. /\ Len(s) \in Nat \ {0} /\ Last(s) = s[Len(s)] /\ Len(t) = Len(s) /\ t[Len(s)] = g
      /\ \A i \in 1..(Len(s) - 1) : t[i] = s[i]
  BY FrontFacts, ReplaceLast
<1> HIDE DEF t
<1>2. PICK i \in 1..Len(s) : IgnoresReturn(s[i])
  BY DEF Ignored
<1>3. CASE i = Len(s)
  <2>1. IgnoresReturn(t[Len(s)])
    BY <1>1, <1>2, <1>3 DEF IgnoresReturn
  <2> QED BY <1>1, <1>3, <2>1 DEF Ignored, t
<1>4. CASE i # Len(s)
  <2>1. i \in 1..(Len(s) - 1)
    BY <1>1, <1>2, <1>4
  <2>2. t[i] = s[i]
    BY <1>1, <2>1
  <2> QED BY <1>1, <1>2, <2>2 DEF Ignored, t
<1> QED BY <1>3, <1>4

\* And so do the frames below a new one, or the new one does.
LEMMA IgnoredAppend ==
  ASSUME NEW s \in Seq(FrameType), NEW g \in FrameType, Ignored(s) \/ IgnoresReturn(g)
  PROVE  Ignored(Append(s, g))
<1>1. /\ Len(s) \in Nat /\ Len(Append(s, g)) = Len(s) + 1
      /\ Append(s, g)[Len(s) + 1] = g
      /\ \A i \in 1..Len(s) : Append(s, g)[i] = s[i]
  BY AppendProperties, LenProperties
<1>2. /\ Len(s) + 1 \in 1..(Len(s) + 1)
      /\ \A i \in 1..Len(s) : i \in 1..(Len(s) + 1)
  BY <1>1
<1>3. CASE Ignored(s)
  BY <1>1, <1>2, <1>3 DEF Ignored
<1>4. CASE IgnoresReturn(g)
  BY <1>1, <1>2, <1>4 DEF Ignored
<1> QED BY <1>3, <1>4

\* A frame that begins.
LEMMA FrameTyped ==
  ASSUME IInv, NEW kind \in Kinds, NEW loops \in Nat
  PROVE  Frame(kind, loops) \in FrameType
<1>1. FirstAt(kind) \in BlockAt \cup ExprAt
  BY DEF FirstAt, BlockAt, ExprAt
<1>2. MaxBlock \in 0..MaxBlock /\ blockscope \in Seq(Nat)
  BY BoundsAssumption DEF IInv, TypeOK
<1> QED BY <1>1, <1>2 DEF Frame, FrameType

\* Goto and Spend.
LEMMA IgnoredGoto ==
  ASSUME Inside, NEW place \in BlockAt \cup ExprAt, Goto(place),
         \/ Ignored(stack) /\ Top.at # "catch"
         \/ Top.kind = "while" \/ place = "catch"
  PROVE  Ignored(stack')
<1> DEFINE g == [Top EXCEPT !.at = place, !.left = MaxBlock]
<1>1. /\ stack \in Seq(FrameType) /\ stack # <<>> /\ Top \in FrameType /\ Top = Last(stack)
  BY TopFacts DEF Inside, Top
<1>2. MaxBlock \in 0..MaxBlock
  BY BoundsAssumption
<1>3. g \in FrameType /\ g.kind = Top.kind /\ g.at = place
  BY <1>1, <1>2 DEF FrameType
<1> HIDE DEF g
<1>4. stack' = [stack EXCEPT ![Len(stack)] = g]
  BY DEF Goto, WithTop, g
<1>5. CASE Ignored(stack) /\ Top.at # "catch"
  BY <1>1, <1>3, <1>4, <1>5, IgnoredMove
<1>6. CASE Top.kind = "while" \/ place = "catch"
  <2>1. Len(stack') \in 1..Len(stack') /\ stack'[Len(stack')] = g
    BY <1>1, <1>3, <1>4, ReplaceLast, FrontFacts
  <2>2. IgnoresReturn(g)
    BY <1>3, <1>6 DEF IgnoresReturn
  <2> QED BY <2>1, <2>2 DEF Ignored
<1> QED BY <1>5, <1>6

LEMMA IgnoredSpend ==
  ASSUME Inside, Top.left > 0, Ignored(stack)
  PROVE  Spend \in Seq(FrameType) /\ Ignored(Spend)
<1> DEFINE f == [Top EXCEPT !.left = @ - 1]
<1>1. stack \in Seq(FrameType) /\ stack # <<>> /\ Top \in FrameType /\ Top = Last(stack)
  BY TopFacts DEF Inside, Top
<1>2. Top.left - 1 \in 0..MaxBlock
  BY <1>1, BoundsAssumption DEF FrameType
<1>3. f \in FrameType /\ f.at = Top.at /\ f.kind = Top.kind
  BY <1>1, <1>2 DEF FrameType
<1>4. Spend = [stack EXCEPT ![Len(stack)] = f]
  BY DEF Spend, WithTop
<1> HIDE DEF f
<1> QED BY <1>1, <1>3, <1>4, IgnoredMove, ReplaceLast

\* A step that lets a pending return go on runs nothing, or leaves the frame that ignores it.
LEMMA Unwinding ==
  ASSUME IInv, ReturnUnwinds, [Next]_vars
  PROVE  ReturnUnwinds'
<1> SUFFICES ASSUME FORCE_RETURN', ctl' = "exec"
             PROVE  Ignored(stack')
  BY DEF ReturnUnwinds, Ignored
<1>1. AtExpr /\ FORCE_RETURN => Ignored(stack) /\ Top.at \in ExprAt /\ Top.at # "catch"
  BY DEF IInv, TypeOK, CallsReturnClean, ReturnUnwinds, Ignored, AtExpr, ExprAt
<1>2. AtStatement /\ FORCE_RETURN => Ignored(stack)
  BY DEF AtStatement, Pending, ReturnUnwinds, Ignored
<1>3. AtExpr \/ InBlock => Inside
  BY DEF AtExpr, InBlock, Inside
<1>4. ASSUME NEW kind \in Constructs \cap (ExprStatements \cup Compounds), Begin(kind)
      PROVE  Ignored(stack')
  <2> DEFINE nested == Top.loops + IF kind \in Loops THEN 1 ELSE 0
  <2>1. /\ AtStatement /\ Top.left > 0 /\ FORCE_RETURN
        /\ stack' = Append(Spend, Frame(kind, nested))
    BY <1>4 DEF Begin, flags
  <2>2. Inside
    BY <1>3, <2>1 DEF AtStatement
  <2>3. nested \in Nat
    BY <2>2, TopFacts DEF Inside, FrameType
  <2>4. Frame(kind, nested) \in FrameType
    BY <2>3, FrameTyped DEF Kinds
  <2> HIDE DEF nested
  <2>5. Spend \in Seq(FrameType) /\ Ignored(Spend)
    BY <1>2, <2>1, <2>2, IgnoredSpend
  <2> QED BY <2>1, <2>4, <2>5, IgnoredAppend
<1>5. CASE CallFunction
  <2>1. /\ AtExpr /\ Top.left > 0 /\ FORCE_RETURN
        /\ stack' = Append(Spend, Frame("func", 0))
    BY <1>5 DEF CallFunction, flags
  <2>2. Frame("func", 0) \in FrameType
    BY FrameTyped DEF Kinds
  <2>3. Spend \in Seq(FrameType) /\ Ignored(Spend)
    BY <1>1, <1>3, <2>1, IgnoredSpend
  <2> QED BY <2>1, <2>2, <2>3, IgnoredAppend
<1>6. CASE AssignRhs \/ ForClause \/ ConditionHolds
  <2>1. /\ AtExpr /\ FORCE_RETURN
        /\ \E place \in {"lhs", "cond", "body"} : Goto(place)
    BY <1>6 DEF AssignRhs, ForClause, ConditionHolds, flags
  <2>2. {"lhs", "cond", "body"} \subseteq BlockAt \cup ExprAt
    BY DEF BlockAt, ExprAt
  <2> QED BY <1>1, <1>3, <2>1, <2>2, IgnoredGoto
<1>7. CASE IfTaken \/ IfFails \/ ForEachEnters
  <2>1. /\ AtExpr /\ FORCE_RETURN
        /\ Goto("body") \/ Leave \/ (Top.left > 0 /\ stack' = Spend)
    BY <1>7 DEF IfTaken, IfFails, ForEachEnters, flags
  <2>2. "body" \in BlockAt \cup ExprAt
    BY DEF BlockAt
  <2>3. ~Leave
    BY DEF Leave
  <2> QED BY <1>1, <1>3, <2>1, <2>2, <2>3, IgnoredGoto, IgnoredSpend
<1>8. CASE WhileGoesOn
  <2>1. InBlock /\ Top.kind = "while" /\ Goto("cond")
    BY <1>8 DEF WhileGoesOn, Iterated
  <2>2. "cond" \in BlockAt \cup ExprAt
    BY DEF ExprAt
  <2> QED BY <1>3, <2>1, <2>2, IgnoredGoto
<1>9. CASE TryCatches
  <2>1. InBlock /\ Goto("catch")
    BY <1>9 DEF TryCatches, Iterated
  <2>2. "catch" \in BlockAt \cup ExprAt
    BY DEF BlockAt
  <2> QED BY <1>3, <2>1, <2>2, IgnoredGoto
<1>10. CASE TransmuteConst
  <2> DEFINE g == [Frame("const", 0) EXCEPT !.entry = blockscope']
  <2>1. stack' = Append(stack, g) /\ stack = <<>> /\ blockscope' = PushBlock(blockscope)
    BY <1>10 DEF TransmuteConst, Enter
  <2>2. stack' = <<g>> /\ g.kind = "const"
    BY <2>1 DEF Frame
  <2> HIDE DEF g
  <2>3. Len(stack') = 1 /\ stack'[1] = g
    BY <2>2
  <2> QED BY <2>2, <2>3 DEF Ignored, IgnoresReturn
<1>11. CASE Execute \/ FunctionReturns \/ ForGoesOn \/ ForEachGoesOn
  BY <1>11 DEF Execute, FunctionReturns, ForGoesOn, ForEachGoesOn
<1>12. CASE \/ CallStatement \/ AssignLhs \/ ReturnStatement \/ ThrowStatement
            \/ IfLeaves \/ ConditionFails \/ LoopBreaks \/ WhileLeaves \/ ForLeaves
            \/ ForEachRefuses \/ ForEachLeaves \/ TryLeaves \/ CatchLeaves \/ ConstDone
            \/ Continue \/ \E n \in 1..MaxBreak : Break(n)
  BY <1>12 DEF CallStatement, AssignLhs, ReturnStatement, ThrowStatement, IfLeaves,
       ConditionFails, LoopBreaks, WhileLeaves, ForLeaves, ForEachRefuses, ForEachLeaves,
       TryLeaves, CatchLeaves, ConstDone, Continue, Break, Leave
<1>13. CASE FatalError \/ CatchFails \/ UNCHANGED vars
  BY <1>13 DEF FatalError, CatchFails, vars, flags, ReturnUnwinds, Ignored
<1> QED
  BY <1>4, <1>5, <1>6, <1>7, <1>8, <1>9, <1>10, <1>11, <1>12, <1>13 DEF Next, Step, Ended

\* No statement runs while a return is pending, but in a catch block, in a const
\* block, or in a while that was told to continue: not even where an error, a
\* break or a continue is pending as well.
THEOREM ReturnsUnwind == Spec => []ReturnUnwinds
<1>1. Init => ReturnUnwinds
  BY DEF Init, ReturnUnwinds
<1>2. IInv /\ ReturnUnwinds /\ [Next]_vars => ReturnUnwinds'
  BY Unwinding
<1> QED BY Invariant, <1>1, <1>2, PTL DEF Spec

(***************************************************************************)
(* Errors.                                                                 *)
(***************************************************************************)
\* A frame that returns is not the outermost, but for a function and a const block.
LEMMA NotOutermost ==
  ASSUME Inside, Top.kind \notin {"func", "const"}
  PROVE  Front(stack) # <<>>
<1>1. stack \in Seq(FrameType) /\ Fits(stack, blockscope)
  BY TopFacts DEF Inside
<1>2. Front(stack) = <<>> => Outermost(Top)
  BY <1>1, FitPop DEF Top, Inside
<1> QED BY <1>2 DEF Outermost

\* A step that does not return leaves frames.
LEMMA GotoKeeps ==
  ASSUME Inside, NEW place, Goto(place)
  PROVE  stack' # <<>>
<1>1. stack \in Seq(FrameType) /\ stack # <<>>
  BY TopFacts DEF Inside
<1>2. DOMAIN stack = 1..Len(stack) /\ Len(stack) \in Nat \ {0}
  BY <1>1, FrontFacts, LenProperties
<1>3. DOMAIN stack' = DOMAIN stack
  BY DEF Goto, WithTop
<1> QED BY <1>2, <1>3

LEMMA SpendKeeps ==
  ASSUME Inside, Top.left > 0
  PROVE  Spend \in Seq(FrameType) /\ Spend # <<>> /\ Len(Spend) = Len(stack)
<1> DEFINE f == [Top EXCEPT !.left = @ - 1]
<1>1. stack \in Seq(FrameType) /\ stack # <<>> /\ Top \in FrameType
  BY TopFacts DEF Inside
<1>2. Top.left - 1 \in 0..MaxBlock
  BY <1>1, BoundsAssumption DEF FrameType
<1>3. f \in FrameType
  BY <1>1, <1>2 DEF FrameType
<1>4. Spend = [stack EXCEPT ![Len(stack)] = f]
  BY DEF Spend, WithTop
<1> HIDE DEF f
<1> QED BY <1>1, <1>3, <1>4, ReplaceLast

LEMMA BeginKeeps ==
  ASSUME Inside, Top.left > 0, NEW kind \in Kinds, NEW loops \in Nat,
         stack' = Append(Spend, Frame(kind, loops))
  PROVE  stack' # <<>>
<1>1. Spend \in Seq(FrameType) /\ Frame(kind, loops) \in FrameType
  BY SpendKeeps, FrameTyped DEF Inside
<1> QED BY <1>1, AppendProperties

\* No error is pending where a const block begins or the program is executed.
LEMMA ErrorStays ==
  ASSUME IInv, ErrorInBlock, [Next]_vars
  PROVE  ErrorInBlock'
<1> SUFFICES ASSUME status' = "parsing", stack' = <<>>
             PROVE  error' = NoError
  BY DEF ErrorInBlock
<1>1. ASSUME Inside, Top.kind \notin {"func", "const"}, Leave PROVE FALSE
  BY <1>1, NotOutermost DEF Leave
<1>2. AtExpr => Inside /\ Top.kind \notin {"func", "const"} /\ Top \in FrameType
  BY ExprFacts
<1>3. InBlock => Inside
  BY DEF InBlock, Inside
<1>4. ASSUME NEW kind \in Constructs \cap (ExprStatements \cup Compounds), Begin(kind)
      PROVE  FALSE
  <2> DEFINE nested == Top.loops + IF kind \in Loops THEN 1 ELSE 0
  <2>1. Inside /\ Top.left > 0 /\ stack' = Append(Spend, Frame(kind, nested))
    BY <1>3, <1>4 DEF Begin, AtStatement
  <2>2. nested \in Nat
    BY <2>1, TopFacts, SMTT(30) DEF Inside, FrameType
  <2> HIDE DEF nested
  <2> QED BY <2>1, <2>2, BeginKeeps DEF Kinds
<1>5. CASE CallFunction
  <2>1. Inside /\ Top.left > 0 /\ stack' = Append(Spend, Frame("func", 0))
    BY <1>2, <1>5 DEF CallFunction
  <2> QED BY <2>1, BeginKeeps DEF Kinds
<1>6. CASE \/ CallStatement \/ AssignRhs \/ AssignLhs \/ ReturnStatement \/ ThrowStatement
           \/ IfTaken \/ IfFails \/ ConditionHolds \/ ConditionFails \/ ForClause
           \/ ForEachEnters \/ ForEachRefuses
  <2>1. /\ AtExpr
        /\ Leave \/ (\E place \in {"lhs", "body", "cond"} : Goto(place)) \/ (Top.left > 0 /\ stack' = Spend)
    BY <1>6 DEF CallStatement, AssignRhs, AssignLhs, ReturnStatement, ThrowStatement, IfTaken, IfFails,
         ConditionHolds, ConditionFails, ForClause, ForEachEnters, ForEachRefuses
  <2> QED BY <1>1, <1>2, <2>1, GotoKeeps, SpendKeeps
<1>7. CASE \/ LoopBreaks \/ WhileGoesOn \/ WhileLeaves \/ ForGoesOn \/ ForLeaves
           \/ ForEachGoesOn \/ ForEachLeaves \/ IfLeaves \/ TryLeaves \/ TryCatches \/ CatchLeaves
  <2>1. /\ InBlock /\ Top.kind \notin {"func", "const"}
        /\ Leave \/ (\E place \in {"cond", "incr", "body", "catch"} : Goto(place))
    BY <1>7 DEF LoopBreaks, WhileGoesOn, WhileLeaves, ForGoesOn, ForLeaves, ForEachGoesOn, ForEachLeaves,
         IfLeaves, TryLeaves, TryCatches, CatchLeaves, Iterated
  <2> QED BY <1>1, <1>3, <2>1, GotoKeeps
<1>8. CASE Continue \/ \E n \in 1..MaxBreak : Break(n)
  <2>1. InBlock /\ Top.left > 0 /\ stack' = Spend
    BY <1>8 DEF Continue, Break, MayJump, AtStatement
  <2> QED BY <1>3, <2>1, SpendKeeps
<1>9. CASE FunctionReturns
  <2>1. status' = IF stack' # <<>> THEN status ELSE IF error' = NoError THEN "done" ELSE "uncaught"
    BY <1>9 DEF FunctionReturns
  <2> QED BY <2>1
<1>10. CASE TransmuteConst \/ Execute
  <2>1. stack = <<>> /\ \E g : stack' = Append(stack, g)
    BY <1>10 DEF TransmuteConst, Execute, Enter
  <2> QED BY <2>1
<1>11. CASE ConstDone
  <2>1. error' = error /\ status' = IF error # NoError THEN "uncaught" ELSE status
    BY <1>11 DEF ConstDone
  <2> QED BY <2>1
<1>12. CASE FatalError \/ CatchFails
  BY <1>12 DEF FatalError, CatchFails
<1>13. CASE UNCHANGED vars
  BY <1>13 DEF vars, control, ErrorInBlock
<1> QED
  BY <1>4, <1>5, <1>6, <1>7, <1>8, <1>9, <1>10, <1>11, <1>12, <1>13 DEF Next, Step, Ended

\* What a step may do to an error that is pending.
ErrorKept ==
  error # NoError =>
    /\ error' = NoError => Len(stack') = Len(stack) /\ Last(stack').at = "catch"
    /\ Len(stack') < Len(stack) => Top.kind # "try"

\* Where it may end the process.
ErrorEnds ==
  InProgress /\ status' = "uncaught" =>
    Top.at = "catch" \/ \A i \in 1..Len(stack) : stack[i].kind # "try"

LEMMA ErrorStep ==
  ASSUME IInv, ErrorInBlock, [Next]_vars
  PROVE  ErrorKept
<1> SUFFICES ASSUME error # NoError
             PROVE  /\ error' = NoError => Len(stack') = Len(stack) /\ Last(stack').at = "catch"
                    /\ Len(stack') < Len(stack) => Top.kind # "try"
  BY DEF ErrorKept
<1>1. \A truth, err : Evaluates(truth, err) => err # NoError /\ AtExpr
  BY RaisedAssumption DEF Evaluates
<1>2. AtExpr => Top.kind # "try"
  BY TopFacts DEF AtExpr, ExprAt, Places
<1>3. CASE \/ CallStatement \/ AssignRhs \/ AssignLhs \/ ReturnStatement
           \/ IfTaken \/ IfFails \/ ConditionHolds \/ ConditionFails \/ ForClause \/ ForEachEnters
  <2>1. \E truth : Evaluates(truth, error')
    BY <1>3 DEF CallStatement, AssignRhs, AssignLhs, ReturnStatement, IfTaken, IfFails,
         ConditionHolds, ConditionFails, ForClause, ForEachEnters
  <2> QED BY <1>1, <1>2, <2>1
<1>4. CASE ThrowStatement
  <2>1. error' # NoError /\ AtExpr
    BY <1>1, <1>4, RaisedAssumption DEF ThrowStatement
  <2> QED BY <1>2, <2>1
<1>5. CASE ForEachRefuses
  BY <1>2, <1>5 DEF ForEachRefuses, NoError
<1>6. CASE CallFunction
  BY <1>2, <1>6 DEF CallFunction
<1>7. CASE LoopBreaks \/ WhileGoesOn \/ WhileLeaves \/ ForLeaves \/ ForEachLeaves \/ IfLeaves \/ ConstDone
  BY <1>7 DEF LoopBreaks, WhileGoesOn, WhileLeaves, ForLeaves, ForEachLeaves, IfLeaves, ConstDone, Iterated
<1>8. CASE ForGoesOn \/ ForEachGoesOn \/ TryLeaves \/ CatchLeaves
  BY <1>8 DEF ForGoesOn, ForEachGoesOn, TryLeaves, CatchLeaves
<1>9. CASE TryCatches
  <2> DEFINE g == [Top EXCEPT !.at = "catch", !.left = MaxBlock]
             t == [stack EXCEPT ![Len(stack)] = g]
  <2>1. Inside /\ Goto("catch")
    BY <1>9 DEF TryCatches, Iterated, InBlock, Inside
  <2>2. stack \in Seq(FrameType) /\ stack # <<>> /\ Top \in FrameType
    BY <2>1, TopFacts DEF Inside
  <2>3. stack' = t
    BY <2>1 DEF Goto, WithTop
  <2>4. MaxBlock \in 0..MaxBlock /\ "catch" \in BlockAt \cup ExprAt
    BY BoundsAssumption DEF BlockAt
  <2>5. g \in FrameType /\ g.at = "catch"
    BY <2>2, <2>4 DEF FrameType
  <2> HIDE DEF g
  <2>6. Len(t) = Len(stack) /\ Last(t) = g
    BY <2>2, <2>5, ReplaceLast
  <2> HIDE DEF t
  <2>7. Len(stack) \in Nat
    BY <2>2, LenProperties
  <2> QED BY <2>3, <2>5, <2>6, <2>7
<1>10. ASSUME NEW kind \in Constructs \cap (ExprStatements \cup Compounds), Begin(kind)
       PROVE  error' = error /\ ~(Len(stack') < Len(stack))
  <2> DEFINE nested == Top.loops + IF kind \in Loops THEN 1 ELSE 0
  <2>1. Inside /\ Top.left > 0 /\ stack' = Append(Spend, Frame(kind, nested)) /\ error' = error
    BY <1>10 DEF Begin, AtStatement, InBlock, Inside
  <2>2. nested \in Nat
    BY <2>1, TopFacts, SMTT(30) DEF Inside, FrameType
  <2> HIDE DEF nested
  <2>3. Spend \in Seq(FrameType) /\ Frame(kind, nested) \in FrameType
    BY <2>1, <2>2, SpendKeeps, FrameTyped DEF Kinds
  <2>4. Len(stack') = Len(Spend) + 1 /\ Len(Spend) \in Nat
    BY <2>1, <2>3, AppendProperties, LenProperties
  <2>5. Len(Spend) = Len(stack)
    BY <2>1, SpendKeeps
  <2> QED BY <2>1, <2>4, <2>5
<1>11. CASE Continue \/ \E n \in 1..MaxBreak : Break(n)
  <2>1. Inside /\ Top.left > 0 /\ stack' = Spend /\ error' = error
    BY <1>11 DEF Continue, Break, MayJump, AtStatement, InBlock, Inside
  <2>2. Len(stack') = Len(stack) /\ Len(stack) \in Nat
    BY <2>1, SpendKeeps, TopFacts, LenProperties DEF Inside
  <2> QED BY <2>1, <2>2
<1>12. CASE FunctionReturns
  BY <1>12, TopFacts DEF FunctionReturns, NoError
<1>13. CASE TransmuteConst \/ Execute
  BY <1>13 DEF TransmuteConst, Execute, ErrorInBlock
<1>14. CASE FatalError \/ CatchFails \/ UNCHANGED vars
  <2>1. error' = error /\ stack' = stack
    BY <1>14 DEF FatalError, CatchFails, vars
  <2>2. Len(stack) \in Nat
    BY LenProperties DEF IInv, TypeOK
  <2> QED BY <2>1, <2>2
<1> QED
  BY <1>3, <1>4, <1>5, <1>6, <1>7, <1>8, <1>9, <1>10, <1>11, <1>12, <1>13, <1>14 DEF Next, Step, Ended

\* Where a const block or /main() ends, no try is open.
LEMMA LastFrame ==
  ASSUME Inside, Top.kind = "const" \/ (Top.kind = "func" /\ Front(stack) = <<>>)
  PROVE  \A i \in 1..Len(stack) : stack[i].kind # "try"
<1> DEFINE n == Len(stack)
<1>1. stack \in Seq(FrameType) /\ Fits(stack, blockscope) /\ stack # <<>>
  BY TopFacts DEF Inside
<1>2. n \in Nat /\ n > 0 /\ Top = stack[n]
  <2>1. Len(stack) \in Nat \ {0} /\ Last(stack) = stack[Len(stack)]
    BY <1>1, FrontFacts
  <2> QED BY <2>1 DEF Top
<1> HIDE DEF n
<1>3. n = 1
  <2>1. CASE Top.kind = "const"
    <3>1. \A i \in 1..n - 1 : stack[i + 1].kind # "const"
      BY <1>1 DEF Fits, Nested, n
    <3>2. SUFFICES ASSUME n # 1 PROVE FALSE
      OBVIOUS
    <3>3. n - 1 \in 1..n - 1 /\ n - 1 + 1 = n
      BY <1>2, <3>2
    <3> QED BY <1>2, <2>1, <3>1, <3>3
  <2>2. CASE Front(stack) = <<>>
    <3>1. Len(Front(stack)) = n - 1
      BY <1>1, FrontFacts DEF n
    <3> QED BY <1>2, <2>2, <3>1
  <2> QED BY <2>1, <2>2
<1> QED BY <1>2, <1>3 DEF n

LEMMA ErrorEndStep ==
  ASSUME IInv, [Next]_vars
  PROVE  ErrorEnds
<1> SUFFICES ASSUME InProgress, status' = "uncaught"
             PROVE  Top.at = "catch" \/ \A i \in 1..Len(stack) : stack[i].kind # "try"
  BY DEF ErrorEnds
<1>1. status # "uncaught"
  BY DEF InProgress
<1>2. CASE CatchFails
  BY <1>2 DEF CatchFails, Iterated
<1>3. CASE FunctionReturns
  <2>1. Inside /\ Top.kind = "func" /\ stack' = Front(stack)
    BY <1>3 DEF FunctionReturns, InBlock, Leave, Inside
  <2>2. stack' = <<>>
    BY <1>1, <1>3 DEF FunctionReturns
  <2> QED BY <2>1, <2>2, LastFrame
<1>4. CASE ConstDone
  <2>1. Inside /\ Top.kind = "const"
    BY <1>4 DEF ConstDone, Iterated, InBlock, Inside
  <2> QED BY <2>1, LastFrame
<1>5. CASE FatalError \/ Execute
  BY <1>5 DEF FatalError, Execute
<1>6. CASE UNCHANGED status
  BY <1>1, <1>6
<1>7. CASE \/ \E kind \in Constructs \cap (ExprStatements \cup Compounds) : Begin(kind)
           \/ \E n \in 1..MaxBreak : Break(n)
           \/ Continue \/ CallFunction
           \/ CallStatement \/ AssignRhs \/ AssignLhs \/ ReturnStatement \/ ThrowStatement
  BY <1>6, <1>7 DEF Begin, Break, Continue, CallFunction, CallStatement, AssignRhs, AssignLhs,
     ReturnStatement, ThrowStatement, control
<1>8. CASE \/ IfTaken \/ IfFails \/ IfLeaves \/ ConditionHolds \/ ConditionFails \/ ForClause
           \/ LoopBreaks \/ WhileGoesOn \/ WhileLeaves \/ ForGoesOn \/ ForLeaves
  BY <1>6, <1>8 DEF IfTaken, IfFails, IfLeaves, ConditionHolds, ConditionFails, ForClause,
     LoopBreaks, WhileGoesOn, WhileLeaves, ForGoesOn, ForLeaves, control
<1>9. CASE \/ ForEachEnters \/ ForEachRefuses \/ ForEachGoesOn \/ ForEachLeaves
           \/ TryLeaves \/ TryCatches \/ CatchLeaves \/ TransmuteConst \/ UNCHANGED vars
  BY <1>6, <1>9 DEF ForEachEnters, ForEachRefuses, ForEachGoesOn, ForEachLeaves,
     TryLeaves, TryCatches, CatchLeaves, TransmuteConst, control, vars
<1> QED BY <1>2, <1>3, <1>4, <1>5, <1>7, <1>8, <1>9 DEF Next, Step, Ended

\* A runtime error goes to the innermost try block around it and disappears
\* nowhere else, in every program; the exception are the errors of catch blocks,
\* which end the process, as those do that no try surrounds.
THEOREM ErrorsToInnermostTry == Spec => ErrorToInnermostTry
<1> DEFINE A == error # NoError =>
                  /\ error' = NoError => Len(stack') = Len(stack) /\ Last(stack').at = "catch"
                  /\ Len(stack') < Len(stack) => Top.kind # "try"
                  /\ InProgress /\ status' = "uncaught" =>
                       Top.at = "catch" \/ \A i \in 1..Len(stack) : stack[i].kind # "try"
<1>1. Init => ErrorInBlock
  BY DEF Init, ErrorInBlock
<1>2. IInv /\ ErrorInBlock /\ [Next]_vars => ErrorInBlock'
  BY ErrorStays
<1>3. ErrorKept /\ ErrorEnds => A
  BY DEF ErrorKept, ErrorEnds
<1>4. IInv /\ ErrorInBlock /\ [Next]_vars => ErrorKept /\ ErrorEnds
  BY ErrorStep, ErrorEndStep
<1>5. ErrorToInnermostTry <=> [][A]_vars
  BY DEF ErrorToInnermostTry
<1> HIDE DEF A
<1> QED BY Invariant, <1>1, <1>2, <1>3, <1>4, <1>5, PTL DEF Spec

(***************************************************************************)
(* The end of every error, return and break: Remaining is a rank.          *)
(***************************************************************************)
Digit(frames, n) == IF n <= Len(frames) THEN ToGo(frames[n]) ELSE 0

\* Remaining, of any frames and any number of const blocks to come
Number(frames, blocks) ==
  LET number[n \in 0 .. MaxFrames] ==
        IF n = 0 THEN blocks ELSE (Farthest + 1) * number[n - 1] + Digit(frames, n)
  IN number[MaxFrames]

LEMMA RemainingNumber ==
  /\ Remaining = Number(stack, todo)
  /\ Remaining' = Number(stack', todo')
  BY Zenon DEF Remaining, Number, Digit

\* What a frame has still to go is a digit, and never 0.
LEMMA ToGoType ==
  ASSUME NEW f \in FrameType
  PROVE  ToGo(f) \in 1 .. Farthest /\ PartsToCome(f) \in 0 .. 2
<1>1. PartsToCome(f) \in {0, 1, 2}
  BY DEF PartsToCome
<1>2. f.left \in 0 .. MaxBlock /\ MaxBlock \in Nat
  BY BoundsAssumption DEF FrameType
<1> QED BY <1>1, <1>2 DEF ToGo, Farthest

LEMMA DigitType ==
  ASSUME NEW s \in Seq(FrameType)
  PROVE  \A n \in 1 .. MaxFrames : Digit(s, n) \in Nat /\ Digit(s, n) < Farthest + 1
<1> TAKE n \in 1 .. MaxFrames
<1>1. MaxBlock \in Nat /\ Farthest \in Nat
  BY BoundsAssumption DEF Farthest
<1>2. CASE n <= Len(s)
  <2>1. n \in 1 .. Len(s)
    BY <1>2, LenProperties
  <2>2. ToGo(s[n]) \in 1 .. Farthest
    BY <2>1, ElementOfSeq, ToGoType
  <2> QED BY <1>1, <1>2, <2>2 DEF Digit
<1>3. CASE ~(n <= Len(s))
  BY <1>1, <1>3 DEF Digit
<1> QED BY <1>2, <1>3

\* The outermost frame that differs decides, or the const blocks if their number does.
LEMMA NumberLess ==
  ASSUME NEW s \in Seq(FrameType), NEW t \in Seq(FrameType), NEW k \in Nat, NEW l \in Nat,
         NEW j \in 0 .. MaxFrames, \A n \in 1 .. MaxFrames : n < j => Digit(s, n) = Digit(t, n),
         IF j = 0 THEN k < l ELSE k = l /\ Digit(s, j) < Digit(t, j)
  PROVE  Number(s, k) < Number(t, l)
<1> DEFINE ds == [n \in 1 .. MaxFrames |-> Digit(s, n)]
           dt == [n \in 1 .. MaxFrames |-> Digit(t, n)]
           b == Farthest + 1
<1>1. MaxFrames \in Nat /\ b \in Nat /\ MaxBlock \in Nat
  BY BoundsAssumption DEF Farthest
<1>2. /\ ds \in [1 .. MaxFrames -> Nat] /\ dt \in [1 .. MaxFrames -> Nat]
      /\ \A n \in 1 .. MaxFrames : ds[n] < b /\ dt[n] < b
  BY DigitType
<1>3. ASSUME NEW u \in Seq(FrameType), NEW m \in Nat
      PROVE  \E r \in [0 .. MaxFrames -> Nat] :
               /\ Positional(r, MaxFrames, b, m, [n \in 1 .. MaxFrames |-> Digit(u, n)])
               /\ Number(u, m) = r[MaxFrames]
  <2> DEFINE du == [n \in 1 .. MaxFrames |-> Digit(u, n)]
             From(r) == [n \in 0 .. MaxFrames |-> IF n = 0 THEN m ELSE b * r[n - 1] + Digit(u, n)]
  <2>2. du \in [1 .. MaxFrames -> Nat]
    BY DigitType
  <2>3. \A n \in 1 .. MaxFrames : du[n] = Digit(u, n)
    OBVIOUS
  <2>4. \A n \in 0 .. MaxFrames : n = 0 \/ n \in 1 .. MaxFrames
    BY <1>1
  <2> HIDE DEF du, b
  <2>5. \A r : From(r) = [n \in 0 .. MaxFrames |-> IF n = 0 THEN m ELSE b * r[n - 1] + du[n]]
    BY <2>3, <2>4, Zenon
  <2>6. PICK r \in [0 .. MaxFrames -> Nat] : Positional(r, MaxFrames, b, m, du)
    BY <1>1, <2>2, PositionalExists
  <2>7. \E f : f = From(f)
    <3> HIDE DEF From
    <3>1. r = From(r)
      BY <2>5, <2>6, Zenon DEF Positional
    <3> QED BY <3>1
  <2> DEFINE c == CHOOSE f : f = From(f)
  <2>8. c = From(c)
    BY <2>7, Zenon
  <2>9. Number(u, m) = c[MaxFrames]
    BY Zenon DEF Number, b
  <2> HIDE DEF c
  <2>10. Positional(c, MaxFrames, b, m, du)
    BY <2>5, <2>8, Zenon DEF Positional
  <2>11. c \in [0 .. MaxFrames -> Nat]
    <3> DEFINE T == {n \in 0 .. MaxFrames : c[n] \in Nat}
    <3>1. \A n \in 0 .. MaxFrames : c[n] = IF n = 0 THEN m ELSE b * c[n - 1] + du[n]
      BY <2>10, Zenon DEF Positional
    <3>2. 0 \in T
      BY <1>1, <3>1
    <3>3. ASSUME NEW n \in 1 .. MaxFrames, n - 1 \in T PROVE n \in T
      <4>1. n \in 0 .. MaxFrames /\ n # 0 /\ du[n] \in Nat /\ c[n - 1] \in Nat
        BY <1>1, <2>2, <3>3
      <4>2. b * c[n - 1] \in Nat
        BY <1>1, <4>1
      <4> QED BY <3>1, <4>1, <4>2
    <3> HIDE DEF T
    <3>4. 0 .. MaxFrames \subseteq T
      BY <1>1, <3>2, <3>3, BoundedInduction
    <3>5. \A n \in 0 .. MaxFrames : c[n] \in Nat
      BY <3>4 DEF T
    <3>6. c = [n \in 0 .. MaxFrames |-> c[n]]
      BY <2>10, Zenon DEF Positional
    <3> QED BY <3>5, <3>6
  <2> QED BY <2>9, <2>10, <2>11 DEF du
<1>4. PICK r \in [0 .. MaxFrames -> Nat] :
        Positional(r, MaxFrames, b, k, ds) /\ Number(s, k) = r[MaxFrames]
  BY <1>3
<1>5. PICK q \in [0 .. MaxFrames -> Nat] :
        Positional(q, MaxFrames, b, l, dt) /\ Number(t, l) = q[MaxFrames]
  BY <1>3
<1>6. /\ \A n \in 1 .. MaxFrames : n < j => ds[n] = dt[n]
      /\ IF j = 0 THEN k < l ELSE k = l /\ ds[j] < dt[j]
  <2>1. j # 0 => j \in 1 .. MaxFrames
    BY <1>1
  <2> QED BY <2>1
<1> HIDE DEF ds, dt, b
<1>7. r[MaxFrames] < q[MaxFrames]
  <2>1. DiffersFirst(r, q, MaxFrames, b, k, l, ds, dt, j)
    BY <1>2, <1>4, <1>5, <1>6 DEF DiffersFirst
  <2> QED BY <1>1, <2>1, PositionalLess
<1> QED BY <1>4, <1>5, <1>7

\* What a step makes of the frames: the last one returns, goes on to one of its later
\* parts, begins a statement that it ends at once, or calls another resolve().
Advance ==
  \E place \in BlockAt \cup ExprAt :
    /\ Goto(place)
    /\ PartsToCome([Top EXCEPT !.at = place, !.left = MaxBlock]) < PartsToCome(Top)
Calls ==
  /\ Top.left > 0
  /\ \E kind \in Kinds, loops \in Nat : Room(kind) /\ stack' = Append(Spend, Frame(kind, loops))
Onward == Leave \/ Advance \/ (Top.left > 0 /\ stack' = Spend) \/ Calls

\* Only a loop that begins again does anything else.
LEMMA StepShape ==
  ASSUME IInv, Step, InProgress'
  PROVE  \/ /\ Inside /\ todo' = todo
            /\ Onward \/ WhileGoesOn \/ ForGoesOn \/ ForEachGoesOn
         \/ TransmuteConst \/ Execute
<1>1. AtExpr => Inside /\ Top \in FrameType /\ Top.at \in Places(Top.kind) \cap ExprAt
  BY ExprFacts
<1>2. InBlock => Inside /\ Top \in FrameType
  BY TopFacts DEF InBlock, Inside
<1>3. ASSUME Top \in FrameType, NEW place \in BlockAt \cup ExprAt, Goto(place),
             \/ Top.at \in {"init", "incr"} /\ place = "cond"
             \/ Top.at \in {"cond", "table"} /\ place = "body" /\ Top.kind # "try"
             \/ Top.at = "rhs" /\ place = "lhs"
             \/ Top.kind = "try" /\ Top.at = "body" /\ place = "catch"
      PROVE  Onward
  <2> DEFINE g == [Top EXCEPT !.at = place, !.left = MaxBlock]
  <2>1. g.kind = Top.kind /\ g.at = place
    BY <1>3 DEF FrameType
  <2> HIDE DEF g
  <2>2. PartsToCome(g) < PartsToCome(Top)
    BY <1>3, <2>1 DEF PartsToCome
  <2> QED BY <1>3, <2>2 DEF Onward, Advance, g
<1>4. {"cond", "body", "lhs", "catch"} \subseteq BlockAt \cup ExprAt
  BY DEF BlockAt, ExprAt
<1>5. ASSUME NEW kind \in Constructs \cap (ExprStatements \cup Compounds), Begin(kind)
      PROVE  Inside /\ todo' = todo /\ Onward
  <2> DEFINE nested == Top.loops + IF kind \in Loops THEN 1 ELSE 0
  <2>1. /\ InBlock /\ Top.left > 0 /\ Room(kind) /\ todo' = todo
        /\ stack' = Append(Spend, Frame(kind, nested))
    BY <1>5 DEF Begin, AtStatement, control
  <2>2. nested \in Nat /\ kind \in Kinds
    BY <1>2, <2>1 DEF FrameType, Kinds
  <2> HIDE DEF nested
  <2> QED BY <1>2, <2>1, <2>2 DEF Onward, Calls
<1>6. CASE CallFunction
  <2>1. "func" \in Kinds /\ 0 \in Nat
    BY DEF Kinds
  <2> QED BY <1>1, <1>6, <2>1 DEF CallFunction, Onward, Calls, control
<1>7. CASE CallStatement \/ AssignLhs \/ ReturnStatement \/ ThrowStatement \/ ConditionFails \/ ForEachRefuses
  BY <1>1, <1>7 DEF CallStatement, AssignLhs, ReturnStatement, ThrowStatement, ConditionFails,
       ForEachRefuses, Onward, control
<1>8. CASE AssignRhs
  BY <1>1, <1>3, <1>4, <1>8 DEF AssignRhs, control
<1>9. CASE ForClause
  BY <1>1, <1>3, <1>4, <1>9 DEF ForClause, control
<1>10. CASE ConditionHolds
  <2>1. AtExpr /\ Top.at = "cond" /\ Top.kind # "try" /\ Goto("body") /\ todo' = todo
    BY <1>10 DEF ConditionHolds, control
  <2> QED BY <1>1, <1>3, <1>4, <2>1
<1>11. CASE IfTaken \/ IfFails
  <2>1. /\ AtExpr /\ Top.kind = "if" /\ todo' = todo
        /\ Goto("body") \/ Leave \/ (Top.left > 0 /\ stack' = Spend)
    BY <1>11 DEF IfTaken, IfFails, control
  <2>2. Top.at = "cond"
    BY <1>1, <2>1 DEF Places, ExprAt
  <2> QED BY <1>1, <1>3, <1>4, <2>1, <2>2 DEF Onward
<1>12. CASE ForEachEnters
  <2>1. AtExpr /\ Top.at = "table" /\ todo' = todo /\ (Goto("body") \/ Leave)
    BY <1>12 DEF ForEachEnters, control
  <2>2. Top.kind # "try"
    BY <1>1, <2>1 DEF Places, ExprAt
  <2> QED BY <1>1, <1>3, <1>4, <2>1, <2>2 DEF Onward
<1>13. CASE \/ LoopBreaks \/ WhileLeaves \/ ForLeaves \/ ForEachLeaves \/ IfLeaves
            \/ TryLeaves \/ CatchLeaves \/ ConstDone
  <2>1. InBlock /\ Leave /\ todo' = todo
    BY <1>13 DEF LoopBreaks, WhileLeaves, ForLeaves, ForEachLeaves, IfLeaves, TryLeaves, CatchLeaves,
         ConstDone, Iterated, control
  <2> QED BY <1>2, <2>1 DEF Onward
<1>14. CASE FunctionReturns
  BY <1>2, <1>14 DEF FunctionReturns, Onward
<1>15. CASE TryCatches
  <2>1. InBlock /\ Top.kind = "try" /\ Top.at = "body" /\ Goto("catch") /\ todo' = todo
    BY <1>15 DEF TryCatches, Iterated, control
  <2> QED BY <1>2, <1>3, <1>4, <2>1
<1>16. CASE WhileGoesOn \/ ForGoesOn \/ ForEachGoesOn
  BY <1>2, <1>16 DEF WhileGoesOn, ForGoesOn, ForEachGoesOn, Iterated, control
<1>17. CASE Continue \/ \E n \in 1..MaxBreak : Break(n)
  <2>1. InBlock /\ Top.left > 0 /\ stack' = Spend /\ todo' = todo
    BY <1>17 DEF Continue, Break, MayJump, AtStatement, control
  <2> QED BY <1>2, <2>1 DEF Onward
<1>18. CASE FatalError \/ CatchFails
  BY <1>18 DEF FatalError, CatchFails, InProgress
<1> QED
  BY <1>5, <1>6, <1>7, <1>8, <1>9, <1>10, <1>11, <1>12, <1>13, <1>14, <1>15, <1>16, <1>17, <1>18
  DEF Step

\* The frames are as many as MaxFrames allows.
FramesBounded == Len(stack) <= MaxFrames

LEMMA Bounded ==
  ASSUME IInv, FramesBounded, [Next]_vars
  PROVE  FramesBounded' \/ ~InProgress'
<1> SUFFICES ASSUME InProgress' PROVE Len(stack') <= MaxFrames
  BY DEF FramesBounded
<1>1. stack \in Seq(FrameType) /\ Len(stack) \in Nat /\ MaxFrames \in Nat \ {0}
  BY BoundsAssumption, LenProperties DEF IInv, TypeOK, FrameType
<1>2. ASSUME Inside, NEW place \in BlockAt \cup ExprAt, Goto(place)
      PROVE  Len(stack') = Len(stack)
  <2> DEFINE g == [Top EXCEPT !.at = place, !.left = MaxBlock]
  <2>1. Top \in FrameType /\ stack # <<>> /\ MaxBlock \in 0 .. MaxBlock
    BY <1>2, TopFacts, BoundsAssumption DEF Inside
  <2>2. g \in FrameType
    BY <2>1 DEF FrameType
  <2>3. stack' = [stack EXCEPT ![Len(stack)] = g]
    BY <1>2 DEF Goto, WithTop
  <2> HIDE DEF g
  <2> QED BY <1>1, <2>1, <2>2, <2>3, ReplaceLast
<1>3. CASE Inside /\ Leave
  <2>1. Len(Front(stack)) = Len(stack) - 1
    BY <1>1, <1>3, FrontFacts DEF Inside
  <2> QED BY <1>1, <1>3, <2>1 DEF Leave, FramesBounded
<1>4. CASE Inside /\ Advance
  BY <1>2, <1>4 DEF Advance, FramesBounded
<1>5. CASE Inside /\ Top.left > 0 /\ stack' = Spend
  BY <1>5, SpendKeeps DEF FramesBounded
<1>6. CASE Inside /\ Calls
  <2>1. PICK kind \in Kinds, loops \in Nat : Room(kind) /\ stack' = Append(Spend, Frame(kind, loops))
    BY <1>6 DEF Calls
  <2>2. Spend \in Seq(FrameType) /\ Len(Spend) = Len(stack) /\ Frame(kind, loops) \in FrameType
    BY <1>6, SpendKeeps, FrameTyped DEF Calls, Inside
  <2>3. Len(stack') = Len(stack) + 1
    BY <2>1, <2>2, AppendProperties
  <2> QED BY <1>1, <2>1, <2>3 DEF Room
<1>7. CASE Inside /\ (WhileGoesOn \/ ForGoesOn \/ ForEachGoesOn)
  <2>1. Leave \/ \E place \in {"cond", "incr", "body"} : Goto(place)
    BY <1>7 DEF WhileGoesOn, ForGoesOn, ForEachGoesOn
  <2>2. {"cond", "incr", "body"} \subseteq BlockAt \cup ExprAt
    BY DEF BlockAt, ExprAt
  <2> QED BY <1>2, <1>3, <1>7, <2>1, <2>2 DEF FramesBounded
<1>8. CASE TransmuteConst \/ Execute
  <2>1. stack = <<>> /\ \E g : stack' = Append(stack, g)
    BY <1>8 DEF TransmuteConst, Execute, Enter
  <2>2. Len(stack') = 1
    BY <2>1
  <2> QED BY <1>1, <2>2
<1>9. CASE UNCHANGED vars \/ Ended
  BY <1>9 DEF vars, FramesBounded, Ended
<1> QED
  BY <1>3, <1>4, <1>5, <1>6, <1>7, <1>8, <1>9, StepShape DEF Next, Onward

\* What goes on comes nearer to the end: the frames below the last one stay, and the last
\* one is gone or has less to go, whatever it has called.
LEMMA OnwardLess ==
  ASSUME IInv, IInv', FramesBounded, Inside, Onward, todo' = todo
  PROVE  Remaining' < Remaining
<1> DEFINE m == Len(stack)
<1>1. /\ stack \in Seq(FrameType) /\ stack # <<>> /\ Top \in FrameType /\ Top = stack[m]
      /\ m \in 1 .. MaxFrames /\ m \in Nat
  <2>1. stack \in Seq(FrameType) /\ stack # <<>> /\ Top \in FrameType
    BY TopFacts DEF Inside
  <2>2. Top = stack[m] /\ m \in Nat \ {0}
    BY <2>1, FrontFacts DEF Top
  <2> QED BY <2>1, <2>2, BoundsAssumption DEF FramesBounded
<1>2. stack' \in Seq(FrameType) /\ Len(stack') \in Nat
  BY LenProperties DEF IInv, TypeOK, FrameType
<1>3. todo \in Nat
  BY BoundsAssumption DEF IInv, TypeOK
<1>4. /\ Top.left \in 0 .. MaxBlock /\ MaxBlock \in Nat
      /\ PartsToCome(Top) \in 0 .. 2 /\ ToGo(Top) \in 1 .. Farthest
  BY <1>1, ToGoType, BoundsAssumption DEF FrameType
<1> DEFINE f == [Top EXCEPT !.left = @ - 1]
<1>5. ASSUME Top.left > 0
      PROVE  f \in FrameType /\ ToGo(f) < ToGo(Top)
  <2>1. Top.left - 1 \in 0 .. MaxBlock
    BY <1>4, <1>5
  <2>2. f \in FrameType /\ f.left = Top.left - 1 /\ f.kind = Top.kind /\ f.at = Top.at
    BY <1>1, <2>1 DEF FrameType
  <2> HIDE DEF f
  <2>3. PartsToCome(f) = PartsToCome(Top)
    BY <2>2 DEF PartsToCome
  <2> QED BY <1>4, <2>2, <2>3 DEF ToGo
<1> HIDE DEF m
<1>6. SUFFICES /\ \A n \in 1 .. m - 1 : n <= Len(stack') /\ stack'[n] = stack[n]
               /\ m <= Len(stack') => ToGo(stack'[m]) < ToGo(Top)
  <2>1. \A n \in 1 .. MaxFrames : n < m => Digit(stack', n) = Digit(stack, n)
    <3>1. \A n \in 1 .. MaxFrames : n < m => n \in 1 .. m - 1 /\ n <= Len(stack)
      BY <1>1 DEF m
    <3> QED BY <1>6, <3>1 DEF Digit
  <2>2. Digit(stack, m) = ToGo(Top)
    BY <1>1 DEF Digit, m
  <2>3. Digit(stack', m) < Digit(stack, m)
    BY <1>4, <1>6, <2>2 DEF Digit
  <2>4. m \in 0 .. MaxFrames /\ m # 0
    BY <1>1
  <2>5. Number(stack', todo) < Number(stack, todo)
    BY <1>1, <1>2, <1>3, <2>1, <2>3, <2>4, NumberLess
  <2> QED BY <2>5, RemainingNumber
<1>7. CASE Leave
  <2>1. stack' = Front(stack)
    BY <1>7 DEF Leave
  <2>2. Len(stack') = m - 1 /\ \A n \in 1 .. m - 1 : stack'[n] = stack[n]
    BY <1>1, <2>1, FrontFacts DEF m
  <2> QED BY <1>1, <2>2
<1>8. CASE Advance
  <2>1. PICK place \in BlockAt \cup ExprAt :
          /\ Goto(place)
          /\ PartsToCome([Top EXCEPT !.at = place, !.left = MaxBlock]) < PartsToCome(Top)
    BY <1>8 DEF Advance
  <2> DEFINE g == [Top EXCEPT !.at = place, !.left = MaxBlock]
  <2>2. g \in FrameType /\ g.left = MaxBlock
    <3>1. MaxBlock \in 0 .. MaxBlock
      BY <1>4
    <3> QED BY <1>1, <3>1 DEF FrameType
  <2>3. stack' = [stack EXCEPT ![Len(stack)] = g]
    BY <2>1 DEF Goto, WithTop
  <2>4. PartsToCome(g) < PartsToCome(Top)
    BY <2>1
  <2> HIDE DEF g
  <2>5. Len(stack') = m /\ stack'[m] = g /\ \A n \in 1 .. m - 1 : stack'[n] = stack[n]
    BY <1>1, <2>2, <2>3, ReplaceLast DEF m
  <2>6. ToGo(g) < ToGo(Top)
    <3>1. PartsToCome(g) \in 0 .. 2
      BY <2>2, ToGoType
    <3>2. PartsToCome(g) \in {0, 1} /\ PartsToCome(Top) \in {1, 2}
      BY <1>4, <2>4, <3>1
    <3> QED BY <1>4, <2>2, <2>4, <3>2 DEF ToGo
  <2> QED BY <1>1, <2>5, <2>6
<1>9. ASSUME Top.left > 0
      PROVE  /\ Spend \in Seq(FrameType) /\ Len(Spend) = m /\ Spend[m] = f
             /\ \A n \in 1 .. m - 1 : Spend[n] = stack[n]
  <2>1. f \in FrameType
    BY <1>5, <1>9
  <2>2. Spend = [stack EXCEPT ![Len(stack)] = f]
    BY DEF Spend, WithTop
  <2> HIDE DEF f
  <2> QED BY <1>1, <2>1, <2>2, ReplaceLast DEF m
<1> HIDE DEF f
<1>10. CASE Top.left > 0 /\ stack' = Spend
  BY <1>1, <1>5, <1>9, <1>10
<1>11. CASE Calls
  <2>1. PICK kind \in Kinds, loops \in Nat : stack' = Append(Spend, Frame(kind, loops))
    BY <1>11 DEF Calls
  <2> DEFINE g == Frame(kind, loops)
  <2>2. g \in FrameType /\ Top.left > 0
    BY <1>11, FrameTyped DEF Calls
  <2> HIDE DEF g
  <2>3. Len(stack') = m + 1 /\ \A n \in 1 .. m : stack'[n] = Spend[n]
    BY <1>9, <2>1, <2>2, AppendProperties DEF g
  <2>4. stack'[m] = f /\ \A n \in 1 .. m - 1 : stack'[n] = stack[n]
    BY <1>1, <1>9, <2>2, <2>3
  <2> QED BY <1>1, <1>5, <2>2, <2>3, <2>4
<1> QED BY <1>7, <1>8, <1>10, <1>11 DEF Onward

\* A program that has ended stays so.
LEMMA Over ==
  ASSUME ~InProgress, [Next]_vars
  PROVE  UNCHANGED vars
<1>1. Step => InProgress
  BY DEF Step, Begin, Break, Continue, MayJump, AtStatement, CallFunction, FatalError, CallStatement,
     AssignRhs, AssignLhs, ReturnStatement, ThrowStatement, IfTaken, IfFails, IfLeaves, ConditionHolds,
     ConditionFails, ForClause, LoopBreaks, WhileGoesOn, WhileLeaves, ForGoesOn, ForLeaves,
     ForEachEnters, ForEachRefuses, ForEachGoesOn, ForEachLeaves, TryLeaves, TryCatches, CatchLeaves,
     CatchFails, FunctionReturns, TransmuteConst, ConstDone, Execute, AtExpr, InBlock, Iterated,
     InProgress
<1> QED BY <1>1 DEF Next, Ended

\* The step that UnwindingRunsDown speaks of.
LEMMA RunsDown ==
  ASSUME IInv, FramesBounded, [Next]_vars, Exiting, Exiting', InProgress',
         ~(UNCHANGED vars)
  PROVE  Remaining' < Remaining \/ WhileGoesOn
<1>1. IInv' /\ Step
  BY Inductive DEF Next, Ended
<1>2. CASE Inside /\ todo' = todo /\ Onward
  BY <1>1, <1>2, OnwardLess
<1>3. CASE ForGoesOn \/ ForEachGoesOn
  BY <1>3 DEF ForGoesOn, ForEachGoesOn, Exiting, Iterated
<1>4. CASE TransmuteConst
  <2>1. todo' = todo - 1 /\ todo \in Nat /\ todo > 0 /\ todo' \in Nat
    BY <1>1, <1>4, BoundsAssumption DEF TransmuteConst, IInv, TypeOK
  <2>2. stack \in Seq(FrameType) /\ stack' \in Seq(FrameType) /\ 0 \in 0 .. MaxFrames
    BY <1>1, BoundsAssumption DEF IInv, TypeOK, FrameType
  <2>3. todo' < todo /\ \A n \in 1 .. MaxFrames : ~(n < 0)
    BY <2>1
  <2>4. Number(stack', todo') < Number(stack, todo)
    BY <2>1, <2>2, <2>3, NumberLess
  <2> QED BY <2>4, RemainingNumber
<1>5. CASE Execute
  BY <1>5 DEF Execute, Exiting
<1> QED BY <1>1, <1>2, <1>3, <1>4, <1>5, StepShape

\* While an error, a return or a break is pending, every step lowers a number that cannot
\* fall below 0, in every program, however deep its calls: what still runs on the way out
\* (catch blocks, else-branches, increments, the functions they call) runs once, and ends.
\* Only a while that was told to continue can begin again.
THEOREM UnwindingsRunDown == Spec => UnwindingRunsDown
<1>1. Init => FramesBounded \/ ~InProgress
  BY BoundsAssumption DEF Init, FramesBounded
<1>2. IInv /\ (FramesBounded \/ ~InProgress) /\ [Next]_vars => (FramesBounded \/ ~InProgress)'
  <2> SUFFICES ASSUME IInv, FramesBounded \/ ~InProgress, [Next]_vars, InProgress'
               PROVE  FramesBounded'
    OBVIOUS
  <2>1. CASE InProgress
    BY <2>1, Bounded
  <2>2. CASE ~InProgress
    BY <2>2, Over DEF vars, control, InProgress
  <2> QED BY <2>1, <2>2
<1>3. /\ IInv /\ (FramesBounded \/ ~InProgress) /\ [Next]_vars
      => [Exiting /\ Exiting' /\ InProgress' => Remaining' < Remaining \/ WhileGoesOn]_vars
  <2> SUFFICES ASSUME IInv, FramesBounded \/ ~InProgress, [Next]_vars, Exiting, Exiting', InProgress',
                      ~(UNCHANGED vars)
               PROVE  Remaining' < Remaining \/ WhileGoesOn
    OBVIOUS
  <2>1. InProgress
    BY Over
  <2> QED BY <2>1, RunsDown
<1> QED BY Invariant, <1>1, <1>2, <1>3, PTL DEF Spec, UnwindingRunsDown

=============================================================================
