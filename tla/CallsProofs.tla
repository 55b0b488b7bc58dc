------------------------------ MODULE CallsProofs ------------------------------
(***************************************************************************)
(* Proofs about Calls, for every program, set of objects and methods, and  *)
(* depth of calls: a method runs on the object it was called on unless its *)
(* Function is named again meanwhile, and calls leave no receiver behind.  *)
(***************************************************************************)
EXTENDS Calls, SequenceFacts

\* The last frame, and the frames below it.
LEMMA TopFacts ==
  ASSUME TypeOK, stack # <<>>
  PROVE  /\ Len(stack) \in Nat \ {0} /\ DOMAIN stack = 1..Len(stack)
         /\ Top = stack[Len(stack)] /\ Top \in Frames
         /\ Front(stack) \in Seq(Frames) /\ DOMAIN Front(stack) = 1..(Len(stack) - 1)
         /\ Len(Front(stack)) = Len(stack) - 1
         /\ \A i \in 1..(Len(stack) - 1) : Front(stack)[i] = stack[i]
<1>1. stack \in Seq(Frames)
  BY DEF TypeOK
<1>2. /\ Len(stack) \in Nat \ {0}
      /\ Front(stack) \in Seq(Frames)
      /\ Len(Front(stack)) = Len(stack) - 1
      /\ \A i \in 1..(Len(stack) - 1) : Front(stack)[i] = stack[i]
      /\ Last(stack) = stack[Len(stack)] /\ Last(stack) \in Frames
  BY <1>1, FrontFacts
<1>3. DOMAIN stack = 1..Len(stack) /\ DOMAIN Front(stack) = 1..Len(Front(stack))
  BY <1>1, <1>2, LenProperties
<1> QED BY <1>2, <1>3 DEF Top

\* Naming a Function again marks its calls, and changes nothing else.
LEMMA NamedFacts ==
  ASSUME TypeOK, NEW f
  PROVE  /\ Named(f) \in Seq(Frames) /\ DOMAIN Named(f) = DOMAIN stack
         /\ Len(Named(f)) = Len(stack)
         /\ \A i \in DOMAIN stack :
              /\ Named(f)[i].kind = stack[i].kind /\ Named(f)[i].fun = stack[i].fun
              /\ Named(f)[i].For = stack[i].For /\ Named(f)[i].self = stack[i].self
              /\ Named(f)[i].again <=>
                   stack[i].again \/ (stack[i].fun = f /\ stack[i].kind = "call")
<1>1. stack \in Seq(Frames)
  BY DEF TypeOK
<1>2. Len(stack) \in Nat /\ DOMAIN stack = 1..Len(stack)
  BY <1>1, LenProperties
<1>3. \A i \in 1..Len(stack) : stack[i] \in Frames
  BY <1>1, <1>2, ElementOfSeq
<1> DEFINE marked(i) == IF stack[i].fun = f /\ stack[i].kind = "call"
                        THEN [stack[i] EXCEPT !.again = TRUE] ELSE stack[i]
<1>4. \A i \in 1..Len(stack) :
        /\ marked(i) \in Frames
        /\ marked(i).kind = stack[i].kind /\ marked(i).fun = stack[i].fun
        /\ marked(i).For = stack[i].For /\ marked(i).self = stack[i].self
        /\ marked(i).again <=> stack[i].again \/ (stack[i].fun = f /\ stack[i].kind = "call")
  BY <1>3 DEF Frames
<1>5. Named(f) = [i \in 1..Len(stack) |-> marked(i)]
  BY <1>2 DEF Named
<1> HIDE DEF marked
<1>6. Named(f) \in Seq(Frames) /\ DOMAIN Named(f) = 1..Len(stack) /\ Len(Named(f)) = Len(stack)
  BY <1>2, <1>4, <1>5, SeqDef, LenProperties
<1> QED BY <1>2, <1>4, <1>5, <1>6

\* A frame on top of others.
LEMMA AppendFacts ==
  ASSUME NEW s \in Seq(Frames), NEW x \in Frames
  PROVE  /\ Append(s, x) \in Seq(Frames) /\ Append(s, x) # <<>>
         /\ Len(s) \in Nat /\ DOMAIN s = 1..Len(s)
         /\ Len(Append(s, x)) = Len(s) + 1
         /\ DOMAIN Append(s, x) = 1..(Len(s) + 1)
         /\ \A i \in 1..Len(s) : Append(s, x)[i] = s[i]
         /\ Append(s, x)[Len(s) + 1] = x
<1>1. Len(s) \in Nat /\ DOMAIN s = 1..Len(s)
  BY LenProperties
<1>2. /\ Append(s, x) \in Seq(Frames) /\ Append(s, x) # <<>>
      /\ Len(Append(s, x)) = Len(s) + 1
      /\ \A i \in 1..Len(s) : Append(s, x)[i] = s[i]
      /\ Append(s, x)[Len(s) + 1] = x
  BY AppendProperties
<1>3. DOMAIN Append(s, x) = 1..Len(Append(s, x))
  BY <1>2, LenProperties
<1> QED BY <1>1, <1>2, <1>3

(***************************************************************************)
(* What the invariant says of the frames s while the Functions have the    *)
(* receivers ob, and the ways in which the frames change.                  *)
(***************************************************************************)
IsMethod(f) == \E o \in Objects, n \in Names : Method[o][n] = f
IsConstructor(f) == \E o \in Objects : Constructors[o] = f

\* what one frame is, by itself
FrameSound(x, ob) ==
  /\ x.kind = "call" => IsMethod(x.fun)
  /\ x.kind = "new" => IsConstructor(x.fun)
  /\ x.kind = "call" /\ x.For # None /\ ~x.again => ob[x.fun] = x.For
  /\ x.kind = "body" /\ x.For # None /\ ~x.again => x.self = x.For

Sound(s, ob) ==
  /\ \A i \in DOMAIN s : FrameSound(s[i], ob)
  /\ \A i, j \in DOMAIN s : i < j /\ s[i].kind = "call" /\ s[j].fun = s[i].fun => s[i].again

\* no call of f waits for its receiver
Freed(s, f) == \A i \in DOMAIN s : s[i].kind = "call" /\ s[i].fun = f => s[i].again

\* the receivers are the same, but that of f
SameBut(f, ob, new) == \A g \in Functions : g # f => new[g] = ob[g]

\* This is what the invariant says.
LEMMA SoundIs ==
  Sound(stack, obj) <=> Callees /\ ReceiverWaits /\ NamedAbove /\ ReceiverUnlessNamedAgain
BY DEF Sound, FrameSound, IsMethod, IsConstructor, Callees, ReceiverWaits, NamedAbove,
       ReceiverUnlessNamedAgain, Bodies

\* No constructor is a method.
LEMMA Disjoint ==
  ASSUME NEW f PROVE ~(IsMethod(f) /\ IsConstructor(f))
BY ConstructorsAssumption DEF IsMethod, IsConstructor

\* A frame is put on top.
LEMMA SoundAppend ==
  ASSUME NEW s \in Seq(Frames), NEW ob, Sound(s, ob), NEW x \in Frames, FrameSound(x, ob),
         Freed(s, x.fun)
  PROVE  Sound(Append(s, x), ob)
<1> DEFINE t == Append(s, x)
           m == Len(s)
<1>1. /\ m \in Nat /\ DOMAIN s = 1..m /\ DOMAIN t = 1..(m + 1)
      /\ \A i \in 1..m : t[i] = s[i]
      /\ t[m + 1] = x
  BY AppendFacts
<1> HIDE DEF t, m
<1>2. \A i \in DOMAIN t : FrameSound(t[i], ob)
  <2>1. \A i \in 1..m : FrameSound(t[i], ob)
    BY <1>1 DEF Sound
  <2>2. \A i \in DOMAIN t : i \in 1..m \/ i = m + 1
    BY <1>1
  <2> QED BY <1>1, <2>1, <2>2
<1>3. ASSUME NEW i \in DOMAIN t, NEW j \in DOMAIN t,
             i < j, t[i].kind = "call", t[j].fun = t[i].fun
      PROVE  t[i].again
  <2>1. i \in 1..m /\ t[i] = s[i]
    BY <1>1, <1>3
  <2>2. CASE j = m + 1
    BY <1>1, <1>3, <2>1, <2>2 DEF Freed
  <2>3. CASE j # m + 1
    <3>1. j \in 1..m /\ t[j] = s[j]
      BY <1>1, <1>3, <2>3
    <3> QED BY <1>1, <1>3, <2>1, <3>1 DEF Sound
  <2> QED BY <2>2, <2>3
<1>4. Sound(t, ob)
  BY <1>2, <1>3 DEF Sound
<1> QED BY <1>4 DEF t

\* The last frame is taken away.
LEMMA SoundFront ==
  ASSUME TypeOK, stack # <<>>, NEW ob, Sound(stack, ob)
  PROVE  Sound(Front(stack), ob)
<1>1. /\ Len(stack) \in Nat \ {0} /\ DOMAIN stack = 1..Len(stack)
      /\ DOMAIN Front(stack) = 1..(Len(stack) - 1)
      /\ \A i \in 1..(Len(stack) - 1) : Front(stack)[i] = stack[i]
  BY TopFacts
<1>2. \A i \in 1..(Len(stack) - 1) : i \in 1..Len(stack)
  BY <1>1
<1> QED BY <1>1, <1>2 DEF Sound

\* Methods and constructors are Functions.
LEMMA CalleeType ==
  ASSUME NEW f, IsMethod(f) \/ IsConstructor(f) PROVE f \in Functions
BY MethodAssumption, ConstructorsAssumption DEF IsMethod, IsConstructor

\* A Function that no call waits for changes its receiver.
LEMMA SoundChange ==
  ASSUME NEW s, NEW ob, Sound(s, ob), NEW new, NEW f,
         SameBut(f, ob, new), Freed(s, f)
  PROVE  Sound(s, new)
<1>1. ASSUME NEW i \in DOMAIN s PROVE FrameSound(s[i], new)
  <2>1. FrameSound(s[i], ob)
    BY <1>1 DEF Sound
  <2>2. s[i].kind = "call" /\ ~s[i].again => s[i].fun # f /\ s[i].fun \in Functions
    BY <1>1, <2>1, CalleeType DEF FrameSound, Freed
  <2> QED BY <2>1, <2>2 DEF FrameSound, SameBut
<1> QED BY <1>1 DEF Sound

\* A Function is named again, and no call of it waits any longer.
LEMMA SoundNamed ==
  ASSUME TypeOK, Sound(stack, obj), NEW f
  PROVE  Sound(Named(f), obj) /\ Freed(Named(f), f)
<1> DEFINE t == Named(f)
<1>1. /\ DOMAIN t = DOMAIN stack
      /\ \A i \in DOMAIN stack :
           /\ t[i].kind = stack[i].kind /\ t[i].fun = stack[i].fun
           /\ t[i].For = stack[i].For /\ t[i].self = stack[i].self
           /\ t[i].again <=> stack[i].again \/ (stack[i].fun = f /\ stack[i].kind = "call")
  BY NamedFacts
<1> HIDE DEF t
<1>2. ASSUME NEW i \in DOMAIN t PROVE FrameSound(t[i], obj)
  BY <1>1 DEF Sound, FrameSound
<1>3. \A i, j \in DOMAIN t : i < j /\ t[i].kind = "call" /\ t[j].fun = t[i].fun => t[i].again
  BY <1>1 DEF Sound
<1>4. Freed(t, f)
  BY <1>1 DEF Freed
<1>5. Sound(t, obj)
  BY <1>2, <1>3 DEF Sound
<1> QED BY <1>4, <1>5 DEF t

\* a call or a body of f is active
Holds(s, f) == \E i \in DOMAIN s : s[i].fun = f /\ s[i].kind # "new"

\* How the frames that hold a Function change with the frames.
LEMMA HoldsAppend ==
  ASSUME NEW s \in Seq(Frames), NEW x \in Frames, NEW f,
         Holds(s, f) \/ (x.fun = f /\ x.kind # "new")
  PROVE  Holds(Append(s, x), f)
<1>1. /\ Len(s) \in Nat /\ DOMAIN s = 1..Len(s) /\ DOMAIN Append(s, x) = 1..(Len(s) + 1)
      /\ \A i \in 1..Len(s) : Append(s, x)[i] = s[i]
      /\ Append(s, x)[Len(s) + 1] = x
  BY AppendFacts
<1>2. Len(s) + 1 \in DOMAIN Append(s, x) /\ \A i \in 1..Len(s) : i \in DOMAIN Append(s, x)
  BY <1>1
<1> QED BY <1>1, <1>2 DEF Holds

LEMMA HoldsNamed ==
  ASSUME TypeOK, NEW f, NEW g, Holds(stack, g)
  PROVE  Holds(Named(f), g)
BY NamedFacts DEF Holds

LEMMA HoldsFront ==
  ASSUME TypeOK, stack # <<>>, NEW f, Holds(stack, f), Top.fun # f \/ Top.kind = "new"
  PROVE  Holds(Front(stack), f)
<1>1. /\ Len(stack) \in Nat \ {0} /\ DOMAIN stack = 1..Len(stack)
      /\ DOMAIN Front(stack) = 1..(Len(stack) - 1)
      /\ \A i \in 1..(Len(stack) - 1) : Front(stack)[i] = stack[i]
      /\ Top = stack[Len(stack)]
  BY TopFacts
<1>2. PICK i \in DOMAIN stack : stack[i].fun = f /\ stack[i].kind # "new"
  BY DEF Holds
<1>3. i # Len(stack)
  BY <1>1, <1>2
<1>4. i \in 1..(Len(stack) - 1)
  BY <1>1, <1>2, <1>3
<1> QED BY <1>1, <1>2, <1>4 DEF Holds

\* The parts of the invariant that tell the receivers, for any of them.
HasIt(ob) == \A f \in Functions : ob[f] # None =>
  (\E n \in Names : Method[ob[f]][n] = f) \/ IsConstructor(f)
HeldBy(s, ob, l) == \A f \in Functions \ (Native \cup l) : ob[f] # None => Holds(s, f)

Parts(s, ob, l) ==
  /\ s \in Seq(Frames) /\ ob \in [Functions -> Objects \cup {None}] /\ l \subseteq Functions
  /\ Sound(s, ob) /\ HasIt(ob) /\ HeldBy(s, ob, l)

\* The invariant, put together and taken apart.
LEMMA PartsIs ==
  IInv <=> Parts(stack, obj, left) /\ error \in BOOLEAN
BY SoundIs DEF IInv, TypeOK, Parts, HasIt, HeldBy, Holds, ReceiverHasIt, ReceiverHeld, IsConstructor

LEMMA PartsIsNext ==
  IInv' <=> Parts(stack', obj', left') /\ error' \in BOOLEAN
<1>1. Sound(stack', obj') <=> (Callees /\ ReceiverWaits /\ NamedAbove /\ ReceiverUnlessNamedAgain)'
  BY DEF Sound, FrameSound, IsMethod, IsConstructor, Callees, ReceiverWaits, NamedAbove,
         ReceiverUnlessNamedAgain, Bodies
<1> QED BY <1>1 DEF IInv, TypeOK, Parts, HasIt, HeldBy, Holds, ReceiverHasIt, ReceiverHeld, IsConstructor

(***************************************************************************)
(* The steps.                                                              *)
(***************************************************************************)
\* A new frame belongs to the body that evaluates.
LEMMA NewFrame ==
  ASSUME TypeOK, stack # <<>>, NEW args \in BOOLEAN
  PROVE  /\ \A f \in Functions, o \in Objects \cup {None} : Call(f, o, args) \in Frames
         /\ \A o \in Objects : New(o, args) \in Frames
<1>1. Self \in Objects \cup {None}
  BY TopFacts DEF Self, Frames
<1>2. \A o \in Objects : Constructors[o] \in Functions
  BY ConstructorsAssumption
<1> QED BY <1>1, <1>2 DEF Call, New, Frames

\* x.n sets the receiver of the Function that it names, which is one of its own
LEMMA HandleSets ==
  ASSUME IInv, NEW o \in Objects, NEW n \in Names
  PROVE  LET f == Method[o][n]  ob == [obj EXCEPT ![f] = o] IN
         /\ f \in Functions /\ IsMethod(f) /\ ob[f] = o
         /\ ob \in [Functions -> Objects \cup {None}] /\ HasIt(ob)
         /\ SameBut(f, obj, ob)
         /\ Named(f) \in Seq(Frames) /\ Sound(Named(f), ob) /\ Freed(Named(f), f)
<1> DEFINE f == Method[o][n]  ob == [obj EXCEPT ![f] = o]
<1>1. TypeOK /\ Sound(stack, obj) /\ HasIt(obj) /\ obj \in [Functions -> Objects \cup {None}]
  BY PartsIs DEF IInv, Parts
<1>2. f \in Functions /\ IsMethod(f)
  BY MethodAssumption DEF IsMethod
<1>3. /\ ob \in [Functions -> Objects \cup {None}] /\ ob[f] = o
      /\ SameBut(f, obj, ob)
  BY <1>1, <1>2 DEF SameBut
<1>4. HasIt(ob)
  BY <1>1, <1>3 DEF HasIt, SameBut
<1>5. Sound(Named(f), obj) /\ Freed(Named(f), f)
  BY <1>1, SoundNamed
<1> HIDE DEF f, ob
<1>6. Sound(Named(f), ob)
  BY <1>3, <1>5, SoundChange
<1>7. Named(f) \in Seq(Frames)
  BY <1>1, NamedFacts
<1> QED BY <1>2, <1>3, <1>4, <1>5, <1>6, <1>7 DEF f, ob

LEMMA MethodHandleStep ==
  ASSUME IInv, NEW o \in Objects, NEW n \in Names, MethodHandle(o, n)
  PROVE  IInv'
<1> DEFINE f == Method[o][n]
<1>1. PICK args \in BOOLEAN :
        /\ stack # <<>> /\ obj' = [obj EXCEPT ![f] = o]
        /\ stack' = Append(Named(f), Call(f, o, args))
        /\ left' = left \ {f} /\ error' = error
  BY DEF MethodHandle, Evaluates
<1> DEFINE x == Call(f, o, args)
<1>2. /\ f \in Functions /\ IsMethod(f) /\ obj'[f] = o
      /\ obj' \in [Functions -> Objects \cup {None}] /\ HasIt(obj')
      /\ SameBut(f, obj, obj')
      /\ Named(f) \in Seq(Frames) /\ Sound(Named(f), obj') /\ Freed(Named(f), f)
  BY <1>1, HandleSets
<1>3. TypeOK /\ error \in BOOLEAN /\ left \subseteq Functions /\ HeldBy(stack, obj, left)
  BY PartsIs DEF IInv, Parts
<1>4. x \in Frames /\ x.kind = "call" /\ x.fun = f /\ x.For = o
  BY <1>1, <1>2, <1>3, NewFrame DEF Call
<1> HIDE DEF f, x
<1>5. FrameSound(x, obj')
  BY <1>2, <1>4 DEF FrameSound
<1>6. Sound(stack', obj') /\ stack' \in Seq(Frames)
  BY <1>1, <1>2, <1>4, <1>5, SoundAppend, AppendFacts DEF x, f
<1>7. HeldBy(stack', obj', left')
  <2> SUFFICES ASSUME NEW g \in Functions \ (Native \cup left'), obj'[g] # None
               PROVE  Holds(stack', g)
    BY DEF HeldBy
  <2>1. g # f => Holds(Named(f), g)
    BY <1>1, <1>2, <1>3, HoldsNamed DEF HeldBy, SameBut
  <2> QED BY <2>1, <1>1, <1>2, <1>4, HoldsAppend DEF x, f
<1> QED BY <1>1, <1>2, <1>3, <1>6, <1>7, PartsIsNext DEF Parts, f

LEMMA HandleUnusedStep ==
  ASSUME IInv, NEW o \in Objects, NEW n \in Names, HandleUnused(o, n)
  PROVE  IInv'
<1> DEFINE f == Method[o][n]
<1>1. /\ obj' = [obj EXCEPT ![f] = o] /\ stack' = Named(f)
      /\ left' = left \cup {f} /\ (error' = TRUE \/ error' = error)
  BY DEF HandleUnused
<1>2. /\ f \in Functions /\ obj' \in [Functions -> Objects \cup {None}] /\ HasIt(obj')
      /\ SameBut(f, obj, obj')
      /\ Named(f) \in Seq(Frames) /\ Sound(Named(f), obj')
  BY <1>1, HandleSets
<1>3. TypeOK /\ error \in BOOLEAN /\ left \subseteq Functions /\ HeldBy(stack, obj, left)
  BY PartsIs DEF IInv, Parts
<1> HIDE DEF f
<1>4. HeldBy(stack', obj', left')
  BY <1>1, <1>2, <1>3, HoldsNamed DEF HeldBy, SameBut
<1> QED BY <1>1, <1>2, <1>3, <1>4, PartsIsNext DEF Parts

LEMMA OwnHandleStep ==
  ASSUME IInv, NEW n \in Names, OwnHandle(n)
  PROVE  IInv'
<1> DEFINE f == Method[Self][n]
<1>1. PICK args \in BOOLEAN :
        /\ stack # <<>> /\ Self # None
        /\ stack' = Append(Named(f), Call(f, None, args))
        /\ obj' = obj /\ left' = left /\ error' = error
  BY DEF OwnHandle, Evaluates
<1> DEFINE x == Call(f, None, args)
<1>2. /\ TypeOK /\ error \in BOOLEAN
      /\ Parts(stack, obj, left)
  BY PartsIs DEF IInv, TypeOK
<1>3. Self \in Objects
  BY <1>1, <1>2, TopFacts DEF Self, Frames
<1>4. f \in Functions /\ IsMethod(f)
  BY <1>3, MethodAssumption DEF IsMethod
<1>5. x \in Frames /\ x.kind = "call" /\ x.fun = f /\ x.For = None
  BY <1>1, <1>2, <1>4, NewFrame DEF Call
<1> HIDE DEF f, x
<1>6. FrameSound(x, obj)
  BY <1>4, <1>5 DEF FrameSound
<1>7. Named(f) \in Seq(Frames) /\ Sound(Named(f), obj) /\ Freed(Named(f), f)
  BY <1>2, SoundNamed, NamedFacts DEF Parts
<1>8. Sound(stack', obj') /\ stack' \in Seq(Frames)
  BY <1>1, <1>5, <1>6, <1>7, SoundAppend, AppendFacts DEF x
<1>9. HeldBy(stack', obj', left')
  BY <1>1, <1>2, <1>5, <1>7, HoldsNamed, HoldsAppend DEF HeldBy, Parts, x
<1> QED BY <1>1, <1>2, <1>8, <1>9, PartsIsNext DEF Parts

LEMMA ConstructStep ==
  ASSUME IInv, NEW o \in Objects, Construct(o)
  PROVE  IInv'
<1>1. PICK args \in BOOLEAN :
        /\ stack # <<>> /\ stack' = Append(stack, New(o, args))
        /\ obj' = obj /\ left' = left /\ error' = error
  BY DEF Construct, Evaluates
<1> DEFINE x == New(o, args)
<1>2. TypeOK /\ error \in BOOLEAN /\ Parts(stack, obj, left) /\ stack \in Seq(Frames)
  BY PartsIs DEF IInv, TypeOK
<1>3. x \in Frames /\ x.kind = "new" /\ IsConstructor(x.fun)
  BY <1>1, <1>2, NewFrame DEF New, IsConstructor
<1> HIDE DEF x
<1>4. FrameSound(x, obj)
  BY <1>3 DEF FrameSound
<1>5. Freed(stack, x.fun)
  BY <1>2, <1>3, Disjoint DEF Parts, Sound, FrameSound, Freed
<1>6. Sound(stack', obj') /\ stack' \in Seq(Frames)
  BY <1>1, <1>2, <1>3, <1>4, <1>5, SoundAppend, AppendFacts DEF x, Parts
<1>7. HeldBy(stack', obj', left')
  BY <1>1, <1>2, <1>3, HoldsAppend DEF HeldBy, Parts, x
<1> QED BY <1>1, <1>2, <1>6, <1>7, PartsIsNext DEF Parts

\* The last frame goes, and no receiver changes but that of its own Function, to none.
LEMMA PopStep ==
  ASSUME IInv, stack # <<>>, stack' = Front(stack), error' = error,
         Top.kind = "body",
         \/ obj' = obj /\ left' = left /\ (Top.fun \in Native \/ Top.fun \notin Functions)
         \/ obj' = [obj EXCEPT ![Top.fun] = None] /\ left' = left \ {Top.fun}
  PROVE  IInv'
<1>1. TypeOK /\ error \in BOOLEAN /\ Parts(stack, obj, left)
  BY PartsIs DEF IInv
<1> DEFINE f == Top.fun
<1>2. /\ obj' \in [Functions -> Objects \cup {None}] /\ left' \subseteq Functions
      /\ SameBut(f, obj, obj')
      /\ f \in Functions /\ f \notin Native => obj'[f] = None
      /\ \A g \in Functions : obj'[g] = obj[g] \/ obj'[g] = None
      /\ left \subseteq left' \cup {f}
  BY <1>1 DEF Parts, SameBut
<1>3. Front(stack) \in Seq(Frames) /\ Sound(Front(stack), obj)
  BY <1>1, SoundFront, TopFacts DEF Parts
<1>4. HasIt(obj')
  BY <1>1, <1>2 DEF Parts, HasIt
<1>5. Freed(Front(stack), f)
  <2>1. /\ Len(stack) \in Nat \ {0} /\ DOMAIN stack = 1..Len(stack)
        /\ DOMAIN Front(stack) = 1..(Len(stack) - 1)
        /\ \A i \in 1..(Len(stack) - 1) : Front(stack)[i] = stack[i]
        /\ Top = stack[Len(stack)]
    BY <1>1, TopFacts
  <2>2. \A i \in 1..(Len(stack) - 1) : i \in DOMAIN stack /\ i < Len(stack) /\ Len(stack) \in DOMAIN stack
    BY <2>1
  <2> QED BY <1>1, <2>1, <2>2 DEF Parts, Sound, Freed
<1> HIDE DEF f
<1>6. Sound(stack', obj') /\ stack' \in Seq(Frames)
  BY <1>2, <1>3, <1>5, SoundChange
<1>7. HeldBy(stack', obj', left')
  <2> SUFFICES ASSUME NEW g \in Functions \ (Native \cup left'), obj'[g] # None
               PROVE  Holds(stack', g)
    BY DEF HeldBy
  <2>1. g # f
    BY <1>2
  <2>2. obj[g] # None /\ g \notin left
    BY <1>2, <2>1
  <2>3. Holds(stack, g)
    BY <1>1, <2>2 DEF Parts, HeldBy
  <2> QED BY <1>1, <2>1, <2>3, HoldsFront DEF f
<1> QED BY <1>1, <1>2, <1>4, <1>6, <1>7, PartsIsNext DEF Parts

\* The frame of /main is of no Function.
LEMMA LeaveStep ==
  ASSUME IInv, FunctionLeaves \/ NativeLeaves
  PROVE  IInv'
<1>1. CASE FunctionLeaves
  <2>1. CASE Top = Main
    <3>1. Top.fun \notin Functions
      BY <2>1, ObjectsAssumption DEF Main
    <3> QED BY <1>1, <2>1, <3>1, PopStep DEF FunctionLeaves
  <2>2. CASE Top # Main
    BY <1>1, <2>2, PopStep DEF FunctionLeaves
  <2> QED BY <2>1, <2>2
<1>2. CASE NativeLeaves
  BY <1>2, PopStep DEF NativeLeaves
<1> QED BY <1>1, <1>2

LEMMA ArgumentFailsStep ==
  ASSUME IInv, ArgumentFails
  PROVE  IInv'
<1>1. TypeOK /\ error \in BOOLEAN /\ Parts(stack, obj, left)
  BY PartsIs DEF IInv
<1>2. /\ stack # <<>> /\ Top.kind # "body" /\ stack' = Front(stack) /\ obj' = obj /\ error' = error
      /\ left' = IF Top.kind = "call" /\ obj[Top.fun] # None THEN left \cup {Top.fun} ELSE left
  BY DEF ArgumentFails
<1>3. stack' \in Seq(Frames) /\ Sound(stack', obj')
  BY <1>1, <1>2, SoundFront, TopFacts DEF Parts
<1>4. Top.kind = "call" => Top.fun \in Functions
  <2>1. Top = stack[Len(stack)] /\ Len(stack) \in DOMAIN stack
    BY <1>1, <1>2, TopFacts
  <2>2. FrameSound(Top, obj)
    BY <1>1, <2>1 DEF Parts, Sound
  <2> QED BY <2>2, CalleeType DEF FrameSound
<1>5. Top.kind \in {"call", "new"}
  BY <1>1, <1>2, TopFacts DEF Frames
<1>6. HeldBy(stack', obj', left')
  <2> SUFFICES ASSUME NEW g \in Functions \ (Native \cup left'), obj[g] # None
               PROVE  Holds(stack', g)
    BY <1>2 DEF HeldBy
  <2>1. Holds(stack, g)
    BY <1>1, <1>2 DEF Parts, HeldBy
  <2>2. Top.fun # g \/ Top.kind = "new"
    BY <1>2, <1>5
  <2> QED BY <1>1, <1>2, <2>1, <2>2, HoldsFront
<1>7. left' \subseteq Functions
  BY <1>1, <1>2, <1>4 DEF Parts
<1> QED BY <1>1, <1>2, <1>3, <1>6, <1>7, PartsIsNext DEF Parts

\* The name of a method that some Object has.
LEMMA NameFacts ==
  ASSUME NEW o \in Objects, NEW n \in Names
  PROVE  NameOf(Method[o][n]) = n
<1> DEFINE f == Method[o][n]
<1>1. \E k \in Names : \E p \in Objects : Method[p][k] = f
  OBVIOUS
<1>2. NameOf(f) \in Names /\ \E p \in Objects : Method[p][NameOf(f)] = f
  BY <1>1 DEF NameOf
<1> QED BY <1>2, MethodAssumption

\* A frame turns into the body of its Function.
LEMMA BodySound ==
  ASSUME TypeOK, stack # <<>>, NEW ob, Sound(stack, ob), NEW o \in Objects \cup {None},
         Top.For # None /\ ~Top.again => o = Top.For
  PROVE  LET b == Body(Top, Top.fun, o) IN
         /\ b \in Frames /\ b.kind = "body" /\ b.fun = Top.fun
         /\ Append(Front(stack), b) \in Seq(Frames)
         /\ Sound(Append(Front(stack), b), ob)
<1> DEFINE b == Body(Top, Top.fun, o)
<1>1. /\ Len(stack) \in Nat \ {0} /\ DOMAIN stack = 1..Len(stack)
      /\ Front(stack) \in Seq(Frames)
      /\ DOMAIN Front(stack) = 1..(Len(stack) - 1)
      /\ \A i \in 1..(Len(stack) - 1) : Front(stack)[i] = stack[i]
      /\ Top = stack[Len(stack)] /\ Top \in Frames
  BY TopFacts
<1>2. /\ b \in Frames /\ b.kind = "body" /\ b.fun = Top.fun
      /\ b.For = Top.For /\ b.again = Top.again /\ b.self = o
  BY <1>1 DEF Body, Frames
<1> HIDE DEF b
<1>3. FrameSound(b, ob)
  BY <1>2 DEF FrameSound
<1>4. Freed(Front(stack), b.fun)
  <2>1. \A i \in 1..(Len(stack) - 1) : i \in DOMAIN stack /\ i < Len(stack) /\ Len(stack) \in DOMAIN stack
    BY <1>1
  <2> QED BY <1>1, <1>2, <2>1 DEF Sound, Freed
<1>5. Sound(Front(stack), ob)
  BY SoundFront
<1>6. Append(Front(stack), b) \in Seq(Frames) /\ Sound(Append(Front(stack), b), ob)
  BY <1>1, <1>2, <1>3, <1>4, <1>5, SoundAppend, AppendFacts
<1> QED BY <1>2, <1>6 DEF b

\* A receiver that is not left is held when the last frame has become a body of its Function.
LEMMA BodyHolds ==
  ASSUME TypeOK, stack # <<>>, NEW b \in Frames, b.kind = "body", b.fun = Top.fun,
         NEW g, Holds(stack, g) \/ g = Top.fun
  PROVE  Holds(Append(Front(stack), b), g)
<1>1. Front(stack) \in Seq(Frames)
  BY TopFacts
<1>2. CASE g = Top.fun
  BY <1>1, <1>2, HoldsAppend
<1>3. CASE g # Top.fun
  <2>1. Holds(Front(stack), g)
    BY <1>3, HoldsFront
  <2> QED BY <1>1, <2>1, HoldsAppend
<1> QED BY <1>2, <1>3

\* The Function that is found again is the one that was called, and its receiver is the same.
LEMMA InvokeStep ==
  ASSUME IInv, Invoke
  PROVE  IInv'
<1>1. TypeOK /\ error \in BOOLEAN /\ Parts(stack, obj, left)
  BY PartsIs DEF IInv
<1> DEFINE o == obj[Top.fun]
           f == IF o = None THEN Top.fun ELSE Method[o][NameOf(Top.fun)]
<1>2. /\ stack # <<>> /\ Top.kind = "call"
      /\ obj' = [obj EXCEPT ![f] = o]
      /\ stack' = Append(Front(stack), Body(Top, f, o))
      /\ error' = (error \/ (f \in Native /\ o = None)) /\ left' = left
  BY DEF Invoke
<1>3. FrameSound(Top, obj)
  <2>1. Top = stack[Len(stack)] /\ Len(stack) \in DOMAIN stack
    BY <1>1, <1>2, TopFacts
  <2> QED BY <1>1, <2>1 DEF Parts, Sound
<1>4. IsMethod(Top.fun) /\ Top.fun \in Functions /\ ~IsConstructor(Top.fun)
  BY <1>2, <1>3, CalleeType, Disjoint DEF FrameSound
<1>5. f = Top.fun
  <2>1. CASE o = None
    BY <2>1
  <2>2. CASE o # None
    <3>1. \E n \in Names : Method[o][n] = Top.fun
      BY <1>1, <1>4, <2>2 DEF Parts, HasIt
    <3>2. PICK n \in Names : Method[o][n] = Top.fun
      BY <3>1
    <3>3. o \in Objects
      BY <1>1, <1>4, <2>2 DEF Parts
    <3>4. NameOf(Top.fun) = n
      BY <3>2, <3>3, NameFacts
    <3> QED BY <2>2, <3>2, <3>4
  <2> QED BY <2>1, <2>2
<1>6. o \in Objects \cup {None} /\ obj' = obj
  BY <1>1, <1>2, <1>4, <1>5 DEF Parts
<1>7. Top.For # None /\ ~Top.again => o = Top.For
  BY <1>2, <1>3 DEF FrameSound
<1> DEFINE b == Body(Top, Top.fun, o)
<1>8. stack' = Append(Front(stack), b)
  BY <1>2, <1>5
<1> HIDE DEF o, f
<1>9. /\ b \in Frames /\ b.kind = "body" /\ b.fun = Top.fun
      /\ stack' \in Seq(Frames) /\ Sound(stack', obj)
  BY <1>1, <1>2, <1>6, <1>7, <1>8, BodySound DEF Parts
<1> HIDE DEF b
<1>10. HeldBy(stack', obj, left)
  BY <1>1, <1>2, <1>8, <1>9, BodyHolds DEF Parts, HeldBy
<1>11. error' \in BOOLEAN
  BY <1>1, <1>2
<1> QED BY <1>1, <1>2, <1>6, <1>9, <1>10, <1>11, PartsIsNext DEF Parts

LEMMA InvokeConstructorStep ==
  ASSUME IInv, InvokeConstructor
  PROVE  IInv'
<1>1. TypeOK /\ error \in BOOLEAN /\ Parts(stack, obj, left)
  BY PartsIs DEF IInv
<1> DEFINE f == Top.fun
           b == Body(Top, f, Top.For)
<1>2. /\ stack # <<>> /\ Top.kind = "new"
      /\ obj' = [obj EXCEPT ![f] = Top.For]
      /\ stack' = Append(Front(stack), b)
      /\ error' = error /\ left' = left
  BY DEF InvokeConstructor
<1>3. Top \in Frames /\ FrameSound(Top, obj)
  <2>1. Top = stack[Len(stack)] /\ Len(stack) \in DOMAIN stack /\ Top \in Frames
    BY <1>1, <1>2, TopFacts
  <2> QED BY <1>1, <2>1 DEF Parts, Sound
<1>4. IsConstructor(f) /\ f \in Functions /\ ~IsMethod(f)
  BY <1>2, <1>3, CalleeType, Disjoint DEF FrameSound
<1>5. Top.For \in Objects \cup {None}
  BY <1>3 DEF Frames
<1>6. /\ obj' \in [Functions -> Objects \cup {None}] /\ SameBut(f, obj, obj')
  BY <1>1, <1>2, <1>4, <1>5 DEF Parts, SameBut
<1>7. HasIt(obj')
  BY <1>1, <1>4, <1>6 DEF Parts, HasIt, SameBut
<1>8. Freed(stack, f)
  BY <1>1, <1>4 DEF Parts, Sound, FrameSound, Freed
<1>9. Sound(stack, obj')
  BY <1>1, <1>6, <1>8, SoundChange DEF Parts
<1>10. /\ b \in Frames /\ b.kind = "body" /\ b.fun = f
       /\ stack' \in Seq(Frames) /\ Sound(stack', obj')
  BY <1>1, <1>2, <1>5, <1>9, BodySound
<1> HIDE DEF b
<1>11. HeldBy(stack', obj', left')
  <2> SUFFICES ASSUME NEW g \in Functions \ (Native \cup left), obj'[g] # None
               PROVE  Holds(stack', g)
    BY <1>2 DEF HeldBy
  <2>1. g = f \/ Holds(stack, g)
    BY <1>1, <1>6 DEF Parts, HeldBy, SameBut
  <2> QED BY <1>1, <1>2, <1>10, <2>1, BodyHolds
<1> QED BY <1>1, <1>2, <1>6, <1>7, <1>10, <1>11, PartsIsNext DEF Parts

\* An error comes or goes, or nothing happens.
LEMMA ErrorStep ==
  ASSUME IInv, Raise \/ Catch \/ UNCHANGED vars
  PROVE  IInv'
<1>1. /\ stack' = stack /\ obj' = obj /\ left' = left
      /\ error' = error \/ error' \in BOOLEAN
  BY DEF Raise, Catch, vars
<1> QED BY <1>1, PartsIs, PartsIsNext

\* Every step keeps the invariant.
LEMMA Inductive ==
  ASSUME IInv, [Next]_vars
  PROVE  IInv'
<1>1. CASE \E o \in Objects, n \in Names : MethodHandle(o, n) \/ HandleUnused(o, n)
  BY <1>1, MethodHandleStep, HandleUnusedStep
<1>2. CASE \E n \in Names : OwnHandle(n)
  BY <1>2, OwnHandleStep
<1>3. CASE \E o \in Objects : Construct(o)
  BY <1>3, ConstructStep
<1>4. CASE Raise \/ Catch \/ Ended \/ UNCHANGED vars
  BY <1>4, ErrorStep DEF Ended
<1>5. CASE ArgumentFails
  BY <1>5, ArgumentFailsStep
<1>6. CASE Invoke \/ InvokeConstructor
  BY <1>6, InvokeStep, InvokeConstructorStep
<1>7. CASE FunctionLeaves \/ NativeLeaves
  BY <1>7, LeaveStep
<1> QED BY <1>1, <1>2, <1>3, <1>4, <1>5, <1>6, <1>7 DEF Next

\* And it holds before the first.
LEMMA Initial ==
  ASSUME Init
  PROVE  IInv
<1>1. Main \in Frames /\ Main.kind = "body" /\ Main.For = None
  BY DEF Main, Frames
<1>2. stack = <<Main>> /\ obj = [f \in Functions |-> None] /\ error = FALSE /\ left = {}
  BY DEF Init
<1>3. /\ stack \in Seq(Frames) /\ DOMAIN stack = {1} /\ stack[1] = Main
  BY <1>1, <1>2
<1>4. Sound(stack, obj)
  BY <1>1, <1>3 DEF Sound, FrameSound
<1>5. HasIt(obj) /\ HeldBy(stack, obj, left) /\ obj \in [Functions -> Objects \cup {None}]
  BY <1>2 DEF HasIt, HeldBy
<1> QED BY <1>2, <1>3, <1>4, <1>5, PartsIs DEF Parts

\* The frames and the receivers fit together in every state: each waiting call has the receiver that it
\* named, unless it was named again, and each receiver a Function that its object has by that name
\* (CallExpression::resolve, MemberAccess::handle, Function::resolve).
THEOREM Invariant == Spec => []IInv
<1>1. Init => IInv
  BY Initial
<1>2. IInv /\ [Next]_vars => IInv'
  BY Inductive
<1> QED BY <1>1, <1>2, PTL DEF Spec

\* Every variable has its type; above all, the method that Object::call_method looks for again by its
\* name is there.
THEOREM TypeCorrect == Spec => []TypeOK
<1>1. IInv => TypeOK
  BY DEF IInv
<1> QED BY <1>1, Invariant, PTL

\* A method runs on the object it was called on, and a constructor on the one it constructs, unless the
\* Function was named again while the arguments were evaluated (Function::obj).
THEOREM ReceiversExact == Spec => []ReceiverUnlessNamedAgain
<1>1. IInv => ReceiverUnlessNamedAgain
  BY DEF IInv
<1> QED BY <1>1, Invariant, PTL

\* Outside its calls a Function that is not native has no receiver, but after an argument that failed or
\* a handle without a call (Function::resolve resets Function::obj).
THEOREM NoneLeft == Spec => []NoReceiverLeft
<1>1. IInv => NoReceiverLeft
  BY DEF IInv, ReceiverHeld, NoReceiverLeft
<1> QED BY <1>1, Invariant, PTL

===============================================================================
