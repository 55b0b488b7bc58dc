----------------------------- MODULE Interpreter -----------------------------
(***************************************************************************)
(* Control flow of the tree-walking interpreter (AST.cpp, Interpreter.h,   *)
(* Parser::parse for const blocks).                                        *)
(*                                                                         *)
(* Evaluation is the C++ recursion of ASTNode::resolve().  A break, a      *)
(* continue, a return and a runtime error do not unwind that recursion:    *)
(* they raise a flag on the Interpreter, and every resolve() on the way    *)
(* out has to look at the flags, pop the scopes it pushed and decide who   *)
(* consumes the flag.  `stack' holds the resolve() calls that are active,  *)
(* outermost first.  The program is not fixed: whenever a block may take   *)
(* another statement, any construct in Constructs may be it, so that a     *)
(* behaviour of this module is a run of some program.                      *)
(***************************************************************************)
EXTENDS Integers, Sequences, SequencesExt

CONSTANTS
  Constructs,   \* the statements programs are written with
  Raised,       \* the errors an expression or a throw can raise
  ConstBlocks,  \* how many const{} blocks the program holds
  MaxFrames,    \* bound: resolve() calls active at once
  MaxBlock,     \* bound: statements in a block, calls in an expression
  MaxBreak      \* bound: the largest integer given to break

ExprStatements == {"call", "assign", "return", "throw"}
Loops == {"while", "for", "foreach"}
Compounds == Loops \cup {"if", "try"}
AllConstructs == ExprStatements \cup Compounds \cup {"break", "continue"}

NoError == "none"
Errors == Raised \cup {NoError, "BadBreak", "FailedTypecheck"}

ASSUME ConstructsAssumption == Constructs \subseteq AllConstructs
ASSUME RaisedAssumption ==
  Raised \cap {NoError, "BadBreak", "FailedTypecheck"} = {}
ASSUME BoundsAssumption ==
  /\ ConstBlocks \in Nat
  /\ MaxFrames \in Nat \ {0}
  /\ MaxBlock \in Nat \ {0}
  /\ MaxBreak \in Nat

VARIABLES
  status,        \* "parsing", "running", or how the process ended
  todo,          \* const blocks that Parser::parse has yet to evaluate
  stack,         \* the active resolve() calls
  ctl,           \* "exec": the last frame has just got control from above,
                 \* "back": a resolve() it called has just returned to it
  blockscope,    \* scopelets held by each Scope on the function stack
  BREAK_COUNTER, FORCE_RETURN, CONTINUE_FLAG, error,
  jump           \* history: what the latest break or continue asked for

flags == <<BREAK_COUNTER, FORCE_RETURN, CONTINUE_FLAG>>
control == <<status, todo>>
vars == <<control, stack, ctl, blockscope, flags, error, jump>>

(***************************************************************************)
(* Frames.  `at' says which part of the construct is being evaluated,      *)
(* `left' how many more statements (or else-branches) it may still have.   *)
(* `loops' and `entry' are history: the loops of this function that are    *)
(* open, this one included, and blockscope when resolve() was called.      *)
(***************************************************************************)
BlockAt == {"body", "catch"}
ExprAt == {"expr", "rhs", "lhs", "init", "cond", "incr", "table"}
Kinds == ExprStatements \cup Compounds \cup {"func", "const"}

FirstAt(kind) ==
  CASE kind \in {"func", "const", "try"} -> "body"
    [] kind \in {"if", "while"}          -> "cond"
    [] kind = "for"                      -> "init"
    [] kind = "foreach"                  -> "table"
    [] kind = "assign"                   -> "rhs"
    [] OTHER                             -> "expr"

Top == Last(stack)

Frame(kind, loops) ==
  [kind |-> kind, at |-> FirstAt(kind), left |-> MaxBlock,
   loops |-> loops, entry |-> blockscope]

InProgress == status \in {"parsing", "running"}

\* mutant: the scope is popped twice
PopTwice(scopes) == [scopes EXCEPT ![Len(scopes)] = @ - 2]

\* Scope::push, Scope::pop, Interpreter::push_stack, Interpreter::pop_stack
PushBlock(scopes) == [scopes EXCEPT ![Len(scopes)] = @ + 1]
PopBlock(scopes)  == [scopes EXCEPT ![Len(scopes)] = @ - 1]
PushStack(scopes) == Append(scopes, 1)
PopStack(scopes)  == Front(scopes)

WithTop(frame) == [stack EXCEPT ![Len(stack)] = frame]

\* the last frame moves on to another of its parts
Goto(place) ==
  /\ stack' = WithTop([Top EXCEPT !.at = place, !.left = MaxBlock])
  /\ ctl' = "exec"

\* the last frame's resolve() returns
Leave ==
  /\ stack' = Front(stack)
  /\ ctl' = "back"

Enter(frame) ==
  /\ stack' = Append(stack, frame)
  /\ ctl' = "exec"

(***************************************************************************)
(* Where a block stands.  Function::resolve looks at FORCE_RETURN and      *)
(* error between two statements, Block::iterate at all four flags.         *)
(* Parser::readBlock refuses a block without statements.                   *)
(***************************************************************************)
\* mutant: Block::iterate does not look at FORCE_RETURN
PendingButReturn == error # NoError \/ BREAK_COUNTER > 0 \/ CONTINUE_FLAG

Pending ==
  FORCE_RETURN \/ error # NoError \/ BREAK_COUNTER > 0 \/ CONTINUE_FLAG

InBlock == InProgress /\ stack # <<>> /\ Top.at \in BlockAt

AtStatement ==
  /\ InBlock
  /\ \/ ctl = "exec"
     \/ Top.kind = "func" /\ ~(FORCE_RETURN \/ error # NoError)
     \/ Top.kind # "func" /\ ~Pending

OutOfStatements == AtStatement /\ Top.left < MaxBlock

\* Block::iterate has returned: its statements ran out, or a flag stopped it
Iterated(kind, place) ==
  /\ InBlock /\ Top.kind = kind /\ Top.at = place
  /\ OutOfStatements \/ (ctl = "back" /\ Pending)

(***************************************************************************)
(* Statements.                                                             *)
(***************************************************************************)
\* the bound MaxFrames leaves every block room for one more statement
Room(kind) ==
  Len(stack) + (IF kind \in ExprStatements THEN 1 ELSE 2) <= MaxFrames

Spend == WithTop([Top EXCEPT !.left = @ - 1])

\* resolve() of a statement with operands or with blocks is called
Begin(kind) ==
  /\ AtStatement /\ Top.left > 0 /\ kind \in Constructs /\ Room(kind)
  /\ LET scopes == IF kind \in {"while", "for", "try"}
                   THEN PushBlock(blockscope) ELSE blockscope
         nested == Top.loops + IF kind \in Loops THEN 1 ELSE 0
     IN  /\ blockscope' = scopes
         /\ stack' = Append(Spend, Frame(kind, nested))
  /\ ctl' = "exec"
  /\ UNCHANGED <<control, flags, error, jump>>

\* Parser::readStatement refuses break and continue directly in a function
MayJump == AtStatement /\ Top.left > 0 /\ Top.kind \notin {"func", "const"}

Break(n) ==
  /\ MayJump /\ "break" \in Constructs
  /\ BREAK_COUNTER' = n
  /\ jump' = [legal |-> ~Pending /\ n <= Top.loops,
              kept  |-> IF n <= Top.loops THEN Top.loops - n ELSE 0]
  /\ stack' = Spend /\ ctl' = "back"
  /\ UNCHANGED <<control, blockscope, FORCE_RETURN, CONTINUE_FLAG, error>>

Continue ==
  /\ MayJump /\ "continue" \in Constructs
  /\ CONTINUE_FLAG' = TRUE
  /\ jump' = [legal |-> ~Pending /\ Top.loops > 0, kept |-> Top.loops]
  /\ stack' = Spend /\ ctl' = "back"
  /\ UNCHANGED <<control, blockscope, BREAK_COUNTER, FORCE_RETURN, error>>

(***************************************************************************)
(* Expressions.  An operand yields a value (`truth' is what a condition or *)
(* a typecheck makes of it), raises an error that replaces the one before  *)
(* it, or first calls a João function.  Some expressions look at the error *)
(* between two operands; a table constructor and an index do not.          *)
(***************************************************************************)
AtExpr == InProgress /\ stack # <<>> /\ Top.at \in ExprAt

Evaluates(truth, err) ==
  /\ AtExpr
  /\ err = error \/ (err \in Raised /\ ~truth)

\* an expression holds at most MaxBlock calls
CallFunction ==
  /\ AtExpr /\ Top.left > 0 /\ "call" \in Constructs /\ Room("func")
  /\ blockscope' = PushStack(blockscope)
  /\ stack' = Append(Spend, Frame("func", 0)) /\ ctl' = "exec"
  /\ UNCHANGED <<control, flags, error, jump>>

\* RuntimeError(node, what), the error without a code: exit(1)
FatalError ==
  /\ AtExpr /\ status' = "fatal"
  /\ UNCHANGED <<todo, stack, ctl, blockscope, flags, error, jump>>

CallStatement ==
  /\ AtExpr /\ Top.kind = "call"
  /\ \E truth \in BOOLEAN : Evaluates(truth, error')
  /\ Leave
  /\ UNCHANGED <<control, blockscope, flags, jump>>

\* AssignmentStatement evaluates its target before it looks at the error
AssignRhs ==
  /\ AtExpr /\ Top.at = "rhs"
  /\ \E truth \in BOOLEAN : Evaluates(truth, error')
  /\ Goto("lhs")
  /\ UNCHANGED <<control, blockscope, flags, jump>>

AssignLhs ==
  /\ AtExpr /\ Top.at = "lhs"
  /\ \E truth \in BOOLEAN : Evaluates(truth, error')
  /\ Leave
  /\ UNCHANGED <<control, blockscope, flags, jump>>

\* the flag is raised even when the operand raised an error
ReturnStatement ==
  /\ AtExpr /\ Top.kind = "return"
  /\ \E truth \in BOOLEAN : Evaluates(truth, error')
  /\ FORCE_RETURN' = TRUE
  /\ Leave
  /\ UNCHANGED <<control, blockscope, BREAK_COUNTER, CONTINUE_FLAG, jump>>

ThrowStatement ==
  /\ AtExpr /\ Top.kind = "throw"
  /\ \E truth \in BOOLEAN, err \in Errors :
       /\ Evaluates(truth, err)
       /\ IF err # NoError THEN error' = err
          ELSE IF truth THEN error' \in Raised
          ELSE error' = "FailedTypecheck"
  /\ Leave
  /\ UNCHANGED <<control, blockscope, flags, jump>>

(***************************************************************************)
(* IfBlock.  A condition that raises an error counts as false, and the     *)
(* else-branches are tried before anybody looks at the error.              *)
(***************************************************************************)
IfTaken ==
  /\ AtExpr /\ Top.kind = "if"
  /\ Evaluates(TRUE, error')
  /\ blockscope' = PushBlock(blockscope)
  /\ Goto("body")
  /\ UNCHANGED <<control, flags, jump>>

IfFails ==
  /\ AtExpr /\ Top.kind = "if"
  /\ Evaluates(FALSE, error')
  /\ \/ Leave /\ UNCHANGED blockscope                  \* no else
     \/ /\ Top.left > 0                                 \* elseif
        /\ stack' = Spend /\ ctl' = "exec" /\ UNCHANGED blockscope
     \/ Goto("body") /\ blockscope' = PushBlock(blockscope)  \* else
  /\ UNCHANGED <<control, flags, jump>>

IfLeaves ==
  /\ Iterated("if", "body")
  /\ blockscope' = PopBlock(blockscope)
  /\ Leave
  /\ UNCHANGED <<control, flags, error, jump>>

(***************************************************************************)
(* WhileBlock and ForBlock: a scope for the loop, one for each iteration.  *)
(***************************************************************************)
ConditionHolds ==
  /\ AtExpr /\ Top.kind \in {"while", "for"} /\ Top.at = "cond"
  /\ Evaluates(TRUE, error')
  /\ blockscope' = PushBlock(blockscope)
  /\ Goto("body")
  /\ UNCHANGED <<control, flags, jump>>

ConditionFails ==
  /\ AtExpr /\ Top.kind \in {"while", "for"} /\ Top.at = "cond"
  /\ Evaluates(FALSE, error')
  /\ blockscope' = PopBlock(blockscope)
  /\ Leave
  /\ UNCHANGED <<control, flags, jump>>

\* initializer and increment: nobody looks at the error they may raise
ForClause ==
  /\ AtExpr /\ Top.at \in {"init", "incr"}
  /\ \E truth \in BOOLEAN : Evaluates(truth, error')
  /\ Goto("cond")
  /\ UNCHANGED <<control, blockscope, flags, jump>>

\* mutant: the counter is not decremented when a loop is left
LoopBreaksUncounted ==
  /\ BREAK_COUNTER > 0
  /\ Iterated("while", "body") \/ Iterated("for", "body")
  /\ blockscope' = PopBlock(PopBlock(blockscope))
  /\ Leave
  /\ UNCHANGED <<control, flags, error, jump>>

LoopBreaks ==
  /\ BREAK_COUNTER > 0
  /\ \/ /\ Iterated("while", "body") \/ Iterated("for", "body")
        /\ blockscope' = PopBlock(PopBlock(blockscope))
     \/ /\ Iterated("foreach", "body")
        /\ blockscope' = PopBlock(blockscope)
  /\ BREAK_COUNTER' = BREAK_COUNTER - 1
  /\ Leave
  /\ UNCHANGED <<control, FORCE_RETURN, CONTINUE_FLAG, error, jump>>

\* a while that consumes a continue goes on without looking at the error
WhileGoesOn ==
  /\ Iterated("while", "body") /\ BREAK_COUNTER = 0
  /\ CONTINUE_FLAG \/ ~(FORCE_RETURN \/ error # NoError)
  /\ CONTINUE_FLAG' = FALSE
  /\ blockscope' = PopBlock(blockscope)
  /\ Goto("cond")
  /\ UNCHANGED <<control, BREAK_COUNTER, FORCE_RETURN, error, jump>>

WhileLeaves ==
  /\ Iterated("while", "body") /\ BREAK_COUNTER = 0 /\ ~CONTINUE_FLAG
  /\ FORCE_RETURN \/ error # NoError
  /\ blockscope' = PopBlock(PopBlock(blockscope))
  /\ Leave
  /\ UNCHANGED <<control, flags, error, jump>>

\* mutant: as a while, it goes on when it has consumed a continue
ForGoesOnAfterContinue ==
  /\ Iterated("for", "body") /\ BREAK_COUNTER = 0
  /\ CONTINUE_FLAG \/ ~(FORCE_RETURN \/ error # NoError)
  /\ CONTINUE_FLAG' = FALSE
  /\ blockscope' = PopBlock(blockscope)
  /\ Goto("incr")
  /\ UNCHANGED <<control, BREAK_COUNTER, FORCE_RETURN, error, jump>>

ForGoesOn ==
  /\ Iterated("for", "body") /\ BREAK_COUNTER = 0
  /\ ~FORCE_RETURN /\ error = NoError
  /\ CONTINUE_FLAG' = FALSE
  /\ blockscope' = PopBlock(blockscope)
  /\ Goto("incr")
  /\ UNCHANGED <<control, BREAK_COUNTER, FORCE_RETURN, error, jump>>

ForLeaves ==
  /\ Iterated("for", "body") /\ BREAK_COUNTER = 0
  /\ FORCE_RETURN \/ error # NoError
  /\ CONTINUE_FLAG' = FALSE
  /\ blockscope' = PopBlock(PopBlock(blockscope))
  /\ Leave
  /\ UNCHANGED <<control, BREAK_COUNTER, FORCE_RETURN, error, jump>>

(***************************************************************************)
(* ForEachBlock: one scope, rewritten at each iteration.                   *)
(***************************************************************************)
ForEachEnters ==
  /\ AtExpr /\ Top.at = "table"
  /\ Evaluates(TRUE, error')
  /\ \/ Goto("body") /\ blockscope' = PushBlock(blockscope)
     \/ Leave /\ UNCHANGED blockscope                 \* an empty table
  /\ UNCHANGED <<control, flags, jump>>

ForEachRefuses ==
  /\ AtExpr /\ Top.at = "table"
  /\ \E err \in Errors : Evaluates(FALSE, err)
  /\ error' = "FailedTypecheck"
  /\ Leave
  /\ UNCHANGED <<control, blockscope, flags, jump>>

ForEachGoesOn ==
  /\ Iterated("foreach", "body") /\ BREAK_COUNTER = 0
  /\ ~FORCE_RETURN /\ error = NoError
  /\ CONTINUE_FLAG' = FALSE
  /\ \/ Goto("body") /\ UNCHANGED blockscope
     \/ Leave /\ blockscope' = PopBlock(blockscope)   \* no key left
  /\ UNCHANGED <<control, BREAK_COUNTER, FORCE_RETURN, error, jump>>

\* mutant: an iteration scope is popped that foreach never pushed
ForEachLeavesTwice ==
  /\ Iterated("foreach", "body") /\ BREAK_COUNTER = 0
  /\ FORCE_RETURN \/ error # NoError
  /\ CONTINUE_FLAG' = FALSE
  /\ blockscope' = PopBlock(PopBlock(blockscope))
  /\ Leave
  /\ UNCHANGED <<control, BREAK_COUNTER, FORCE_RETURN, error, jump>>

ForEachLeaves ==
  /\ Iterated("foreach", "body") /\ BREAK_COUNTER = 0
  /\ FORCE_RETURN \/ error # NoError
  /\ CONTINUE_FLAG' = FALSE
  /\ blockscope' = PopBlock(blockscope)
  /\ Leave
  /\ UNCHANGED <<control, BREAK_COUNTER, FORCE_RETURN, error, jump>>

(***************************************************************************)
(* TryBlock: the catch block runs when the try block left an error behind, *)
(* whatever the other flags say; an error it leaves behind is final.       *)
(***************************************************************************)
\* mutant: a pending return is looked at before the error
TryLeavesOnReturn ==
  /\ Iterated("try", "body") /\ (FORCE_RETURN \/ error = NoError)
  /\ blockscope' = PopBlock(blockscope)
  /\ Leave
  /\ UNCHANGED <<control, flags, error, jump>>

TryLeaves ==
  /\ Iterated("try", "body") /\ error = NoError
  /\ blockscope' = PopBlock(blockscope)
  /\ Leave
  /\ UNCHANGED <<control, flags, error, jump>>

TryCatches ==
  /\ Iterated("try", "body") /\ error # NoError
  /\ blockscope' = PushBlock(PopBlock(blockscope))
  /\ error' = NoError
  /\ Goto("catch")
  /\ UNCHANGED <<control, flags, jump>>

CatchLeaves ==
  /\ Iterated("try", "catch") /\ error = NoError
  /\ blockscope' = PopBlock(blockscope)
  /\ Leave
  /\ UNCHANGED <<control, flags, error, jump>>

CatchFails ==
  /\ Iterated("try", "catch") /\ error # NoError
  /\ status' = "uncaught"
  /\ UNCHANGED <<todo, stack, ctl, blockscope, flags, error, jump>>

(***************************************************************************)
(* Function::resolve: return, error and falling off the end, in the order  *)
(* the code looks at them.                                                 *)
(***************************************************************************)
\* mutant: a stray continue is reported but not consumed
ClearBreakOnly == BREAK_COUNTER' = 0 /\ UNCHANGED CONTINUE_FLAG

ClearJumps == BREAK_COUNTER' = 0 /\ CONTINUE_FLAG' = FALSE

FunctionReturns ==
  /\ InBlock /\ Top.kind = "func"
  /\ OutOfStatements \/ (ctl = "back" /\ (FORCE_RETURN \/ error # NoError))
  /\ LET failed == ~FORCE_RETURN /\ error # NoError
         stray  == BREAK_COUNTER > 0 \/ CONTINUE_FLAG
     IN  error' = IF ~failed /\ stray THEN "BadBreak" ELSE error
  /\ FORCE_RETURN' = FALSE
  /\ ClearJumps
  /\ blockscope' = PopStack(blockscope)
  /\ Leave
  /\ status' = IF stack' # <<>> THEN status            \* Interpreter::execute
               ELSE IF error' = NoError THEN "done" ELSE "uncaught"
  /\ UNCHANGED <<todo, jump>>

(***************************************************************************)
(* Parser::parse evaluates the const blocks, one after the other, on one   *)
(* Interpreter; main.cpp then executes /main() on another one.             *)
(***************************************************************************)
TransmuteConst ==
  /\ status = "parsing" /\ stack = <<>> /\ todo > 0
  /\ todo' = todo - 1
  /\ blockscope' = PushBlock(blockscope)
  /\ Enter([Frame("const", 0) EXCEPT !.entry = blockscope'])
  /\ UNCHANGED <<status, flags, error, jump>>

ConstDone ==
  /\ Iterated("const", "body")
  /\ blockscope' = PopBlock(blockscope)
  /\ Leave
  /\ status' = IF error # NoError THEN "uncaught" ELSE status
  /\ UNCHANGED <<todo, flags, error, jump>>

Execute ==
  /\ status = "parsing" /\ stack = <<>> /\ todo = 0
  /\ status' = "running"
  /\ blockscope' = PushStack(<<>>)
  /\ Enter([Frame("func", 0) EXCEPT !.entry = <<>>])
  /\ BREAK_COUNTER' = 0 /\ FORCE_RETURN' = FALSE /\ CONTINUE_FLAG' = FALSE
  /\ error' = NoError
  /\ UNCHANGED <<todo, jump>>

Init ==
  /\ status = "parsing" /\ todo = ConstBlocks
  /\ stack = <<>> /\ ctl = "exec"
  /\ blockscope = PushStack(<<>>)
  /\ BREAK_COUNTER = 0 /\ FORCE_RETURN = FALSE /\ CONTINUE_FLAG = FALSE
  /\ error = NoError
  /\ jump = [legal |-> FALSE, kept |-> 0]

\* the process has ended
Ended == ~InProgress /\ UNCHANGED vars

Step ==
  \/ \E kind \in Constructs \cap (ExprStatements \cup Compounds) : Begin(kind)
  \/ \E n \in 1..MaxBreak : Break(n)
  \/ Continue
  \/ CallFunction \/ FatalError
  \/ CallStatement \/ AssignRhs \/ AssignLhs \/ ReturnStatement \/ ThrowStatement
  \/ IfTaken \/ IfFails \/ IfLeaves
  \/ ConditionHolds \/ ConditionFails \/ ForClause
  \/ LoopBreaks \/ WhileGoesOn \/ WhileLeaves \/ ForGoesOn \/ ForLeaves
  \/ ForEachEnters \/ ForEachRefuses \/ ForEachGoesOn \/ ForEachLeaves
  \/ TryLeaves \/ TryCatches \/ CatchLeaves \/ CatchFails
  \/ FunctionReturns \/ TransmuteConst \/ ConstDone \/ Execute

Next == Step \/ Ended

Spec == Init /\ [][Next]_vars

\* The interpreter is one thread that never waits: it always takes its next step.
FairSpec == Spec /\ WF_vars(Step)

(***************************************************************************)
(* Properties.                                                             *)
(***************************************************************************)
\* Every variable has its type.
TypeOK ==
  /\ status \in {"parsing", "running", "done", "uncaught", "fatal"}
  /\ todo \in 0..ConstBlocks
  /\ stack \in Seq([kind : Kinds, at : BlockAt \cup ExprAt, left : 0..MaxBlock,
                    loops : Nat, entry : Seq(Nat)])
  /\ ctl \in {"exec", "back"}
  /\ blockscope \in Seq(Nat)
  /\ BREAK_COUNTER \in 0..MaxBreak
  /\ FORCE_RETURN \in BOOLEAN
  /\ CONTINUE_FLAG \in BOOLEAN
  /\ error \in Errors
  /\ jump \in [legal : BOOLEAN, kept : Nat]

\* the scopelets a frame has pushed and not popped yet
Pushed(frame) ==
  CASE frame.kind \in {"while", "for"} -> IF frame.at = "body" THEN 2 ELSE 1
    [] frame.kind \in {"if", "foreach", "try"} -> IF frame.at \in BlockAt THEN 1 ELSE 0
    [] OTHER -> 0

Held(frame) ==
  IF frame.kind = "func" THEN PushStack(frame.entry)
  ELSE CASE Pushed(frame) = 0 -> frame.entry
         [] Pushed(frame) = 1 -> PushBlock(frame.entry)
         [] Pushed(frame) = 2 -> PushBlock(PushBlock(frame.entry))

\* The scope stacks always hold exactly what the active resolve() calls have
\* pushed: whichever way each of them is left (end of block, break, continue,
\* return, error, catch), it pops what it pushed and no more, so that the
\* variables of its caller are visible again.
ScopeBalance ==
  InProgress \/ status = "done" =>
    /\ \A i \in 1..Len(stack) :
         Held(stack[i]) = IF i = Len(stack) THEN blockscope ELSE stack[i + 1].entry
    /\ stack = <<>> => blockscope = IF status = "parsing" THEN <<1>> ELSE <<>>

\* While a break or continue that names loops which exist unwinds, no
\* statement runs, no error appears, and the loops still open are exactly the
\* ones it shall keep plus the ones BREAK_COUNTER has yet to leave.
JumpExact ==
  jump.legal /\ (BREAK_COUNTER > 0 \/ CONTINUE_FLAG) =>
    /\ ctl = "back" /\ error = NoError /\ ~FORCE_RETURN
    /\ stack # <<>> /\ Top.loops = jump.kept + BREAK_COUNTER
    /\ CONTINUE_FLAG => BREAK_COUNTER = 0

\* A function called in the middle of an expression never hands a break, a
\* continue or a return of its own to the code that evaluates the expression.
CallsReturnClean ==
  AtExpr /\ ctl = "back" =>
    BREAK_COUNTER = 0 /\ ~CONTINUE_FLAG /\ ~FORCE_RETURN

\* where a pending return is not looked at: a catch block, which runs whatever is pending, a const block,
\* which nothing returns from, and a while, which a continue keeps going whatever else is pending
IgnoresReturn(frame) == frame.kind \in {"const", "while"} \/ frame.at = "catch"

\* A pending return runs no further statement, outside of the three constructs
\* that take no notice of it.
ReturnUnwinds ==
  FORCE_RETURN /\ ctl = "exec" => \E i \in 1..Len(stack) : IgnoresReturn(stack[i])

\* A runtime error goes to the innermost try block around it, unless it was raised
\* in a catch block: from there it goes to no try at all, also if another one
\* surrounds the catch block (TryBlock::resolve; docs/content.html:420 and 461 promise
\* that it goes on to that one).  Neither half of a try is left while an error is
\* pending; an error disappears only by being handed to a catch block; and it ends
\* the process only in a catch block, or where there is no try to go to.  (An error
\* without a code, FatalError, ends the process wherever it is raised.)
ErrorToInnermostTry ==
  [][error # NoError =>
       /\ error' = NoError => Len(stack') = Len(stack) /\ Last(stack').at = "catch"
       /\ Len(stack') < Len(stack) => Top.kind # "try"
       /\ InProgress /\ status' = "uncaught" =>
            Top.at = "catch" \/ \A i \in 1..Len(stack) : stack[i].kind # "try"]_vars

\* how far a resolve() has still to go before it returns, if no loop begins again:
\* its parts to come, then what its present part may still call; never 0
PartsToCome(frame) ==
  CASE frame.at \in {"init", "incr"} -> 2
    [] frame.at \in {"cond", "table", "rhs"} -> 1
    [] frame.kind = "try" /\ frame.at = "body" -> 1
    [] OTHER -> 0
ToGo(frame) == PartsToCome(frame) * (MaxBlock + 1) + frame.left + 1
Farthest == 3 * (MaxBlock + 1)

\* the const blocks to come and the active resolve() calls, outermost first, as the
\* digits of a number: calling is worth less than what is left of the caller
Remaining ==
  LET remaining[n \in 0 .. MaxFrames] ==
        IF n = 0 THEN todo
        ELSE (Farthest + 1) * remaining[n - 1] + IF n <= Len(stack) THEN ToGo(stack[n]) ELSE 0
  IN remaining[MaxFrames]

Exiting == error # NoError \/ FORCE_RETURN \/ BREAK_COUNTER > 0

\* While an error, a return or a break is pending, every step comes nearer to the end
\* of the program, whatever catch blocks, else-branches, increments and functions
\* still run on the way; only a while that is told to continue may begin again.  A
\* function called on the way may call another: what bounds that is MaxFrames alone,
\* as the C++ stack does, and none of the flags.
UnwindingRunsDown ==
  [][Exiting /\ Exiting' /\ InProgress' => Remaining' < Remaining \/ WhileGoesOn]_vars

\* A runtime error is eventually caught, or ends the program, as far as no function calls
\* itself for ever while the error is pending (MaxFrames).
ErrorSettles == error # NoError ~> (error = NoError \/ ~InProgress)

(***************************************************************************)
(* The inductive invariant behind TypeOK, ScopeBalance, JumpExact and      *)
(* CallsReturnClean: how two frames that follow each other fit together.   *)
(***************************************************************************)
Places(kind) ==
  CASE kind \in {"func", "const"}           -> {"body"}
    [] kind \in {"call", "return", "throw"} -> {"expr"}
    [] kind = "assign"                      -> {"rhs", "lhs"}
    [] kind \in {"if", "while"}             -> {"cond", "body"}
    [] kind = "for"                         -> {"init", "cond", "body", "incr"}
    [] kind = "foreach"                     -> {"table", "body"}
    [] OTHER                                -> {"body", "catch"}

\* `callee' is the frame of a resolve() that `caller' has called
Nested(caller, callee) ==
  /\ callee.kind # "const"
  /\ callee.kind = "func" <=> caller.at \in ExprAt
  /\ callee.entry = Held(caller) /\ callee.entry # <<>>
  /\ callee.loops = IF callee.kind = "func" THEN 0
                    ELSE caller.loops + IF callee.kind \in Loops THEN 1 ELSE 0

Outermost(frame) ==
  /\ frame.loops = 0
  /\ \/ frame.kind = "func" /\ frame.entry = <<>>
     \/ frame.kind = "const" /\ frame.entry = <<2>>

Fits(frames, scopes) ==
  /\ \A i \in 1..Len(frames) : frames[i].at \in Places(frames[i].kind)
  /\ \A i \in 1..Len(frames) - 1 : Nested(frames[i], frames[i + 1])
  /\ Outermost(frames[1])
  /\ Held(Last(frames)) = scopes

StackInv ==
  /\ InProgress /\ stack = <<>> => status = "parsing" /\ blockscope = <<1>>
  /\ InProgress /\ stack # <<>> =>
       /\ Fits(stack, blockscope)
       /\ stack[1].kind = "const" => status = "parsing"
  /\ status = "done" => stack = <<>> /\ blockscope = <<>>

IInv ==
  /\ TypeOK /\ StackInv /\ JumpExact /\ CallsReturnClean
  /\ jump.legal /\ CONTINUE_FLAG => jump.kept > 0

\* before the program runs an error does not survive the block that raised it
ErrorInBlock == status = "parsing" /\ stack = <<>> => error = NoError

=============================================================================
