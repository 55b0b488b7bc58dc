--------------------------------- MODULE Calls ---------------------------------
(***************************************************************************)
(* Receivers.  A Function keeps the object that its next call acts on in   *)
(* its member obj, of which there is one for all calls of the Function.    *)
(* `x.m(...)` sets it before the arguments are evaluated and reads it      *)
(* after that (CallExpression::resolve), and in between the arguments may  *)
(* call anything, the same Function included.                              *)
(*                                                                         *)
(* The program is any program: what an expression or a statement calls     *)
(* next is nondeterministic.                                               *)
(***************************************************************************)
EXTENDS Integers, SequencesExt

CONSTANTS
  Objects,
  Names,         \* the names of methods
  Functions,
  Method,        \* the Function an Object has by each name
  Constructors,  \* each Object's Function #constructor
  Native,        \* Functions that are NativeMethods
  MaxFrames      \* bound: resolve() calls that are active

None == "none"

ASSUME MethodAssumption ==
  /\ Method \in [Objects -> [Names -> Functions]]
  /\ \A o, p \in Objects, n, k \in Names : Method[o][n] = Method[p][k] => n = k
ASSUME ConstructorsAssumption ==
  /\ Constructors \in [Objects -> Functions \ Native]
  /\ \A o, p \in Objects, n \in Names : Constructors[p] # Method[o][n]
ASSUME NativeAssumption == Native \subseteq Functions
ASSUME ObjectsAssumption == None \notin Objects \cup Functions
ASSUME BoundAssumption == MaxFrames \in Nat \ {0}

VARIABLES
  obj,    \* Function::obj, for each Function
  stack,  \* the calls that are active, the latest last
  error,  \* Interpreter::error is set
  left    \* history: Functions that keep a receiver although its call is over

vars == <<obj, stack, error, left>>

\* A frame is a CallExpression ("call") or a Construction ("new") whose arguments
\* are evaluated, or a Function that runs ("body").
\* For:   the receiver that the program names, None if it names none
\* self:  the top of Interpreter::objectscope: the receiver of the body that evaluates or runs
\* args:  whether the call has arguments
\* again: history: the Function was named by another expression meanwhile
Top == Last(stack)
Self == Top.self
Call(f, o, args) ==
  [kind |-> "call", fun |-> f, For |-> o, self |-> Self, args |-> args, again |-> FALSE]
New(o, args) ==
  [kind |-> "new", fun |-> Constructors[o], For |-> o, self |-> Self, args |-> args, again |-> FALSE]
\* mutant: receiver and function confused
BodySwapped(frame, f, o) ==
  [frame EXCEPT !.kind = "body", !.fun = o, !.self = f, !.args = FALSE]
Body(frame, f, o) == [frame EXCEPT !.kind = "body", !.fun = f, !.self = o, !.args = FALSE]
Main == [kind |-> "body", fun |-> None, For |-> None, self |-> None, args |-> FALSE, again |-> FALSE]

NameOf(f) == CHOOSE n \in Names : \E o \in Objects : Method[o][n] = f

\* an expression is evaluated: a statement of a body, or an argument
Evaluates ==
  /\ stack # <<>> /\ Len(stack) < MaxFrames
  /\ Top.fun \notin Native \/ Top.kind # "body"
  /\ Top.kind = "body" \/ Top.args

Named(f) ==
  [i \in DOMAIN stack |->
     IF stack[i].fun = f /\ stack[i].kind = "call" THEN [stack[i] EXCEPT !.again = TRUE] ELSE stack[i]]

-----------------------------------------------------------------------------
(* The steps.                                                              *)

\* mutant: only the first call of a Function sets its receiver
MethodHandleOnce(o, n) ==
  /\ Evaluates
  /\ LET f == Method[o][n] IN
     /\ obj' = [obj EXCEPT ![f] = IF @ = None THEN o ELSE @]
     /\ \E args \in BOOLEAN : stack' = Append(Named(f), Call(f, o, args))
     /\ left' = left \ {f}
  /\ UNCHANGED error

\* x.n( : MemberAccess::handle sets the receiver, and the arguments come next
MethodHandle(o, n) ==
  /\ Evaluates
  /\ LET f == Method[o][n] IN
     /\ obj' = [obj EXCEPT ![f] = o]
     /\ \E args \in BOOLEAN : stack' = Append(Named(f), Call(f, o, args))
     /\ left' = left \ {f}
  /\ UNCHANGED error

\* x.n = ..., x.n[..] or x.n.k : the same handle and no call.  The assignment of a
\* statement just stops, the others raise an error
HandleUnused(o, n) ==
  /\ Evaluates
  /\ obj' = [obj EXCEPT ![Method[o][n]] = o]
  /\ stack' = Named(Method[o][n])
  /\ left' = left \cup {Method[o][n]}
  /\ error' = TRUE \/ (Top.kind = "body" /\ UNCHANGED error)

\* n( or ./n( : Identifier::handle, ParentAccess::handle take a method of the
\* body's own receiver, and name no receiver for it
OwnHandle(n) ==
  /\ Evaluates /\ Self # None
  /\ LET f == Method[Self][n] IN
     \E args \in BOOLEAN : stack' = Append(Named(f), Call(f, None, args))
  /\ UNCHANGED <<obj, error, left>>

\* c/New( : Interpreter::makeObject
Construct(o) ==
  /\ Evaluates
  /\ \E args \in BOOLEAN : stack' = Append(stack, New(o, args))
  /\ UNCHANGED <<obj, error, left>>

\* an argument or a statement raises an error
Raise ==
  /\ stack # <<>> /\ ~error
  /\ Top.kind = "body" \/ Top.args
  /\ error' = TRUE
  /\ UNCHANGED <<obj, stack, left>>

\* a TryBlock of the body
Catch ==
  /\ stack # <<>> /\ Top.kind = "body" /\ error
  /\ error' = FALSE
  /\ UNCHANGED <<obj, stack, left>>

\* an argument left an error: the call is given up, and obj stays
ArgumentFails ==
  /\ stack # <<>> /\ Top.kind # "body" /\ Top.args /\ error
  /\ stack' = Front(stack)
  /\ left' = IF Top.kind = "call" /\ obj[Top.fun] # None THEN left \cup {Top.fun} ELSE left
  /\ UNCHANGED <<obj, error>>

\* the arguments are there: CallExpression::resolve looks for a receiver now, and
\* Object::call_method looks for the method of that name again
Invoke ==
  /\ stack # <<>> /\ Top.kind = "call"
  /\ Top.args => ~error
  /\ LET o == obj[Top.fun]
         f == IF o = None THEN Top.fun ELSE Method[o][NameOf(Top.fun)]
     IN /\ obj' = [obj EXCEPT ![f] = o]
        /\ stack' = Append(Front(stack), Body(Top, f, o))
        /\ error' = (error \/ (f \in Native /\ o = None))
  /\ UNCHANGED left

\* ObjectType::makeObject
InvokeConstructor ==
  /\ stack # <<>> /\ Top.kind = "new"
  /\ Top.args => ~error
  /\ obj' = [obj EXCEPT ![Top.fun] = Top.For]
  /\ stack' = Append(Front(stack), Body(Top, Top.fun, Top.For))
  /\ UNCHANGED <<error, left>>

\* mutant: a Function that is left by an error does not reset its receiver
FunctionLeavesKeeps ==
  /\ stack # <<>> /\ Top.kind = "body" /\ Top.fun \notin Native
  /\ stack' = Front(stack)
  /\ IF Top = Main \/ error THEN UNCHANGED <<obj, left>>
     ELSE obj' = [obj EXCEPT ![Top.fun] = None] /\ left' = left \ {Top.fun}
  /\ UNCHANGED error

\* Function::resolve returns, with an error or without
FunctionLeaves ==
  /\ stack # <<>> /\ Top.kind = "body" /\ Top.fun \notin Native
  /\ stack' = Front(stack)
  /\ IF Top = Main THEN UNCHANGED <<obj, left>>
     ELSE obj' = [obj EXCEPT ![Top.fun] = None] /\ left' = left \ {Top.fun}
  /\ UNCHANGED error

\* NativeMethod::resolve returns
NativeLeaves ==
  /\ stack # <<>> /\ Top.kind = "body" /\ Top.fun \in Native
  /\ stack' = Front(stack)
  /\ UNCHANGED <<obj, error, left>>

Ended == stack = <<>> /\ UNCHANGED vars

Init ==
  /\ obj = [f \in Functions |-> None]
  /\ stack = <<Main>>
  /\ error = FALSE
  /\ left = {}

Next ==
  \/ \E o \in Objects, n \in Names : MethodHandle(o, n) \/ HandleUnused(o, n)
  \/ \E n \in Names : OwnHandle(n)
  \/ \E o \in Objects : Construct(o)
  \/ Raise \/ Catch \/ ArgumentFails
  \/ Invoke \/ InvokeConstructor \/ FunctionLeaves \/ NativeLeaves
  \/ Ended

Spec == Init /\ [][Next]_vars

-----------------------------------------------------------------------------
(* Properties.                                                             *)

Frames ==
  [kind : {"call", "new", "body"}, fun : Functions \cup {None}, For : Objects \cup {None},
   self : Objects \cup {None}, args : BOOLEAN, again : BOOLEAN]

\* The types of the variables.
TypeOK ==
  /\ obj \in [Functions -> Objects \cup {None}]
  /\ stack \in Seq(Frames)
  /\ error \in BOOLEAN
  /\ left \subseteq Functions

Bodies == {i \in DOMAIN stack : stack[i].kind = "body"}

\* A method runs on the object it was called on, and a constructor on the one it
\* constructs, unless the same Function was named again while the arguments were
\* evaluated: whatever else they called, constructed, raised or caught.
ReceiverUnlessNamedAgain ==
  \A i \in Bodies :
    stack[i].For # None /\ ~stack[i].again => stack[i].self = stack[i].For

\* Outside its calls a Function that is not native has no receiver, unless an
\* argument failed or a handle was taken without a call: a later call that names no
\* receiver does not act on the receiver of an earlier one.
NoReceiverLeft ==
  \A f \in Functions \ (Native \cup left) :
    obj[f] # None => \E i \in DOMAIN stack : stack[i].fun = f

-----------------------------------------------------------------------------
(* The inductive invariant behind TypeOK, ReceiverUnlessNamedAgain and     *)
(* NoReceiverLeft.                                                         *)

\* a Function never acts on an object that has another one by its name
ReceiverHasIt ==
  \A f \in Functions : obj[f] # None =>
    \/ \E n \in Names : Method[obj[f]][n] = f
    \/ \E o \in Objects : Constructors[o] = f

\* a call is of a method, and a construction calls a constructor
Callees ==
  \A i \in DOMAIN stack :
    /\ stack[i].kind = "call" => \E o \in Objects, n \in Names : Method[o][n] = stack[i].fun
    /\ stack[i].kind = "new" => \E o \in Objects : Constructors[o] = stack[i].fun

\* the receiver that a call named waits for it until its Function is named again
ReceiverWaits ==
  \A i \in DOMAIN stack :
    stack[i].kind = "call" /\ stack[i].For # None /\ ~stack[i].again => obj[stack[i].fun] = stack[i].For

\* what runs or is called above a call of the same Function named it again
NamedAbove ==
  \A i, j \in DOMAIN stack :
    i < j /\ stack[i].kind = "call" /\ stack[j].fun = stack[i].fun => stack[i].again

\* a receiver that is not left has a call or a body, which takes it with it
ReceiverHeld ==
  \A f \in Functions \ (Native \cup left) :
    obj[f] # None => \E i \in DOMAIN stack : stack[i].fun = f /\ stack[i].kind # "new"

IInv ==
  /\ TypeOK /\ ReceiverUnlessNamedAgain
  /\ ReceiverHasIt /\ Callees /\ ReceiverWaits /\ NamedAbove /\ ReceiverHeld
===============================================================================
