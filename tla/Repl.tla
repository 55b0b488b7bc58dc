--------------------------------- MODULE Repl ---------------------------------
(***************************************************************************)
(* The interactive mode (Args.cpp): a line is typed, parsed and evaluated, *)
(* all by one Interpreter, whose variables and whose error stay for the    *)
(* lines that follow.  The parser is a parameter here; Expressions has the *)
(* one of Parser.cpp.                                                      *)
(***************************************************************************)
EXTENDS Evaluation, Functions

CONSTANTS
  Keyboards,  \* bound: what may be typed in a session: the tokens, the size of a line, the number of lines
  Parse(_)    \* what the parser makes of a line: whether it is ok, and its tree

ASSUME KeyboardsAssumption == \A k \in Keyboards : k.size \in Nat /\ k.lines \in Nat

\* a line that is not rejected has a tree
ASSUME ParserAssumption ==
  \A k \in Keyboards : \A n \in 1 .. k.size : \A s \in [1 .. n -> k.tokens] :
    LET parsed == Parse(s) IN parsed.ok => parsed.tree \in Tree

VARIABLES
  keyboard,  \* what is typed in this session
  line,      \* the tokens typed so far, or the line being worked on
  lines,     \* history: how many lines were entered
  phase,     \* "typing", "parsed", "rejected", "answered", "left" or "dead"
  tree,      \* what the parser made of the line
  locals,    \* the variables of the frame #repl
  error,     \* whether Interpreter::error is set
  answer     \* what is printed: a value, or Failure

vars == <<keyboard, line, lines, phase, tree, locals, error, answer>>

-------------------------------------------------------------------------------
(* The loop of interactive_mode() *)

Init ==
  /\ keyboard \in Keyboards
  /\ line = <<>> /\ lines = 0 /\ phase = "typing" /\ tree = <<>>
  /\ locals = <<>> /\ error = FALSE /\ answer = Failure

Type(t) ==
  /\ phase = "typing" /\ lines < keyboard.lines /\ Len(line) < keyboard.size
  /\ line' = Append(line, t)
  /\ UNCHANGED <<keyboard, lines, phase, tree, locals, error, answer>>

\* an empty line is asked for again; any other is scanned and parsed
Enter ==
  /\ phase = "typing" /\ line # <<>>
  /\ LET parsed == Parse(line)
     IN /\ phase' = IF parsed.ok THEN "parsed" ELSE "rejected"
        /\ tree' = parsed.tree
  /\ lines' = lines + 1
  /\ UNCHANGED <<keyboard, line, locals, error, answer>>

\* the very text `quit()` is not parsed
Quit ==
  /\ phase = "typing" /\ line = <<"quit", "(", ")">>
  /\ phase' = "left"
  /\ UNCHANGED <<keyboard, line, lines, tree, locals, error, answer>>

\* try_run_expression(): if there is an error, old or new, it is printed in place of the value
Run ==
  /\ phase = "parsed"
  /\ \E r \in Evaluate(tree, locals, error) :
       /\ phase' = IF r.v = Trap THEN "dead" ELSE "answered"
       /\ locals' = r.env
       /\ error' = r.err
       /\ answer' = IF r.err THEN Failure ELSE r.v
  /\ UNCHANGED <<keyboard, line, lines, tree>>

Prompt ==
  /\ phase \in {"rejected", "answered"}
  /\ phase' = "typing"
  /\ line' = <<>> /\ tree' = <<>> /\ answer' = Failure
  /\ UNCHANGED <<keyboard, lines, locals, error>>

Next ==
  \/ \E t \in keyboard.tokens : Type(t)
  \/ Enter
  \/ Quit
  \/ Run
  \/ Prompt

Spec == Init /\ [][Next]_vars

-------------------------------------------------------------------------------
TypeOK ==
  /\ keyboard \in Keyboards
  /\ line \in Seq(keyboard.tokens) /\ Len(line) <= keyboard.size
  /\ lines \in 0 .. keyboard.lines
  /\ phase \in {"typing", "parsed", "rejected", "answered", "left", "dead"}
  /\ DOMAIN locals \subseteq Names /\ Range(locals) \subseteq Value
  /\ error \in BOOLEAN
  /\ answer \in Value \cup {Failure}

\* Before a line is typed: the operations on values agree with one another and guard their divisions, as
\* Operations states it of every pair of operands (BinaryExpression::BinaryOperation).
OperationsSound == line = <<>> /\ lines = 0 => LogicAgrees /\ ComparisonsConsistent /\ DivisionGuarded

\* A line that raises an error changes no variable but the one it declares or assigns to with an
\* operator, and leaves null in that one: nothing else of a failed line is half done
\* (AssignmentStatement::resolve(), LocalAssignmentStatement::resolve()).
FailedLineLosesOnlyItsTarget ==
  [][ ~error /\ error' => \A n \in DOMAIN locals' :
        \/ n \in DOMAIN locals /\ locals'[n] = locals[n]
        \/ locals'[n] = Null /\ tree[1] = "local" /\ tree[4] = n
        \/ locals'[n] = Null /\ tree[1] = "assign" /\ tree[2] # "=" /\ tree[3] = <<"var", n>> ]_vars
===============================================================================
