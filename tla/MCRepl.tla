-------------------------------- MODULE MCRepl --------------------------------
(***************************************************************************)
(* Small values, a few literals and the keyboards of Repl.                 *)
(***************************************************************************)
EXTENDS ReplGrammar

MCHalves == {-1, 0, 1, 2, 3}

MCLiterals ==
  ("0" :> [t |-> "Integer", v |-> 0]) @@ ("1" :> [t |-> "Integer", v |-> 1]) @@
  ("2" :> [t |-> "Integer", v |-> 2]) @@ ("3" :> [t |-> "Integer", v |-> 3]) @@
  ("1.5" :> [t |-> "Double", v |-> 3]) @@ ("false" :> [t |-> "Bool", v |-> 0]) @@
  ("null" :> Null) @@ ("'s'" :> [t |-> "String", v |-> 1])

Keyboard(tokens, size, times) == [tokens |-> tokens, size |-> size, lines |-> times]

\* one line: operators of every precedence, grouping, calls, accesses
Expressive == {
  Keyboard({"3", "x", "+", "*", "^"}, 6, 1),
  Keyboard({"3", "-", "..", "//", "|"}, 5, 1),
  Keyboard({"x", "!", "#", "==", "&&"}, 5, 1),
  Keyboard({"2", "-", "*", "(", ")"}, 7, 1),
  Keyboard({"main", "1", "+", "(", ")"}, 6, 1),
  Keyboard({"x", "1", ",", "(", ")"}, 6, 1),
  Keyboard({"x", "0", "+", "[", "]"}, 6, 1),
  Keyboard({"x", "0", ".", "[", "]"}, 6, 1)}

\* two lines: declarations, assignments, failures, the end of the session and of the process
Sessions == {
  Keyboard({"Value", "x", "=", "+=", "1", "null"}, 4, 2),
  Keyboard({"Number", "String", "x", "=", "'s'"}, 4, 2),
  Keyboard({"x", "=", "2", "/", "false"}, 5, 2),
  Keyboard({"x", "=", "'s'", "[", "1", "]"}, 4, 2),
  Keyboard({"quit", "(", ")", "1", "="}, 3, 2)}

MCKeyboards == Expressive \cup Sessions

\* a sign before an operand
MCSigned == {Keyboard({"1", "2", "+", "-"}, 4, 1)}
===============================================================================
