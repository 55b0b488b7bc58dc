---------------------------- MODULE MCInterpreter ----------------------------
(***************************************************************************)
(* Small programs for Interpreter: the statements they are written with.   *)
(***************************************************************************)
EXTENDS Interpreter

\* every loop, break and continue, with functions called in between
LoopPrograms == {"call", "if", "while", "for", "foreach", "break", "continue"}

\* everything that raises, passes on or catches an error; no while and no break
ErrorPrograms == {"call", "assign", "return", "throw", "if", "for", "try", "continue"}

\* programs without loops, and programs with a while
ReturnPrograms == {"call", "return", "if", "try"}
WhilePrograms == {"call", "if", "while", "try", "continue"}
=============================================================================
