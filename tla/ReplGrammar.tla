------------------------------ MODULE ReplGrammar ------------------------------
(***************************************************************************)
(* The interactive mode with the parser of Expressions: a line is read as  *)
(* the grammar has it, and does what its tree says.                        *)
(***************************************************************************)
EXTENDS Repl, Expressions

\* the lines without what the parser is known not to read: `~`, a sign before an operand, a unary
\* operator after another, and an access to the result of a call
Plain(s) ==
  /\ "~" \notin Range(s)
  /\ \A i \in DOMAIN s : s[i] = "-" => i > 1 /\ s[i - 1] \in Literals \cup Names \cup {")", "]"}
  /\ \A i \in DOMAIN s : s[i] \in {"!", "#"} /\ i < Len(s) => s[i + 1] \notin UnaryOps
  /\ \A i \in DOMAIN s : s[i] = ")" /\ i < Len(s) => s[i + 1] \notin {".", "["}

Parsed == phase \in {"parsed", "rejected"}

\* Where the grammar derives a plain line, the parser reads the tree of the grammar, with its constants
\* rolled, and rejects the line only if a constant operation in it fails: the search for operators from
\* left to right, precedence by precedence from the loosest that the scanner saw, finds the grammar's
\* precedences and associativities (Parser::readBinExp and the readers below it).
PlainParsesAsDocumented ==
  Parsed /\ Plain(line) =>
    \A t \in Documented(line) : IF phase = "parsed" THEN Rolled(t) = {tree} ELSE Rolled(t) = {}

\* A line that the grammar derives has the tree of the grammar, if the parser accepts it at all.
ParsedAsDocumented == phase = "parsed" => \A t \in Documented(line) : Rolled(t) = {tree}

\* Rolling constants while parsing (Parser::readBinExp) is not observable while no error is pending:
\* the line does what its tree, as the grammar has it, would do if nothing was rolled, and is rejected
\* only if every evaluation raises an error.
RollingFaithful ==
  Parsed /\ Plain(line) /\ ~error =>
    \A t \in Documented(line) :
      LET results == Evaluate(t, locals, error)
      IN IF phase = "parsed" THEN results = Evaluate(tree, locals, error) ELSE \A r \in results : r.err
===============================================================================
