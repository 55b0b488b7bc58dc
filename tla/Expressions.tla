------------------------------ MODULE Expressions ------------------------------
(***************************************************************************)
(* How a line of tokens becomes a syntax tree of Evaluation (Parser.cpp,   *)
(* Parser.h, the precedences of Scanner.h), and what JoaoGrammar.txt says  *)
(* it is.                                                                  *)
(*                                                                         *)
(* A token is its text, told apart from the next by a blank, and a line p  *)
(* is the sequence of its tokens with the lowop the scanner found for it.  *)
(* Readers take the positions from here to there; what they return has the *)
(* tree and tokenheader, at.  A ParserError, which abandons the line, is   *)
(* Rejected.                                                               *)
(***************************************************************************)
EXTENDS Evaluation, SequencesExt

CONSTANT
  LiteralValue  \* the literals and numerals, each with its value

Literals == DOMAIN LiteralValue
Symbols == Operators \cup UnaryOps \cup Assignments \cup {"%="}
Closer(t) == IF t = "(" THEN ")" ELSE "]"

ASSUME TokensAssumption ==
  /\ \A t \in Literals : LiteralValue[t] \in Value
  /\ Literals \cap Names = {}
  /\ (Literals \cup Names) \cap (Symbols \cup LocalTypes \cup {"(", ")", "[", "]", ".", ",", ";"}) = {}

None == 0  Power == 1  Unary == 2  Factor == 3  Term == 4  Concat == 5
Bits == 6  Comparison == 7  Logical == 8

\* mutant: concatenation binds as tightly as addition
PrecedenceFlat(t) ==
  CASE t = "^" -> Power [] t \in {"!", "#", "~"} -> Unary
    [] t \in {"*", "/", "//", "%"} -> Factor [] t \in {"+", "-", ".."} -> Term
    [] t \in {"&", "|"} \cup Shifts -> Bits [] t \in Orders \cup Equalities -> Comparison
    [] t \in Logicals -> Logical [] OTHER -> None

\* str_to_precedence, whose first entry for `~` is the one that counts
Precedence(t) ==
  CASE t = "^" -> Power [] t \in {"!", "#", "~"} -> Unary
    [] t \in {"*", "/", "//", "%"} -> Factor [] t \in {"+", "-"} -> Term [] t = ".." -> Concat
    [] t \in {"&", "|"} \cup Shifts -> Bits [] t \in Orders \cup Equalities -> Comparison
    [] t \in Logicals -> Logical [] OTHER -> None

\* bOp_to_precedence
OperatorPrecedence(op) == IF op = "~" THEN Bits ELSE Precedence(op)

\* a scanned line: update_precedence() for each symbol, makeEndline() at the end
Scanned(s) == [tokens |-> Append(s, ";"), lowop |-> Max({Precedence(t) : t \in Range(s)} \cup {None})]

Read(tree, at) == [ok |-> TRUE, tree |-> tree, at |-> at]
Rejected == [ok |-> FALSE, tree |-> <<>>, at |-> 0]
At(p, i) == IF i \in DOMAIN p.tokens THEN p.tokens[i] ELSE "end"

-------------------------------------------------------------------------------
(* Looking ahead *)

\* find_closing_pairlet(): of the same kind only; 0 where it rejects the line
Closing(p, open, here) ==
  LET Of(t, w) == Cardinality({i \in here .. w : At(p, i) = t})
      ends == {w \in here .. Len(p.tokens) : Of(Closer(open), w) = Of(open, w) + 1}
  IN IF ends = {} THEN 0 ELSE Min(ends)

\* where a search goes on after a token, past what a pair encloses; 0 where it rejects the line
After(p, where, there) ==
  LET close == Closing(p, At(p, where), where + 1)
  IN CASE At(p, where) \in {")", "]"} -> 0
       [] At(p, where) \in {"(", "["} -> IF close = 0 \/ close > there THEN 0 ELSE close + 1
       [] OTHER -> where + 1

\* find_comma(): none is 0, and a pair that is not closed is -1
RECURSIVE FindComma(_, _, _)
FindComma(p, here, there) ==
  IF here > there THEN 0
  ELSE CASE At(p, here) = "," -> here
         [] At(p, here) \in {"(", ")", "[", "]"} ->
              LET close == Closing(p, IF At(p, here) \in {"(", ")"} THEN "(" ELSE "[", here + 1)
              IN IF close = 0 THEN -1 ELSE FindComma(p, close + 1, there)
         [] OTHER -> FindComma(p, here + 1, there)

-------------------------------------------------------------------------------
(* The readers *)

RECURSIVE ReadExp(_, _, _), ReadBinExp(_, _, _, _), ReadSearch(_, _, _, _, _, _), ReadPowers(_, _, _, _, _),
          ReadAccesses(_, _, _, _), ReadFuncAccess(_, _, _, _), ReadArgs(_, _, _)

\* a reader that fails abandons the line
OnceRead(read, Next(_)) == IF read.ok THEN Next(read) ELSE Rejected

\* '[' exp ']' after a tree; at is the token after the bracket
ReadElement(p, tree, where) ==
  LET close == Closing(p, "[", where + 1)
  IN IF close = 0 THEN Rejected
     ELSE OnceRead(ReadExp(p, where + 1, close - 1), LAMBDA e : Read(<<"index", tree, e.tree>>, close + 1))

\* the loop of readVarAccess()
ReadAccesses(p, tree, where, there) ==
  LET name == At(p, where + 1)
  IN IF where > there THEN Read(tree, there + 1)
     ELSE CASE At(p, where) = "." ->
                 IF name \in Names THEN ReadAccesses(p, <<"member", tree, name>>, where + 2, there) ELSE Rejected
            [] At(p, where) = "[" ->
                 OnceRead(ReadElement(p, tree, where), LAMBDA e : ReadAccesses(p, e.tree, e.at, there))
            [] OTHER -> Read(tree, where)

\* of the scoped accesses, a Name
ReadVarAccess(p, here, there) ==
  LET variable == <<"var", At(p, here)>>
  IN IF At(p, here) \notin Names THEN Rejected
     ELSE IF here + 2 > there THEN Read(variable, here + 1)
     ELSE ReadAccesses(p, variable, here + 1, there)

\* what may follow a call; the member's name is looked for in the '.' itself
ReadFuncAccess(p, tree, where, there) ==
  IF where > there THEN Read(tree, where)
  ELSE CASE At(p, where) = "." -> Rejected
         [] At(p, where) = "[" ->
              OnceRead(ReadElement(p, tree, where), LAMBDA e : ReadFuncAccess(p, e.tree, e.at, there))
         [] OTHER -> Read(tree, where)

\* the arguments as a sequence, in place of the tree
ReadArgs(p, here, there) ==
  LET comma == FindComma(p, here, there)
  IN IF comma = -1 THEN Rejected
     ELSE OnceRead(ReadExp(p, here, IF comma = 0 THEN there ELSE comma - 1), LAMBDA first :
            IF comma = 0 THEN Read(<<first.tree>>, there + 1)
            ELSE OnceRead(ReadArgs(p, comma + 1, there), LAMBDA rest : Read(<<first.tree>> \o rest.tree, there + 1)))

\* the parenthesis after a callee, and what follows it
ReadCall(p, callee, there) ==
  LET close == Closing(p, "(", callee.at + 1)
  IN IF close = 0 THEN Rejected
     ELSE OnceRead(IF close = callee.at + 1 THEN Read(<<>>, close) ELSE ReadArgs(p, callee.at + 1, close - 1),
               LAMBDA args :
                 LET call == <<"call", callee.tree, args.tree>>
                 IN IF close + 1 >= there THEN Read(call, close + 1) ELSE ReadFuncAccess(p, call, close + 1, there))

\* the part of readlvalue() for a word: a variable, or a call if a parenthesis follows
ReadWord(p, here, there) ==
  OnceRead(ReadVarAccess(p, here, there), LAMBDA callee :
    IF callee.at > there \/ At(p, callee.at) # "(" THEN callee ELSE ReadCall(p, callee, there))

\* '(' exp ')': what is left before the parenthesis is not looked at, but by consume_paren()
ReadParenthesis(p, here) ==
  LET close == Closing(p, "(", here + 1)
  IN IF close = 0 THEN Rejected
     ELSE OnceRead(ReadExp(p, here + 1, close - 1), LAMBDA e :
            IF At(p, e.at) = ")" THEN Read(e.tree, e.at + 1) ELSE Rejected)

ReadLvalue(p, here, there) ==
  CASE At(p, here) \in Literals -> Read(<<"lit", {LiteralValue[At(p, here)]}>>, here + 1)
    [] At(p, here) \in Names -> ReadWord(p, here, there)
    [] At(p, here) = "(" -> ReadParenthesis(p, here)
    [] OTHER -> Rejected

\* the loop of readPower(), and the tower it builds from the right
ReadPowers(p, where, there, last, factors) ==
  LET Raise(l, tower) == <<"bin", "^", l, tower>>
      ends == where > there \/ At(p, where) \in {";"} \cup (Symbols \ {"^"})
  IN IF ends \/ At(p, where) = "^"
     THEN OnceRead(ReadLvalue(p, last + 1, IF ends /\ factors = <<>> THEN there ELSE where - 1), LAMBDA factor :
            IF ends THEN Read(FoldRight(Raise, factors, factor.tree), factor.at)
            ELSE ReadPowers(p, where + 1, there, where, Append(factors, factor.tree)))
     ELSE IF After(p, where, there) = 0 THEN Rejected
     ELSE ReadPowers(p, After(p, where, there), there, last, factors)

ReadPower(p, here, there) == ReadPowers(p, here, there, here - 1, <<>>)

ReadUnary(p, here, there) ==
  IF At(p, here) \notin Symbols THEN ReadPower(p, here, there)
  ELSE IF At(p, here) \notin UnaryOps THEN Rejected
  ELSE OnceRead(ReadPower(p, here + 1, there), LAMBDA operand :
         Read(<<"un", At(p, here), operand.tree>>, operand.at))

\* mutant: rolls the operands in the wrong order
BinarySwapped(op, l, r) ==
  LET outcomes == UNION {BinaryOperation(op, b, a) : a \in l[2] \ {Trap}, b \in r[2] \ {Trap}}
  IN IF l[1] # "lit" \/ r[1] # "lit" THEN Read(<<"bin", op, l, r>>, 0)
     ELSE IF Failure \in outcomes THEN Rejected
     ELSE Read(<<"lit", outcomes>>, 0)

\* two Literals are rolled into one, and a failure of the operation is a ParserError.  An undefined
\* operation keeps its outcomes: Trap is then met when the Literal is evaluated, and not here.
Binary(op, l, r) ==
  LET outcomes == RolledOutcomes(op, l[2], r[2])
  IN IF l[1] # "lit" \/ r[1] # "lit" THEN Read(<<"bin", op, l, r>>, 0)
     ELSE IF Failure \in outcomes THEN Rejected
     ELSE Read(<<"lit", outcomes>>, 0)

\* mutant: the loop goes right to left in effect, as the right operand is read at its own level
ReadSearchRightwards(p, op, here, there, where, lhs) ==
  LET t == At(p, where)
  IN IF t \in Operators /\ OperatorPrecedence(t) = op /\ where # here
     THEN OnceRead(ReadBinExp(p, op - 1, here, where - 1), LAMBDA left :
            OnceRead(ReadBinExp(p, op, where + 1, there), LAMBDA right :
              OnceRead(Binary(t, left.tree, right.tree), LAMBDA both : Read(both.tree, right.at))))
     ELSE IF where > there \/ t = ";" THEN ReadBinExp(p, op - 1, here, there)
     ELSE IF After(p, where, there) = 0 THEN Rejected
     ELSE ReadSearch(p, op, here, there, After(p, where, there), lhs)

\* the loop of readBinExp(): goes on right after an operator, through the right operand
ReadSearch(p, op, here, there, where, lhs) ==
  LET t == At(p, where)
      leaves == where > there \/ t = ";" \/ (t \in Operators /\ OperatorPrecedence(t) > op)
      hit == t \in Operators /\ OperatorPrecedence(t) = op
  IN IF leaves THEN IF lhs # <<>> THEN Read(lhs, where) ELSE ReadBinExp(p, op - 1, here, there)
     ELSE IF hit /\ where = here
     THEN OnceRead(ReadUnary(p, here, there), LAMBDA unary : ReadSearch(p, op, here, there, unary.at, unary.tree))
     ELSE IF hit
     THEN OnceRead(IF lhs = <<>> THEN ReadBinExp(p, op - 1, here, where - 1) ELSE Read(lhs, 0), LAMBDA left :
            OnceRead(ReadBinExp(p, op - 1, where + 1, there), LAMBDA right :
              OnceRead(Binary(t, left.tree, right.tree), LAMBDA both :
                ReadSearch(p, op, here, there, where + 1, both.tree))))
     ELSE IF After(p, where, there) = 0 THEN Rejected
     ELSE ReadSearch(p, op, here, there, After(p, where, there), lhs)

ReadBinExp(p, op, here, there) ==
  CASE op = Unary -> ReadUnary(p, here, there)
    [] op = Power -> ReadPower(p, here, there)
    [] OTHER -> ReadSearch(p, op, here, there, here, <<>>)

ReadExp(p, here, there) ==
  IF p.lowop = None THEN ReadLvalue(p, here, there) ELSE ReadBinExp(p, p.lowop, here, there)

\* readaOp() and readExp() after the target
ReadAssignment(p) ==
  OnceRead(ReadVarAccess(p, 1, Len(p.tokens)), LAMBDA target :
    IF At(p, target.at) \notin Assignments THEN Rejected
    ELSE OnceRead(ReadExp(p, target.at + 1, Len(p.tokens)), LAMBDA e :
           Read(<<"assign", At(p, target.at), target.tree, e.tree>>, e.at)))

\* a declaration without assignment is no statement to is_statement(), and is not read here
ReadLocalAssignment(p) ==
  IF At(p, 2) \notin Names \/ At(p, 3) \notin Assignments THEN Rejected
  ELSE OnceRead(ReadExp(p, 4, Len(p.tokens)), LAMBDA e :
         Read(<<"local", At(p, 1), At(p, 3), At(p, 2), e.tree>>, e.at))

\* of the statements, the assignments; consume_semicolon() wants to be where the expression ended
ReadStatement(p) ==
  OnceRead(CASE At(p, 1) \in Names -> ReadAssignment(p)
         [] At(p, 1) \in LocalTypes -> ReadLocalAssignment(p)
         [] OTHER -> Rejected,
       LAMBDA statement : IF At(p, statement.at) = ";" THEN statement ELSE Rejected)

IsStatement(p) == \E i \in DOMAIN p.tokens : p.tokens[i] \in Assignments

\* parse_repl_expression(): try_parse_function() gives up on every line that has a token, and nothing
\* asks whether an expression goes to the end of the line
ParseLine(p) == IF IsStatement(p) THEN ReadStatement(p) ELSE ReadBinExp(p, Logical, 1, Len(p.tokens))

ParseTokens(s) == ParseLine(Scanned(s))

-------------------------------------------------------------------------------
(* What the grammar derives: the trees, at most one, of the tokens of s    *)
(* from lo to hi                                                           *)

\* the binary operators of the rules, from `power' to `exp'
Rules ==
  <<{"^"}, {}, {"*", "/", "//", "%"}, {"+", "-"}, {".."}, {"&", "|", "~", "<<", ">>"},
    {"<", "<=", ">", ">=", "==", "!="}, {"&&", "||", "~~"}>>

RECURSIVE Derived(_, _, _, _), DerivedPower(_, _, _), DerivedLvalue(_, _, _), DerivedList(_, _, _)

\* `exp`, and the rule of each precedence: left operands at the level itself, right ones below
Derived(level, s, lo, hi) ==
  LET at == {k \in lo .. hi : s[k] \in Rules[level]}
  IN IF lo > hi THEN {}
     ELSE IF level > Unary
     THEN Derived(level - 1, s, lo, hi) \cup
          UNION {{<<"bin", s[k], l, r>> : l \in Derived(level, s, lo, k - 1), r \in Derived(level - 1, s, k + 1, hi)} :
                 k \in at}
     ELSE IF s[lo] \in UnaryOps THEN {<<"un", s[lo], e>> : e \in Derived(Unary, s, lo + 1, hi)}
     ELSE DerivedPower(s, lo, hi)

DerivedPower(s, lo, hi) ==
  DerivedLvalue(s, lo, hi) \cup
  UNION {{<<"bin", "^", l, r>> : l \in DerivedLvalue(s, lo, k - 1), r \in DerivedPower(s, k + 1, hi)} :
         k \in {k \in lo .. hi : s[k] = "^"}}

DerivedList(s, lo, hi) ==
  {<<e>> : e \in Derived(Logical, s, lo, hi)} \cup
  UNION {{<<e>> \o rest : e \in Derived(Logical, s, lo, k - 1), rest \in DerivedList(s, k + 1, hi)} :
         k \in {k \in lo .. hi : s[k] = ","}}

\* variables with their properties and elements, calls and what is accessed in their results
DerivedAccess(s, lo, hi) ==
  LET Inner(k) == {e \in DerivedLvalue(s, lo, k - 1) : e[1] \notin {"lit"} /\ s[lo] # "("}
  IN IF lo = hi THEN IF s[lo] \in Names THEN {<<"var", s[lo]>>} ELSE {}
     ELSE CASE s[hi] \in Names /\ s[hi - 1] = "." -> {<<"member", e, s[hi]>> : e \in Inner(hi - 1)}
            [] s[hi] = "]" -> UNION {{<<"index", e, i>> : e \in Inner(k), i \in Derived(Logical, s, k + 1, hi - 1)} :
                                     k \in {k \in lo + 1 .. hi : s[k] = "["}}
            [] s[hi] = ")" -> UNION {{<<"call", e, args>> : e \in {e \in Inner(k) : e[1] # "call"},
                                        args \in IF k + 1 = hi THEN {<<>>} ELSE DerivedList(s, k + 1, hi - 1)} :
                                     k \in {k \in lo + 1 .. hi : s[k] = "("}}
            [] OTHER -> {}

DerivedLvalue(s, lo, hi) ==
  IF lo > hi THEN {}
  ELSE CASE lo = hi /\ s[lo] \in Literals -> {<<"lit", {LiteralValue[s[lo]]}>>}
         [] s[lo] = "(" /\ s[hi] = ")" -> Derived(Logical, s, lo + 1, hi - 1)
         [] OTHER -> DerivedAccess(s, lo, hi)

\* `repl`: an expression, an assignment, or a declaration that assigns
Documented(s) ==
  Derived(Logical, s, 1, Len(s)) \cup
  UNION {{<<"assign", s[k], target, e>> : target \in {t \in DerivedAccess(s, 1, k - 1) : t[1] # "call"},
                                          e \in Derived(Logical, s, k + 1, Len(s))} :
         k \in {k \in 2 .. Len(s) : s[k] \in Assignments}} \cup
  IF Len(s) > 3 /\ s[1] \in LocalTypes /\ s[2] \in Names /\ s[3] = "="
  THEN {<<"local", s[1], s[3], s[2], e>> : e \in Derived(Logical, s, 4, Len(s))} ELSE {}

\* a tree with its constants rolled, level by level; no tree if the parser gives up
RECURSIVE Rolled(_)
Rolled(t) ==
  LET Both(l, r, op) == IF l = {} \/ r = {} THEN {}
                        ELSE LET b == Binary(op, CHOOSE x \in l : TRUE, CHOOSE x \in r : TRUE)
                             IN IF b.ok THEN {b.tree} ELSE {}
  IN CASE t[1] \in {"lit", "var"} -> {t}
       [] t[1] = "un" -> {<<"un", t[2], e>> : e \in Rolled(t[3])}
       [] t[1] = "bin" /\ t[2] = "^" -> {<<"bin", "^", l, r>> : l \in Rolled(t[3]), r \in Rolled(t[4])}
       [] t[1] = "bin" /\ t[2] # "^" -> Both(Rolled(t[3]), Rolled(t[4]), t[2])
       [] t[1] = "member" -> {<<"member", e, t[3]>> : e \in Rolled(t[2])}
       [] t[1] = "index" -> {<<"index", e, i>> : e \in Rolled(t[2]), i \in Rolled(t[3])}
       [] t[1] = "call" -> {<<"call", f, args>> : f \in Rolled(t[2]), args \in FoldRight(
                              LAMBDA a, rest : {<<x>> \o y : x \in Rolled(a), y \in rest}, t[3], {<<>>})}
       [] t[1] = "assign" -> {<<"assign", t[2], target, e>> : target \in Rolled(t[3]), e \in Rolled(t[4])}
       [] t[1] = "local" -> {<<"local", t[2], t[3], t[4], e>> : e \in Rolled(t[5])}
===============================================================================
