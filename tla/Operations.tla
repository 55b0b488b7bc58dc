------------------------------ MODULE Operations ------------------------------
(***************************************************************************)
(* The operations on values (BinaryOperations.cpp, AST.cpp): one switch on *)
(* the operator and the types of both operands, written here as one        *)
(* operator for each pair of types.  An operation is named by its symbol.  *)
(*                                                                         *)
(* A value is a record of its type t and its content v, a number: of an    *)
(* Integer and a Bool (0 or 1) itself, of a Double its halves, of a String *)
(* its length.  What Double arithmetic and concatenation yield is left     *)
(* open, any Double and any String, and so is how the letters of two       *)
(* Strings compare.  An operation is the set of its outcomes: one value,   *)
(* Failure, or, where C++ leaves it undefined, any value of the type and,  *)
(* for a division, Trap, the end of the process.                           *)
(***************************************************************************)
EXTENDS Integers

CONSTANTS
  Width,   \* bound: the bits of a JoaoInt, which is an int: 32 in the code
  Halves,  \* bound: the Doubles, in halves
  Lengths  \* bound: the Strings, by their length

ASSUME WidthAssumption == Width \in Nat \ {0, 1}
ASSUME HalvesAssumption == Halves \subseteq Int /\ 0 \in Halves /\ 2 \in Halves
ASSUME LengthsAssumption == Lengths \subseteq Nat /\ {0, 1} \subseteq Lengths

TwoTo[n \in Nat] == IF n = 0 THEN 1 ELSE 2 * TwoTo[n - 1]
Limit == TwoTo[Width - 1]
Typed(t, numbers) == {[t |-> t, v |-> n] : n \in numbers}
Integer == Typed("Integer", -Limit .. Limit - 1)
Bool == Typed("Bool", {0, 1})
Double == Typed("Double", Halves)
String == Typed("String", Lengths)
Null == [t |-> "Null", v |-> 0]
Value == Integer \cup Bool \cup Double \cup String
           \cup Typed("Null", {0}) \cup Typed("Function", {0}) \cup Typed("Object", {0})

Failure == [t |-> "Failure", v |-> 0]
Trap == [t |-> "Trap", v |-> 0]

Arithmetic == {"+", "-", "*"}
Divisions == {"/", "//", "%"}
Bitwise == {"&", "~", "|"}
Shifts == {">>", "<<"}
Orders == {"<", "<=", ">", ">="}
Equalities == {"==", "!="}
Logicals == {"&&", "||", "~~"}
Operators == Arithmetic \cup Divisions \cup {"^", ".."} \cup Bitwise \cup Shifts
               \cup Orders \cup Equalities \cup Logicals

Numbers == {"Bool", "Integer", "Double"}

\* an overflow wraps, as the processor's additions and multiplications do
JoaoInt(n) == [t |-> "Integer", v |-> ((n + Limit) % (2 * Limit)) - Limit]
Truth(b) == [t |-> "Bool", v |-> IF b THEN 1 ELSE 0]

\* Value::operator bool: whatever holds no number is true, but null
IsTrue(a) == a.t \in Numbers \cup {"Null"} => a.v # 0

-------------------------------------------------------------------------------
(* The C++ operators on the contents of two values *)

\* a number in halves, so that Doubles compare with Integers
Scaled(a) == IF a.t = "Double" THEN a.v ELSE 2 * a.v

Relation(op, m, n) ==
  CASE op = "<" -> m < n
    [] op = "<=" -> m <= n
    [] op = ">" -> m > n
    [] op = ">=" -> m >= n
    [] op = "==" -> m = n
    [] op = "!=" -> m # n

\* the EXOR macro: a conditional, which has the type of its last operand
Exor(a, b) ==
  IF IsTrue(a) THEN [b EXCEPT !.v = IF IsTrue(b) THEN 0 ELSE IF b.t = "Double" THEN 2 ELSE 1] ELSE b

\* what all pairs of numbers share
Compared(op, a, b) ==
  CASE op \in Orders \cup Equalities -> {Truth(Relation(op, Scaled(a), Scaled(b)))}
    [] op = "&&" -> {Truth(IsTrue(a) /\ IsTrue(b))}
    [] op = "||" -> {Truth(IsTrue(a) \/ IsTrue(b))}
    [] op = "~~" -> {Exor(a, b)}

Computed(op, m, n) == CASE op = "+" -> m + n [] op = "-" -> m - n [] op = "*" -> m * n

\* division towards zero
Quotient(m, n) ==
  LET q == (IF m < 0 THEN -m ELSE m) \div (IF n < 0 THEN -n ELSE n)
  IN IF (m < 0) = (n < 0) THEN q ELSE -q

\* the processor's division, which knows no quotient by zero nor one past the greatest integer
Divided(op, m, n) ==
  IF n = 0 \/ (m = -Limit /\ n = -1) THEN {Trap} \cup Integer
  ELSE {JoaoInt(IF op = "%" THEN m - n * Quotient(m, n) ELSE Quotient(m, n))}

\* pow() and back, undefined when the power is no JoaoInt
Raised(m, n) ==
  IF n < 0 /\ m \notin {1, -1} THEN IF m = 0 THEN Integer ELSE {JoaoInt(0)}
  ELSE LET p == IF n = 0 THEN 1 ELSE m^(IF n < 0 THEN -n ELSE n)
       IN IF p \in -Limit .. Limit - 1 THEN {JoaoInt(p)} ELSE Integer

Bit(n, i) == (n \div TwoTo[i]) % 2

\* the integer whose bits are those of m and n, each pair combined
Combined(op, m, n) ==
  {z \in Integer : \A i \in 0 .. Width - 1 :
     Bit(z.v, i) = CASE op = "&" -> Bit(m, i) * Bit(n, i)
                     [] op = "~" -> (Bit(m, i) + Bit(n, i)) % 2
                     [] op = "|" -> IF Bit(m, i) + Bit(n, i) = 0 THEN 0 ELSE 1}

\* a shift by less than nothing or by all the bits of the operand is undefined
Shifted(op, m, n) ==
  IF n \notin 0 .. Width - 1 THEN Integer
  ELSE {JoaoInt(IF op = "<<" THEN m * TwoTo[n] ELSE m \div TwoTo[n])}

\* the operations on two JoaoInts, but division
OnInts(op, a, b) ==
  CASE op \in Arithmetic -> {JoaoInt(Computed(op, a.v, b.v))}
    [] op = "^" -> Raised(a.v, b.v)
    [] op \in Bitwise -> Combined(op, a.v, b.v)
    [] op \in Shifts -> Shifted(op, a.v, b.v)
    [] op = ".." -> String
    [] OTHER -> Compared(op, a, b)

-------------------------------------------------------------------------------
(* The pairs of types, in the order of the switch *)

\* the operations of which a Double is an operand: bitwise on the representations; a shift counts by
\* what is read of the left operand as a Double, whatever that is
OnDoubles(op, a, b) ==
  CASE op \in Arithmetic \cup Divisions \cup {"^"} -> Double
    [] op \in Bitwise -> Integer \cup Double
    [] op \in Shifts -> Integer
    [] op = ".." -> String
    [] OTHER -> Compared(op, a, b)

\* mutant: one of the checks is forgotten
OnIntegersUncheckedModulo(op, a, b) ==
  IF op \in Divisions THEN IF b.v = 0 /\ op # "%" THEN {Failure} ELSE Divided(op, a.v, b.v)
  ELSE OnInts(op, a, b)

OnIntegers(op, a, b) ==
  IF op \in Divisions THEN IF b.v = 0 THEN {Failure} ELSE Divided(op, a.v, b.v)
  ELSE OnInts(op, a, b)

\* a Bool with a Bool or an Integer, cast to JoaoInt: nothing checks the divisor
OnBools(op, a, b) == IF op \in Divisions THEN Divided(op, a.v, b.v) ELSE OnInts(op, a, b)

\* no bitwise operation, no shift, and a `~~` of its own
OnBoolDouble(op, a, b) ==
  CASE op \in Bitwise \cup Shifts -> {Failure}
    [] op = "~~" -> {Truth((IsTrue(a) \/ IsTrue(b)) /\ ~(IsTrue(a) /\ IsTrue(b)))}
    [] OTHER -> OnDoubles(op, a, b)

OnDoubleBool(op, a, b) ==
  CASE op = "%" /\ b.v = 0 -> {Failure}
    [] op \in Bitwise -> Double
    [] OTHER -> OnDoubles(op, a, b)

\* the sign of std::string::compare() of two Strings of these lengths
Compare(m, n) == IF m = 0 \/ n = 0 THEN {m - n} ELSE {-1, 1} \cup IF m = n THEN {0} ELSE {}

OnStrings(op, a, b) ==
  CASE op = ".." -> String
    [] op \in Orders \cup Equalities -> {Truth(Relation(op, c, 0)) : c \in Compare(a.v, b.v)}
    [] op \in {"&&", "||"} -> {Truth(TRUE)}
    [] op = "~~" -> {Truth(FALSE)}
    [] OTHER -> {Failure}

\* a String with a number n
OnStringNumber(op, n) ==
  CASE op = ".." -> String
    [] op \in Equalities -> {Truth(op = "!=")}
    [] op = "||" -> {Truth(TRUE)}
    [] op = "&&" -> {Truth(n.v # 0)}
    [] op = "~~" -> {Truth(n.v = 0)}
    [] OTHER -> {Failure}

\* null with a: another null, a number or a String
OnNull(op, a) ==
  CASE op \in Equalities -> {Truth((op = "==") = (a.t = "Null"))}
    [] op = "&&" -> {Truth(FALSE)}
    [] op \in {"||", "~~"} -> {Truth(IsTrue(a))}
    [] OTHER -> {Failure}

\* two Objects, and the default: an Object is true, and the answer is the other operand's truth
OnOthers(op, a, b) ==
  CASE op \notin Logicals -> {Failure}
    [] op \in Logicals /\ a.t = "Object" /\ b.t = "Object" -> {Truth(op # "~~")}
    [] op \in Logicals /\ a.t = "Object" /\ b.t # "Object" -> {Truth(IsTrue(b))}
    [] op \in Logicals /\ a.t # "Object" /\ b.t = "Object" -> {Truth(IsTrue(a))}
    [] OTHER -> {Failure}

BinaryOperation(op, a, b) ==
  CASE "Double" \in {a.t, b.t} /\ {a.t, b.t} \subseteq {"Double", "Integer"} -> OnDoubles(op, a, b)
    [] a.t = "Integer" /\ b.t = "Integer" -> OnIntegers(op, a, b)
    [] "Bool" \in {a.t, b.t} /\ {a.t, b.t} \subseteq {"Bool", "Integer"} -> OnBools(op, a, b)
    [] a.t = "Bool" /\ b.t = "Double" -> OnBoolDouble(op, a, b)
    [] a.t = "Double" /\ b.t = "Bool" -> OnDoubleBool(op, a, b)
    [] a.t = "String" /\ b.t = "String" -> OnStrings(op, a, b)
    [] a.t = "String" /\ b.t \in Numbers -> OnStringNumber(op, b)
    [] a.t \in Numbers /\ b.t = "String" -> OnStringNumber(op, a)
    [] a.t = "Null" /\ b.t \in Numbers \cup {"Null", "String"} -> OnNull(op, b)
    [] a.t \in Numbers \cup {"String"} /\ b.t = "Null" -> OnNull(op, a)
    [] OTHER -> OnOthers(op, a, b)

\* UnaryExpression::resolve(): the value of an operand; a Double flipped is any Double
UnaryOperation(op, a) ==
  CASE op = "-" /\ a.t = "Integer" -> {JoaoInt(-a.v)}
    [] op = "-" /\ a.t = "Double" -> Double
    [] op = "!" /\ a.t = "Null" -> {Null}
    [] op = "!" /\ a.t \in Numbers \cup {"String", "Object"} -> {Truth(~IsTrue(a))}
    [] op = "~" /\ a.t = "Integer" -> {JoaoInt(-a.v - 1)}
    [] op = "~" /\ a.t = "Double" -> Double
    [] op = "#" /\ a.t = "String" -> {JoaoInt(a.v)}
    [] OTHER -> {Failure}

-------------------------------------------------------------------------------
(* What the table of operations has to be, for each pair of operands *)

Logic(op, p, q) == CASE op = "&&" -> p /\ q [] op = "||" -> p \/ q [] op = "~~" -> p # q

\* the pairs for which the switch has the operator: no Function, and no Object but with another
HasLogic(op, a, b) ==
  "Function" \notin {a.t, b.t} /\ ("Object" \in {a.t, b.t} => op = "&&" \/ a.t = b.t)

\* A logical operation answers with a value of the truth that the truths of its operands make, in each
\* of the sixty cases of the switch that are written out one by one (BinaryExpression::BinaryOperation).
LogicAgrees ==
  \A op \in Logicals, a \in Value, b \in Value : HasLogic(op, a, b) =>
    \A o \in BinaryOperation(op, a, b) :
      o \notin {Failure, Trap} /\ (IsTrue(o) <=> Logic(op, IsTrue(a), IsTrue(b)))

Negated(outcomes) == {IF o = Failure THEN o ELSE Truth(o.v = 0) : o \in outcomes}

\* The six comparisons agree with one another, whatever the types, NaN apart: `==' takes its operands in either
\* order, `!=' is its negation, `<' and `<=' are `>' and `>=' with the operands exchanged, and `<=' is
\* the negation of `>' (BinaryExpression::BinaryOperation).
ComparisonsConsistent ==
  \A a \in Value, b \in Value :
    /\ BinaryOperation("==", a, b) = BinaryOperation("==", b, a)
    /\ BinaryOperation("!=", a, b) = Negated(BinaryOperation("==", a, b))
    /\ BinaryOperation("<", a, b) = BinaryOperation(">", b, a)
    /\ BinaryOperation("<=", a, b) = BinaryOperation(">=", b, a)
    /\ BinaryOperation("<=", a, b) = Negated(BinaryOperation(">", a, b))

\* Dividing Integers and Doubles ends no process but for the least Integer divided by -1, which nothing
\* checks, and an Integer divided by an Integer zero is a failure (BinaryExpression::BinaryOperation).
\* Of the divisions with a Bool none is checked.
DivisionGuarded ==
  \A op \in Divisions, a \in Value, b \in Value :
    LET outcomes == BinaryOperation(op, a, b)
    IN /\ a \in Integer /\ b \in Integer /\ b.v = 0 => outcomes = {Failure}
       /\ Trap \in outcomes => \/ a.v = -Limit /\ b.v = -1
                               \/ "Bool" \in {a.t, b.t} /\ {a.t, b.t} \subseteq {"Bool", "Integer"} /\ b.v = 0
===============================================================================
