------------------------------ MODULE ReplProofs ------------------------------
(***************************************************************************)
(* What Operations promises of the table of operations, and Repl of a      *)
(* session, proved for every width of the integers, every set of Doubles   *)
(* and Strings, every depth of an expression and every parser that makes   *)
(* trees.  First the operations, then their types, then what a tree leaves *)
(* level by level, and last the session.                                   *)
(***************************************************************************)
EXTENDS Repl, SequenceFacts, TLAPS

Types == Numbers \cup {"String", "Null", "Function", "Object"}

LEMMA ValueShape ==
  ASSUME NEW a \in Value
  PROVE /\ a = [t |-> a.t, v |-> a.v] /\ a.t \in Types
        /\ a.v \in Int
        /\ a.t = "Bool" => a.v \in {0, 1}
        /\ a.t = "Null" => a.v = 0
        /\ a.t = "String" => a.v \in Lengths
BY WidthAssumption, HalvesAssumption, LengthsAssumption
DEF Value, Integer, Bool, Double, String, Typed, Null, Types, Numbers, Limit

LEMMA LogicalOnly ==
  ASSUME NEW op \in Logicals
  PROVE /\ op \notin Arithmetic /\ op \notin Divisions /\ op \notin Bitwise /\ op \notin Shifts
        /\ op \notin Orders /\ op \notin Equalities /\ op \notin {"^", ".."}
BY DEF Logicals, Arithmetic, Divisions, Bitwise, Shifts, Orders, Equalities

LEMMA TruthTrue == \A p \in BOOLEAN : IsTrue(Truth(p)) = p /\ Truth(p) \notin {Failure, Trap}
BY DEF IsTrue, Truth, Failure, Trap, Numbers

-------------------------------------------------------------------------------
(* The logical operations *)

Agree(op, a, b, outcomes) ==
  \A o \in outcomes : o \notin {Failure, Trap} /\ (IsTrue(o) <=> Logic(op, IsTrue(a), IsTrue(b)))

\* the macro EXOR, and what all pairs of numbers share with it
LEMMA ComparedAgrees ==
  ASSUME NEW op \in Logicals, NEW a \in Value, NEW b \in Value, a.t \in Numbers, b.t \in Numbers
  PROVE Agree(op, a, b, Compared(op, a, b))
<1>1. op \notin Orders \cup Equalities
  BY LogicalOnly
<1>2. CASE op = "&&"
  <2>1. Compared(op, a, b) = {Truth(IsTrue(a) /\ IsTrue(b))}
    BY <1>1, <1>2 DEF Compared
  <2>2. QED
    BY <2>1, <1>2, TruthTrue DEF Agree, Logic, IsTrue
<1>3. CASE op = "||"
  <2>1. Compared(op, a, b) = {Truth(IsTrue(a) \/ IsTrue(b))}
    BY <1>1, <1>3 DEF Compared
  <2>2. QED
    BY <2>1, <1>3, TruthTrue DEF Agree, Logic, IsTrue
<1>4. CASE op = "~~"
  <2>1. Compared(op, a, b) = {Exor(a, b)}
    BY <1>1, <1>4 DEF Compared
  <2>2. Exor(a, b) \notin {Failure, Trap} /\ (IsTrue(Exor(a, b)) <=> (IsTrue(a) # IsTrue(b)))
    BY ValueShape DEF Exor, IsTrue, Numbers, Failure, Trap
  <2>3. QED
    BY <2>1, <2>2, <1>4 DEF Agree, Logic
<1>5. QED
  BY <1>2, <1>3, <1>4 DEF Logicals

\* two numbers, in every order of their types
LEMMA NumbersAgree ==
  ASSUME NEW op \in Logicals, NEW a \in Value, NEW b \in Value, a.t \in Numbers, b.t \in Numbers
  PROVE Agree(op, a, b, BinaryOperation(op, a, b))
<1>1. OnInts(op, a, b) = Compared(op, a, b)
  BY LogicalOnly DEF OnInts
<1>2. OnDoubles(op, a, b) = Compared(op, a, b)
  BY LogicalOnly DEF OnDoubles
<1>3. CASE a.t = "Bool" /\ b.t = "Double" /\ op = "~~"
  <2>1. BinaryOperation(op, a, b) = {Truth((IsTrue(a) \/ IsTrue(b)) /\ ~(IsTrue(a) /\ IsTrue(b)))}
    BY <1>3 DEF BinaryOperation, OnBoolDouble, Bitwise, Shifts
  <2>2. QED
    BY <2>1, <1>3, TruthTrue DEF Agree, Logic, IsTrue
<1>4. CASE ~(a.t = "Bool" /\ b.t = "Double" /\ op = "~~")
  <2>1. BinaryOperation(op, a, b) = Compared(op, a, b)
    <3>1. CASE a.t = "Integer"
      BY <3>1, <1>1, <1>2, LogicalOnly DEF BinaryOperation, OnIntegers, OnBools, Numbers
    <3>2. CASE a.t = "Double"
      BY <3>2, <1>1, <1>2, LogicalOnly DEF BinaryOperation, OnDoubleBool, Numbers, Divisions
    <3>3. CASE a.t = "Bool"
      BY <3>3, <1>4, <1>1, <1>2, LogicalOnly DEF BinaryOperation, OnBools, OnBoolDouble, Numbers
    <3>4. QED
      BY <3>1, <3>2, <3>3 DEF Numbers
  <2>2. QED
    BY <2>1, ComparedAgrees
<1>5. QED
  BY <1>3, <1>4

\* a String, which is true, with another or with a number
LEMMA StringsAgree ==
  ASSUME NEW op \in Logicals, NEW a \in Value, NEW b \in Value,
         "String" \in {a.t, b.t}, {a.t, b.t} \subseteq Numbers \cup {"String"}
  PROVE Agree(op, a, b, BinaryOperation(op, a, b))
<1> DEFINE Outcome == Truth(Logic(op, IsTrue(a), IsTrue(b)))
<1>1. IsTrue(a) \in BOOLEAN /\ IsTrue(b) \in BOOLEAN /\ Logic(op, IsTrue(a), IsTrue(b)) \in BOOLEAN
  BY DEF IsTrue, Logic, Logicals
<1>2. BinaryOperation(op, a, b) = {Outcome}
  <2>1. CASE a.t = "String" /\ b.t = "String"
    <3>1. BinaryOperation(op, a, b) = OnStrings(op, a, b)
      BY <2>1 DEF BinaryOperation, Numbers
    <3>2. OnStrings(op, a, b) = {Truth(op # "~~")}
      BY LogicalOnly DEF OnStrings, Logicals
    <3>3. Logic(op, IsTrue(a), IsTrue(b)) = (op # "~~")
      BY <2>1 DEF Logic, IsTrue, Numbers, Logicals
    <3>4. QED
      BY <3>1, <3>2, <3>3
  <2>2. CASE a.t = "String" /\ b.t \in Numbers
    <3>1. BinaryOperation(op, a, b) = OnStringNumber(op, b)
      BY <2>2 DEF BinaryOperation, Numbers
    <3>2. QED
      BY <3>1, <2>2, LogicalOnly DEF OnStringNumber, Logic, IsTrue, Numbers, Logicals, Truth
  <2>3. CASE a.t \in Numbers /\ b.t = "String"
    <3>1. BinaryOperation(op, a, b) = OnStringNumber(op, a)
      BY <2>3 DEF BinaryOperation, Numbers
    <3>2. QED
      BY <3>1, <2>3, LogicalOnly DEF OnStringNumber, Logic, IsTrue, Numbers, Logicals, Truth
  <2>4. QED
    BY <2>1, <2>2, <2>3
<1>3. QED
  BY <1>1, <1>2, TruthTrue DEF Agree

\* null, which is false, with anything but a Function or an Object
LEMMA NullsAgree ==
  ASSUME NEW op \in Logicals, NEW a \in Value, NEW b \in Value,
         "Null" \in {a.t, b.t}, {a.t, b.t} \subseteq Numbers \cup {"String", "Null"}
  PROVE Agree(op, a, b, BinaryOperation(op, a, b))
<1>1. IsTrue(a) \in BOOLEAN /\ IsTrue(b) \in BOOLEAN
  BY DEF IsTrue
<1>2. PICK c \in {a, b} : /\ BinaryOperation(op, a, b) = OnNull(op, c)
                         /\ IsTrue(c) = (IsTrue(a) \/ IsTrue(b)) /\ ~(IsTrue(a) /\ IsTrue(b))
  <2>1. CASE a.t = "Null"
    <3>1. BinaryOperation(op, a, b) = OnNull(op, b) /\ ~IsTrue(a)
      BY <2>1, ValueShape DEF BinaryOperation, IsTrue, Numbers
    <3>2. QED
      BY <3>1, <1>1
  <2>2. CASE a.t # "Null"
    <3>1. BinaryOperation(op, a, b) = OnNull(op, a) /\ ~IsTrue(b)
      BY <2>2, ValueShape DEF BinaryOperation, IsTrue, Numbers
    <3>2. QED
      BY <3>1, <1>1
  <2>3. QED
    BY <2>1, <2>2
<1>3. CASE op = "&&"
  <2>1. OnNull(op, c) = {Truth(FALSE)}
    BY <1>3 DEF OnNull, Equalities
  <2>2. QED
    BY <1>2, <1>3, <2>1, TruthTrue DEF Agree, Logic
<1>4. CASE op \in {"||", "~~"}
  <2>1. OnNull(op, c) = {Truth(IsTrue(c))}
    BY <1>4 DEF OnNull, Equalities
  <2>2. QED
    BY <1>1, <1>2, <1>4, <2>1, TruthTrue DEF Agree, Logic
<1>5. QED
  BY <1>3, <1>4 DEF Logicals

\* the default of the switch, where an Object is
LEMMA ObjectsAgree ==
  ASSUME NEW op \in Logicals, NEW a \in Value, NEW b \in Value, HasLogic(op, a, b), "Object" \in {a.t, b.t}
  PROVE Agree(op, a, b, BinaryOperation(op, a, b))
<1>1. BinaryOperation(op, a, b) = OnOthers(op, a, b)
  BY ValueShape DEF BinaryOperation, HasLogic, Types, Numbers
<1>2. IsTrue(a) \in BOOLEAN /\ IsTrue(b) \in BOOLEAN
  BY DEF IsTrue
<1>3. \E p \in BOOLEAN : OnOthers(op, a, b) = {Truth(p)} /\ p = Logic(op, IsTrue(a), IsTrue(b))
  <2>1. CASE a.t = "Object" /\ b.t = "Object"
    <3>1. OnOthers(op, a, b) = {Truth(op # "~~")}
      BY <2>1 DEF OnOthers, IsTrue, Numbers
    <3>2. Logic(op, IsTrue(a), IsTrue(b)) = (op # "~~")
      BY <2>1 DEF Logic, IsTrue, Numbers, Logicals
    <3>3. QED
      BY <3>1, <3>2
  <2>2. CASE a.t = "Object" /\ b.t # "Object"
    <3>1. OnOthers(op, a, b) = {Truth(IsTrue(b))} /\ op = "&&" /\ IsTrue(a)
      BY <2>2 DEF HasLogic, OnOthers, IsTrue, Numbers
    <3>2. QED
      BY <3>1, <1>2 DEF Logic
  <2>3. CASE a.t # "Object" /\ b.t = "Object"
    <3>1. OnOthers(op, a, b) = {Truth(IsTrue(a))} /\ op = "&&" /\ IsTrue(b)
      BY <2>3 DEF HasLogic, OnOthers, IsTrue, Numbers
    <3>2. QED
      BY <3>1, <1>2 DEF Logic
  <2>4. QED
    BY <2>1, <2>2, <2>3
<1>4. QED
  BY <1>1, <1>3, TruthTrue DEF Agree

\* Every logical operation of the switch answers with a value of the truth that the truths of its
\* operands make (BinaryExpression::BinaryOperation).
THEOREM LogicSound == LogicAgrees
<1> SUFFICES ASSUME NEW op \in Logicals, NEW a \in Value, NEW b \in Value, HasLogic(op, a, b)
             PROVE Agree(op, a, b, BinaryOperation(op, a, b))
  BY DEF LogicAgrees, Agree
<1>1. a.t \in Types \ {"Function"} /\ b.t \in Types \ {"Function"}
  BY ValueShape DEF HasLogic
<1>2. CASE a.t \in Numbers /\ b.t \in Numbers
  BY <1>2, NumbersAgree
<1>3. CASE "Object" \in {a.t, b.t}
  BY <1>3, ObjectsAgree
<1>4. CASE "Object" \notin {a.t, b.t} /\ "Null" \in {a.t, b.t}
  BY <1>1, <1>4, NullsAgree DEF Types
<1>5. CASE "Object" \notin {a.t, b.t} /\ "Null" \notin {a.t, b.t} /\ "String" \in {a.t, b.t}
  BY <1>1, <1>5, StringsAgree DEF Types
<1>6. QED
  BY <1>1, <1>2, <1>3, <1>4, <1>5 DEF Types

-------------------------------------------------------------------------------
(* The comparisons *)

Comparisons == Orders \cup Equalities

LEMMA ComparisonOnly ==
  ASSUME NEW op \in Comparisons
  PROVE /\ op \notin Arithmetic /\ op \notin Divisions /\ op \notin Bitwise /\ op \notin Shifts
        /\ op \notin Logicals /\ op \notin {"^", "..", "&&", "||", "~~"}
BY DEF Comparisons, Logicals, Arithmetic, Divisions, Bitwise, Shifts, Orders, Equalities

LEMMA RelationsConsistent ==
  ASSUME NEW m \in Int, NEW n \in Int
  PROVE /\ Relation("==", m, n) = Relation("==", n, m)
        /\ Relation("!=", m, n) = ~Relation("==", m, n)
        /\ Relation("<", m, n) = Relation(">", n, m)
        /\ Relation("<=", m, n) = Relation(">=", n, m)
        /\ Relation("<=", m, n) = ~Relation(">", m, n)
BY DEF Relation

LEMMA NegatedTruth == \A p \in BOOLEAN : Negated({Truth(p)}) = {Truth(~p)} /\ Negated({Failure}) = {Failure}
BY DEF Negated, Truth, Failure

\* what every pair of operands has to satisfy
Consistent(a, b) ==
  /\ BinaryOperation("==", a, b) = BinaryOperation("==", b, a)
  /\ BinaryOperation("!=", a, b) = Negated(BinaryOperation("==", a, b))
  /\ BinaryOperation("<", a, b) = BinaryOperation(">", b, a)
  /\ BinaryOperation("<=", a, b) = BinaryOperation(">=", b, a)
  /\ BinaryOperation("<=", a, b) = Negated(BinaryOperation(">", a, b))

\* two numbers of any types are compared as numbers
LEMMA NumbersCompared ==
  ASSUME NEW op \in Comparisons, NEW a \in Value, NEW b \in Value, a.t \in Numbers, b.t \in Numbers
  PROVE BinaryOperation(op, a, b) = {Truth(Relation(op, Scaled(a), Scaled(b)))}
<1>1. Compared(op, a, b) = {Truth(Relation(op, Scaled(a), Scaled(b)))}
  BY ComparisonOnly DEF Compared, Comparisons
<1>2. OnInts(op, a, b) = Compared(op, a, b)
  BY ComparisonOnly DEF OnInts
<1>3. OnDoubles(op, a, b) = Compared(op, a, b)
  BY ComparisonOnly DEF OnDoubles
<1>4. CASE a.t = "Integer"
  BY <1>4, <1>1, <1>2, <1>3, ComparisonOnly DEF BinaryOperation, OnIntegers, OnBools, Numbers
<1>5. CASE a.t = "Double"
  BY <1>5, <1>1, <1>2, <1>3, ComparisonOnly DEF BinaryOperation, OnDoubleBool, Numbers, Divisions
<1>6. CASE a.t = "Bool"
  BY <1>6, <1>1, <1>2, <1>3, ComparisonOnly DEF BinaryOperation, OnBools, OnBoolDouble, Numbers
<1>7. QED
  BY <1>4, <1>5, <1>6 DEF Numbers

LEMMA NumbersConsistent ==
  ASSUME NEW a \in Value, NEW b \in Value, a.t \in Numbers, b.t \in Numbers
  PROVE Consistent(a, b)
<1>1. Scaled(a) \in Int /\ Scaled(b) \in Int
  BY ValueShape DEF Scaled
<1>2. {"==", "!=", "<", "<=", ">", ">="} \subseteq Comparisons
  BY DEF Comparisons, Orders, Equalities
<1>3. \A op \in Comparisons : /\ BinaryOperation(op, a, b) = {Truth(Relation(op, Scaled(a), Scaled(b)))}
                              /\ BinaryOperation(op, b, a) = {Truth(Relation(op, Scaled(b), Scaled(a)))}
  BY NumbersCompared
<1>4. /\ BinaryOperation("!=", a, b) = Negated(BinaryOperation("==", a, b))
      /\ BinaryOperation("<=", a, b) = Negated(BinaryOperation(">", a, b))
  <2>1. /\ (Truth(Relation("==", Scaled(a), Scaled(b))).v = 0) = Relation("!=", Scaled(a), Scaled(b))
        /\ (Truth(Relation(">", Scaled(a), Scaled(b))).v = 0) = Relation("<=", Scaled(a), Scaled(b))
        /\ Truth(Relation("==", Scaled(a), Scaled(b))) # Failure /\ Truth(Relation(">", Scaled(a), Scaled(b))) # Failure
    BY <1>1 DEF Relation, Truth, Failure
  <2>2. QED
    BY <1>2, <1>3, <2>1 DEF Negated
<1>5. QED
  BY <1>1, <1>2, <1>3, <1>4, RelationsConsistent DEF Consistent

\* two Strings are compared by one sign, which is the opposite when they are exchanged
LEMMA StringsConsistent ==
  ASSUME NEW a \in Value, NEW b \in Value, a.t = "String", b.t = "String"
  PROVE Consistent(a, b)
<1> DEFINE Outcomes(op, x, y) == {Truth(Relation(op, c, 0)) : c \in Compare(x.v, y.v)}
<1>1. a.v \in Nat /\ b.v \in Nat
  BY ValueShape, LengthsAssumption
<1>2. \A op \in Comparisons : BinaryOperation(op, a, b) = Outcomes(op, a, b) /\ BinaryOperation(op, b, a) = Outcomes(op, b, a)
  <2>1. \A op \in Comparisons : BinaryOperation(op, a, b) = OnStrings(op, a, b) /\ BinaryOperation(op, b, a) = OnStrings(op, b, a)
    BY DEF BinaryOperation, Numbers
  <2>2. QED
    BY <2>1, ComparisonOnly DEF OnStrings, Comparisons
<1>3. {"==", "!=", "<", "<=", ">", ">="} \subseteq Comparisons
  BY DEF Comparisons, Orders, Equalities
<1>4. /\ Compare(a.v, b.v) \subseteq Int /\ Compare(b.v, a.v) \subseteq Int
      /\ \A c \in Compare(a.v, b.v) : -c \in Compare(b.v, a.v)
      /\ \A c \in Compare(b.v, a.v) : -c \in Compare(a.v, b.v)
  BY <1>1 DEF Compare
<1>5. \A c \in Int : /\ Relation("==", c, 0) = Relation("==", -c, 0)
                     /\ Relation("<", c, 0) = Relation(">", -c, 0)
                     /\ Relation(">", c, 0) = Relation("<", -c, 0)
                     /\ Relation("<=", c, 0) = Relation(">=", -c, 0)
                     /\ Relation(">=", c, 0) = Relation("<=", -c, 0)
  BY DEF Relation
<1>6. /\ Outcomes("==", a, b) = Outcomes("==", b, a)
      /\ Outcomes("<", a, b) = Outcomes(">", b, a)
      /\ Outcomes("<=", a, b) = Outcomes(">=", b, a)
  <2>1. /\ Outcomes("==", a, b) \subseteq Outcomes("==", b, a)
        /\ Outcomes("<", a, b) \subseteq Outcomes(">", b, a)
        /\ Outcomes("<=", a, b) \subseteq Outcomes(">=", b, a)
    BY <1>4, <1>5
  <2>2. /\ Outcomes("==", b, a) \subseteq Outcomes("==", a, b)
        /\ Outcomes(">", b, a) \subseteq Outcomes("<", a, b)
        /\ Outcomes(">=", b, a) \subseteq Outcomes("<=", a, b)
    BY <1>4, <1>5
  <2>3. QED
    BY <2>1, <2>2
<1>7. /\ Outcomes("!=", a, b) = Negated(Outcomes("==", a, b))
      /\ Outcomes("<=", a, b) = Negated(Outcomes(">", a, b))
  <2>1. \A c \in Int : /\ (Truth(Relation("==", c, 0)).v = 0) = Relation("!=", c, 0)
                       /\ (Truth(Relation(">", c, 0)).v = 0) = Relation("<=", c, 0)
                       /\ Truth(Relation("==", c, 0)) # Failure /\ Truth(Relation(">", c, 0)) # Failure
    BY DEF Relation, Truth, Failure
  <2>2. QED
    BY <1>4, <2>1 DEF Negated
<1>8. QED
  BY <1>2, <1>3, <1>6, <1>7 DEF Consistent

\* what is of different types, but for numbers, is unequal and has no order
LEMMA MixedConsistent ==
  ASSUME NEW a \in Value, NEW b \in Value, ~(a.t \in Numbers /\ b.t \in Numbers), ~(a.t = "String" /\ b.t = "String")
  PROVE Consistent(a, b)
<1>1. a.t \in Types /\ b.t \in Types
  BY ValueShape
<1>2. CASE {a.t, b.t} \subseteq Numbers \cup {"String"}
  <2>1. /\ BinaryOperation("==", a, b) = {Truth(FALSE)} /\ BinaryOperation("==", b, a) = {Truth(FALSE)}
        /\ BinaryOperation("!=", a, b) = {Truth(TRUE)}
    BY <1>2 DEF BinaryOperation, OnStringNumber, Numbers, Equalities
  <2>2. ASSUME NEW op \in Orders
        PROVE  BinaryOperation(op, a, b) = {Failure} /\ BinaryOperation(op, b, a) = {Failure}
    <3>1. BinaryOperation(op, a, b) = {Failure}
      BY <1>2 DEF BinaryOperation, OnStringNumber, Numbers, Equalities, Orders
    <3>2. BinaryOperation(op, b, a) = {Failure}
      BY <1>2 DEF BinaryOperation, OnStringNumber, Numbers, Equalities, Orders
    <3> QED BY <3>1, <3>2
  <2>3. QED
    BY <2>1, <2>2, NegatedTruth DEF Consistent, Orders
<1>3. CASE "Null" \in {a.t, b.t} /\ {a.t, b.t} \subseteq Numbers \cup {"String", "Null"}
  <2> DEFINE both == a.t = b.t
  <2>1. /\ BinaryOperation("==", a, b) = {Truth(both)} /\ BinaryOperation("==", b, a) = {Truth(both)}
        /\ BinaryOperation("!=", a, b) = {Truth(~both)}
    <3>1. BinaryOperation("==", a, b) = {Truth(both)}
      BY <1>3 DEF BinaryOperation, OnNull, Numbers, Equalities
    <3>2. BinaryOperation("==", b, a) = {Truth(both)}
      BY <1>3 DEF BinaryOperation, OnNull, Numbers, Equalities
    <3>3. BinaryOperation("!=", a, b) = {Truth(~both)}
      BY <1>3 DEF BinaryOperation, OnNull, Numbers, Equalities
    <3> QED BY <3>1, <3>2, <3>3
  <2>2. ASSUME NEW op \in Orders
        PROVE  BinaryOperation(op, a, b) = {Failure} /\ BinaryOperation(op, b, a) = {Failure}
    <3>1. BinaryOperation(op, a, b) = {Failure}
      BY <1>3 DEF BinaryOperation, OnNull, Numbers, Equalities, Orders
    <3>2. BinaryOperation(op, b, a) = {Failure}
      BY <1>3 DEF BinaryOperation, OnNull, Numbers, Equalities, Orders
    <3> QED BY <3>1, <3>2
  <2>3. QED
    BY <2>1, <2>2, NegatedTruth DEF Consistent, Orders
<1>4. CASE ~({a.t, b.t} \subseteq Numbers \cup {"String", "Null"})
  <2>1. \A op \in Comparisons : BinaryOperation(op, a, b) = {Failure} /\ BinaryOperation(op, b, a) = {Failure}
    BY <1>1, <1>4, ComparisonOnly DEF BinaryOperation, OnOthers, Numbers, Types
  <2>2. QED
    BY <2>1, NegatedTruth DEF Consistent, Comparisons, Orders, Equalities
<1>5. QED
  BY <1>1, <1>2, <1>3, <1>4

\* The six comparisons agree with one another for every pair of values (BinaryExpression::BinaryOperation).
THEOREM ComparisonsSound == ComparisonsConsistent
<1> SUFFICES ASSUME NEW a \in Value, NEW b \in Value PROVE Consistent(a, b)
  BY DEF ComparisonsConsistent, Consistent
<1>1. QED
  BY NumbersConsistent, StringsConsistent, MixedConsistent

-------------------------------------------------------------------------------
(* The divisions *)

LEMMA DivisionOnly ==
  ASSUME NEW op \in Divisions
  PROVE op \notin Arithmetic /\ op \notin Bitwise /\ op \notin Shifts /\ op \notin Comparisons \cup Logicals \cup {"^", ".."}
BY DEF Divisions, Arithmetic, Bitwise, Shifts, Comparisons, Orders, Equalities, Logicals

LEMMA NoValueTraps == \A n : Trap \notin {JoaoInt(n), Truth(n), Failure} /\ Trap \notin Integer /\ Trap \notin Double
BY DEF Trap, Failure, JoaoInt, Truth, Integer, Double, Typed

\* Dividing Integers is guarded against zero, and nothing else than an Integer or a Bool divided by a
\* false Bool or, with a Bool, by zero can end the process, but for the least Integer divided by -1
\* (BinaryExpression::BinaryOperation).
THEOREM DivisionSound == DivisionGuarded
<1> SUFFICES ASSUME NEW op \in Divisions, NEW a \in Value, NEW b \in Value
             PROVE /\ a \in Integer /\ b \in Integer /\ b.v = 0 => BinaryOperation(op, a, b) = {Failure}
                   /\ Trap \in BinaryOperation(op, a, b) =>
                        \/ a.v = -Limit /\ b.v = -1
                        \/ "Bool" \in {a.t, b.t} /\ {a.t, b.t} \subseteq {"Bool", "Integer"} /\ b.v = 0
  BY DEF DivisionGuarded
<1>1. Trap \in Divided(op, a.v, b.v) => b.v = 0 \/ (a.v = -Limit /\ b.v = -1)
  BY NoValueTraps DEF Divided
<1>2. CASE {a.t, b.t} \subseteq {"Bool", "Integer"}
  <2>1. CASE a.t = "Integer" /\ b.t = "Integer"
    <3>1. BinaryOperation(op, a, b) = IF b.v = 0 THEN {Failure} ELSE Divided(op, a.v, b.v)
      BY <2>1 DEF BinaryOperation, OnIntegers
    <3>2. QED
      BY <3>1, <1>1, NoValueTraps
  <2>2. CASE ~(a.t = "Integer" /\ b.t = "Integer")
    <3>1. BinaryOperation(op, a, b) = Divided(op, a.v, b.v)
      BY <1>2, <2>2, DivisionOnly DEF BinaryOperation, OnBools
    <3>2. ~(a \in Integer /\ b \in Integer)
      BY <2>2 DEF Integer, Typed
    <3>3. QED
      BY <3>1, <3>2, <1>1, <1>2, <2>2
  <2>3. QED
    BY <2>1, <2>2
<1>3. CASE ~({a.t, b.t} \subseteq {"Bool", "Integer"})
  <2>1. ~(a \in Integer /\ b \in Integer)
    BY <1>3 DEF Integer, Typed
  <2>2. Trap \notin BinaryOperation(op, a, b)
    <3>1. CASE a.t \in Numbers /\ b.t \in Numbers
      <4>1. BinaryOperation(op, a, b) \in {Double, {Failure}}
        BY <1>3, <3>1, DivisionOnly DEF BinaryOperation, OnDoubles, OnBoolDouble, OnDoubleBool, Numbers, Logicals
      <4>2. QED
        BY <4>1, NoValueTraps
    <3>2. CASE ~(a.t \in Numbers /\ b.t \in Numbers)
      <4>1. BinaryOperation(op, a, b) \in {OnStrings(op, a, b), OnStringNumber(op, a), OnStringNumber(op, b),
                                          OnNull(op, a), OnNull(op, b), OnOthers(op, a, b)}
        BY <3>2 DEF BinaryOperation, Numbers
      <4>2. BinaryOperation(op, a, b) = {Failure}
        BY <4>1, DivisionOnly DEF OnStrings, OnStringNumber, OnNull, OnOthers, Comparisons, Logicals
      <4>3. QED
        BY <4>2, NoValueTraps
    <3>3. QED
      BY <3>1, <3>2
  <2>3. QED
    BY <2>1, <2>2
<1>4. QED
  BY <1>2, <1>3

-------------------------------------------------------------------------------
(* The operations yield values. *)

LEMMA TwoToFacts == \A n \in Nat : TwoTo[n] \in Nat \ {0} /\ TwoTo[n + 1] = 2 * TwoTo[n]
<1> DEFINE double == [m \in Nat \ {0} |-> 2 * m]
           IsTwoTo(f) == f = [n \in Nat |-> IF n = 0 THEN 1 ELSE 2 * f[n - 1]]
<1>1. PICK f \in [Nat -> Nat \ {0}] : f[0] = 1 /\ \A n \in Nat : f[n + 1] = double[f[n]]
  <2>1. double \in [Nat \ {0} -> Nat \ {0}]
    OBVIOUS
  <2> HIDE DEF double
  <2>2. StepsFrom(Nat \ {0}, 1, double)
    BY <2>1, PrimitiveRecursion
  <2> QED BY <2>2 DEF StepsFrom
<1>2. \A n \in Nat : f[n + 1] = 2 * f[n]
  BY <1>1
<1>3. IsTwoTo(f)
  <2>1. ASSUME NEW n \in Nat PROVE f[n] = IF n = 0 THEN 1 ELSE 2 * f[n - 1]
    <3>1. CASE n = 0
      BY <1>1, <3>1
    <3>2. CASE n # 0
      <4>1. n - 1 \in Nat /\ (n - 1) + 1 = n
        BY <3>2
      <4> QED BY <1>2, <3>2, <4>1
    <3> QED BY <3>1, <3>2
  <2>2. f = [n \in Nat |-> f[n]]
    BY <1>1
  <2> QED BY <2>1, <2>2
<1>4. IsTwoTo(TwoTo)
  <2>1. TwoTo = CHOOSE g : IsTwoTo(g)
    BY DEF TwoTo
  <2> HIDE DEF IsTwoTo
  <2> QED BY <1>3, <2>1
<1>5. ASSUME NEW n \in Nat PROVE TwoTo[n] = f[n]
  <2> DEFINE T == {i \in Nat : TwoTo[i] = f[i]}
  <2>1. TwoTo[0] = 1
    BY <1>4
  <2>2. 0 \in T
    BY <1>1, <2>1
  <2>3. ASSUME NEW i \in Nat, i \in T PROVE i + 1 \in T
    <3>1. TwoTo[i + 1] = 2 * TwoTo[i]
      BY <1>4
    <3> QED BY <1>2, <2>3, <3>1
  <2> HIDE DEF T
  <2>4. Nat \subseteq T
    BY <2>2, <2>3, SetInduction
  <2> QED BY <2>4 DEF T
<1> QED BY <1>1, <1>2, <1>5

LEMMA LimitFacts == Limit \in Nat /\ Limit >= 2
<1>1. Width - 2 \in Nat /\ (Width - 2) + 1 = Width - 1
  BY WidthAssumption
<1>2. TwoTo[Width - 2] \in Nat \ {0} /\ Limit = 2 * TwoTo[Width - 2]
  BY <1>1, TwoToFacts DEF Limit
<1> QED BY <1>2

LEMMA JoaoIntType == \A n \in Int : JoaoInt(n) \in Integer
<1> SUFFICES ASSUME NEW n \in Int PROVE JoaoInt(n) \in Integer
  OBVIOUS
<1>1. (n + Limit) % (2 * Limit) \in 0 .. 2 * Limit - 1
  BY LimitFacts
<1> HIDE DEF Limit
<1>2. ((n + Limit) % (2 * Limit)) - Limit \in -Limit .. Limit - 1
  BY <1>1, LimitFacts
<1> QED BY <1>2 DEF JoaoInt, Integer, Typed

Outcome == Value \cup {Failure, Trap}

LEMMA ValueTypes ==
  /\ Integer \subseteq Value /\ Bool \subseteq Value /\ Double \subseteq Value /\ String \subseteq Value
  /\ Null \in Value /\ FunctionValue \in Value
  /\ \A p : Truth(p) \in Value
  /\ \A n \in {0, 1} : [t |-> "Bool", v |-> n] \in Value
  /\ [t |-> "Integer", v |-> 0] \in Value /\ [t |-> "String", v |-> 1] \in Value
<1>1. \A p : Truth(p) \in Bool
  BY DEF Truth, Bool, Typed
<1>2. [t |-> "Integer", v |-> 0] \in Integer
  BY LimitFacts DEF Integer, Typed
<1>3. [t |-> "String", v |-> 1] \in String
  BY LengthsAssumption DEF String, Typed
<1>4. \A n \in {0, 1} : [t |-> "Bool", v |-> n] \in Bool
  BY DEF Bool, Typed
<1> QED BY <1>1, <1>2, <1>3, <1>4 DEF Value, Null, FunctionValue, Typed

LEMMA ContentTypes ==
  ASSUME NEW a \in Value
  PROVE  /\ a.t = "Integer" => a \in Integer /\ a.v \in -Limit .. Limit - 1
         /\ a.t = "Double" => a \in Double
         /\ a.t = "Bool" => a \in Bool
BY LimitFacts DEF Value, Integer, Bool, Double, String, Typed

LEMMA ExorType ==
  ASSUME NEW a \in Value, NEW b \in Value, b.t \in Numbers
  PROVE  Exor(a, b) \in Value
<1>1. b = [t |-> b.t, v |-> b.v]
  BY ValueShape
<1>2. CASE b.t = "Double"
  <2>1. \A m \in {0, 2} : [b EXCEPT !.v = m] = [t |-> "Double", v |-> m]
    BY <1>1, <1>2
  <2>2. \A m \in {0, 2} : [t |-> "Double", v |-> m] \in Double
    BY HalvesAssumption DEF Double, Typed
  <2> QED BY <1>2, <2>1, <2>2, ValueTypes DEF Exor
<1>3. CASE b.t = "Integer"
  <2>1. \A m \in {0, 1} : [b EXCEPT !.v = m] = [t |-> "Integer", v |-> m]
    BY <1>1, <1>3
  <2>2. \A m \in {0, 1} : [t |-> "Integer", v |-> m] \in Integer
    BY LimitFacts DEF Integer, Typed
  <2> QED BY <1>3, <2>1, <2>2, ValueTypes DEF Exor
<1>4. CASE b.t = "Bool"
  <2>1. \A m \in {0, 1} : [b EXCEPT !.v = m] = [t |-> "Bool", v |-> m]
    BY <1>1, <1>4
  <2>2. \A m \in {0, 1} : [t |-> "Bool", v |-> m] \in Bool
    BY DEF Bool, Typed
  <2> QED BY <1>4, <2>1, <2>2, ValueTypes DEF Exor
<1> QED BY <1>2, <1>3, <1>4 DEF Numbers

LEMMA ComparedType ==
  ASSUME NEW a \in Value, NEW b \in Value, b.t \in Numbers,
         NEW op \in Orders \cup Equalities \cup Logicals
  PROVE  Compared(op, a, b) \subseteq Value
<1>1. CASE op \in Orders \cup Equalities
  <2>1. Compared(op, a, b) = {Truth(Relation(op, Scaled(a), Scaled(b)))}
    BY <1>1 DEF Compared, Orders, Equalities
  <2> QED BY <2>1, ValueTypes DEF Truth
<1>2. CASE op \in Logicals
  <2>1. op \notin Orders \cup Equalities
    BY <1>2, LogicalOnly
  <2>2. CASE op = "&&"
    <3>1. Compared(op, a, b) = {Truth(IsTrue(a) /\ IsTrue(b))}
      BY <2>1, <2>2 DEF Compared
    <3> QED BY <3>1, ValueTypes
  <2>3. CASE op = "||"
    <3>1. Compared(op, a, b) = {Truth(IsTrue(a) \/ IsTrue(b))}
      BY <2>1, <2>3 DEF Compared
    <3> QED BY <3>1, ValueTypes
  <2>4. CASE op = "~~"
    <3>1. Compared(op, a, b) = {Exor(a, b)}
      BY <2>1, <2>4 DEF Compared
    <3> QED BY <3>1, ExorType
  <2> QED BY <1>2, <2>2, <2>3, <2>4 DEF Logicals
<1> QED BY <1>1, <1>2

LEMMA QuotientType ==
  ASSUME NEW m \in Int, NEW n \in Int, n # 0
  PROVE  Quotient(m, n) \in Int
<1> DEFINE d == IF n < 0 THEN -n ELSE n
           c == IF m < 0 THEN -m ELSE m
<1>1. d \in Nat \ {0} /\ c \in Nat
  OBVIOUS
<1> HIDE DEF c, d
<1>2. c \div d \in Int
  BY <1>1
<1> QED BY <1>2 DEF Quotient, c, d

LEMMA DividedType ==
  ASSUME NEW op, NEW m \in Int, NEW n \in Int
  PROVE  Divided(op, m, n) \subseteq Value \cup {Trap}
<1>1. CASE n = 0 \/ (m = -Limit /\ n = -1)
  BY <1>1, ValueTypes DEF Divided
<1>2. CASE n # 0 /\ ~(m = -Limit /\ n = -1)
  <2>1. Quotient(m, n) \in Int /\ m - n * Quotient(m, n) \in Int
    BY <1>2, QuotientType
  <2> QED BY <1>2, <2>1, JoaoIntType, ValueTypes DEF Divided
<1> QED BY <1>1, <1>2

LEMMA RaisedType ==
  ASSUME NEW m \in Int, NEW n \in Int
  PROVE  Raised(m, n) \subseteq Value
<1>1. -Limit .. Limit - 1 \subseteq Int
  OBVIOUS
<1> QED BY <1>1, JoaoIntType, ValueTypes DEF Raised

LEMMA ShiftedType ==
  ASSUME NEW op, NEW m \in Int, NEW n \in Int
  PROVE  Shifted(op, m, n) \subseteq Value
<1>1. CASE n \notin 0 .. Width - 1
  BY <1>1, ValueTypes DEF Shifted
<1>2. CASE n \in 0 .. Width - 1
  <2>1. TwoTo[n] \in Nat \ {0}
    BY <1>2, TwoToFacts, WidthAssumption
  <2>2. m * TwoTo[n] \in Int /\ m \div TwoTo[n] \in Int
    BY <2>1
  <2> QED BY <1>2, <2>2, JoaoIntType, ValueTypes DEF Shifted
<1> QED BY <1>1, <1>2

\* an operator that is of no other kind compares
LEMMA ComparesElse ==
  ASSUME NEW op \in Operators
  PROVE  op \notin Arithmetic \cup Divisions \cup {"^", ".."} \cup Bitwise \cup Shifts
              => op \in Orders \cup Equalities \cup Logicals
BY DEF Operators, Arithmetic, Divisions, Bitwise, Shifts, Orders, Equalities, Logicals

LEMMA OnIntsType ==
  ASSUME NEW op \in Operators \ Divisions, NEW a \in Value, NEW b \in Value,
         a.t \in {"Integer", "Bool"}, b.t \in {"Integer", "Bool"}
  PROVE  OnInts(op, a, b) \subseteq Value
<1>1. a.v \in Int /\ b.v \in Int
  BY ValueShape
<1>2. CASE op \in Arithmetic
  <2>1. Computed(op, a.v, b.v) \in Int
    BY <1>1, <1>2 DEF Computed, Arithmetic
  <2>2. OnInts(op, a, b) = {JoaoInt(Computed(op, a.v, b.v))}
    BY <1>2 DEF OnInts, Arithmetic, Bitwise, Shifts
  <2> QED BY <2>1, <2>2, JoaoIntType, ValueTypes
<1>3. CASE op = "^"
  <2>1. OnInts(op, a, b) = Raised(a.v, b.v)
    BY <1>3 DEF OnInts, Arithmetic, Bitwise, Shifts
  <2> QED BY <1>1, <2>1, RaisedType
<1>4. CASE op \in Bitwise
  <2>1. Combined(op, a.v, b.v) \subseteq Value
    BY ValueTypes DEF Combined
  <2>2. OnInts(op, a, b) = Combined(op, a.v, b.v)
    BY <1>4 DEF OnInts, Arithmetic, Bitwise, Shifts
  <2> QED BY <2>1, <2>2
<1>5. CASE op \in Shifts
  <2>1. OnInts(op, a, b) = Shifted(op, a.v, b.v)
    BY <1>5 DEF OnInts, Arithmetic, Bitwise, Shifts
  <2> QED BY <1>1, <2>1, ShiftedType
<1>6. CASE op = ".."
  <2>1. op \notin Arithmetic /\ op # "^" /\ op \notin Bitwise /\ op \notin Shifts
    BY <1>6 DEF Arithmetic, Bitwise, Shifts
  <2> QED BY <1>6, <2>1, ValueTypes DEF OnInts
<1>7. CASE op \notin Arithmetic \cup {"^", ".."} \cup Bitwise \cup Shifts
  <2>1. op \in Orders \cup Equalities \cup Logicals /\ b.t \in Numbers
    BY <1>7, ComparesElse DEF Numbers
  <2> QED BY <1>7, <2>1, ComparedType DEF OnInts
<1> QED BY <1>2, <1>3, <1>4, <1>5, <1>6, <1>7

LEMMA OnDoublesType ==
  ASSUME NEW op \in Operators, NEW a \in Value, NEW b \in Value, b.t \in Numbers
  PROVE  OnDoubles(op, a, b) \subseteq Value
<1>1. CASE op \in Arithmetic \cup Divisions \cup {"^", ".."} \cup Bitwise \cup Shifts
  BY <1>1, ValueTypes DEF OnDoubles
<1>2. CASE op \notin Arithmetic \cup Divisions \cup {"^", ".."} \cup Bitwise \cup Shifts
  <2>1. op \in Orders \cup Equalities \cup Logicals
    BY <1>2, ComparesElse
  <2> QED BY <1>2, <2>1, ComparedType DEF OnDoubles
<1> QED BY <1>1, <1>2

LEMMA NumbersType ==
  ASSUME NEW op \in Operators, NEW a \in Value, NEW b \in Value, a.t \in Numbers, b.t \in Numbers
  PROVE  BinaryOperation(op, a, b) \subseteq Outcome
<1>1. a.v \in Int /\ b.v \in Int
  BY ValueShape
<1>2. CASE "Double" \in {a.t, b.t} /\ {a.t, b.t} \subseteq {"Double", "Integer"}
  BY <1>2, OnDoublesType DEF BinaryOperation, Outcome
<1>3. CASE {a.t, b.t} \subseteq {"Integer", "Bool"}
  <2>1. CASE op \in Divisions
    BY <1>1, <1>3, <2>1, DividedType DEF BinaryOperation, OnIntegers, OnBools, Outcome
  <2>2. CASE op \notin Divisions
    <3>1. OnInts(op, a, b) \subseteq Value
      BY <1>3, <2>2, OnIntsType
    <3> QED BY <1>3, <2>2, <3>1 DEF BinaryOperation, OnIntegers, OnBools, Outcome
  <2> QED BY <2>1, <2>2
<1>4. CASE a.t = "Bool" /\ b.t = "Double"
  <2>1. BinaryOperation(op, a, b) = OnBoolDouble(op, a, b)
    BY <1>4 DEF BinaryOperation
  <2>2. OnDoubles(op, a, b) \subseteq Value
    BY OnDoublesType
  <2>3. OnBoolDouble(op, a, b) \subseteq Value \cup {Failure}
    BY <2>2, ValueTypes DEF OnBoolDouble
  <2> QED BY <2>1, <2>3 DEF Outcome
<1>5. CASE a.t = "Double" /\ b.t = "Bool"
  <2>1. BinaryOperation(op, a, b) = OnDoubleBool(op, a, b)
    BY <1>5 DEF BinaryOperation
  <2>2. OnDoubles(op, a, b) \subseteq Value
    BY OnDoublesType
  <2>3. OnDoubleBool(op, a, b) \subseteq Value \cup {Failure}
    BY <2>2, ValueTypes DEF OnDoubleBool
  <2> QED BY <2>1, <2>3 DEF Outcome
<1> QED BY <1>2, <1>3, <1>4, <1>5 DEF Numbers

LEMMA OthersType ==
  ASSUME NEW op \in Operators, NEW a \in Value, NEW b \in Value
  PROVE  /\ OnStrings(op, a, b) \subseteq Outcome
         /\ OnStringNumber(op, a) \subseteq Outcome
         /\ OnNull(op, a) \subseteq Outcome
         /\ OnOthers(op, a, b) \subseteq Outcome
<1>1. OnStrings(op, a, b) \subseteq Outcome
  BY ValueTypes DEF OnStrings, Outcome
<1>2. OnStringNumber(op, a) \subseteq Outcome
  BY ValueTypes DEF OnStringNumber, Outcome
<1>3. OnNull(op, a) \subseteq Outcome
  BY ValueTypes DEF OnNull, Outcome, Truth
<1>4. OnOthers(op, a, b) \subseteq Outcome
  BY ValueTypes DEF OnOthers, Outcome
<1> QED BY <1>1, <1>2, <1>3, <1>4

LEMMA BinaryType ==
  ASSUME NEW op \in Operators, NEW a \in Value, NEW b \in Value
  PROVE  BinaryOperation(op, a, b) \subseteq Outcome
<1>1. CASE a.t \in Numbers /\ b.t \in Numbers
  BY <1>1, NumbersType
<1>2. CASE ~(a.t \in Numbers /\ b.t \in Numbers)
  BY <1>2, OthersType DEF BinaryOperation, Numbers
<1> QED BY <1>1, <1>2

LEMMA UnaryType ==
  ASSUME NEW op, NEW a \in Value
  PROVE  UnaryOperation(op, a) \subseteq Outcome
<1>1. a.v \in Int
  BY ValueShape
<1>2. JoaoInt(-a.v) \in Value /\ JoaoInt(-a.v - 1) \in Value /\ JoaoInt(a.v) \in Value
  BY <1>1, JoaoIntType, ValueTypes
<1>3. Double \subseteq Value /\ Null \in Value /\ \A p : Truth(p) \in Value
  BY ValueTypes
<1> QED BY <1>2, <1>3 DEF UnaryOperation, Outcome

-------------------------------------------------------------------------------
(* Expressions are built level by level, and so is what they do. *)

\* Such a recursion has no set for its values to be in, and so is built up here.
LEMMA ExpressionLevels ==
  /\ Expression[0] = {}
  /\ \A n \in Nat : Expression[n + 1] = Node(Expression[n])
<1> DEFINE Up(n, g) == g = [i \in 0 .. n |-> IF i = 0 THEN {} ELSE Node(g[i - 1])]
           T == {n \in Nat : \E g : Up(n, g)}
<1>1. 0 \in T
  <2> DEFINE g == [i \in 0 .. 0 |-> {}]
  <2>1. Up(0, g)
    OBVIOUS
  <2> QED BY <2>1
<1>2. ASSUME NEW n \in Nat, n \in T PROVE n + 1 \in T
  <2>1. PICK g : Up(n, g)
    BY <1>2
  <2> DEFINE h == [i \in 0 .. n + 1 |-> IF i = 0 THEN {} ELSE Node(g[i - 1])]
  <2>2. ASSUME NEW i \in 0 .. n PROVE h[i] = g[i]
    <3>1. i \in 0 .. n + 1
      OBVIOUS
    <3>2. g[i] = IF i = 0 THEN {} ELSE Node(g[i - 1])
      BY <2>1
    <3> QED BY <3>1, <3>2
  <2>3. ASSUME NEW i \in 0 .. n + 1, i # 0 PROVE h[i - 1] = g[i - 1]
    <3> HIDE DEF h, Up, T
    <3>1. i - 1 \in 0 .. n
      BY <2>3
    <3> QED BY <2>2, <3>1
  <2>4. Up(n + 1, h)
    BY <2>3
  <2> HIDE DEF h, Up
  <2> QED BY <2>4
<1>3. \A n \in Nat : \E g : Up(n, g)
  <2> HIDE DEF Up
  <2> SUFFICES Nat \subseteq T
    OBVIOUS
  <2> HIDE DEF T
  <2> QED BY <1>1, <1>2, SetInduction
<1>4. ASSUME NEW n \in Nat, NEW g, Up(n, g), NEW m \in Nat, NEW h, Up(m, h), n <= m
      PROVE  \A i \in 0 .. n : g[i] = h[i]
  <2> DEFINE S == {i \in 0 .. n : g[i] = h[i]}
  <2>1. 0 \in S
    BY <1>4
  <2>2. ASSUME NEW i \in 1 .. n, i - 1 \in S PROVE i \in S
    <3>1. i \in 0 .. n /\ i \in 0 .. m /\ i # 0
      BY <1>4
    <3>2. g[i] = Node(g[i - 1])
      BY <1>4, <3>1
    <3>3. h[i] = Node(h[i - 1])
      BY <1>4, <3>1
    <3> QED BY <2>2, <3>1, <3>2, <3>3
  <2> HIDE DEF S
  <2>3. 0 .. n \subseteq S
    BY <2>1, <2>2, BoundedInduction
  <2> QED BY <2>3 DEF S
<1> DEFINE G(n) == CHOOSE g : Up(n, g)
           f == [n \in Nat |-> G(n)[n]]
           IsExpression(e) == e = [n \in Nat |-> IF n = 0 THEN {} ELSE Node(e[n - 1])]
<1>5. \A n \in Nat : Up(n, G(n))
  BY <1>3
<1>6. ASSUME NEW n \in Nat PROVE f[n] = IF n = 0 THEN {} ELSE Node(f[n - 1])
  <2> HIDE DEF G
  <2>1. G(n)[n] = IF n = 0 THEN {} ELSE Node(G(n)[n - 1])
    BY <1>5
  <2>2. CASE n = 0
    BY <2>1, <2>2
  <2>3. CASE n # 0
    <3>1. n - 1 \in Nat /\ n - 1 <= n /\ n - 1 \in 0 .. n - 1
      BY <2>3
    <3> HIDE DEF Up
    <3>2. G(n)[n - 1] = G(n - 1)[n - 1]
      BY <1>4, <1>5, <3>1
    <3>3. f[n - 1] = G(n - 1)[n - 1] /\ f[n] = G(n)[n]
      BY <3>1
    <3> QED BY <2>1, <2>3, <3>2, <3>3
  <2> QED BY <2>2, <2>3
<1>7. IsExpression(f)
  <2> HIDE DEF G
  <2>1. f = [n \in Nat |-> f[n]]
    OBVIOUS
  <2> HIDE DEF f
  <2> QED BY <1>6, <2>1
<1>8. IsExpression(Expression)
  <2>1. Expression = CHOOSE e : IsExpression(e)
    BY DEF Expression
  <2> HIDE DEF IsExpression
  <2> QED BY <1>7, <2>1
<1>9. ASSUME NEW n \in Nat PROVE Expression[n + 1] = Node(Expression[n])
  <2>1. n + 1 \in Nat /\ n + 1 # 0 /\ (n + 1) - 1 = n
    OBVIOUS
  <2> QED BY <1>8, <2>1
<1> QED BY <1>8, <1>9

EvaluatesLevels(of, env) ==
  \A n \in Nat : of[n + 1] = Nodes(Expression[n + 1], of[n], env)

LEMMA EvaluatedLevels ==
  ASSUME NEW env
  PROVE  \E of : EvaluatesLevels(of, env) /\ Evaluated(env) = of[Nesting]
<1> DEFINE Up(n, g) == g = [i \in 0 .. n |-> IF i = 0 THEN <<>> ELSE Nodes(Expression[i], g[i - 1], env)]
           T == {n \in Nat : \E g : Up(n, g)}
<1>1. 0 \in T
  <2> DEFINE g == [i \in 0 .. 0 |-> <<>>]
  <2>1. Up(0, g)
    OBVIOUS
  <2> QED BY <2>1
<1>2. ASSUME NEW n \in Nat, n \in T PROVE n + 1 \in T
  <2>1. PICK g : Up(n, g)
    BY <1>2
  <2> DEFINE h == [i \in 0 .. n + 1 |-> IF i = 0 THEN <<>> ELSE Nodes(Expression[i], g[i - 1], env)]
  <2>2. ASSUME NEW i \in 0 .. n PROVE h[i] = g[i]
    <3>1. i \in 0 .. n + 1
      OBVIOUS
    <3>2. g[i] = IF i = 0 THEN <<>> ELSE Nodes(Expression[i], g[i - 1], env)
      BY <2>1
    <3> QED BY <3>1, <3>2
  <2>3. ASSUME NEW i \in 0 .. n + 1, i # 0 PROVE h[i - 1] = g[i - 1]
    <3> HIDE DEF h, Up, T
    <3>1. i - 1 \in 0 .. n
      BY <2>3
    <3> QED BY <2>2, <3>1
  <2>4. Up(n + 1, h)
    BY <2>3
  <2> HIDE DEF h, Up
  <2> QED BY <2>4
<1>3. \A n \in Nat : \E g : Up(n, g)
  <2> HIDE DEF Up
  <2> SUFFICES Nat \subseteq T
    OBVIOUS
  <2> HIDE DEF T
  <2> QED BY <1>1, <1>2, SetInduction
<1>4. ASSUME NEW n \in Nat, NEW g, Up(n, g), NEW m \in Nat, NEW h, Up(m, h), n <= m
      PROVE  \A i \in 0 .. n : g[i] = h[i]
  <2> DEFINE S == {i \in 0 .. n : g[i] = h[i]}
  <2>1. 0 \in S
    BY <1>4
  <2>2. ASSUME NEW i \in 1 .. n, i - 1 \in S PROVE i \in S
    <3>1. i \in 0 .. n /\ i \in 0 .. m /\ i # 0
      BY <1>4
    <3>2. g[i] = Nodes(Expression[i], g[i - 1], env)
      BY <1>4, <3>1
    <3>3. h[i] = Nodes(Expression[i], h[i - 1], env)
      BY <1>4, <3>1
    <3> QED BY <2>2, <3>1, <3>2, <3>3
  <2> HIDE DEF S
  <2>3. 0 .. n \subseteq S
    BY <2>1, <2>2, BoundedInduction
  <2> QED BY <2>3 DEF S
<1> DEFINE G(n) == CHOOSE g : Up(n, g)
           f == [n \in Nat |-> G(n)[n]]
           Is(of) == of = [n \in Nat |-> IF n = 0 THEN <<>> ELSE Nodes(Expression[n], of[n - 1], env)]
<1>5. \A n \in Nat : Up(n, G(n))
  BY <1>3
<1>6. ASSUME NEW n \in Nat PROVE f[n] = IF n = 0 THEN <<>> ELSE Nodes(Expression[n], f[n - 1], env)
  <2> HIDE DEF G
  <2>1. G(n)[n] = IF n = 0 THEN <<>> ELSE Nodes(Expression[n], G(n)[n - 1], env)
    BY <1>5
  <2>2. CASE n = 0
    BY <2>1, <2>2
  <2>3. CASE n # 0
    <3>1. n - 1 \in Nat /\ n - 1 <= n /\ n - 1 \in 0 .. n - 1
      BY <2>3
    <3> HIDE DEF Up
    <3>2. G(n)[n - 1] = G(n - 1)[n - 1]
      BY <1>4, <1>5, <3>1
    <3>3. f[n - 1] = G(n - 1)[n - 1] /\ f[n] = G(n)[n]
      BY <3>1
    <3> QED BY <2>1, <2>3, <3>2, <3>3
  <2> QED BY <2>2, <2>3
<1>7. Is(f)
  <2> HIDE DEF G
  <2>1. f = [n \in Nat |-> f[n]]
    OBVIOUS
  <2> HIDE DEF f
  <2> QED BY <1>6, <2>1
<1> DEFINE of == CHOOSE g : Is(g)
<1>8. Is(of)
  <2> HIDE DEF Is
  <2> QED BY <1>7
<1>9. Evaluated(env) = of[Nesting]
  BY DEF Evaluated
<1> HIDE DEF of
<1>10. ASSUME NEW n \in Nat PROVE of[n + 1] = Nodes(Expression[n + 1], of[n], env)
  <2>1. n + 1 \in Nat /\ n + 1 # 0 /\ (n + 1) - 1 = n
    OBVIOUS
  <2> QED BY <1>8, <2>1
<1> QED BY <1>9, <1>10 DEF EvaluatesLevels

-------------------------------------------------------------------------------
(* What an expression leaves: a value and the error that was pending, or a *)
(* new error and null, or the end of the process; never another variable.  *)

Hows == {"resolve", "handle"}
Outcomes(env, err) == [v : Value, env : {env}, err : {err}] \cup {Broken(env), Result(Trap, env, TRUE)}
Sound(e, Of, env) == \A how \in Hows, t \in e, err \in BOOLEAN : Of[how][t][err] \subseteq Outcomes(env, err)
Variables(env) == DOMAIN env \subseteq Names /\ \A n \in DOMAIN env : env[n] \in Value

LEMMA SpecialsNoValues == Trap \notin Value /\ Failure \notin Value
BY DEF Trap, Failure, Value, Integer, Bool, Double, String, Typed

LEMMA OutcomeFacts ==
  ASSUME NEW env, NEW err \in BOOLEAN, NEW r \in Outcomes(env, err)
  PROVE  /\ r = Result(r.v, r.env, r.err)
         /\ r.env = env /\ r.err \in BOOLEAN /\ r.v \in Value \cup {Trap}
         /\ err => r.err
         /\ r.v = Trap => r.err
         /\ ~err /\ r.err => r.v \in {Null, Trap}
<1>1. CASE r \in [v : Value, env : {env}, err : {err}]
  <2>1. r.v \in Value /\ r.env = env /\ r.err = err /\ r = [v |-> r.v, env |-> r.env, err |-> r.err]
    BY <1>1
  <2> QED BY <2>1, SpecialsNoValues DEF Result
<1>2. CASE r = Broken(env)
  <2>1. r.v = Null /\ r.env = env /\ r.err = TRUE /\ r = [v |-> r.v, env |-> r.env, err |-> r.err]
    BY <1>2 DEF Broken, Result
  <2> QED BY <2>1, ValueTypes DEF Result
<1>3. CASE r = Result(Trap, env, TRUE)
  <2>1. r.v = Trap /\ r.env = env /\ r.err = TRUE /\ r = [v |-> r.v, env |-> r.env, err |-> r.err]
    BY <1>3 DEF Result
  <2> QED BY <2>1 DEF Result
<1> QED BY <1>1, <1>2, <1>3 DEF Outcomes

LEMMA OutcomeIntro ==
  ASSUME NEW env, NEW err \in BOOLEAN
  PROVE  /\ Broken(env) \in Outcomes(env, err) /\ Result(Trap, env, TRUE) \in Outcomes(env, err)
         /\ \A v \in Value : Result(v, env, err) \in Outcomes(env, err)
BY DEF Outcomes, Result

LEMMA ThrownOutcome ==
  ASSUME NEW env, NEW o \in Outcome
  PROVE  Thrown(o, env) \in Outcomes(env, FALSE)
<1>1. CASE o \in Value
  BY <1>1, SpecialsNoValues, OutcomeIntro DEF Thrown
<1>2. CASE o = Failure
  BY <1>2, OutcomeIntro DEF Thrown
<1>3. CASE o = Trap
  <2>1. Trap # Failure
    BY DEF Trap, Failure
  <2> QED BY <1>3, <2>1, OutcomeIntro DEF Thrown
<1> QED BY <1>1, <1>2, <1>3 DEF Outcome

LEMMA NodeShape ==
  ASSUME NEW e, NEW t \in Node(e)
  PROVE  \/ t[1] = "lit" /\ t[2] \subseteq Value \cup {Trap}
         \/ t[1] = "var" /\ t[2] \in Names
         \/ t[1] = "member" /\ t[2] \in e
         \/ t[1] = "index" /\ t[2] \in e /\ t[3] \in e
         \/ t[1] = "call" /\ t[2] \in e /\ t[3] \in Seq(e)
         \/ t[1] = "un" /\ t[3] \in e
         \/ t[1] = "bin" /\ t[2] \in Operators /\ t[3] \in e /\ t[4] \in e
BY DEF Node

LEMMA ArgumentsSound ==
  ASSUME NEW e, NEW Of, NEW env, Sound(e, Of, env), NEW list \in Seq(e), NEW err \in BOOLEAN
  PROVE  Arguments(Of, list, env, err) \subseteq Outcomes(env, err)
<1> DEFINE Each(i) == Of["resolve"][list[i]][err /\ i = 1]
           Reached(i) == \A j \in 1 .. i - 1 : \E r \in Each(j) : ~r.err
<1>1. ASSUME NEW i \in DOMAIN list PROVE Each(i) \subseteq Outcomes(env, err /\ i = 1)
  <2>1. list[i] \in e /\ "resolve" \in Hows /\ (err /\ i = 1) \in BOOLEAN
    BY DEF Hows
  <2> QED BY <2>1 DEF Sound
<1>2. ASSUME NEW i \in DOMAIN list, Reached(i), NEW r \in Each(i), r.err PROVE r \in Outcomes(env, err)
  <2>1. CASE i = 1
    <3>1. (err /\ i = 1) = err
      BY <2>1
    <3> QED BY <1>1, <1>2, <3>1
  <2>2. CASE i # 1
    <3> HIDE DEF Each, Reached
    <3>0. DOMAIN list = 1 .. Len(list) /\ Len(list) \in Nat
      OBVIOUS
    <3>1. 1 \in 1 .. i - 1 /\ 1 \in DOMAIN list /\ (err /\ 1 = 1) = err
      BY <2>2, <3>0
    <3> USE DEF Each, Reached
    <3>2. PICK first \in Each(1) : ~first.err
      BY <1>2, <3>1
    <3>3. ~err
      BY <1>1, <3>1, <3>2, OutcomeFacts
    <3>4. (err /\ i = 1) = err
      BY <3>3
    <3> QED BY <1>1, <1>2, <3>4
  <2> QED BY <2>1, <2>2
<1>3. ASSUME Reached(Len(list) + 1) PROVE Result(Null, env, err /\ list = <<>>) \in Outcomes(env, err)
  <2>1. CASE list = <<>>
    <3>1. (err /\ list = <<>>) = err
      BY <2>1
    <3> QED BY <3>1, OutcomeIntro, ValueTypes
  <2>2. CASE list # <<>>
    <3>1. 1 \in 1 .. (Len(list) + 1) - 1 /\ 1 \in DOMAIN list /\ (err /\ 1 = 1) = err
      BY <2>2, EmptySeq
    <3>2. PICK first \in Each(1) : ~first.err
      BY <1>3, <3>1
    <3>3. ~err
      BY <1>1, <3>1, <3>2, OutcomeFacts
    <3>4. (err /\ list = <<>>) = err
      BY <3>3
    <3> QED BY <3>4, OutcomeIntro, ValueTypes
  <2> QED BY <2>1, <2>2
<1> DEFINE Failing == UNION {{r \in Each(i) : r.err} : i \in {i \in DOMAIN list : Reached(i)}}
           last == Result(Null, env, err /\ list = <<>>)
           Passed == IF Reached(Len(list) + 1) THEN {last} ELSE {}
<1>4. Arguments(Of, list, env, err) = Failing \cup Passed
  BY DEF Arguments
<1> HIDE DEF Each, Reached
<1>5. Failing \subseteq Outcomes(env, err)
  BY <1>2
<1>6. Passed \subseteq Outcomes(env, err)
  BY <1>3
<1> HIDE DEF Failing, Passed
<1> QED BY <1>4, <1>5, <1>6

LEMMA NoArguments ==
  ASSUME NEW Of, NEW env, NEW err \in BOOLEAN, NEW a \in Arguments(Of, <<>>, env, err)
  PROVE  a = Result(Null, env, err)
<1>1. DOMAIN <<>> = {} /\ Len(<<>>) = 0 /\ (err /\ <<>> = <<>>) = err
  OBVIOUS
<1> QED BY <1>1 DEF Arguments

LEMMA CallSound ==
  ASSUME NEW e, NEW Of, NEW env, Sound(e, Of, env), NEW err \in BOOLEAN, NEW t, t[2] \in e, t[3] \in Seq(e)
  PROVE  EvaluateCall(Of, t, env, err) \subseteq Outcomes(env, err)
<1> DEFINE zero == [t |-> "Integer", v |-> 0]
           Done(a) == IF t[2] = <<"var", "quit">> \/ (a.err /\ t[3] # <<>>) THEN {Broken(env)}
                      ELSE {Result(zero, env, a.err)}
           Then(f) == IF f.v.t # "Function" THEN {Broken(env)}
                      ELSE Continue(Arguments(Of, t[3], env, f.err), Done)
<1>1. ASSUME NEW f \in Of["handle"][t[2]][err] PROVE f \in Outcomes(env, err)
  BY <1>1 DEF Sound, Hows
<1>2. ASSUME NEW f \in Of["handle"][t[2]][err], f.v # Trap, f.v.t = "Function",
             NEW a \in Arguments(Of, t[3], env, f.err)
      PROVE  a \in Outcomes(env, err) /\ Done(a) \subseteq Outcomes(env, err)
  <2>1. f.err \in BOOLEAN /\ (err => f.err) /\ (~err /\ f.err => f.v = Null)
    BY <1>1, <1>2, OutcomeFacts
  <2>2. f.err = err
    <3>1. Null.t # "Function"
      BY DEF Null
    <3>2. err = FALSE \/ err = TRUE
      OBVIOUS
    <3> QED BY <1>2, <2>1, <3>1, <3>2
  <2>3. a \in Outcomes(env, err)
    BY <1>2, <2>2, ArgumentsSound
  <2>4. Broken(env) \in Outcomes(env, err)
    BY OutcomeIntro
  <2>5. CASE ~(a.err /\ t[3] # <<>>)
    <3>1. CASE t[3] = <<>>
      <4>1. a = Result(Null, env, err)
        BY <1>2, <2>2, <3>1, NoArguments
      <4>2. a.err = err
        BY <4>1 DEF Result
      <4>3. Result(zero, env, a.err) \in Outcomes(env, err)
        BY <4>2, OutcomeIntro, ValueTypes
      <4> QED BY <2>3, <2>4, <4>3
    <3>2. CASE t[3] # <<>>
      <4>1. ~a.err /\ a.err \in BOOLEAN
        BY <2>3, <2>5, <3>2, OutcomeFacts
      <4>2. a.err = err
        BY <2>3, <4>1, OutcomeFacts
      <4>3. Result(zero, env, a.err) \in Outcomes(env, err)
        BY <4>2, OutcomeIntro, ValueTypes
      <4> QED BY <2>3, <2>4, <4>3
    <3> QED BY <2>3, <3>1, <3>2
  <2>6. CASE a.err /\ t[3] # <<>>
    BY <2>3, <2>4, <2>6
  <2> QED BY <2>3, <2>5, <2>6
<1>3. ASSUME NEW f \in Of["handle"][t[2]][err], f.v # Trap PROVE Then(f) \subseteq Outcomes(env, err)
  <2>1. CASE f.v.t # "Function"
    BY <2>1, OutcomeIntro
  <2>2. CASE f.v.t = "Function"
    <3> HIDE DEF Done
    <3>1. Then(f) = Continue(Arguments(Of, t[3], env, f.err), Done)
      BY <2>2
    <3> HIDE DEF Then
    <3>2. \A a \in Arguments(Of, t[3], env, f.err) : a \in Outcomes(env, err) /\ Done(a) \subseteq Outcomes(env, err)
      BY <1>2, <1>3, <2>2
    <3> QED BY <3>1, <3>2 DEF Continue
  <2> QED BY <2>1, <2>2
<1>4. EvaluateCall(Of, t, env, err) = Continue(Of["handle"][t[2]][err], Then)
  BY DEF EvaluateCall
<1> HIDE DEF Then
<1> QED BY <1>1, <1>3, <1>4 DEF Continue

LEMMA IndexSound ==
  ASSUME NEW e, NEW Of, NEW env, Sound(e, Of, env), NEW err \in BOOLEAN, NEW t, t[2] \in e, t[3] \in e
  PROVE  EvaluateIndex(Of, t, env, err) \subseteq Outcomes(env, err)
<1> DEFINE one == [t |-> "String", v |-> 1]
           Done(c, i) == IF i.err \/ c.v.t # "String" \/ i.v.t # "Integer" THEN {Broken(env)}
                         ELSE IF i.v.v \in 0 .. c.v.v - 1 THEN {Result(one, env, FALSE)}
                         ELSE {Result(Trap, env, TRUE)}
           Then(c) == Continue(Of["resolve"][t[3]][c.err], LAMBDA i : Done(c, i))
<1>1. ASSUME NEW c \in Of["handle"][t[2]][err] PROVE c \in Outcomes(env, err)
  BY <1>1 DEF Sound, Hows
<1>2. ASSUME NEW c \in Of["handle"][t[2]][err], NEW i \in Of["resolve"][t[3]][c.err]
      PROVE  (i.v = Trap => i \in Outcomes(env, err)) /\ Done(c, i) \subseteq Outcomes(env, err)
  <2>1. c.err \in BOOLEAN /\ (err => c.err)
    BY <1>1, <1>2, OutcomeFacts
  <2>2. i \in Outcomes(env, c.err)
    BY <1>2, <2>1 DEF Sound, Hows
  <2>3. /\ i = Result(i.v, i.env, i.err) /\ i.env = env /\ i.err \in BOOLEAN
        /\ (c.err => i.err) /\ (i.v = Trap => i.err)
    BY <2>1, <2>2, OutcomeFacts
  <2>4. i.v = Trap => i = Result(Trap, env, TRUE)
    BY <2>3
  <2>5. ~i.err => err = FALSE
    BY <2>1, <2>3
  <2>6. one \in Value
    BY ValueTypes
  <2>7. ~i.err => Result(one, env, FALSE) \in Outcomes(env, err)
    BY <2>5, <2>6, OutcomeIntro
  <2> QED BY <2>4, <2>7, OutcomeIntro
<1>3. ASSUME NEW c \in Of["handle"][t[2]][err] PROVE Then(c) \subseteq Outcomes(env, err)
  <2> HIDE DEF Done
  <2> QED BY <1>2, <1>3 DEF Continue
<1>4. EvaluateIndex(Of, t, env, err) = Continue(Of["handle"][t[2]][err], Then)
  BY DEF EvaluateIndex
<1> HIDE DEF Then
<1> QED BY <1>1, <1>3, <1>4 DEF Continue

LEMMA UnarySound ==
  ASSUME NEW e, NEW Of, NEW env, Sound(e, Of, env), NEW err \in BOOLEAN, NEW t, t[3] \in e
  PROVE  EvaluateUnary(Of, t, env, err) \subseteq Outcomes(env, err)
<1> DEFINE Then(r) == IF r.err THEN {Broken(env)} ELSE {Thrown(o, env) : o \in UnaryOperation(t[2], r.v)}
<1>1. ASSUME NEW r \in Of["resolve"][t[3]][err]
      PROVE  r \in Outcomes(env, err) /\ (r.v # Trap => Then(r) \subseteq Outcomes(env, err))
  <2>1. r \in Outcomes(env, err)
    BY <1>1 DEF Sound, Hows
  <2>2. CASE r.err
    BY <2>1, <2>2, OutcomeIntro
  <2>3. CASE ~r.err /\ r.v # Trap
    <3>1. err = FALSE /\ r.v \in Value
      BY <2>1, <2>3, OutcomeFacts
    <3>2. UnaryOperation(t[2], r.v) \subseteq Outcome
      BY <3>1, UnaryType
    <3> QED BY <2>1, <2>3, <3>1, <3>2, ThrownOutcome
  <2> QED BY <2>1, <2>2, <2>3
<1>2. EvaluateUnary(Of, t, env, err) = Continue(Of["resolve"][t[3]][err], Then)
  BY DEF EvaluateUnary
<1> HIDE DEF Then
<1> QED BY <1>1, <1>2 DEF Continue

LEMMA BinarySound ==
  ASSUME NEW e, NEW Of, NEW env, Sound(e, Of, env), NEW err \in BOOLEAN,
         NEW t, t[2] \in Operators, t[3] \in e, t[4] \in e
  PROVE  EvaluateBinary(Of, t, env, err) \subseteq Outcomes(env, err)
<1> DEFINE Done(l, r) == IF r.err THEN {Broken(env)} ELSE {Thrown(o, env) : o \in BinaryOperation(t[2], l.v, r.v)}
           Then(l) == IF l.err THEN {Broken(env)}
                      ELSE Continue(Of["resolve"][t[4]][FALSE], LAMBDA r : Done(l, r))
<1>1. ASSUME NEW l \in Of["resolve"][t[3]][err]
      PROVE  l \in Outcomes(env, err) /\ (l.v # Trap => Then(l) \subseteq Outcomes(env, err))
  <2>1. l \in Outcomes(env, err)
    BY <1>1 DEF Sound, Hows
  <2>2. CASE l.err
    BY <2>1, <2>2, OutcomeIntro
  <2>3. CASE ~l.err /\ l.v # Trap
    <3>1. err = FALSE /\ l.v \in Value
      BY <2>1, <2>3, OutcomeFacts
    <3>2. ASSUME NEW r \in Of["resolve"][t[4]][FALSE]
          PROVE  r \in Outcomes(env, FALSE) /\ (r.v # Trap => Done(l, r) \subseteq Outcomes(env, FALSE))
      <4>1. r \in Outcomes(env, FALSE)
        BY <3>2 DEF Sound, Hows
      <4>2. CASE r.err
        BY <4>1, <4>2, OutcomeIntro
      <4>3. CASE ~r.err /\ r.v # Trap
        <5>1. r.v \in Value
          BY <4>1, <4>3, OutcomeFacts
        <5>2. BinaryOperation(t[2], l.v, r.v) \subseteq Outcome
          BY <3>1, <5>1, BinaryType
        <5> QED BY <4>1, <4>3, <5>2, ThrownOutcome
      <4> QED BY <4>1, <4>2, <4>3
    <3>3. Then(l) = Continue(Of["resolve"][t[4]][FALSE], LAMBDA r : Done(l, r))
      BY <2>3
    <3> HIDE DEF Then, Done
    <3>4. Continue(Of["resolve"][t[4]][FALSE], LAMBDA r : Done(l, r)) \subseteq Outcomes(env, FALSE)
      BY <3>2 DEF Continue
    <3> QED BY <2>1, <3>1, <3>3, <3>4
  <2> QED BY <2>1, <2>2, <2>3
<1>2. EvaluateBinary(Of, t, env, err) = Continue(Of["resolve"][t[3]][err], Then)
  BY DEF EvaluateBinary
<1> HIDE DEF Then
<1> QED BY <1>1, <1>2 DEF Continue

LEMMA ResolveNodeSound ==
  ASSUME NEW e, NEW Of, NEW env, Sound(e, Of, env), Variables(env), NEW err \in BOOLEAN, NEW t \in Node(e)
  PROVE  ResolveNode(Of, t, env, err) \subseteq Outcomes(env, err)
<1>1. CASE t[1] = "lit" /\ t[2] \subseteq Value \cup {Trap}
  <2>1. ASSUME NEW v \in t[2] PROVE Result(v, env, err \/ v = Trap) \in Outcomes(env, err)
    <3>1. CASE v = Trap
      <4>1. (err \/ v = Trap) = TRUE
        BY <3>1
      <4> QED BY <3>1, <4>1, OutcomeIntro
    <3>2. CASE v \in Value
      <4>1. (err \/ v = Trap) = err
        BY <3>2, SpecialsNoValues
      <4> QED BY <3>2, <4>1, OutcomeIntro
    <3> QED BY <1>1, <2>1, <3>1, <3>2
  <2>2. ResolveNode(Of, t, env, err) = {Result(v, env, err \/ v = Trap) : v \in t[2]}
    BY <1>1 DEF ResolveNode
  <2> QED BY <2>1, <2>2
<1>2. CASE t[1] = "var"
  <2>1. ResolveNode(Of, t, env, err) = {IF t[2] \in DOMAIN env THEN Result(env[t[2]], env, err) ELSE Broken(env)}
    BY <1>2 DEF ResolveNode
  <2> QED BY <2>1, OutcomeIntro DEF Variables
<1>3. CASE t[1] = "member" /\ t[2] \in e
  <2>1. ResolveNode(Of, t, env, err) = Continue(Of["handle"][t[2]][err], LAMBDA front : {Broken(env)})
    BY <1>3 DEF ResolveNode
  <2>2. Of["handle"][t[2]][err] \subseteq Outcomes(env, err)
    BY <1>3 DEF Sound, Hows
  <2> QED BY <2>1, <2>2, OutcomeIntro DEF Continue
<1>4. CASE t[1] = "index" /\ t[2] \in e /\ t[3] \in e
  BY <1>4, IndexSound DEF ResolveNode
<1>5. CASE t[1] = "call" /\ t[2] \in e /\ t[3] \in Seq(e)
  BY <1>5, CallSound DEF ResolveNode
<1>6. CASE t[1] = "un" /\ t[3] \in e
  BY <1>6, UnarySound DEF ResolveNode
<1>7. CASE t[1] = "bin" /\ t[2] \in Operators /\ t[3] \in e /\ t[4] \in e
  BY <1>7, BinarySound DEF ResolveNode
<1> QED BY <1>1, <1>2, <1>3, <1>4, <1>5, <1>6, <1>7, NodeShape

LEMMA HandleNodeSound ==
  ASSUME NEW e, NEW Of, NEW env, Sound(e, Of, env), Variables(env), NEW err \in BOOLEAN, NEW t \in Node(e)
  PROVE  HandleNode(Of, t, env, err) \subseteq Outcomes(env, err)
<1>1. CASE t[1] = "var" /\ t[2] \in Functions
  <2>1. HandleNode(Of, t, env, err) = {Result(FunctionValue, env, err)}
    BY <1>1 DEF HandleNode
  <2> QED BY <2>1, OutcomeIntro, ValueTypes
<1>2. CASE t[1] = "index"
  <2>1. t[2] \in e /\ t[3] \in e
    BY <1>2, NodeShape
  <2> DEFINE Then(c) == Continue(Of["resolve"][t[3]][c.err], LAMBDA i : {Broken(env)})
  <2>2. ASSUME NEW c \in Of["handle"][t[2]][err]
        PROVE  c \in Outcomes(env, err) /\ Then(c) \subseteq Outcomes(env, err)
    <3>1. c \in Outcomes(env, err)
      BY <2>1, <2>2 DEF Sound, Hows
    <3>2. c.err \in BOOLEAN /\ (err => c.err)
      BY <3>1, OutcomeFacts
    <3>3. ASSUME NEW i \in Of["resolve"][t[3]][c.err], i.v = Trap PROVE i \in Outcomes(env, err)
      <4>1. i \in Outcomes(env, c.err)
        BY <2>1, <3>2, <3>3 DEF Sound, Hows
      <4>2. i = Result(i.v, i.env, i.err) /\ i.env = env /\ i.err \in BOOLEAN /\ (i.v = Trap => i.err)
        BY <3>2, <4>1, OutcomeFacts
      <4>3. i = Result(Trap, env, TRUE)
        BY <3>3, <4>2
      <4> QED BY <4>3, OutcomeIntro
    <3> QED BY <3>1, <3>3, OutcomeIntro DEF Continue
  <2>3. HandleNode(Of, t, env, err) = Continue(Of["handle"][t[2]][err], Then)
    BY <1>2 DEF HandleNode
  <2> HIDE DEF Then
  <2> QED BY <2>2, <2>3 DEF Continue
<1>3. CASE t[1] \in {"lit", "un", "bin"}
  <2>1. HandleNode(Of, t, env, err) = {Result(Null, env, err)}
    BY <1>3 DEF HandleNode
  <2> QED BY <2>1, OutcomeIntro, ValueTypes
<1>4. CASE ~(t[1] = "var" /\ t[2] \in Functions) /\ t[1] \notin {"index", "lit", "un", "bin"}
  BY <1>4, ResolveNodeSound DEF HandleNode
<1> QED BY <1>1, <1>2, <1>3, <1>4

LEMMA NodesAt ==
  ASSUME NEW e, NEW Of, NEW env, NEW how \in Hows, NEW t \in e, NEW err \in BOOLEAN
  PROVE  Nodes(e, Of, env)[how][t][err] = IF how = "handle" THEN HandleNode(Of, t, env, err)
                                          ELSE ResolveNode(Of, t, env, err)
BY DEF Nodes, Hows

\* Every expression of every depth has only such outcomes.
LEMMA ExpressionsSound ==
  ASSUME NEW env, Variables(env)
  PROVE  Sound(Expression[Nesting], Evaluated(env), env)
<1>1. PICK of : EvaluatesLevels(of, env) /\ Evaluated(env) = of[Nesting]
  BY EvaluatedLevels
<1> DEFINE T == {n \in Nat : Sound(Expression[n], of[n], env)}
<1>2. 0 \in T
  BY ExpressionLevels DEF Sound
<1>3. ASSUME NEW n \in Nat, n \in T PROVE n + 1 \in T
  <2>1. of[n + 1] = Nodes(Node(Expression[n]), of[n], env)
    BY <1>1, ExpressionLevels DEF EvaluatesLevels
  <2>2. Sound(Expression[n], of[n], env)
    BY <1>3
  <2>3. ASSUME NEW how \in Hows, NEW t \in Node(Expression[n]), NEW err \in BOOLEAN
        PROVE  of[n + 1][how][t][err] \subseteq Outcomes(env, err)
    <3>1. of[n + 1][how][t][err] = IF how = "handle" THEN HandleNode(of[n], t, env, err)
                                   ELSE ResolveNode(of[n], t, env, err)
      BY <2>1, NodesAt
    <3> QED BY <2>2, <3>1, ResolveNodeSound, HandleNodeSound
  <2>4. Sound(Node(Expression[n]), of[n + 1], env)
    BY <2>3 DEF Sound
  <2>5. Expression[n + 1] = Node(Expression[n])
    BY ExpressionLevels
  <2> QED BY <2>4, <2>5
<1> HIDE DEF T
<1>4. Nat \subseteq T
  BY <1>2, <1>3, SetInduction
<1> QED BY <1>1, <1>4, NestingAssumption DEF T

LEMMA ResolveSound ==
  ASSUME NEW env, Variables(env), NEW t \in Expression[Nesting], NEW err \in BOOLEAN
  PROVE  Resolve(t, env, err) \subseteq Outcomes(env, err) /\ Handle(t, env, err) \subseteq Outcomes(env, err)
BY ExpressionsSound DEF Sound, Resolve, Handle, Hows

\* What is assigned to without an error is a name.
LEMMA TargetsAreNames ==
  ASSUME NEW env, Variables(env), NEW t \in Target, NEW err \in BOOLEAN, NEW r \in Handle(t, env, err), ~r.err
  PROVE  t[1] = "var" /\ t[2] \in Names
<1>1. t \in Expression[Nesting] /\ t[1] \in {"var", "member", "index"}
  BY DEF Target
<1>2. Nesting - 1 \in Nat /\ Expression[Nesting] = Node(Expression[Nesting - 1])
  <2>1. Nesting # 0 /\ Nesting \in Nat
    BY <1>1, ExpressionLevels, NestingAssumption
  <2>2. Nesting - 1 \in Nat /\ (Nesting - 1) + 1 = Nesting
    BY <2>1
  <2>3. Expression[(Nesting - 1) + 1] = Node(Expression[Nesting - 1])
    BY <2>2, ExpressionLevels
  <2> QED BY <2>2, <2>3
<1>3. PICK of : EvaluatesLevels(of, env) /\ Evaluated(env) = of[Nesting]
  BY EvaluatedLevels
<1>4. Handle(t, env, err) = HandleNode(of[Nesting - 1], t, env, err)
  <2>1. (Nesting - 1) + 1 = Nesting
    BY <1>2, NestingAssumption
  <2>2. of[Nesting] = Nodes(Expression[Nesting], of[Nesting - 1], env)
    BY <1>2, <1>3, <2>1 DEF EvaluatesLevels
  <2> QED BY <1>1, <1>3, <2>2, NodesAt DEF Handle, Hows
<1>5. CASE t[1] = "member"
  <2>1. Handle(t, env, err) = Continue(of[Nesting - 1]["handle"][t[2]][err], LAMBDA front : {Broken(env)})
    BY <1>4, <1>5 DEF HandleNode, ResolveNode
  <2>2. r.v # Trap => r = Broken(env)
    BY <2>1 DEF Continue
  <2>3. r.v # Trap
    BY <1>1, ResolveSound, OutcomeFacts
  <2> QED BY <2>2, <2>3 DEF Broken, Result
<1>6. CASE t[1] = "index"
  <2> DEFINE Then(c) == Continue(of[Nesting - 1]["resolve"][t[3]][c.err], LAMBDA i : {Broken(env)})
  <2>1. Handle(t, env, err) = Continue(of[Nesting - 1]["handle"][t[2]][err], Then)
    BY <1>4, <1>6 DEF HandleNode
  <2>2. ASSUME NEW c, NEW i \in Then(c) PROVE i.v = Trap \/ i = Broken(env)
    BY <2>2 DEF Continue
  <2>3. r.v # Trap
    BY <1>1, ResolveSound, OutcomeFacts
  <2> HIDE DEF Then
  <2>4. r = Broken(env)
    BY <2>1, <2>2, <2>3 DEF Continue
  <2> QED BY <2>4 DEF Broken, Result
<1>7. CASE t[1] = "var"
  BY <1>1, <1>2, <1>7, NodeShape
<1> QED BY <1>1, <1>5, <1>6, <1>7

-------------------------------------------------------------------------------
(* What a line leaves *)

\* What a line that fails may have done to the variables.
Kept(t, env, left) ==
  \A n \in DOMAIN left :
    \/ n \in DOMAIN env /\ left[n] = env[n]
    \/ left[n] = Null /\ t[1] = "local" /\ t[4] = n
    \/ left[n] = Null /\ t[1] = "assign" /\ t[2] # "=" /\ t[3] = <<"var", n>>

Answered(t, env, err, r) ==
  /\ Variables(r.env) /\ r.v \in Value \cup {Trap} /\ r.err \in BOOLEAN
  /\ r.v = Trap => r.err
  /\ ~err /\ r.err => Kept(t, env, r.env)

LEMMA OutcomeAnswered ==
  ASSUME NEW env, Variables(env), NEW err \in BOOLEAN, NEW t, NEW r \in Outcomes(env, err)
  PROVE  Answered(t, env, err, r)
BY OutcomeFacts DEF Answered, Kept

LEMMA StoredFacts ==
  ASSUME NEW r, Variables(r.env), r.v \in Value, r = Result(r.v, r.env, r.err), NEW name \in Names
  PROVE  /\ Stored(r, name).v = r.v /\ Stored(r, name).err = r.err
         /\ Variables(Stored(r, name).env)
         /\ \A n \in DOMAIN Stored(r, name).env :
              \/ Stored(r, name).env[n] = r.v /\ n = name
              \/ n \in DOMAIN r.env /\ Stored(r, name).env[n] = r.env[n]
<1> DEFINE kept == [n \in DOMAIN r.env \cup {name} |-> IF n = name THEN r.v ELSE r.env[n]]
<1>1. Stored(r, name) = [v |-> r.v, env |-> kept, err |-> r.err]
  BY DEF Stored, Result
<1>2. Variables(kept)
  BY DEF Variables
<1> QED BY <1>1, <1>2

LEMMA TopNode ==
  ASSUME NEW t \in Expression[Nesting]
  PROVE  Nesting - 1 \in Nat /\ t \in Node(Expression[Nesting - 1])
<1>1. Nesting # 0 /\ Nesting \in Nat
  BY ExpressionLevels, NestingAssumption
<1>2. Nesting - 1 \in Nat /\ (Nesting - 1) + 1 = Nesting
  BY <1>1
<1>3. Expression[(Nesting - 1) + 1] = Node(Expression[Nesting - 1])
  BY <1>2, ExpressionLevels
<1> QED BY <1>2, <1>3

LEMMA ExpressionTags ==
  ASSUME NEW t \in Expression[Nesting]
  PROVE  t[1] \notin {"assign", "local"}
BY TopNode, NodeShape

LEMMA NamesArePairs ==
  ASSUME NEW t \in Expression[Nesting], t[1] = "var"
  PROVE  t = <<"var", t[2]>>
<1>1. t \in Node(Expression[Nesting - 1])
  BY TopNode
<1> QED BY <1>1 DEF Node

LEMMA CompoundOperators == \A op \in Assignments \ {"="} : Compound(op) \in Operators
BY DEF Assignments, Compound, Operators, Arithmetic, Divisions

LEMMA AssignmentAnswered ==
  ASSUME NEW env, Variables(env), NEW err \in BOOLEAN,
         NEW t \in {"assign"} \X Assignments \X Target \X Expression[Nesting],
         NEW r \in EvaluateAssignment(t, env, err)
  PROVE  Answered(t, env, err, r)
<1>0. t[1] = "assign" /\ t[2] \in Assignments /\ t[3] \in Target /\ t[4] \in Expression[Nesting]
  OBVIOUS
<1>t. t[3] \in Expression[Nesting]
  BY <1>0 DEF Target
<1> DEFINE outcomes(x, target) == {Thrown(o, env) : o \in BinaryOperation(Compound(t[2]), target.v, x.v)}
           Put(done) == {Stored(done, t[3][2])}
           Done(x, target) == IF target.err THEN {Broken(env)}
                              ELSE IF target.v.t = "Function" THEN {Result(Null, env, FALSE)}
                              ELSE IF t[2] = "=" THEN {Stored(x, t[3][2])}
                              ELSE Continue(outcomes(x, target), Put)
           Then(x) == Continue(Handle(t[3], env, x.err), LAMBDA target : Done(x, target))
<1>1. EvaluateAssignment(t, env, err) = Continue(Resolve(t[4], env, err), Then)
  BY DEF EvaluateAssignment
<1>2. ASSUME NEW x \in Resolve(t[4], env, err) PROVE x \in Outcomes(env, err)
  BY <1>0, <1>2, ResolveSound
<1>3. ASSUME NEW x \in Resolve(t[4], env, err), NEW target \in Handle(t[3], env, x.err)
      PROVE  target \in Outcomes(env, x.err)
  BY <1>t, <1>2, <1>3, ResolveSound, OutcomeFacts
<1>4. Broken(env) \in Outcomes(env, err)
  BY OutcomeIntro
<1>5. ASSUME NEW x \in Resolve(t[4], env, err), x.v # Trap,
             NEW target \in Handle(t[3], env, x.err), target.v # Trap, ~target.err,
             NEW y \in Done(x, target)
      PROVE  Answered(t, env, err, y)
  <2>0. x \in Outcomes(env, err)
    BY <1>2, <1>5
  <2>1. x.err \in BOOLEAN /\ x = Result(x.v, x.env, x.err) /\ x.env = env /\ x.v \in Value /\ (err => x.err)
    <3> HIDE DEF Done, Then
    <3> QED BY <1>5, <2>0, OutcomeFacts
  <2>2. x.err = FALSE /\ target.v \in Value
    BY <1>3, <1>5, <2>1, OutcomeFacts
  <2>3. t[3][1] = "var" /\ t[3][2] \in Names
    BY <1>0, <1>5, <2>1, TargetsAreNames
  <2>4. err = FALSE
    BY <2>1, <2>2
  <2>5. CASE target.v.t = "Function"
    <3>1. y = Result(Null, env, FALSE)
      BY <1>5, <2>5
    <3> QED BY <3>1, <2>4, OutcomeIntro, OutcomeAnswered, ValueTypes
  <2>6. CASE target.v.t # "Function" /\ t[2] = "="
    <3>1. y = Stored(x, t[3][2])
      BY <1>5, <2>6
    <3>2. y.v = x.v /\ y.err = x.err /\ Variables(y.env)
      BY <2>1, <2>3, <3>1, StoredFacts
    <3> QED BY <2>1, <2>2, <3>2, SpecialsNoValues DEF Answered
  <2>7. CASE target.v.t # "Function" /\ t[2] # "="
    <3>1. y \in Continue(outcomes(x, target), Put)
      BY <1>5, <2>7
    <3>2. BinaryOperation(Compound(t[2]), target.v, x.v) \subseteq Outcome
      BY <1>0, <2>1, <2>2, <2>7, CompoundOperators, BinaryType
    <3>3. ASSUME NEW done \in outcomes(x, target) PROVE done \in Outcomes(env, FALSE)
      BY <3>2, <3>3, ThrownOutcome
    <3>4. CASE y.v = Trap /\ y \in outcomes(x, target)
      BY <2>4, <3>3, <3>4, OutcomeAnswered
    <3>5. CASE \E done \in outcomes(x, target) : done.v # Trap /\ y = Stored(done, t[3][2])
      <4>1. PICK done \in outcomes(x, target) : done.v # Trap /\ y = Stored(done, t[3][2])
        BY <3>5
      <4>2. /\ done = Result(done.v, done.env, done.err) /\ done.env = env
            /\ done.err \in BOOLEAN /\ done.v \in Value /\ (done.err => done.v = Null)
        BY <3>3, <4>1, OutcomeFacts
      <4>3. /\ y.v = done.v /\ y.err = done.err /\ Variables(y.env)
            /\ \A n \in DOMAIN y.env : \/ y.env[n] = done.v /\ n = t[3][2]
                                       \/ n \in DOMAIN env /\ y.env[n] = env[n]
        BY <2>3, <4>1, <4>2, StoredFacts
      <4>4. y.err => Kept(t, env, y.env)
        <5>1. t[3] = <<"var", t[3][2]>>
          BY <1>t, <2>3, NamesArePairs
        <5> QED BY <1>0, <2>7, <4>2, <4>3, <5>1 DEF Kept
      <4> QED BY <4>2, <4>3, <4>4, SpecialsNoValues DEF Answered
    <3> HIDE DEF outcomes
    <3> QED BY <3>1, <3>4, <3>5 DEF Continue
  <2> QED BY <2>5, <2>6, <2>7
<1>6. ASSUME NEW x \in Resolve(t[4], env, err), x.v # Trap, NEW y \in Then(x)
      PROVE  Answered(t, env, err, y)
  <2>1. x \in Outcomes(env, err)
    BY <1>2, <1>6
  <2>2. PICK target \in Handle(t[3], env, x.err) :
          (target.v = Trap /\ y = target) \/ (target.v # Trap /\ y \in Done(x, target))
    <3> HIDE DEF Done
    <3> QED BY <1>6 DEF Continue
  <2>3. CASE target.v = Trap /\ y = target
    <3>1. y = Result(Trap, env, TRUE)
      <4>1. x.err \in BOOLEAN
        BY <2>1, OutcomeFacts
      <4>2. target \in Outcomes(env, x.err)
        BY <1>3, <1>6, <2>2
      <4> HIDE DEF Done, Then
      <4>3. target = Result(target.v, target.env, target.err) /\ target.env = env /\ target.err = TRUE
        BY <2>3, <4>1, <4>2, OutcomeFacts
      <4> QED BY <2>3, <4>3
    <3> QED BY <3>1, OutcomeIntro, OutcomeAnswered
  <2>4. CASE target.v # Trap /\ target.err /\ y \in Done(x, target)
    BY <1>4, <2>4, OutcomeAnswered
  <2>5. CASE target.v # Trap /\ ~target.err /\ y \in Done(x, target)
    <3> HIDE DEF Done
    <3> QED BY <1>5, <1>6, <2>2, <2>5
  <2> QED BY <2>2, <2>3, <2>4, <2>5
<1> HIDE DEF Then
<1>7. PICK x \in Resolve(t[4], env, err) : (x.v = Trap /\ r = x) \/ (x.v # Trap /\ r \in Then(x))
  BY <1>1 DEF Continue
<1> QED BY <1>2, <1>6, <1>7, OutcomeAnswered

LEMMA LocalAnswered ==
  ASSUME NEW env, Variables(env), NEW err \in BOOLEAN,
         NEW t \in {"local"} \X LocalTypes \X Assignments \X Names \X Expression[Nesting],
         NEW r \in EvaluateLocal(t, env, err)
  PROVE  Answered(t, env, err, r)
<1>0. t[1] = "local" /\ t[4] \in Names /\ t[5] \in Expression[Nesting]
  OBVIOUS
<1> DEFINE Then(x) == IF t[3] # "=" THEN {x}
                      ELSE IF TypeChecks(t[2], x.v) THEN {Stored(x, t[4])} ELSE {[x EXCEPT !.err = TRUE]}
<1>1. EvaluateLocal(t, env, err) = Continue(Resolve(t[5], env, err), Then)
  BY DEF EvaluateLocal
<1>2. ASSUME NEW x \in Resolve(t[5], env, err) PROVE x \in Outcomes(env, err)
  BY <1>0, <1>2, ResolveSound
<1>3. ASSUME NEW x \in Resolve(t[5], env, err), x.v # Trap, NEW y \in Then(x)
      PROVE  Answered(t, env, err, y)
  <2>1. /\ x.err \in BOOLEAN /\ x = Result(x.v, x.env, x.err) /\ x.env = env /\ x.v \in Value
        /\ (err => x.err) /\ (~err /\ x.err => x.v = Null)
    BY <1>2, <1>3, OutcomeFacts
  <2>2. CASE t[3] # "="
    BY <1>2, <1>3, <2>2, OutcomeAnswered
  <2>3. CASE t[3] = "=" /\ TypeChecks(t[2], x.v)
    <3>1. y = Stored(x, t[4])
      BY <1>3, <2>3
    <3>2. /\ y.v = x.v /\ y.err = x.err /\ Variables(y.env)
          /\ \A n \in DOMAIN y.env : (y.env[n] = x.v /\ n = t[4]) \/ (n \in DOMAIN env /\ y.env[n] = env[n])
      BY <1>0, <2>1, <3>1, StoredFacts
    <3>3. ~err /\ y.err => Kept(t, env, y.env)
      BY <1>0, <2>1, <3>2 DEF Kept
    <3> QED BY <2>1, <3>2, <3>3, SpecialsNoValues DEF Answered
  <2>4. CASE t[3] = "=" /\ ~TypeChecks(t[2], x.v)
    <3>1. y = [x EXCEPT !.err = TRUE]
      BY <1>3, <2>4
    <3>2. y = [v |-> x.v, env |-> env, err |-> TRUE]
      BY <2>1, <3>1 DEF Result
    <3>3. y.v = x.v /\ y.env = env /\ y.err = TRUE
      BY <3>2
    <3> QED BY <2>1, <3>3, SpecialsNoValues DEF Answered, Kept
  <2> QED BY <2>2, <2>3, <2>4
<1> HIDE DEF Then
<1>4. PICK x \in Resolve(t[5], env, err) : (x.v = Trap /\ r = x) \/ (x.v # Trap /\ r \in Then(x))
  BY <1>1 DEF Continue
<1> QED BY <1>2, <1>3, <1>4, OutcomeAnswered

\* Whatever a line is, it leaves a value and variables, or the error is raised; if it is raised by this
\* line, the variables are kept.
LEMMA LineAnswered ==
  ASSUME NEW env, Variables(env), NEW err \in BOOLEAN, NEW t \in Tree, NEW r \in Evaluate(t, env, err)
  PROVE  Answered(t, env, err, r)
<1>1. CASE t \in Expression[Nesting]
  <2>1. t[1] \notin {"assign", "local"}
    BY <1>1, ExpressionTags
  <2>2. Evaluate(t, env, err) = Resolve(t, env, err)
    BY <2>1 DEF Evaluate
  <2> QED BY <1>1, <2>2, ResolveSound, OutcomeAnswered
<1>2. CASE t \in {"assign"} \X Assignments \X Target \X Expression[Nesting]
  <2>1. t[1] = "assign"
    BY <1>2
  <2> QED BY <1>2, <2>1, AssignmentAnswered DEF Evaluate
<1>3. CASE t \in {"local"} \X LocalTypes \X Assignments \X Names \X Expression[Nesting]
  <2>1. t[1] = "local"
    BY <1>3
  <2> QED BY <1>3, <2>1, LocalAnswered DEF Evaluate
<1> QED BY <1>1, <1>2, <1>3 DEF Tree

-------------------------------------------------------------------------------
(* The session *)

\* What is parsed is a tree; and while a line is typed there is one left to be entered.
SessionInv ==
  /\ TypeOK
  /\ phase = "parsed" => tree \in Tree
  /\ phase = "typing" /\ line # <<>> => lines < keyboard.lines

LEMMA VariablesOf == \A env : Variables(env) <=> DOMAIN env \subseteq Names /\ Range(env) \subseteq Value
BY DEF Variables, Range

LEMMA Initial ==
  ASSUME Init
  PROVE  SessionInv
<1>1. /\ keyboard \in Keyboards /\ line = <<>> /\ lines = 0 /\ phase = "typing"
      /\ locals = <<>> /\ error = FALSE /\ answer = Failure
  BY DEF Init
<1>2. keyboard.size \in Nat /\ keyboard.lines \in Nat
  BY <1>1, KeyboardsAssumption
<1>3. line \in Seq(keyboard.tokens) /\ Len(line) <= keyboard.size /\ lines \in 0 .. keyboard.lines
  BY <1>1, <1>2
<1>4. DOMAIN locals = {}
  BY <1>1
<1>5. DOMAIN locals \subseteq Names /\ Range(locals) \subseteq Value
  BY <1>4 DEF Range
<1> QED BY <1>1, <1>3, <1>5 DEF SessionInv, TypeOK

LEMMA TypeStep ==
  ASSUME SessionInv, NEW t \in keyboard.tokens, Type(t)
  PROVE  SessionInv'
<1>1. /\ line' = Append(line, t) /\ phase = "typing" /\ lines < keyboard.lines /\ Len(line) < keyboard.size
      /\ UNCHANGED <<keyboard, lines, phase, tree, locals, error, answer>>
  BY DEF Type
<1>2. keyboard.size \in Nat /\ line \in Seq(keyboard.tokens)
  BY KeyboardsAssumption DEF SessionInv, TypeOK
<1>3. line' \in Seq(keyboard.tokens) /\ Len(line') <= keyboard.size
  BY <1>1, <1>2
<1> QED BY <1>1, <1>3 DEF SessionInv, TypeOK, Range

LEMMA EnterStep ==
  ASSUME SessionInv, Enter
  PROVE  SessionInv'
<1> DEFINE parsed == Parse(line)
<1>1. /\ phase = "typing" /\ line # <<>> /\ lines' = lines + 1
      /\ phase' = (IF parsed.ok THEN "parsed" ELSE "rejected") /\ tree' = parsed.tree
      /\ UNCHANGED <<keyboard, line, locals, error, answer>>
  BY DEF Enter
<1>2. /\ keyboard \in Keyboards /\ keyboard.size \in Nat /\ keyboard.lines \in Nat
      /\ line \in Seq(keyboard.tokens) /\ Len(line) <= keyboard.size /\ lines \in 0 .. keyboard.lines
      /\ lines < keyboard.lines
  BY <1>1, KeyboardsAssumption DEF SessionInv, TypeOK
<1>3. Len(line) \in 1 .. keyboard.size /\ line \in [1 .. Len(line) -> keyboard.tokens]
  BY <1>1, <1>2, EmptySeq
<1>4. parsed.ok => parsed.tree \in Tree
  BY <1>2, <1>3, ParserAssumption
<1>5. lines' \in 0 .. keyboard.lines
  BY <1>1, <1>2
<1> HIDE DEF parsed
<1>6. phase' \in {"parsed", "rejected"} /\ (phase' = "parsed" => tree' \in Tree)
  BY <1>1, <1>4
<1> QED BY <1>1, <1>5, <1>6 DEF SessionInv, TypeOK, Range

LEMMA RunStep ==
  ASSUME SessionInv, Run
  PROVE  /\ SessionInv'
         /\ ~error /\ error' => Kept(tree, locals, locals')
<1>1. PICK r \in Evaluate(tree, locals, error) :
        /\ phase' = IF r.v = Trap THEN "dead" ELSE "answered"
        /\ locals' = r.env
        /\ error' = r.err
        /\ answer' = IF r.err THEN Failure ELSE r.v
  BY DEF Run
<1>2. phase = "parsed" /\ UNCHANGED <<keyboard, line, lines, tree>>
  BY DEF Run
<1>3. tree \in Tree /\ Variables(locals) /\ error \in BOOLEAN
  BY <1>2, VariablesOf DEF SessionInv, TypeOK
<1>4. Answered(tree, locals, error, r)
  BY <1>3, LineAnswered
<1>5. Variables(locals') /\ error' \in BOOLEAN /\ (~error /\ error' => Kept(tree, locals, locals'))
  BY <1>1, <1>4 DEF Answered
<1>6. answer' \in Value \cup {Failure} /\ phase' \in {"dead", "answered"}
  BY <1>1, <1>4 DEF Answered
<1>7. DOMAIN locals' \subseteq Names /\ Range(locals') \subseteq Value
  BY <1>5, VariablesOf DEF Range
<1>8. SessionInv'
  BY <1>2, <1>5, <1>6, <1>7 DEF SessionInv, TypeOK, Range
<1> QED BY <1>5, <1>8

LEMMA PromptStep ==
  ASSUME SessionInv, Prompt
  PROVE  SessionInv'
<1>1. /\ phase' = "typing" /\ line' = <<>> /\ tree' = <<>> /\ answer' = Failure
      /\ UNCHANGED <<keyboard, lines, locals, error>>
  BY DEF Prompt
<1>2. keyboard.size \in Nat
  BY KeyboardsAssumption DEF SessionInv, TypeOK
<1>3. line' \in Seq(keyboard.tokens) /\ Len(line') <= keyboard.size
  BY <1>1, <1>2
<1> QED BY <1>1, <1>3 DEF SessionInv, TypeOK, Range

LEMMA SessionInductive ==
  ASSUME SessionInv, [Next]_vars
  PROVE  SessionInv'
<1>1. CASE \E t \in keyboard.tokens : Type(t)
  BY <1>1, TypeStep
<1>2. CASE Quit
  BY <1>2 DEF Quit, SessionInv, TypeOK, Range
<1>3. CASE UNCHANGED vars
  BY <1>3 DEF vars, SessionInv, TypeOK, Range
<1> QED BY <1>1, <1>2, <1>3, EnterStep, RunStep, PromptStep DEF Next

\* In every state the variables of the session are names with values, and what is about to be run is a
\* tree (interactive_mode, try_run_expression).
THEOREM Invariant == Spec => []SessionInv
<1>1. Init => SessionInv
  BY Initial
<1>2. SessionInv /\ [Next]_vars => SessionInv'
  BY SessionInductive
<1> QED BY <1>1, <1>2, PTL DEF Spec

\* Every variable has its type, and what is printed is a value or a failure: no operation, call, index or
\* assignment of a line of any depth yields anything else (AST.cpp, BinaryOperations.cpp).
THEOREM TypeCorrect == Spec => []TypeOK
<1>1. SessionInv => TypeOK
  BY DEF SessionInv
<1> QED BY <1>1, Invariant, PTL

\* The operations on values agree with one another and guard their divisions, in every session
\* (BinaryExpression::BinaryOperation).
THEOREM OperationsAreSound == Spec => []OperationsSound
<1>1. OperationsSound
  BY LogicSound, ComparisonsSound, DivisionSound DEF OperationsSound
<1> QED BY <1>1, PTL

\* A line that raises an error changes no variable but the one it declares or assigns to with an
\* operator, and leaves null there, however deep in the line the error is raised
\* (AssignmentStatement::resolve, LocalAssignmentStatement::resolve).
THEOREM FailedLinesLoseOnlyTheirTargets == Spec => FailedLineLosesOnlyItsTarget
<1> DEFINE FailureKeeps == ~error /\ error' => Kept(tree, locals, locals')
<1>1. SessionInv /\ [Next]_vars => [FailureKeeps]_vars
  <2> SUFFICES ASSUME SessionInv, Next PROVE FailureKeeps
    OBVIOUS
  <2>1. CASE Run
    BY <2>1, RunStep
  <2>2. CASE (\E t \in keyboard.tokens : Type(t)) \/ Enter \/ Quit \/ Prompt
    <3>1. error' = error
      BY <2>2 DEF Type, Enter, Quit, Prompt
    <3> QED BY <3>1
  <2> QED BY <2>1, <2>2 DEF Next
<1>2. Spec => [][FailureKeeps]_vars
  BY <1>1, Invariant, PTL DEF Spec
<1> QED BY <1>2 DEF FailedLineLosesOnlyItsTarget, Kept

-------------------------------------------------------------------------------
(* Rolling two literals into one *)

LiteralResults(v, env) == {Result(o, env, o = Trap) : o \in v}

Yields(a, env) == Result(a, env, FALSE)

LEMMA LiteralOutcomes ==
  ASSUME NEW env, NEW n \in Nat, NEW of, EvaluatesLevels(of, env), NEW t \in Expression[n + 1], t[1] = "lit"
  PROVE  of[n + 1]["resolve"][t][FALSE] = LiteralResults(t[2], env)
<1>1. of[n + 1] = Nodes(Expression[n + 1], of[n], env)
  BY DEF EvaluatesLevels
<1>2. "resolve" \in Hows /\ "resolve" # "handle" /\ FALSE \in BOOLEAN
  BY DEF Hows
<1> DEFINE e == Expression[n + 1]
           f == of[n]
<1> HIDE DEF e, f
<1>3. Nodes(e, f, env)["resolve"][t][FALSE] = ResolveNode(f, t, env, FALSE)
  <2>1. t \in e
    BY DEF e
  <2>2. \A err \in BOOLEAN : Nodes(e, f, env)["resolve"][t][err] = ResolveNode(f, t, env, err)
    BY <1>2, <2>1, NodesAt
  <2> QED BY <2>2
<1>4. ResolveNode(f, t, env, FALSE) = {Result(v, env, FALSE \/ v = Trap) : v \in t[2]}
  BY DEF ResolveNode
<1>5. \A v : (FALSE \/ v = Trap) = (v = Trap)
  OBVIOUS
<1>6. ResolveNode(f, t, env, FALSE) = LiteralResults(t[2], env)
  BY <1>4, <1>5 DEF LiteralResults
<1> QED BY <1>1, <1>3, <1>6 DEF e, f

LEMMA LiteralMembers ==
  ASSUME NEW v, NEW env
  PROVE  \A r : r \in LiteralResults(v, env) <=> \/ Trap \in v /\ r = Thrown(Trap, env)
                                                \/ \E a \in v \ {Trap} : r = Yields(a, env)
<1>1. Thrown(Trap, env) = Result(Trap, env, TRUE)
  <2>1. Trap # Failure /\ (Trap = Trap) = TRUE
    BY DEF Trap, Failure
  <2> QED BY <2>1 DEF Thrown
<1>2. \A a : Result(a, env, a = Trap) = IF a = Trap THEN Thrown(Trap, env) ELSE Yields(a, env)
  <2> TAKE a
  <2>1. CASE a = Trap
    <3>1. (a = Trap) = TRUE
      BY <2>1
    <3> QED BY <1>1, <2>1, <3>1
  <2>2. CASE a # Trap
    <3>1. (a = Trap) = FALSE
      BY <2>2
    <3> QED BY <2>2, <3>1 DEF Yields
  <2> QED BY <2>1, <2>2
<1> QED BY <1>2 DEF LiteralResults

\* After a literal comes what is in G, or the end.
LEMMA AfterLiteral ==
  ASSUME NEW v, NEW env, NEW x, NEW G
  PROVE  (\E r \in LiteralResults(v, env) : IF r.v = Trap THEN x = r ELSE r \in G) <=>
           \/ Trap \in v /\ x = Thrown(Trap, env)
           \/ \E a \in v \ {Trap} : Yields(a, env) \in G
<1>1. Thrown(Trap, env).v = Trap /\ \A a : Yields(a, env).v = a
  <2>1. Trap # Failure
    BY DEF Trap, Failure
  <2> QED BY <2>1 DEF Result, Thrown, Yields
<1>0. \A r : r \in LiteralResults(v, env) => \/ Trap \in v /\ r = Thrown(Trap, env)
                                             \/ \E a \in v \ {Trap} : r = Yields(a, env)
  BY LiteralMembers
<1>2. ASSUME NEW r \in LiteralResults(v, env), IF r.v = Trap THEN x = r ELSE r \in G
      PROVE  \/ Trap \in v /\ x = Thrown(Trap, env)
             \/ \E a \in v \ {Trap} : Yields(a, env) \in G
  <2>1. CASE Trap \in v /\ r = Thrown(Trap, env)
    BY <1>1, <1>2, <2>1
  <2>2. CASE \E a \in v \ {Trap} : r = Yields(a, env)
    BY <1>1, <1>2, <2>2
  <2>3. r \in LiteralResults(v, env) => \/ Trap \in v /\ r = Thrown(Trap, env)
                                        \/ \E a \in v \ {Trap} : r = Yields(a, env)
    BY <1>0
  <2> QED BY <1>2, <2>1, <2>2, <2>3
<1>3. ASSUME Trap \in v, x = Thrown(Trap, env)
      PROVE  \E r \in LiteralResults(v, env) : IF r.v = Trap THEN x = r ELSE r \in G
  <2>1. x \in LiteralResults(v, env)
    BY <1>3, LiteralMembers
  <2> QED BY <1>1, <1>3, <2>1
<1>4. ASSUME NEW a \in v \ {Trap}, Yields(a, env) \in G
      PROVE  \E r \in LiteralResults(v, env) : IF r.v = Trap THEN x = r ELSE r \in G
  <2>1. Yields(a, env) \in LiteralResults(v, env)
    BY <1>4, LiteralMembers
  <2> QED BY <1>1, <1>4, <2>1
<1> QED BY <1>2, <1>3, <1>4

\* what resolve() does when no error is pending
ErrorFree(Of, e) == Of["resolve"][e][FALSE]
ErrorFreeBinary(Of, t, env) == EvaluateBinary(Of, t, env, FALSE)

\* What the two literals do is what the one does that has their outcomes.
LEMMA BothLiterals ==
  ASSUME NEW Of, NEW env, NEW t, NEW L, L # {}, NEW R,
         ErrorFree(Of, t[3]) = LiteralResults(L, env), ErrorFree(Of, t[4]) = LiteralResults(R, env)
  PROVE  ErrorFreeBinary(Of, t, env) = {Thrown(o, env) : o \in RolledOutcomes(t[2], L, R)}
<1> USE DEF ErrorFree
<1> DEFINE Done(l, r) == IF r.err THEN {Broken(env)} ELSE {Thrown(o, env) : o \in BinaryOperation(t[2], l.v, r.v)}
           Then(l) == IF l.err THEN {Broken(env)}
                      ELSE Continue(Of["resolve"][t[4]][FALSE], LAMBDA r : Done(l, r))
           Is(x) == \/ \E v \in L \ {Trap}, w \in R \ {Trap} : \E o \in BinaryOperation(t[2], v, w) : x = Thrown(o, env)
                    \/ (Trap \in L \/ Trap \in R) /\ x = Thrown(Trap, env)
<1>1. /\ Thrown(Trap, env).v = Trap
      /\ \A a : Yields(a, env).v = a /\ Yields(a, env).err = FALSE
  <2>1. Trap # Failure
    BY DEF Trap, Failure
  <2> QED BY <2>1 DEF Result, Thrown, Yields
<1>2. EvaluateBinary(Of, t, env, FALSE) = Continue(Of["resolve"][t[3]][FALSE], Then)
  BY DEF EvaluateBinary
<1>3. ASSUME NEW v, v # Trap, NEW x
      PROVE  x \in Then(Yields(v, env)) <=>
               \/ \E w \in R \ {Trap} : \E o \in BinaryOperation(t[2], v, w) : x = Thrown(o, env)
               \/ Trap \in R /\ x = Thrown(Trap, env)
  <2> DEFINE l == Yields(v, env)
  <2>1. Then(l) = Continue(Of["resolve"][t[4]][FALSE], LAMBDA r : Done(l, r))
    BY <1>1
  <2>2. ASSUME NEW w
        PROVE  x \in Done(l, Yields(w, env)) <=> \E o \in BinaryOperation(t[2], v, w) : x = Thrown(o, env)
    BY <1>1
  <2> HIDE DEF l, Then, Done
  <2>3. x \in Then(l) <=> \E r \in LiteralResults(R, env) : IF r.v = Trap THEN x = r ELSE x \in Done(l, r)
    BY <2>1 DEF Continue
  <2>4. x \in Then(l) <=> \/ Trap \in R /\ x = Thrown(Trap, env)
                          \/ \E w \in R \ {Trap} : x \in Done(l, Yields(w, env))
    <3> DEFINE G == {r \in LiteralResults(R, env) : x \in Done(l, r)}
    <3>1. x \in Then(l) <=> \E r \in LiteralResults(R, env) : IF r.v = Trap THEN x = r ELSE r \in G
      BY <2>3
    <3>2. \A w \in R \ {Trap} : Yields(w, env) \in G <=> x \in Done(l, Yields(w, env))
      BY LiteralMembers
    <3> HIDE DEF G
    <3>3. (\E r \in LiteralResults(R, env) : IF r.v = Trap THEN x = r ELSE r \in G) <=>
            (Trap \in R /\ x = Thrown(Trap, env)) \/ (\E w \in R \ {Trap} : Yields(w, env) \in G)
      BY AfterLiteral
    <3> QED BY <3>1, <3>2, <3>3
  <2>5. (\E w \in R \ {Trap} : x \in Done(l, Yields(w, env))) <=>
          \E w \in R \ {Trap} : \E o \in BinaryOperation(t[2], v, w) : x = Thrown(o, env)
    BY <2>2
  <2> QED BY <2>4, <2>5 DEF l
<1> HIDE DEF Then, Done
<1>4. ASSUME NEW x PROVE x \in Continue(Of["resolve"][t[3]][FALSE], Then) <=> Is(x)
  <2>1. x \in Continue(Of["resolve"][t[3]][FALSE], Then) <=>
          \E r \in LiteralResults(L, env) : IF r.v = Trap THEN x = r ELSE x \in Then(r)
    BY DEF Continue
  <2>2. x \in Continue(Of["resolve"][t[3]][FALSE], Then) <=>
          \/ Trap \in L /\ x = Thrown(Trap, env)
          \/ \E v \in L \ {Trap} : x \in Then(Yields(v, env))
    <3> DEFINE G == {r \in LiteralResults(L, env) : x \in Then(r)}
    <3>1. x \in Continue(Of["resolve"][t[3]][FALSE], Then) <=>
            \E r \in LiteralResults(L, env) : IF r.v = Trap THEN x = r ELSE r \in G
      BY <2>1
    <3>2. \A v \in L \ {Trap} : Yields(v, env) \in G <=> x \in Then(Yields(v, env))
      BY LiteralMembers
    <3> HIDE DEF G
    <3>3. (\E r \in LiteralResults(L, env) : IF r.v = Trap THEN x = r ELSE r \in G) <=>
            (Trap \in L /\ x = Thrown(Trap, env)) \/ (\E v \in L \ {Trap} : Yields(v, env) \in G)
      BY AfterLiteral
    <3> QED BY <3>1, <3>2, <3>3
  <2>3. (\E v \in L \ {Trap} : x \in Then(Yields(v, env))) <=>
          \E v \in L \ {Trap} : \/ \E w \in R \ {Trap} : \E o \in BinaryOperation(t[2], v, w) : x = Thrown(o, env)
                                \/ Trap \in R /\ x = Thrown(Trap, env)
    BY <1>3
  <2>4. Trap \notin L => \E v \in L \ {Trap} : TRUE
    OBVIOUS
  <2> QED BY <2>2, <2>3, <2>4
<1>5. ASSUME NEW x PROVE x \in {Thrown(o, env) : o \in RolledOutcomes(t[2], L, R)} <=> Is(x)
  <2>1. \A o : o \in RolledOutcomes(t[2], L, R) <=> \/ \E v \in L \ {Trap}, w \in R \ {Trap} : o \in BinaryOperation(t[2], v, w)
                                                    \/ (Trap \in L \/ Trap \in R) /\ o = Trap
    BY DEF RolledOutcomes
  <2> QED BY <2>1
<1> HIDE DEF Is
<1> QED BY <1>2, <1>4, <1>5 DEF ErrorFreeBinary

LEMMA RolledType ==
  ASSUME NEW op \in Operators, NEW l \in SUBSET (Value \cup {Trap}), NEW r \in SUBSET (Value \cup {Trap})
  PROVE  RolledOutcomes(op, l, r) \subseteq Outcome
<1>1. ASSUME NEW a \in l \ {Trap}, NEW b \in r \ {Trap} PROVE BinaryOperation(op, a, b) \subseteq Outcome
  <2>1. a \in Value /\ b \in Value
    OBVIOUS
  <2> QED BY <2>1, BinaryType
<1> QED BY <1>1 DEF RolledOutcomes, Outcome

\* Rolling two literals into one, as the parser does, is not observable: without an error pending the one does what
\* their operation would do when it is evaluated, and the parser finds a failure only where the evaluation may raise
\* an error (Parser::readBinExp, BinaryExpression::resolve).  For lines of the parser the run checks it as
\* RollingFaithful.
THEOREM RollingOneNode ==
  ASSUME NEW env, NEW t \in Expression[Nesting], t[1] = "bin", t[3][1] = "lit", t[4][1] = "lit", t[3][2] # {}
  PROVE  LET rolled == RolledOutcomes(t[2], t[3][2], t[4][2])
         IN IF Failure \in rolled THEN Broken(env) \in Resolve(t, env, FALSE)
            ELSE /\ <<"lit", rolled>> \in Expression[Nesting]
                 /\ Resolve(<<"lit", rolled>>, env, FALSE) = Resolve(t, env, FALSE)
<1> DEFINE rolled == RolledOutcomes(t[2], t[3][2], t[4][2])
           lit == <<"lit", rolled>>
<1>1. Nesting - 1 \in Nat /\ t \in Node(Expression[Nesting - 1])
  BY TopNode
<1>2. t[2] \in Operators /\ t[3] \in Expression[Nesting - 1] /\ t[4] \in Expression[Nesting - 1]
  BY <1>1, NodeShape
<1>3. PICK n \in Nat : Nesting - 1 = n + 1 /\ Nesting = (n + 1) + 1
  <2>1. Nesting - 1 # 0
    BY <1>2, ExpressionLevels
  <2>2. Nesting - 2 \in Nat /\ Nesting - 1 = (Nesting - 2) + 1 /\ Nesting = ((Nesting - 2) + 1) + 1
    BY <1>1, <2>1, NestingAssumption
  <2> QED BY <2>2
<1>4. Expression[n + 1] = Node(Expression[n]) /\ Expression[Nesting] = Node(Expression[n + 1]) /\ n + 1 \in Nat
  BY <1>3, ExpressionLevels
<1>5. t[3][2] \in SUBSET (Value \cup {Trap}) /\ t[4][2] \in SUBSET (Value \cup {Trap})
  <2>1. t[3] \in Node(Expression[n]) /\ t[4] \in Node(Expression[n])
    BY <1>2, <1>3, <1>4
  <2> QED BY <2>1, NodeShape
<1>6. PICK of : EvaluatesLevels(of, env) /\ Evaluated(env) = of[Nesting]
  BY EvaluatedLevels
<1>7. /\ ErrorFree(of[n + 1], t[3]) = LiteralResults(t[3][2], env)
      /\ ErrorFree(of[n + 1], t[4]) = LiteralResults(t[4][2], env)
  BY <1>2, <1>3, <1>6, LiteralOutcomes DEF ErrorFree
<1>8. ErrorFreeBinary(of[n + 1], t, env) = {Thrown(o, env) : o \in rolled}
  BY <1>7, BothLiterals
<1>9. Resolve(t, env, FALSE) = {Thrown(o, env) : o \in rolled}
  <2> DEFINE f == of[n + 1]
             e == Expression[Nesting]
  <2>1. of[Nesting] = Nodes(e, f, env)
    BY <1>3, <1>4, <1>6 DEF EvaluatesLevels
  <2>2. t \in e /\ "resolve" \in Hows /\ "resolve" # "handle"
    BY DEF Hows
  <2> HIDE DEF f, e
  <2>3. \A err \in BOOLEAN : Nodes(e, f, env)["resolve"][t][err] = ResolveNode(f, t, env, err)
    BY <2>2, NodesAt
  <2>4. Resolve(t, env, FALSE) = ResolveNode(f, t, env, FALSE)
    BY <1>6, <2>1, <2>3 DEF Resolve
  <2>5. ResolveNode(f, t, env, FALSE) = EvaluateBinary(f, t, env, FALSE)
    BY DEF ResolveNode
  <2> QED BY <1>8, <2>4, <2>5 DEF f, ErrorFreeBinary
<1>10. CASE Failure \in rolled
  <2>1. Thrown(Failure, env) = Broken(env)
    BY DEF Thrown
  <2> QED BY <1>9, <1>10, <2>1
<1>11. CASE Failure \notin rolled
  <2>1. rolled \subseteq Value \cup {Trap}
    BY <1>2, <1>5, <1>11, RolledType DEF Outcome
  <2> HIDE DEF rolled
  <2>2. lit \in Expression[Nesting]
    BY <1>4, <2>1 DEF Node
  <2>3. Resolve(lit, env, FALSE) = LiteralResults(rolled, env)
    <3>1. lit \in Expression[(n + 1) + 1] /\ lit[1] = "lit" /\ lit[2] = rolled
      BY <1>3, <2>2
    <3> HIDE DEF lit
    <3>2. of[(n + 1) + 1]["resolve"][lit][FALSE] = LiteralResults(lit[2], env)
      BY <1>4, <1>6, <3>1, LiteralOutcomes
    <3> QED BY <1>3, <1>6, <3>1, <3>2 DEF Resolve
  <2>4. \A o \in rolled : Thrown(o, env) = Result(o, env, o = Trap)
    BY <1>11 DEF Thrown
  <2>5. LiteralResults(rolled, env) = {Thrown(o, env) : o \in rolled}
    BY <2>4 DEF LiteralResults
  <2> QED BY <1>9, <1>11, <2>2, <2>3, <2>5 DEF rolled
<1> QED BY <1>10, <1>11
===============================================================================
