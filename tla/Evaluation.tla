------------------------------ MODULE Evaluation ------------------------------
(***************************************************************************)
(* Syntax trees, and what a line's tree does when it is resolved (AST.cpp, *)
(* AST.h).                                                                 *)
(*                                                                         *)
(* Trees are <<"lit", outcomes>>, <<"var", name>>, <<"member", e, name>>,  *)
(* <<"index", e, e>>, <<"call", e, arguments>>, <<"un", op, e>>,           *)
(* <<"bin", op, e, e>>, <<"assign", op, target, e>> and                    *)
(* <<"local", type, op, name, e>>.                                         *)
(***************************************************************************)
EXTENDS Operations, Sequences

CONSTANTS
  Names,   \* the words
  Nesting  \* bound: how deep an expression may be nested

ASSUME NestingAssumption == Nesting \in Nat

UnaryOps == {"!", "-", "#", "~"}
Assignments == {"=", "+=", "-=", "*=", "/="}
LocalTypes == {"Value", "Number", "String", "Boolean", "Object"}

\* a node whose operands are expressions e
Node(e) ==
  ({"lit"} \X SUBSET (Value \cup {Trap})) \cup ({"var"} \X Names)
    \cup ({"member"} \X e \X Names) \cup ({"index"} \X e \X e) \cup ({"call"} \X e \X Seq(e))
    \cup ({"un"} \X UnaryOps \X e) \cup ({"bin"} \X Operators \X e \X e)

\* the expressions of at most n levels
Expression[n \in Nat] == IF n = 0 THEN {} ELSE Node(Expression[n - 1])

Target == {e \in Expression[Nesting] : e[1] \in {"var", "member", "index"}}

Tree ==
  Expression[Nesting] \cup ({"assign"} \X Assignments \X Target \X Expression[Nesting])
    \cup ({"local"} \X LocalTypes \X Assignments \X Names \X Expression[Nesting])

-------------------------------------------------------------------------------
(* A result has a value v, the variables and the error it leaves. *)

\* the functions of interactive_default_program()
Functions == {"main", "quit"}
FunctionValue == [t |-> "Function", v |-> 0]

Result(v, env, err) == [v |-> v, env |-> env, err |-> err]
Broken(env) == Result(Null, env, TRUE)

\* mutant: what failed is a value
Unthrown(outcome, env) == Result(outcome, env, outcome \in {Failure, Trap})

\* get_or_throw(): a failure is null, and an error
Thrown(outcome, env) == IF outcome = Failure THEN Broken(env) ELSE Result(outcome, env, outcome = Trap)

\* what follows each of the results, unless the process has ended
Continue(results, Then(_)) == UNION {IF r.v = Trap THEN {r} ELSE Then(r) : r \in results}

-------------------------------------------------------------------------------
(* Each kind of node.  What the nodes within it do is Of[how][e][err], how *)
(* being "resolve" or "handle", and err whether an error is pending.       *)

\* all arguments, or as far as the first that is in error
Arguments(Of, list, env, err) ==
  LET Each(i) == Of["resolve"][list[i]][err /\ i = 1]
      Reached(i) == \A j \in 1 .. i - 1 : \E r \in Each(j) : ~r.err
  IN (UNION {{r \in Each(i) : r.err} : i \in {i \in DOMAIN list : Reached(i)}})
       \cup (IF Reached(Len(list) + 1) THEN {Result(Null, env, err /\ list = <<>>)} ELSE {})

\* CallExpression::resolve(), to the end of the function: main() returns 0 and quit() throws
EvaluateCall(Of, t, env, err) ==
  Continue(Of["handle"][t[2]][err], LAMBDA f :
    IF f.v.t # "Function" THEN {Broken(env)}
    ELSE Continue(Arguments(Of, t[3], env, f.err), LAMBDA a :
           IF t[2] = <<"var", "quit">> \/ (a.err /\ t[3] # <<>>) THEN {Broken(env)}
           ELSE {Result([t |-> "Integer", v |-> 0], env, a.err)}))

\* IndexAccess::resolve(): of a String, std::string::at(), whose exception nothing catches
EvaluateIndex(Of, t, env, err) ==
  Continue(Of["handle"][t[2]][err], LAMBDA c : Continue(Of["resolve"][t[3]][c.err], LAMBDA i :
    IF i.err \/ c.v.t # "String" \/ i.v.t # "Integer" THEN {Broken(env)}
    ELSE IF i.v.v \in 0 .. c.v.v - 1 THEN {Result([t |-> "String", v |-> 1], env, FALSE)}
    ELSE {Result(Trap, env, TRUE)}))

EvaluateUnary(Of, t, env, err) ==
  Continue(Of["resolve"][t[3]][err], LAMBDA r :
    IF r.err THEN {Broken(env)} ELSE {Thrown(o, env) : o \in UnaryOperation(t[2], r.v)})

\* BinaryExpression::resolve(): both operands, whatever the operator
EvaluateBinary(Of, t, env, err) ==
  Continue(Of["resolve"][t[3]][err], LAMBDA l :
    IF l.err THEN {Broken(env)}
    ELSE Continue(Of["resolve"][t[4]][FALSE], LAMBDA r :
           IF r.err THEN {Broken(env)} ELSE {Thrown(o, env) : o \in BinaryOperation(t[2], l.v, r.v)}))

\* readBinExp(): what a literal has that two others are rolled into.  Trap is met when it is evaluated.
RolledOutcomes(op, l, r) ==
  (UNION {BinaryOperation(op, a, b) : a \in l \ {Trap}, b \in r \ {Trap}}) \cup ({Trap} \cap (l \cup r))

\* resolve()
ResolveNode(Of, t, env, err) ==
  CASE t[1] = "lit" -> {Result(v, env, err \/ v = Trap) : v \in t[2]}
    [] t[1] = "var" -> {IF t[2] \in DOMAIN env THEN Result(env[t[2]], env, err) ELSE Broken(env)}
    [] t[1] = "member" -> Continue(Of["handle"][t[2]][err], LAMBDA front : {Broken(env)})
    [] t[1] = "index" -> EvaluateIndex(Of, t, env, err)
    [] t[1] = "call" -> EvaluateCall(Of, t, env, err)
    [] t[1] = "un" -> EvaluateUnary(Of, t, env, err)
    [] t[1] = "bin" -> EvaluateBinary(Of, t, env, err)

\* handle() of what is called, indexed or assigned to; no Object is within a line's reach.  What has no
\* handle is reported, not evaluated and not an error.
HandleNode(Of, t, env, err) ==
  CASE t[1] = "var" /\ t[2] \in Functions -> {Result(FunctionValue, env, err)}
    [] t[1] \in {"lit", "un", "bin"} -> {Result(Null, env, err)}
    [] t[1] = "index" -> Continue(Of["handle"][t[2]][err], LAMBDA c :
                           Continue(Of["resolve"][t[3]][c.err], LAMBDA i : {Broken(env)}))
    [] OTHER -> ResolveNode(Of, t, env, err)

\* what the nodes e do in a frame with the variables env
Nodes(e, Of, env) ==
  [how \in {"resolve", "handle"} |-> [t \in e |-> [err \in BOOLEAN |->
     IF how = "handle" THEN HandleNode(Of, t, env, err) ELSE ResolveNode(Of, t, env, err)]]]

\* the same of all expressions, level by level
Evaluated(env) ==
  LET Of[n \in Nat] == IF n = 0 THEN <<>> ELSE Nodes(Expression[n], Of[n - 1], env)
  IN Of[Nesting]

Resolve(t, env, err) == Evaluated(env)["resolve"][t][err]
Handle(t, env, err) == Evaluated(env)["handle"][t][err]

-------------------------------------------------------------------------------
(* A line *)

Compound(op) == CASE op = "+=" -> "+" [] op = "-=" -> "-" [] op = "*=" -> "*" [] op = "/=" -> "/"

\* a result whose value is given to a variable
Stored(r, name) ==
  [r EXCEPT !.env = [n \in DOMAIN r.env \cup {name} |-> IF n = name THEN r.v ELSE r.env[n]]]

\* AssignmentStatement::resolve(): the right side first; a failing `+=` stores the null it yields
EvaluateAssignment(t, env, err) ==
  Continue(Resolve(t[4], env, err), LAMBDA r : Continue(Handle(t[3], env, r.err), LAMBDA target :
    IF target.err THEN {Broken(env)}
    ELSE IF target.v.t = "Function" THEN {Result(Null, env, FALSE)}
    ELSE IF t[2] = "=" THEN {Stored(r, t[3][2])}
    ELSE Continue({Thrown(o, env) : o \in BinaryOperation(Compound(t[2]), target.v, r.v)},
                  LAMBDA done : {Stored(done, t[3][2])})))

\* LocalAssignmentStatement::typecheck()
TypeChecks(type, v) ==
  \/ v = Null \/ type = "Value"
  \/ type = "Number" /\ v.t \in {"Integer", "Double"}
  \/ type = "Boolean" /\ v.t = "Bool"
  \/ type = v.t

\* mutant: what fails the check is stored
LocalUnchecked(t, env, err) ==
  Continue(Resolve(t[5], env, err), LAMBDA r :
    IF t[3] # "=" THEN {r} ELSE {Stored([r EXCEPT !.err = @ \/ ~TypeChecks(t[2], r.v)], t[4])})

\* LocalAssignmentStatement::resolve(): whatever error the right side raised, and none of its own but
\* the type's; another operator than `=` is reported, and not an error
EvaluateLocal(t, env, err) ==
  Continue(Resolve(t[5], env, err), LAMBDA r :
    IF t[3] # "=" THEN {r}
    ELSE IF TypeChecks(t[2], r.v) THEN {Stored(r, t[4])} ELSE {[r EXCEPT !.err = TRUE]})

\* resolve() of a line's tree
Evaluate(t, env, err) ==
  CASE t[1] = "assign" -> EvaluateAssignment(t, env, err)
    [] t[1] = "local" -> EvaluateLocal(t, env, err)
    [] OTHER -> Resolve(t, env, err)
===============================================================================
