------------------------------ MODULE EigenLang ------------------------------
(***************************************************************************)
(* The static analysis of an Eigen-Lang source and its lowering to AQO     *)
(* operations (eigen_compiler/compiler.py).                                *)
(*                                                                         *)
(* A source is the sequence of its AST nodes in depth-first order. A node  *)
(* is [kind, depth, name, base, args, kw]: a call ("call": the name called,*)
(* the module it is looked up in, its arguments and its keywords as pairs),*)
(* an assignment ("assign": the target; the node after it is its value), an*)
(* import ("import": the module root), a function ("def": the name of its  *)
(* decorator) or a statement that branches ("branch"). Expressions are     *)
(* tagged tuples: <<"int", n>>, <<"float">>, <<"str", s>>, <<"name", id>>, *)
(* <<"list", es>>, <<"neg", e>>, <<op, left, right>>, <<"call", node>> and   *)
(* <<"opaque">>.                                                           *)
(***************************************************************************)
EXTENDS Integers, Sequences, FiniteSets, FiniteSetsExt, SequencesExt

CONSTANTS MaxAstNodes, MaxAstDepth   \* EIGEN_COMPILER_MAX_AST_NODES, _DEPTH

None == <<"none">>

\* ast.walk: breadth first. The depth orders the nodes, and nodes of one depth
\* keep their order.
Walk(prog) ==
    SetToSortSeq(DOMAIN prog, LAMBDA i, j : \/ prog[i].depth < prog[j].depth
                                            \/ prog[i].depth = prog[j].depth /\ i < j)
-----------------------------------------------------------------------------
Arithmetic == {"add", "sub", "mult", "truediv", "floordiv", "mod", "pow"}

\* The numeric operation itself; a zero divisor is caught, a fraction and a
\* negative power are floats.
Computed(op, l, r) ==
    IF op \in {"truediv", "floordiv", "mod"} /\ r = <<"int", 0>> THEN None
    ELSE IF op = "truediv" \/ <<"float">> \in {l, r} THEN <<"float">>
    ELSE CASE op = "add" -> <<"int", l[2] + r[2]>>
           [] op = "sub" -> <<"int", l[2] - r[2]>>
           [] op = "mult" -> <<"int", l[2] * r[2]>>
           [] op = "floordiv" -> <<"int", l[2] \div r[2]>>
           [] op = "mod" -> <<"int", l[2] % r[2]>>
           [] op = "pow" -> IF r[2] < 0 THEN <<"float">> ELSE <<"int", l[2] ^ r[2]>>

\* _literal_scalar.
RECURSIVE LiteralScalar(_)
LiteralScalar(e) ==
    LET number(x) == x[1] \in {"int", "float"}
    IN  CASE e[1] \in {"int", "float", "str"} -> e
          [] e[1] = "neg" -> LET x == LiteralScalar(e[2])
                             IN  IF ~number(x) THEN None
                                 ELSE IF x[1] = "int" THEN <<"int", -x[2]>> ELSE x
          [] e[1] \in Arithmetic ->
                LET l == LiteralScalar(e[2])
                    r == LiteralScalar(e[3])
                IN  IF number(l) /\ number(r) THEN Computed(e[1], l, r) ELSE None
          [] OTHER -> None

\* _literal_jsonish, for the scalars and lists an observable is made of.
RECURSIVE LiteralJsonish(_)
LiteralJsonish(e) ==
    IF e[1] # "list" THEN LiteralScalar(e)
    ELSE LET values == [i \in DOMAIN e[2] |-> LiteralJsonish(e[2][i])]
         IN  IF None \in ToSet(values) THEN None ELSE <<"list", values>>

\* next((kw.value for kw in node.keywords if kw.arg == k), None).
Keyword(n, k) ==
    LET found == {i \in DOMAIN n.kw : n.kw[i][1] = k}
    IN  IF found = {} THEN None ELSE n.kw[Min(found)][2]

IsCall(prog, i, name) == prog[i].kind = "call" /\ prog[i].name = name
HasCall(prog, name)   == \E i \in DOMAIN prog : IsCall(prog, i, name)
-----------------------------------------------------------------------------
ForbiddenModules == {"os", "sys", "subprocess"}
ForbiddenCalls   == {"exec", "eval", "compile"}
AllowedImports   == {"eigen_lang"}

\* _enforce_resource_limits.
OverLimits(prog) ==
    Len(prog) > MaxAstNodes \/ \E i \in DOMAIN prog : prog[i].depth > MaxAstDepth

\* _reject_forbidden_imports.
ForbiddenImport(n) == n.kind = "import" /\ n.name \notin AllowedImports

\* _reject_forbidden_calls: by name, whatever it is looked up in, or by module.
ForbiddenCall(n) == n.kind = "call" /\ (n.name \in ForbiddenCalls \/ n.base \in ForbiddenModules)

\* _reject_dynamic_control_flow.
DynamicControlFlow(n) == n.kind = "branch"

\* _validate_single_entrypoint, with _decorator_name.
Entrypoints(prog) == {i \in DOMAIN prog : prog[i].kind = "def" /\ prog[i].name = "hybrid_program"}

\* _validate_tree: the reason a source is refused with, or "none". The
\* violations are joined, so a limit names the reason of all of them.
TreeReason(prog) ==
    CASE OverLimits(prog) -> "resource_exhausted"
      [] \/ \E i \in DOMAIN prog : \/ ForbiddenImport(prog[i])
                                   \/ ForbiddenCall(prog[i])
                                   \/ DynamicControlFlow(prog[i])
         \/ Cardinality(Entrypoints(prog)) # 1 -> "invalid_argument"
      [] OTHER -> "none"
-----------------------------------------------------------------------------
\* An assignment of a Param("name", ...) call to one name, and its default: the
\* parameter's own name when none is written.
IsParam(prog, i) ==
    /\ prog[i].kind = "assign" /\ i < Len(prog) /\ IsCall(prog, i + 1, "Param")
    /\ prog[i + 1].args # <<>> /\ prog[i + 1].args[1][1] = "str"
ParamDefault(n) == IF Len(n.args) > 1 THEN LiteralScalar(n.args[2]) ELSE n.args[1]

BadParams(prog) == \E i \in DOMAIN prog : IsParam(prog, i) /\ ParamDefault(prog[i + 1]) = None

\* A dict entry: a key written again keeps its place.
PutParam(params, p) ==
    LET same == {k \in DOMAIN params : params[k].target = p.target}
    IN  IF same = {} THEN Append(params, p) ELSE [params EXCEPT ![Min(same)] = p]

\* _collect_params: the parameters by the name they are assigned to, in the
\* order of the walk.
CollectParams(prog) ==
    FoldLeft(LAMBDA params, i :
                IF ~IsParam(prog, i) THEN params
                ELSE PutParam(params, [target  |-> prog[i].name,
                                       name    |-> prog[i + 1].args[1][2],
                                       default |-> ParamDefault(prog[i + 1])]),
             <<>>, Walk(prog))

\* _resolve_observable_terms: the terms of an Observable(...) call, or None.
ObservableTerms(n) ==
    LET terms == [k \in DOMAIN n.kw |-> LiteralJsonish(n.kw[k][2])]
    IN  IF n.kind # "call" \/ n.name # "Observable" \/ n.kw = <<>> THEN None
        ELSE IF None \in ToSet(terms) THEN None ELSE <<"terms", terms>>

\* _collect_observable_bindings: the names bound to an observable.
CollectObservables(prog) ==
    {prog[i].name : i \in {j \in DOMAIN prog : /\ prog[j].kind = "assign" /\ j < Len(prog)
                                               /\ ObservableTerms(prog[j + 1]) # None}}

\* An observable= keyword that names a bound observable or writes one.
Observes(prog, e) ==
    \/ e[1] = "name" /\ e[2] \in CollectObservables(prog)
    \/ e[1] = "call" /\ ObservableTerms(e[2]) # None

\* _collect_expectation_annotation: the observable of the first ExpectationValue
\* of the walk that has one; None when there is none.
ExpectationAnnotation(prog) ==
    LET observing == {k \in DOMAIN prog :
                        LET i == Walk(prog)[k]
                        IN  /\ IsCall(prog, i, "ExpectationValue")
                            /\ Observes(prog, Keyword(prog[i], "observable"))}
    IN  IF observing = {} THEN None ELSE Keyword(prog[Walk(prog)[Min(observing)]], "observable")
-----------------------------------------------------------------------------
Rotations == {"rx", "ry", "rz"}
Singles   == {"x", "y", "z", "h", "s", "t", "reset"}
Pairs     == {"cx", "cnot", "cz", "swap"}
Triples   == {"ccx", "ccz"}
GateCalls == Rotations \cup Singles \cup Pairs \cup Triples \cup {"measure", "measure_all"}
MeasurementBases == {"X", "Y", "Z"}

\* name.upper(), with cnot written CX.
Opcode(name) ==
    [rx |-> "RX", ry |-> "RY", rz |-> "RZ", x |-> "X", y |-> "Y", z |-> "Z", h |-> "H", s |-> "S",
     t |-> "T", reset |-> "RESET", cx |-> "CX", cnot |-> "CX", cz |-> "CZ", swap |-> "SWAP",
     ccx |-> "CCX", ccz |-> "CCZ", measure |-> "MEASURE", measure_all |-> "MEASURE"][name]

Arity(name) ==
    IF name \in Rotations \cup Singles THEN 1 ELSE IF name \in Pairs THEN 2 ELSE 3

\* _resolve_int_expr over a list.
AllInts(es) == \A i \in DOMAIN es : LiteralScalar(es[i])[1] = "int"
IntsOf(es)  == [i \in DOMAIN es |-> LiteralScalar(es[i])[2]]

\* theta is the keyword, else the second argument.
ThetaExpr(n) ==
    IF Keyword(n, "theta") # None THEN Keyword(n, "theta")
    ELSE IF Len(n.args) >= 2 THEN n.args[2] ELSE None

\* _resolve_theta_expr: the name of the parameter, or the literal.
ThetaOf(e, params) ==
    IF e[1] = "name"
    THEN LET bound == {k \in DOMAIN params : params[k].target = e[2]}
         IN  IF bound = {} THEN None ELSE <<"str", params[Min(bound)].name>>
    ELSE LiteralScalar(e)

\* Why a measure call is refused.
MeasureReason(n) ==
    LET c == Keyword(n, "c")
        b == Keyword(n, "basis")
    IN  IF \/ ~AllInts(n.args) \/ n.args = <<>>
           \/ c # None /\ (IF c[1] = "list" THEN ~AllInts(c[2]) ELSE TRUE) THEN "invalid_argument"
        ELSE IF b # None /\ LiteralScalar(b) \notin {<<"str", x>> : x \in MeasurementBases}
        THEN "unimplemented" ELSE "none"

\* Why _collect_operations refuses a gate call ("none": it lowers it).
LowerReason(n, params) ==
    CASE n.name = "measure_all" -> "none"
      [] n.name = "measure" -> MeasureReason(n)
      [] OTHER ->
            LET arity == Arity(n.name)
            IN  IF \/ Len(n.args) < arity
                   \/ ~AllInts(SubSeq(n.args, 1, Min({arity, Len(n.args)})))
                   \/ n.name \in Rotations /\ ThetaOf(ThetaExpr(n), params) = None
                THEN "invalid_argument" ELSE "none"

UpTo(k) == [i \in 1..k |-> i - 1]
Operation(op, q, c, theta) == [op |-> op, q |-> q, c |-> c, theta |-> theta]

\* The operation of one gate call, with the qubits counted so far. The basis
\* of a measurement does not matter to any property here and is left out.
Lowered(n, params, qubits) ==
    CASE n.name = "measure_all" -> Operation("MEASURE", UpTo(qubits), UpTo(qubits), None)
      [] n.name = "measure" ->
            LET q == IntsOf(n.args)
                c == Keyword(n, "c")
            IN  Operation("MEASURE", q, IF c = None THEN UpTo(Len(q)) ELSE IntsOf(c[2]), None)
      [] OTHER -> Operation(Opcode(n.name), IntsOf(SubSeq(n.args, 1, Arity(n.name))), <<>>,
                            IF n.name \in Rotations THEN ThetaOf(ThetaExpr(n), params) ELSE None)

\* _collect_operations: the calls are lowered in the order of the walk, and the
\* first one that cannot be ends it. The calls field notes which call each
\* operation came from; the code keeps no such note.
CollectOperations(prog, params) ==
    FoldLeft(LAMBDA acc, i :
                LET n == prog[i]
                IN  IF acc.reason # "none" \/ n.kind # "call" \/ n.name \notin GateCalls THEN acc
                    ELSE IF LowerReason(n, params) # "none"
                         THEN [acc EXCEPT !.reason = LowerReason(n, params)]
                    ELSE LET o == Lowered(n, params, acc.qubits)
                         IN  [acc EXCEPT !.operations = Append(@, o), !.calls = Append(@, i),
                                !.qubits = Max({@} \cup {x + 1 : x \in ToSet(o.q) \cup ToSet(o.c)})],
             [operations |-> <<>>, calls |-> <<>>, qubits |-> 1, reason |-> "none"], Walk(prog))
-----------------------------------------------------------------------------
(***************************************************************************)
(* The AQO document between its producer and its consumer: what            *)
(* _build_compiler_pass_pipeline assembles and _validate_aqo_payload       *)
(* accepts (compiler.py), and what the simulator driver accepts            *)
(* (driver_manager/simulator_driver.py).                                   *)
(***************************************************************************)
AqoArity == [RX |-> 1, RY |-> 1, RZ |-> 1, CX |-> 2, CZ |-> 2, SWAP |-> 2, CCX |-> 3, CCZ |-> 3,
             X |-> 1, Y |-> 1, Z |-> 1, H |-> 1, S |-> 1, T |-> 1, RESET |-> 1]
AqoRotations == {"RX", "RY", "RZ"}

\* _rewrite_terminal_measurement: a circuit that does not end in a measurement
\* gets one of all its qubits.
RewriteTerminal(operations, qubits) ==
    IF operations # <<>> /\ operations[Len(operations)].op = "MEASURE" THEN operations
    ELSE Append(operations, Operation("MEASURE", UpTo(qubits), UpTo(qubits), None))

\* aqo["parameters"]: of two parameters with one name the one assigned to last.
AqoParameters(params) ==
    [s \in {p.name : p \in ToSet(params)} |->
        params[Max({k \in DOMAIN params : params[k].name = s})].default]

\* Mutant of ValidOperation: indices are not checked against the qubits.
ValidOperationAnyIndex(o, qubits) ==
    /\ o.q # <<>>
    /\ IF o.op = "MEASURE" THEN Len(o.c) = Len(o.q)
       ELSE /\ Len(o.q) = AqoArity[o.op] /\ o.c = <<>>
            /\ (o.theta # None) = (o.op \in AqoRotations)

\* One operation of _validate_aqo_payload.
ValidOperation(o, qubits) ==
    /\ o.q # <<>> /\ \A x \in ToSet(o.q) \cup ToSet(o.c) : x \in 0..(qubits - 1)
    /\ IF o.op = "MEASURE" THEN Len(o.c) = Len(o.q)
       ELSE /\ Len(o.q) = AqoArity[o.op] /\ o.c = <<>>
            /\ (o.theta # None) = (o.op \in AqoRotations)

\* _validate_aqo_payload, of the fields the compiler fills in.
ValidAqo(aqo) ==
    /\ aqo.qubits >= 1 /\ aqo.operations # <<>>
    /\ \A i \in DOMAIN aqo.operations : ValidOperation(aqo.operations[i], aqo.qubits)
    /\ \A s \in DOMAIN aqo.parameters : aqo.parameters[s][1] \in {"int", "float", "str"}
-----------------------------------------------------------------------------
MaxSimulatorQubits == 16
SupportedOps == {"RX", "RY", "RZ", "CX", "MEASURE"}

\* _resolve_theta_value, for an execution whose options bind nothing: a symbol
\* is followed through aqo.parameters until a number or a symbol seen before.
ThetaResolves(theta, parameters) ==
    LET follow[e \in {theta} \cup {parameters[s] : s \in DOMAIN parameters},
               seen \in SUBSET DOMAIN parameters] ==
            IF e[1] # "str" THEN TRUE
            ELSE IF e[2] \in seen \/ e[2] \notin DOMAIN parameters THEN FALSE
            ELSE follow[parameters[e[2]], seen \cup {e[2]}]
    IN  follow[theta, {}]

\* What _run_operations refuses of one operation.
RunsOperation(o, aqo) ==
    /\ \A x \in ToSet(o.q) : x \in 0..(aqo.qubits - 1)
    /\ CASE o.op \in AqoRotations -> Len(o.q) = 1 /\ o.theta # None /\ ThetaResolves(o.theta, aqo.parameters)
         [] o.op = "CX" -> Len(o.q) = 2 /\ o.q[1] # o.q[2]
         [] o.op = "MEASURE" -> /\ Len(o.c) = Len(o.q) /\ IsInjective(o.c)
                                /\ \A x \in ToSet(o.c) : x >= 0

\* The error code execute_circuit ends with, "OK" when the circuit runs.
SimulatorCode(aqo) ==
    IF \E i \in DOMAIN aqo.operations : aqo.operations[i].op \notin SupportedOps THEN "UNIMPLEMENTED"
    ELSE IF aqo.qubits > MaxSimulatorQubits THEN "RESOURCE_EXHAUSTED"
    ELSE IF aqo.qubits > 0 /\ \A i \in DOMAIN aqo.operations : RunsOperation(aqo.operations[i], aqo)
    THEN "OK" ELSE "INVALID_ARGUMENT"
=============================================================================
