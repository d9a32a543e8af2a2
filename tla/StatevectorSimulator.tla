------------------------- MODULE StatevectorSimulator -------------------------
(***************************************************************************)
(* SimulatorDriver.execute_circuit (driver_manager/simulator_driver.py):   *)
(* the walk over the operations of an AQO payload, the statevector, the    *)
(* measurement map and what is sampled and averaged from them.             *)
(*                                                                         *)
(* Angles are quarter turns: a rotation by theta = a * pi/2. Then every    *)
(* matrix entry is a Gaussian integer over sqrt(2), and the amplitudes are *)
(* exact: the amplitude of a basis state is amp[b] / sqrt(2)^halvings,     *)
(* with amp[b] a pair <<re, im>>.                                          *)
(***************************************************************************)
EXTENDS Integers, Sequences, FiniteSets, FiniteSetsExt, SequencesExt

CONSTANTS Qubits,      \* payload["qubits"]
          MaxOperations, \* bound: operations of a circuit
          MeasureOps,  \* the q[] and c[] a MEASURE operation may have
          Parameters,  \* payload["parameters"]: symbol -> angle or symbol
          Options,     \* options: symbol -> angle or symbol
          Symbols      \* the symbols an operation may name

ASSUME SimulatorAssumption == Qubits \in 1..16 /\ MaxOperations \in Nat

VARIABLES amp, halvings,
          measures,    \* the list of (qubit, cbit) maps
          walked,      \* operations walked
          touched,     \* qubits a gate has acted on after they were measured
          outcome      \* "running", "sampled" or the error raised

simulatorVars == <<amp, halvings, measures, walked, touched, outcome>>

Basis == 0..(2^Qubits - 1)
Bit(b, q) == (b \div 2^q) % 2
Flip(b, q) == IF Bit(b, q) = 0 THEN b + 2^q ELSE b - 2^q

SimulatorInit ==
    /\ amp = [b \in Basis |-> IF b = 0 THEN <<1, 0>> ELSE <<0, 0>>]
    /\ halvings = 0 /\ measures = <<>> /\ walked = 0 /\ touched = {} /\ outcome = "running"
-----------------------------------------------------------------------------
\* Gaussian integers.
Add(x, y)  == <<x[1] + y[1], x[2] + y[2]>>
Times(x, y) == <<x[1] * y[1] - x[2] * y[2], x[1] * y[2] + x[2] * y[1]>>
Conj(x)    == <<x[1], -x[2]>>
Norm(x)    == x[1] * x[1] + x[2] * x[2]

\* cos(theta/2) and sin(theta/2) times sqrt(2), for a = 0..3 quarter turns; a
\* whole number of half turns needs no root, and is scaled back below.
CosHalf(a) == <<1, 1, 0, -1>>[a + 1]
SinHalf(a) == <<0, 1, 1, 1>>[a + 1]
Rooted(a)  == a % 2 = 1

\* The matrix of _apply_single_qubit_rotation, row by row.
Rotation(op, a) ==
    LET c == CosHalf(a)  s == SinHalf(a)
    IN  CASE op = "RX" -> << << <<c, 0>>, <<0, -s>> >>, << <<0, -s>>, <<c, 0>> >> >>
          [] op = "RY" -> << << <<c, 0>>, <<-s, 0>> >>, << <<s, 0>>, <<c, 0>> >> >>
          [] op = "RZ" -> << << <<c, -s>>, <<0, 0>> >>, << <<0, 0>>, <<c, s>> >> >>

\* _apply_single_qubit_rotation.
ApplyRotation(state, q, op, a) ==
    LET m == Rotation(op, a)
    IN  [b \in Basis |->
            LET r == Bit(b, q)
                lower == IF r = 0 THEN b ELSE Flip(b, q)
            IN  Add(Times(m[r + 1][1], state[lower]), Times(m[r + 1][2], state[Flip(lower, q)]))]

\* _apply_cx: the loop swaps each pair once, from its lower half.
ApplyCX(state, control, target) ==
    [b \in Basis |-> IF Bit(b, control) = 1 THEN state[Flip(b, target)] ELSE state[b]]
-----------------------------------------------------------------------------
Turns == [zero |-> 0, quarter |-> 1, half |-> 2, three |-> 3]
Numeric(v) == v \in DOMAIN Turns

\* Where a symbol is looked up: the payload's parameters, then the options (by
\* its own name or with one of the param prefixes).
Binding(v, params, opts) ==
    IF v \in DOMAIN params THEN params[v] ELSE IF v \in DOMAIN opts THEN opts[v] ELSE "unresolved"

\* _resolve_theta_value, with the symbols seen so far.
Theta(v, params, opts) ==
    LET resolve[x \in Symbols \cup DOMAIN Turns \cup {"unresolved"}, seen \in SUBSET Symbols] ==
            IF Numeric(x) THEN x
            ELSE IF x = "unresolved" \/ x \in seen THEN "INVALID_ARGUMENT"
            ELSE resolve[Binding(x, params, opts), seen \cup {x}]
    IN  resolve[v, {}]

Touch(qs) == touched' = touched \cup {q \in qs : \E i \in DOMAIN measures : measures[i].qubit = q}
Fails(code) ==
    outcome' = code /\ UNCHANGED <<amp, halvings, measures, walked, touched>>

\* An RX, RY or RZ operation.
RunRotation(op, q, v) ==
    /\ outcome = "running" /\ walked < MaxOperations
    /\ LET theta == Theta(v, Parameters, Options)
       IN  IF ~Numeric(theta) \/ q \notin 0..(Qubits - 1) THEN Fails("INVALID_ARGUMENT")
           ELSE /\ amp' = ApplyRotation(amp, q, op, Turns[theta])
                /\ halvings' = IF Rooted(Turns[theta]) THEN halvings + 1 ELSE halvings
                /\ walked' = walked + 1 /\ Touch({q})
                /\ UNCHANGED <<measures, outcome>>

\* A CX operation.
RunCX(control, target) ==
    /\ outcome = "running" /\ walked < MaxOperations
    /\ IF {control, target} \subseteq 0..(Qubits - 1) /\ control # target
       THEN /\ amp' = ApplyCX(amp, control, target)
            /\ walked' = walked + 1 /\ Touch({control, target})
            /\ UNCHANGED <<halvings, measures, outcome>>
       ELSE Fails("INVALID_ARGUMENT")

\* The weight of the basis states in a set, over 2^halvings.
Weight(states) == MapThenSumSet(LAMBDA b : Norm(amp[b]), states)
WeightOfOne(q) == Weight({b \in Basis : Bit(b, q) = 1})

\* A MEASURE operation: c[] has the length of q[] and no repetition; nothing is
\* read from the state yet.
RunMeasure(qs, cs) ==
    /\ outcome = "running" /\ walked < MaxOperations
    /\ IF Len(qs) # Len(cs) \/ ~IsInjective(cs) \/ ToSet(qs) \ (0..(Qubits - 1)) # {}
       THEN Fails("INVALID_ARGUMENT")
       ELSE /\ measures' = measures \o [i \in 1..Len(qs) |->
                    [qubit |-> qs[i], cbit |-> cs[i], weight |-> WeightOfOne(qs[i]), scale |-> 2^halvings]]
            /\ walked' = walked + 1
            /\ UNCHANGED <<amp, halvings, touched, outcome>>

\* The default when no MEASURE was met.
MeasureMap ==
    IF measures = <<>> THEN [i \in 1..Qubits |-> [qubit |-> i - 1, cbit |-> i - 1]]
                       ELSE measures

\* Mutant of Classical: the first map to a classical bit wins.
ClassicalFirst(b) ==
    [c \in 0..Max({m.cbit : m \in ToSet(MeasureMap)}) |->
        LET maps == {i \in DOMAIN MeasureMap : MeasureMap[i].cbit = c}
        IN  IF maps = {} THEN 0 ELSE Bit(b, MeasureMap[Min(maps)].qubit)]

\* The classical register _sample_counts writes for one sampled basis state:
\* the last map to a bit wins, a bit no map names is 0.
Classical(b) ==
    [c \in 0..Max({m.cbit : m \in ToSet(MeasureMap)}) |->
        LET maps == {i \in DOMAIN MeasureMap : MeasureMap[i].cbit = c}
        IN  IF maps = {} THEN 0 ELSE Bit(b, MeasureMap[Max(maps)].qubit)]

\* _sample_counts: random.choices with the squared moduli as weights.
Sample ==
    /\ outcome = "running"
    /\ outcome' = "sampled"
    /\ UNCHANGED <<amp, halvings, measures, walked, touched>>

SimulatorNext ==
    \/ \E op \in {"RX", "RY", "RZ"}, q \in 0..Qubits, v \in Symbols \cup DOMAIN Turns : RunRotation(op, q, v)
    \/ \E control, target \in 0..(Qubits - 1) : RunCX(control, target)
    \/ \E m \in MeasureOps : RunMeasure(m.q, m.c)
    \/ Sample
-----------------------------------------------------------------------------
\* _statevector_expectation of one Pauli operator on a list of qubits, times
\* 2^halvings. The phases of Y multiply to i for either value of the bit.
ExpectationPhase(op, b, qs) ==
    FoldSet(LAMBDA q, phase :
               LET bit == Bit(b, q)
                   z   == IF op \in {"Z", "Y"} /\ bit = 1 THEN <<-1, 0>> ELSE <<1, 0>>
                   y   == IF op # "Y" THEN <<1, 0>> ELSE IF bit = 0 THEN <<0, 1>> ELSE <<0, -1>>
               IN  Times(phase, Times(z, y)),
            <<1, 0>>, qs)

ExpectationTarget(op, b, qs) ==
    IF op = "Z" THEN b ELSE FoldSet(LAMBDA q, t : Flip(t, q), b, qs)
Expectation(op, qs) ==
    MapThenSumSet(LAMBDA b : Times(Times(Conj(amp[b]), ExpectationPhase(op, b, qs)),
                                   amp[ExpectationTarget(op, b, qs)])[1], Basis)

\* The reference: the Pauli matrix applied to each qubit, then the inner product.
Pauli == [X |-> << << <<0, 0>>, <<1, 0>> >>, << <<1, 0>>, <<0, 0>> >> >>,
          Z |-> << << <<1, 0>>, <<0, 0>> >>, << <<0, 0>>, <<-1, 0>> >> >>]
ApplyPauli(state, q, op) ==
    [b \in Basis |-> LET r == Bit(b, q)
                     IN  Add(Times(Pauli[op][r + 1][r + 1], state[b]),
                             Times(Pauli[op][r + 1][2 - r], state[Flip(b, q)]))]
PauliMean(op, qs) ==
    LET image == FoldSet(LAMBDA q, state : ApplyPauli(state, q, op), amp, qs)
    IN  MapThenSumSet(LAMBDA b : Times(Conj(amp[b]), image[b])[1], Basis)
-----------------------------------------------------------------------------
\* The statevector stays normalised through every circuit, so the weights
\* _sample_counts draws from are probabilities.
NormKept == Weight(Basis) = 2^halvings

\* The energy reported at the end for X and Z observables is the quantum mean
\* value; that of Y on an odd number of qubits is 0 whatever the circuit did,
\* which is not.
EnergyIsMean ==
    outcome = "sampled" => \A qs \in SUBSET (0..(Qubits - 1)) \ {{}} :
        /\ \A op \in {"X", "Z"} : Expectation(op, qs) = PauliMean(op, qs)
        /\ Cardinality(qs) % 2 = 1 => Expectation("Y", qs) = 0

\* Nothing is read when MEASURE is met, all of it at the end. Still the share
\* of ones in a classical bit is the probability the qubit measured into it
\* last had at that moment, whatever happened to other qubits in between. The
\* exception is a qubit that a gate acted on after it was measured.
DeferredMeasureFaithful ==
    outcome = "sampled" =>
        \A i \in DOMAIN measures :
            (/\ measures[i].qubit \notin touched
             /\ \A j \in DOMAIN measures : measures[j].cbit = measures[i].cbit => j <= i)
                => Weight({b \in Basis : Classical(b)[measures[i].cbit] = 1}) * measures[i].scale
                       = measures[i].weight * 2^halvings

\* The reference: the value after a number of hops along the bindings.
Tables == UNION {[keys -> {"half"} \cup Symbols] : keys \in SUBSET Symbols}
HopsTo(v, params, opts, hops) ==
    FoldLeft(LAMBDA x, n : IF x \in DOMAIN params THEN params[x]
                           ELSE IF x \in DOMAIN opts THEN opts[x] ELSE x,
             v, [n \in 1..hops |-> n])
\* Over all tables of the payload and the options: a symbol resolves to a
\* number exactly when following its bindings, the payload's first, gets there
\* within as many hops as there are symbols, and a circular chain is refused.
ThetaFollowsBindings ==
    (walked = 0 /\ outcome = "sampled") =>
        \A params, opts \in Tables, v \in Symbols :
            LET end == HopsTo(v, params, opts, Cardinality(Symbols))
            IN  Theta(v, params, opts) = IF Numeric(end) THEN end ELSE "INVALID_ARGUMENT"

\* The simulator is a quantum computer on the circuits it accepts: the state stays
\* normalised, expectation values are those of the samples, measuring late is
\* measuring in place, and an angle follows its bindings.
SimulatorFaithful ==
    /\ NormKept /\ EnergyIsMean /\ DeferredMeasureFaithful
    /\ ThetaFollowsBindings
=============================================================================
