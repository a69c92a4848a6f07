--------------------------- MODULE MCPulseScheduler ---------------------------
(***************************************************************************)
(* A nanosecond is 8 units and an AWG sample 16; pulses of 1.5 and 2.5 ns    *)
(* are multiples of neither.  One call with three operations on two qubits,  *)
(* under one constraint of any kind or two that order them, with and without *)
(* an AWG and a coupled pair; two calls that share a budget.                 *)
(***************************************************************************)
EXTENDS PulseScheduler

Operation(qubits, duration) == [qubits |-> qubits, duration |-> duration]
Rule(kind, a, b, tolerance) ==
  [kind |-> kind, a |-> a, b |-> b, tolerance |-> tolerance, fraction |-> 2]
Call(ops, constraints, crosstalk, awg) ==
  [ops |-> ops, constraints |-> constraints, crosstalk |-> crosstalk, awg |-> awg]

Pairs == {p \in (1..3) \X (1..3) : p[1] # p[2]}
One == {<<Rule(kind, p[1], p[2], 4)>> : kind \in Kinds, p \in Pairs}
Two == {<<Rule("sequential", p[1], p[2], 0), Rule("max_delay", q[1], q[2], 0)>> :
          p \in Pairs, q \in Pairs}

Threes == {<<Operation(a, 12), Operation(b, d), Operation(c, 12)>> :
             a \in {<<0>>, <<1>>}, b \in {<<0>>, <<0, 1>>}, c \in {<<0>>, <<1>>}, d \in {12, 20}}
Settings == {<<<<>>, FALSE>>, <<<<>>, TRUE>>, <<<<<<0, 1>>>>, FALSE>>}

OneCall == {<<Call(ops, rules, s[1], s[2])>> : ops \in Threes, rules \in One \cup Two, s \in Settings}

\* Pulses too short and too long for the AWG, on either clock; an unknown operation.
Singles == {Call(<<Operation(<<0>>, d)>>, <<>>, <<>>, awg) : d \in {0, 4, 20, 76}, awg \in BOOLEAN}
             \cup {Call(<<Operation(<<0, 1>>, 12)>>, <<Rule("sequential", 1, 2, 0)>>, <<>>, FALSE),
                   Call(<<>>, <<>>, <<>>, FALSE)}
TwoCalls == {<<p, q>> : p \in Singles, q \in Singles}

MCSessions == OneCall \cup TwoCalls
\* Four operations of which the second waits for the first: the pulse placed third lies
\* before the second, which the fourth then meets first and leaves behind.
OutOfOrder == {<<Call(<<Operation(<<1>>, 160), Operation(q, 80), Operation(<<0>>, 160), Operation(<<0>>, 40)>>,
                      <<Rule("sequential", 1, 2, 0)>>, <<>>, FALSE)>> : q \in {<<0>>, <<0, 1>>}}

MCT2Limit == [q \in 0..1 |-> IF q = 0 THEN 48 ELSE 0]
NoT2Limit == [q \in 0..1 |-> 0]
=============================================================================
