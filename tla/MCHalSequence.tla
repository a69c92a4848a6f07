----------------------------- MODULE MCHalSequence -----------------------------
(***************************************************************************)
(* A nanosecond is 2 units and a sample 3, so that either clock moves some    *)
(* time of the callers; sequences of up to three pulses and a constraint, on one *)
(* or both qubits, one of them listed twice; requests with an identifier       *)
(* twice or unknown.                                                         *)
(***************************************************************************)
EXTENDS HalSequence

\* The second qubit has a long T2 that its T1 limits, the first an unknown T1; the last
\* two are refused.
MCBudgets ==
  LET b(t1, t2, warn, block) == [t1 |-> [q \in Qubits |-> IF q = 0 THEN 0 ELSE t1],
                                 t2 |-> [q \in Qubits |-> IF q = 0 THEN 6 ELSE t2],
                                 warn |-> warn, block |-> block]
  IN {b(4, 8, 4, 8), b(4, 8, 4, Never), b(4, 9, 4, 8), b(4, 8, 8, 8)}

MCQubitLists == {<<0>>, <<0, 1>>, <<1, 1>>}

Message(id, start, duration) == [id |-> id, start |-> start, duration |-> duration]
Rule(kind, a, b, tolerance) == [kind |-> kind, a |-> a, b |-> b, tolerance |-> tolerance, fraction |-> 2]
MCAsked == {Rule(kind, p[1], p[2], t) : kind \in Kinds, p \in {<<"x", "y">>, <<"y", "x">>}, t \in {0, 2}}
             \cup {Rule("aligned", "x", "x", 0), [Rule("aligned", "x", "y", 2) EXCEPT !.fraction = 4]}

MCRequests ==
  {[pulses |-> ps, constraints |-> <<Rule(kind, "x", b, t)>>] :
     ps \in {<<Message("x", s, 4), Message("y", u, 2)>> : s \in {0, 6}, u \in {0, 4}}
              \cup {<<Message("x", 0, 4), Message("x", 6, 2), Message("y", 4, 2)>>},
     kind \in Kinds \cup {"unspecified"}, b \in {"y", "z"}, t \in {-2, 0, 2}}
=============================================================================
