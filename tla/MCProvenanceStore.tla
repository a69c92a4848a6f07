--------------------------- MODULE MCProvenanceStore ---------------------------
(***************************************************************************)
(* Two processes that keep two and one trees.  The experiments differ in a  *)
(* pulse, in an event or in metadata; one cannot be written.                 *)
(***************************************************************************)
EXTENDS ProvenanceDiff

CONSTANTS p1, p2

P(label, content) == [label |-> label, content |-> content]
E(pulses, events, json) ==
  [qubits |-> <<P("q0", "c1")>>, pulses |-> pulses, config |-> <<>>, events |-> events, json |-> json]

MCExperiments == {E(<<>>, <<>>, TRUE),
                  E(<<P("x_q0", "c1"), P("y_q0", "c2")>>, <<>>, TRUE),
                  E(<<P("x_q0", "c2"), P("y_q0", "c2")>>, <<P("drift", "c1")>>, TRUE),
                  E(<<P("y_q0", "c2"), P("x_q0", "c2")>>, <<P("drift", "c1")>>, FALSE)}
MCMaxEntries == [p \in Processes |-> IF p = p1 THEN 2 ELSE 1]

=============================================================================
