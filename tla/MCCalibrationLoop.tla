--------------------------- MODULE MCCalibrationLoop ---------------------------
(***************************************************************************)
(* Two qubits that lose coherence, move in frequency or lose fidelity; every *)
(* strategy, and the policy whose list of qubits is left at its default.     *)
(***************************************************************************)
EXTENDS CalibrationLoop

MCNominal == [frequency |-> 0, t1 |-> 50, t2 |-> 40, gate |-> 9990, readout |-> 9900]
MCReadings == {MCNominal,
               [MCNominal EXCEPT !.t1 = 45], [MCNominal EXCEPT !.frequency = 20],
               [MCNominal EXCEPT !.gate = 9800, !.t1 = 30]}
MCPolicies == {[strategy |-> s, all |-> <<0, 1>>] : s \in {"selective", "adaptive"}}
                \cup {[strategy |-> "full", all |-> <<0>>]}
=============================================================================
