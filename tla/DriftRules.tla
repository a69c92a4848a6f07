------------------------------ MODULE DriftRules ------------------------------
(***************************************************************************)
(* When two fingerprints of a device count as drifted, and which qubits are  *)
(* then recalibrated (core/src/qubitos/calibrator/fingerprint.py, drift.py,  *)
(* and the policy of active.py).  Frequencies are in 0.1 MHz from 5 GHz,     *)
(* coherence times in microseconds, fidelities in 1/10000, fractions of a    *)
(* threshold in percent.                                                     *)
(***************************************************************************)
EXTENDS Integers, FiniteSets, FiniteSetsExt, Sequences, SequencesExt

Fidelity == 0..10000

Reading == [frequency : Int, t1 : Nat, t2 : Nat, gate : Fidelity, readout : Fidelity]

\* A fingerprint lists the qubits it covers, each with its reading.
Fingerprint == Seq([index : Nat, reading : Reading])

\* FingerprintConfig: 1 MHz, 20 %, 20 %, 0.01 and 0.3.
Threshold == [frequency |-> 10, t1 |-> 20, t2 |-> 20, fidelity |-> 100]
OverallThreshold == 30

AbsDiff(x, y) == IF x < y THEN y - x ELSE x - y
PercentDrift(old, new) == IF old > 0 THEN (100 * AbsDiff(old, new)) \div old
                          ELSE IF new # 0 THEN 100 ELSE 0

\* What changed from one reading to another; only a loss of fidelity counts.
QubitDrift(old, new) ==
  [frequency |-> AbsDiff(old.frequency, new.frequency),
   t1        |-> PercentDrift(old.t1, new.t1),
   t2        |-> PercentDrift(old.t2, new.t2),
   gate      |-> old.gate - new.gate,
   readout   |-> old.readout - new.readout]

Share(drift, threshold) == Min({(100 * drift) \div threshold, 100})

Compared(old, new) == 1..Min({Len(old), Len(new)})

\* The drift of the qubits both list, paired by their place in the lists.
ComparePaired(old, new) ==
  LET drifts == [k \in Compared(old, new) |-> QubitDrift(old[k].reading, new[k].reading)]
      worst(f(_)) == Max({0} \cup {f(drifts[k]) : k \in DOMAIN drifts})
      frequency == worst(LAMBDA d : d.frequency)
      t1 == worst(LAMBDA d : d.t1)
      t2 == worst(LAMBDA d : d.t2)
      fidelity == worst(LAMBDA d : Max({d.gate, d.readout}))
      score == (15 * (Share(frequency, Threshold.frequency) + Share(t1, Threshold.t1)
                      + Share(t2, Threshold.t2))
                + 55 * Share(fidelity, Threshold.fidelity)) \div 100
  IN [score |-> score,
      recalibrate |-> \/ frequency > Threshold.frequency \/ t1 > Threshold.t1
                      \/ t2 > Threshold.t2 \/ fidelity > Threshold.fidelity
                      \/ score > OverallThreshold,
      drifted |-> [k \in DOMAIN drifts |-> [index |-> old[k].index, drift |-> drifts[k]]]]

\* Fingerprints of different numbers of qubits are compared as far as they go.
CompareAnyway(old, new) == ComparePaired(old, new)

\* CalibrationFingerprint.compare
Compare(old, new) ==
  IF Len(old) # Len(new)
  THEN [score |-> 100, recalibrate |-> TRUE, drifted |-> <<>>]
  ELSE ComparePaired(old, new)

\* DriftMonitor._classify_severity, with the default moderate_fraction and critical_multiplier.
Severity(metrics) ==
  IF metrics.score >= 2 * OverallThreshold THEN "critical"
  ELSE IF metrics.recalibrate THEN "high"
  ELSE IF 2 * metrics.score >= OverallThreshold THEN "moderate"
  ELSE IF metrics.score > 0 THEN "low" ELSE "none"

\* Only critical drift is acted upon.
NeedsActionLate(severity) == severity = "critical"

NeedsAction(severity) == severity \in {"high", "critical"}

\* sorted() of different numbers: the k-th has k - 1 smaller ones.
Ascending(S) == [k \in 1..Cardinality(S) |-> CHOOSE n \in S : Cardinality({m \in S : m < n}) = k - 1]

\* DriftMonitor._find_affected_qubits, sorted; it does not look at the readout.  Of a qubit
\* that is listed twice the dictionary has the later drift.
Affected(metrics) ==
  LET drifted == metrics.drifted
      over(d) == \/ d.frequency > Threshold.frequency
                 \/ d.t1 > Threshold.t1 \/ d.t2 > Threshold.t2
                 \/ d.gate > Threshold.fidelity
      hit == {k \in DOMAIN drifted : /\ over(drifted[k].drift)
                                     /\ \A m \in DOMAIN drifted : drifted[m].index = drifted[k].index => m <= k}
  IN Ascending({drifted[k].index : k \in hit})

\* RecalibrationPolicy.decide, for an event that needs action.
Decide(policy, severity, affected) ==
  IF policy.strategy = "full" \/ affected = <<>>
     \/ (policy.strategy = "adaptive" /\ severity = "critical")
  THEN policy.all ELSE affected
=============================================================================
