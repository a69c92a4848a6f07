---------------------------- MODULE CalibrationLoop ----------------------------
(***************************************************************************)
(* The loop that keeps a device calibrated (core/src/qubitos/calibrator/    *)
(* active.py, with drift.py, fingerprint.py and runner.py).  A cycle         *)
(* compares a fingerprint of the device with the baseline and, if it has     *)
(* drifted, measures some qubits anew, one after the other, while the device  *)
(* drifts on.  The monitor is used "from a single async task".               *)
(***************************************************************************)
EXTENDS DriftRules

CONSTANTS
  NumQubits,   \* the device has the qubits 0..NumQubits-1
  Readings,    \* the readings a qubit can have
  Nominal,     \* the reading of every qubit when the loop is set up
  Policies,    \* the policies the loop may be set up with
  Cooldown,    \* cooldown_s
  MaxTime, MaxCycles, MaxDrifts \* bounds of the model

DeviceQubits == 0..(NumQubits - 1)
\* max_recals_per_hour, which no line of the code reads, is left out.
PolicyType == [strategy : {"selective", "full", "adaptive"}, all : Seq(DeviceQubits)]

ASSUME LoopAssumption ==
  /\ NumQubits \in Nat \ {0} /\ Readings \subseteq Reading /\ Nominal \in Readings
  /\ \A p \in Policies : p \in PolicyType /\ p.all # <<>>
  /\ Cooldown \in Nat /\ MaxTime \in Nat /\ MaxCycles \in Nat /\ MaxDrifts \in Nat

VARIABLES
  device,    \* the true reading of each qubit
  drifts,    \* how often it changed
  now,
  policy,
  baseline,  \* DriftMonitor._baseline
  cycles,    \* _cycle_count
  lastRecal, \* _last_recal_time
  history,   \* _history
  cyclePhase,     \* between cycles, or awaiting full_calibration
  began,     \* when the cycle that awaits it began, 0 between cycles
  todo,      \* the qubits it was called with, none between cycles
  measured   \* the fingerprint of those measured so far

calibrationVars == <<device, drifts, now, policy, baseline, cycles, lastRecal, history, cyclePhase, began, todo, measured>>
loopVars == <<policy, baseline, cycles, lastRecal, history, cyclePhase, began, todo, measured>>

ActionType == [type : {"measured", "drift_detected", "skipped", "recalibrated", "error"},
               qubits : Seq(DeviceQubits), began : 0..MaxTime, at : 0..MaxTime]

\* -infinity is any time the cooldown has long passed since.
LongAgo == -Cooldown

CalibrationTypeOK ==
  /\ device \in [DeviceQubits -> Readings] /\ drifts \in 0..MaxDrifts
  /\ now \in 0..MaxTime /\ began \in 0..MaxTime
  /\ policy \in Policies
  /\ baseline \in Fingerprint /\ measured \in Fingerprint
  /\ cycles \in 0..MaxCycles
  /\ lastRecal \in {LongAgo} \cup 0..now
  /\ history \in Seq(ActionType) /\ Len(history) <= cycles
  /\ cyclePhase \in {"idle", "recalibrating"}
  /\ todo \in Seq(DeviceQubits) /\ Len(measured) <= Len(todo)

\* The fingerprint a caller takes of the device, from its calibration file or a sweep.
DevicePrint == [k \in 1..NumQubits |-> [index |-> k - 1, reading |-> device[k - 1]]]

CalibrationInit ==
  /\ device = [q \in DeviceQubits |-> Nominal] /\ drifts = 0 /\ now = 0
  /\ policy \in Policies
  /\ baseline = DevicePrint
  /\ cycles = 0 /\ lastRecal = LongAgo /\ history = <<>>
  /\ cyclePhase = "idle" /\ began = 0 /\ todo = <<>> /\ measured = <<>>

-----------------------------------------------------------------------------
(* The device and the clock                                                 *)

Drift ==
  /\ drifts < MaxDrifts
  /\ \E q \in DeviceQubits, r \in Readings : r # device[q] /\ device' = [device EXCEPT ![q] = r]
  /\ drifts' = drifts + 1
  /\ UNCHANGED <<now, loopVars>>

Tick ==
  /\ now < MaxTime /\ now' = now + 1
  /\ UNCHANGED <<device, drifts, loopVars>>

-----------------------------------------------------------------------------
(* ActiveCalibrationLoop.run_once, up to its await and after it             *)

Record(type, qubits, since) ==
  history' = Append(history, [type |-> type, qubits |-> qubits, began |-> since, at |-> now])

Metrics == Compare(baseline, DevicePrint)
Chosen == Decide(policy, Severity(Metrics), Affected(Metrics))

StartCycle ==
  /\ cyclePhase = "idle" /\ cycles < MaxCycles /\ cycles' = cycles + 1
  /\ \/ /\ ~NeedsAction(Severity(Metrics))
        /\ Record(IF Severity(Metrics) = "none" THEN "measured" ELSE "drift_detected", <<>>, now)
        /\ UNCHANGED <<cyclePhase, began, todo>>
     \/ /\ NeedsAction(Severity(Metrics)) /\ now - lastRecal < Cooldown
        /\ Record("skipped", <<>>, now)
        /\ UNCHANGED <<cyclePhase, began, todo>>
     \/ /\ NeedsAction(Severity(Metrics)) /\ now - lastRecal >= Cooldown
        /\ cyclePhase' = "recalibrating" /\ began' = now
        /\ todo' = Chosen
        /\ UNCHANGED history
  /\ UNCHANGED <<device, drifts, now, policy, baseline, lastRecal, measured>>

\* full_calibration measures T1 and T2 of a qubit, a fit that does not converge counting
\* as 0; frequency and fidelities it leaves at the defaults of QubitCalibration.
Calibrated(q, t1, t2) ==
  [index |-> q, reading |-> [frequency |-> 0, t1 |-> t1, t2 |-> t2, gate |-> 9990, readout |-> 9900]]

MeasureQubit ==
  /\ cyclePhase = "recalibrating" /\ Len(measured) < Len(todo)
  /\ LET q == todo[Len(measured) + 1] IN
       \E t1 \in {0, device[q].t1}, t2 \in {0, device[q].t2} :
         measured' = Append(measured, Calibrated(q, t1, t2))
  /\ UNCHANGED <<device, drifts, now, policy, baseline, cycles, lastRecal, history, cyclePhase, began, todo>>

Idle == cyclePhase' = "idle" /\ began' = 0 /\ todo' = <<>> /\ measured' = <<>>

Recalibrated ==
  /\ cyclePhase = "recalibrating" /\ Len(measured) = Len(todo)
  /\ baseline' = measured /\ lastRecal' = now
  /\ Record("recalibrated", todo, began)
  /\ Idle
  /\ UNCHANGED <<device, drifts, now, policy, cycles>>

\* A measurement raises; or the task is cancelled, which except Exception does not catch.
Fails ==
  /\ cyclePhase = "recalibrating" /\ Len(measured) < Len(todo)
  /\ Record("error", <<>>, began) /\ Idle
  /\ UNCHANGED <<device, drifts, now, policy, baseline, cycles, lastRecal>>

Cancelled ==
  /\ cyclePhase = "recalibrating" /\ Len(measured) < Len(todo)
  /\ Idle
  /\ UNCHANGED <<device, drifts, now, policy, baseline, cycles, lastRecal, history>>

CalibrationNext == Drift \/ Tick \/ StartCycle \/ MeasureQubit \/ Recalibrated \/ Fails \/ Cancelled

CalibrationSpec == CalibrationInit /\ [][CalibrationNext]_calibrationVars

-----------------------------------------------------------------------------
(* Properties                                                               *)

\* The history has recalibrations at i and at j and none between them.
Consecutive(i, j) ==
  /\ i < j /\ history[i].type = "recalibrated" /\ history[j].type = "recalibrated"
  /\ \A k \in (i + 1)..(j - 1) : history[k].type # "recalibrated"

\* A cycle that takes no action leaves no qubit that has drifted over a threshold from the
\* baseline of that same qubit, and no qubit without a baseline (fingerprint.py 181-228,
\* drift.py 145-197, active.py 224-240).
NoDriftMissed ==
  [][Len(history') > Len(history) /\ history'[Len(history')].type \in {"measured", "drift_detected"} =>
       \A q \in DeviceQubits : \E k \in DOMAIN baseline :
         /\ baseline[k].index = q
         /\ LET d == QubitDrift(baseline[k].reading, device[q]) IN
              /\ d.frequency <= Threshold.frequency
              /\ d.t1 <= Threshold.t1 /\ d.t2 <= Threshold.t2
              /\ d.gate <= Threshold.fidelity /\ d.readout <= Threshold.fidelity]_calibrationVars

\* A recalibration of some qubits leaves a baseline of those alone, so that, whatever the
\* strategy, the next one is of all (active.py 271-278, fingerprint.py 181-186).
PartialForcesFull ==
  \A i, j \in DOMAIN history :
    Consecutive(i, j) /\ Len(history[i].qubits) < NumQubits => history[j].qubits = policy.all
=============================================================================
