---------------------------- MODULE CloudBackends ----------------------------
(***************************************************************************)
(* A whole execute_pulse of a cloud backend, from the handler that calls it to  *)
(* what its client reads: the circuit the pulse becomes (PulseCircuits), the    *)
(* job's life (RemoteJobs), the result made of what the service returned, and   *)
(* the status an error turns into (HalErrors).                               *)
(***************************************************************************)
EXTENDS RemoteJobs, HalErrors, PulseCircuits

CONSTANTS
  Pulses,        \* the pulses handlers pass on
  DeviceQubits   \* the qubit count of each provider's device

ASSUME CloudAssumption == Pulses \subseteq PulseType /\ DeviceQubits \in [Providers -> Nat \ {0}]

VARIABLES
  caller,   \* the server of the handler
  pulse,    \* the request, or <<>> before the call
  circuit,  \* the circuit submitted
  result,   \* [device, result]: what the service returned and the MeasurementResult, or <<>>
  status    \* what the client reads: "none" before, "ok" or the status of an error

own == <<caller, pulse, circuit, result, status>>
cloudVars == <<vars, own>>

-----------------------------------------------------------------------------
(* Results                                                                  *)

\* What a finished job holds.  IQM: measurements with one row per shot, and warnings.
\* IBM: results, with counts and shots.  Braket: counts and measured_shots, each optional.
Outputs(shots) == [data : BOOLEAN, measured : 0..shots, reported : BOOLEAN, warned : BOOLEAN]
NoResult(out) == provider # "braket" /\ ~out.data

\* determine_quality
Quality(out, shots) ==
  IF out.warned THEN "Degraded" ELSE IF out.measured < shots THEN "PartialFailure" ELSE "FullSuccess"

\* Mutant: the shots of the request where those of the service are meant.
MeasurementResultAsAsked(out, shots) ==
  IF provider = "iqm"
    THEN [counted |-> out.measured, total |-> shots, successful |-> shots, quality |-> Quality(out, shots)]
    ELSE [counted |-> out.measured, total |-> shots, successful |-> shots, quality |-> "FullSuccess"]
\* counted: the sum of bitstring_counts.
MeasurementResult(out, shots) ==
  CASE provider = "iqm" ->
         [counted |-> out.measured, total |-> out.measured, successful |-> out.measured,
          quality |-> Quality(out, shots)]
    [] provider = "ibm" ->
         [counted |-> out.measured, total |-> shots, successful |-> out.measured, quality |-> "FullSuccess"]
    [] provider = "braket" ->
         [counted |-> IF out.data THEN out.measured ELSE 0, total |-> shots,
          successful |-> IF out.reported THEN out.measured ELSE shots, quality |-> "FullSuccess"]

\* The BackendError behind each way a call fails; AuthenticationFailed is IQM's 401 and 403.
Errors(how) ==
  CASE how = "invalid_request" -> {"InvalidRequest"}
    [] how \in {"job_failed", "no_result"} -> {"ExecutionFailed"}
    [] how = "timeout" -> {"Timeout"}
    [] how = "refused" -> IF provider = "iqm" THEN {"AuthenticationFailed", "Http"} ELSE {"ExecutionFailed"}
    [] how = "http" -> IF provider = "iqm" THEN {"Http", "AuthenticationFailed"} ELSE {"Http", "ExecutionFailed"}
    [] how = "dropped" -> {}

\* The handler answers as soon as the call returns; a dropped call has nobody to answer.
Answered ==
  IF at' # "done" \/ answer' = "dropped" THEN UNCHANGED status
  ELSE IF answer' = "ok" THEN status' = "ok"
  ELSE \E error \in Errors(answer') : status' = StatusFor(caller, error)

-----------------------------------------------------------------------------
(* Actions                                                                  *)

CloudInit == Init /\ caller \in Callers /\ pulse = <<>> /\ circuit = <<>> /\ result = <<>> /\ status = "none"

\* execute_pulse up to the submission: the device's own check of the targets.
Begin(p) ==
  /\ ExecutePulse
  /\ answer' = "invalid_request" <=> \E k \in DOMAIN p.targets : p.targets[k] >= DeviceQubits[provider]
  /\ pulse' = <<p>>
  /\ circuit' = IF at' = "submit" THEN Circuit(provider, p) ELSE <<>>
  /\ Answered /\ UNCHANGED <<caller, result>>

\* A poll, and when the job is ready the result made of its output.
PollJob ==
  /\ Poll
  /\ IF answer' \in {"ok", "no_result"}
       THEN \E out \in Outputs(pulse[1].shots) :
              /\ NoResult(out) <=> answer' = "no_result"
              /\ result' = IF answer' = "ok"
                             THEN <<[device |-> out, result |-> MeasurementResult(out, pulse[1].shots)]>>
                             ELSE <<>>
       ELSE UNCHANGED result
  /\ Answered /\ UNCHANGED <<caller, pulse, circuit>>

Underway ==
  /\ SendPost \/ ReplyArrives \/ NoReply
  /\ Answered /\ UNCHANGED <<caller, pulse, circuit, result>>

CloudCall == (\E p \in Pulses : Begin(p)) \/ PollJob \/ Underway

CloudNext == CloudCall \/ ((Dropped \/ Service) /\ UNCHANGED own)

\* As in RemoteJobs: the client's requests time out, the service owes nothing.
CloudSpec == CloudInit /\ [][CloudNext]_cloudVars /\ WF_cloudVars(CloudCall)

-----------------------------------------------------------------------------
(* Properties                                                               *)

\* Whatever becomes of the jobs, a gRPC client is told that its request was at fault
\* exactly when nothing was submitted, so what it corrects and sends again has not run
\* before; that time ran out it is told only while its job is unfinished
\* (error.rs From<Error>, the error paths of both clients and the three backends).
StatusTellsWhetherRan ==
  status # "none" =>
    /\ caller = "grpc" => (status = "invalid_argument" <=> \A a \in Attempts : post[a] = "none")
    /\ status = "deadline_exceeded" => polls > 0 /\ jobId # NoJob
    /\ status = "ok" <=> answer = "ok"

\* Shots the device did not deliver show in the answer, on whichever server: as fewer
\* shots than were asked for, total or successful; not on Braket when its answer lacks the
\* counts or the number of shots.  On IQM full success means every shot and no warning
\* (iqm/mod.rs determine_quality, ibm/mod.rs and braket/mod.rs execute_pulse).
ShortfallShown ==
  result # <<>> =>
    LET out == result[1].device
        r == result[1].result
        shots == pulse[1].shots
    IN /\ r.counted < shots =>
            r.total < shots \/ r.successful < shots \/ (provider = "braket" /\ ~(out.data /\ out.reported))
       /\ provider = "iqm" /\ r.quality = "FullSuccess" => r.counted = shots /\ ~out.warned

\* A submitted circuit ends by measuring the targets in the order of the request, and measures
\* nothing before; each qubit ends as far from its ground state as the pulse turns it, once for
\* each time it is driven (IQM drives a target named twice, which the handler lets through when
\* other qubits are to be measured, twice); on IBM, whose two sx alone are half a turn, exactly
\* that far from the opposite state (pulse_to_circuit, pulse_to_qasm).
CircuitsTurn ==
  circuit # <<>> =>
    LET p == pulse[1]
        angle == Rotation(provider, p).angle
        own_qubits == IF provider = "iqm" THEN p.targets ELSE Renumbered(p.targets)
        driven == IF provider = "iqm" /\ Len(p.targets) > 2 THEN 1..2 ELSE DOMAIN p.targets
        before == Len(circuit) - Len(own_qubits)
        Asked(q) == RotatedX(Ground, angle * Cardinality({k \in driven : own_qubits[k] = q}))[3]
    IN /\ SubSeq(circuit, before + 1, Len(circuit)) = Measure(own_qubits)
       /\ \A n \in 1..before : circuit[n].name # "measure"
       /\ angle # NotFinite =>
            \A k \in driven :
              LET q == own_qubits[k]
              IN Final(circuit, q)[3] = IF provider = "ibm" THEN -Asked(q) ELSE Asked(q)
=============================================================================
