----------------------------- MODULE MCRemoteJobs -----------------------------
(***************************************************************************)
(* Three submissions (IQM's default is three retries) let a call lose one    *)
(* reply, be throttled and succeed; two polls let a job be unfinished, then  *)
(* end or run out of time.  The pulses turn one qubit, two and three, along   *)
(* each axis, one of them twice, not at all, by less and more than their mean  *)
(* amplitude says, by an angle that is no number, and on a qubit the device    *)
(* does not have.                                                            *)
(***************************************************************************)
EXTENDS CloudBackends

Pulse(samples, dt, targets) == [samples |-> samples, dt |-> dt, targets |-> targets, shots |-> 2]

MCPulses == {
  Pulse(<<<<0, 1>>, <<0, 1>>>>, 1, <<1>>),        \* a quarter turn on IQM, half a turn elsewhere
  Pulse(<<<<1, 0>>, <<-1, 0>>>>, 1, <<1, 0>>),    \* without area
  Pulse(<<<<-3, 0>>>>, 1, <<2, 0, 1>>),
  Pulse(<<<<0, -1>>>>, 1, <<2, 2>>),              \* a target named twice
  Pulse(<<<<1, 0>>>>, NotFinite, <<0>>),          \* num_time_steps = 0
  Pulse(<<<<0, 0>>>>, 1, <<3>>)}                  \* there are three qubits

MCDeviceQubits == [p \in Providers |-> 3]
=============================================================================
