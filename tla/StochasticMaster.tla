--------------------------- MODULE StochasticMaster ---------------------------
(***************************************************************************)
(* RustSMESolver (hal/src/sme): trajectories of a continuously measured system  *)
(* by an adaptive Ito integrator, and the ensemble of them that rayon solves in *)
(* parallel.  What a step does to the density matrix is left to its outcome:    *)
(* how stable it was, whether an eigenvalue went negative and how far, or that  *)
(* it failed.  Time is in a unit of which a nominal slice has Nominal.         *)
(***************************************************************************)
EXTENDS Integers, Sequences, FiniteSets, SequencesExt

CONSTANTS
  Nominal, DtMin,  \* a nominal slice, and the smallest step an adaptive retry takes
  Seeds,           \* seeds are 0..Seeds - 1: wrapping_add
  SmeCalls         \* what Python asks for

\* stability: "calm" below a tenth of the tolerance, "fair" up to it, "unstable" above,
\* "lost" when the state is no longer finite: no comparison then asks for a retry.
\* negative: "none" within positivity_tolerance, "slight" within that of the trajectory's
\* validation, "gross" beyond both.
StepOutcomes == [stability : {"calm", "fair", "unstable", "lost"}, negative : {"none", "slight", "gross"}]

ASSUME SmeAssumption ==
  /\ Nominal \in Nat \ {0} /\ DtMin \in 1..Nominal /\ Seeds \in Nat \ {0}
  /\ \A call \in SmeCalls : call.slices \in Nat /\ call.n \in Nat /\ call.seed \in 0..(Seeds - 1)

VARIABLES
  sphase,      \* "idle", "refused", "solving", "failed" or "returned"
  scall,       \* the call
  trajectories, \* by index, the state of each trajectory's loop; drawn: the parity of
                \* the numbers its generator gave
  sresult      \* [steps, violations, shortcut] of the SMEResult

smeVars == <<sphase, scall, trajectories, sresult>>

NoSmeCall == [ensemble |-> FALSE, n |-> 0, slices |-> 0, duration |-> 0, eta |-> 0,
              tolerance |-> 0, positivity |-> 0, projection |-> FALSE, seed |-> 0, dim |-> 0,
              hamiltonians |-> 0, physical |-> FALSE]
NoSmeResult == [steps |-> 0, violations |-> 0, shortcut |-> FALSE]
NotStarted == [status |-> "waiting", seed |-> 0, slice |-> 0, remaining |-> 0, current |-> 0,
               covered |-> 0, steps |-> 0, violations |-> 0, rough |-> 0, drawn |-> 0]

-----------------------------------------------------------------------------

Smaller(a, b) == IF a < b THEN a ELSE b
Larger(a, b) == IF a > b THEN a ELSE b

\* SMEConfig::validate; the efficiency and the tolerances in arbitrary units, 1 for one.
SmeValid(c) ==
  /\ c.slices # 0 /\ c.duration > 0 /\ c.eta \in {0, 1}
  /\ c.tolerance > 0 /\ c.positivity >= 0

\* Mutant: every trajectory of an ensemble is seeded alike.
SeedOfConfig(call, index) == call.seed
\* The trajectory's seed: the configuration's own, or one after it for each index.
SeedOf(call, index) == IF call.ensemble THEN (call.seed + index) % Seeds ELSE call.seed

\* Half of the step, and a fifth more than it, in whole units.
Halved(dt) == Larger(dt \div 2, DtMin)
Grown(dt) == Smaller((6 * dt + 4) \div 5, Nominal)

-----------------------------------------------------------------------------
(* Actions                                                                  *)

\* solve_zero_efficiency: the Lindblad solver takes one step for each slice.
WithoutMeasurement(call) == [NoSmeResult EXCEPT !.steps = call.slices, !.shortcut = TRUE]

SmeInit ==
  /\ sphase = "idle" /\ scall = NoSmeCall
  /\ trajectories = <<>> /\ sresult = NoSmeResult

\* solve_trajectory and solve_ensemble up to their loops.  Without measurement efficiency
\* the deterministic solver answers, and the initial state is not validated.
SolveSme(call) ==
  LET accepted == /\ SmeValid(call)
                  /\ call.ensemble => call.n # 0
                  /\ call.hamiltonians = call.slices
      shortcut == accepted /\ call.eta = 0
  IN /\ sphase = "idle"
     /\ scall' = call
     /\ sphase' = IF shortcut THEN "returned" ELSE IF accepted THEN "solving" ELSE "refused"
     /\ trajectories' = IF accepted /\ ~shortcut
                          THEN [k \in 1..(IF call.ensemble THEN call.n ELSE 1) |-> NotStarted]
                          ELSE <<>>
     /\ sresult' = IF shortcut THEN WithoutMeasurement(call)
                   ELSE sresult

Finished(t) == t.status \in {"done", "error"}

\* solve_sme_trajectory up to its first slice, on one of rayon's threads: the initial
\* state is symmetrised, given unit trace, and must then be a density matrix.
StartTrajectory(k) ==
  /\ sphase = "solving" /\ trajectories[k].status = "waiting"
  /\ trajectories' =
       [trajectories EXCEPT ![k] =
          [NotStarted EXCEPT !.status = IF scall.physical THEN "running" ELSE "error",
                             !.seed = SeedOf(scall, k), !.slice = 1,
                             !.remaining = Nominal, !.current = Nominal]]
  /\ UNCHANGED <<sphase, scall, sresult>>

\* One pass of integrate_nominal_slice's loop, and the head of the next slice's.
\* euler_maruyama_step projects before it answers, and fails where it cannot.
Unstable(out) == out.stability = "unstable" \/ (out.stability # "lost" /\ out.negative # "none")
ProjectionFails(out) ==
  out.stability # "lost" /\ out.negative # "none" /\ scall.projection /\ scall.dim # 2
\* validate_trajectory_density_matrix of the state the step left.
StateAccepted(out) == out.stability # "lost" /\ (out.negative # "gross" \/ scall.projection)

Accepted(t, dt, out) ==
  LET left == t.remaining - dt
      next == IF out.stability = "calm" THEN Grown(dt) ELSE dt
      last == left = 0 /\ t.slice = scall.slices
  IN [t EXCEPT !.status = IF last THEN "done" ELSE "running",
               !.slice = IF left = 0 /\ ~last THEN @ + 1 ELSE @,
               !.remaining = IF left = 0 /\ ~last THEN Nominal ELSE left,
               !.current = next, !.covered = @ + dt, !.steps = @ + 1, !.drawn = 1 - @,
               !.violations = @ + (IF out.negative # "none" THEN 1 ELSE 0),
               !.rough = IF Unstable(out) THEN Larger(@, dt) ELSE @]

\* Mutant: a step of the smallest size is retried too.
StepOfTrajectoryRetried(k, out) ==
  LET t == trajectories[k]
      dt == Smaller(t.current, t.remaining)
  IN /\ sphase = "solving" /\ t.status = "running"
     /\ trajectories' = [trajectories EXCEPT ![k] =
          IF ProjectionFails(out) THEN [t EXCEPT !.status = "error"]
          ELSE IF Unstable(out) /\ dt >= DtMin THEN [t EXCEPT !.current = Halved(dt), !.drawn = 1 - @]
          ELSE IF StateAccepted(out) THEN Accepted(t, dt, out)
          ELSE [t EXCEPT !.status = "error"]]
     /\ UNCHANGED <<sphase, scall, sresult>>
StepOfTrajectory(k, out) ==
  LET t == trajectories[k]
      dt == Smaller(t.current, t.remaining)
  IN /\ sphase = "solving" /\ t.status = "running"
     /\ trajectories' = [trajectories EXCEPT ![k] =
          IF ProjectionFails(out) THEN [t EXCEPT !.status = "error"]
          ELSE IF Unstable(out) /\ dt > DtMin THEN [t EXCEPT !.current = Halved(dt), !.drawn = 1 - @]
          ELSE IF StateAccepted(out) THEN Accepted(t, dt, out)
          ELSE [t EXCEPT !.status = "error"]]
     /\ UNCHANGED <<sphase, scall, sresult>>

\* The parallel collect: with an error, trajectories not yet started need not run.  The
\* mean of an ensemble is validated more strictly than its members.
Collect(meanAccepted) ==
  LET all == DOMAIN trajectories
      failed == \E k \in all : trajectories[k].status = "error"
      over(field) == FoldLeft(LAMBDA sum, t : sum + t[field], 0, trajectories)
  IN /\ sphase = "solving"
     /\ \A k \in all : Finished(trajectories[k]) \/ (failed /\ trajectories[k].status = "waiting")
     /\ sphase' = IF failed \/ (scall.ensemble /\ ~meanAccepted) THEN "failed" ELSE "returned"
     /\ sresult' = IF sphase' = "returned"
                     THEN [steps |-> over("steps") \div Len(trajectories),
                           violations |-> over("violations"), shortcut |-> FALSE]
                     ELSE sresult
     /\ UNCHANGED <<scall, trajectories>>

SmeNext ==
  \/ \E call \in SmeCalls : SolveSme(call)
  \/ \E k \in DOMAIN trajectories :
       StartTrajectory(k) \/ \E out \in StepOutcomes : StepOfTrajectory(k, out)
  \/ \E accepted \in BOOLEAN : Collect(accepted)

-----------------------------------------------------------------------------
(* Properties                                                               *)

\* An answer stands for the whole time asked for and the whole ensemble: each trajectory
\* covered every nominal slice exactly, however its steps were halved, cut off at a slice's
\* end and grown, took a rough step only at the smallest size, and drew noise of its own
\* (integrate_nominal_slice, solve_sme_ensemble).
EnsembleComplete ==
  sphase = "returned" /\ ~sresult.shortcut =>
    /\ \A k \in DOMAIN trajectories :
         /\ trajectories[k].status = "done"
         /\ trajectories[k].covered = scall.slices * Nominal
         /\ trajectories[k].rough <= DtMin
    /\ scall.ensemble => Len(trajectories) = scall.n
    /\ Len(trajectories) <= Seeds =>
         \A j, k \in DOMAIN trajectories : trajectories[j].seed = trajectories[k].seed => j = k

\* Every call is answered: adaptive retries end at the smallest step, whatever the noise
\* does (integrate_nominal_slice's loop has no count of retries).
SmeAnswered == sphase = "solving" ~> sphase \in {"returned", "failed"}
=============================================================================
