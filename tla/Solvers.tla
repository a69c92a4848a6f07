------------------------------- MODULE Solvers -------------------------------
(***************************************************************************)
(* The Python extension module of the HAL (lib.rs, pyo3_root): the optimisers,  *)
(* integrators and the feedback law, each with its own state.  The interpreter   *)
(* lock is held for the whole of a call, so that one solver at a time moves; the *)
(* trajectories of one ensemble do interleave.                                *)
(***************************************************************************)
EXTENDS OpenGrape, MatrixExp, MeasuredStep, LyapunovFeedback, StochasticMaster

CONSTANTS Hamiltonians, Squarings   \* a qubit's Hamiltonians of a step, and how often it is squared
ASSUME SolversAssumption ==
  /\ Squarings \subseteq Nat
  /\ \A h \in Hamiltonians : h \in Reduced(2) /\ Hermitian(h)

VARIABLE busy   \* the solver the interpreter is in, "none" before its call

solverVars == <<grapeVars, openVars, lindbladVars, feedbackVars, smeVars, expm, measured, busy>>

Init ==
  /\ GrapeInit /\ OpenInit /\ LindbladInit /\ FeedbackInit /\ SmeInit
  /\ expm = NoExponential /\ measured = NotMeasured /\ busy = "none"

In(solver) == busy \in {"none", solver} /\ busy' = solver

GrapeStep ==
  /\ In("grape") /\ GrapeNext
  /\ UNCHANGED <<openVars, lindbladVars, feedbackVars, smeVars, expm, measured>>
OpenStep ==
  /\ In("open_grape") /\ OpenNext
  /\ UNCHANGED <<grapeVars, lindbladVars, feedbackVars, smeVars, expm, measured>>
LindbladStep ==
  /\ In("lindblad") /\ LindbladNext
  /\ UNCHANGED <<grapeVars, openVars, feedbackVars, smeVars, expm, measured>>
FeedbackStep ==
  /\ In("feedback") /\ FeedbackNext
  /\ UNCHANGED <<grapeVars, openVars, lindbladVars, smeVars, expm, measured>>
SmeStep ==
  /\ In("sme") /\ SmeNext
  /\ UNCHANGED <<grapeVars, openVars, lindbladVars, feedbackVars, expm, measured>>
ExpmStep ==
  /\ In("expm") /\ \E h \in Hamiltonians, s \in Squarings : Exponentiate(h, s)
  /\ UNCHANGED <<grapeVars, openVars, lindbladVars, feedbackVars, smeVars, measured>>
MeasuredStepOf ==
  /\ In("measured") /\ \E step \in MeasuredSteps : MeasureStep(step)
  /\ UNCHANGED <<grapeVars, openVars, lindbladVars, feedbackVars, smeVars, expm>>

Next == GrapeStep \/ OpenStep \/ LindbladStep \/ FeedbackStep \/ SmeStep \/ ExpmStep \/ MeasuredStepOf

\* rayon runs every trajectory it was given, and a solver in a loop goes on with it.
Spec == Init /\ [][Next]_solverVars /\ WF_solverVars(SmeStep)

-----------------------------------------------------------------------------
(* Properties                                                               *)

\* Both optimisers return the best they saw (see their modules).
OptimaAreBest == ResultIsBest /\ OpenResultIsBest

\* Neither integrator loses the state it is given (see their modules).
StatesKept == IntegrationKeepsState /\ RepairsNothing
=============================================================================
