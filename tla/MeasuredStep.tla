----------------------------- MODULE MeasuredStep -----------------------------
(***************************************************************************)
(* What one step of the stochastic solver does to a density matrix              *)
(* (hal/src/sme/integrate.rs and measurement.rs), in the exact arithmetic of     *)
(* ComplexMatrices; StochasticMaster has the control around it.  The noise, the  *)
(* time step and the square root of the efficiency are numbers of the caller.   *)
(***************************************************************************)
EXTENDS Lindblad

CONSTANT MeasuredSteps   \* [rho, h, t1, t2, operator, root, rate, dt, noise] of a step

\* A step starts from a density matrix; without a measurement operator the system is a qubit.
ASSUME MeasuredAssumption ==
  \A step \in MeasuredSteps :
    /\ Len(step.rho) \in Nat /\ step.rho \in Reduced(Len(step.rho))
    /\ Hermitian(step.rho) /\ Trace(step.rho) = One
    /\ step.h \in Square(Len(step.rho)) /\ Hermitian(step.h)
    /\ IF step.operator = <<>> THEN Len(step.rho) = 2 ELSE step.operator \in Reduced(Len(step.rho))
    /\ Divisor(step.t1) /\ step.t1 # 0 /\ Divisor(step.t2) /\ step.t2 # 0
    /\ step.root \in Int /\ step.rate \in Int /\ step.dt \in Int /\ step.noise \in Int

VARIABLE measured   \* the last step: its arguments, raw_rho, the innovation, the signal

\* effective_measurement_operator: the one given, or the first collapse operator times
\* the square root of its rate, a number of the caller here.
EffectiveOperator(step) ==
  IF step.operator # <<>> THEN step.operator
  ELSE Scaled(<<step.rate, 0>>, FromT1T2(step.t1, step.t2)[1].matrix)

\* measurement_expectation
Expectation(c, r) == <<Trace(Dot(Sum(c, Dagger(c)), r))[1], 0>>
\* measurement_superoperator
Innovation(c, r) ==
  Difference(Sum(Dot(c, r), Dot(r, Dagger(c))), Scaled(Expectation(c, r), r))
\* validate_measurement_innovation
InnovationValid(m) == Hermitian(m) /\ Trace(m) = Zero

Symmetrized(r) == Scaled(Half, Sum(r, Dagger(r)))
\* renormalize_density_matrix, of a matrix whose trace is not zero.
Renormalized(r) == Scaled(Over(One, Trace(r)), r)

NotMeasured == [step |-> <<>>, refused |-> FALSE, raw |-> <<>>, state |-> <<>>]

\* euler_maruyama_step, of a state the loop before it left.
MeasureStep(step) ==
  LET c == EffectiveOperator(step)
      innovation == Scaled(<<step.root, 0>>, Innovation(c, step.rho))
      drift == LindbladRhs(step.h, FromT1T2(step.t1, step.t2), step.rho)
      raw == Sum(Sum(step.rho, Scaled(<<step.dt, 0>>, drift)), Scaled(<<step.noise, 0>>, innovation))
      refused == ~InnovationValid(Innovation(c, step.rho)) \/ Trace(raw) = Zero
  IN /\ measured = NotMeasured
     /\ measured' = [step |-> <<step>>, refused |-> refused, raw |-> raw,
                     state |-> IF refused THEN <<>> ELSE Renormalized(Symmetrized(raw))]

\* A step from a density matrix is never refused and leaves a Hermitian matrix of trace
\* one before anything is repaired: symmetrising and renormalising only undo rounding, and
\* an innovation that fails its check means a wrong operator, not a rare noise
\* (measurement_superoperator, euler_maruyama_step).
RepairsNothing ==
  measured # NotMeasured =>
    ~measured.refused /\ Trace(measured.raw) = One /\ measured.state = measured.raw
=============================================================================
