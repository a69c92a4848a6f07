------------------------------ MODULE Lindblad ------------------------------
(***************************************************************************)
(* RustLindbladSolver (hal/src/lindblad): the density matrix of an open        *)
(* system under a piecewise constant Hamiltonian, integrated by fourth order    *)
(* Runge-Kutta.  Arithmetic is exact (ComplexMatrices), so that what is lost    *)
(* here is lost by the equations and not by rounding.                         *)
(***************************************************************************)
EXTENDS ComplexMatrices

CONSTANT LindbladCalls   \* what Python asks for

\* Numbers the equations divide by: of those that are not zero the model has an inverse.
Divisor(x) == x \in Int /\ (x % Modulus = 0 => x = 0)
ASSUME LindbladAssumption ==
  \A call \in LindbladCalls :
    /\ call.num_time_steps \in Nat /\ call.dim \in Nat /\ call.duration_ns \in Int
    /\ call.rho \in Seq(Int) /\ call.hamiltonians \in Seq(Seq(Int))
    /\ Divisor(call.t1) /\ Divisor(call.t2) /\ Divisor(call.num_time_steps)

VARIABLES
  lphase,      \* "idle", "refused", "integrating" or "returned"
  lcall,       \* the call
  rho,         \* the density matrix reached
  slice,       \* the Hamiltonians applied to it
  trajectory   \* the states stored, if the call asked for them

lindbladVars == <<lphase, lcall, rho, slice, trajectory>>

NoLindbladCall == [num_time_steps |-> 0, duration_ns |-> 0, t1 |-> 0, t2 |-> 0,
                   store_trajectory |-> FALSE, rho |-> <<>>, hamiltonians |-> <<>>, dim |-> 0]

-----------------------------------------------------------------------------
(* Collapse operators and the equation                                      *)

Ratio(a, b) == Over(<<a, 0>>, <<b, 0>>)

\* CollapseOperator::amplitude_damping and pure_dephasing
TimesAccepted(t1, t2) == t1 > 0 /\ t2 > 0 /\ t2 <= 2 * t1
AmplitudeDamping(t1) == [matrix |-> <<<<Zero, One>>, <<Zero, Zero>>>>, rate |-> Ratio(1, t1)]
PureDephasing(t1, t2) ==
  [matrix |-> <<<<Half, Zero>>, <<Zero, <<Real(-Half[1]), 0>>>>>>,
   rate |-> Minus(Ratio(1, t2), Ratio(1, 2 * t1))]
FromT1T2(t1, t2) == <<AmplitudeDamping(t1), PureDephasing(t1, t2)>>

\* Mutant: the decay term applied from the left only.
DissipatorOneSided(op, r) ==
  LET l == op.matrix
  IN IF op.rate = Zero THEN Zeros(Len(r))
     ELSE Scaled(op.rate, Difference(Dot(Dot(l, r), Dagger(l)), Dot(Dot(Dagger(l), l), r)))
\* dissipator: rate * (L rho L^dagger - (L^dagger L rho + rho L^dagger L) / 2)
Dissipator(op, r) ==
  LET l == op.matrix
      decay == Dot(Dagger(l), l)
  IN IF op.rate = Zero THEN Zeros(Len(r))
     ELSE Scaled(op.rate, Difference(Difference(Dot(Dot(l, r), Dagger(l)), Scaled(Half, Dot(decay, r))),
                                     Scaled(Half, Dot(r, decay))))
\* total_dissipator: an operator of another dimension is skipped.
TotalDissipator(ops, r) ==
  FoldLeft(LAMBDA sum, op : IF Len(op.matrix) # Len(r) THEN sum ELSE Sum(sum, Dissipator(op, r)),
           Zeros(Len(r)), ops)
LindbladRhs(h, ops, r) == Sum(Scaled(MinusI, Commutator(h, r)), TotalDissipator(ops, r))

\* rk4_step, and lindblad_rk4_step of the stochastic solver.
Rk4Step(r, h, ops, dt) ==
  LET k1 == LindbladRhs(h, ops, r)
      k2 == LindbladRhs(h, ops, Sum(r, Scaled(Times(Half, dt), k1)))
      k3 == LindbladRhs(h, ops, Sum(r, Scaled(Times(Half, dt), k2)))
      k4 == LindbladRhs(h, ops, Sum(r, Scaled(dt, k3)))
      slopes == Sum(Sum(k1, Scaled(<<2, 0>>, k2)), Sum(Scaled(<<2, 0>>, k3), k4))
  IN Sum(r, Scaled(Times(Sixth, dt), slopes))

\* state_fidelity and purity: real parts of traces.
StateFidelity(r, target) == Trace(Dot(target, r))[1]
Purity(r) == Trace(Dot(r, r))[1]

-----------------------------------------------------------------------------
(* Actions                                                                  *)

LindbladInit ==
  /\ lphase = "idle" /\ lcall = NoLindbladCall
  /\ rho = <<>> /\ slice = 0 /\ trajectory = <<>>

\* RustLindbladSolver.__init__ and solve, up to the integration.
SolveLindblad(call) ==
  LET d == call.dim
      accepted == /\ TimesAccepted(call.t1, call.t2)
                  /\ call.num_time_steps # 0 /\ call.duration_ns > 0
                  /\ Flattened(call.rho, d)
                  /\ \A k \in DOMAIN call.hamiltonians : Flattened(call.hamiltonians[k], d)
                  /\ Len(call.hamiltonians) = call.num_time_steps
  IN /\ lphase = "idle"
     /\ IF accepted
          THEN /\ lphase' = "integrating" /\ lcall' = call
               /\ rho' = FlatToComplexMatrix(call.rho, d)
               /\ trajectory' = IF call.store_trajectory THEN <<rho'>> ELSE <<>>
          ELSE lphase' = "refused" /\ UNCHANGED <<lcall, rho, trajectory>>
     /\ UNCHANGED slice

Hamiltonian(k) == FlatToComplexMatrix(lcall.hamiltonians[k], lcall.dim)
DtSeconds == Ratio(lcall.duration_ns, lcall.num_time_steps)

IntegrateSlice ==
  /\ lphase = "integrating" /\ slice < Len(lcall.hamiltonians)
  /\ slice' = slice + 1
  /\ rho' = Rk4Step(rho, Hamiltonian(slice'), FromT1T2(lcall.t1, lcall.t2), DtSeconds)
  /\ trajectory' = IF lcall.store_trajectory THEN Append(trajectory, rho') ELSE trajectory
  /\ UNCHANGED <<lphase, lcall>>

ReturnLindblad ==
  /\ lphase = "integrating" /\ slice = Len(lcall.hamiltonians)
  /\ lphase' = "returned"
  /\ UNCHANGED <<lcall, rho, slice, trajectory>>

LindbladNext ==
  (\E call \in LindbladCalls : SolveLindblad(call)) \/ IntegrateSlice \/ ReturnLindblad

-----------------------------------------------------------------------------
(* Properties                                                               *)

\* Every step keeps the trace of the state, and its Hermiticity under Hamiltonians that are
\* Hermitian, whatever the decay times, and the trajectory loses no state (rk4_step, dissipator: a factor
\* or a dagger off makes probability out of nothing too slowly for most tests).
IntegrationKeepsState ==
  lphase \in {"integrating", "returned"} =>
    LET initial == FlatToComplexMatrix(lcall.rho, lcall.dim)
    IN /\ Trace(rho) = Trace(initial)
       /\ Hermitian(initial) /\ (\A k \in DOMAIN lcall.hamiltonians : Hermitian(Hamiltonian(k)))
            => Hermitian(rho)
       /\ lcall.store_trajectory =>
            Len(trajectory) = slice + 1 /\ trajectory[1] = initial /\ trajectory[slice + 1] = rho
=============================================================================
