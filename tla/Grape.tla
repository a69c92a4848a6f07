-------------------------------- MODULE Grape --------------------------------
(***************************************************************************)
(* RustGrapeOptimizer (hal/src/grape): gradient ascent on the gate fidelity.   *)
(* An amplitude is a level, the order of real amplitudes kept; the propagator  *)
(* of a step is a table over its two levels (MatrixExp has how one is made).    *)
(* Fidelities count in units of 1/(d^2 + d).  A level can be lost to NaN, as    *)
(* an update by an infinite gradient leaves it; a comparison with NaN is false. *)
(***************************************************************************)
EXTENDS ComplexMatrices, FiniteSets

CONSTANTS
  Levels,       \* amplitudes of one channel at one step
  Propagator,   \* [i, q] of a step to its propagator, for each dimension
  InitialI, InitialQ, \* the levels every optimisation starts from, by time step
  GrapeCalls    \* what Python asks for

NaN == -1        \* a fidelity that is not a number
Lost == 99       \* an amplitude that is not a number
Channels == {"i", "q"}

\* GrapeConfig and the arguments of optimize; the matrices are flat lists.
GrapeConfigType == [num_time_steps : Nat, duration_ns : Int, target_fidelity : Int,
                    max_iterations : Nat, learning_rate : Int]

ASSUME GrapeAssumption ==
  /\ Levels \subseteq Int /\ Lost \notin Levels
  /\ \A call \in GrapeCalls :
       LET n == call.config.num_time_steps
       IN /\ call.config \in GrapeConfigType /\ call.dim \in Nat
          /\ call.target \in Seq(Int) /\ call.controls \in Seq(Seq(Int))
          /\ n \in DOMAIN InitialI \cap DOMAIN InitialQ /\ {InitialI[n], InitialQ[n]} \subseteq [1..n -> Levels]
          /\ \A a \in Levels \X Levels : Propagator[call.dim][a] \in Square(call.dim)

NoPulse == [i |-> <<>>, q |-> <<>>]
NoMatrices == [target |-> <<>>, controls |-> <<>>]
NoConfig == [num_time_steps |-> 0, duration_ns |-> 0, target_fidelity |-> 0,
             max_iterations |-> 0, learning_rate |-> 0]
NoResult == [pulse |-> NoPulse, fidelity |-> 0, iterations |-> 0, converged |-> FALSE,
             final_unitary |-> <<>>]

VARIABLES
  gphase,    \* "idle", "refused", "panicked", "ascending" or "returned"
  gconfig,   \* the configuration of the call
  matrices,  \* the target and the controls it was given
  pulse,     \* i_pulse and q_pulse
  best,      \* [fidelity, pulse]: best_fidelity, best_i and best_q
  history,   \* fidelity_history
  gresult    \* the GrapeResult

grapeVars == <<gphase, gconfig, matrices, pulse, best, history, gresult>>

-----------------------------------------------------------------------------
(* The algorithm's operators                                                *)

\* GrapeConfig::validate; the top fidelity is d^2 + d units, written as Full.
Full(d) == d * d + d
ConfigValid(c, d) ==
  /\ c.num_time_steps # 0 /\ c.duration_ns > 0 /\ c.max_iterations # 0 /\ c.learning_rate > 0
  /\ c.target_fidelity \in 0..Full(d)

Steps == 1..gconfig.num_time_steps
Dim == Len(matrices.target)

\* compute_propagators
ComputePropagators(p) == [t \in DOMAIN p.i |-> Propagator[Dim][<<p.i[t], p.q[t]>>]]
IsLost(p) == \E t \in DOMAIN p.i : Lost \in {p.i[t], p.q[t]}

\* forward_chain: element k of the code's list is Forward(us)[k].
Forward(us) ==
  LET chain[k \in 0..Len(us)] == IF k = 0 THEN Eye(Dim) ELSE Dot(us[k], chain[k - 1]) IN chain
\* Mutant: the backward chain multiplied on the other side, as the forward one is.
BackwardReversed(us) ==
  LET n == Len(us)
      chain[k \in 0..n] == IF k = n THEN Eye(Dim) ELSE Dot(us[k + 1], chain[k + 1])
  IN chain
\* backward_chain: element k is the product of the propagators after the first k.
Backward(us) ==
  LET n == Len(us)
      chain[k \in 0..n] == IF k = n THEN Eye(Dim) ELSE Dot(chain[k + 1], us[k + 1])
  IN chain
\* chain_propagators
Chain(us) == Forward(us)[Len(us)]

\* Tr(target^dagger * achieved), whose square is what gate_fidelity grows with.
Overlap(achieved, target) == Trace(Dot(Dagger(target), achieved))
GateFidelity(achieved, target) ==
  LET d == Len(target)
      units == NormSqr(Overlap(achieved, target)) + d
  IN IF d = 0 THEN NaN ELSE IF units > Full(d) THEN Full(d) ELSE units
Fidelity(p) ==
  IF IsLost(p) THEN NaN ELSE GateFidelity(Chain(ComputePropagators(p)), matrices.target)

AtLeast(fidelity, bound) == fidelity # NaN /\ fidelity >= bound
Above(fidelity, bound) == fidelity # NaN /\ fidelity > bound

\* dU_t of a channel; the factor 2 pi dt 1e6 is positive and left out.
Derivative(us, t, channel) ==
  Dot(Scaled(MinusI, matrices.controls[IF channel = "i" THEN 1 ELSE 2]), us[t])
\* compute_gradients at one step, in units of 1/(d^2 + d)
Gradient(p, channel, t) ==
  LET us == ComputePropagators(p)
      total == Chain(us)
      chi == Overlap(total, matrices.target)
      moved == Dot(Backward(us)[t], Dot(Derivative(us, t, channel), Forward(us)[t - 1]))
  IN Real(2 * Times(Conj(chi), Overlap(moved, matrices.target))[1])

\* The levels an update may reach: the learning rate is positive, its size is left open,
\* and a step too large to represent loses the amplitude.
Reached(level, gradient) ==
  IF gradient = 0 THEN {level}
  ELSE {l \in Levels : IF gradient > 0 THEN l >= level ELSE l <= level} \cup {Lost}
Updates(p) ==
  IF IsLost(p) THEN {[i |-> [t \in Steps |-> Lost], q |-> [t \in Steps |-> Lost]]}
  ELSE LET moved(channel) == {f \in [Steps -> Levels \cup {Lost}] :
                                \A t \in Steps : f[t] \in Reached(p[channel][t], Gradient(p, channel, t))}
       IN [i : moved("i"), q : moved("q")]

-----------------------------------------------------------------------------
(* Actions                                                                  *)

GrapeInit ==
  /\ gphase = "idle" /\ gconfig = NoConfig /\ matrices = NoMatrices
  /\ pulse = NoPulse /\ best = [fidelity |-> 0, pulse |-> NoPulse]
  /\ history = <<>> /\ gresult = NoResult

\* RustGrapeOptimizer.__init__ and optimize: the configuration and the shape of every
\* matrix are checked, the number of controls only by an assertion.
Optimize(call) ==
  LET d == call.dim
      accepted == /\ ConfigValid(call.config, d)
                  /\ \A data \in {call.target, call.drift} : Flattened(data, d)
                  /\ \A k \in DOMAIN call.controls : Flattened(call.controls[k], d)
      n == call.config.num_time_steps
      first == [i |-> InitialI[n], q |-> InitialQ[n]]
  IN /\ gphase = "idle"
     /\ IF ~accepted \/ Len(call.controls) < 2
          THEN /\ gphase' = IF accepted THEN "panicked" ELSE "refused"
               /\ UNCHANGED <<gconfig, matrices, pulse, best>>
          ELSE /\ gphase' = "ascending" /\ gconfig' = call.config
               /\ matrices' = [target |-> FlatToComplexMatrix(call.target, d),
                               controls |-> [k \in {1, 2} |-> FlatToComplexMatrix(call.controls[k], d)]]
               /\ pulse' = first /\ best' = [fidelity |-> 0, pulse |-> first]
     /\ UNCHANGED <<history, gresult>>

\* Mutant: the last pulse is kept, as if fidelities only grew.
BetterLast(fid) == IF fid # NaN THEN [fidelity |-> fid, pulse |-> pulse] ELSE best
Better(fid) == IF Above(fid, best.fidelity) THEN [fidelity |-> fid, pulse |-> pulse] ELSE best

Return(fid, converged) ==
  /\ gphase' = "returned"
  /\ gresult' = [pulse |-> best'.pulse, fidelity |-> best'.fidelity, iterations |-> Len(history'),
                 converged |-> converged,
                 final_unitary |-> IF converged THEN Chain(ComputePropagators(pulse))
                                   ELSE IF IsLost(best'.pulse) THEN <<>>
                                   ELSE Chain(ComputePropagators(best'.pulse))]

\* One iteration: the fidelity is recorded and compared before the pulse moves.
Ascend ==
  LET fid == Fidelity(pulse)
  IN /\ gphase = "ascending" /\ Len(history) < gconfig.max_iterations
     /\ history' = Append(history, fid)
     /\ best' = Better(fid)
     /\ IF AtLeast(fid, gconfig.target_fidelity)
          THEN Return(fid, TRUE) /\ UNCHANGED pulse
          ELSE pulse' \in Updates(pulse) /\ UNCHANGED <<gphase, gresult>>
     /\ UNCHANGED <<gconfig, matrices>>

\* All iterations done: the best pulse is evaluated again and returned.
GiveUp ==
  /\ gphase = "ascending" /\ Len(history) = gconfig.max_iterations
  /\ UNCHANGED <<gconfig, matrices, pulse, best, history>>
  /\ Return(best.fidelity, FALSE)

GrapeNext == (\E call \in GrapeCalls : Optimize(call)) \/ Ascend \/ GiveUp

-----------------------------------------------------------------------------
(* Properties                                                               *)

\* The envelopes, the fidelity and the unitary returned belong together, and nothing the
\* optimiser saw was better, a lost iteration included; it claims convergence only when
\* they reach the target (optimize: best_*, the early return and the final evaluation).
ResultIsBest ==
  gphase = "returned" =>
    LET seen == {history[k] : k \in DOMAIN history}
    IN /\ \A fid \in seen : ~Above(fid, gresult.fidelity)
       /\ gresult.fidelity \in seen \cup {0}
       /\ gresult.iterations = Len(history) /\ Len(history) <= gconfig.max_iterations
       /\ gresult.fidelity > 0 =>
            /\ Fidelity(gresult.pulse) = gresult.fidelity
            /\ gresult.final_unitary = Chain(ComputePropagators(gresult.pulse))
       /\ gresult.converged <=> \E fid \in seen : AtLeast(fid, gconfig.target_fidelity)

\* The gradient is the derivative of the fidelity: along dU_t the squared overlap is a
\* quadratic, whose central difference is exact.  A propagator or a chain taken one step
\* off, or the target not conjugated, would still climb most of the time
\* (compute_gradients, forward_chain, backward_chain).
GradientIsDerivative ==
  gphase = "ascending" /\ ~IsLost(pulse) =>
    LET us == ComputePropagators(pulse)
        squared(f) == NormSqr(Overlap(Chain(f), matrices.target))
        at(t, du) == [us EXCEPT ![t] = du]
    IN \A channel \in Channels, t \in Steps :
         LET du == Derivative(us, t, channel)
         IN Real(2 * Gradient(pulse, channel, t)) =
              Real(squared(at(t, Sum(us[t], du))) - squared(at(t, Difference(us[t], du))))
=============================================================================
