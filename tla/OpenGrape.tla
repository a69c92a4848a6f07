------------------------------ MODULE OpenGrape ------------------------------
(***************************************************************************)
(* OpenSystemOptimizer (hal/src/lindblad/open_grape.rs): the same ascent on    *)
(* the fidelity of an evolution with decoherence, along a gradient taken by     *)
(* finite differences.  A level is a multiple of fd_epsilon; the evolution is   *)
(* the function OpenFidelity of the two envelopes.                             *)
(***************************************************************************)
EXTENDS Grape

CONSTANTS
  OpenFidelity,  \* the fidelity of the evolution under each pair of envelopes, or NaN
  OpenCalls      \* what callers ask for: a GrapeConfig, fd_epsilon and the rates

ASSUME OpenAssumption ==
  /\ \A p \in DOMAIN OpenFidelity : OpenFidelity[p] \in Nat \cup {NaN}
  /\ \A call \in OpenCalls :
       LET n == call.grape.num_time_steps
       IN /\ call.grape \in GrapeConfigType /\ call.rates \subseteq Int
          /\ n \in DOMAIN InitialI \cap DOMAIN InitialQ /\ {InitialI[n], InitialQ[n]} \subseteq [1..n -> Levels]
          /\ [1..n -> Levels] \X [1..n -> Levels] \subseteq DOMAIN OpenFidelity

VARIABLES
  ophase,    \* "idle", "refused", "ascending" or "returned"
  oconfig,   \* the configuration of the call
  opulse,    \* i_pulse and q_pulse
  obest,     \* best_fidelity, best_i and best_q
  ohistory,  \* fidelity_history
  probes,    \* the envelopes each difference quotient of the last iteration evaluated
  oresult    \* the OpenSystemGrapeResult

openVars == <<ophase, oconfig, opulse, obest, ohistory, probes, oresult>>

NoOpenConfig == [grape |-> NoConfig, fd_epsilon |-> 0, rates |-> {}]
NoOpenResult == [pulse |-> NoPulse, fidelity |-> 0, iterations |-> 0, converged |-> FALSE,
                 open_system_fidelity |-> 0]
NoProbes == [coordinate \in {} |-> [plus |-> NoPulse, minus |-> NoPulse]]

-----------------------------------------------------------------------------

OpenSteps == 1..oconfig.grape.num_time_steps
Coordinates == Channels \X OpenSteps

\* evaluate_fidelity: an evolution that fails (solve_lindblad refuses a negative rate)
\* has the fidelity 0.
EvaluateFidelity(i, q) ==
  IF \E rate \in oconfig.rates : rate < 0 THEN 0
  ELSE IF IsLost([i |-> i, q |-> q]) THEN NaN
  ELSE OpenFidelity[<<i, q>>]

Moved(p, channel, t, by) == [p EXCEPT ![channel][t] = @ + by]

\* The envelopes handed to evaluate_fidelity for one difference quotient: the Q channel's
\* first evaluation gets q_pulse twice.
Probe(p, channel, t) ==
  LET plus == Moved(p, channel, t, 1)
  IN [plus |-> IF channel = "i" THEN plus ELSE [i |-> plus.q, q |-> plus.q],
      minus |-> Moved(p, channel, t, -1)]

\* The sign of a difference quotient, or NaN.
Slope(probe) ==
  LET f(p) == EvaluateFidelity(p.i, p.q)
  IN IF NaN \in {f(probe.plus), f(probe.minus)} THEN Lost ELSE f(probe.plus) - f(probe.minus)

OpenReached(level, slope) ==
  IF slope = Lost THEN {Lost}
  ELSE IF slope = 0 THEN {level}
  ELSE {l \in Levels : IF slope > 0 THEN l >= level ELSE l <= level}
OpenUpdates(p, ps) ==
  {n \in [i : [OpenSteps -> Levels \cup {Lost}], q : [OpenSteps -> Levels \cup {Lost}]] :
     \A c \in Coordinates : n[c[1]][c[2]] \in OpenReached(p[c[1]][c[2]], Slope(ps[c]))}

-----------------------------------------------------------------------------

OpenInit ==
  /\ ophase = "idle" /\ oconfig = NoOpenConfig
  /\ opulse = NoPulse /\ obest = [fidelity |-> 0, pulse |-> NoPulse]
  /\ ohistory = <<>> /\ probes = NoProbes /\ oresult = NoOpenResult

\* OpenSystemOptimizer::new and the head of optimize; the rates are not looked at.
OptimizeOpen(call) ==
  LET n == call.grape.num_time_steps
      first == [i |-> InitialI[n], q |-> InitialQ[n]]
  IN /\ ophase = "idle"
     /\ IF ConfigValid(call.grape, 2) /\ call.fd_epsilon > 0
          THEN /\ ophase' = "ascending" /\ oconfig' = call
               /\ opulse' = first /\ obest' = [fidelity |-> 0, pulse |-> first]
          ELSE ophase' = "refused" /\ UNCHANGED <<oconfig, opulse, obest>>
     /\ UNCHANGED <<ohistory, probes, oresult>>

OpenReturn ==
  LET p == obest'.pulse
  IN /\ ophase' = "returned"
     /\ oresult' = [pulse |-> p, fidelity |-> obest'.fidelity, iterations |-> Len(ohistory'),
                    converged |-> obest'.fidelity >= oconfig.grape.target_fidelity,
                    open_system_fidelity |-> EvaluateFidelity(p.i, p.q)]

\* One iteration up to the test of the target, the differences and the update after it.
AscendOpen ==
  LET fid == EvaluateFidelity(opulse.i, opulse.q)
  IN /\ ophase = "ascending" /\ Len(ohistory) < oconfig.grape.max_iterations
     /\ ohistory' = Append(ohistory, fid)
     /\ obest' = IF Above(fid, obest.fidelity) THEN [fidelity |-> fid, pulse |-> opulse] ELSE obest
     /\ IF AtLeast(fid, oconfig.grape.target_fidelity)
          THEN OpenReturn /\ UNCHANGED <<opulse, probes>>
          ELSE /\ probes' = [c \in Coordinates |->
                               IF IsLost(opulse) THEN [plus |-> opulse, minus |-> opulse]
                               ELSE Probe(opulse, c[1], c[2])]
               /\ opulse' \in OpenUpdates(opulse, probes')
               /\ UNCHANGED <<ophase, oresult>>
     /\ UNCHANGED oconfig

GiveUpOpen ==
  /\ ophase = "ascending" /\ Len(ohistory) = oconfig.grape.max_iterations
  /\ UNCHANGED <<oconfig, opulse, obest, ohistory, probes>>
  /\ OpenReturn

OpenNext == (\E call \in OpenCalls : OptimizeOpen(call)) \/ AscendOpen \/ GiveUpOpen

-----------------------------------------------------------------------------
(* Properties                                                               *)

\* What is returned is the best the optimiser evaluated, evaluated again to the same
\* value, and whether it converged is what its history says (optimize: best_*, the break
\* and the final evaluation).
OpenResultIsBest ==
  ophase = "returned" =>
    LET seen == {ohistory[k] : k \in DOMAIN ohistory}
    IN /\ \A fid \in seen : ~Above(fid, oresult.fidelity)
       /\ oresult.fidelity \in seen \cup {0}
       /\ oresult.fidelity > 0 => oresult.open_system_fidelity = oresult.fidelity
       /\ oresult.converged /\ oresult.fidelity > 0 =>
            oresult.fidelity = ohistory[Len(ohistory)]

\* "dF/du(t) = (F(u + eps) - F(u - eps)) / (2 eps)": the two evaluations of a quotient
\* differ in the one amplitude it is the derivative for.
DifferencesAreCentral ==
  \A c \in DOMAIN probes :
    \A channel \in Channels : \A t \in DOMAIN probes[c].plus[channel] :
      <<channel, t>> # c => probes[c].plus[channel][t] = probes[c].minus[channel][t]
=============================================================================
