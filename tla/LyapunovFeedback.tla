-------------------------- MODULE LyapunovFeedback --------------------------
(***************************************************************************)
(* RustLyapunovController (hal/src/feedback): the correction of each control   *)
(* axis from the state of a measured qubit and its target.  Density matrices    *)
(* are doubled and the factor 1/2 of the generators is left out, so that every  *)
(* quantity is an integer; the drive a correction stands for is its multiple of *)
(* the axis' Pauli matrix.                                                    *)
(***************************************************************************)
EXTENDS ComplexMatrices

CONSTANT FeedbackCalls   \* a controller's configuration, its target and a state

Axes == <<"x", "y", "z">>
NotFinite == 1000        \* an argument that is infinite or not a number
NoGainMatrix == <<>>     \* full_gain_matrix = None

ASSUME FeedbackAssumption ==
  \A call \in FeedbackCalls :
    /\ call.axes \in Seq(STRING) /\ call.gains \in Seq(Int) /\ call.full \in Seq(Int) /\ call.cap \in Int
    /\ call.target \in Seq(Int) /\ call.state \in Seq(Int)

VARIABLES
  fphase,      \* "idle", "refused" or "answered"
  fcall,       \* the controller and the state it was called with
  correction   \* the correction of each of its axes

feedbackVars == <<fphase, fcall, correction>>

NoFeedbackCall == [axes |-> <<>>, gains |-> <<>>, cap |-> 0, full |-> <<>>,
                   target |-> <<>>, state |-> <<>>]

-----------------------------------------------------------------------------

AxisPauli(axis) ==
  CASE axis = "x" -> <<<<Zero, One>>, <<One, Zero>>>>
    [] axis = "y" -> <<<<Zero, MinusI>>, <<<<0, 1>>, Zero>>>>
    [] axis = "z" -> <<<<One, Zero>>, <<Zero, <<-1, 0>>>>>>
Index(axis) == CHOOSE k \in DOMAIN Axes : Axes[k] = axis

\* FeedbackConfig::validate, with what the constructor checks before it: with a full
\* matrix the gains are not looked at, and nothing asks for a gain to be positive.
FeedbackAccepted(c) ==
  /\ Flattened(c.target, 2) /\ c.axes # <<>>
  /\ \A k \in DOMAIN c.axes : c.axes[k] \in {Axes[a] : a \in DOMAIN Axes}
  /\ IF c.full = NoGainMatrix
       THEN Len(c.gains) \in {1, Len(c.axes)} /\ \A k \in DOMAIN c.gains : c.gains[k] # NotFinite
       ELSE Len(c.full) = 9 /\ \A k \in DOMAIN c.full : c.full[k] # NotFinite
  /\ c.cap # NotFinite

GainVector(c) ==
  IF Len(c.gains) = 1 THEN [k \in DOMAIN c.axes |-> c.gains[1]] ELSE c.gains

\* canonical_basis_projections: Tr[target [i sigma, state]] for every axis.
Projections(state, target) ==
  [k \in DOMAIN Axes |->
     Trace(Dot(target, Commutator(Scaled(<<0, 1>>, AxisPauli(Axes[k])), state)))[1]]

Clamped(x, cap) == IF x < -cap THEN -cap ELSE IF x > cap THEN cap ELSE x

\* Mutant: the projections taken by an axis' place among the control axes.
FeedbackCorrectionByPlace(c, state, target) ==
  LET p == Projections(state, target)
      raw == [k \in DOMAIN c.axes |-> -GainVector(c)[k] * p[k]]
  IN [k \in DOMAIN raw |-> IF c.cap > 0 THEN Clamped(raw[k], c.cap) ELSE raw[k]]
\* feedback_correction
FeedbackCorrection(c, state, target) ==
  LET p == Projections(state, target)
      row(i) == FoldLeft(LAMBDA sum, j : sum + c.full[3 * (i - 1) + j] * p[j], 0, <<1, 2, 3>>)
      raw == [k \in DOMAIN c.axes |->
                IF c.full # NoGainMatrix THEN -row(Index(c.axes[k]))
                ELSE -GainVector(c)[k] * p[Index(c.axes[k])]]
  IN [k \in DOMAIN raw |-> IF c.cap > 0 THEN Clamped(raw[k], c.cap) ELSE raw[k]]

\* lyapunov_value grows as this falls.
Fidelity2(state, target) == Trace(Dot(target, state))[1]

\* The numbers of an accepted call are small against Modulus: what its corrections add to
\* the fidelity does not wrap.
ASSUME SmallAssumption ==
  \A call \in FeedbackCalls :
    FeedbackAccepted(call) /\ Flattened(call.state, 2) /\ call.full = NoGainMatrix =>
      LET state == FlatToComplexMatrix(call.state, 2)
          target == FlatToComplexMatrix(call.target, 2)
      IN \A k \in DOMAIN call.axes :
           LET p == Projections(state, target)[Index(call.axes[k])]
           IN 2 * (Fidelity2(state, target) + Len(call.axes) * (GainVector(call)[k] * p * p)) < Modulus

FeedbackInit == fphase = "idle" /\ fcall = NoFeedbackCall /\ correction = <<>>

\* The controller is made and asked for one correction.
Correct(call) ==
  /\ fphase = "idle"
  /\ IF FeedbackAccepted(call) /\ Flattened(call.state, 2)
       THEN /\ fphase' = "answered" /\ fcall' = call
            /\ correction' = FeedbackCorrection(call, FlatToComplexMatrix(call.state, 2),
                                                FlatToComplexMatrix(call.target, 2))
       ELSE fphase' = "refused" /\ UNCHANGED <<fcall, correction>>

FeedbackNext == \E call \in FeedbackCalls : Correct(call)

-----------------------------------------------------------------------------
(* Properties                                                               *)

\* Driving the qubit with the corrections never takes it away from its target: the
\* Lyapunov function does not grow along -i [sum of correction * sigma, state], and falls
\* unless every axis with a gain is stationary.  Gains are not negative here, the full
\* matrix is not used, as the code's validated path has it (feedback_correction and
\* canonical_basis_projections: their signs cancel each other out of most tests).
FeedbackDescends ==
  fphase = "answered" /\ fcall.full = NoGainMatrix
                      /\ (\A k \in DOMAIN fcall.gains : fcall.gains[k] >= 0) =>
    LET state == FlatToComplexMatrix(fcall.state, 2)
        target == FlatToComplexMatrix(fcall.target, 2)
        drive == FoldLeft(LAMBDA h, k : Sum(h, Scaled(<<correction[k], 0>>, AxisPauli(fcall.axes[k]))),
                          Zeros(2), [k \in DOMAIN correction |-> k])
        motion == Scaled(MinusI, Commutator(drive, state))
        rise == Fidelity2(Sum(state, motion), target) - Fidelity2(state, target)
    IN /\ rise >= 0
       /\ rise = 0 => \A k \in DOMAIN correction :
                        GainVector(fcall)[k] * Projections(state, target)[Index(fcall.axes[k])] = 0
       /\ fcall.cap > 0 => \A k \in DOMAIN correction : correction[k] \in -fcall.cap..fcall.cap
=============================================================================
