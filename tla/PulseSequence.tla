----------------------------- MODULE PulseSequence -----------------------------
(***************************************************************************)
(* The rules of a pulse sequence (core/src/qubitos/temporal/sequence.py,    *)
(* types.py, budget.py and constraints.py): how times are rounded to the    *)
(* clock, when a pulse or a constraint is accepted and what it costs.  All   *)
(* times are in one integer unit, small enough that a quarter of a pulse is  *)
(* a whole number of units.                                                 *)
(***************************************************************************)
EXTENDS Integers, FiniteSets, Sequences

CONSTANTS
  Ns,         \* units per nanosecond, the resolution without an AWG
  Period,     \* units per sample of the AWG
  MinSamples, MaxSamples, \* samples of one pulse on the AWG
  Jitter,     \* jitter bound of the AWG clock, in units
  Qubits,
  T2Limit     \* units a qubit can spend below block_fraction of its T2, 0 if T2 is unknown

ASSUME ClockAssumption ==
  /\ Ns \in Nat \ {0} /\ Period \in Nat \ {0}
  /\ MinSamples \in Nat \ {0} /\ MaxSamples \in Nat /\ MinSamples <= MaxSamples
  /\ Jitter \in Nat
ASSUME BudgetAssumption == T2Limit \in [Qubits -> Nat]

Kinds == {"sequential", "max_delay", "simultaneous", "aligned", "min_gap"}

\* Python's round(): to the nearest multiple, halves to the even one.
Nearest(t, grid) ==
  LET n == t \div grid
      rest == 2 * (t % grid)
  IN IF rest < grid \/ (rest = grid /\ n % 2 = 0) THEN n ELSE n + 1

Grid(awg) == IF awg THEN Period ELSE Ns
Quantized(t, awg) == Nearest(t, Grid(awg)) * Grid(awg)

\* AWGClockConfig.validate_duration refuses what quantize_duration would have to
\* clamp; without an AWG a TimePoint must not round to zero.
FitsClock(duration, awg) ==
  LET samples == Nearest(duration, Grid(awg))
  IN IF awg THEN MinSamples <= samples /\ samples <= MaxSamples ELSE samples > 0

StartFits(start, awg) == awg \/ start = 0 \/ Quantized(start, awg) > 0

Occurrences(q, qubits) == Cardinality({i \in DOMAIN qubits : qubits[i] = q})

\* The time may reach the blocking limit.
FitsBudgetToLimit(spent, qubits, duration) ==
  \A i \in DOMAIN qubits :
    LET q == qubits[i] IN T2Limit[q] = 0 \/ spent[q] + duration <= T2Limit[q]

\* DecoherenceBudget.can_add, for each qubit before any time is added; the fraction
\* of T2 grows with the time, so the threshold is a time.
FitsBudget(spent, qubits, duration) ==
  \A i \in DOMAIN qubits :
    LET q == qubits[i] IN T2Limit[q] = 0 \/ spent[q] + duration < T2Limit[q]

\* DecoherenceBudget.add_time, once for each index the pulse lists.
Charged(spent, qubits, duration) ==
  [q \in Qubits |-> spent[q] + duration * Occurrences(q, qubits)]

Abs(n) == IF n < 0 THEN -n ELSE n
EndOf(p) == p.start + p.duration
Gap(a, b) == b.start - EndOf(a)

\* TemporalConstraint.check: c.fraction counts quarters of a's duration.
Satisfied(c, a, b, jitter) ==
  CASE c.kind = "sequential"   -> Gap(a, b) >= c.tolerance - jitter
    [] c.kind = "max_delay"    -> Gap(a, b) <= c.tolerance + jitter
    [] c.kind = "simultaneous" -> Abs(a.start - b.start) <= c.tolerance + jitter
    [] c.kind = "aligned"      ->
         Abs(4 * a.start + c.fraction * a.duration - 4 * b.start - 2 * b.duration)
           <= 4 * (c.tolerance + jitter)
    [] c.kind = "min_gap"      ->
         (IF a.start <= b.start THEN Gap(a, b) ELSE Gap(b, a)) >= c.tolerance + jitter

SharesQubit(a, b) == \E i \in DOMAIN a.qubits, j \in DOMAIN b.qubits : a.qubits[i] = b.qubits[j]

\* PulseSequence.validate: two pulses overlap on a qubit.
Overlap(a, b) == SharesQubit(a, b) /\ a.start < EndOf(b) /\ b.start < EndOf(a)
=============================================================================
