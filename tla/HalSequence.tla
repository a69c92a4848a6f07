------------------------------ MODULE HalSequence ------------------------------
(***************************************************************************)
(* Pulse sequences in the HAL (hal/src/temporal): a caller builds one with    *)
(* append and add_constraint and has it validated                           *)
(* (validation::validate_pulse_sequence); the gRPC handler checks the         *)
(* sequence of a request by rules of its own (temporal/validate.rs).  Times   *)
(* are in one integer unit; callers of append pass none that is negative.    *)
(***************************************************************************)
EXTENDS Integers, FiniteSets, Sequences

CONSTANTS
  Ns, Period,             \* units per nanosecond, and per sample of the AWG
  MinSamples, MaxSamples, \* the samples the AWG allows a pulse
  Jitter,                 \* jitter bound of the AWG clock
  Qubits, Ids,            \* qubits and pulse identifiers
  Starts, Durations, QubitLists, \* the arguments of append
  Asked,                  \* the constraints callers ask for
  Budgets,                \* arguments of DecoherenceBudget::new
  Requests,               \* the sequences clients send to the server
  MaxPulses, MaxConstraints, \* bounds: pulses and constraints of one sequence
  MaxDuration, MaxSteps   \* ResourceLimits: max_pulse_duration_ns, max_time_steps

Kinds == {"sequential", "max_delay", "simultaneous", "aligned", "min_gap"}
Never == 1000   \* a decay time no sequence reaches: the fraction 1

\* DecoherenceBudget.  t1, t2: decay times in units, 0 for a qubit without one; warn
\* and block: how many eighths of a decay time consume that fraction of it.
BudgetType == [t1 : [Qubits -> Nat], t2 : [Qubits -> Nat], warn : Int, block : Int]
NoBudget == [t1 |-> [q \in Qubits |-> 0], t2 |-> [q \in Qubits |-> 0], warn |-> 0, block |-> 0]

\* ScheduledPulse with the nominal times of its TimePoints.
PulseType == [qubits : Seq(Qubits), start : Nat, duration : Nat]
\* TemporalConstraint; fraction counts quarters of a's duration.
ConstraintType == [kind : Kinds, a : Ids, b : Ids, tolerance : Nat, fraction : Int]
\* The message of a sequence: any numbers, and kinds the server does not know.
MessagePulse == [id : Ids, start : Int, duration : Int]
MessageConstraint == [kind : Kinds \cup {"unspecified"}, a : Ids, b : Ids, tolerance : Int, fraction : Int]
RequestType == [pulses : Seq(MessagePulse), constraints : Seq(MessageConstraint)]

ASSUME ClockAssumption ==
  /\ Ns \in Nat \ {0} /\ Period \in Nat \ {0}
  /\ MinSamples \in Nat \ {0} /\ MaxSamples \in Nat /\ MinSamples <= MaxSamples
  /\ Jitter \in Nat /\ MaxDuration \in Nat /\ MaxSteps \in Nat /\ MaxConstraints \in Nat /\ MaxPulses \in Nat
ASSUME CallerAssumption ==
  /\ Starts \subseteq Nat /\ Durations \subseteq Nat /\ QubitLists \subseteq Seq(Qubits)
  /\ Asked \subseteq ConstraintType /\ Budgets \subseteq BudgetType /\ Requests \subseteq RequestType

VARIABLES
  awg,          \* whether the sequence has an AWG clock
  budget,       \* its decoherence budget
  pulses,       \* its pulses by identifier
  constraints,  \* its constraints
  spent,        \* qubit_time_ns of the budget
  verdict,      \* what the last validation of this very sequence said
  request,      \* the sequence the server checked last
  served        \* and what it answered

vars == <<awg, budget, pulses, constraints, spent, verdict, request, served>>

-----------------------------------------------------------------------------
(* Clock and budget                                                         *)

\* f64::round of a time that is not negative.
Rounded(t, grid) == (2 * t + grid) \div (2 * grid)
Grid == IF awg THEN Period ELSE Ns
QuantizedNs(t) == Rounded(t, Grid) * Grid
NumSamples(t) == IF Rounded(t, Grid) = 0 THEN 1 ELSE Rounded(t, Grid)

\* AWGClockConfig::quantize_duration: out of range is clamped, not refused.
QuantizeDuration(t) ==
  LET n == Rounded(t, Period)
  IN (IF n < MinSamples THEN MinSamples ELSE IF n > MaxSamples THEN MaxSamples ELSE n) * Period

MakePulse(qubits, start, duration) ==
  [qubits |-> qubits, start |-> start,
   duration |-> IF awg THEN QuantizeDuration(duration) ELSE duration]

StartNs(p) == QuantizedNs(p.start)
DurationNs(p) == QuantizedNs(p.duration)
EndNs(p) == StartNs(p) + DurationNs(p)

\* DecoherenceBudget::new
BudgetAccepted(b) ==
  /\ 0 < b.warn /\ b.warn < Never /\ 0 < b.block /\ b.block <= Never /\ b.warn < b.block
  /\ \A q \in Qubits : b.t1[q] > 0 /\ b.t2[q] > 0 => b.t2[q] <= 2 * b.t1[q]

\* The fraction of a decay time t consumed after a time reaches a threshold; an unknown
\* decay time is never consumed.
Reached(time, t, threshold) == t > 0 /\ threshold < Never /\ 8 * time >= threshold * t

\* The time that is already consumed counts, what the pulse adds does not.
CanAddBefore(q, duration) == ~Reached(spent[q], budget.t2[q], budget.block)

CanAdd(q, duration) == ~Reached(spent[q] + duration, budget.t2[q], budget.block)

Occurrences(q, qubits) == Cardinality({i \in DOMAIN qubits : qubits[i] = q})
Charged(qubits, duration) == [q \in Qubits |-> spent[q] + duration * Occurrences(q, qubits)]

\* DecoherenceBudget::check: a warning is an issue like a block.
BudgetIssues ==
  IF budget = NoBudget THEN {}
  ELSE {q \in Qubits : \/ Reached(spent[q], budget.t1[q], budget.warn)
                       \/ Reached(spent[q], budget.t2[q], budget.warn)}
Blocked(q) == Reached(spent[q], budget.t2[q], budget.block)

-----------------------------------------------------------------------------
(* Constraints, twice                                                       *)

Abs(n) == IF n < 0 THEN -n ELSE n

\* TemporalConstraint::new
ConstraintAccepted(c) == c.a # c.b /\ (c.kind = "aligned" => 0 < c.fraction /\ c.fraction < 4)

\* TemporalConstraint::check; starts and durations are the quantized ones.
Check(c, a, b, jitter) ==
  LET gap == b.start - (a.start + a.duration)
      back == a.start - (b.start + b.duration)
  IN CASE c.kind = "sequential"   -> gap >= c.tolerance - jitter
       [] c.kind = "max_delay"    -> gap <= c.tolerance + jitter
       [] c.kind = "simultaneous" -> Abs(a.start - b.start) <= c.tolerance + jitter
       [] c.kind = "aligned"      ->
            Abs(4 * a.start + c.fraction * a.duration - 4 * b.start - 2 * b.duration)
              <= 4 * (c.tolerance + jitter)
       [] c.kind = "min_gap"      ->
            (IF a.start <= b.start THEN gap ELSE back) >= c.tolerance + jitter

\* The server's tolerance of a common start is a hundredth of a nanosecond at least.
Together(c, a, b) == LET apart == Abs(a.start - b.start) IN apart <= c.tolerance \/ 100 * apart <= Ns

\* A delay is measured from the start of the first pulse.
ServerCheckFromStart(c, a, b) ==
  LET gap == b.start - (a.start + a.duration)
  IN CASE c.kind = "sequential"   -> gap >= -c.tolerance
       [] c.kind = "max_delay"    -> b.start - a.start <= c.tolerance
       [] c.kind = "simultaneous" -> Together(c, a, b)
       [] c.kind = "min_gap"      -> gap >= c.tolerance
       [] c.kind \in {"aligned", "unspecified"} -> TRUE

\* validate_single_constraint: nominal times, no jitter; tolerance widens a sequential
\* constraint, a minimum gap has a direction and an alignment is not looked at.
ServerCheck(c, a, b) ==
  LET gap == b.start - (a.start + a.duration)
  IN CASE c.kind = "sequential"   -> gap >= -c.tolerance
       [] c.kind = "max_delay"    -> gap <= c.tolerance
       [] c.kind = "simultaneous" -> Together(c, a, b)
       [] c.kind = "min_gap"      -> gap >= c.tolerance
       [] c.kind \in {"aligned", "unspecified"} -> TRUE

\* The HashMap of the pulses: the last one of an identifier stays.
PulseMap(sent) ==
  [id \in {sent[n].id : n \in DOMAIN sent} |->
     sent[CHOOSE n \in DOMAIN sent : sent[n].id = id /\ \A m \in DOMAIN sent : sent[m].id = id => m <= n]]

\* validate_temporal_constraints: the constraints an error is reported for.
ServerErrors(r) ==
  LET map == PulseMap(r.pulses)
  IN {k \in DOMAIN r.constraints : LET c == r.constraints[k] IN
        ~({c.a, c.b} \subseteq DOMAIN map /\ ServerCheck(c, map[c.a], map[c.b]))}

-----------------------------------------------------------------------------
(* Building a sequence                                                      *)

NoPulse == "no pulse"
NoRequest == [pulses |-> <<>>, constraints |-> <<>>]

Init ==
  /\ awg \in BOOLEAN
  /\ budget \in {b \in Budgets : BudgetAccepted(b)} \cup {NoBudget}
  /\ pulses = [id \in {} |-> NoPulse] /\ constraints = <<>>
  /\ spent = [q \in Qubits |-> 0]
  /\ verdict = "none" /\ request = NoRequest /\ served = "none"

\* append; a pulse refused leaves the sequence as it was.
AppendPulse(id, qubits, start, duration) ==
  LET p == MakePulse(qubits, start, duration)
  IN /\ Cardinality(DOMAIN pulses) < MaxPulses
     /\ id \notin DOMAIN pulses
     /\ budget # NoBudget => \A i \in DOMAIN qubits : CanAdd(qubits[i], DurationNs(p))
     /\ pulses' = [i \in DOMAIN pulses \cup {id} |-> IF i = id THEN p ELSE pulses[i]]
     /\ spent' = IF budget = NoBudget THEN spent ELSE Charged(qubits, DurationNs(p))
     /\ verdict' = "none" /\ request' = NoRequest /\ served' = "none"
     /\ UNCHANGED <<awg, budget, constraints>>

Placed(p) == [start |-> StartNs(p), duration |-> DurationNs(p)]
JitterOfTwo == IF awg THEN 2 * Jitter ELSE 0
Holds(c) == Check(c, Placed(pulses[c.a]), Placed(pulses[c.b]), JitterOfTwo)

\* The constraint is checked on the times the caller asked for.
AddConstraintNominal(c) ==
  /\ Len(constraints) < MaxConstraints
  /\ ConstraintAccepted(c) /\ {c.a, c.b} \subseteq DOMAIN pulses
  /\ Check(c, pulses[c.a], pulses[c.b], JitterOfTwo)
  /\ constraints' = Append(constraints, c)
  /\ verdict' = "none" /\ request' = NoRequest /\ served' = "none"
  /\ UNCHANGED <<awg, budget, pulses, spent>>

\* TemporalConstraint::new and add_constraint
AddConstraint(c) ==
  /\ Len(constraints) < MaxConstraints
  /\ ConstraintAccepted(c) /\ {c.a, c.b} \subseteq DOMAIN pulses /\ Holds(c)
  /\ constraints' = Append(constraints, c)
  /\ verdict' = "none" /\ request' = NoRequest /\ served' = "none"
  /\ UNCHANGED <<awg, budget, pulses, spent>>

-----------------------------------------------------------------------------
(* Validating it                                                            *)

ConstraintIssues == {k \in DOMAIN constraints : ~Holds(constraints[k])}

SharesQubit(a, b) == \E i \in DOMAIN a.qubits, j \in DOMAIN b.qubits : a.qubits[i] = b.qubits[j]

Overlaps ==
  {p \in (DOMAIN pulses) \X (DOMAIN pulses) : LET x == p[1] y == p[2] IN
     /\ x # y /\ SharesQubit(pulses[x], pulses[y])
     /\ StartNs(pulses[x]) < EndNs(pulses[y]) /\ StartNs(pulses[y]) < EndNs(pulses[x])}

\* total_duration_ns: from the first start to the last end.
TotalWithin(limit) ==
  \A x, y \in DOMAIN pulses : EndNs(pulses[x]) - StartNs(pulses[y]) <= limit

\* validate_pulse_sequence
Valid ==
  /\ TotalWithin(MaxDuration)
  /\ \A id \in DOMAIN pulses : NumSamples(pulses[id].duration) <= MaxSteps
  /\ ConstraintIssues = {} /\ BudgetIssues = {} /\ Overlaps = {}

Validate ==
  /\ verdict = "none"
  /\ verdict' = IF Valid THEN "valid" ELSE "invalid"
  /\ UNCHANGED <<awg, budget, pulses, constraints, spent, request, served>>

-----------------------------------------------------------------------------
(* The sequence of an ExecutePulse request                                  *)

\* The built sequence as a message, with the nominal times.
Sent ==
  LET ids == CHOOSE f \in [1..Cardinality(DOMAIN pulses) -> DOMAIN pulses] :
               {f[n] : n \in DOMAIN f} = DOMAIN pulses
  IN [pulses |-> [n \in DOMAIN ids |-> [id |-> ids[n], start |-> pulses[ids[n]].start,
                                       duration |-> pulses[ids[n]].duration]],
      constraints |-> constraints]

\* execute_single_pulse up to the pulse itself: of a built sequence that is valid, or of
\* any sequence a client makes.  Bound: the latter before anything is built, as the check
\* reads nothing but the request.
Serve ==
  /\ request' \in IF pulses = <<>> THEN Requests ELSE IF verdict = "valid" THEN {Sent} ELSE {}
  /\ served' = IF ServerErrors(request') = {} THEN "accepted" ELSE "rejected"
  /\ UNCHANGED <<awg, budget, pulses, constraints, spent, verdict>>

Next ==
  \/ \E id \in Ids, qubits \in QubitLists, start \in Starts, duration \in Durations :
       AppendPulse(id, qubits, start, duration)
  \/ \E c \in Asked : AddConstraint(c)
  \/ Validate
  \/ Serve

Spec == Init /\ [][Next]_vars

-----------------------------------------------------------------------------
(* Properties                                                               *)

TypeOK ==
  /\ awg \in BOOLEAN /\ budget \in Budgets \cup {NoBudget}
  /\ DOMAIN pulses \subseteq Ids /\ pulses \in [DOMAIN pulses -> PulseType]
  /\ constraints \in Seq(ConstraintType)
  /\ spent \in [Qubits -> Nat]
  /\ verdict \in {"none", "valid", "invalid"} /\ served \in {"none", "accepted", "rejected"}
  /\ request \in RequestType

\* A constraint that was accepted goes on holding, on the times the clock rounded to,
\* whatever is appended afterwards (sequence.rs 112-193): validating a sequence built with
\* append and add_constraint reports no constraint.
ConstraintsKept == ConstraintIssues = {}

ListsOnce == \A id \in DOMAIN pulses : LET l == pulses[id].qubits IN
               \A i, j \in DOMAIN l : l[i] = l[j] => i = j

\* No qubit is driven into the blocking part of its T2, as long as no pulse lists a qubit
\* twice: each listing is checked alone and then all are charged (sequence.rs 132-152).
BudgetKept == budget # NoBudget /\ ListsOnce => \A q \in Qubits : ~Blocked(q)

\* Times the clock does not move, none of them negative.
OnGrid(r) ==
  /\ \A n \in DOMAIN r.pulses : LET p == r.pulses[n] IN p.start % Ns = 0 /\ p.duration % Ns = 0 /\ p.duration >= 0
  /\ \A k \in DOMAIN r.constraints : r.constraints[k].tolerance >= 0
Resolved(r, c) == {c.a, c.b} \subseteq DOMAIN PulseMap(r.pulses)
InOrder(r, c) == Resolved(r, c) => PulseMap(r.pulses)[c.a].start <= PulseMap(r.pulses)[c.b].start

\* The two rules of a constraint agree where the clock moves nothing and nothing jitters:
\* the server accepts a valid sequence unless a minimum gap names its pulses backwards, and
\* a request it accepts breaks at most alignments and sequential gaps (validate.rs 39-176,
\* constraints.rs 112-197).
RulesAgree ==
  ~awg /\ OnGrid(request) =>
    /\ served = "rejected" /\ verdict = "valid" /\ request = Sent =>
         \E k \in DOMAIN request.constraints :
           request.constraints[k].kind = "min_gap" /\ ~InOrder(request, request.constraints[k])
    /\ served = "accepted" =>
         \A k \in DOMAIN request.constraints : LET c == request.constraints[k] map == PulseMap(request.pulses) IN
           /\ Resolved(request, c)
           /\ c.kind \in {"aligned", "unspecified", "sequential"} \/ Check(c, map[c.a], map[c.b], 0)
=============================================================================
