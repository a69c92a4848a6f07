------------------------------- MODULE CoreProofs -------------------------------
(***************************************************************************)
(* Proofs about the Python core, each part for itself: the scheduler, for any   *)
(* clock, qubits, limits and sessions of calls; the provenance store and the     *)
(* difference of its trees, for any processes, limits and experiments; and the    *)
(* calibration loop, for any device, readings, policies and bounds.           *)
(***************************************************************************)
EXTENDS PulseScheduler, ProvenanceDiff, CalibrationLoop,
        FunctionTheorems, FiniteSetTheorems, SequenceTheorems, WellFoundedInduction, TLAPS

-----------------------------------------------------------------------------
(* PulseScheduler: a schedule that is returned is complete and keeps its          *)
(* constraints, and the budget that the calls share is never spent past its limit *)

\* The calls are those of the session, and the budget counts whole units.
CallInv ==
  /\ session \in Sessions /\ calls \in DOMAIN session
  /\ phase \in {"validate", "sort", "place", "append", "constrain", "done"} \cup Failures
  /\ spent \in [Qubits -> Nat]

\* Each operation has at most one pulse, and each pulse an operation.
PulsesInv ==
  /\ pulses \in Seq({pulses[n] : n \in DOMAIN pulses})
  /\ \A n \in DOMAIN pulses : pulses[n].op \in Ops
  /\ \A m, n \in DOMAIN pulses : pulses[m].op = pulses[n].op => m = n

\* The durations were checked before anything was built.
CheckedInv == phase \notin {"validate"} \cup Failures => WellFormed

\* The loops run one after the other: constraints are added to a complete sequence.
LoopInv ==
  /\ added \in 0..Len(problem.constraints)
  /\ phase \in {"validate", "sort", "place", "append"} => added = 0
  /\ phase \in {"constrain", "done"} =>
       Unappended = {} /\ \A k \in 1..added : Holds(Constraint(k))
  /\ phase = "done" => added = Len(problem.constraints)

SchedulerInv == CallInv /\ PulsesInv /\ CheckedInv /\ LoopInv /\ BudgetKept

\* Operations that wait for each other in a circle, or in several.
Circular(C) == C # {} /\ \A j \in C : \E i \in C : DependsOn(j, i)

\* Each operation found comes after all those it depends on.
Topological ==
  \A n \in DOMAIN order : \A i \in Ops :
    DependsOn(order[n], i) => \E m \in DOMAIN order : m < n /\ order[m] = i

\* "Returns pulse IDs in a valid execution order. Raises SchedulingError if there's a cycle"
\* (scheduler.py 356-359): the order that is placed is complete and topological, and a call is
\* refused as cyclic if and only if operations wait for each other.
SortedOrRefused ==
  /\ phase \in {"place", "append", "constrain", "done"} =>
       /\ Sorted = Ops /\ IsInjective(order) /\ Topological
       /\ \A C \in SUBSET Ops : ~Circular(C)
  /\ phase = "cyclic" => \E C \in SUBSET Ops : Circular(C)

\* What makes it so while the order grows.
SortInv ==
  /\ order \in Seq(Ops) /\ IsInjective(order) /\ Topological
  /\ phase = "validate" => order = <<>>
  /\ phase \in {"place", "append", "constrain", "done"} => Sorted = Ops
  /\ phase = "cyclic" => Ready = {} /\ Sorted # Ops

-----------------------------------------------------------------------------
(* Times and charges                                                        *)

LEMMA ProblemTyped == CallInv => problem \in ProblemType
BY SessionsAssumption DEF CallInv, problem

LEMMA OpTyped ==
  ASSUME CallInv, NEW i \in Ops
  PROVE  Op(i).qubits \in Seq(Qubits) /\ Op(i).duration \in Int
<1>1. problem.ops \in Seq(OpType)
  BY ProblemTyped DEF ProblemType
<1>2. problem.ops[i] \in OpType
  BY <1>1 DEF Ops
<1> QED
  BY <1>2 DEF Op, OpType

\* What the clock takes is a positive whole number of units.
LEMMA DurationTyped ==
  ASSUME NEW t \in Int, NEW awg \in BOOLEAN
  PROVE  /\ Quantized(t, awg) \in Int
         /\ FitsClock(t, awg) => Quantized(t, awg) \in Nat
<1>1. Grid(awg) \in Nat \ {0}
  BY ClockAssumption DEF Grid
<1>2. Nearest(t, Grid(awg)) \in Int
  BY <1>1 DEF Nearest
<1>3. FitsClock(t, awg) => Nearest(t, Grid(awg)) \in Nat
  BY <1>2, ClockAssumption DEF FitsClock
<1> QED
  BY <1>1, <1>2, <1>3 DEF Quantized

\* A list has a qubit a finite number of times, without repetitions at most once.
LEMMA OccurrencesTyped ==
  ASSUME NEW l \in Seq(Qubits), NEW q
  PROVE  Occurrences(q, l) \in Nat
<1>1. IsFiniteSet(DOMAIN l) /\ IsFiniteSet({i \in DOMAIN l : l[i] = q})
  BY FS_Interval, FS_Subset
<1> QED
  BY <1>1, FS_CardinalityType DEF Occurrences

LEMMA OnceOrNever ==
  ASSUME NEW l \in Seq(Qubits), NEW q, \A i, j \in DOMAIN l : l[i] = l[j] => i = j
  PROVE  Occurrences(q, l) = 0 \/ (Occurrences(q, l) = 1 /\ \E i \in DOMAIN l : l[i] = q)
<1> DEFINE at == {i \in DOMAIN l : l[i] = q}
<1>1. CASE at = {}
  BY <1>1, FS_EmptySet DEF Occurrences
<1>2. CASE at # {}
  <2>1. PICK i \in DOMAIN l : l[i] = q
    BY <1>2
  <2>2. at = {i}
    BY <2>1
  <2> QED
    BY <2>1, <2>2, FS_Singleton DEF Occurrences
<1> QED
  BY <1>1, <1>2

LEMMA ChargedTyped ==
  ASSUME NEW qs \in Seq(Qubits), NEW d \in Nat, spent \in [Qubits -> Nat]
  PROVE  Charged(spent, qs, d) \in [Qubits -> Nat]
<1>1. ASSUME NEW q \in Qubits PROVE spent[q] + d * Occurrences(q, qs) \in Nat
  <2>1. Occurrences(q, qs) \in Nat
    BY OccurrencesTyped
  <2> QED
    BY <2>1
<1> QED
  BY <1>1 DEF Charged

-----------------------------------------------------------------------------
(* The steps                                                                *)

LEMMA SchedulerInvInit == SchedulerInit => SchedulerInv
<1> SUFFICES ASSUME SchedulerInit PROVE SchedulerInv
  OBVIOUS
<1>1. CallInv
  <2>1. session # <<>> /\ session \in Seq(ProblemType)
    BY SessionsAssumption DEF SchedulerInit
  <2> QED
    BY <2>1 DEF SchedulerInit, CallInv, Failures
<1>2. PulsesInv /\ CheckedInv
  BY DEF SchedulerInit, PulsesInv, CheckedInv, Failures
<1>3. LoopInv
  <2>1. Len(problem.constraints) \in Nat
    BY <1>1, ProblemTyped DEF ProblemType
  <2> QED
    BY <2>1 DEF SchedulerInit, LoopInv
<1>4. BudgetKept
  <2>1. \A q \in Qubits : spent[q] = 0 /\ T2Limit[q] \in Nat
    BY BudgetAssumption DEF SchedulerInit
  <2> QED
    BY <2>1 DEF BudgetKept
<1> QED
  BY <1>1, <1>2, <1>3, <1>4 DEF SchedulerInv

\* What a call is about, and what its pulses and constraints amount to, stays with them.
LEMMA CallStays ==
  ASSUME UNCHANGED <<session, calls, pulses>>
  PROVE  /\ problem' = problem /\ Ops' = Ops /\ Unappended' = Unappended
         /\ \A k : Constraint(k)' = Constraint(k) /\ (Holds(Constraint(k))' <=> Holds(Constraint(k)))
         /\ WellFormed' <=> WellFormed
BY DEF problem, Ops, Unappended, Constraint, Constraints, Op, Holds, PulseOf, WellFormed

\* The loops before the sequence is built leave the pulses and the budget alone.
LEMMA PlacingInv ==
  ASSUME SchedulerInv, ValidateInputs \/ Sort \/ Place \/ AllAppended
  PROVE  SchedulerInv'
<1>1. UNCHANGED <<session, calls, pulses, added, spent>>
  BY DEF ValidateInputs, Sort, Place, AllAppended
<1>2. \/ phase = "validate" /\ (phase' = "malformed" \/ (phase' = "sort" /\ WellFormed))
      \/ phase = "sort" /\ phase' \in {"sort", "place", "cyclic"}
      \/ phase = "place" /\ phase' \in {"place", "append"}
      \/ phase = "append" /\ phase' = "constrain" /\ Unappended = {}
  BY DEF ValidateInputs, Sort, Place, AllAppended
<1>3. CallInv'
  BY <1>1, <1>2 DEF SchedulerInv, CallInv, Failures
<1>4. PulsesInv'
  BY <1>1, CallStays DEF SchedulerInv, PulsesInv
<1>5. CheckedInv'
  BY <1>1, <1>2, CallStays DEF SchedulerInv, CheckedInv, Failures
<1>6. LoopInv'
  BY <1>1, <1>2, CallStays DEF SchedulerInv, LoopInv
<1>7. BudgetKept'
  BY <1>1 DEF SchedulerInv, BudgetKept
<1> QED
  BY <1>3, <1>4, <1>5, <1>6, <1>7 DEF SchedulerInv

\* append: the pulse of one more operation, which the budget has room for on each qubit.
LEMMA AppendInv ==
  ASSUME SchedulerInv, AppendPulse
  PROVE  SchedulerInv'
<1>1. phase = "append" /\ UNCHANGED <<session, calls, added>> /\ added = 0
  BY DEF AppendPulse, SchedulerInv, LoopInv
<1>2. problem \in ProblemType /\ problem' = problem /\ Ops' = Ops /\ WellFormed /\ (WellFormed' <=> WellFormed)
  BY <1>1, ProblemTyped DEF SchedulerInv, CheckedInv, Failures, problem, Ops, WellFormed, Op, Constraint, Constraints
<1>3. PICK i \in Unappended :
        LET duration == Quantized(Op(i).duration, problem.awg) IN
        \/ /\ FitsClock(Op(i).duration, problem.awg)
           /\ FitsBudget(spent, Op(i).qubits, duration)
           /\ pulses' = Append(pulses, [op |-> i, qubits |-> Op(i).qubits, duration |-> duration,
                                        start |-> Quantized(StartOf(i), problem.awg)])
           /\ spent' = Charged(spent, Op(i).qubits, duration)
           /\ phase' = phase
        \/ phase' = "value_error" /\ pulses' = pulses /\ spent' = spent
  BY DEF AppendPulse
<1> DEFINE duration == Quantized(Op(i).duration, problem.awg)
           p == [op |-> i, qubits |-> Op(i).qubits, duration |-> duration,
                 start |-> Quantized(StartOf(i), problem.awg)]
<1>4. CASE phase' = "value_error" /\ pulses' = pulses /\ spent' = spent
  <2>1. CallInv' /\ CheckedInv'
    BY <1>1, <1>4 DEF SchedulerInv, CallInv, CheckedInv, Failures
  <2>2. PulsesInv' /\ LoopInv'
    BY <1>1, <1>2, <1>4 DEF SchedulerInv, PulsesInv, LoopInv
  <2>3. BudgetKept'
    BY <1>1, <1>4 DEF SchedulerInv, BudgetKept
  <2> QED
    BY <2>1, <2>2, <2>3 DEF SchedulerInv
<1>5. CASE phase' = phase
  <2>1. /\ FitsClock(Op(i).duration, problem.awg) /\ FitsBudget(spent, Op(i).qubits, duration)
        /\ pulses' = Append(pulses, p) /\ spent' = Charged(spent, Op(i).qubits, duration)
    BY <1>1, <1>3, <1>5
  <2>2. i \in Ops /\ \A n \in DOMAIN pulses : pulses[n].op # i
    BY DEF Unappended
  <2>3. Op(i).qubits \in Seq(Qubits) /\ Op(i).duration \in Int /\ problem.awg \in BOOLEAN
    BY <1>2, <2>2, OpTyped DEF SchedulerInv, ProblemType
  <2>4. duration \in Nat
    BY <2>1, <2>3, DurationTyped
  <2> HIDE DEF duration
  <2>5. CallInv' /\ CheckedInv'
    BY <1>1, <1>2, <1>5, <2>1, <2>3, <2>4, ChargedTyped DEF SchedulerInv, CallInv, CheckedInv
  <2>6. PulsesInv'
    <3> DEFINE old == {pulses[n] : n \in DOMAIN pulses}
               T == old \cup {p}
    <3>1. pulses \in Seq(T) /\ p \in T
      BY DEF SchedulerInv, PulsesInv
    <3>2. /\ DOMAIN pulses' = DOMAIN pulses \cup {Len(pulses) + 1} /\ Len(pulses) + 1 \notin DOMAIN pulses
          /\ pulses'[Len(pulses) + 1] = p
          /\ \A n \in DOMAIN pulses : pulses'[n] = pulses[n]
      BY <2>1, <3>1
    <3>3. T = {pulses'[n] : n \in DOMAIN pulses'}
      BY <3>2
    <3>4. pulses' \in Seq(T)
      BY <2>1, <3>1
    <3>5. p.op = i
      OBVIOUS
    <3> HIDE DEF p, T
    <3>6. \A n \in DOMAIN pulses' : pulses'[n].op \in Ops
      BY <2>2, <3>2, <3>5 DEF SchedulerInv, PulsesInv
    <3>7. \A m, n \in DOMAIN pulses' : pulses'[m].op = pulses'[n].op => m = n
      BY <2>2, <3>2, <3>5 DEF SchedulerInv, PulsesInv
    <3> QED
      BY <1>2, <3>3, <3>4, <3>6, <3>7 DEF PulsesInv
  <2>7. LoopInv'
    BY <1>1, <1>2, <1>5 DEF SchedulerInv, LoopInv
  <2>8. BudgetKept'
    <3> SUFFICES ASSUME \A n \in DOMAIN session : \A j \in DOMAIN session[n].ops : IsInjective(session[n].ops[j].qubits),
                        NEW q \in Qubits, T2Limit[q] > 0
                 PROVE  spent'[q] < T2Limit[q]
      BY <1>1 DEF BudgetKept
    <3>1. spent[q] \in Nat /\ T2Limit[q] \in Nat /\ spent[q] < T2Limit[q]
      BY BudgetAssumption DEF SchedulerInv, CallInv, BudgetKept
    <3>2. IsInjective(Op(i).qubits)
      BY <2>2 DEF SchedulerInv, CallInv, Op, Ops, problem
    <3>3. \A m, n \in DOMAIN Op(i).qubits : Op(i).qubits[m] = Op(i).qubits[n] => m = n
      BY <3>2 DEF IsInjective
    <3>4. spent'[q] = spent[q] + duration * Occurrences(q, Op(i).qubits)
      BY <2>1 DEF Charged
    <3>5. \A m \in DOMAIN Op(i).qubits : Op(i).qubits[m] = q => spent[q] + duration < T2Limit[q]
      BY <2>1, <3>1 DEF FitsBudget
    <3>6. CASE Occurrences(q, Op(i).qubits) = 0
      BY <2>4, <3>1, <3>4, <3>6
    <3>7. CASE Occurrences(q, Op(i).qubits) = 1 /\ \E m \in DOMAIN Op(i).qubits : Op(i).qubits[m] = q
      BY <2>4, <3>1, <3>4, <3>5, <3>7
    <3> QED
      BY <2>3, <3>3, <3>6, <3>7, OnceOrNever
  <2> QED
    BY <2>5, <2>6, <2>7, <2>8 DEF SchedulerInv
<1> QED
  BY <1>1, <1>3, <1>4, <1>5

\* add_constraint: what has been accepted goes on holding, for the pulses stay.
LEMMA AddConstraintInv ==
  ASSUME SchedulerInv, AddConstraint
  PROVE  SchedulerInv'
<1>1. phase = "constrain" /\ UNCHANGED <<session, calls, pulses, spent>>
  BY DEF AddConstraint
<1>2. /\ added \in 0..Len(problem.constraints) /\ Len(problem.constraints) \in Nat
      /\ Unappended = {} /\ \A k \in 1..added : Holds(Constraint(k))
  BY <1>1, ProblemTyped DEF SchedulerInv, LoopInv, ProblemType
<1>3. \/ /\ added < Len(problem.constraints) /\ Holds(Constraint(added + 1))
         /\ added' = added + 1 /\ phase' = "constrain"
      \/ phase' = "value_error" /\ added' = added
      \/ phase' = "done" /\ added' = added /\ added = Len(problem.constraints)
  BY <1>1 DEF AddConstraint
<1>4. CallInv'
  BY <1>1, <1>3 DEF SchedulerInv, CallInv, Failures
<1>5. PulsesInv' /\ CheckedInv'
  BY <1>1, <1>3, CallStays DEF SchedulerInv, PulsesInv, CheckedInv, Failures
<1>6. LoopInv'
  <2>1. \A k \in 1..added' : phase' # "value_error" => Holds(Constraint(k))
    BY <1>2, <1>3
  <2>2. added' \in 0..Len(problem.constraints)
    BY <1>2, <1>3
  <2> QED
    BY <1>1, <1>2, <1>3, <2>1, <2>2, CallStays DEF LoopInv
<1>7. BudgetKept'
  BY <1>1 DEF SchedulerInv, BudgetKept
<1> QED
  BY <1>4, <1>5, <1>6, <1>7 DEF SchedulerInv

\* The next call starts over, on the same budget.
LEMMA CallAgainInv ==
  ASSUME SchedulerInv, CallAgain
  PROVE  SchedulerInv'
<1>1. /\ calls < Len(session) /\ calls' = calls + 1 /\ UNCHANGED <<session, spent>>
      /\ phase' = "validate" /\ pulses' = <<>> /\ added' = 0
  BY DEF CallAgain
<1>2. session \in Seq(ProblemType)
  BY SessionsAssumption DEF SchedulerInv, CallInv
<1>3. CallInv'
  BY <1>1, <1>2 DEF SchedulerInv, CallInv
<1>4. PulsesInv' /\ CheckedInv'
  BY <1>1 DEF PulsesInv, CheckedInv, Failures
<1>5. LoopInv'
  <2>1. problem' \in ProblemType
    BY <1>1, <1>2 DEF problem, SchedulerInv, CallInv
  <2>2. Len(problem'.constraints) \in Nat
    BY <2>1 DEF ProblemType
  <2> QED
    BY <1>1, <2>2 DEF LoopInv
<1>6. BudgetKept'
  BY <1>1 DEF SchedulerInv, BudgetKept
<1> QED
  BY <1>3, <1>4, <1>5, <1>6 DEF SchedulerInv

LEMMA SchedulerInvStep == SchedulerInv /\ [SchedulerNext]_schedulerVars => SchedulerInv'
<1> SUFFICES ASSUME SchedulerInv, [SchedulerNext]_schedulerVars PROVE SchedulerInv'
  OBVIOUS
<1>1. CASE SchedulerNext
  BY <1>1, PlacingInv, AppendInv, AddConstraintInv, CallAgainInv DEF SchedulerNext, Step
<1>2. CASE UNCHANGED schedulerVars
  <2>1. UNCHANGED <<session, calls, phase, pulses, added, spent>>
    BY <1>2 DEF schedulerVars
  <2>2. CallInv' /\ BudgetKept'
    BY <2>1 DEF SchedulerInv, CallInv, BudgetKept
  <2>3. PulsesInv' /\ CheckedInv' /\ LoopInv'
    BY <2>1, CallStays DEF SchedulerInv, PulsesInv, CheckedInv, LoopInv
  <2> QED
    BY <2>2, <2>3 DEF SchedulerInv
<1> QED
  BY <1>1, <1>2

-----------------------------------------------------------------------------
(* The theorems                                                             *)

\* A complete sequence has as many pulses as there are operations.
LEMMA CompleteIsAll ==
  ASSUME SchedulerInv, Unappended = {}
  PROVE  Len(pulses) = Len(problem.ops)
<1> DEFINE f == [n \in DOMAIN pulses |-> pulses[n].op]
<1>1. problem.ops \in Seq(OpType) /\ Len(pulses) \in Nat
  BY ProblemTyped DEF SchedulerInv, ProblemType, PulsesInv
<1>2. DOMAIN pulses = 1..Len(pulses) /\ Ops = 1..Len(problem.ops)
  BY <1>1 DEF SchedulerInv, PulsesInv, Ops
<1>3. f \in [DOMAIN pulses -> Ops]
  BY DEF SchedulerInv, PulsesInv
<1>4. \A i \in Ops : \E n \in DOMAIN pulses : f[n] = i
  BY DEF Unappended
<1>5. \A m, n \in DOMAIN pulses : f[m] = f[n] => m = n
  BY DEF SchedulerInv, PulsesInv
<1> HIDE DEF f
<1>6. f \in Bijection(DOMAIN pulses, Ops)
  BY <1>3, <1>4, <1>5, Fun_IsBij
<1>7. \A n \in Nat : IsFiniteSet(1..n) /\ Cardinality(1..n) = n
  BY FS_Interval
<1>8. Len(problem.ops) \in Nat
  BY <1>1
<1>9. ExistsBijection(DOMAIN pulses, Ops)
  BY <1>6 DEF ExistsBijection
<1>10. Cardinality(Ops) = Cardinality(DOMAIN pulses)
  BY <1>1, <1>2, <1>7, <1>9, FS_Bijection
<1> QED
  BY <1>1, <1>2, <1>7, <1>8, <1>10

LEMMA Complete == SchedulerInv => ScheduleHolds
<1> SUFFICES ASSUME SchedulerInv, phase = "done" PROVE ScheduleHolds
  BY DEF ScheduleHolds
<1>1. Unappended = {} /\ added = Len(problem.constraints) /\ \A k \in 1..added : Holds(Constraint(k))
  BY DEF SchedulerInv, LoopInv
<1>2. Constraints = 1..Len(problem.constraints)
  BY ProblemTyped DEF SchedulerInv, ProblemType, Constraints
<1> QED
  BY <1>1, <1>2, CompleteIsAll DEF ScheduleHolds

\* SchedulerInv is an inductive invariant of a scheduler and its calls.
THEOREM SchedulerInvariance == SchedulerSpec => []SchedulerInv
BY SchedulerInvInit, SchedulerInvStep, PTL DEF SchedulerSpec

\* A schedule that is returned has each operation once and keeps every constraint on the
\* rounded pulses (scheduler.py 446-501, sequence.py 176-207).
THEOREM SchedulesHold == SchedulerSpec => []ScheduleHolds
BY SchedulerInvariance, Complete, PTL

\* Over any number of calls no qubit is driven past the blocking part of its T2, if no
\* pulse lists a qubit twice (sequence.py 152-164, budget.py 155-167).
THEOREM BudgetNeverExceeded == SchedulerSpec => []BudgetKept
<1>1. SchedulerInv => BudgetKept
  BY DEF SchedulerInv
<1> QED
  BY <1>1, SchedulerInvariance, PTL
-----------------------------------------------------------------------------
(* The order of the operations                                              *)

\* A set of numbers has a least one: of the intervals up to its members, one is minimal.
LEMMA LeastExists == ASSUME NEW T, T \subseteq Nat, T # {} PROVE \E n \in T : \A m \in T : n <= m
<1> DEFINE upTo == {0..m : m \in T}
           R == StrictSubsetOrdering(Nat)
<1>1. upTo \subseteq FiniteSubsetsOf(Nat) /\ upTo # {}
  <2>1. ASSUME NEW m \in T PROVE 0..m \in FiniteSubsetsOf(Nat)
    <3>1. m \in Nat /\ IsFiniteSet(0..m) /\ 0..m \subseteq Nat
      BY <2>1, FS_Interval
    <3> QED
      BY <3>1 DEF FiniteSubsetsOf
  <2> QED
    BY <2>1
<1>2. PICK U \in upTo : \A V \in upTo : ~(<<V, U>> \in R)
  <2>1. IsWellFoundedOn(R, FiniteSubsetsOf(Nat))
    BY FS_StrictSubsetOrderingWellFounded
  <2> QED
    BY <1>1, <2>1, WFMin
<1>3. PICK n \in T : U = 0..n
  BY <1>2
<1>4. ASSUME NEW m \in T, ~(n <= m) PROVE FALSE
  <2>1. m \in Nat /\ n \in Nat /\ m < n
    BY <1>4
  <2>2. 0..m \subseteq 0..n /\ n \in 0..n /\ n \notin 0..m
    BY <2>1
  <2>3. <<0..m, U>> \in R
    BY <1>3, <2>1, <2>2 DEF StrictSubsetOrdering
  <2> QED
    BY <1>2, <2>3
<1> QED
  BY <1>4

LEMMA OpsAre ==
  ASSUME CallInv
  PROVE  Ops = 1..Len(problem.ops) /\ Len(problem.ops) \in Nat /\ Ops \subseteq Nat
BY ProblemTyped DEF ProblemType, Ops

\* An order that every operation is in, after those it depends on, leaves no circle: the
\* first of a circle to be found would have to come after another one.
LEMMA NoCircle ==
  ASSUME CallInv, order \in Seq(Ops), Sorted = Ops, Topological, NEW C \in SUBSET Ops, Circular(C)
  PROVE  FALSE
<1> DEFINE at == {n \in DOMAIN order : order[n] \in C}
<1>1. at \subseteq Nat /\ at # {}
  <2>1. PICK j \in C : TRUE
    BY DEF Circular
  <2>2. \E n \in DOMAIN order : order[n] = j
    BY DEF Sorted, Range
  <2> QED
    BY <2>2
<1>2. PICK n \in at : \A m \in at : n <= m
  BY <1>1, LeastExists
<1>3. PICK i \in C : DependsOn(order[n], i)
  BY DEF Circular
<1>4. PICK m \in DOMAIN order : m < n /\ order[m] = i
  BY <1>3 DEF Topological
<1> QED
  BY <1>1, <1>2, <1>4

\* What is left when none of it is ready waits for itself.
LEMMA LeftIsCircular ==
  ASSUME Ready = {}, Sorted # Ops, Sorted \subseteq Ops
  PROVE  Ops \ Sorted \in SUBSET Ops /\ Circular(Ops \ Sorted)
<1>1. \A j \in Ops \ Sorted : \E i \in Ops : DependsOn(j, i) /\ i \notin Sorted
  BY DEF Ready
<1> QED
  BY <1>1 DEF Circular

LEMMA SortedWell == SchedulerInv /\ SortInv => SortedOrRefused
<1> SUFFICES ASSUME SchedulerInv, SortInv PROVE SortedOrRefused
  OBVIOUS
<1>1. Sorted \subseteq Ops
  BY DEF SortInv, Sorted, Range
<1> QED
  BY <1>1, NoCircle, LeftIsCircular DEF SchedulerInv, SortInv, SortedOrRefused

\* The next operation is one that is ready, and so neither there already nor too early.
LEMMA OneMoreSorted ==
  ASSUME SchedulerInv, SortInv, Ready # {}, order' = Append(order, Min(Ready)), UNCHANGED <<session, calls>>
  PROVE  order' \in Seq(Ops) /\ IsInjective(order') /\ Topological'
<1> DEFINE j == Min(Ready)
<1>1. j \in Ready
  <2>1. Ready \subseteq Nat
    BY OpsAre DEF SchedulerInv, Ready
  <2>2. PICK n \in Ready : \A m \in Ready : n <= m
    BY <2>1, LeastExists
  <2> QED
    BY <2>2 DEF Min
<1>2. j \in Ops /\ j \notin Sorted /\ \A i \in Ops : DependsOn(j, i) => i \in Sorted
  BY <1>1 DEF Ready
<1> HIDE DEF j
<1>3. /\ order' \in Seq(Ops) /\ Len(order) \in Nat
      /\ DOMAIN order = 1..Len(order) /\ DOMAIN order' = 1..(Len(order) + 1)
      /\ order'[Len(order) + 1] = j /\ \A n \in DOMAIN order : order'[n] = order[n]
  BY <1>2 DEF SortInv, j
<1>4. IsInjective(order')
  <2>1. \A n \in DOMAIN order : order[n] # j
    BY <1>2 DEF Sorted, Range
  <2>2. ASSUME NEW m \in DOMAIN order', NEW n \in DOMAIN order', order'[m] = order'[n] PROVE m = n
    BY <1>3, <2>1, <2>2 DEF SortInv, IsInjective
  <2> QED
    BY <2>2 DEF IsInjective
<1>5. Ops' = Ops /\ \A i, k : DependsOn(k, i)' <=> DependsOn(k, i)
  BY DEF Ops, problem, DependsOn, Constraints, Constraint
<1>6. Topological'
  <2>1. SUFFICES ASSUME NEW n \in DOMAIN order', NEW i \in Ops, DependsOn(order'[n], i)
                 PROVE  \E m \in DOMAIN order' : m < n /\ order'[m] = i
    BY <1>5 DEF Topological
  <2>2. CASE n \in DOMAIN order
    BY <1>3, <2>1, <2>2 DEF SortInv, Topological
  <2>3. CASE n = Len(order) + 1
    <3>1. PICK m \in DOMAIN order : order[m] = i
      BY <1>2, <1>3, <2>1, <2>3 DEF Sorted, Range
    <3> QED
      BY <1>3, <2>3, <3>1
  <2> QED
    BY <1>3, <2>2, <2>3
<1> QED
  BY <1>3, <1>4, <1>6
LEMMA SortInit == SchedulerInit => SortInv
BY DEF SchedulerInit, SortInv, Sorted, Range, IsInjective, Topological, Failures

LEMMA SortStays ==
  ASSUME SchedulerInv, SortInv, [SchedulerNext]_schedulerVars
  PROVE  SortInv'
<1>1. CASE CallAgain
  BY <1>1 DEF CallAgain, SortInv, IsInjective, Topological
<1>2. CASE UNCHANGED <<session, calls>>
  <2>0. ~CallAgain
    <3>1. calls \in Int
      BY SessionsAssumption DEF SchedulerInv, CallInv
    <3> QED
      BY <1>2, <3>1 DEF CallAgain
  <2>1. /\ Ops' = Ops /\ \A i, k : DependsOn(k, i)' <=> DependsOn(k, i)
    BY <1>2 DEF Ops, problem, DependsOn, Constraints, Constraint
  <2>2. CASE UNCHANGED order
    <3>1. Topological' /\ Sorted' = Sorted /\ Ready' = Ready
      BY <2>1, <2>2 DEF SortInv, Topological, Sorted, Ready, Range
    <3>2. order' \in Seq(Ops') /\ IsInjective(order')
      BY <2>1, <2>2 DEF SortInv
    <3>3. \/ phase' = phase \/ phase' \in {"malformed", "value_error", "sort"}
          \/ phase = "sort" /\ phase' = "place" /\ Sorted = Ops
          \/ phase = "sort" /\ phase' = "cyclic" /\ Sorted # Ops /\ Ready = {}
          \/ phase = "place" /\ phase' = "append"
          \/ phase = "append" /\ phase' = "constrain"
          \/ phase = "constrain" /\ phase' = "done"
      BY <2>0, <2>2 DEF SchedulerNext, Step, ValidateInputs, Sort, Place, AppendPulse, AllAppended, AddConstraint, schedulerVars
    <3> QED
      BY <2>1, <2>2, <3>1, <3>2, <3>3 DEF SortInv
  <2>3. CASE Sort /\ Ready # {}
    <3>1. order' = Append(order, Min(Ready)) /\ phase = "sort" /\ phase' = "sort"
      BY <2>3 DEF Sort
    <3> QED
      BY <1>2, <2>1, <2>3, <3>1, OneMoreSorted DEF SortInv
  <2> QED
    BY <2>0, <2>2, <2>3 DEF SchedulerNext, Step, ValidateInputs, Sort, Place, AppendPulse, AllAppended, AddConstraint, schedulerVars
<1> QED
  BY <1>1, <1>2 DEF SchedulerNext, Step, ValidateInputs, Sort, Place, AppendPulse, AllAppended, AddConstraint, schedulerVars

\* A call places an order that is complete and keeps the dependencies, or is refused as
\* cyclic, and refused exactly if some of its operations wait for each other (scheduler.py
\* 351-391).
THEOREM SortsOrRefuses == SchedulerSpec => []SortedOrRefused
<1>1. SchedulerInv /\ SortInv /\ [SchedulerNext]_schedulerVars => SortInv'
  BY SortStays
<1>2. SchedulerSpec => []SortInv
  BY <1>1, SortInit, SchedulerInvariance, PTL DEF SchedulerSpec
<1> QED
  BY <1>2, SchedulerInvariance, SortedWell, PTL

-----------------------------------------------------------------------------
(* ProvenanceStore: a dictionary has each hash once, through evictions, saves and  *)
(* loads; only a load can leave it with more than max_entries; and where nothing   *)
(* goes wrong with the file, it has the trees stored last                         *)

\* What is written is a dictionary too, so that loading it gives one.
StoreInv == StoreTypeOK /\ HashesDiffer(file.trees)

\* The hashes stored from the k-th store of a log on.
HashesFrom(log, k) == {Hash(log[j]) : j \in k..Len(log)}

\* No later store of the log has the same hash.
Latest(log, k) == \A j \in (k + 1)..Len(log) : Hash(log[j]) # Hash(log[k])

\* What is among the last n hashes of a log is in ts.
Covers(ts, log, n) ==
  \A k \in DOMAIN log :
    Latest(log, k) /\ Cardinality(HashesFrom(log, k)) <= n => \E i \in DOMAIN ts : ts[i] = log[k]

\* A dictionary has its trees in the order of their latest stores.
InOrder(ts, log) ==
  \E at \in [DOMAIN ts -> DOMAIN log] :
    /\ \A i \in DOMAIN ts : log[at[i]] = ts[i] /\ Latest(log, at[i])
    /\ \A i, j \in DOMAIN ts : i < j => at[i] < at[j]

UpToDate(ts) == InOrder(ts, stored) /\ Covers(ts, stored, Least)

\* As long as nothing goes wrong with the file: it is up to date between saves, as is the
\* one open store, which is also during them.
FileInv ==
  mishaps = {} =>
    /\ \A p, q \in open : p = q
    /\ disturbed = {}
    /\ saving = {} =>
         /\ UpToDate(file.trees)
         /\ \A p \in open : trees[p] = file.trees
         /\ IF stored = <<>> THEN file = [state |-> "absent", trees |-> <<>>] ELSE file.state = "intact"
    /\ \A p \in saving : UpToDate(trees[p]) /\ stored # <<>>

-----------------------------------------------------------------------------
(* The operators                                                            *)

\* HashesDiffer, element by element.
LEMMA DifferMeans ==
  ASSUME NEW ts
  PROVE  HashesDiffer(ts) <=> \A i, j \in DOMAIN ts : Hash(ts[i]) = Hash(ts[j]) => i = j
BY DEF HashesDiffer, IsInjective

\* The last max elements of a longer sequence.
LEMMA LastElements ==
  ASSUME NEW S, NEW ts \in Seq(S), NEW max \in Nat \ {0}, max < Len(ts)
  PROVE  LET m == Len(ts) - max + 1
             es == SubSeq(ts, m, Len(ts))
         IN es \in Seq(S) /\ Len(es) = max /\ \A i \in 1..max : es[i] = ts[m + i - 1]
<1> DEFINE m == Len(ts) - max + 1
           last == Len(ts)
           es == SubSeq(ts, m, last)
<1>1. m \in 1..last /\ m \in Int /\ last \in Int /\ m <= last /\ last - m + 1 = max
  OBVIOUS
<1>2. \A i \in m..last : ts[i] \in S
  BY <1>1
<1> HIDE DEF m, last
<1>3. es \in Seq(S)
  BY <1>1, <1>2, SubSeqProperties
<1>4. Len(es) = (IF m <= last THEN last - m + 1 ELSE 0)
  BY <1>1, <1>2, SubSeqProperties
<1>5. \A i \in 1..(last - m + 1) : es[i] = ts[m + i - 1]
  BY <1>1, <1>2, SubSeqProperties
<1> HIDE DEF es
<1>6. es \in Seq(S) /\ Len(es) = max /\ \A i \in 1..max : es[i] = ts[m + i - 1]
  BY <1>1, <1>3, <1>4, <1>5
<1>. QED
  BY <1>6 DEF es, m, last

\* Eviction takes from the front, down to the limit.
LEMMA EvictedFacts ==
  ASSUME NEW S, NEW ts \in Seq(S), NEW max \in Nat \ {0}, HashesDiffer(ts)
  PROVE  /\ Evicted(ts, max) \in Seq(S) /\ Len(Evicted(ts, max)) <= max
         /\ HashesDiffer(Evicted(ts, max))
<1>1. CASE Len(ts) <= max
  BY <1>1 DEF Evicted
<1>2. CASE Len(ts) > max
  <2> DEFINE m == Len(ts) - max + 1
             es == SubSeq(ts, m, Len(ts))
  <2>1. m \in 1..Len(ts) /\ Len(ts) \in Nat /\ Len(ts) - m + 1 = max
    BY <1>2
  <2>3. /\ es \in Seq(S) /\ Len(es) = max
        /\ \A i \in 1..max : es[i] = ts[m + i - 1]
    BY <1>2, LastElements
  <2>4. DOMAIN es = 1..max /\ DOMAIN ts = 1..Len(ts)
    BY <2>3
  <2>5. ASSUME NEW i \in DOMAIN es, NEW j \in DOMAIN es, Hash(es[i]) = Hash(es[j])
        PROVE  i = j
    <3>1. Hash(ts[m + i - 1]) = Hash(ts[m + j - 1])
      BY <2>3, <2>4, <2>5
    <3>2. m + i - 1 \in DOMAIN ts /\ m + j - 1 \in DOMAIN ts
      BY <2>1, <2>4
    <3>3. m + i - 1 = m + j - 1
      BY <3>1, <3>2, DifferMeans
    <3>. QED
      BY <3>3, <2>1, <2>4
  <2>6. HashesDiffer(es)
    BY <2>5, DifferMeans
  <2>. QED
    BY <1>2, <2>3, <2>6 DEF Evicted
<1>. QED
  BY <1>1, <1>2

\* Without one element, the others stay in order.
LEMMA RemoveAtFacts ==
  ASSUME NEW S, NEW ts \in Seq(S), NEW k \in DOMAIN ts
  PROVE  /\ RemoveAt(ts, k) \in Seq(S) /\ Len(RemoveAt(ts, k)) = Len(ts) - 1
         /\ \A i \in 1..(Len(ts) - 1) : RemoveAt(ts, k)[i] = IF i < k THEN ts[i] ELSE ts[i + 1]
<1> DEFINE front == SubSeq(ts, 1, k - 1)
           back == SubSeq(ts, k + 1, Len(ts))
<1>1. k \in 1..Len(ts) /\ Len(ts) \in Nat
  OBVIOUS
<1>2. /\ front \in Seq(S) /\ Len(front) = k - 1
      /\ \A i \in 1..(k - 1) : front[i] = ts[i]
  <2>1. \A i \in 1..(k - 1) : ts[i] \in S
    BY <1>1
  <2>. QED
    BY <1>1, <2>1, SubSeqProperties
<1>3. /\ back \in Seq(S) /\ Len(back) = Len(ts) - k
      /\ \A i \in 1..(Len(ts) - k) : back[i] = ts[k + i]
  <2>1. \A i \in (k + 1)..Len(ts) : ts[i] \in S
    BY <1>1
  <2>2. back \in Seq(S) /\ Len(back) = (IF k + 1 <= Len(ts) THEN Len(ts) - (k + 1) + 1 ELSE 0)
    BY <1>1, <2>1, SubSeqProperties
  <2>3. \A i \in 1..(Len(ts) - (k + 1) + 1) : back[i] = ts[(k + 1) + i - 1]
    BY <1>1, <2>1, SubSeqProperties
  <2>. QED
    BY <1>1, <2>2, <2>3
<1> HIDE DEF front, back
<1>4. /\ front \o back \in Seq(S) /\ Len(front \o back) = Len(ts) - 1
      /\ \A i \in 1..(Len(ts) - 1) : (front \o back)[i] = IF i <= k - 1 THEN front[i] ELSE back[i - (k - 1)]
  <2>1. /\ front \o back \in Seq(S) /\ Len(front \o back) = Len(front) + Len(back)
        /\ \A i \in 1..(Len(front) + Len(back)) :
             (front \o back)[i] = IF i <= Len(front) THEN front[i] ELSE back[i - Len(front)]
    BY <1>2, <1>3, ConcatProperties
  <2>2. Len(front) + Len(back) = Len(ts) - 1
    BY <1>1, <1>2, <1>3
  <2>. QED
    BY <1>2, <2>1, <2>2
<1>5. ASSUME NEW i \in 1..(Len(ts) - 1)
      PROVE  (front \o back)[i] = IF i < k THEN ts[i] ELSE ts[i + 1]
  <2>1. CASE i < k
    BY <1>1, <1>2, <1>4, <2>1
  <2>2. CASE ~(i < k)
    <3>1. i - (k - 1) \in 1..(Len(ts) - k) /\ k + (i - (k - 1)) = i + 1 /\ ~(i <= k - 1)
      BY <1>1, <2>2
    <3>2. (front \o back)[i] = back[i - (k - 1)]
      BY <1>4, <3>1
    <3>3. back[i - (k - 1)] = ts[k + (i - (k - 1))]
      BY <1>3, <3>1
    <3>. QED
      BY <2>2, <3>1, <3>2, <3>3
  <2>. QED
    BY <2>1, <2>2
<1>6. RemoveAt(ts, k) = front \o back
  BY DEF RemoveAt, front, back
<1>. QED
  BY <1>4, <1>5, <1>6

\* A dictionary without the key of e.
Others(ts, e) ==
  LET known == {k \in DOMAIN ts : Hash(ts[k]) = Hash(e)}
  IN IF known = {} THEN ts ELSE RemoveAt(ts, CHOOSE k \in known : TRUE)

\* old says where the others were: in the same order, everything but e's key.
Without(old, others, ts, e) ==
  /\ old \in [DOMAIN others -> DOMAIN ts]
  /\ \A i \in DOMAIN others : others[i] = ts[old[i]] /\ Hash(ts[old[i]]) # Hash(e)
  /\ \A i, j \in DOMAIN others : i < j => old[i] < old[j]
  /\ \A k \in DOMAIN ts : Hash(ts[k]) # Hash(e) => \E i \in DOMAIN others : old[i] = k

\* Without the key of e, the others stay in order.
LEMMA OthersFacts ==
  ASSUME NEW S, NEW ts \in Seq(S), NEW e, HashesDiffer(ts)
  PROVE  Others(ts, e) \in Seq(S) /\ \E old : Without(old, Others(ts, e), ts, e)
<1> DEFINE known == {k \in DOMAIN ts : Hash(ts[k]) = Hash(e)}
           others == Others(ts, e)
<1>1. CASE known = {}
  <2>1. others = ts
    BY <1>1 DEF Others
  <2> DEFINE old == [i \in DOMAIN ts |-> i]
  <2>2. Without(old, ts, ts, e)
    BY <1>1 DEF Without
  <2>. QED
    BY <2>1, <2>2
<1>2. CASE known # {}
  <2>1. PICK k \in known : others = RemoveAt(ts, k)
    BY <1>2 DEF Others
  <2>2. /\ others \in Seq(S) /\ Len(others) = Len(ts) - 1
        /\ \A i \in 1..(Len(ts) - 1) : others[i] = IF i < k THEN ts[i] ELSE ts[i + 1]
    BY <2>1, RemoveAtFacts
  <2>3. DOMAIN others = 1..(Len(ts) - 1) /\ DOMAIN ts = 1..Len(ts) /\ k \in 1..Len(ts) /\ Len(ts) \in Nat
    BY <2>2
  <2> HIDE DEF others
  <2> DEFINE old == [i \in DOMAIN others |-> IF i < k THEN i ELSE i + 1]
  <2>4. ASSUME NEW i \in DOMAIN others
        PROVE  old[i] \in DOMAIN ts /\ old[i] # k /\ others[i] = ts[old[i]]
    BY <2>2, <2>3
  <2>5. \A i, j \in DOMAIN others : i < j => old[i] < old[j]
    BY <2>3
  <2>6. ASSUME NEW l \in DOMAIN ts, Hash(ts[l]) # Hash(e) PROVE \E i \in DOMAIN others : old[i] = l
    <3>1. l # k /\ l \in 1..Len(ts)
      BY <2>3, <2>6
    <3>2. CASE l < k
      <4>1. l \in DOMAIN others /\ old[l] = l
        BY <2>3, <3>1, <3>2
      <4>. QED
        BY <4>1
    <3>3. CASE ~(l < k)
      <4>1. l - 1 \in DOMAIN others /\ old[l - 1] = l
        BY <2>3, <3>1, <3>3
      <4>. QED
        BY <4>1
    <3>. QED
      BY <3>2, <3>3
  <2>7. old \in [DOMAIN others -> DOMAIN ts]
    BY <2>4
  <2> HIDE DEF old
  <2>8. \A i \in DOMAIN others : Hash(ts[old[i]]) # Hash(e)
    <3>1. \A i, j \in DOMAIN ts : Hash(ts[i]) = Hash(ts[j]) => i = j
      BY DifferMeans
    <3>. QED
      BY <2>1, <2>4, <3>1
  <2>9. Without(old, others, ts, e)
    BY <2>4, <2>5, <2>6, <2>7, <2>8 DEF Without
  <2>. QED
    BY <2>2, <2>9 DEF others
<1>. QED
  BY <1>1, <1>2

\* A store takes the key out, puts the tree at the end and evicts.
LEMMA EnteredIs == ASSUME NEW ts, NEW e, NEW max PROVE Entered(ts, e, max) = Evicted(Append(Others(ts, e), e), max)
BY DEF Entered, Others

\* The dictionary before its eviction.
LEMMA AppendedFacts ==
  ASSUME NEW S, NEW ts \in Seq(S), NEW e \in S, HashesDiffer(ts)
  PROVE  LET others == Others(ts, e)
             all == Append(others, e)
         IN /\ all \in Seq(S) /\ HashesDiffer(all)
            /\ Len(others) \in Nat /\ DOMAIN others = 1..Len(others) /\ DOMAIN all = 1..(Len(others) + 1)
            /\ \A i \in 1..Len(others) : all[i] = others[i]
            /\ all[Len(others) + 1] = e
<1> DEFINE others == Others(ts, e)
           all == Append(others, e)
<1>0. others \in Seq(S)
  BY OthersFacts
<1>1. PICK old : Without(old, others, ts, e)
  BY OthersFacts
<1> HIDE DEF others
<1>2. /\ all \in Seq(S) /\ Len(all) = Len(others) + 1
      /\ \A i \in 1..Len(others) : all[i] = others[i]
      /\ all[Len(others) + 1] = e
  BY <1>0, AppendProperties
<1>3. DOMAIN all = 1..(Len(others) + 1) /\ DOMAIN others = 1..Len(others) /\ Len(others) \in Nat
  BY <1>0, <1>2
<1> HIDE DEF all
<1>4. ASSUME NEW i \in DOMAIN all, NEW j \in DOMAIN all, i < j
      PROVE  Hash(all[i]) # Hash(all[j])
  <2>1. i \in DOMAIN others /\ all[i] = ts[old[i]]
    BY <1>1, <1>2, <1>3, <1>4 DEF Without
  <2>2. CASE j \in DOMAIN others
    <3>1. all[j] = ts[old[j]] /\ old[i] # old[j] /\ old[i] \in DOMAIN ts /\ old[j] \in DOMAIN ts
      <4>1. old[i] < old[j] /\ old[i] \in 1..Len(ts) /\ old[j] \in 1..Len(ts)
        BY <1>1, <1>4, <2>1, <2>2 DEF Without
      <4>. QED
        BY <1>1, <1>2, <1>3, <2>2, <4>1 DEF Without
    <3>. QED
      BY <2>1, <3>1, DifferMeans
  <2>3. CASE j = Len(others) + 1
    BY <1>1, <1>2, <2>1, <2>3 DEF Without
  <2>. QED
    BY <1>3, <2>2, <2>3
<1>5. HashesDiffer(all)
  <2>1. \A i, j \in DOMAIN all : i = j \/ i < j \/ j < i
    BY <1>3
  <2>. QED
    BY <1>4, <2>1, DifferMeans
<1>. QED
  BY <1>2, <1>3, <1>5 DEF others, all

\* A store leaves a dictionary within its limit.
LEMMA EnteredFacts ==
  ASSUME NEW S, NEW ts \in Seq(S), NEW e \in S, NEW max \in Nat \ {0}, HashesDiffer(ts)
  PROVE  /\ Entered(ts, e, max) \in Seq(S) /\ Len(Entered(ts, e, max)) <= max
         /\ HashesDiffer(Entered(ts, e, max))
<1>1. Append(Others(ts, e), e) \in Seq(S) /\ HashesDiffer(Append(Others(ts, e), e))
  BY AppendedFacts
<1>. QED
  BY <1>1, EvictedFacts, EnteredIs

\* The least limit is one of them.
LEMMA LeastIs == ASSUME NEW p \in Processes PROVE Least \in Nat /\ Least <= MaxEntries[p]
<1>1. PICK n \in {MaxEntries[q] : q \in Processes} : \A m \in {MaxEntries[q] : q \in Processes} : n <= m
  <2>1. {MaxEntries[q] : q \in Processes} \subseteq Nat /\ {MaxEntries[q] : q \in Processes} # {}
    BY StoreAssumption
  <2>. QED
    BY <2>1, LeastExists
<1>2. Least \in {MaxEntries[q] : q \in Processes} /\ \A q \in Processes : Least <= MaxEntries[q]
  BY <1>1 DEF Least
<1>. QED
  BY <1>2, StoreAssumption

\* Hashes from a store on: finitely many.
LEMMA HashesFinite == ASSUME NEW S, NEW log \in Seq(S), NEW k \in Nat PROVE IsFiniteSet(HashesFrom(log, k))
<1> DEFINE f == [j \in k..Len(log) |-> Hash(log[j])]
<1>1. f \in Surjection(k..Len(log), HashesFrom(log, k))
  BY DEF Surjection, HashesFrom
<1>2. IsFiniteSet(k..Len(log))
  BY FS_Interval
<1>. QED
  BY <1>1, <1>2, FS_Surjection

\* Distinct trees whose latest stores are not before the k-th one are among the hashes from it on.
LEMMA HashesAtLeast ==
  ASSUME NEW S, NEW log \in Seq(S), NEW ts \in Seq(S), HashesDiffer(ts), NEW i \in DOMAIN ts,
         NEW at \in [DOMAIN ts -> DOMAIN log],
         \A j \in DOMAIN ts : log[at[j]] = ts[j],
         \A j, l \in DOMAIN ts : j < l => at[j] < at[l]
  PROVE  Len(ts) - i + 1 <= Cardinality(HashesFrom(log, at[i]))
<1> DEFINE H == HashesFrom(log, at[i])
           f == [j \in i..Len(ts) |-> Hash(ts[j])]
<1>1. i \in 1..Len(ts) /\ Len(ts) \in Nat /\ DOMAIN ts = 1..Len(ts) /\ DOMAIN log = 1..Len(log) /\ Len(log) \in Nat
  OBVIOUS
<1>2. ASSUME NEW j \in i..Len(ts) PROVE j \in DOMAIN ts /\ at[j] \in at[i]..Len(log)
  <2>1. j \in DOMAIN ts /\ (i < j \/ i = j)
    BY <1>1
  <2>2. at[i] \in 1..Len(log) /\ at[j] \in 1..Len(log)
    BY <1>1, <2>1
  <2>. QED
    BY <1>1, <2>1, <2>2
<1>3. f \in Injection(i..Len(ts), H)
  <2>1. ASSUME NEW j \in i..Len(ts) PROVE f[j] \in H
    <3>1. Hash(ts[j]) = Hash(log[at[j]])
      BY <1>2
    <3>. QED
      BY <1>2, <3>1 DEF HashesFrom
  <2>2. \A j, l \in i..Len(ts) : f[j] = f[l] => j = l
    BY <1>2, DifferMeans
  <2>. QED
    BY <2>1, <2>2 DEF Injection, IsInjective
<1>4. IsFiniteSet(H)
  BY <1>1, HashesFinite
<1>5. Cardinality(i..Len(ts)) <= Cardinality(H)
  BY <1>3, <1>4, FS_Injection
<1>6. Cardinality(i..Len(ts)) = Len(ts) - i + 1
  BY <1>1, FS_Interval
<1>. QED
  BY <1>5, <1>6

\* Two latest stores of the same hash are the same store.
LEMMA LatestIsOne ==
  ASSUME NEW S, NEW log \in Seq(S), NEW k \in DOMAIN log, NEW l \in DOMAIN log,
         Latest(log, k), Latest(log, l), Hash(log[k]) = Hash(log[l])
  PROVE  k = l
<1>1. k \in 1..Len(log) /\ l \in 1..Len(log) /\ Len(log) \in Nat
  OBVIOUS
<1>2. ~(k < l)
  BY <1>1 DEF Latest
<1>3. ~(l < k)
  BY <1>1 DEF Latest
<1>. QED
  BY <1>1, <1>2, <1>3

\* Eviction down to a limit of at least n keeps the last n hashes.
LEMMA EvictedKeeps ==
  ASSUME NEW S, NEW ts \in Seq(S), NEW log \in Seq(S), NEW max \in Nat \ {0}, NEW n \in Nat, n <= max,
         HashesDiffer(ts), InOrder(ts, log), Covers(ts, log, n)
  PROVE  InOrder(Evicted(ts, max), log) /\ Covers(Evicted(ts, max), log, n)
<1>1. CASE Len(ts) <= max
  BY <1>1 DEF Evicted
<1>2. CASE Len(ts) > max
  <2> DEFINE m == Len(ts) - max + 1
             es == SubSeq(ts, m, Len(ts))
  <2>0. DOMAIN ts = 1..Len(ts)
    OBVIOUS
  <2>1. m \in 1..Len(ts) /\ Len(ts) \in Nat /\ Len(ts) - m + 1 = max
    BY <1>2
  <2>3. /\ es \in Seq(S) /\ Len(es) = max
        /\ \A i \in 1..max : es[i] = ts[m + i - 1]
    BY <1>2, LastElements
  <2>4. DOMAIN es = 1..max /\ Evicted(ts, max) = es
    BY <1>2, <2>3 DEF Evicted
  <2> HIDE DEF es
  <2>5. PICK at \in [DOMAIN ts -> DOMAIN log] :
          /\ \A i \in DOMAIN ts : log[at[i]] = ts[i] /\ Latest(log, at[i])
          /\ \A i, j \in DOMAIN ts : i < j => at[i] < at[j]
    BY DEF InOrder
  <2>6. InOrder(es, log)
    <3> DEFINE later == [i \in DOMAIN es |-> at[m + i - 1]]
    <3>1. \A i \in DOMAIN es : m + i - 1 \in DOMAIN ts
      BY <2>0, <2>1, <2>4
    <3>2. later \in [DOMAIN es -> DOMAIN log]
      BY <3>1
    <3>3. \A i \in DOMAIN es : log[later[i]] = es[i] /\ Latest(log, later[i])
      BY <2>3, <2>4, <2>5, <3>1
    <3>4. ASSUME NEW i \in DOMAIN es, NEW j \in DOMAIN es, i < j PROVE later[i] < later[j]
      <4>1. m + i - 1 < m + j - 1
        BY <2>0, <2>1, <2>4, <3>4
      <4>. QED
        BY <2>5, <3>1, <4>1
    <3> HIDE DEF later
    <3>. QED
      BY <3>2, <3>3, <3>4 DEF InOrder
  <2>7. ASSUME NEW k \in DOMAIN log, Latest(log, k), Cardinality(HashesFrom(log, k)) <= n
        PROVE  \E i \in DOMAIN es : es[i] = log[k]
    <3>1. PICK i \in DOMAIN ts : ts[i] = log[k]
      BY <2>7 DEF Covers
    <3>2. at[i] = k
      BY <2>5, <2>7, <3>1, LatestIsOne
    <3>3. Len(ts) - i + 1 <= Cardinality(HashesFrom(log, k))
      BY <2>5, <3>2, HashesAtLeast
    <3>4. Cardinality(HashesFrom(log, k)) \in Nat
      <4>1. k \in Nat
        OBVIOUS
      <4>. QED
        BY <4>1, HashesFinite, FS_CardinalityType
    <3>5. i - m + 1 \in DOMAIN es /\ m + (i - m + 1) - 1 = i
      BY <2>0, <2>1, <2>4, <2>7, <3>3, <3>4
    <3>. QED
      BY <2>3, <2>4, <3>1, <3>5
  <2>. QED
    BY <2>4, <2>6, <2>7 DEF Covers
<1>. QED
  BY <1>1, <1>2

\* A store keeps a dictionary in order, with the last n hashes, which are now of a longer log.
LEMMA EnteredKeeps ==
  ASSUME NEW S, NEW ts \in Seq(S), NEW log \in Seq(S), NEW e \in S,
         NEW max \in Nat \ {0}, NEW n \in Nat, n <= max,
         HashesDiffer(ts), InOrder(ts, log), Covers(ts, log, n)
  PROVE  InOrder(Entered(ts, e, max), Append(log, e)) /\ Covers(Entered(ts, e, max), Append(log, e), n)
<1> DEFINE others == Others(ts, e)
           all == Append(others, e)
           longer == Append(log, e)
           N == Len(others)
           L == Len(log)
<1>1. /\ all \in Seq(S) /\ HashesDiffer(all)
      /\ N \in Nat /\ DOMAIN others = 1..N /\ DOMAIN all = 1..(N + 1)
      /\ \A i \in 1..N : all[i] = others[i]
      /\ all[N + 1] = e
  BY AppendedFacts
<1>2. PICK old : Without(old, others, ts, e)
  BY OthersFacts
<1>3. /\ longer \in Seq(S) /\ Len(longer) = L + 1 /\ L \in Nat
      /\ \A j \in 1..L : longer[j] = log[j]
      /\ longer[L + 1] = e
  BY AppendProperties
<1>4. DOMAIN log = 1..L /\ DOMAIN longer = 1..(L + 1)
  BY <1>3
<1>5. PICK at \in [DOMAIN ts -> DOMAIN log] :
        /\ \A i \in DOMAIN ts : log[at[i]] = ts[i] /\ Latest(log, at[i])
        /\ \A i, j \in DOMAIN ts : i < j => at[i] < at[j]
  BY DEF InOrder
<1> HIDE DEF others, all, longer, N, L
\* The latest stores of other hashes stay the latest; e's is the new one.
<1>6. ASSUME NEW k \in DOMAIN log, Hash(log[k]) # Hash(e)
      PROVE  Latest(longer, k) <=> Latest(log, k)
  <2>1. \A j \in (k + 1)..Len(longer) : j = L + 1 \/ j \in (k + 1)..L
    BY <1>3, <1>4
  <2>2. \A j \in (k + 1)..L : j \in (k + 1)..Len(longer) /\ longer[j] = log[j]
    BY <1>3, <1>4
  <2>3. longer[k] = log[k]
    BY <1>3, <1>4
  <2>. QED
    BY <1>3, <1>6, <2>1, <2>2, <2>3 DEF Latest, L
<1>7. Latest(longer, L + 1)
  BY <1>3 DEF Latest
<1>8. InOrder(all, longer)
  <2> DEFINE place == [i \in DOMAIN all |-> IF i = N + 1 THEN L + 1 ELSE at[old[i]]]
  <2>1. ASSUME NEW i \in DOMAIN others
        PROVE  /\ i \in DOMAIN all /\ place[i] = at[old[i]] /\ place[i] \in DOMAIN log
               /\ longer[place[i]] = all[i] /\ Latest(longer, place[i])
    <3>1. old[i] \in DOMAIN ts /\ i \in DOMAIN all /\ i # N + 1
      BY <1>1, <1>2 DEF Without
    <3>2. place[i] = at[old[i]] /\ place[i] \in DOMAIN log
      BY <3>1
    <3>3. log[place[i]] = all[i] /\ Hash(all[i]) # Hash(e) /\ Latest(log, place[i])
      BY <1>1, <1>2, <1>5, <3>1, <3>2 DEF Without
    <3>4. longer[place[i]] = log[place[i]]
      BY <1>3, <1>4, <3>2
    <3>. QED
      BY <1>6, <3>1, <3>2, <3>3, <3>4
  <2>2. place[N + 1] = L + 1 /\ longer[place[N + 1]] = all[N + 1] /\ Latest(longer, place[N + 1])
    BY <1>1, <1>3, <1>7
  <2>3. \A i \in DOMAIN all : i = N + 1 \/ i \in DOMAIN others
    BY <1>1
  <2> HIDE DEF place
  <2>4. place \in [DOMAIN all -> DOMAIN longer]
    <3>1. DOMAIN log \subseteq DOMAIN longer /\ L + 1 \in DOMAIN longer
      BY <1>3, <1>4
    <3>2. \A i \in DOMAIN all : place[i] \in DOMAIN longer
      BY <2>1, <2>2, <2>3, <3>1
    <3>. QED
      BY <3>2 DEF place
  <2>5. ASSUME NEW i \in DOMAIN all, NEW j \in DOMAIN all, i < j PROVE place[i] < place[j]
    <3>0. i \in DOMAIN others
      BY <1>1, <2>5
    <3>1. place[i] = at[old[i]] /\ place[i] \in 1..L
      BY <1>4, <2>1, <3>0
    <3>2. CASE j = N + 1
      BY <1>3, <2>2, <3>1, <3>2
    <3>3. CASE j \in DOMAIN others
      <4>1. old[i] < old[j] /\ old[i] \in DOMAIN ts /\ old[j] \in DOMAIN ts
        BY <1>2, <2>5, <3>0, <3>3 DEF Without
      <4>. QED
        BY <1>5, <2>1, <3>1, <3>3, <4>1
    <3>. QED
      BY <2>3, <3>2, <3>3
  <2>6. \A i \in DOMAIN all : longer[place[i]] = all[i] /\ Latest(longer, place[i])
    BY <2>1, <2>2, <2>3
  <2>. QED
    BY <2>4, <2>5, <2>6 DEF InOrder
<1>9. ASSUME NEW k \in DOMAIN longer, Latest(longer, k), Cardinality(HashesFrom(longer, k)) <= n
      PROVE  \E i \in DOMAIN all : all[i] = longer[k]
  <2>1. CASE k = L + 1
    <3>1. N + 1 \in DOMAIN all /\ all[N + 1] = longer[k]
      BY <1>1, <1>3, <2>1
    <3>. QED
      BY <3>1
  <2>2. CASE k \in DOMAIN log
    <3>1. longer[k] = log[k] /\ L + 1 \in (k + 1)..Len(longer) /\ k \in Nat
      BY <1>3, <1>4, <2>2
    <3>2. Hash(log[k]) # Hash(e)
      BY <1>3, <1>9, <3>1 DEF Latest
    <3>3. HashesFrom(log, k) \subseteq HashesFrom(longer, k)
      <4>1. \A j \in k..L : j \in k..Len(longer) /\ longer[j] = log[j]
        BY <1>3, <1>4, <2>2
      <4>. QED
        BY <4>1 DEF HashesFrom, L
    <3>4. Cardinality(HashesFrom(log, k)) <= n
      <4>1. IsFiniteSet(HashesFrom(longer, k)) /\ IsFiniteSet(HashesFrom(log, k))
        BY <1>3, <3>1, HashesFinite
      <4>2. Cardinality(HashesFrom(log, k)) <= Cardinality(HashesFrom(longer, k))
        BY <3>3, <4>1, FS_Subset
      <4>3. Cardinality(HashesFrom(log, k)) \in Nat /\ Cardinality(HashesFrom(longer, k)) \in Nat
        BY <4>1, FS_CardinalityType
      <4>. QED
        BY <1>9, <4>2, <4>3
    <3>5. PICK l \in DOMAIN ts : ts[l] = log[k]
      BY <1>6, <1>9, <2>2, <3>2, <3>4 DEF Covers
    <3>6. PICK i \in DOMAIN others : old[i] = l
      BY <1>2, <3>2, <3>5 DEF Without
    <3>7. i \in DOMAIN all /\ all[i] = ts[l]
      BY <1>1, <1>2, <3>6 DEF Without
    <3>. QED
      BY <3>1, <3>5, <3>7
  <2>. QED
    BY <1>3, <1>4, <2>1, <2>2
<1>10. Covers(all, longer, n)
  BY <1>9 DEF Covers
<1>. QED
  BY <1>1, <1>3, <1>8, <1>10, EvictedKeeps, EnteredIs DEF others, all, longer

-----------------------------------------------------------------------------
(* The invariant                                                            *)

LEMMA StoreInvInit == StoreInit => StoreInv
<1> SUFFICES ASSUME StoreInit PROVE StoreInv
  OBVIOUS
<1>1. HashesDiffer(<<>>)
  BY DifferMeans
<1>2. \A p \in Processes : trees[p] = <<>>
  BY DEF StoreInit
<1>. QED
  BY <1>1, <1>2, StoreAssumption DEF StoreInit, StoreInv, StoreTypeOK

\* Every step keeps every dictionary, in memory and in the file.
LEMMA StoreInvStep == StoreInv /\ [StoreNext]_storeVars => StoreInv'
<1> SUFFICES ASSUME StoreInv, [StoreNext]_storeVars PROVE StoreInv'
  OBVIOUS
<1> USE DEF StoreInv
<1>0. HashesDiffer(<<>>)
  BY DifferMeans
<1>1. ASSUME NEW p \in Processes, Open(p) PROVE StoreInv'
  <2>1. /\ trees' \in [Processes -> Seq(Experiments)]
        /\ \A q \in Processes : HashesDiffer(trees'[q])
    BY <1>0, <1>1 DEF Open, StoreTypeOK
  <2>. QED
    BY <1>1, <2>1 DEF Open, StoreTypeOK, Mishaps
<1>2. ASSUME NEW p \in Processes, NEW e \in Experiments, Store(p, e) PROVE StoreInv'
  <2>1. MaxEntries[p] \in Nat \ {0} /\ trees[p] \in Seq(Experiments) /\ HashesDiffer(trees[p])
    BY StoreAssumption DEF StoreTypeOK
  <2>2. /\ Entered(trees[p], e, MaxEntries[p]) \in Seq(Experiments)
        /\ HashesDiffer(Entered(trees[p], e, MaxEntries[p]))
    BY <2>1, EnteredFacts
  <2>3. /\ trees' \in [Processes -> Seq(Experiments)]
        /\ \A q \in Processes : HashesDiffer(trees'[q])
    BY <1>2, <2>2 DEF Store, StoreTypeOK
  <2>4. stored' \in Seq(Experiments) /\ Len(stored') <= MaxStores
    BY <1>2, StoreAssumption DEF Store, StoreTypeOK
  <2>5. file'.state = "torn" /\ file'.trees = <<>>
    BY <1>2 DEF Store, Torn
  <2>. QED
    BY <1>0, <1>2, <2>3, <2>4, <2>5 DEF Store, StoreTypeOK
<1>3. ASSUME NEW p \in Processes, Saved(p) PROVE StoreInv'
  <2>1. file'.trees \in {<<>>, trees[p]} /\ file'.state \in {"torn", "intact"}
    BY <1>3 DEF Saved, Torn, Intact
  <2>2. file'.trees \in Seq(Experiments) /\ HashesDiffer(file'.trees)
    <3>1. CASE file'.trees = <<>>
      BY <1>0, <3>1
    <3>2. CASE file'.trees = trees[p]
      <4>1. trees[p] \in Seq(Experiments) /\ HashesDiffer(trees[p])
        BY DEF StoreTypeOK
      <4>. QED
        BY <3>2, <4>1
    <3>. QED
      BY <2>1, <3>1, <3>2
  <2>. QED
    BY <1>3, <2>1, <2>2 DEF Saved, StoreTypeOK
<1>4. ASSUME NEW p \in Processes, NotJson(p) PROVE StoreInv'
  <2>1. file'.state = "torn" /\ file'.trees = <<>>
    BY <1>4 DEF NotJson, Torn
  <2>. QED
    BY <1>0, <1>4, <2>1 DEF NotJson, StoreTypeOK, Mishaps
<1>5. ASSUME NEW p \in Processes, Exit(p) PROVE StoreInv'
  <2>1. /\ trees' \in [Processes -> Seq(Experiments)]
        /\ \A q \in Processes : HashesDiffer(trees'[q])
    BY <1>0, <1>5 DEF Exit, StoreTypeOK
  <2>. QED
    BY <1>5, <2>1 DEF Exit, StoreTypeOK, Mishaps
<1>6. CASE UNCHANGED storeVars
  BY <1>6 DEF storeVars, StoreTypeOK
<1>. QED
  BY <1>1, <1>2, <1>3, <1>4, <1>5, <1>6 DEF StoreNext

\* A dictionary and a file that was written have each hash once.
THEOREM StoreInvariance == StoreSpec => []StoreInv
<1>. QED
  BY StoreInvInit, StoreInvStep, PTL DEF StoreSpec

\* Type correctness: the dictionaries of all processes have their keys once.
THEOREM StoreTypeCorrect == StoreSpec => []StoreTypeOK
<1>1. StoreInv => StoreTypeOK
  BY DEF StoreInv
<1>. QED
  BY <1>1, StoreInvariance, PTL

\* Only a load leaves more than max_entries trees: every store evicts down to the limit.
THEOREM Bounded == StoreSpec => StoreBounded
<1>1. ASSUME StoreInv, [StoreNext]_storeVars, NEW p \in Processes, Len(trees'[p]) > MaxEntries[p]
      PROVE  trees'[p] = trees[p] \/ p \notin open
  <2> USE DEF StoreInv
  <2>0. MaxEntries[p] \in Nat \ {0} /\ trees[p] \in Seq(Experiments) /\ HashesDiffer(trees[p])
        /\ p \in DOMAIN trees
    BY <1>1, StoreAssumption DEF StoreTypeOK
  <2>1. CASE \E q \in Processes : Open(q)
    BY <2>0, <2>1 DEF Open
  <2>2. ASSUME NEW q \in Processes, NEW e \in Experiments, Store(q, e) PROVE trees'[p] = trees[p]
    <3>1. q = p => trees'[p] = Entered(trees[p], e, MaxEntries[p])
      BY <2>0, <2>2 DEF Store
    <3>2. Len(Entered(trees[p], e, MaxEntries[p])) <= MaxEntries[p]
          /\ Entered(trees[p], e, MaxEntries[p]) \in Seq(Experiments)
      BY <2>0, EnteredFacts
    <3>3. q # p
      BY <1>1, <2>0, <3>1, <3>2
    <3>. QED
      BY <2>0, <2>2, <3>3 DEF Store
  <2>3. CASE \E q \in Processes : Saved(q) \/ NotJson(q)
    BY <2>3 DEF Saved, NotJson
  <2>4. ASSUME NEW q \in Processes, Exit(q) PROVE trees'[p] = trees[p]
    <3>1. q # p
      BY <1>1, <2>0, <2>4 DEF Exit
    <3>. QED
      BY <2>0, <2>4, <3>1 DEF Exit
  <2>5. CASE UNCHANGED storeVars
    BY <2>5 DEF storeVars
  <2>. QED
    BY <1>1, <2>1, <2>2, <2>3, <2>4, <2>5 DEF StoreNext
<1>2. StoreInv /\ [StoreNext]_storeVars =>
        [\A p \in Processes : Len(trees'[p]) > MaxEntries[p] => trees'[p] = trees[p] \/ p \notin open]_storeVars
  BY <1>1
<1>. QED
  BY <1>2, StoreInvariance, PTL DEF StoreSpec, StoreBounded

-----------------------------------------------------------------------------
(* The file, as long as nothing goes wrong with it                           *)

LEMMA FileInvInit == StoreInit => FileInv
<1> SUFFICES ASSUME StoreInit PROVE FileInv
  OBVIOUS
<1>1. InOrder(<<>>, <<>>)
  <2> DEFINE at == [i \in DOMAIN <<>> |-> 1]
  <2>1. DOMAIN <<>> = {}
    OBVIOUS
  <2>2. at \in [DOMAIN <<>> -> DOMAIN <<>>] /\ \A i \in DOMAIN <<>> : FALSE
    BY <2>1
  <2> HIDE DEF at
  <2>. QED
    BY <2>2 DEF InOrder
<1>2. Covers(<<>>, <<>>, Least)
  BY DEF Covers
<1>. QED
  BY <1>1, <1>2 DEF StoreInit, FileInv, UpToDate

LEMMA FileInvStep == StoreInv /\ FileInv /\ [StoreNext]_storeVars => FileInv'
<1> SUFFICES ASSUME StoreInv, FileInv, [StoreNext]_storeVars, mishaps' = {} PROVE FileInv'
  BY DEF FileInv
<1>0. mishaps = {} /\ saving \subseteq open /\ trees \in [Processes -> Seq(Experiments)]
  <2>1. mishaps \subseteq mishaps'
    BY DEF StoreNext, Open, Store, Saved, NotJson, Exit, storeVars
  <2>. QED
    BY <2>1 DEF StoreInv, StoreTypeOK
<1>1. /\ \A p, q \in open : p = q
      /\ disturbed = {}
      /\ saving = {} =>
           /\ UpToDate(file.trees)
           /\ \A p \in open : trees[p] = file.trees
           /\ IF stored = <<>> THEN file = [state |-> "absent", trees |-> <<>>] ELSE file.state = "intact"
      /\ \A p \in saving : UpToDate(trees[p]) /\ stored # <<>>
  BY <1>0 DEF FileInv
<1>2. ASSUME NEW p \in Processes, Open(p) PROVE FileInv'
  <2>1. open = {} /\ saving = {} /\ open' = {p} /\ saving' = {} /\ disturbed' = {}
    BY <1>0, <1>1, <1>2 DEF Open
  <2>2. trees'[p] = file.trees
    BY <1>0, <1>1, <1>2, <2>1 DEF Open
  <2>3. UpToDate(file.trees)' <=> UpToDate(file.trees)
    BY <1>2 DEF UpToDate, Open
  <2>. QED
    BY <1>1, <1>2, <2>1, <2>2, <2>3 DEF FileInv, Open
<1>3. ASSUME NEW p \in Processes, NEW e \in Experiments, Store(p, e) PROVE FileInv'
  <2>1. p \in open /\ saving = {} /\ saving' = {p} /\ disturbed' = {} /\ open' = open
    BY <1>0, <1>1, <1>3 DEF Store
  <2>2. UpToDate(trees[p])
    BY <1>1, <2>1
  <2>3. /\ trees[p] \in Seq(Experiments) /\ HashesDiffer(trees[p]) /\ MaxEntries[p] \in Nat \ {0}
        /\ stored \in Seq(Experiments) /\ Least \in Nat /\ Least <= MaxEntries[p]
    BY StoreAssumption, LeastIs DEF StoreInv, StoreTypeOK
  <2>4. trees'[p] = Entered(trees[p], e, MaxEntries[p]) /\ stored' = Append(stored, e)
    BY <1>0, <1>3 DEF Store
  <2>5. InOrder(trees'[p], stored') /\ Covers(trees'[p], stored', Least)
    BY <2>2, <2>3, <2>4, EnteredKeeps DEF UpToDate
  <2>6. stored' # <<>>
    BY <2>3, <2>4
  <2>7. UpToDate(trees[p])'
    BY <2>5 DEF UpToDate
  <2>. QED
    BY <1>1, <2>1, <2>6, <2>7 DEF FileInv
<1>4. ASSUME NEW p \in Processes, Saved(p) PROVE FileInv'
  <2>1. p \in open /\ saving' = {} /\ disturbed' = {} /\ file' = Intact(trees[p]) /\ open' = open /\ open = {p}
    BY <1>0, <1>1, <1>4 DEF Saved
  <2>2. UpToDate(trees[p]) /\ trees' = trees /\ stored' = stored /\ stored # <<>>
    BY <1>1, <1>4 DEF Saved
  <2>3. file'.trees = trees[p] /\ file'.state = "intact"
    BY <2>1 DEF Intact
  <2>4. UpToDate(file.trees)'
    BY <2>2, <2>3 DEF UpToDate
  <2>. QED
    BY <2>1, <2>2, <2>3, <2>4 DEF FileInv
<1>5. ASSUME NEW p \in Processes, NotJson(p) PROVE FALSE
  BY <1>5 DEF NotJson
<1>6. ASSUME NEW p \in Processes, Exit(p) PROVE FileInv'
  <2>1. p \notin saving
    BY <1>6 DEF Exit
  <2>2. open' = {} /\ saving = {} /\ saving' = {} /\ disturbed' = {} /\ file' = file /\ stored' = stored
    BY <1>0, <1>1, <1>6, <2>1 DEF Exit
  <2>3. UpToDate(file.trees)'
    BY <1>1, <2>2 DEF UpToDate
  <2>. QED
    BY <1>1, <2>2, <2>3 DEF FileInv
<1>7. CASE UNCHANGED storeVars
  <2>2. /\ open' = open /\ trees' = trees /\ saving' = saving /\ disturbed' = disturbed
        /\ file' = file /\ stored' = stored
    BY <1>7 DEF storeVars
  <2>3. UpToDate(file.trees)' <=> UpToDate(file.trees)
    BY <2>2 DEF UpToDate
  <2>4. \A p \in saving : UpToDate(trees[p])' <=> UpToDate(trees[p])
    BY <2>2 DEF UpToDate
  <2>. QED
    BY <1>1, <2>2, <2>3, <2>4 DEF FileInv
<1>. QED
  BY <1>2, <1>3, <1>4, <1>5, <1>6, <1>7 DEF StoreNext

\* Between saves, a file nothing went wrong with is up to date with every store, over all
\* processes and restarts, and an open store has what the file has.
THEOREM FileUpToDate == StoreSpec => []FileInv
<1>1. StoreInit => StoreInv /\ FileInv
  BY StoreInvInit, FileInvInit
<1>2. StoreInv /\ FileInv /\ [StoreNext]_storeVars => (StoreInv /\ FileInv)'
  BY StoreInvStep, FileInvStep
<1>. QED
  BY <1>1, <1>2, PTL DEF StoreSpec

LEMMA FileInvRecent == StoreInv /\ FileInv => RecentKept
<1> SUFFICES ASSUME StoreInv, FileInv, mishaps = {}, saving = {}, stored # <<>>
             PROVE  /\ file.state = "intact" /\ Recent(Least) \subseteq Range(file.trees)
                    /\ Cardinality(open) = 1 => \A p \in open : trees[p] = file.trees
  BY DEF RecentKept
<1>1. Covers(file.trees, stored, Least) /\ file.state = "intact" /\ \A p \in open : trees[p] = file.trees
  BY DEF FileInv, UpToDate
<1>2. ASSUME NEW e \in Recent(Least) PROVE e \in Range(file.trees)
  <2>1. PICK k \in DOMAIN stored :
          /\ stored[k] = e
          /\ Cardinality({Hash(stored[j]) : j \in k..Len(stored)}) <= Least
          /\ \A j \in (k + 1)..Len(stored) : Hash(stored[j]) # Hash(e)
    BY DEF Recent
  <2>2. \E i \in DOMAIN file.trees : file.trees[i] = e
    BY <1>1, <2>1 DEF Covers, Latest, HashesFrom
  <2>. QED
    BY <2>2 DEF Range
<1>. QED
  BY <1>1, <1>2

\* As long as no save is interrupted or fails and no two processes have the store at the
\* same time, the trees stored last are in the file and in every open store
\* (store.py 51-66, 99-127).
THEOREM LastStoredKept == StoreSpec => []RecentKept
BY StoreInvariance, FileUpToDate, FileInvRecent, PTL

-----------------------------------------------------------------------------
(* ProvenanceDiff: the difference of two trees.  The hash of a node whose children *)
(* have different hashes stands for the set of them, so that equal hashes mean      *)
(* equal parts, from the leaves up; and on every level the difference goes on       *)
(* exactly where a hash changes.                                             *)

\* Leaves have one hash if and only if they are the same.
LEMMA LeafHashes ==
  \A t, l, c, u, m, d : HashLeaf(t, l, c) = HashLeaf(u, m, d) <=> t = u /\ l = m /\ c = d
<1> TAKE t, l, c, u, m, d
<1>1. HashLeaf(t, l, c).type = t /\ HashLeaf(t, l, c).content = <<l, c>>
  BY DEF HashLeaf
<1>2. HashLeaf(u, m, d).type = u /\ HashLeaf(u, m, d).content = <<m, d>>
  BY DEF HashLeaf
<1>3. <<l, c>> = <<m, d>> <=> l = m /\ c = d
  OBVIOUS
<1>4. HashLeaf(t, l, c) = HashLeaf(u, m, d) => t = u /\ <<l, c>> = <<m, d>>
  BY <1>1, <1>2
<1> QED
  BY <1>3, <1>4

\* Hashes that are all different are counted once each: the bag of them is their set.
Different(f) == \A j, k \in DOMAIN f : f[j] = f[k] => j = k

LEMMA CountedOnce ==
  ASSUME NEW f, Different(f), NEW type
  PROVE  HashInternal(type, f) = [type |-> type, content |-> <<>>, children |-> [h \in Range(f) |-> 1]]
<1>1. ASSUME NEW h \in Range(f) PROVE Cardinality({k \in DOMAIN f : f[k] = h}) = 1
  <2>1. PICK k \in DOMAIN f : h = f[k]
    BY DEF Range
  <2>2. {j \in DOMAIN f : f[j] = h} = {k}
    BY <2>1 DEF Different
  <2> QED
    BY <2>2, FS_Singleton
<1>2. [h \in Range(f) |-> Cardinality({k \in DOMAIN f : f[k] = h})] = [h \in Range(f) |-> 1]
  BY <1>1
<1> QED
  BY <1>2 DEF HashInternal

LEMMA BagsAreSets ==
  ASSUME NEW f, NEW g, Different(f), Different(g), NEW type
  PROVE  HashInternal(type, f) = HashInternal(type, g) <=> Range(f) = Range(g)
<1> DEFINE F == [h \in Range(f) |-> 1]
           G == [h \in Range(g) |-> 1]
<1>1. HashInternal(type, f).children = F /\ HashInternal(type, g).children = G
  BY CountedOnce
<1>2. DOMAIN F = Range(f) /\ DOMAIN G = Range(g)
  OBVIOUS
<1>3. Range(f) = Range(g) => HashInternal(type, f) = HashInternal(type, g)
  BY CountedOnce
<1> HIDE DEF F, G
<1> QED
  BY <1>1, <1>2, <1>3

\* Lists of parts whose labels are all different.
Unique(ps) == \A j, k \in DOMAIN ps : ps[j].label = ps[k].label => j = k
HashesOf(children) == [k \in DOMAIN children |-> children[k].hash]

LEMMA LeavesFacts ==
  ASSUME NEW type, NEW ps \in Seq(Part)
  PROVE  /\ DOMAIN Leaves(type, ps) = DOMAIN ps /\ DOMAIN ps = 1..Len(ps) /\ Len(ps) \in Nat
         /\ \A k \in DOMAIN ps :
              /\ Leaves(type, ps)[k] = Leaf(type, ps[k].label, ps[k].content)
              /\ Leaves(type, ps)[k].hash = HashLeaf(type, ps[k].label, ps[k].content)
              /\ Key(Leaves(type, ps)[k]) = [type |-> type, label |-> ps[k].label]
              /\ <<type, ps[k].label, ps[k].content>> \in PartsIn(type, ps)
         /\ Range(HashesOf(Leaves(type, ps))) = {HashLeaf(p[1], p[2], p[3]) : p \in PartsIn(type, ps)}
         /\ Leaves(type, ps) = <<>> <=> ps = <<>>
         /\ Leaves(type, ps) \in Seq(Range(Leaves(type, ps))) /\ Len(Leaves(type, ps)) = Len(ps)
<1>1. DOMAIN Leaves(type, ps) = DOMAIN ps /\ DOMAIN ps = 1..Len(ps) /\ Len(ps) \in Nat
  BY DEF Leaves
<1>2. ASSUME NEW k \in DOMAIN ps
      PROVE  /\ Leaves(type, ps)[k] = Leaf(type, ps[k].label, ps[k].content)
             /\ Leaves(type, ps)[k].hash = HashLeaf(type, ps[k].label, ps[k].content)
             /\ Key(Leaves(type, ps)[k]) = [type |-> type, label |-> ps[k].label]
             /\ <<type, ps[k].label, ps[k].content>> \in PartsIn(type, ps)
  <2>1. Leaves(type, ps)[k] = Leaf(type, ps[k].label, ps[k].content)
    BY DEF Leaves
  <2>2. ps[k] \in Range(ps)
    BY DEF Range
  <2> QED
    BY <2>1, <2>2 DEF Leaf, Key, PartsIn
<1>3. Range(HashesOf(Leaves(type, ps))) = {HashLeaf(p[1], p[2], p[3]) : p \in PartsIn(type, ps)}
  <2>1. ASSUME NEW h \in Range(HashesOf(Leaves(type, ps)))
        PROVE  h \in {HashLeaf(p[1], p[2], p[3]) : p \in PartsIn(type, ps)}
    <3>1. PICK k \in DOMAIN ps : h = Leaves(type, ps)[k].hash
      BY <1>1 DEF Range, HashesOf
    <3> DEFINE p == <<type, ps[k].label, ps[k].content>>
    <3>2. p \in PartsIn(type, ps) /\ h = HashLeaf(p[1], p[2], p[3])
      BY <1>2, <3>1
    <3> QED
      BY <3>2
  <2>2. ASSUME NEW p \in PartsIn(type, ps) PROVE HashLeaf(p[1], p[2], p[3]) \in Range(HashesOf(Leaves(type, ps)))
    <3>1. PICK k \in DOMAIN ps : p = <<type, ps[k].label, ps[k].content>>
      BY DEF PartsIn, Range
    <3>2. HashLeaf(p[1], p[2], p[3]) = Leaves(type, ps)[k].hash
      BY <1>2, <3>1
    <3> QED
      BY <1>1, <3>2 DEF Range, HashesOf
  <2> QED
    BY <2>1, <2>2
<1>4. Leaves(type, ps) = <<>> <=> ps = <<>>
  BY <1>1
<1>5. Leaves(type, ps) \in Seq(Range(Leaves(type, ps))) /\ Len(Leaves(type, ps)) = Len(ps)
  <2> DEFINE L == Leaves(type, ps)
  <2>1. L = [k \in 1..Len(ps) |-> Leaf(type, ps[k].label, ps[k].content)] /\ Len(ps) \in Nat
    BY <1>1 DEF Leaves
  <2>2. L \in [1..Len(ps) -> Range(L)]
    BY <2>1 DEF Range
  <2> HIDE DEF L
  <2> QED
    BY <2>1, <2>2 DEF L
<1> QED
  BY <1>1, <1>2, <1>3, <1>4, <1>5

\* Lists of parts are hashed alike if and only if they hold the same parts.
LEMMA ListsHash ==
  ASSUME NEW type, NEW ps \in Seq(Part), NEW qs \in Seq(Part), Unique(ps), Unique(qs), NEW outer
  PROVE  /\ HashInternal(outer, HashesOf(Leaves(type, ps))) = HashInternal(outer, HashesOf(Leaves(type, qs)))
              <=> PartsIn(type, ps) = PartsIn(type, qs)
         /\ Different(HashesOf(Leaves(type, ps)))
<1>1. ASSUME NEW rs \in Seq(Part), Unique(rs) PROVE Different(HashesOf(Leaves(type, rs)))
  <2> DEFINE L == Leaves(type, rs)
  <2>1. DOMAIN L = DOMAIN rs /\ \A k \in DOMAIN rs : L[k].hash = HashLeaf(type, rs[k].label, rs[k].content)
    BY LeavesFacts
  <2> HIDE DEF L
  <2>2. ASSUME NEW j \in DOMAIN rs, NEW k \in DOMAIN rs, L[j].hash = L[k].hash PROVE j = k
    <3>1. rs[j].label = rs[k].label
      BY <2>1, <2>2, LeafHashes
    <3> QED
      BY <1>1, <3>1 DEF Unique
  <2> QED
    BY <2>1, <2>2 DEF Different, HashesOf, L
<1> DEFINE F == HashesOf(Leaves(type, ps))
           G == HashesOf(Leaves(type, qs))
           H(P) == {HashLeaf(p[1], p[2], p[3]) : p \in P}
<1>2. Different(F) /\ Different(G)
  BY <1>1
<1>3. Range(F) = H(PartsIn(type, ps)) /\ Range(G) = H(PartsIn(type, qs))
  BY LeavesFacts
<1>4. ASSUME NEW P, NEW Q, H(P) = H(Q), \A p \in P \cup Q : p = <<p[1], p[2], p[3]>> PROVE P \subseteq Q
  <2>1. ASSUME NEW p \in P PROVE p \in Q
    <3>1. HashLeaf(p[1], p[2], p[3]) \in H(Q)
      BY <1>4
    <3>2. PICK q \in Q : HashLeaf(p[1], p[2], p[3]) = HashLeaf(q[1], q[2], q[3])
      BY <3>1
    <3>3. p[1] = q[1] /\ p[2] = q[2] /\ p[3] = q[3]
      BY <3>2, LeafHashes
    <3>4. p = q
      BY <1>4, <3>3
    <3> QED
      BY <3>4
  <2> QED
    BY <2>1
<1>5. \A p \in PartsIn(type, ps) \cup PartsIn(type, qs) : p = <<p[1], p[2], p[3]>>
  BY DEF PartsIn
<1>6. H(PartsIn(type, ps)) = H(PartsIn(type, qs)) => PartsIn(type, ps) = PartsIn(type, qs)
  <2> DEFINE P == PartsIn(type, ps)
             Q == PartsIn(type, qs)
  <2> SUFFICES ASSUME H(P) = H(Q) PROVE P = Q
    OBVIOUS
  <2>1. \A p \in P \cup Q : p = <<p[1], p[2], p[3]>>
    BY <1>5
  <2>2. \A p \in Q \cup P : p = <<p[1], p[2], p[3]>>
    BY <2>1
  <2> HIDE DEF P, Q, H
  <2>3. P \subseteq Q /\ Q \subseteq P
    BY <1>4, <2>1, <2>2
  <2> QED
    BY <2>3
<1> HIDE DEF F, G
<1>7. HashInternal(outer, F) = HashInternal(outer, G) <=> Range(F) = Range(G)
  BY <1>2, BagsAreSets
<1> QED
  BY <1>2, <1>3, <1>6, <1>7 DEF F, G

\* The place a part has in a difference.
KeyOf(p) == [type |-> p[1], label |-> p[2]]
Apart(P, Q) == (P \ Q) \cup (Q \ P)
Places(path, P, Q) == {Append(path, KeyOf(p)) : p \in Apart(P, Q)}

LEMMA OnlyChild ==
  ASSUME NEW node, NEW n \in Nat, DOMAIN node.children = 1..n, NEW k \in 1..n,
         \A j \in 1..n : Key(node.children[j]) = Key(node.children[k]) => j = k
  PROVE  ChildAt(node, Key(node.children[k])) = node.children[k] /\ Key(node.children[k]) \in Keys(node)
<1> DEFINE key == Key(node.children[k])
           P(i) == /\ Key(node.children[i]) = key
                   /\ \A j \in DOMAIN node.children : Key(node.children[j]) = key => j <= i
           c == CHOOSE i \in DOMAIN node.children : P(i)
<1>1. \A i \in 1..n : P(i) <=> i = k
  OBVIOUS
<1>2. c = k
  <2> HIDE DEF P
  <2> QED
    BY <1>1
<1>3. ChildAt(node, key) = node.children[c]
  BY DEF ChildAt
<1> QED
  BY <1>2, <1>3 DEF Keys

LEMMA PartChild ==
  ASSUME NEW type, NEW ps \in Seq(Part), Unique(ps), NEW node, node.children = Leaves(type, ps)
  PROVE  /\ Keys(node) = {KeyOf(p) : p \in PartsIn(type, ps)}
         /\ \A p \in PartsIn(type, ps) : ChildAt(node, KeyOf(p)) = Leaf(p[1], p[2], p[3])
         /\ \A p, q \in PartsIn(type, ps) : KeyOf(p) = KeyOf(q) => p = q
<1> DEFINE n == Len(ps)
<1>1. n \in Nat /\ DOMAIN ps = 1..n /\ DOMAIN node.children = 1..n
      /\ \A k \in 1..n : /\ node.children[k] = Leaf(type, ps[k].label, ps[k].content)
                         /\ Key(node.children[k]) = [type |-> type, label |-> ps[k].label]
                         /\ <<type, ps[k].label, ps[k].content>> \in PartsIn(type, ps)
  BY LeavesFacts
<1> HIDE DEF n
<1>2. ASSUME NEW p \in PartsIn(type, ps)
      PROVE  \E k \in 1..n : p = <<type, ps[k].label, ps[k].content>> /\ Key(node.children[k]) = KeyOf(p)
                             /\ node.children[k] = Leaf(p[1], p[2], p[3])
  <2>1. PICK k \in 1..n : p = <<type, ps[k].label, ps[k].content>>
    BY <1>1 DEF PartsIn, Range
  <2>2. p[1] = type /\ p[2] = ps[k].label /\ p[3] = ps[k].content
    BY <2>1
  <2>3. Key(node.children[k]) = KeyOf(p) /\ node.children[k] = Leaf(p[1], p[2], p[3])
    BY <1>1, <2>2 DEF KeyOf
  <2> QED
    BY <2>1, <2>3
<1>3. \A j, k \in 1..n : Key(node.children[j]) = Key(node.children[k]) => j = k
  <2> TAKE j, k \in 1..n
  <2>1. /\ Key(node.children[j]) = [type |-> type, label |-> ps[j].label]
        /\ Key(node.children[k]) = [type |-> type, label |-> ps[k].label]
    BY <1>1
  <2>2. \A l, m : [type |-> type, label |-> l] = [type |-> type, label |-> m] => l = m
    OBVIOUS
  <2> QED
    BY <1>1, <2>1, <2>2 DEF Unique
<1>4. ASSUME NEW p \in PartsIn(type, ps) PROVE ChildAt(node, KeyOf(p)) = Leaf(p[1], p[2], p[3]) /\ KeyOf(p) \in Keys(node)
  <2>1. PICK k \in 1..n : Key(node.children[k]) = KeyOf(p) /\ node.children[k] = Leaf(p[1], p[2], p[3])
    BY <1>2
  <2>2. ChildAt(node, Key(node.children[k])) = node.children[k] /\ Key(node.children[k]) \in Keys(node)
    BY <1>1, <1>3, OnlyChild
  <2> QED
    BY <2>1, <2>2
<1>5. ASSUME NEW key \in Keys(node) PROVE \E p \in PartsIn(type, ps) : key = KeyOf(p)
  <2>1. PICK k \in 1..n : key = Key(node.children[k])
    BY <1>1 DEF Keys
  <2> DEFINE p == <<type, ps[k].label, ps[k].content>>
  <2>2. p \in PartsIn(type, ps) /\ key = KeyOf(p)
    BY <1>1, <2>1 DEF KeyOf
  <2> QED
    BY <2>2
<1>6. Keys(node) = {KeyOf(p) : p \in PartsIn(type, ps)}
  BY <1>4, <1>5
<1>7. ASSUME NEW p \in PartsIn(type, ps), NEW q \in PartsIn(type, ps), KeyOf(p) = KeyOf(q) PROVE p = q
  <2>1. PICK j \in 1..n : p = <<type, ps[j].label, ps[j].content>> /\ Key(node.children[j]) = KeyOf(p)
    BY <1>2
  <2>2. PICK k \in 1..n : q = <<type, ps[k].label, ps[k].content>> /\ Key(node.children[k]) = KeyOf(q)
    BY <1>2
  <2> QED
    BY <1>3, <1>7, <2>1, <2>2
<1> QED
  BY <1>4, <1>6, <1>7

\* What one level of the comparison says of two nodes whose children are parts.
LevelOf(a, b, path) ==
  UNION {IF key \in Keys(a) \cap Keys(b)
         THEN IF ChildAt(a, key).hash = ChildAt(b, key).hash THEN {} ELSE {Append(path, key)}
         ELSE {Append(path, key)} : key \in Keys(a) \cup Keys(b)}

LEMMA PartsDiffer ==
  ASSUME NEW type, NEW ps \in Seq(Part), NEW qs \in Seq(Part), Unique(ps), Unique(qs),
         NEW a, NEW b, a.children = Leaves(type, ps), b.children = Leaves(type, qs), NEW path
  PROVE  LevelOf(a, b, path) = Places(path, PartsIn(type, ps), PartsIn(type, qs))
<1> DEFINE P == PartsIn(type, ps)
           Q == PartsIn(type, qs)
           Here(key) == IF key \in Keys(a) \cap Keys(b)
                        THEN IF ChildAt(a, key).hash = ChildAt(b, key).hash THEN {} ELSE {Append(path, key)}
                        ELSE {Append(path, key)}
<1>1. /\ Keys(a) = {KeyOf(p) : p \in P} /\ \A p \in P : ChildAt(a, KeyOf(p)) = Leaf(p[1], p[2], p[3])
      /\ \A p, q \in P : KeyOf(p) = KeyOf(q) => p = q
  BY PartChild
<1>2. /\ Keys(b) = {KeyOf(p) : p \in Q} /\ \A p \in Q : ChildAt(b, KeyOf(p)) = Leaf(p[1], p[2], p[3])
      /\ \A p, q \in Q : KeyOf(p) = KeyOf(q) => p = q
  BY PartChild
<1>3. \A p \in P \cup Q : p = <<p[1], p[2], p[3]>>
  BY DEF PartsIn
<1>4. \A p : Leaf(p[1], p[2], p[3]).hash = HashLeaf(p[1], p[2], p[3])
  BY DEF Leaf
<1> HIDE DEF P, Q
<1>5. ASSUME NEW p \in P, NEW q \in Q, KeyOf(p) = KeyOf(q)
      PROVE  ChildAt(a, KeyOf(p)).hash = ChildAt(b, KeyOf(p)).hash <=> p = q
  <2>1. ChildAt(a, KeyOf(p)).hash = HashLeaf(p[1], p[2], p[3])
    BY <1>1, <1>4
  <2>2. ChildAt(b, KeyOf(q)).hash = HashLeaf(q[1], q[2], q[3])
    BY <1>2, <1>4
  <2>3. HashLeaf(p[1], p[2], p[3]) = HashLeaf(q[1], q[2], q[3]) <=> p[1] = q[1] /\ p[2] = q[2] /\ p[3] = q[3]
    BY LeafHashes
  <2>4. p = <<p[1], p[2], p[3]>> /\ q = <<q[1], q[2], q[3]>>
    BY <1>3
  <2> QED
    BY <1>5, <2>1, <2>2, <2>3, <2>4
<1>6. ASSUME NEW key \in Keys(a) \cup Keys(b)
      PROVE  Here(key) = IF \E p \in Apart(P, Q) : KeyOf(p) = key THEN {Append(path, key)} ELSE {}
  <2>1. CASE key \in Keys(a) \cap Keys(b)
    <3>1. PICK p \in P : key = KeyOf(p)
      BY <1>1, <2>1
    <3>2. PICK q \in Q : key = KeyOf(q)
      BY <1>2, <2>1
    <3>3. ChildAt(a, key).hash = ChildAt(b, key).hash <=> p = q
      BY <1>5, <3>1, <3>2
    <3>4. p = q => ~\E r \in Apart(P, Q) : KeyOf(r) = key
      BY <1>1, <1>2, <3>1, <3>2 DEF Apart
    <3>5. p # q => p \in Apart(P, Q)
      BY <1>2, <3>1, <3>2 DEF Apart
    <3> QED
      BY <2>1, <3>1, <3>3, <3>4, <3>5
  <2>2. CASE key \in Keys(a) \ Keys(b)
    <3>1. PICK p \in P : key = KeyOf(p)
      BY <1>1, <2>2
    <3>2. p \in Apart(P, Q)
      BY <1>2, <2>2, <3>1 DEF Apart
    <3> QED
      BY <2>2, <3>1, <3>2
  <2>3. CASE key \in Keys(b) \ Keys(a)
    <3>1. PICK p \in Q : key = KeyOf(p)
      BY <1>2, <2>3
    <3>2. p \in Apart(P, Q)
      BY <1>1, <2>3, <3>1 DEF Apart
    <3> QED
      BY <2>3, <3>1, <3>2
  <2> QED
    BY <2>1, <2>2, <2>3
<1>7. LevelOf(a, b, path) = UNION {Here(key) : key \in Keys(a) \cup Keys(b)}
  BY DEF LevelOf
<1> HIDE DEF Here
<1>8. ASSUME NEW x \in LevelOf(a, b, path) PROVE x \in Places(path, P, Q)
  <2>1. PICK key \in Keys(a) \cup Keys(b) : x \in Here(key)
    BY <1>7, <1>8
  <2>2. PICK p \in Apart(P, Q) : KeyOf(p) = key /\ x = Append(path, key)
    BY <1>6, <2>1
  <2> QED
    BY <2>2 DEF Places
<1>9. ASSUME NEW x \in Places(path, P, Q) PROVE x \in LevelOf(a, b, path)
  <2>1. PICK p \in Apart(P, Q) : x = Append(path, KeyOf(p))
    BY <1>9 DEF Places
  <2>2. KeyOf(p) \in Keys(a) \cup Keys(b)
    BY <1>1, <1>2, <2>1 DEF Apart
  <2>3. x \in Here(KeyOf(p))
    BY <1>6, <2>1, <2>2
  <2> QED
    BY <1>7, <2>2, <2>3
<1> QED
  BY <1>8, <1>9 DEF P, Q

\* A level of the comparison, with what it finds below written out.
LEMMA LevelsUnfold ==
  ASSUME NEW a, NEW b, NEW path
  PROVE  /\ ChangedSection(a, b, path) =
              IF a.hash = b.hash THEN {} ELSE IF IsLeaf(a) /\ IsLeaf(b) THEN {path}
              ELSE UNION {IF key \in Keys(a) \cap Keys(b)
                          THEN ChangedPart(ChildAt(a, key), ChildAt(b, key), Append(path, key))
                          ELSE {Append(path, key)} : key \in Keys(a) \cup Keys(b)}
         /\ ChangedBranch(a, b, path) =
              IF a.hash = b.hash THEN {} ELSE IF IsLeaf(a) /\ IsLeaf(b) THEN {path}
              ELSE UNION {IF key \in Keys(a) \cap Keys(b)
                          THEN ChangedSection(ChildAt(a, key), ChildAt(b, key), Append(path, key))
                          ELSE {Append(path, key)} : key \in Keys(a) \cup Keys(b)}
         /\ Changed(a, b, path) =
              IF a.hash = b.hash THEN {} ELSE IF IsLeaf(a) /\ IsLeaf(b) THEN {path}
              ELSE UNION {IF key \in Keys(a) \cap Keys(b)
                          THEN ChangedBranch(ChildAt(a, key), ChildAt(b, key), Append(path, key))
                          ELSE {Append(path, key)} : key \in Keys(a) \cup Keys(b)}
<1> DEFINE S(key) == ChangedPart(ChildAt(a, key), ChildAt(b, key), Append(path, key))
           B(key) == ChangedSection(ChildAt(a, key), ChildAt(b, key), Append(path, key))
           T(key) == ChangedBranch(ChildAt(a, key), ChildAt(b, key), Append(path, key))
           both == Keys(a) \cap Keys(b)
           fs == [key \in both |-> S(key)]
           fb == [key \in both |-> B(key)]
           ft == [key \in both |-> T(key)]
<1>1. /\ ChangedSection(a, b, path) = ChangedWith(fs, a, b, path)
      /\ ChangedBranch(a, b, path) = ChangedWith(fb, a, b, path)
      /\ Changed(a, b, path) = ChangedWith(ft, a, b, path)
  BY DEF ChangedSection, ChangedBranch, Changed
<1>2. /\ \A key \in both : fs[key] = S(key)
      /\ \A key \in both : fb[key] = B(key)
      /\ \A key \in both : ft[key] = T(key)
  OBVIOUS
<1> HIDE DEF S, B, T, fs, fb, ft
<1>3. /\ {IF key \in both THEN fs[key] ELSE {Append(path, key)} : key \in Keys(a) \cup Keys(b)}
           = {IF key \in both THEN S(key) ELSE {Append(path, key)} : key \in Keys(a) \cup Keys(b)}
      /\ {IF key \in both THEN fb[key] ELSE {Append(path, key)} : key \in Keys(a) \cup Keys(b)}
           = {IF key \in both THEN B(key) ELSE {Append(path, key)} : key \in Keys(a) \cup Keys(b)}
      /\ {IF key \in both THEN ft[key] ELSE {Append(path, key)} : key \in Keys(a) \cup Keys(b)}
           = {IF key \in both THEN T(key) ELSE {Append(path, key)} : key \in Keys(a) \cup Keys(b)}
  BY <1>2
<1>4. /\ ChangedSection(a, b, path) =
           IF a.hash = b.hash THEN {} ELSE IF IsLeaf(a) /\ IsLeaf(b) THEN {path}
           ELSE UNION {IF key \in both THEN S(key) ELSE {Append(path, key)} : key \in Keys(a) \cup Keys(b)}
      /\ ChangedBranch(a, b, path) =
           IF a.hash = b.hash THEN {} ELSE IF IsLeaf(a) /\ IsLeaf(b) THEN {path}
           ELSE UNION {IF key \in both THEN B(key) ELSE {Append(path, key)} : key \in Keys(a) \cup Keys(b)}
      /\ Changed(a, b, path) =
           IF a.hash = b.hash THEN {} ELSE IF IsLeaf(a) /\ IsLeaf(b) THEN {path}
           ELSE UNION {IF key \in both THEN T(key) ELSE {Append(path, key)} : key \in Keys(a) \cup Keys(b)}
  BY <1>1, <1>3 DEF ChangedWith
<1> QED
  BY <1>4 DEF S, B, T

\* Two nodes whose children are parts: the changes are the places of the parts that differ.
LEMMA ListsChange ==
  ASSUME NEW type, NEW ps \in Seq(Part), NEW qs \in Seq(Part), Unique(ps), Unique(qs),
         NEW a, NEW b, a.children = Leaves(type, ps), b.children = Leaves(type, qs),
         a.hash = b.hash <=> PartsIn(type, ps) = PartsIn(type, qs), NEW path
  PROVE  /\ ChangedSection(a, b, path) = Places(path, PartsIn(type, ps), PartsIn(type, qs))
         /\ ChangedBranch(a, b, path) = Places(path, PartsIn(type, ps), PartsIn(type, qs))
<1> DEFINE P == PartsIn(type, ps)
           Q == PartsIn(type, qs)
<1>1. /\ Keys(a) = {KeyOf(p) : p \in P} /\ \A p \in P : ChildAt(a, KeyOf(p)) = Leaf(p[1], p[2], p[3])
  BY PartChild
<1>2. /\ Keys(b) = {KeyOf(p) : p \in Q} /\ \A p \in Q : ChildAt(b, KeyOf(p)) = Leaf(p[1], p[2], p[3])
  BY PartChild
<1>3. LevelOf(a, b, path) = Places(path, P, Q)
  BY PartsDiffer
<1>4. a.hash = b.hash <=> P = Q
  OBVIOUS
<1>5. IsLeaf(a) /\ IsLeaf(b) => P = Q
  <2>1. IsLeaf(a) /\ IsLeaf(b) => ps = qs
    BY LeavesFacts DEF IsLeaf
  <2> QED
    BY <2>1
<1> HIDE DEF P, Q
<1>6. P = Q => Places(path, P, Q) = {}
  BY DEF Places, Apart
<1>7. \A p : IsLeaf(Leaf(p[1], p[2], p[3]))
  BY DEF IsLeaf, Leaf
<1>8. \A key \in Keys(a) \cap Keys(b) : IsLeaf(ChildAt(a, key)) /\ IsLeaf(ChildAt(b, key))
  BY <1>1, <1>2, <1>7
<1>9. ASSUME NEW c, NEW d, IsLeaf(c), IsLeaf(d), NEW p
      PROVE  /\ ChangedPart(c, d, p) = IF c.hash = d.hash THEN {} ELSE {p}
             /\ ChangedSection(c, d, p) = IF c.hash = d.hash THEN {} ELSE {p}
  BY <1>9 DEF ChangedPart, ChangedSection, ChangedWith
<1> DEFINE Here(key) == IF key \in Keys(a) \cap Keys(b)
                        THEN IF ChildAt(a, key).hash = ChildAt(b, key).hash THEN {} ELSE {Append(path, key)}
                        ELSE {Append(path, key)}
           ByPart(key) == IF key \in Keys(a) \cap Keys(b)
                          THEN ChangedPart(ChildAt(a, key), ChildAt(b, key), Append(path, key))
                          ELSE {Append(path, key)}
           BySection(key) == IF key \in Keys(a) \cap Keys(b)
                             THEN ChangedSection(ChildAt(a, key), ChildAt(b, key), Append(path, key))
                             ELSE {Append(path, key)}
<1>10. \A key \in Keys(a) \cup Keys(b) : ByPart(key) = Here(key) /\ BySection(key) = Here(key)
  <2> TAKE key \in Keys(a) \cup Keys(b)
  <2>1. CASE key \in Keys(a) \cap Keys(b)
    <3> DEFINE c == ChildAt(a, key)
               d == ChildAt(b, key)
               p == Append(path, key)
    <3>1. IsLeaf(c) /\ IsLeaf(d)
      BY <1>8, <2>1
    <3>2. ByPart(key) = ChangedPart(c, d, p) /\ BySection(key) = ChangedSection(c, d, p)
          /\ Here(key) = IF c.hash = d.hash THEN {} ELSE {p}
      BY <2>1
    <3> HIDE DEF c, d, p, Here, ByPart, BySection
    <3> QED
      BY <1>9, <3>1, <3>2
  <2>2. CASE key \notin Keys(a) \cap Keys(b)
    BY <2>2
  <2> QED
    BY <2>1, <2>2
<1>11. LevelOf(a, b, path) = UNION {Here(key) : key \in Keys(a) \cup Keys(b)}
  BY DEF LevelOf
<1>12. ChangedSection(a, b, path) =
         IF a.hash = b.hash THEN {} ELSE IF IsLeaf(a) /\ IsLeaf(b) THEN {path}
         ELSE UNION {ByPart(key) : key \in Keys(a) \cup Keys(b)}
  BY LevelsUnfold
<1>13. ChangedBranch(a, b, path) =
         IF a.hash = b.hash THEN {} ELSE IF IsLeaf(a) /\ IsLeaf(b) THEN {path}
         ELSE UNION {BySection(key) : key \in Keys(a) \cup Keys(b)}
  BY LevelsUnfold
<1> HIDE DEF Here, ByPart, BySection
<1>14. /\ UNION {ByPart(key) : key \in Keys(a) \cup Keys(b)} = UNION {Here(key) : key \in Keys(a) \cup Keys(b)}
       /\ UNION {BySection(key) : key \in Keys(a) \cup Keys(b)} = UNION {Here(key) : key \in Keys(a) \cup Keys(b)}
  BY <1>10
<1> QED
  BY <1>3, <1>4, <1>5, <1>6, <1>11, <1>12, <1>13, <1>14 DEF P, Q

LEMMA InternalShape ==
  ASSUME NEW type, NEW label, NEW children
  PROVE  LET a == Internal(type, label, children)
         IN /\ a.children = children /\ a.hash = HashInternal(type, HashesOf(children)) /\ a.hash.type = type
            /\ Key(a) = [type |-> type, label |-> label]
<1> DEFINE a == Internal(type, label, children)
<1>1. a.children = children /\ a.type = type /\ a.label = label /\ a.hash = HashInternal(type, HashesOf(children))
  BY DEF Internal, HashesOf
<1>2. HashInternal(type, HashesOf(children)).type = type
  BY DEF HashInternal
<1> HIDE DEF a
<1>3. Key(a) = [type |-> type, label |-> label]
  BY <1>1 DEF Key
<1> QED
  BY <1>1, <1>2, <1>3 DEF a

\* A section's hash tells its parts; a section without parts is a leaf of its own.
LEMMA SectionFacts ==
  ASSUME NEW outer, NEW label, NEW type, NEW ps \in Seq(Part), NEW qs \in Seq(Part), Unique(ps), Unique(qs)
  PROVE  LET a == Section(outer, label, Leaves(type, ps))
             b == Section(outer, label, Leaves(type, qs))
         IN /\ a.hash = b.hash <=> PartsIn(type, ps) = PartsIn(type, qs)
            /\ a.children = Leaves(type, ps) /\ a.hash.type = outer
            /\ Key(a) = [type |-> outer, label |-> label]
<1> DEFINE S(rs) == Section(outer, label, Leaves(type, rs))
<1>1. ASSUME NEW rs \in Seq(Part)
      PROVE  /\ S(rs).children = Leaves(type, rs) /\ S(rs).hash.type = outer
             /\ Key(S(rs)) = [type |-> outer, label |-> label]
             /\ rs = <<>> => S(rs).hash = HashLeaf(outer, label, Empty)
             /\ rs # <<>> => S(rs).hash = HashInternal(outer, HashesOf(Leaves(type, rs)))
             /\ rs = <<>> <=> PartsIn(type, rs) = {}
  <2>1. Leaves(type, rs) = <<>> <=> rs = <<>>
    BY LeavesFacts
  <2>2. rs = <<>> => S(rs) = Leaf(outer, label, Empty)
    BY <2>1 DEF Section
  <2>3. rs # <<>> => S(rs) = Internal(outer, label, Leaves(type, rs))
    BY <2>1 DEF Section
  <2>4. rs = <<>> => PartsIn(type, rs) = {}
    BY DEF PartsIn, Range
  <2>5. rs # <<>> => PartsIn(type, rs) # {}
    <3>1. rs # <<>> => 1 \in DOMAIN rs
      OBVIOUS
    <3> QED
      BY <3>1, LeavesFacts
  <2> HIDE DEF S
  <2>6. CASE rs = <<>>
    BY <2>1, <2>2, <2>4, <2>6 DEF Leaf, HashLeaf, Key
  <2>7. CASE rs # <<>>
    BY <2>3, <2>5, <2>7, InternalShape
  <2> QED
    BY <2>6, <2>7
<1>2. \A f : HashInternal(outer, f) # HashLeaf(outer, label, Empty)
  <2> TAKE f
  <2>1. HashInternal(outer, f).content = <<>> /\ HashLeaf(outer, label, Empty).content = <<label, Empty>>
    BY DEF HashInternal, HashLeaf
  <2>2. <<label, Empty>> # <<>>
    OBVIOUS
  <2> QED
    BY <2>1, <2>2
<1>3. HashInternal(outer, HashesOf(Leaves(type, ps))) = HashInternal(outer, HashesOf(Leaves(type, qs)))
        <=> PartsIn(type, ps) = PartsIn(type, qs)
  BY ListsHash
<1> HIDE DEF S
<1>4. S(ps).hash = S(qs).hash <=> PartsIn(type, ps) = PartsIn(type, qs)
  BY <1>1, <1>2, <1>3
<1> QED
  BY <1>1, <1>4 DEF S

LEMMA InternalFacts ==
  ASSUME NEW outer, NEW label, NEW type, NEW ps \in Seq(Part), NEW qs \in Seq(Part), Unique(ps), Unique(qs)
  PROVE  LET a == Internal(outer, label, Leaves(type, ps))
             b == Internal(outer, label, Leaves(type, qs))
         IN /\ a.hash = b.hash <=> PartsIn(type, ps) = PartsIn(type, qs)
            /\ a.children = Leaves(type, ps) /\ a.hash.type = outer
            /\ Key(a) = [type |-> outer, label |-> label]
<1> DEFINE S(rs) == Internal(outer, label, Leaves(type, rs))
<1>1. \A rs : /\ S(rs).children = Leaves(type, rs) /\ S(rs).hash.type = outer
              /\ Key(S(rs)) = [type |-> outer, label |-> label]
              /\ S(rs).hash = HashInternal(outer, HashesOf(Leaves(type, rs)))
  BY InternalShape
<1>2. HashInternal(outer, HashesOf(Leaves(type, ps))) = HashInternal(outer, HashesOf(Leaves(type, qs)))
        <=> PartsIn(type, ps) = PartsIn(type, qs)
  BY ListsHash
<1> HIDE DEF S
<1> QED
  BY <1>1, <1>2 DEF S

\* The nodes of an experiment's tree, and the keys of the inner ones.
CalibrationOf(e) == Internal("calibration", "calibration", Leaves("qubit_calibration", e.qubits))
PulsesOf(e) == Section("pulse_sequence", "pulse_sequence", Leaves("scheduled_pulse", e.pulses))
ConfigOf(e) == Section("config", "config", Leaves("grape_config", e.config))
PlanOf(e) == Internal("experiment", "experiment", <<PulsesOf(e), ConfigOf(e)>>)
Named(name) == [type |-> name, label |-> name]
InnerKeys == {Named("calibration"), Named("experiment"), Named("pulse_sequence"), Named("config")}

LEMMA NamesDiffer == \A m, n : Named(m) = Named(n) => m = n
<1> TAKE m, n
<1>1. Named(m).type = m /\ Named(n).type = n
  BY DEF Named
<1> QED
  BY <1>1

LEMMA BuiltOf ==
  ASSUME NEW e
  PROVE  Build(e) = Internal("root", "", <<CalibrationOf(e), PlanOf(e)>> \o Leaves("drift_event", e.events))
BY DEF Build, CalibrationOf, PulsesOf, ConfigOf, PlanOf

LEMMA ExperimentTyped ==
  ASSUME NEW e \in Experiment, LabelsUnique(e)
  PROVE  /\ e.qubits \in Seq(Part) /\ e.pulses \in Seq(Part) /\ e.config \in Seq(Part) /\ e.events \in Seq(Part)
         /\ Unique(e.qubits) /\ Unique(e.pulses) /\ Unique(e.config) /\ Unique(e.events)
<1>1. e.qubits \in Seq(Part) /\ e.pulses \in Seq(Part) /\ e.config \in Seq(Part) /\ e.events \in Seq(Part)
  BY DEF Experiment
<1>2. \A ps \in {e.qubits, e.pulses, e.config, e.events} : Unique(ps)
  BY DEF LabelsUnique, Unique
<1> QED
  BY <1>1, <1>2

\* The plan's two sections.
LEMMA PlanFacts ==
  ASSUME NEW e \in Experiment, LabelsUnique(e)
  PROVE  /\ PlanOf(e).children = <<PulsesOf(e), ConfigOf(e)>> /\ PlanOf(e).hash.type = "experiment"
         /\ Key(PlanOf(e)) = Named("experiment") /\ ~IsLeaf(PlanOf(e))
         /\ Keys(PlanOf(e)) = {Named("pulse_sequence"), Named("config")}
         /\ ChildAt(PlanOf(e), Named("pulse_sequence")) = PulsesOf(e)
         /\ ChildAt(PlanOf(e), Named("config")) = ConfigOf(e)
         /\ PlanOf(e).hash = HashInternal("experiment", HashesOf(<<PulsesOf(e), ConfigOf(e)>>))
         /\ Different(HashesOf(<<PulsesOf(e), ConfigOf(e)>>))
         /\ Range(HashesOf(<<PulsesOf(e), ConfigOf(e)>>)) = {PulsesOf(e).hash, ConfigOf(e).hash}
         /\ PulsesOf(e).hash.type = "pulse_sequence" /\ ConfigOf(e).hash.type = "config"
<1> DEFINE p == PulsesOf(e)
           c == ConfigOf(e)
           x == PlanOf(e)
<1>1. p.hash.type = "pulse_sequence" /\ Key(p) = Named("pulse_sequence")
  BY ExperimentTyped, SectionFacts DEF PulsesOf, Named
<1>2. c.hash.type = "config" /\ Key(c) = Named("config")
  BY ExperimentTyped, SectionFacts DEF ConfigOf, Named
<1>3. /\ x.children = <<p, c>> /\ x.hash = HashInternal("experiment", HashesOf(<<p, c>>)) /\ x.hash.type = "experiment"
      /\ Key(x) = Named("experiment")
  BY InternalShape DEF PlanOf, Named
<1> HIDE DEF p, c, x
<1>4. DOMAIN x.children = 1..2 /\ x.children[1] = p /\ x.children[2] = c /\ x.children # <<>>
  BY <1>3
<1>5. Named("pulse_sequence") # Named("config")
  BY NamesDiffer
<1>6. ChildAt(x, Named("pulse_sequence")) = p /\ ChildAt(x, Named("config")) = c
      /\ Named("pulse_sequence") \in Keys(x) /\ Named("config") \in Keys(x)
  <2>1. 2 \in Nat /\ 1 \in 1..2 /\ 2 \in 1..2 /\ \A j \in 1..2 : j = 1 \/ j = 2
    OBVIOUS
  <2>2. Key(x.children[1]) = Named("pulse_sequence") /\ Key(x.children[2]) = Named("config")
    BY <1>1, <1>2, <1>4
  <2>3. /\ \A j \in 1..2 : Key(x.children[j]) = Key(x.children[1]) => j = 1
        /\ \A j \in 1..2 : Key(x.children[j]) = Key(x.children[2]) => j = 2
    BY <1>5, <2>1, <2>2
  <2>4. ChildAt(x, Key(x.children[1])) = x.children[1] /\ Key(x.children[1]) \in Keys(x)
    BY <1>4, <2>1, <2>3, OnlyChild
  <2>5. ChildAt(x, Key(x.children[2])) = x.children[2] /\ Key(x.children[2]) \in Keys(x)
    BY <1>4, <2>1, <2>3, OnlyChild
  <2> QED
    BY <1>4, <2>2, <2>4, <2>5
<1>7. Keys(x) = {Named("pulse_sequence"), Named("config")}
  <2>1. \A j \in 1..2 : Key(x.children[j]) \in {Named("pulse_sequence"), Named("config")}
    BY <1>1, <1>2, <1>4
  <2> QED
    BY <1>4, <1>6, <2>1 DEF Keys
<1> DEFINE h == HashesOf(<<p, c>>)
<1>8. DOMAIN h = 1..2 /\ h[1] = p.hash /\ h[2] = c.hash
  BY DEF HashesOf
<1> HIDE DEF h
<1>9. Different(h) /\ Range(h) = {p.hash, c.hash}
  <2>1. p.hash # c.hash
    BY <1>1, <1>2
  <2>2. \A j \in 1..2 : j = 1 \/ j = 2
    OBVIOUS
  <2>3. 1 \in 1..2 /\ 2 \in 1..2
    OBVIOUS
  <2> QED
    BY <1>8, <2>1, <2>2, <2>3 DEF Different, Range
<1> QED
  BY <1>1, <1>2, <1>3, <1>4, <1>6, <1>7, <1>9 DEF p, c, x, h, IsLeaf

LEMMA PlansChange ==
  ASSUME NEW d \in Experiment, NEW e \in Experiment, LabelsUnique(d), LabelsUnique(e), NEW path
  PROVE  /\ PlanOf(d).hash = PlanOf(e).hash
              <=> /\ PartsIn("scheduled_pulse", d.pulses) = PartsIn("scheduled_pulse", e.pulses)
                  /\ PartsIn("grape_config", d.config) = PartsIn("grape_config", e.config)
         /\ ChangedBranch(PlanOf(d), PlanOf(e), path) =
              Places(Append(path, Named("pulse_sequence")),
                     PartsIn("scheduled_pulse", d.pulses), PartsIn("scheduled_pulse", e.pulses))
              \cup Places(Append(path, Named("config")),
                          PartsIn("grape_config", d.config), PartsIn("grape_config", e.config))
<1> DEFINE P == PartsIn("scheduled_pulse", d.pulses)
           Q == PartsIn("scheduled_pulse", e.pulses)
           R == PartsIn("grape_config", d.config)
           S == PartsIn("grape_config", e.config)
           kp == Named("pulse_sequence")
           kc == Named("config")
           a == PlanOf(d)
           b == PlanOf(e)
<1>1. (PulsesOf(d).hash = PulsesOf(e).hash <=> P = Q)
      /\ PulsesOf(d).children = Leaves("scheduled_pulse", d.pulses)
      /\ PulsesOf(e).children = Leaves("scheduled_pulse", e.pulses)
  BY ExperimentTyped, SectionFacts DEF PulsesOf
<1>2. (ConfigOf(d).hash = ConfigOf(e).hash <=> R = S)
      /\ ConfigOf(d).children = Leaves("grape_config", d.config)
      /\ ConfigOf(e).children = Leaves("grape_config", e.config)
  BY ExperimentTyped, SectionFacts DEF ConfigOf
<1>3. /\ ChangedSection(PulsesOf(d), PulsesOf(e), Append(path, kp)) = Places(Append(path, kp), P, Q)
      /\ ChangedSection(ConfigOf(d), ConfigOf(e), Append(path, kc)) = Places(Append(path, kc), R, S)
  BY <1>1, <1>2, ExperimentTyped, ListsChange
<1>4. a.hash = b.hash <=> PulsesOf(d).hash = PulsesOf(e).hash /\ ConfigOf(d).hash = ConfigOf(e).hash
  <2> DEFINE f == HashesOf(<<PulsesOf(d), ConfigOf(d)>>)
             g == HashesOf(<<PulsesOf(e), ConfigOf(e)>>)
  <2>1. /\ Different(f) /\ Range(f) = {PulsesOf(d).hash, ConfigOf(d).hash}
        /\ a.hash = HashInternal("experiment", f)
        /\ PulsesOf(d).hash.type = "pulse_sequence" /\ ConfigOf(d).hash.type = "config"
    BY PlanFacts
  <2>2. /\ Different(g) /\ Range(g) = {PulsesOf(e).hash, ConfigOf(e).hash}
        /\ b.hash = HashInternal("experiment", g)
        /\ PulsesOf(e).hash.type = "pulse_sequence" /\ ConfigOf(e).hash.type = "config"
    BY PlanFacts
  <2> HIDE DEF f, g, a, b
  <2>3. a.hash = b.hash <=> Range(f) = Range(g)
    BY <2>1, <2>2, BagsAreSets
  <2>4. {PulsesOf(d).hash, ConfigOf(d).hash} = {PulsesOf(e).hash, ConfigOf(e).hash}
          => PulsesOf(d).hash = PulsesOf(e).hash /\ ConfigOf(d).hash = ConfigOf(e).hash
    BY <2>1, <2>2
  <2> QED
    BY <2>1, <2>2, <2>3, <2>4
<1>5. /\ Keys(a) = {kp, kc} /\ Keys(b) = {kp, kc} /\ ~IsLeaf(a)
      /\ ChildAt(a, kp) = PulsesOf(d) /\ ChildAt(a, kc) = ConfigOf(d)
      /\ ChildAt(b, kp) = PulsesOf(e) /\ ChildAt(b, kc) = ConfigOf(e)
  BY PlanFacts
<1> DEFINE BySection(key) == IF key \in Keys(a) \cap Keys(b)
                             THEN ChangedSection(ChildAt(a, key), ChildAt(b, key), Append(path, key))
                             ELSE {Append(path, key)}
<1>6. ChangedBranch(a, b, path) =
        IF a.hash = b.hash THEN {} ELSE IF IsLeaf(a) /\ IsLeaf(b) THEN {path}
        ELSE UNION {BySection(key) : key \in Keys(a) \cup Keys(b)}
  BY LevelsUnfold
<1> HIDE DEF P, Q, R, S, a, b, kp, kc
<1>7. BySection(kp) = Places(Append(path, kp), P, Q) /\ BySection(kc) = Places(Append(path, kc), R, S)
  BY <1>3, <1>5
<1> HIDE DEF BySection
<1>8. UNION {BySection(key) : key \in Keys(a) \cup Keys(b)} = BySection(kp) \cup BySection(kc)
  BY <1>5
<1>9. a.hash = b.hash => Places(Append(path, kp), P, Q) = {} /\ Places(Append(path, kc), R, S) = {}
  BY <1>1, <1>2, <1>4 DEF Places, Apart
<1>10. ChangedBranch(a, b, path) = Places(Append(path, kp), P, Q) \cup Places(Append(path, kc), R, S)
  BY <1>5, <1>6, <1>7, <1>8, <1>9
<1>11. a.hash = b.hash <=> P = Q /\ R = S
  BY <1>1, <1>2, <1>4
<1> QED
  BY <1>10, <1>11 DEF P, Q, R, S, a, b, kp, kc

CalibrationParts(e) == PartsIn("qubit_calibration", e.qubits)
PulseParts(e) == PartsIn("scheduled_pulse", e.pulses)
ConfigParts(e) == PartsIn("grape_config", e.config)
EventParts(e) == PartsIn("drift_event", e.events)
ChildrenOf(e) == <<CalibrationOf(e), PlanOf(e)>> \o Leaves("drift_event", e.events)

LEMMA CalibrationFacts ==
  ASSUME NEW d \in Experiment, NEW e \in Experiment, LabelsUnique(d), LabelsUnique(e), NEW path
  PROVE  /\ CalibrationOf(d).hash.type = "calibration" /\ Key(CalibrationOf(d)) = Named("calibration")
         /\ CalibrationOf(d).hash = CalibrationOf(e).hash <=> CalibrationParts(d) = CalibrationParts(e)
         /\ ChangedBranch(CalibrationOf(d), CalibrationOf(e), path) =
              Places(path, CalibrationParts(d), CalibrationParts(e))
<1> DEFINE a == CalibrationOf(d)
           b == CalibrationOf(e)
<1>1. /\ a.hash = b.hash <=> CalibrationParts(d) = CalibrationParts(e)
      /\ a.children = Leaves("qubit_calibration", d.qubits) /\ a.hash.type = "calibration"
      /\ Key(a) = Named("calibration")
  BY ExperimentTyped, InternalFacts DEF CalibrationOf, CalibrationParts, Named
<1>2. b.children = Leaves("qubit_calibration", e.qubits)
  BY InternalShape DEF CalibrationOf
<1> HIDE DEF a, b
<1>3. /\ d.qubits \in Seq(Part) /\ e.qubits \in Seq(Part) /\ Unique(d.qubits) /\ Unique(e.qubits)
  BY ExperimentTyped
<1>4. ChangedBranch(a, b, path) = Places(path, CalibrationParts(d), CalibrationParts(e))
  BY <1>1, <1>2, <1>3, ListsChange DEF CalibrationParts
<1> QED
  BY <1>1, <1>4 DEF a, b

\* The children of the root: the calibration, the plan and the events.
LEMMA RootFacts ==
  ASSUME NEW e \in Experiment, LabelsUnique(e), NEW v, v.children = Leaves("drift_event", e.events)
  PROVE  /\ Build(e).children = ChildrenOf(e) /\ Build(e).hash = HashInternal("root", HashesOf(ChildrenOf(e)))
         /\ Different(HashesOf(ChildrenOf(e)))
         /\ Range(HashesOf(ChildrenOf(e))) =
              {CalibrationOf(e).hash, PlanOf(e).hash} \cup {HashLeaf(p[1], p[2], p[3]) : p \in EventParts(e)}
         /\ ~IsLeaf(Build(e))
         /\ Keys(Build(e)) = {Named("calibration"), Named("experiment")} \cup Keys(v)
         /\ ChildAt(Build(e), Named("calibration")) = CalibrationOf(e)
         /\ ChildAt(Build(e), Named("experiment")) = PlanOf(e)
         /\ \A key \in Keys(v) : /\ ChildAt(Build(e), key) = ChildAt(v, key)
                                 /\ key.type = "drift_event" /\ IsLeaf(ChildAt(v, key))
<1> DEFINE L == Leaves("drift_event", e.events)
           c == ChildrenOf(e)
           x == CalibrationOf(e)
           y == PlanOf(e)
           r == Build(e)
           m == Len(e.events)
           n == m + 2
<1>1. r.children = c /\ r.hash = HashInternal("root", HashesOf(c))
  <2>1. r = Internal("root", "", c)
    BY BuiltOf DEF ChildrenOf
  <2> HIDE DEF r, c
  <2> QED
    BY <2>1 DEF Internal, HashesOf
<1>2. e.events \in Seq(Part) /\ Unique(e.events)
  BY ExperimentTyped
<1>3. /\ m \in Nat /\ DOMAIN e.events = 1..m /\ Len(L) = m /\ L \in Seq(Range(L)) /\ DOMAIN L = 1..m
      /\ \A k \in 1..m : /\ L[k] = Leaf("drift_event", e.events[k].label, e.events[k].content)
                         /\ L[k].hash = HashLeaf("drift_event", e.events[k].label, e.events[k].content)
                         /\ Key(L[k]) = [type |-> "drift_event", label |-> e.events[k].label]
      /\ Range(HashesOf(L)) = {HashLeaf(p[1], p[2], p[3]) : p \in EventParts(e)}
  BY <1>2, LeavesFacts DEF EventParts
<1>4. x.hash.type = "calibration" /\ Key(x) = Named("calibration")
  BY CalibrationFacts
<1>5. y.hash.type = "experiment" /\ Key(y) = Named("experiment")
  BY PlanFacts
<1> HIDE DEF x, y, L, m, r
<1>6. c \in Seq({x, y} \cup Range(L)) /\ Len(c) = n /\ c[1] = x /\ c[2] = y /\ \A k \in 1..m : c[k + 2] = L[k]
  <2> DEFINE S == {x, y} \cup Range(L)
             two == <<x, y>>
  <2>1. two \in Seq(S) /\ L \in Seq(S) /\ Len(two) = 2 /\ two[1] = x /\ two[2] = y
    BY <1>3
  <2>2. c = two \o L
    BY DEF ChildrenOf, x, y, L
  <2> HIDE DEF two, S, c
  <2>3. c \in Seq(S) /\ Len(c) = 2 + m
    <3>1. \A A : \A p, q \in Seq(A) : p \o q \in Seq(A) /\ Len(p \o q) = Len(p) + Len(q)
      BY ConcatProperties
    <3>2. two \o L \in Seq(S) /\ Len(two \o L) = Len(two) + Len(L)
      BY <2>1, <3>1
    <3> QED
      BY <1>3, <2>1, <2>2, <3>2
  <2>4. \A i \in 1..(2 + m) : c[i] = IF i <= 2 THEN two[i] ELSE L[i - 2]
    <3>1. \A i \in 1..(Len(two) + Len(L)) : (two \o L)[i] = IF i <= Len(two) THEN two[i] ELSE L[i - Len(two)]
      BY <2>1, ConcatProperties
    <3>2. c = two \o L /\ Len(two) = 2 /\ Len(L) = m
      BY <1>3, <2>1, <2>2
    <3> QED
      BY <3>1, <3>2
  <2>5. c[1] = x /\ c[2] = y
    <3>1. 1 \in 1..(2 + m) /\ 2 \in 1..(2 + m) /\ 1 <= 2 /\ 2 <= 2
      BY <1>3
    <3> QED
      BY <2>1, <2>4, <3>1
  <2>6. ASSUME NEW k \in 1..m PROVE c[k + 2] = L[k]
    <3>1. k + 2 \in 1..(2 + m) /\ ~(k + 2 <= 2) /\ (k + 2) - 2 = k
      BY <1>3
    <3> QED
      BY <2>4, <3>1
  <2>7. 2 + m = m + 2
    BY <1>3
  <2> QED
    BY <2>3, <2>5, <2>6, <2>7 DEF S
<1> HIDE DEF c
<1>7. /\ n \in Nat /\ DOMAIN c = 1..n /\ 1 \in 1..n /\ 2 \in 1..n
      /\ \A j \in 1..n : j = 1 \/ j = 2 \/ (j - 2 \in 1..m /\ (j - 2) + 2 = j /\ c[j] = L[j - 2])
      /\ \A k \in 1..m : k + 2 \in 1..n
  BY <1>3, <1>6
<1>8. ASSUME NEW j \in 1..n, NEW k \in 1..n, Key(c[j]) = Key(c[k]) PROVE j = k
  <2>1. \A i \in 1..m : Key(L[i]).type = "drift_event" /\ Key(L[i]).label = e.events[i].label
    BY <1>3
  <2>2. Key(c[1]).type = "calibration" /\ Key(c[2]).type = "experiment"
    BY <1>4, <1>5, <1>6 DEF Named
  <2>3. \A i, h \in 1..m : e.events[i].label = e.events[h].label => i = h
    BY <1>2, <1>3 DEF Unique
  <2>4. CASE j \in {1, 2} \/ k \in {1, 2}
    BY <1>7, <1>8, <2>1, <2>2, <2>4
  <2>5. CASE j \notin {1, 2} /\ k \notin {1, 2}
    <3>1. j - 2 \in 1..m /\ c[j] = L[j - 2] /\ k - 2 \in 1..m /\ c[k] = L[k - 2]
      BY <1>7, <2>5
    <3>2. j - 2 = k - 2
      BY <1>8, <2>1, <2>3, <3>1
    <3> QED
      BY <3>2
  <2> QED
    BY <2>4, <2>5
<1> HIDE DEF n
<1>9. ASSUME NEW k \in 1..n PROVE ChildAt(r, Key(c[k])) = c[k] /\ Key(c[k]) \in Keys(r)
  <2>1. DOMAIN r.children = 1..n /\ \A j \in 1..n : Key(r.children[j]) = Key(r.children[k]) => j = k
    BY <1>1, <1>7, <1>8
  <2> QED
    BY <1>1, <1>7, <2>1, OnlyChild
<1>10. /\ Keys(v) = {KeyOf(p) : p \in EventParts(e)}
       /\ \A p \in EventParts(e) : ChildAt(v, KeyOf(p)) = Leaf(p[1], p[2], p[3])
       /\ \A k \in 1..m : /\ Key(L[k]) \in Keys(v) /\ ChildAt(v, Key(L[k])) = L[k]
       /\ \A key \in Keys(v) : \E k \in 1..m : key = Key(L[k])
  <2>1. /\ Keys(v) = {KeyOf(p) : p \in EventParts(e)}
        /\ \A p \in EventParts(e) : ChildAt(v, KeyOf(p)) = Leaf(p[1], p[2], p[3])
    BY <1>2, PartChild DEF EventParts
  <2>2. DOMAIN v.children = 1..m /\ v.children = L
    BY <1>3 DEF L
  <2>3. \A j, k \in 1..m : Key(L[j]) = Key(L[k]) => j = k
    <3> TAKE j, k \in 1..m
    <3>1. j + 2 \in 1..n /\ k + 2 \in 1..n /\ c[j + 2] = L[j] /\ c[k + 2] = L[k]
      BY <1>6, <1>7
    <3>2. Key(L[j]) = Key(L[k]) => j + 2 = k + 2
      BY <1>8, <3>1
    <3> QED
      BY <3>2
  <2>4. ASSUME NEW k \in 1..m PROVE ChildAt(v, Key(L[k])) = L[k] /\ Key(L[k]) \in Keys(v)
    <3>1. \A j \in 1..m : Key(v.children[j]) = Key(v.children[k]) => j = k
      BY <2>2, <2>3
    <3>2. m \in Nat
      BY <1>3
    <3>3. ChildAt(v, Key(v.children[k])) = v.children[k] /\ Key(v.children[k]) \in Keys(v)
      BY <2>2, <3>1, <3>2, OnlyChild
    <3> QED
      BY <2>2, <3>3
  <2>5. \A key \in Keys(v) : \E k \in 1..m : key = Key(L[k])
    BY <2>2 DEF Keys
  <2> QED
    BY <2>1, <2>4, <2>5
<1>11. Keys(r) = {Named("calibration"), Named("experiment")} \cup Keys(v)
  <2>1. Keys(r) = {Key(c[k]) : k \in 1..n}
    BY <1>1, <1>7 DEF Keys
  <2>2. \A k \in 1..n : Key(c[k]) \in {Named("calibration"), Named("experiment")} \cup Keys(v)
    BY <1>4, <1>5, <1>6, <1>7, <1>10
  <2>3. Named("calibration") \in Keys(r) /\ Named("experiment") \in Keys(r)
    BY <1>4, <1>5, <1>6, <1>7, <1>9
  <2>4. \A key \in Keys(v) : key \in Keys(r)
    <3> TAKE key \in Keys(v)
    <3>1. PICK k \in 1..m : key = Key(L[k])
      BY <1>10
    <3>2. k + 2 \in 1..n /\ c[k + 2] = L[k]
      BY <1>6, <1>7
    <3> QED
      BY <1>9, <3>1, <3>2
  <2> QED
    BY <2>1, <2>2, <2>3, <2>4
<1>12. ChildAt(r, Named("calibration")) = x /\ ChildAt(r, Named("experiment")) = y
  BY <1>4, <1>5, <1>6, <1>7, <1>9
<1>13. ASSUME NEW key \in Keys(v)
       PROVE  ChildAt(r, key) = ChildAt(v, key) /\ key.type = "drift_event" /\ IsLeaf(ChildAt(v, key))
  <2>1. PICK k \in 1..m : key = Key(L[k])
    BY <1>10
  <2>2. k + 2 \in 1..n /\ c[k + 2] = L[k]
    BY <1>6, <1>7
  <2>3. ChildAt(r, key) = L[k] /\ ChildAt(v, key) = L[k]
    BY <1>9, <1>10, <2>1, <2>2
  <2>4. key.type = "drift_event"
    BY <1>3, <2>1
  <2>5. L[k].children = <<>>
    BY <1>3 DEF Leaf
  <2> QED
    BY <2>3, <2>4, <2>5 DEF IsLeaf
<1> DEFINE h == HashesOf(c)
<1>14. DOMAIN h = 1..n /\ h[1] = x.hash /\ h[2] = y.hash /\ \A k \in 1..m : h[k + 2] = L[k].hash
  BY <1>6, <1>7 DEF HashesOf
<1>15. \A k \in 1..m : L[k].hash.type = "drift_event"
  <2>1. \A l, k : HashLeaf("drift_event", l, k).type = "drift_event"
    BY DEF HashLeaf
  <2> QED
    BY <1>3, <2>1
<1> HIDE DEF h
<1>16. Different(h)
  <2>1. \A i, k \in 1..m : L[i].hash = L[k].hash => i = k
    <3> TAKE i, k \in 1..m
    <3>1. L[i].hash = L[k].hash => e.events[i].label = e.events[k].label
      BY <1>3, LeafHashes
    <3> QED
      BY <1>2, <1>3, <3>1 DEF Unique
  <2>2. ASSUME NEW j \in 1..n, NEW k \in 1..n, h[j] = h[k] PROVE j = k
    <3>1. CASE j \in {1, 2} /\ k \in {1, 2}
      BY <1>4, <1>5, <1>14, <2>2, <3>1
    <3>2. CASE j \in {1, 2} /\ k \notin {1, 2}
      <4>1. k - 2 \in 1..m /\ (k - 2) + 2 = k
        BY <1>7, <3>2
      <4>2. h[k].type = "drift_event"
        BY <1>14, <1>15, <4>1
      <4> QED
        BY <1>4, <1>5, <1>14, <2>2, <3>2, <4>2
    <3>3. CASE j \notin {1, 2} /\ k \in {1, 2}
      <4>1. j - 2 \in 1..m /\ (j - 2) + 2 = j
        BY <1>7, <3>3
      <4>2. h[j].type = "drift_event"
        BY <1>14, <1>15, <4>1
      <4> QED
        BY <1>4, <1>5, <1>14, <2>2, <3>3, <4>2
    <3>4. CASE j \notin {1, 2} /\ k \notin {1, 2}
      <4>1. j - 2 \in 1..m /\ (j - 2) + 2 = j /\ k - 2 \in 1..m /\ (k - 2) + 2 = k
        BY <1>7, <3>4
      <4>2. h[j] = L[j - 2].hash /\ h[k] = L[k - 2].hash
        BY <1>14, <4>1
      <4>3. j - 2 = k - 2
        BY <2>1, <2>2, <4>1, <4>2
      <4> QED
        BY <4>3
    <3> QED
      BY <3>1, <3>2, <3>3, <3>4
  <2> QED
    BY <1>14, <2>2 DEF Different
<1>17. Range(h) = {x.hash, y.hash} \cup Range(HashesOf(L))
  <2>1. Range(HashesOf(L)) = {L[k].hash : k \in 1..m}
    BY <1>3 DEF Range, HashesOf
  <2>2. ASSUME NEW k \in 1..n PROVE h[k] \in {x.hash, y.hash} \cup {L[i].hash : i \in 1..m}
    <3>1. CASE k \in {1, 2}
      BY <1>14, <3>1
    <3>2. CASE k \notin {1, 2}
      <4>1. k - 2 \in 1..m /\ (k - 2) + 2 = k
        BY <1>7, <3>2
      <4> QED
        BY <1>14, <4>1
    <3> QED
      BY <3>1, <3>2
  <2>3. ASSUME NEW k \in 1..m PROVE L[k].hash \in Range(h)
    BY <1>7, <1>14 DEF Range
  <2>4. x.hash \in Range(h) /\ y.hash \in Range(h)
    BY <1>7, <1>14 DEF Range
  <2>5. Range(h) = {h[k] : k \in 1..n}
    BY <1>14 DEF Range
  <2> QED
    BY <2>1, <2>2, <2>3, <2>4, <2>5
<1>18. ~IsLeaf(r)
  BY <1>1, <1>7 DEF IsLeaf
<1> QED
  BY <1>1, <1>3, <1>11, <1>12, <1>13, <1>16, <1>17, <1>18 DEF r, c, x, y, h

\* Where two trees differ: in the calibration, in one of the plan's sections, or in an event.
PlacesOf(d, e) ==
  Places(Append(<<>>, Named("calibration")), CalibrationParts(d), CalibrationParts(e))
    \cup Places(Append(Append(<<>>, Named("experiment")), Named("pulse_sequence")), PulseParts(d), PulseParts(e))
    \cup Places(Append(Append(<<>>, Named("experiment")), Named("config")), ConfigParts(d), ConfigParts(e))
    \cup Places(<<>>, EventParts(d), EventParts(e))

SameParts(d, e) ==
  /\ CalibrationParts(d) = CalibrationParts(e) /\ PulseParts(d) = PulseParts(e)
  /\ ConfigParts(d) = ConfigParts(e) /\ EventParts(d) = EventParts(e)

\* Two trees have one hash if and only if their experiments have the same parts.
LEMMA RootsHash ==
  ASSUME NEW d \in Experiment, NEW e \in Experiment, LabelsUnique(d), LabelsUnique(e)
  PROVE  Build(d).hash = Build(e).hash <=> SameParts(d, e)
<1> DEFINE V(x) == [children |-> Leaves("drift_event", x.events)]
           H(x) == {HashLeaf(p[1], p[2], p[3]) : p \in EventParts(x)}
           f == HashesOf(ChildrenOf(d))
           g == HashesOf(ChildrenOf(e))
           cd == CalibrationOf(d).hash
           ce == CalibrationOf(e).hash
           pd == PlanOf(d).hash
           pe == PlanOf(e).hash
<1>1. /\ V(d).children = Leaves("drift_event", d.events) /\ V(e).children = Leaves("drift_event", e.events)
  OBVIOUS
<1> HIDE DEF V
<1>2. /\ Build(d).hash = HashInternal("root", f) /\ Different(f) /\ Range(f) = {cd, pd} \cup H(d)
  BY <1>1, RootFacts
<1>3. /\ Build(e).hash = HashInternal("root", g) /\ Different(g) /\ Range(g) = {ce, pe} \cup H(e)
  BY <1>1, RootFacts
<1>4. /\ cd.type = "calibration" /\ ce.type = "calibration" /\ (cd = ce <=> CalibrationParts(d) = CalibrationParts(e))
  BY CalibrationFacts
<1>5. /\ pd.type = "experiment" /\ pe.type = "experiment"
      /\ (pd = pe <=> PulseParts(d) = PulseParts(e) /\ ConfigParts(d) = ConfigParts(e))
  BY PlanFacts, PlansChange DEF PulseParts, ConfigParts
<1>6. \A x \in {d, e} : \A h \in H(x) : h.type = "drift_event"
  <2>1. \A x : \A p \in EventParts(x) : p[1] = "drift_event"
    BY DEF EventParts, PartsIn
  <2>2. \A t, l, c : HashLeaf(t, l, c).type = t
    BY DEF HashLeaf
  <2> QED
    BY <2>1, <2>2
<1>7. H(d) = H(e) <=> EventParts(d) = EventParts(e)
  <2>1. \A x : \A p \in EventParts(x) : p = <<p[1], p[2], p[3]>>
    BY DEF EventParts, PartsIn
  <2>2. ASSUME NEW x \in {d, e}, NEW y \in {d, e}, H(x) = H(y), NEW p \in EventParts(x) PROVE p \in EventParts(y)
    <3>1. HashLeaf(p[1], p[2], p[3]) \in H(y)
      BY <2>2
    <3>2. PICK q \in EventParts(y) : HashLeaf(p[1], p[2], p[3]) = HashLeaf(q[1], q[2], q[3])
      BY <3>1
    <3>3. p[1] = q[1] /\ p[2] = q[2] /\ p[3] = q[3]
      BY <3>2, LeafHashes
    <3>4. p = q
      BY <2>1, <3>3
    <3> QED
      BY <3>4
  <2>3. H(d) = H(e) => EventParts(d) \subseteq EventParts(e) /\ EventParts(e) \subseteq EventParts(d)
    <3> HIDE DEF H
    <3> QED
      BY <2>2
  <2> QED
    BY <2>3
<1>8. HashInternal("root", f) = HashInternal("root", g) <=> Range(f) = Range(g)
  BY <1>2, <1>3, BagsAreSets
<1> HIDE DEF f, g, H, cd, ce, pd, pe
<1>9. Range(f) = Range(g) => cd = ce /\ pd = pe /\ H(d) = H(e)
  <2> SUFFICES ASSUME {cd, pd} \cup H(d) = {ce, pe} \cup H(e) PROVE cd = ce /\ pd = pe /\ H(d) = H(e)
    BY <1>2, <1>3
  <2>1. cd = ce
    BY <1>4, <1>5, <1>6
  <2>2. pd = pe
    BY <1>4, <1>5, <1>6
  <2>3. \A h : h \in H(d) <=> h \in H(e)
    BY <1>4, <1>5, <1>6
  <2> QED
    BY <2>1, <2>2, <2>3
<1> QED
  BY <1>2, <1>3, <1>4, <1>5, <1>7, <1>8, <1>9 DEF SameParts

\* The difference names the places of the parts that differ.
LEMMA RootsChange ==
  ASSUME NEW d \in Experiment, NEW e \in Experiment, LabelsUnique(d), LabelsUnique(e)
  PROVE  Diff(Build(d), Build(e)) = PlacesOf(d, e)
<1> DEFINE v == [children |-> Leaves("drift_event", d.events)]
           w == [children |-> Leaves("drift_event", e.events)]
           a == Build(d)
           b == Build(e)
           kc == Named("calibration")
           kp == Named("experiment")
           ByBranch(key) == IF key \in Keys(a) \cap Keys(b)
                            THEN ChangedBranch(ChildAt(a, key), ChildAt(b, key), Append(<<>>, key))
                            ELSE {Append(<<>>, key)}
           Here(key) == IF key \in Keys(v) \cap Keys(w)
                        THEN IF ChildAt(v, key).hash = ChildAt(w, key).hash THEN {} ELSE {Append(<<>>, key)}
                        ELSE {Append(<<>>, key)}
<1>1. v.children = Leaves("drift_event", d.events) /\ w.children = Leaves("drift_event", e.events)
  OBVIOUS
<1> HIDE DEF v, w
<1>2. /\ ~IsLeaf(a) /\ Keys(a) = {kc, kp} \cup Keys(v)
      /\ ChildAt(a, kc) = CalibrationOf(d) /\ ChildAt(a, kp) = PlanOf(d)
      /\ \A key \in Keys(v) : /\ ChildAt(a, key) = ChildAt(v, key)
                              /\ key.type = "drift_event" /\ IsLeaf(ChildAt(v, key))
  BY <1>1, RootFacts
<1>3. /\ ~IsLeaf(b) /\ Keys(b) = {kc, kp} \cup Keys(w)
      /\ ChildAt(b, kc) = CalibrationOf(e) /\ ChildAt(b, kp) = PlanOf(e)
      /\ \A key \in Keys(w) : /\ ChildAt(b, key) = ChildAt(w, key)
                              /\ key.type = "drift_event" /\ IsLeaf(ChildAt(w, key))
  BY <1>1, RootFacts
<1>4. kc.type # "drift_event" /\ kp.type # "drift_event"
  BY DEF Named
<1>5. Diff(a, b) = IF a.hash = b.hash THEN {} ELSE UNION {ByBranch(key) : key \in Keys(a) \cup Keys(b)}
  <2> DEFINE none == <<>>
             At(key) == IF key \in Keys(a) \cap Keys(b)
                        THEN ChangedBranch(ChildAt(a, key), ChildAt(b, key), Append(none, key))
                        ELSE {Append(none, key)}
  <2> HIDE DEF a, b, none
  <2>1. Changed(a, b, none) =
          IF a.hash = b.hash THEN {} ELSE IF IsLeaf(a) /\ IsLeaf(b) THEN {none}
          ELSE UNION {At(key) : key \in Keys(a) \cup Keys(b)}
    BY LevelsUnfold
  <2>2. \A key : At(key) = ByBranch(key)
    BY DEF none
  <2> HIDE DEF At, ByBranch
  <2>3. {At(key) : key \in Keys(a) \cup Keys(b)} = {ByBranch(key) : key \in Keys(a) \cup Keys(b)}
    BY <2>2
  <2>4. Changed(a, b, <<>>) =
          IF a.hash = b.hash THEN {} ELSE IF IsLeaf(a) /\ IsLeaf(b) THEN {<<>>}
          ELSE UNION {ByBranch(key) : key \in Keys(a) \cup Keys(b)}
    BY <2>1, <2>3 DEF none
  <2> QED
    BY <1>2, <2>4 DEF Diff
<1>6. LevelOf(v, w, <<>>) = Places(<<>>, EventParts(d), EventParts(e))
  <2>1. /\ d.events \in Seq(Part) /\ e.events \in Seq(Part) /\ Unique(d.events) /\ Unique(e.events)
    BY ExperimentTyped
  <2> QED
    BY <1>1, <2>1, PartsDiffer DEF EventParts
<1>7. LevelOf(v, w, <<>>) = UNION {Here(key) : key \in Keys(v) \cup Keys(w)}
  BY DEF LevelOf
<1>8. ByBranch(kc) = Places(Append(<<>>, kc), CalibrationParts(d), CalibrationParts(e))
  <2>1. ByBranch(kc) = ChangedBranch(CalibrationOf(d), CalibrationOf(e), Append(<<>>, kc))
    BY <1>2, <1>3
  <2> HIDE DEF ByBranch, kc
  <2> QED
    BY <2>1, CalibrationFacts
<1>9. ByBranch(kp) = Places(Append(Append(<<>>, kp), Named("pulse_sequence")), PulseParts(d), PulseParts(e))
                       \cup Places(Append(Append(<<>>, kp), Named("config")), ConfigParts(d), ConfigParts(e))
  <2>1. ByBranch(kp) = ChangedBranch(PlanOf(d), PlanOf(e), Append(<<>>, kp))
    BY <1>2, <1>3
  <2> HIDE DEF ByBranch, kp
  <2> QED
    BY <2>1, PlansChange DEF PulseParts, ConfigParts
<1> HIDE DEF a, b, kc, kp
<1>10. \A key \in Keys(v) \cup Keys(w) : ByBranch(key) = Here(key)
  <2> TAKE key \in Keys(v) \cup Keys(w)
  <2>1. key \notin {kc, kp}
    BY <1>2, <1>3, <1>4
  <2>2. key \in Keys(a) \cap Keys(b) <=> key \in Keys(v) \cap Keys(w)
    BY <1>2, <1>3, <2>1
  <2>3. CASE key \in Keys(v) \cap Keys(w)
    <3> DEFINE x == ChildAt(v, key)
               y == ChildAt(w, key)
               p == Append(<<>>, key)
    <3>1. ByBranch(key) = ChangedBranch(x, y, p) /\ IsLeaf(x) /\ IsLeaf(y)
      BY <1>2, <1>3, <2>2, <2>3
    <3>2. Here(key) = IF x.hash = y.hash THEN {} ELSE {p}
      BY <2>3
    <3> HIDE DEF x, y, p, ByBranch, Here
    <3>3. ChangedBranch(x, y, p) = IF x.hash = y.hash THEN {} ELSE {p}
      BY <3>1 DEF ChangedBranch, ChangedWith
    <3> QED
      BY <3>1, <3>2, <3>3
  <2>4. CASE key \notin Keys(v) \cap Keys(w)
    BY <2>2, <2>4
  <2> QED
    BY <2>3, <2>4
<1> HIDE DEF ByBranch, Here
<1>11. UNION {ByBranch(key) : key \in Keys(a) \cup Keys(b)} =
         ByBranch(kc) \cup ByBranch(kp) \cup UNION {Here(key) : key \in Keys(v) \cup Keys(w)}
  <2>1. Keys(a) \cup Keys(b) = {kc, kp} \cup (Keys(v) \cup Keys(w))
    BY <1>2, <1>3
  <2>2. UNION {ByBranch(key) : key \in Keys(v) \cup Keys(w)} = UNION {Here(key) : key \in Keys(v) \cup Keys(w)}
    BY <1>10
  <2>3. UNION {ByBranch(key) : key \in {kc, kp} \cup (Keys(v) \cup Keys(w))} =
          ByBranch(kc) \cup ByBranch(kp) \cup UNION {ByBranch(key) : key \in Keys(v) \cup Keys(w)}
    OBVIOUS
  <2> QED
    BY <2>1, <2>2, <2>3
<1>12. UNION {ByBranch(key) : key \in Keys(a) \cup Keys(b)} = PlacesOf(d, e)
  BY <1>6, <1>7, <1>8, <1>9, <1>11 DEF PlacesOf, kc, kp
<1>13. a.hash = b.hash => PlacesOf(d, e) = {}
  <2>1. a.hash = b.hash => SameParts(d, e)
    BY RootsHash DEF a, b
  <2> QED
    BY <2>1 DEF SameParts, PlacesOf, Places, Apart
<1> QED
  BY <1>5, <1>12, <1>13 DEF a, b

LastsIn(paths) == {Last(path) : path \in paths}
KeysOf(P) == {KeyOf(p) : p \in P}

\* A path's last key is the one it was extended by.
LEMMA LastOf == ASSUME NEW S, NEW path \in Seq(S), NEW key \in S PROVE Last(Append(path, key)) = key
BY AppendProperties DEF Last

LEMMA LastsOf ==
  ASSUME NEW S, NEW path \in Seq(S), NEW P, NEW Q, \A p \in P \cup Q : KeyOf(p) \in S
  PROVE  LastsIn(Places(path, P, Q)) = KeysOf(Apart(P, Q))
<1>1. \A p \in Apart(P, Q) : p \in P \cup Q
  BY DEF Apart
<1>2. \A p \in Apart(P, Q) : Last(Append(path, KeyOf(p))) = KeyOf(p)
  BY <1>1, LastOf
<1>3. LastsIn(Places(path, P, Q)) = {Last(Append(path, KeyOf(p))) : p \in Apart(P, Q)}
  BY DEF Places, LastsIn
<1> QED
  BY <1>2, <1>3 DEF LastsIn, KeysOf

\* Parts of different types are apart for themselves.
LEMMA ApartByType ==
  ASSUME NEW d, NEW e
  PROVE  /\ Apart(PartsOf(d), PartsOf(e)) =
              Apart(CalibrationParts(d), CalibrationParts(e)) \cup Apart(PulseParts(d), PulseParts(e))
                \cup Apart(ConfigParts(d), ConfigParts(e)) \cup Apart(EventParts(d), EventParts(e))
         /\ Apart(PartsOf(d), PartsOf(e)) = {} <=> SameParts(d, e)
<1>1. \A x : /\ \A p \in CalibrationParts(x) : p[1] = "qubit_calibration"
             /\ \A p \in PulseParts(x) : p[1] = "scheduled_pulse"
             /\ \A p \in ConfigParts(x) : p[1] = "grape_config"
             /\ \A p \in EventParts(x) : p[1] = "drift_event"
  BY DEF CalibrationParts, PulseParts, ConfigParts, EventParts, PartsIn
<1>2. \A x : PartsOf(x) = CalibrationParts(x) \cup PulseParts(x) \cup ConfigParts(x) \cup EventParts(x)
  BY DEF PartsOf, CalibrationParts, PulseParts, ConfigParts, EventParts
<1>3. \A p : p \in Apart(PartsOf(d), PartsOf(e)) <=>
               p \in Apart(CalibrationParts(d), CalibrationParts(e)) \cup Apart(PulseParts(d), PulseParts(e))
                       \cup Apart(ConfigParts(d), ConfigParts(e)) \cup Apart(EventParts(d), EventParts(e))
  BY <1>1, <1>2 DEF Apart
<1>4. \A P, Q : Apart(P, Q) = {} <=> P = Q
  BY DEF Apart
<1> QED
  BY <1>3, <1>4 DEF SameParts

\* The last keys of the difference are those of the parts that differ.
LEMMA DifferenceNames ==
  ASSUME NEW d \in Experiment, NEW e \in Experiment, LabelsUnique(d), LabelsUnique(e)
  PROVE  LastsIn(Diff(Build(d), Build(e))) = Differing(d, e)
<1> DEFINE S == {Named("calibration"), Named("experiment"), Named("pulse_sequence"), Named("config")}
                  \cup {KeyOf(p) : p \in PartsOf(d) \cup PartsOf(e)}
           none == <<>>
           c == Append(none, Named("calibration"))
           u == Append(Append(none, Named("experiment")), Named("pulse_sequence"))
           g == Append(Append(none, Named("experiment")), Named("config"))
           C == KeysOf(Apart(CalibrationParts(d), CalibrationParts(e)))
           U == KeysOf(Apart(PulseParts(d), PulseParts(e)))
           G == KeysOf(Apart(ConfigParts(d), ConfigParts(e)))
           V == KeysOf(Apart(EventParts(d), EventParts(e)))
<1>1. none \in Seq(S) /\ c \in Seq(S) /\ u \in Seq(S) /\ g \in Seq(S)
  <2>1. Named("calibration") \in S /\ Named("experiment") \in S /\ Named("pulse_sequence") \in S
          /\ Named("config") \in S /\ none \in Seq(S)
    OBVIOUS
  <2>2. \A path \in Seq(S), key \in S : Append(path, key) \in Seq(S)
    BY AppendProperties
  <2> HIDE DEF S, none
  <2> QED
    BY <2>1, <2>2
<1>2. /\ \A p \in CalibrationParts(d) \cup CalibrationParts(e) : KeyOf(p) \in S
      /\ \A p \in PulseParts(d) \cup PulseParts(e) : KeyOf(p) \in S
      /\ \A p \in ConfigParts(d) \cup ConfigParts(e) : KeyOf(p) \in S
      /\ \A p \in EventParts(d) \cup EventParts(e) : KeyOf(p) \in S
  BY DEF PartsOf, CalibrationParts, PulseParts, ConfigParts, EventParts
<1>3. Diff(Build(d), Build(e)) =
        Places(c, CalibrationParts(d), CalibrationParts(e)) \cup Places(u, PulseParts(d), PulseParts(e))
          \cup Places(g, ConfigParts(d), ConfigParts(e)) \cup Places(none, EventParts(d), EventParts(e))
  BY RootsChange DEF PlacesOf
<1>4. Differing(d, e) = C \cup U \cup G \cup V
  <2>1. Differing(d, e) = KeysOf(Apart(PartsOf(d), PartsOf(e)))
    BY DEF KeysOf, Differing, KeyOf, Apart
  <2> QED
    BY <2>1, ApartByType DEF KeysOf
<1> HIDE DEF S, c, u, g, none
<1>5. LastsIn(Places(c, CalibrationParts(d), CalibrationParts(e))) = C
  BY <1>1, <1>2, LastsOf
<1>6. LastsIn(Places(u, PulseParts(d), PulseParts(e))) = U
  BY <1>1, <1>2, LastsOf
<1>7. LastsIn(Places(g, ConfigParts(d), ConfigParts(e))) = G
  BY <1>1, <1>2, LastsOf
<1>8. LastsIn(Places(none, EventParts(d), EventParts(e))) = V
  BY <1>1, <1>2, LastsOf
<1>9. \A K, L, M, N : LastsIn(K \cup L \cup M \cup N) =
        LastsIn(K) \cup LastsIn(L) \cup LastsIn(M) \cup LastsIn(N)
  BY DEF LastsIn
<1> QED
  BY <1>3, <1>4, <1>5, <1>6, <1>7, <1>8, <1>9

\* Nothing differs exactly when the hashes are equal.
LEMMA HashTells ==
  ASSUME NEW d \in Experiment, NEW e \in Experiment, LabelsUnique(d), LabelsUnique(e)
  PROVE  Differing(d, e) = {} <=> Hash(d) = Hash(e)
<1>1. Differing(d, e) = {} <=> Apart(PartsOf(d), PartsOf(e)) = {}
  BY DEF Differing, Apart
<1> QED
  BY <1>1, ApartByType, RootsHash DEF Hash

\* Any two trees that any process keeps: their difference names the parts that differ and no
\* others, and is empty exactly when the trees have one hash - if the labels in each are unique
\* (tree.py 85-174).
THEOREM DifferencesExact == StoreSpec => []DiffExact
<1>1. StoreTypeOK => DiffExact
  <2> SUFFICES ASSUME StoreTypeOK, NEW p \in open, NEW j \in DOMAIN trees[p], NEW k \in DOMAIN trees[p],
                      LabelsUnique(trees[p][j]), LabelsUnique(trees[p][k])
               PROVE  /\ {path[Len(path)] : path \in Diff(Build(trees[p][j]), Build(trees[p][k]))}
                           = Differing(trees[p][j], trees[p][k])
                      /\ Differing(trees[p][j], trees[p][k]) = {} <=> Hash(trees[p][j]) = Hash(trees[p][k])
    BY DEF DiffExact
  <2> DEFINE d == trees[p][j]
             e == trees[p][k]
  <2>1. d \in Experiment /\ e \in Experiment
    <3>1. trees[p] \in Seq(Experiments)
      BY DEF StoreTypeOK
    <3>2. d \in Experiments /\ e \in Experiments
      BY <3>1
    <3> QED
      BY <3>2, StoreAssumption
  <2> HIDE DEF d, e
  <2>2. LabelsUnique(d) /\ LabelsUnique(e)
    BY DEF d, e
  <2>3. {path[Len(path)] : path \in Diff(Build(d), Build(e))} = Differing(d, e)
    BY <2>1, <2>2, DifferenceNames DEF Last, LastsIn
  <2>4. Differing(d, e) = {} <=> Hash(d) = Hash(e)
    BY <2>1, <2>2, HashTells
  <2> QED
    BY <2>3, <2>4 DEF d, e
<1> QED
  BY <1>1, StoreTypeCorrect, PTL

-----------------------------------------------------------------------------
(* CalibrationLoop: what the baseline is after a recalibration, and what a cycle   *)
(* that takes no action has looked at                                            *)

\* Between cycles nothing is waited for; a cycle that waits has no entry in the history yet.
Waiting ==
  /\ cyclePhase = "idle" => todo = <<>> /\ measured = <<>>
  /\ Len(history) + (IF cyclePhase = "idle" THEN 0 ELSE 1) <= cycles

\* The qubits are measured in the order of the list.
InTurn == \A k \in DOMAIN measured : measured[k].index = todo[k]

OfTheDevice == \A k \in DOMAIN baseline : baseline[k].index \in DeviceQubits

CalibrationInv == CalibrationTypeOK /\ Waiting /\ InTurn /\ OfTheDevice

\* The history has a recalibration at i and none later.
LastRecalibration(i) ==
  /\ history[i].type = "recalibrated"
  /\ \A k \in (i + 1)..Len(history) : history[k].type # "recalibrated"

\* The baseline is what the last recalibration measured.
BaselineIsLast ==
  \A i \in DOMAIN history : LastRecalibration(i) => Len(baseline) = Len(history[i].qubits)

\* With a baseline of some qubits alone, all are measured.
Forced == cyclePhase = "recalibrating" /\ Len(baseline) # NumQubits => todo = policy.all

PartialInv == CalibrationInv /\ BaselineIsLast /\ Forced /\ PartialForcesFull

\* A list of as many qubits as the device has lists them in their order.
IndexSorted(list) == Len(list) = NumQubits => \A k \in 1..NumQubits : list[k] = k - 1

\* all_qubits of the policy is in order if it is complete.  Nothing in the code asks for
\* it, but compare pairs the entries of two fingerprints by their place.
AllInOrder == \A p \in Policies : IndexSorted(p.all)

BaselineSorted == Len(baseline) = NumQubits => \A k \in 1..NumQubits : baseline[k].index = k - 1

OrderInv == CalibrationInv /\ IndexSorted(todo) /\ BaselineSorted

-----------------------------------------------------------------------------
(* Orders of finite sets                                                    *)

\* How many members of S are smaller than n.
Rank(S, n) == Cardinality({m \in S : m < n})

\* Every rank up to the size of a set of numbers belongs to one of them.
LEMMA RankExists ==
  ASSUME NEW S, S \subseteq Int, IsFiniteSet(S), NEW r \in 0..(Cardinality(S) - 1)
  PROVE  \E n \in S : Rank(S, n) = r
<1> DEFINE below(n) == {m \in S : m < n}
           N == Cardinality(S)
           rank == [n \in S |-> Rank(S, n)]
<1>1. N \in Nat
  BY FS_CardinalityType
<1>2. ASSUME NEW n \in S
      PROVE  IsFiniteSet(below(n)) /\ Rank(S, n) = Cardinality(below(n)) /\ Rank(S, n) \in 0..(N - 1)
  <2>1. IsFiniteSet(below(n)) /\ IsFiniteSet(S \ {n}) /\ Cardinality(S \ {n}) = N - 1
    BY FS_Subset, FS_RemoveElement
  <2>2. below(n) \subseteq S \ {n}
    BY <1>2
  <2>3. Cardinality(below(n)) <= N - 1
    BY <2>1, <2>2, FS_Subset
  <2>4. Cardinality(below(n)) \in Nat
    BY <2>1, FS_CardinalityType
  <2>. QED
    BY <1>1, <2>1, <2>3, <2>4 DEF Rank
<1>3. ASSUME NEW m \in S, NEW n \in S, m < n PROVE Rank(S, m) < Rank(S, n)
  <2>1. below(m) \cup {m} \subseteq below(n) /\ m \notin below(m)
    <3>1. m \in Int /\ n \in Int /\ \A o \in S : o \in Int
      OBVIOUS
    <3>2. ASSUME NEW o \in S, o < m PROVE o < n
      BY <1>3, <3>1, <3>2
    <3>3. below(m) \subseteq below(n) /\ m \in below(n)
      BY <1>3, <3>2
    <3>4. ~(m < m)
      BY <3>1
    <3>. QED
      BY <3>3, <3>4
  <2>2. IsFiniteSet(below(m) \cup {m}) /\ Cardinality(below(m) \cup {m}) = Cardinality(below(m)) + 1
    BY <1>2, <2>1, FS_AddElement
  <2>3. Cardinality(below(m) \cup {m}) <= Cardinality(below(n))
    BY <1>2, <2>1, FS_Subset
  <2> HIDE DEF below
  <2>. QED
    BY <1>1, <1>2, <2>2, <2>3
<1>4. rank \in Injection(S, 0..(N - 1))
  <2>1. rank \in [S -> 0..(N - 1)]
    BY <1>2
  <2>2. ASSUME NEW m \in S, NEW n \in S, rank[m] = rank[n] PROVE m = n
    <3>1. Rank(S, m) = Rank(S, n) /\ Rank(S, m) \in 0..(N - 1)
      BY <1>2, <2>2
    <3>2. ~(Rank(S, m) < Rank(S, n)) /\ ~(Rank(S, n) < Rank(S, m))
      BY <1>1, <3>1
    <3>3. ~(m < n) /\ ~(n < m)
      BY <1>3, <3>2
    <3>. QED
      BY <3>3
  <2>. QED
    BY <2>1, <2>2 DEF Injection, IsInjective
<1>5. IsFiniteSet(0..(N - 1)) /\ Cardinality(0..(N - 1)) = N
  BY <1>1, FS_Interval
<1>6. rank \in Surjection(S, 0..(N - 1))
  BY <1>4, <1>5, FS_Injection
<1>7. PICK n \in S : rank[n] = r
  BY <1>6 DEF Surjection
<1>. QED
  BY <1>7

\* A finite set of numbers has a largest one, and Max is it.
LEMMA MaxIs ==
  ASSUME NEW S, S \subseteq Int, IsFiniteSet(S), S # {}
  PROVE  Max(S) \in S /\ \A n \in S : n <= Max(S)
<1>1. Cardinality(S) \in Nat /\ Cardinality(S) # 0
  BY FS_CardinalityType, FS_EmptySet
<1> DEFINE top == Cardinality(S) - 1
<1>2. PICK x \in S : Rank(S, x) = top
  <2>1. top \in 0..top
    BY <1>1
  <2>. QED
    BY <2>1, RankExists
<1>3. ASSUME NEW n \in S, ~(n <= x) PROVE FALSE
  <2> DEFINE T == S \ {x}
             B == {m \in S : m < x}
  <2>1. B \subseteq T \ {n} /\ n \in T
    BY <1>3
  <2>2. IsFiniteSet(T) /\ Cardinality(T) = top
    BY FS_RemoveElement
  <2>3. IsFiniteSet(T \ {n}) /\ Cardinality(T \ {n}) = Cardinality(T) - 1
    <3> HIDE DEF T
    <3>. QED
      BY <2>1, <2>2, FS_RemoveElement
  <2>4. Cardinality(B) <= Cardinality(T \ {n})
    BY <2>1, <2>3, FS_Subset
  <2>5. Cardinality(B) = top
    BY <1>2 DEF Rank
  <2>6. top \in Int
    BY <1>1
  <2> HIDE DEF T, B, top
  <2>. QED
    BY <2>2, <2>3, <2>4, <2>5, <2>6
<1>4. \E y \in S : \A n \in S : y >= n
  BY <1>3
<1>. QED
  BY <1>4 DEF Max

\* Ascending is a list of the set's members, as long as the set.
LEMMA AscendingIs ==
  ASSUME NEW S, S \subseteq Int, IsFiniteSet(S)
  PROVE  Ascending(S) \in Seq(S) /\ Len(Ascending(S)) = Cardinality(S)
<1>1. Cardinality(S) \in Nat
  BY FS_CardinalityType
<1>2. ASSUME NEW k \in 1..Cardinality(S)
      PROVE  (CHOOSE n \in S : Cardinality({m \in S : m < n}) = k - 1) \in S
  <2>1. k - 1 \in 0..(Cardinality(S) - 1)
    BY <1>1
  <2>2. \E n \in S : Cardinality({m \in S : m < n}) = k - 1
    BY <2>1, RankExists DEF Rank
  <2>. QED
    BY <2>2
<1>3. Ascending(S) \in [1..Cardinality(S) -> S]
  BY <1>2 DEF Ascending
<1>. QED
  BY <1>1, <1>3

\* All qubits in ascending order.
LEMMA AscendingAll ==
  ASSUME NEW n \in Nat
  PROVE  Ascending(0..(n - 1)) = [k \in 1..n |-> k - 1]
<1> DEFINE S == 0..(n - 1)
<1>1. Cardinality(S) = n /\ IsFiniteSet(S)
  BY FS_Interval
<1>2. ASSUME NEW q \in S PROVE Cardinality({m \in S : m < q}) = q
  <2>1. {m \in S : m < q} = 0..(q - 1) /\ q \in Nat
    BY <1>2
  <2>2. Cardinality(0..(q - 1)) = IF 0 > q - 1 THEN 0 ELSE (q - 1) - 0 + 1
    BY <2>1, FS_Interval
  <2>3. Cardinality(0..(q - 1)) = q
    BY <2>1, <2>2
  <2>. QED
    BY ONLY <2>1, <2>3
<1> DEFINE kth(k) == CHOOSE q \in S : Cardinality({m \in S : m < q}) = k - 1
<1>3. ASSUME NEW k \in 1..n PROVE kth(k) = k - 1
  <2>1. k - 1 \in S
    OBVIOUS
  <2>2. \A q \in S : (Cardinality({m \in S : m < q}) = k - 1) <=> (q = k - 1)
    BY <1>2
  <2> HIDE DEF S
  <2>. QED
    BY <2>1, <2>2
<1>4. Ascending(S) = [k \in 1..n |-> kth(k)]
  BY <1>1 DEF Ascending
<1>. QED
  <2> HIDE DEF kth
  <2>. QED
    BY <1>3, <1>4

-----------------------------------------------------------------------------
(* Comparing with the baseline                                              *)

\* Fingerprints of the same number of qubits are compared throughout.
LEMMA ComparedThroughout ==
  ASSUME NEW old \in Fingerprint, NEW new \in Fingerprint, Len(old) = Len(new)
  PROVE  Compared(old, new) = 1..Len(old)
<1>1. Len(old) \in Nat /\ {Len(old), Len(new)} = {Len(old)}
  BY DEF Fingerprint
<1>2. Min({Len(old)}) = Len(old)
  BY <1>1 DEF Min
<1>. QED
  BY <1>1, <1>2 DEF Compared

\* What the comparison lists as drifted.
LEMMA DriftedAre ==
  ASSUME NEW old \in Fingerprint, NEW new \in Fingerprint
  PROVE  /\ Len(old) # Len(new) => Compare(old, new).drifted = <<>>
         /\ Len(old) = Len(new) =>
              Compare(old, new).drifted =
                [k \in 1..Len(old) |-> [index |-> old[k].index,
                                        drift |-> QubitDrift(old[k].reading, new[k].reading)]]
<1>1. CASE Len(old) # Len(new)
  BY <1>1 DEF Compare
<1>2. CASE Len(old) = Len(new)
  BY <1>2, ComparedThroughout DEF Compare, ComparePaired
<1>. QED
  BY <1>1, <1>2

\* The qubits found affected are the device's, each once, in their order.
LEMMA AffectedAre ==
  ASSUME NEW old \in Fingerprint, NEW new \in Fingerprint, \A k \in DOMAIN old : old[k].index \in DeviceQubits
  PROVE  /\ Affected(Compare(old, new)) \in Seq(DeviceQubits)
         /\ IndexSorted(Affected(Compare(old, new)))
         /\ Len(old) # Len(new) => Affected(Compare(old, new)) = <<>>
<1> DEFINE drifted == Compare(old, new).drifted
           affected == Affected(Compare(old, new))
<1>1. \E H \in SUBSET DOMAIN drifted : affected = Ascending({drifted[k].index : k \in H})
  BY DEF Affected
<1>2. PICK H \in SUBSET DOMAIN drifted : affected = Ascending({drifted[k].index : k \in H})
  BY <1>1
<1> DEFINE S == {drifted[k].index : k \in H}
<1>3. S \subseteq DeviceQubits /\ (Len(old) # Len(new) => S = {})
  <2>1. CASE Len(old) # Len(new)
    <3>1. drifted = <<>>
      BY <2>1, DriftedAre
    <3> HIDE DEF drifted
    <3>2. H = {}
      BY <3>1
    <3>. QED
      BY <3>2
  <2>2. CASE Len(old) = Len(new)
    <3>0. drifted = [k \in 1..Len(old) |-> [index |-> old[k].index,
                                          drift |-> QubitDrift(old[k].reading, new[k].reading)]]
      BY <2>2, DriftedAre
    <3> HIDE DEF drifted
    <3>1. DOMAIN drifted = DOMAIN old /\ \A k \in DOMAIN old : drifted[k].index = old[k].index
      BY <3>0 DEF Fingerprint
    <3>2. \A k \in H : drifted[k].index \in DeviceQubits
      BY <3>1
    <3>. QED
      BY <2>2, <3>2
  <2>. QED
    BY <2>1, <2>2
<1>4. IsFiniteSet(DeviceQubits) /\ Cardinality(DeviceQubits) = NumQubits /\ DeviceQubits \subseteq Int /\ NumQubits \in Nat
  BY LoopAssumption, FS_Interval DEF DeviceQubits
<1> HIDE DEF drifted, S, affected
<1>5. IsFiniteSet(S) /\ S \subseteq Int /\ Cardinality(S) \in Nat
  BY <1>3, <1>4, FS_Subset, FS_CardinalityType
<1>6. affected = Ascending(S)
  BY <1>2 DEF S, drifted
<1>7. affected \in Seq(S) /\ Len(affected) = Cardinality(S)
  BY <1>5, <1>6, AscendingIs
<1>8. affected \in Seq(DeviceQubits)
  BY <1>3, <1>7
<1>9. IndexSorted(affected)
  <2>1. SUFFICES ASSUME Len(affected) = NumQubits PROVE \A k \in 1..NumQubits : affected[k] = k - 1
    BY DEF IndexSorted
  <2>2. S = DeviceQubits
    BY <1>3, <1>4, <1>7, <2>1, FS_Subset
  <2>3. affected = [k \in 1..NumQubits |-> k - 1]
    BY <1>4, <1>6, <2>2, AscendingAll DEF DeviceQubits
  <2>. QED
    BY <2>3
<1>10. Len(old) # Len(new) => affected = <<>>
  <2>1. SUFFICES ASSUME S = {} PROVE affected = <<>>
    BY <1>3
  <2>2. Len(affected) = 0
    BY <1>7, <2>1, FS_EmptySet
  <2>. QED
    BY <1>7, <2>2
<1>. QED
  BY <1>8, <1>9, <1>10 DEF affected

\* A number of a finite list is at most the worst of the list.
LEMMA WorstIs ==
  ASSUME NEW n \in Nat, NEW f \in [1..n -> Int]
  PROVE  /\ Max({0} \cup {f[k] : k \in 1..n}) \in Int
         /\ \A k \in 1..n : f[k] <= Max({0} \cup {f[k2] : k2 \in 1..n})
<1> DEFINE S == {f[k] : k \in 1..n}
<1>1. IsFiniteSet(1..n)
  BY FS_Interval
<1>2. IsFiniteSet(S)
  <2>1. f \in Surjection(1..n, S)
    BY DEF Surjection
  <2>. QED
    BY <1>1, <2>1, FS_Surjection
<1>3. IsFiniteSet(S \cup {0})
  BY <1>2, FS_AddElement
<1>4. S \cup {0} = {0} \cup S /\ {0} \cup S # {} /\ {0} \cup S \subseteq Int
  OBVIOUS
<1>5. Max({0} \cup S) \in {0} \cup S /\ \A m \in {0} \cup S : m <= Max({0} \cup S)
  <2> HIDE DEF S
  <2>. QED
    BY <1>3, <1>4, MaxIs
<1>. QED
  BY <1>4, <1>5

\* The greater of two numbers.
LEMMA MaxOfTwo ==
  ASSUME NEW a \in Int, NEW b \in Int
  PROVE  Max({a, b}) \in Int /\ a <= Max({a, b}) /\ b <= Max({a, b})
<1>1. IsFiniteSet({a, b})
  <2>1. IsFiniteSet({a}) /\ {a, b} = {a} \cup {b}
    BY FS_Singleton
  <2>2. IsFiniteSet({a} \cup {b})
    BY <2>1, FS_AddElement
  <2>. QED
    BY ONLY <2>1, <2>2, Zenon
<1>. QED
  BY <1>1, MaxIs
\* What a comparison that asks for no recalibration says of each qubit of the lists.
Within(d) ==
  /\ d.frequency <= Threshold.frequency
  /\ d.t1 <= Threshold.t1 /\ d.t2 <= Threshold.t2
  /\ d.gate <= Threshold.fidelity /\ d.readout <= Threshold.fidelity

LEMMA DriftTyped ==
  ASSUME NEW old \in Reading, NEW new \in Reading
  PROVE  QubitDrift(old, new) \in [frequency : Int, t1 : Int, t2 : Int, gate : Int, readout : Int]
<1>1. \A x, y \in Int : AbsDiff(x, y) \in Int
  BY DEF AbsDiff
<1>2. ASSUME NEW x \in Nat, NEW y \in Nat PROVE PercentDrift(x, y) \in Int
  <2>1. 100 * AbsDiff(x, y) \in Int
    BY <1>1
  <2>2. \A z \in Int : x > 0 => z \div x \in Int
    OBVIOUS
  <2>. QED
    BY <2>1, <2>2 DEF PercentDrift
<1>3. ASSUME NEW r \in Reading
      PROVE  r.frequency \in Int /\ r.t1 \in Nat /\ r.t2 \in Nat /\ r.gate \in Int /\ r.readout \in Int
  <2>1. \A most \in Nat : 0..most \subseteq Int
    OBVIOUS
  <2>2. Fidelity \subseteq Int
    BY <2>1 DEF Fidelity
  <2>. QED
    BY <2>2 DEF Reading
<1>4. AbsDiff(old.frequency, new.frequency) \in Int
  BY <1>1, <1>3
<1>5. PercentDrift(old.t1, new.t1) \in Int /\ PercentDrift(old.t2, new.t2) \in Int
  BY <1>2, <1>3
<1>6. old.gate - new.gate \in Int /\ old.readout - new.readout \in Int
  BY <1>3
<1>. QED
  BY <1>4, <1>5, <1>6 DEF QubitDrift

LEMMA EntriesTyped ==
  ASSUME NEW print \in Fingerprint, NEW k \in DOMAIN print
  PROVE  print[k].index \in Nat /\ print[k].reading \in Reading
<1> DEFINE Entry == [index : Nat, reading : Reading]
<1>1. print \in Seq(Entry)
  BY DEF Fingerprint
<1>2. print[k] \in Entry
  <2> HIDE DEF Entry
  <2>. QED
    BY <1>1
<1>. QED
  BY <1>2

LEMMA NoneMissed ==
  ASSUME NEW old \in Fingerprint, NEW new \in Fingerprint, ~Compare(old, new).recalibrate
  PROVE  Len(old) = Len(new) /\ \A k \in 1..Len(old) : Within(QubitDrift(old[k].reading, new[k].reading))
<1>1. Len(old) = Len(new)
  BY DEF Compare
<1> DEFINE n == Len(old)
           drift == [k \in 1..n |-> QubitDrift(old[k].reading, new[k].reading)]
           worst(f) == Max({0} \cup {f[k] : k \in 1..n})
           frequency == [k \in 1..n |-> drift[k].frequency]
           t1 == [k \in 1..n |-> drift[k].t1]
           t2 == [k \in 1..n |-> drift[k].t2]
           fidelity == [k \in 1..n |-> Max({drift[k].gate, drift[k].readout})]
<1> HIDE DEF drift, worst, frequency, t1, t2, fidelity
<1>2. n \in Nat /\ Compared(old, new) = 1..n
  <2>1. Compared(old, new) = 1..n
    BY <1>1, ComparedThroughout
  <2>. QED
    BY <2>1 DEF Fingerprint
<1>3. \A k \in 1..n : drift[k] \in [frequency : Int, t1 : Int, t2 : Int, gate : Int, readout : Int]
  <2>1. ASSUME NEW k \in 1..n PROVE old[k].reading \in Reading /\ new[k].reading \in Reading
    <3>1. k \in DOMAIN old /\ k \in DOMAIN new
      BY <1>1 DEF Fingerprint
    <3>. QED
      BY <3>1, EntriesTyped
  <2>. QED
    BY <2>1, DriftTyped DEF drift
<1>4. /\ ~(worst(frequency) > Threshold.frequency) /\ ~(worst(t1) > Threshold.t1)
      /\ ~(worst(t2) > Threshold.t2) /\ ~(worst(fidelity) > Threshold.fidelity)
  <2>1. ~ComparePaired(old, new).recalibrate
    BY <1>1 DEF Compare
  <2>. QED
    BY <1>2, <2>1 DEF ComparePaired, drift, worst, frequency, t1, t2, fidelity
<1>5. /\ frequency \in [1..n -> Int] /\ t1 \in [1..n -> Int] /\ t2 \in [1..n -> Int]
      /\ fidelity \in [1..n -> Int]
      /\ \A k \in 1..n : drift[k].gate <= fidelity[k] /\ drift[k].readout <= fidelity[k]
  <2>1. \A k \in 1..n : /\ drift[k].frequency \in Int /\ drift[k].t1 \in Int /\ drift[k].t2 \in Int
                        /\ drift[k].gate \in Int /\ drift[k].readout \in Int
    BY <1>3
  <2>. QED
    BY <2>1, MaxOfTwo DEF frequency, t1, t2, fidelity
<1>6. ASSUME NEW f \in [1..n -> Int]
      PROVE  worst(f) \in Int /\ \A k \in 1..n : f[k] \in Int /\ f[k] <= worst(f)
  BY <1>2, WorstIs DEF worst
<1>7. \A k \in 1..n : Within(drift[k])
  <2> HIDE DEF n
  <2>1. TAKE k \in 1..n
  <2>2. /\ frequency[k] <= worst(frequency) /\ t1[k] <= worst(t1) /\ t2[k] <= worst(t2)
        /\ fidelity[k] <= worst(fidelity)
        /\ {frequency[k], t1[k], t2[k], fidelity[k]} \subseteq Int
        /\ {worst(frequency), worst(t1), worst(t2), worst(fidelity)} \subseteq Int
    BY <1>5, <1>6
  <2>3. drift[k].gate <= fidelity[k] /\ drift[k].readout <= fidelity[k]
    BY <1>5
  <2>4. drift[k].gate \in Int /\ drift[k].readout \in Int
    BY <1>3
  <2>5. drift[k].frequency = frequency[k] /\ drift[k].t1 = t1[k] /\ drift[k].t2 = t2[k]
    BY DEF frequency, t1, t2
  <2>. QED
    BY <1>4, <2>2, <2>3, <2>4, <2>5 DEF Within, Threshold
<1>. QED
  BY <1>1, <1>7 DEF drift
-----------------------------------------------------------------------------
(* What a cycle decides and records                                         *)

LEMMA DevicePrintIs ==
  ASSUME CalibrationTypeOK
  PROVE  /\ DevicePrint \in Fingerprint /\ Len(DevicePrint) = NumQubits
         /\ \A k \in 1..NumQubits : DevicePrint[k].reading = device[k - 1]
<1> DEFINE Entry == [index : Nat, reading : Reading]
<1>1. ASSUME NEW k \in 1..NumQubits
      PROVE  k - 1 \in Nat /\ k - 1 \in DeviceQubits
  BY LoopAssumption DEF DeviceQubits
<1>2. \A q \in DeviceQubits : device[q] \in Reading
  BY LoopAssumption DEF CalibrationTypeOK
<1>3. \A k \in 1..NumQubits : [index |-> k - 1, reading |-> device[k - 1]] \in Entry
  BY <1>1, <1>2
<1>4. NumQubits \in Nat
  BY LoopAssumption
<1>5. DevicePrint \in [1..NumQubits -> Entry]
  <2> HIDE DEF Entry
  <2>. QED
    BY <1>3 DEF DevicePrint
<1>6. DevicePrint \in Seq(Entry) /\ Len(DevicePrint) = NumQubits
  <2> HIDE DEF Entry
  <2>. QED
    BY <1>4, <1>5
<1>. QED
  BY <1>6 DEF DevicePrint, Fingerprint

\* The qubits a cycle decides to recalibrate.
LEMMA ChosenAre ==
  ASSUME CalibrationInv
  PROVE  /\ Chosen \in Seq(DeviceQubits)
         /\ Len(baseline) # NumQubits => Chosen = policy.all
         /\ AllInOrder => IndexSorted(Chosen)
<1>1. policy.all \in Seq(DeviceQubits) /\ (AllInOrder => IndexSorted(policy.all))
  BY LoopAssumption DEF CalibrationInv, CalibrationTypeOK, PolicyType, AllInOrder
<1>2. /\ Affected(Metrics) \in Seq(DeviceQubits) /\ IndexSorted(Affected(Metrics))
      /\ Len(baseline) # NumQubits => Affected(Metrics) = <<>>
  <2>1. baseline \in Fingerprint /\ \A k \in DOMAIN baseline : baseline[k].index \in DeviceQubits
    BY DEF CalibrationInv, CalibrationTypeOK, OfTheDevice
  <2>2. DevicePrint \in Fingerprint /\ Len(DevicePrint) = NumQubits
    BY DevicePrintIs DEF CalibrationInv
  <2>. QED
    BY <2>1, <2>2, AffectedAre DEF Metrics
<1>3. \/ Chosen = policy.all
      \/ Chosen = Affected(Metrics) /\ Affected(Metrics) # <<>>
  BY DEF Chosen, Decide
<1>. QED
  BY <1>1, <1>2, <1>3

\* The entry of an outcome goes to the end of the history.
LEMMA EnteredTyped ==
  ASSUME CalibrationTypeOK, NEW type \in {"measured", "drift_detected", "skipped", "recalibrated", "error"},
         NEW qubits \in Seq(DeviceQubits), NEW since \in 0..MaxTime, Record(type, qubits, since)
  PROVE  /\ history' \in Seq(ActionType)
         /\ Len(history') = Len(history) + 1
         /\ \A k \in DOMAIN history : history'[k] = history[k]
         /\ history'[Len(history) + 1].type = type /\ history'[Len(history) + 1].qubits = qubits
<1> DEFINE entry == [type |-> type, qubits |-> qubits, began |-> since, at |-> now]
<1>1. entry \in ActionType /\ entry.type = type /\ entry.qubits = qubits
  BY DEF CalibrationTypeOK, ActionType
<1>2. history' = Append(history, entry) /\ history \in Seq(ActionType)
  BY DEF Record, CalibrationTypeOK
<1> HIDE DEF entry
<1>. QED
  BY <1>1, <1>2
-----------------------------------------------------------------------------
(* Types                                                                    *)

LEMMA CalibrationInvInit == CalibrationInit => CalibrationInv
<1>1. SUFFICES ASSUME CalibrationInit PROVE CalibrationInv
  OBVIOUS
<1>2. /\ device \in [DeviceQubits -> Readings] /\ drifts = 0 /\ now = 0 /\ policy \in Policies
      /\ baseline = DevicePrint /\ cycles = 0 /\ lastRecal = LongAgo /\ history = <<>>
      /\ cyclePhase = "idle" /\ began = 0 /\ todo = <<>> /\ measured = <<>>
  BY <1>1, LoopAssumption DEF CalibrationInit
<1>3. \A k \in 1..NumQubits : [index |-> k - 1, reading |-> device[k - 1]].reading \in Reading
  <2>1. \A k \in 1..NumQubits : k - 1 \in DeviceQubits
    BY LoopAssumption DEF DeviceQubits
  <2>. QED
    BY <1>2, <2>1, LoopAssumption
<1>4. DevicePrint \in Fingerprint /\ DOMAIN DevicePrint = 1..NumQubits
  <2> DEFINE Entry == [index : Nat, reading : Reading]
  <2>1. \A k \in 1..NumQubits : [index |-> k - 1, reading |-> device[k - 1]] \in Entry
    <3>1. NumQubits \in Nat
      BY LoopAssumption
    <3>. QED
      BY <1>3, <3>1
  <2>2. DevicePrint \in [1..NumQubits -> Entry]
    <3> HIDE DEF Entry
    <3>. QED
      BY <2>1 DEF DevicePrint
  <2>3. NumQubits \in Nat
    BY LoopAssumption
  <2>4. DevicePrint \in Seq(Entry)
    <3> HIDE DEF Entry
    <3>. QED
      BY <2>2, <2>3
  <2>. QED
    BY <2>2, <2>4 DEF Fingerprint
<1>5. OfTheDevice
  <2>1. \A k \in 1..NumQubits : k - 1 \in DeviceQubits
    BY LoopAssumption DEF DeviceQubits
  <2>. QED
    BY <1>2, <1>4, <2>1 DEF OfTheDevice, DevicePrint
<1>6. CalibrationTypeOK
  <2>1. <<>> \in Fingerprint /\ <<>> \in Seq(ActionType) /\ <<>> \in Seq(DeviceQubits) /\ Len(<<>>) = 0
    BY DEF Fingerprint
  <2>. QED
    BY <1>2, <1>4, <2>1, LoopAssumption DEF CalibrationTypeOK
<1>7. Waiting /\ InTurn
  BY <1>2, LoopAssumption DEF Waiting, InTurn
<1>. QED
  BY <1>5, <1>6, <1>7 DEF CalibrationInv

LEMMA CycleTyped == ASSUME CalibrationInv, StartCycle PROVE CalibrationInv'
<1> USE LoopAssumption
<1>1. /\ CalibrationTypeOK /\ cyclePhase = "idle" /\ cycles' = cycles + 1 /\ cycles < MaxCycles
      /\ todo = <<>> /\ measured = <<>> /\ Len(history) <= cycles
      /\ UNCHANGED <<device, drifts, now, policy, baseline, lastRecal, measured>>
  BY DEF CalibrationInv, Waiting, CalibrationTypeOK, StartCycle
<1>2. /\ device \in [DeviceQubits -> Readings] /\ drifts \in 0..MaxDrifts /\ now \in 0..MaxTime
      /\ policy \in Policies /\ baseline \in Fingerprint /\ cycles \in 0..MaxCycles
      /\ lastRecal \in {LongAgo} \cup 0..now /\ history \in Seq(ActionType)
      /\ measured \in Fingerprint /\ began \in 0..MaxTime /\ Len(history) \in Nat
  BY <1>1 DEF CalibrationTypeOK
<1>3. ASSUME NEW type \in {"measured", "drift_detected", "skipped"}, Record(type, <<>>, now),
             UNCHANGED <<cyclePhase, began, todo>>
      PROVE  CalibrationInv'
  <2>1. <<>> \in Seq(DeviceQubits)
    OBVIOUS
  <2>2. history' \in Seq(ActionType) /\ Len(history') = Len(history) + 1
    BY <1>1, <1>2, <1>3, <2>1, EnteredTyped
  <2>3. CalibrationTypeOK'
    BY <1>1, <1>2, <1>3, <2>2 DEF CalibrationTypeOK, LongAgo
  <2>4. Waiting'
    BY <1>1, <1>2, <1>3, <2>2 DEF Waiting
  <2>. QED
    BY <1>1, <1>3, <2>3, <2>4 DEF CalibrationInv, InTurn, OfTheDevice
<1>4. ASSUME cyclePhase' = "recalibrating", began' = now, todo' = Chosen, UNCHANGED history
      PROVE  CalibrationInv'
  <2>1. todo' \in Seq(DeviceQubits) /\ Len(todo') \in Nat
    BY <1>4, ChosenAre
  <2>2. Len(measured) = 0 /\ DOMAIN measured = {}
    BY <1>1
  <2>3. CalibrationTypeOK'
    BY <1>1, <1>2, <1>4, <2>1, <2>2 DEF CalibrationTypeOK, LongAgo
  <2>4. Waiting'
    BY <1>1, <1>2, <1>4 DEF Waiting
  <2>. QED
    BY <1>1, <1>4, <2>2, <2>3, <2>4 DEF CalibrationInv, InTurn, OfTheDevice
<1>. QED
  BY <1>3, <1>4 DEF StartCycle

LEMMA MeasureTyped == ASSUME CalibrationInv, MeasureQubit PROVE CalibrationInv'
<1> USE LoopAssumption
<1> DEFINE Entry == [index : Nat, reading : Reading]
           q == todo[Len(measured) + 1]
<1>1. /\ CalibrationTypeOK /\ todo \in Seq(DeviceQubits) /\ measured \in Seq(Entry) /\ cyclePhase = "recalibrating"
      /\ Len(measured) < Len(todo)
  BY DEF CalibrationInv, CalibrationTypeOK, Fingerprint, MeasureQubit
<1>2. q \in DeviceQubits /\ q \in Nat
  BY <1>1 DEF DeviceQubits
<1>3. device[q] \in Reading
  BY <1>1, <1>2 DEF CalibrationTypeOK
<1>4. PICK t1 \in {0, device[q].t1}, t2 \in {0, device[q].t2} :
        measured' = Append(measured, Calibrated(q, t1, t2))
  BY DEF MeasureQubit
<1>5. Calibrated(q, t1, t2) \in Entry /\ Calibrated(q, t1, t2).index = q
  <2>1. t1 \in Nat /\ t2 \in Nat
    BY <1>3 DEF Reading
  <2>2. 9990 \in Fidelity /\ 9900 \in Fidelity
    BY DEF Fidelity
  <2>. QED
    BY <1>2, <2>1, <2>2 DEF Calibrated, Reading
<1>6. /\ measured' \in Seq(Entry) /\ Len(measured') = Len(measured) + 1
      /\ \A k \in DOMAIN measured : measured'[k] = measured[k]
      /\ measured'[Len(measured) + 1].index = q
      /\ DOMAIN measured' = DOMAIN measured \cup {Len(measured) + 1}
  <2> HIDE DEF Entry, q
  <2>. QED
    BY <1>1, <1>4, <1>5
<1>7. UNCHANGED <<device, drifts, now, policy, baseline, cycles, lastRecal, history, cyclePhase, began, todo>>
  BY DEF MeasureQubit
<1>8. CalibrationTypeOK'
  <2>1. measured' \in Fingerprint /\ Len(measured') <= Len(todo)
    BY <1>1, <1>6 DEF Fingerprint
  <2>. QED
    BY <1>1, <1>7, <2>1 DEF CalibrationTypeOK, LongAgo
<1>9. InTurn'
  BY <1>6, <1>7 DEF CalibrationInv, InTurn
<1>10. Waiting' /\ OfTheDevice'
  BY <1>1, <1>7 DEF CalibrationInv, Waiting, OfTheDevice
<1>. QED
  BY <1>8, <1>9, <1>10 DEF CalibrationInv
LEMMA EndTyped == ASSUME CalibrationInv, Recalibrated \/ Fails \/ Cancelled PROVE CalibrationInv'
<1> USE LoopAssumption
<1>1. /\ CalibrationTypeOK /\ cyclePhase = "recalibrating" /\ Idle
      /\ UNCHANGED <<device, drifts, now, policy, cycles>>
      /\ cycles \in 0..MaxCycles /\ now \in 0..MaxTime /\ history \in Seq(ActionType)
      /\ Len(history) \in Nat /\ Len(history) + 1 <= cycles
  BY DEF CalibrationInv, CalibrationTypeOK, Waiting, Recalibrated, Fails, Cancelled
<1>2. /\ baseline' \in {baseline, measured} /\ baseline' \in Fingerprint
      /\ lastRecal' \in {LongAgo} \cup 0..now
  BY <1>1 DEF CalibrationTypeOK, Recalibrated, Fails, Cancelled
<1>3. history' \in Seq(ActionType) /\ Len(history') <= Len(history) + 1 /\ Len(history') \in Nat
  <2>1. CASE Recalibrated
    <3>1. todo \in Seq(DeviceQubits) /\ began \in 0..MaxTime /\ Record("recalibrated", todo, began)
      BY <1>1, <2>1 DEF CalibrationTypeOK, Recalibrated
    <3>2. history' \in Seq(ActionType) /\ Len(history') = Len(history) + 1
      BY <1>1, <3>1, EnteredTyped
    <3>. QED
      BY <1>1, <3>2
  <2>2. CASE Fails
    <3>1. <<>> \in Seq(DeviceQubits) /\ began \in 0..MaxTime /\ Record("error", <<>>, began)
      BY <1>1, <2>2 DEF CalibrationTypeOK, Fails
    <3>2. history' \in Seq(ActionType) /\ Len(history') = Len(history) + 1
      BY <1>1, <3>1, EnteredTyped
    <3>. QED
      BY <1>1, <3>2
  <2>3. CASE Cancelled
    BY <1>1, <2>3 DEF Cancelled
  <2>. QED
    BY <2>1, <2>2, <2>3
<1>4. OfTheDevice'
  <2>1. \A k \in DOMAIN baseline : baseline[k].index \in DeviceQubits
    BY DEF CalibrationInv, OfTheDevice
  <2>2. ASSUME NEW k \in DOMAIN measured PROVE measured[k].index \in DeviceQubits
    <3>1. measured[k].index = todo[k]
      BY DEF CalibrationInv, InTurn
    <3>2. k \in DOMAIN todo /\ todo \in Seq(DeviceQubits)
      <4>1. Len(measured) <= Len(todo) /\ todo \in Seq(DeviceQubits) /\ measured \in Seq([index : Nat, reading : Reading])
        BY <1>1 DEF CalibrationTypeOK, Fingerprint
      <4>2. DOMAIN measured = 1..Len(measured) /\ DOMAIN todo = 1..Len(todo)
            /\ Len(measured) \in Nat /\ Len(todo) \in Nat
        BY <4>1
      <4>. QED
        BY <4>1, <4>2
    <3>. QED
      BY <3>1, <3>2
  <2>. QED
    BY <1>2, <2>1, <2>2 DEF OfTheDevice
<1>5. CalibrationTypeOK'
  <2>1. <<>> \in Fingerprint /\ <<>> \in Seq(DeviceQubits) /\ Len(<<>>) = 0
    BY DEF Fingerprint
  <2>. QED
    BY <1>1, <1>2, <1>3, <2>1 DEF CalibrationTypeOK, Idle, LongAgo
<1>6. Waiting' /\ InTurn'
  BY <1>1, <1>3 DEF Idle, Waiting, InTurn
<1>. QED
  BY <1>4, <1>5, <1>6 DEF CalibrationInv

LEMMA LoopStays == ASSUME CalibrationInv, [CalibrationNext]_calibrationVars PROVE CalibrationInv'
<1>1. CASE Drift
  <2>1. device' \in [DeviceQubits -> Readings] /\ drifts' \in 0..MaxDrifts /\ UNCHANGED <<now, loopVars>>
    BY <1>1, LoopAssumption DEF CalibrationInv, CalibrationTypeOK, Drift
  <2>. QED
    BY <2>1 DEF CalibrationInv, CalibrationTypeOK, Waiting, InTurn, OfTheDevice, loopVars
<1>2. CASE Tick
  <2>1. now' \in 0..MaxTime /\ 0..now \subseteq 0..now' /\ UNCHANGED <<device, drifts, loopVars>>
    BY <1>2, LoopAssumption DEF CalibrationInv, CalibrationTypeOK, Tick
  <2>. QED
    BY <2>1 DEF CalibrationInv, CalibrationTypeOK, Waiting, InTurn, OfTheDevice, loopVars
<1>3. CASE UNCHANGED calibrationVars
  BY <1>3 DEF CalibrationInv, CalibrationTypeOK, Waiting, InTurn, OfTheDevice, calibrationVars
<1>. QED
  BY <1>1, <1>2, <1>3, CycleTyped, MeasureTyped, EndTyped DEF CalibrationNext

\* The loop keeps its types; in particular it calibrates qubits of the device alone, since a
\* baseline only ever lists such qubits (active.py 271-278, drift.py 199-211).
THEOREM CalibrationTypeCorrect == CalibrationSpec => []CalibrationTypeOK
<1>1. CalibrationSpec => []CalibrationInv
  BY CalibrationInvInit, LoopStays, PTL DEF CalibrationSpec
<1>2. CalibrationInv => CalibrationTypeOK
  BY DEF CalibrationInv
<1>. QED
  BY <1>1, <1>2, PTL

-----------------------------------------------------------------------------
(* A recalibration of some qubits forces one of all                         *)

LEMMA PartialInit == CalibrationInit => PartialInv
<1>1. SUFFICES ASSUME CalibrationInit PROVE PartialInv
  OBVIOUS
<1>2. history = <<>> /\ cyclePhase = "idle"
  BY <1>1 DEF CalibrationInit
<1>. QED
  BY <1>1, <1>2, CalibrationInvInit DEF PartialInv, BaselineIsLast, Forced, PartialForcesFull

\* What holds of the recalibrations of a history goes on to hold when an outcome of another
\* kind is entered and the baseline stays.
LEMMA OthersKeep ==
  ASSUME PartialInv, NEW type \in {"measured", "drift_detected", "skipped", "error"},
         NEW since \in 0..MaxTime, Record(type, <<>>, since), UNCHANGED <<baseline, policy>>
  PROVE  BaselineIsLast' /\ PartialForcesFull'
<1>1. CalibrationTypeOK
  BY DEF PartialInv, CalibrationInv
<1>2. /\ Len(history') = Len(history) + 1 /\ Len(history) \in Nat
      /\ DOMAIN history = 1..Len(history) /\ DOMAIN history' = 1..(Len(history) + 1)
      /\ \A k \in DOMAIN history : history'[k] = history[k]
      /\ history'[Len(history) + 1].type # "recalibrated"
  <2>1. <<>> \in Seq(DeviceQubits)
    OBVIOUS
  <2>2. /\ history' \in Seq(ActionType) /\ Len(history') = Len(history) + 1
        /\ \A k \in DOMAIN history : history'[k] = history[k]
        /\ history'[Len(history) + 1].type = type
    BY <1>1, <2>1, EnteredTyped
  <2>. QED
    BY <1>1, <2>2 DEF CalibrationTypeOK
<1>3. BaselineIsLast'
  <2>1. SUFFICES ASSUME NEW i \in DOMAIN history', LastRecalibration(i)'
                 PROVE  Len(baseline) = Len(history'[i].qubits)
    BY DEF BaselineIsLast
  <2>2. i \in DOMAIN history /\ history'[i] = history[i] /\ history[i].type = "recalibrated"
    BY <1>2, <2>1 DEF LastRecalibration
  <2>3. ASSUME NEW k \in (i + 1)..Len(history) PROVE history[k].type # "recalibrated"
    BY <1>2, <2>1, <2>2 DEF LastRecalibration
  <2>4. LastRecalibration(i)
    BY <2>2, <2>3 DEF LastRecalibration
  <2>. QED
    BY <2>2, <2>4 DEF PartialInv, BaselineIsLast
<1>4. PartialForcesFull'
  <2>1. SUFFICES ASSUME NEW i \in DOMAIN history', NEW j \in DOMAIN history', Consecutive(i, j)',
                        Len(history'[i].qubits) < NumQubits
                 PROVE  history'[j].qubits = policy.all
    BY DEF PartialForcesFull
  <2>2. i \in DOMAIN history /\ j \in DOMAIN history
    BY <1>2, <2>1 DEF Consecutive
  <2>3. Consecutive(i, j)
    BY <1>2, <2>1, <2>2 DEF Consecutive
  <2>. QED
    BY <1>2, <2>1, <2>2, <2>3 DEF PartialInv, PartialForcesFull
<1>. QED
  BY <1>3, <1>4
\* What the recalibration that ends measured is the baseline from now on, and if the last
\* one was of some qubits it is of all.
LEMMA RecalibratedKeeps ==
  ASSUME PartialInv, Recalibrated
  PROVE  BaselineIsLast' /\ PartialForcesFull'
<1>1. /\ CalibrationTypeOK /\ Record("recalibrated", todo, began) /\ baseline' = measured
      /\ Len(measured) = Len(todo) /\ policy' = policy /\ cyclePhase = "recalibrating"
  BY DEF PartialInv, CalibrationInv, Recalibrated
<1>2. /\ Len(history') = Len(history) + 1 /\ Len(history) \in Nat
      /\ DOMAIN history = 1..Len(history) /\ DOMAIN history' = 1..(Len(history) + 1)
      /\ \A k \in DOMAIN history : history'[k] = history[k]
      /\ history'[Len(history) + 1].type = "recalibrated"
      /\ history'[Len(history) + 1].qubits = todo
  <2>1. todo \in Seq(DeviceQubits) /\ began \in 0..MaxTime
    BY <1>1 DEF CalibrationTypeOK
  <2>2. /\ history' \in Seq(ActionType) /\ Len(history') = Len(history) + 1
        /\ \A k \in DOMAIN history : history'[k] = history[k]
        /\ history'[Len(history) + 1].type = "recalibrated"
        /\ history'[Len(history) + 1].qubits = todo
    BY <1>1, <2>1, EnteredTyped
  <2>. QED
    BY <1>1, <2>2 DEF CalibrationTypeOK
<1>3. BaselineIsLast'
  <2>1. SUFFICES ASSUME NEW i \in DOMAIN history', LastRecalibration(i)'
                 PROVE  Len(baseline') = Len(history'[i].qubits)
    BY DEF BaselineIsLast
  <2>2. i = Len(history) + 1
    BY <1>2, <2>1 DEF LastRecalibration
  <2>. QED
    BY <1>1, <1>2, <2>2
<1>4. PartialForcesFull'
  <2>1. SUFFICES ASSUME NEW i \in DOMAIN history', NEW j \in DOMAIN history', Consecutive(i, j)',
                        Len(history'[i].qubits) < NumQubits
                 PROVE  history'[j].qubits = policy.all
    BY <1>1 DEF PartialForcesFull
  <2>2. i \in DOMAIN history
    BY <1>2, <2>1 DEF Consecutive
  <2>3. CASE j = Len(history) + 1
    <3>1. history[i].type = "recalibrated"
      BY <1>2, <2>1, <2>2 DEF Consecutive
    <3>2. ASSUME NEW k \in (i + 1)..Len(history) PROVE history[k].type # "recalibrated"
      BY <1>2, <2>1, <2>2, <2>3 DEF Consecutive
    <3>3. Len(baseline) = Len(history[i].qubits)
      BY <2>2, <3>1, <3>2 DEF PartialInv, BaselineIsLast, LastRecalibration
    <3>4. Len(baseline) # NumQubits
      <4>1. Len(baseline) < NumQubits /\ NumQubits \in Nat
        BY <1>2, <2>1, <2>2, <3>3, LoopAssumption
      <4>. QED
        BY <4>1
    <3>5. todo = policy.all
      BY <1>1, <3>4 DEF PartialInv, Forced
    <3>. QED
      BY <1>2, <2>3, <3>5
  <2>4. CASE j # Len(history) + 1
    <3>1. j \in DOMAIN history
      BY <1>2, <2>4
    <3>2. Consecutive(i, j)
      BY <1>2, <2>1, <2>2, <3>1 DEF Consecutive
    <3>. QED
      BY <1>2, <2>1, <2>2, <3>1, <3>2 DEF PartialInv, PartialForcesFull
  <2>. QED
    BY <2>3, <2>4
<1>. QED
  BY <1>3, <1>4

\* A step that leaves history, baseline and policy alone keeps what holds of them.
LEMMA QuietKeeps ==
  ASSUME PartialInv, UNCHANGED <<history, baseline, policy>>
  PROVE  BaselineIsLast' /\ PartialForcesFull'
BY DEF PartialInv, BaselineIsLast, LastRecalibration, PartialForcesFull, Consecutive

LEMMA PartialStays == ASSUME PartialInv, [CalibrationNext]_calibrationVars PROVE PartialInv'
<1>1. CalibrationInv'
  BY LoopStays DEF PartialInv
<1>2. CalibrationInv /\ Forced /\ CalibrationTypeOK
  BY DEF PartialInv, CalibrationInv
<1>3. CASE UNCHANGED <<cyclePhase, baseline, todo, policy, history>>
  <2>1. Forced'
    BY <1>2, <1>3 DEF Forced
  <2>. QED
    BY <1>1, <1>3, <2>1, QuietKeeps DEF PartialInv
<1>4. CASE StartCycle
  <2>1. cyclePhase = "idle" /\ UNCHANGED <<baseline, policy>> /\ now \in 0..MaxTime
    BY <1>2, <1>4 DEF StartCycle, CalibrationTypeOK
  <2>2. ASSUME NEW type \in {"measured", "drift_detected", "skipped", "error"},
               Record(type, <<>>, now), UNCHANGED cyclePhase
        PROVE  PartialInv'
    <3>1. BaselineIsLast' /\ PartialForcesFull'
      BY <2>1, <2>2, OthersKeep
    <3>2. Forced'
      BY <2>1, <2>2 DEF Forced
    <3>. QED
      BY <1>1, <3>1, <3>2 DEF PartialInv
  <2>3. ASSUME todo' = Chosen, UNCHANGED history PROVE PartialInv'
    <3>1. Forced'
      BY <1>2, <2>1, <2>3, ChosenAre DEF Forced
    <3>2. BaselineIsLast' /\ PartialForcesFull'
      BY <2>1, <2>3, QuietKeeps
    <3>. QED
      BY <1>1, <3>1, <3>2 DEF PartialInv
  <2>. QED
    BY <1>4, <2>2, <2>3 DEF StartCycle
<1>5. CASE Recalibrated
  <2>1. Forced'
    BY <1>5 DEF Recalibrated, Idle, Forced
  <2>. QED
    BY <1>1, <1>5, <2>1, RecalibratedKeeps DEF PartialInv
<1>6. CASE Fails
  <2>1. /\ Record("error", <<>>, began) /\ began \in 0..MaxTime
        /\ UNCHANGED <<baseline, policy>> /\ cyclePhase' = "idle"
    BY <1>2, <1>6 DEF Fails, Idle, CalibrationTypeOK
  <2>2. BaselineIsLast' /\ PartialForcesFull'
    BY <2>1, OthersKeep
  <2>. QED
    BY <1>1, <2>1, <2>2 DEF PartialInv, Forced
<1>7. CASE Cancelled
  <2>1. UNCHANGED <<history, baseline, policy>> /\ cyclePhase' = "idle"
    BY <1>7 DEF Cancelled, Idle
  <2>. QED
    BY <1>1, <2>1, QuietKeeps DEF PartialInv, Forced
<1>8. CASE Drift \/ Tick \/ MeasureQubit \/ UNCHANGED calibrationVars
  BY <1>3, <1>8 DEF Drift, Tick, MeasureQubit, calibrationVars, loopVars
<1>. QED
  BY <1>4, <1>5, <1>6, <1>7, <1>8 DEF CalibrationNext

\* A recalibration of some qubits replaces the whole baseline, and two fingerprints of
\* different numbers of qubits are not compared but count as critical drift of no qubit in
\* particular: the next recalibration is of all, whatever the strategy (active.py 271-278).
THEOREM PartialThenFull == CalibrationSpec => []PartialForcesFull
<1>1. CalibrationSpec => []PartialInv
  BY PartialInit, PartialStays, PTL DEF CalibrationSpec
<1>2. PartialInv => PartialForcesFull
  BY DEF PartialInv
<1>. QED
  BY <1>1, <1>2, PTL
-----------------------------------------------------------------------------
(* A cycle without action has missed no drift                               *)

LEMMA OrderInit == CalibrationInit => OrderInv
<1>1. SUFFICES ASSUME CalibrationInit PROVE OrderInv
  OBVIOUS
<1>2. todo = <<>> /\ Len(<<>>) # NumQubits /\ baseline = DevicePrint
  BY <1>1, LoopAssumption DEF CalibrationInit
<1>3. \A k \in 1..NumQubits : baseline[k].index = k - 1
  BY <1>2 DEF DevicePrint
<1>. QED
  BY <1>1, <1>2, <1>3, CalibrationInvInit DEF OrderInv, IndexSorted, BaselineSorted

LEMMA OrderStays == ASSUME AllInOrder, OrderInv, [CalibrationNext]_calibrationVars PROVE OrderInv'
<1>1. CalibrationInv'
  BY LoopStays DEF OrderInv
<1>2. CalibrationInv /\ IndexSorted(todo) /\ BaselineSorted
  BY DEF OrderInv
<1>3. IndexSorted(<<>>)
  BY LoopAssumption DEF IndexSorted
<1>4. IndexSorted(todo')
  <2>1. CASE todo' \in {todo, Chosen, <<>>}
    BY <1>2, <1>3, <2>1, ChosenAre
  <2>2. todo' \in {todo, Chosen, <<>>}
    BY DEF CalibrationNext, Drift, Tick, StartCycle, MeasureQubit, Recalibrated, Fails, Cancelled, Idle, calibrationVars, loopVars
  <2>. QED
    BY <2>1, <2>2
<1>5. BaselineSorted'
  <2>1. CASE Recalibrated
    <3>1. baseline' = measured /\ Len(measured) = Len(todo) /\ measured \in Fingerprint
      BY <1>2, <2>1 DEF Recalibrated, CalibrationInv, CalibrationTypeOK
    <3>2. ASSUME Len(measured) = NumQubits, NEW k \in 1..NumQubits PROVE measured[k].index = k - 1
      <4>1. k \in DOMAIN measured
        BY <3>1, <3>2 DEF Fingerprint
      <4>2. measured[k].index = todo[k]
        BY <1>2, <4>1 DEF CalibrationInv, InTurn
      <4>. QED
        BY <1>2, <3>1, <3>2, <4>2 DEF IndexSorted
    <3>. QED
      BY <3>1, <3>2 DEF BaselineSorted
  <2>2. CASE UNCHANGED baseline
    BY <1>2, <2>2 DEF BaselineSorted
  <2>. QED
    BY <2>1, <2>2 DEF CalibrationNext, Drift, Tick, StartCycle, MeasureQubit, Fails, Cancelled, calibrationVars, loopVars
<1>. QED
  BY <1>1, <1>4, <1>5 DEF OrderInv, IndexSorted

\* The cycle that finds nothing to act upon, or drift below the thresholds.
LEMMA QuietCycle ==
  ASSUME OrderInv, ~NeedsAction(Severity(Metrics)), NEW q \in DeviceQubits
  PROVE  \E k \in DOMAIN baseline :
           baseline[k].index = q /\ Within(QubitDrift(baseline[k].reading, device[q]))
<1>1. /\ baseline \in Fingerprint /\ DevicePrint \in Fingerprint /\ Len(DevicePrint) = NumQubits
      /\ \A k \in 1..NumQubits : DevicePrint[k].reading = device[k - 1]
  BY DevicePrintIs DEF OrderInv, CalibrationInv, CalibrationTypeOK
<1>2. ~Compare(baseline, DevicePrint).recalibrate
  BY DEF NeedsAction, Severity, Metrics
<1>3. Len(baseline) = NumQubits /\
      \A k \in 1..NumQubits : Within(QubitDrift(baseline[k].reading, DevicePrint[k].reading))
  BY <1>1, <1>2, NoneMissed
<1>4. q + 1 \in 1..NumQubits /\ (q + 1) - 1 = q
  BY LoopAssumption DEF DeviceQubits
<1>5. q + 1 \in DOMAIN baseline
  BY <1>1, <1>3, <1>4 DEF Fingerprint
<1>6. baseline[q + 1].index = q
  BY <1>3, <1>4 DEF OrderInv, BaselineSorted
<1>7. Within(QubitDrift(baseline[q + 1].reading, device[q]))
  BY <1>1, <1>3, <1>4
<1>. QED
  BY <1>5, <1>6, <1>7

\* What NoDriftMissed says of a step.
NothingMissed ==
  Len(history') > Len(history) /\ history'[Len(history')].type \in {"measured", "drift_detected"} =>
    \A q \in DeviceQubits : \E k \in DOMAIN baseline :
      baseline[k].index = q /\ Within(QubitDrift(baseline[k].reading, device[q]))

LEMMA StepsMissNothing == ASSUME OrderInv, [CalibrationNext]_calibrationVars PROVE NothingMissed
<1>1. CalibrationTypeOK /\ Len(history) \in Nat /\ ~(Len(history) > Len(history))
  BY DEF OrderInv, CalibrationInv, CalibrationTypeOK
<1>2. CASE UNCHANGED history
  BY <1>1, <1>2 DEF NothingMissed
<1>3. ASSUME NEW type \in {"skipped", "recalibrated", "error"}, NEW qubits \in Seq(DeviceQubits),
             NEW since \in 0..MaxTime, Record(type, qubits, since)
      PROVE  NothingMissed
  <2>1. history'[Len(history')].type = type
    BY <1>1, <1>3, EnteredTyped
  <2>. QED
    BY <2>1 DEF NothingMissed
<1>4. <<>> \in Seq(DeviceQubits) /\ now \in 0..MaxTime /\ began \in 0..MaxTime /\ todo \in Seq(DeviceQubits)
  BY <1>1 DEF CalibrationTypeOK
<1>5. CASE StartCycle
  <2>1. CASE ~NeedsAction(Severity(Metrics))
    BY <2>1, QuietCycle DEF NothingMissed
  <2>2. CASE Record("skipped", <<>>, now)
    BY <1>3, <1>4, <2>2
  <2>. QED
    BY <1>2, <1>5, <2>1, <2>2 DEF StartCycle
<1>6. CASE Recalibrated
  BY <1>3, <1>4, <1>6 DEF Recalibrated
<1>7. CASE Fails
  BY <1>3, <1>4, <1>7 DEF Fails
<1>. QED
  BY <1>2, <1>5, <1>6, <1>7 DEF CalibrationNext, Drift, Tick, MeasureQubit, Cancelled, calibrationVars, loopVars

\* A cycle that enters "measured" or "drift_detected", for whatever history of
\* recalibrations, has compared every qubit with the baseline of that qubit and found each of
\* its parameters within the thresholds - if a complete all_qubits lists the qubits in their
\* order, for compare pairs by place (fingerprint.py 191).
THEOREM NoneOverlooked == ASSUME AllInOrder PROVE CalibrationSpec => NoDriftMissed
<1>1. CalibrationInit => OrderInv
  BY OrderInit
<1>2. OrderInv /\ [CalibrationNext]_calibrationVars => OrderInv' /\ NothingMissed
  BY OrderStays, StepsMissNothing
<1>3. NothingMissed =>
        (Len(history') > Len(history) /\ history'[Len(history')].type \in {"measured", "drift_detected"} =>
           \A q \in DeviceQubits : \E k \in DOMAIN baseline :
             /\ baseline[k].index = q
             /\ LET d == QubitDrift(baseline[k].reading, device[q]) IN
                  /\ d.frequency <= Threshold.frequency
                  /\ d.t1 <= Threshold.t1 /\ d.t2 <= Threshold.t2
                  /\ d.gate <= Threshold.fidelity /\ d.readout <= Threshold.fidelity)
  BY DEF NothingMissed, Within
<1>. QED
  BY <1>1, <1>2, <1>3, PTL DEF CalibrationSpec, NoDriftMissed
=============================================================================
