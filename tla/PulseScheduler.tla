---------------------------- MODULE PulseScheduler ----------------------------
(***************************************************************************)
(* PulseScheduler.schedule_asap (core/src/qubitos/temporal/scheduler.py):   *)
(* sort the operations by their dependencies, place each as early as it can  *)
(* go, then build the sequence, which checks clock, budget and constraints.  *)
(* One step is one iteration of one of its loops.  The scheduler object is   *)
(* called again and again, and its decoherence budget lives as long as it.   *)
(***************************************************************************)
EXTENDS PulseSequence, FiniteSetsExt, SequencesExt

CONSTANTS
  Sessions   \* the calls a scheduler may get: sequences of arguments, see ProblemType

\* An operation is known by its position.  a, b: the positions of the two pulses of
\* a constraint.  crosstalk: the coupled pairs in the order the code meets them.
OpType == [qubits : Seq(Qubits), duration : Int]
ConstraintType ==
  {c \in [kind : Kinds, a : Nat, b : Nat, tolerance : Nat, fraction : 1..3] : c.a # c.b}
ProblemType == [ops : Seq(OpType), constraints : Seq(ConstraintType),
                crosstalk : Seq(Qubits \X Qubits), awg : BOOLEAN]

ASSUME SessionsAssumption ==
  \A s \in Sessions : s # <<>> /\ s \in Seq(ProblemType)

VARIABLES
  session,  \* the calls this scheduler gets
  calls,    \* the number of the current one
  phase,    \* the loop the call is in, or how it ended
  order,    \* the topological order found so far
  start,    \* the start times assigned so far, in placement order
  pulses,   \* the pulses of the sequence built so far
  added,    \* how many constraints the sequence has accepted
  spent     \* qubit_time_ns of the scheduler's budget

schedulerVars == <<session, calls, phase, order, start, pulses, added, spent>>

problem == session[calls]
Ops == DOMAIN problem.ops
Op(i) == problem.ops[i]
Constraints == DOMAIN problem.constraints
Constraint(k) == problem.constraints[k]
Failures == {"malformed", "cyclic", "value_error"}

PulseType == [op : Nat, qubits : Seq(Qubits), start : Nat, duration : Nat]

SchedulerTypeOK ==
  /\ session \in Sessions /\ calls \in DOMAIN session
  /\ phase \in {"validate", "sort", "place", "append", "constrain", "done"} \cup Failures
  /\ order \in Seq(Ops)
  /\ start \in Seq(Nat)
  /\ pulses \in Seq(PulseType)
  /\ added \in 0..Len(problem.constraints)
  /\ spent \in [Qubits -> Nat]

SchedulerInit ==
  /\ session \in Sessions /\ calls = 1
  /\ phase = "validate" /\ order = <<>> /\ start = <<>> /\ pulses = <<>> /\ added = 0
  /\ spent = [q \in Qubits |-> 0]

\* The next call finds the budget as the last one left it, even if that one failed.
CallAgain ==
  /\ phase \in {"done"} \cup Failures /\ calls < Len(session)
  /\ calls' = calls + 1 /\ phase' = "validate"
  /\ order' = <<>> /\ start' = <<>> /\ pulses' = <<>> /\ added' = 0
  /\ UNCHANGED <<session, spent>>

-----------------------------------------------------------------------------
(* _validate_inputs and _topological_sort                                   *)

WellFormed == /\ \A i \in Ops : Op(i).duration > 0
              /\ \A k \in Constraints : Constraint(k).a \in Ops /\ Constraint(k).b \in Ops

ValidateInputs ==
  /\ phase = "validate"
  /\ phase' = IF WellFormed THEN "sort" ELSE "malformed"
  /\ UNCHANGED <<session, calls, order, start, pulses, added, spent>>

DependsOn(j, i) ==
  \E k \in Constraints : /\ Constraint(k).kind \in {"sequential", "max_delay"}
                         /\ Constraint(k).a = i /\ Constraint(k).b = j

Sorted == Range(order)
Ready == {j \in Ops \ Sorted : \A i \in Ops : DependsOn(j, i) => i \in Sorted}

\* Kahn's algorithm: of the operations without open dependencies the first one given.
Sort ==
  /\ phase = "sort"
  /\ \/ /\ Ready # {}
        /\ order' = Append(order, Min(Ready))
        /\ UNCHANGED phase
     \/ /\ Ready = {}
        /\ phase' = IF Sorted = Ops THEN "place" ELSE "cyclic"
        /\ UNCHANGED order
  /\ UNCHANGED <<session, calls, start, pulses, added, spent>>

-----------------------------------------------------------------------------
(* _earliest_start and the placement loop                                   *)

Placed == {order[n] : n \in DOMAIN start}
StartOf(i) == start[CHOOSE n \in DOMAIN start : order[n] = i]
Interval(i) == [start |-> StartOf(i), duration |-> Op(i).duration, qubits |-> Op(i).qubits]

\* The earliest start a constraint allows its second pulse; min_gap allows any.
LowerBound(c, i) ==
  LET a == Interval(c.a) IN
  CASE c.kind = "sequential"   -> EndOf(a) + c.tolerance
    [] c.kind = "max_delay"    -> EndOf(a)
    [] c.kind = "simultaneous" -> a.start
    [] c.kind = "aligned"      -> a.start + (c.fraction * a.duration) \div 4 - Op(i).duration \div 2
    [] c.kind = "min_gap"      -> 0

ConstraintBound(i) ==
  Max({0} \cup {LowerBound(Constraint(k), i) :
                  k \in {k \in Constraints : Constraint(k).b = i /\ Constraint(k).a \in Placed}})

\* qubit_timeline[q]: the intervals on a qubit, in the order they were placed.
Timeline(q) ==
  LET on == SelectSeq(SubSeq(order, 1, Len(start)), LAMBDA i : q \in Range(Op(i).qubits))
  IN [n \in DOMAIN on |-> Interval(on[n])]

\* One pass over a timeline: an interval met is left behind, whatever was passed before.
PushedPast(from, duration, timeline) ==
  FoldLeft(LAMBDA e, iv : IF e < EndOf(iv) /\ e + duration > iv.start THEN EndOf(iv) ELSE e,
           from, timeline)

Coupled(q, pair) == IF q = pair[1] THEN {pair[2]} ELSE IF q = pair[2] THEN {pair[1]} ELSE {}

EarliestStart(i) ==
  LET op == Op(i)
      past(e, q) == PushedPast(e, op.duration, Timeline(q))
      free == FoldLeft(past, ConstraintBound(i), op.qubits)
      apart(e, q) == FoldLeft(LAMBDA f, pair : IF Coupled(q, pair) = {} THEN f
                                               ELSE past(f, CHOOSE z \in Coupled(q, pair) : TRUE),
                              e, problem.crosstalk)
  IN FoldLeft(apart, free, op.qubits)

\* _ceil_to_grid
OnGrid(t) == IF problem.awg THEN ((t + Period - 1) \div Period) * Period ELSE t

Place ==
  /\ phase = "place"
  /\ \/ /\ Len(start) < Len(order)
        /\ start' = Append(start, OnGrid(EarliestStart(order[Len(start) + 1])))
        /\ UNCHANGED phase
     \/ /\ Len(start) = Len(order)
        /\ phase' = "append"
        /\ UNCHANGED start
  /\ UNCHANGED <<session, calls, order, pulses, added, spent>>

-----------------------------------------------------------------------------
(* _build_result                                                            *)

Unappended == Ops \ {pulses[n].op : n \in DOMAIN pulses}
NextByStart(i) ==
  \A j \in Unappended : StartOf(i) < StartOf(j) \/ (StartOf(i) = StartOf(j) /\ i <= j)

\* PulseSequence.append, in the order of the start times; it raises a ValueError.
AppendPulse ==
  /\ phase = "append"
  /\ \E i \in Unappended :
       LET duration == Quantized(Op(i).duration, problem.awg)
           accepted == /\ FitsClock(Op(i).duration, problem.awg)
                       /\ StartFits(StartOf(i), problem.awg)
                       /\ FitsBudget(spent, Op(i).qubits, duration)
       IN /\ NextByStart(i)
          /\ \/ /\ accepted
                /\ pulses' = Append(pulses, [op |-> i, qubits |-> Op(i).qubits, duration |-> duration,
                                             start |-> Quantized(StartOf(i), problem.awg)])
                /\ spent' = Charged(spent, Op(i).qubits, duration)
                /\ UNCHANGED phase
             \/ ~accepted /\ phase' = "value_error" /\ UNCHANGED <<pulses, spent>>
  /\ UNCHANGED <<session, calls, order, start, added>>

PulseOf(i) == pulses[CHOOSE n \in DOMAIN pulses : pulses[n].op = i]
Holds(c) == Satisfied(c, PulseOf(c.a), PulseOf(c.b), IF problem.awg THEN 2 * Jitter ELSE 0)

AllAppended ==
  /\ phase = "append" /\ Unappended = {}
  /\ phase' = "constrain"
  /\ UNCHANGED <<session, calls, order, start, pulses, added, spent>>

\* A constraint that does not hold is kept.
AddConstraintUnchecked ==
  /\ phase = "constrain"
  /\ \/ added < Len(problem.constraints) /\ added' = added + 1 /\ UNCHANGED phase
     \/ added = Len(problem.constraints) /\ phase' = "done" /\ UNCHANGED added
  /\ UNCHANGED <<session, calls, order, start, pulses, spent>>

\* PulseSequence.add_constraint, in the order given; it raises a ValueError.
AddConstraint ==
  /\ phase = "constrain"
  /\ \/ /\ added < Len(problem.constraints)
        /\ Holds(Constraint(added + 1))
        /\ added' = added + 1 /\ UNCHANGED phase
     \/ /\ added < Len(problem.constraints)
        /\ ~Holds(Constraint(added + 1))
        /\ phase' = "value_error" /\ UNCHANGED added
     \/ /\ added = Len(problem.constraints)
        /\ phase' = "done" /\ UNCHANGED added
  /\ UNCHANGED <<session, calls, order, start, pulses, spent>>

-----------------------------------------------------------------------------
Step == ValidateInputs \/ Sort \/ Place \/ AppendPulse \/ AllAppended \/ AddConstraint

SchedulerNext == Step \/ CallAgain

SchedulerSpec == SchedulerInit /\ [][SchedulerNext]_schedulerVars

-----------------------------------------------------------------------------
(* Properties                                                               *)

\* A schedule that is returned has every operation once, and its pulses, rounded to the
\* clock, satisfy every constraint (scheduler.py 446-501, sequence.py 176-207).
ScheduleHolds ==
  phase = "done" =>
    /\ Len(pulses) = Len(problem.ops) /\ Unappended = {}
    /\ \A k \in Constraints : Holds(Constraint(k))

\* No qubit is driven into the blocking part of its T2, over all calls, as long as a
\* pulse lists a qubit once (sequence.py 152-164, budget.py 155-167).
BudgetKept ==
  (\A n \in DOMAIN session : \A i \in DOMAIN session[n].ops : IsInjective(session[n].ops[i].qubits)) =>
    \A q \in Qubits : T2Limit[q] > 0 => spent[q] < T2Limit[q]

\* "Each pulse starts at the earliest time that satisfies all constraints and avoids
\* qubit conflicts" (scheduler.py 230-231).
NoQubitConflict ==
  \A m, n \in DOMAIN pulses : m # n => ~Overlap(pulses[m], pulses[n])
=============================================================================
