--------------------------- MODULE HalSequenceProofs ---------------------------
(***************************************************************************)
(* Proofs about HalSequence, for any clock, jitter, budget, pulses and        *)
(* constraints: what add_constraint accepted and what append left room for     *)
(* stays so for as long as the sequence is built.                            *)
(***************************************************************************)
EXTENDS HalSequence, FiniteSetTheorems, TLAPS

\* The sequence as callers of append and add_constraint can have it.
Built ==
  /\ budget \in BudgetType
  /\ spent \in [Qubits -> Int]
  /\ pulses \in [DOMAIN pulses -> PulseType]
  /\ constraints \in Seq(ConstraintType)

\* A constraint is between pulses of the sequence.
Resolves == \A k \in DOMAIN constraints : {constraints[k].a, constraints[k].b} \subseteq DOMAIN pulses

IInv == Built /\ Resolves /\ ConstraintsKept /\ BudgetKept

-----------------------------------------------------------------------------
(* Times and charges                                                        *)

\* The times of a pulse are whole units on either clock.
LEMMA TimesAreIntegers ==
  ASSUME awg \in BOOLEAN, NEW p \in PulseType
  PROVE  DurationNs(p) \in Int
<1>1. Grid \in Nat \ {0}
  BY ClockAssumption DEF Grid
<1>2. p.duration \in Int
  BY DEF PulseType
<1>3. Rounded(p.duration, Grid) \in Int
  BY <1>1, <1>2 DEF Rounded
<1> QED
  BY <1>1, <1>3 DEF DurationNs, QuantizedNs

\* A pulse keeps the type under the clamping of its duration.
LEMMA PulseTyped ==
  ASSUME awg \in BOOLEAN, NEW qubits \in QubitLists, NEW start \in Starts, NEW duration \in Durations
  PROVE  MakePulse(qubits, start, duration) \in PulseType
<1>1. qubits \in Seq(Qubits) /\ start \in Nat /\ duration \in Nat
  BY CallerAssumption
<1>2. QuantizeDuration(duration) \in Nat
  <2>1. Rounded(duration, Period) \in Int
    BY <1>1, ClockAssumption DEF Rounded
  <2> DEFINE n == Rounded(duration, Period)
             clamped == IF n < MinSamples THEN MinSamples ELSE IF n > MaxSamples THEN MaxSamples ELSE n
  <2>2. clamped \in Nat
    BY <2>1, ClockAssumption
  <2>3. QuantizeDuration(duration) = clamped * Period
    BY DEF QuantizeDuration
  <2> QED
    BY <2>2, <2>3, ClockAssumption
<1> QED
  BY <1>1, <1>2 DEF MakePulse, PulseType

\* A list without repetitions has a qubit once or not at all.
LEMMA OnceOrNever ==
  ASSUME NEW l \in Seq(Qubits), NEW q, \A i, j \in DOMAIN l : l[i] = l[j] => i = j
  PROVE  \/ Occurrences(q, l) = 0 /\ \A i \in DOMAIN l : l[i] # q
         \/ Occurrences(q, l) = 1 /\ \E i \in DOMAIN l : l[i] = q
<1> DEFINE at == {i \in DOMAIN l : l[i] = q}
<1>1. CASE at = {}
  BY <1>1, FS_EmptySet DEF Occurrences
<1>2. CASE at # {}
  <2>1. PICK i \in DOMAIN l : l[i] = q
    BY <1>2
  <2>2. at = {i}
    BY <2>1
  <2> QED
    BY <2>1, <2>2, FS_Singleton DEF Occurrences
<1> QED
  BY <1>1, <1>2

-----------------------------------------------------------------------------
(* The invariant                                                            *)

LEMMA InitInv == Init => IInv
<1> SUFFICES ASSUME Init PROVE IInv
  OBVIOUS
<1>1. budget \in BudgetType
  <2>1. NoBudget \in BudgetType
    BY DEF NoBudget, BudgetType
  <2> QED
    BY <2>1, CallerAssumption DEF Init
<1>2. Built
  BY <1>1 DEF Init, Built
<1>3. BudgetKept
  <2> SUFFICES ASSUME budget # NoBudget, NEW q \in Qubits PROVE ~Blocked(q)
    BY DEF BudgetKept
  <2>1. BudgetAccepted(budget)
    BY DEF Init
  <2>2. budget.block > 0 /\ budget.block \in Int /\ budget.t2[q] \in Nat
    BY <1>1, <2>1 DEF BudgetType, BudgetAccepted
  <2>3. spent[q] = 0
    BY DEF Init
  <2>4. budget.t2[q] > 0 => budget.block * budget.t2[q] > 0
    BY <2>2
  <2> QED
    BY <2>2, <2>3, <2>4 DEF Blocked, Reached
<1> QED
  BY <1>2, <1>3 DEF IInv, Init, Resolves, ConstraintsKept, ConstraintIssues

\* append: the new pulse is checked against the budget qubit by qubit, and no other moves.
LEMMA AppendInv ==
  ASSUME IInv, awg \in BOOLEAN, NEW id \in Ids, NEW qubits \in QubitLists,
         NEW start \in Starts, NEW duration \in Durations,
         AppendPulse(id, qubits, start, duration)
  PROVE  IInv'
<1> DEFINE p == MakePulse(qubits, start, duration)
<1>1. p \in PulseType /\ DurationNs(p) \in Int /\ qubits \in Seq(Qubits) /\ p.qubits = qubits
  BY PulseTyped, TimesAreIntegers, CallerAssumption DEF MakePulse
<1>2. /\ id \notin DOMAIN pulses
      /\ pulses' = [i \in DOMAIN pulses \cup {id} |-> IF i = id THEN p ELSE pulses[i]]
      /\ spent' = IF budget = NoBudget THEN spent ELSE Charged(qubits, DurationNs(p))
      /\ budget # NoBudget => \A i \in DOMAIN qubits : CanAdd(qubits[i], DurationNs(p))
      /\ UNCHANGED <<awg, budget, constraints>>
  BY DEF AppendPulse
<1>3. DOMAIN pulses' = DOMAIN pulses \cup {id} /\ \A i \in DOMAIN pulses : pulses'[i] = pulses[i]
  BY <1>2
<1>4. Built'
  <2>1. pulses' \in [DOMAIN pulses' -> PulseType]
    BY <1>1, <1>2, <1>3 DEF IInv, Built
  <2>2. spent' \in [Qubits -> Int]
    <3>1. ASSUME NEW q \in Qubits PROVE Occurrences(q, qubits) \in Int
      <4>1. IsFiniteSet(DOMAIN qubits) /\ IsFiniteSet({i \in DOMAIN qubits : qubits[i] = q})
        BY <1>1, FS_Interval, FS_Subset
      <4> QED
        BY <4>1, FS_CardinalityType DEF Occurrences
    <3> QED
      BY <1>1, <1>2, <3>1 DEF Charged, IInv, Built
  <2> QED
    BY <1>2, <2>1, <2>2 DEF IInv, Built
<1>5. Resolves'
  BY <1>2, <1>3 DEF IInv, Resolves
<1>6. ConstraintsKept'
  <2> SUFFICES ASSUME NEW k \in DOMAIN constraints PROVE Holds(constraints[k])'
    BY <1>2 DEF ConstraintsKept, ConstraintIssues
  <2>1. Holds(constraints[k]) /\ constraints'[k] = constraints[k]
    BY <1>2 DEF IInv, ConstraintsKept, ConstraintIssues
  <2>2. pulses'[constraints[k].a] = pulses[constraints[k].a] /\ pulses'[constraints[k].b] = pulses[constraints[k].b]
    BY <1>3 DEF IInv, Resolves
  <2> QED
    BY <1>2, <2>1, <2>2 DEF Holds, Placed, JitterOfTwo, StartNs, DurationNs, QuantizedNs, Grid
<1>7. BudgetKept'
  <2> SUFFICES ASSUME budget # NoBudget, ListsOnce', NEW q \in Qubits PROVE ~Blocked(q)'
    BY <1>2 DEF BudgetKept
  <2>1. ListsOnce /\ \A i, j \in DOMAIN qubits : qubits[i] = qubits[j] => i = j
    BY <1>1, <1>2, <1>3 DEF ListsOnce
  <2>2. ~Blocked(q)
    BY <2>1 DEF IInv, BudgetKept
  <2>3. spent'[q] = spent[q] + DurationNs(p) * Occurrences(q, qubits) /\ spent[q] \in Int
    BY <1>2 DEF Charged, IInv, Built
  <2>4. CASE Occurrences(q, qubits) = 0
    BY <1>1, <1>2, <2>2, <2>3, <2>4 DEF Blocked
  <2>5. CASE Occurrences(q, qubits) = 1 /\ \E i \in DOMAIN qubits : qubits[i] = q
    <3>1. CanAdd(q, DurationNs(p))
      BY <1>2, <2>5
    <3>2. spent'[q] = spent[q] + DurationNs(p)
      BY <1>1, <2>3, <2>5
    <3> QED
      BY <1>2, <3>1, <3>2 DEF CanAdd, Blocked
  <2> QED
    BY <1>1, <2>1, <2>4, <2>5, OnceOrNever
<1> QED
  BY <1>4, <1>5, <1>6, <1>7 DEF IInv

\* add_constraint: the new constraint holds where it is added, and nothing else moves.
LEMMA AddInv ==
  ASSUME IInv, NEW c \in Asked, AddConstraint(c)
  PROVE  IInv'
<1>1. /\ {c.a, c.b} \subseteq DOMAIN pulses /\ Holds(c) /\ c \in ConstraintType
      /\ constraints' = Append(constraints, c) /\ UNCHANGED <<awg, budget, pulses, spent>>
  BY CallerAssumption DEF AddConstraint
<1>2. ASSUME NEW k \in DOMAIN constraints' PROVE constraints'[k] = c \/ (k \in DOMAIN constraints /\ constraints'[k] = constraints[k])
  BY <1>1 DEF IInv, Built
<1>3. Built'
  BY <1>1 DEF IInv, Built
<1>4. Resolves'
  BY <1>1, <1>2 DEF IInv, Resolves
<1>5. ConstraintsKept'
  <2> SUFFICES ASSUME NEW k \in DOMAIN constraints' PROVE Holds(constraints[k])'
    BY DEF ConstraintsKept, ConstraintIssues
  <2>1. Holds(constraints'[k])
    BY <1>1, <1>2 DEF IInv, ConstraintsKept, ConstraintIssues
  <2> QED
    BY <1>1, <2>1 DEF Holds, Placed, JitterOfTwo, StartNs, DurationNs, QuantizedNs, Grid
<1>6. BudgetKept'
  BY <1>1 DEF IInv, BudgetKept, ListsOnce, Blocked
<1> QED
  BY <1>3, <1>4, <1>5, <1>6 DEF IInv

\* Validating and serving read the sequence only.
LEMMA ReadInv ==
  ASSUME IInv, UNCHANGED <<awg, budget, pulses, constraints, spent>>
  PROVE  IInv'
BY DEF IInv, Built, Resolves, ConstraintsKept, ConstraintIssues, Holds, Placed, JitterOfTwo, StartNs,
       DurationNs, QuantizedNs, Grid, BudgetKept, ListsOnce, Blocked

LEMMA StepInv == IInv /\ awg \in BOOLEAN /\ [Next]_vars => (IInv /\ awg \in BOOLEAN)'
<1> SUFFICES ASSUME IInv, awg \in BOOLEAN, [Next]_vars PROVE IInv' /\ awg' \in BOOLEAN
  OBVIOUS
<1>1. ASSUME NEW id \in Ids, NEW qubits \in QubitLists, NEW start \in Starts, NEW duration \in Durations,
             AppendPulse(id, qubits, start, duration)
      PROVE  IInv' /\ awg' = awg
  BY <1>1, AppendInv DEF AppendPulse
<1>2. ASSUME NEW c \in Asked, AddConstraint(c) PROVE IInv' /\ awg' = awg
  BY <1>2, AddInv DEF AddConstraint
<1>3. CASE Validate \/ Serve \/ UNCHANGED vars
  BY <1>3, ReadInv DEF Validate, Serve, vars
<1> QED
  BY <1>1, <1>2, <1>3 DEF Next

-----------------------------------------------------------------------------
(* Theorems                                                                 *)

\* The inductive invariant: constraints are between pulses of the sequence and hold, and
\* the budget's charges are those of its pulses (sequence.rs 95-193).
THEOREM Invariance == Spec => []IInv
<1>1. Init => awg \in BOOLEAN
  BY DEF Init
<1> QED
  BY <1>1, InitInv, StepInv, PTL DEF Spec

\* Whatever is appended after it, an accepted constraint goes on holding on the rounded
\* times: a validated sequence never fails for a constraint (sequence.rs 112-234).
THEOREM ConstraintsStay == Spec => []ConstraintsKept
<1>1. IInv => ConstraintsKept
  BY DEF IInv
<1> QED
  BY <1>1, Invariance, PTL

\* No append drives a qubit into the blocking part of its T2, as long as each pulse lists
\* a qubit once (sequence.rs 132-152, budget.rs 205-221).
THEOREM BudgetNeverExceeded == Spec => []BudgetKept
<1>1. IInv => BudgetKept
  BY DEF IInv
<1> QED
  BY <1>1, Invariance, PTL
-----------------------------------------------------------------------------
(* The server's rules                                                       *)

\* What the server answered last agrees with its rules; what it was sent is a message.
ServedInv ==
  /\ DOMAIN pulses \subseteq Ids /\ IsFiniteSet(DOMAIN pulses)
  /\ request \in RequestType
  /\ served = "accepted" => ServerErrors(request) = {}
  /\ served = "rejected" => ServerErrors(request) # {}

\* A time on the grid stays where it is.
LEMMA OnGridStays ==
  ASSUME NEW grid \in Nat \ {0}, NEW t \in Nat, t % grid = 0
  PROVE  Rounded(t, grid) * grid = t
<1> DEFINE k == t \div grid
           d == 2 * grid
           q == (2 * t + grid) \div d
           r == (2 * t + grid) % d
<1>1. t = grid * k /\ k \in Int
  OBVIOUS
<1>2. d \in Nat \ {0} /\ 2 * t + grid \in Nat
  OBVIOUS
<1>3. 2 * t + grid = d * q + r /\ r \in 0..(d - 1) /\ q \in Int
  <2>1. \A x \in Nat, y \in Nat \ {0} : x = y * (x \div y) + (x % y) /\ x % y \in 0..(y - 1) /\ x \div y \in Int
    OBVIOUS
  <2> HIDE DEF d
  <2>. QED
    BY <1>2, <2>1
<1>4. 2 * t + grid = d * k + grid
  BY <1>1
<1> HIDE DEF k, q, r
<1>5. d * (q - k) = grid - r
  BY <1>1, <1>2, <1>3, <1>4
<1>6. q = k
  <2>1. ~(q - k >= 1)
    <3>1. q - k >= 1 => d * (q - k) >= d
      BY <1>1, <1>2, <1>3
    <3>. QED
      BY <1>2, <1>3, <1>5, <3>1
  <2>2. ~(q - k <= -1)
    <3>1. q - k <= -1 => d * (q - k) <= -d
      BY <1>1, <1>2, <1>3
    <3>. QED
      BY <1>2, <1>3, <1>5, <3>1
  <2>. QED
    BY <1>1, <1>3, <2>1, <2>2
<1>7. Rounded(t, grid) = k
  BY <1>6 DEF Rounded, q
<1>. QED
  BY <1>1, <1>7

\* Of some positions of a sequence one is the last.
LEMMA LastExists == ASSUME NEW n \in Nat, NEW T, T \subseteq 1..n, T # {} PROVE \E k \in T : \A m \in T : m <= k
<1> DEFINE from == {m..n : m \in T}
           R == StrictSubsetOrdering(Nat)
<1>1. from \subseteq FiniteSubsetsOf(Nat) /\ from # {}
  <2>1. ASSUME NEW m \in T PROVE m..n \in FiniteSubsetsOf(Nat)
    <3>1. m \in Nat /\ IsFiniteSet(m..n) /\ m..n \subseteq Nat
      BY <2>1, FS_Interval
    <3>. QED
      BY <3>1 DEF FiniteSubsetsOf
  <2>. QED
    BY <2>1
<1>2. PICK U \in from : \A V \in from : ~(<<V, U>> \in R)
  <2>1. IsWellFoundedOn(R, FiniteSubsetsOf(Nat))
    BY FS_StrictSubsetOrderingWellFounded
  <2>. QED
    BY <1>1, <2>1, WFMin
<1>3. PICK k \in T : U = k..n
  BY <1>2
<1>4. ASSUME NEW m \in T, ~(m <= k) PROVE FALSE
  <2>1. m \in 1..n /\ k \in 1..n /\ k < m
    BY <1>4
  <2>2. m..n \subseteq k..n /\ k \in k..n /\ k \notin m..n /\ k..n \subseteq Nat
    BY <2>1
  <2>3. m..n # U /\ m..n \subseteq U /\ m..n \in SUBSET Nat /\ U \in SUBSET Nat
    BY <1>3, <2>1, <2>2
  <2>4. <<m..n, U>> \in R
    BY <2>3 DEF StrictSubsetOrdering
  <2>. QED
    BY <1>2, <1>4, <2>4
<1>. QED
  BY <1>4

\* The map has every identifier of the list, each with a pulse of that identifier.
LEMMA PulseMapIs ==
  ASSUME NEW S, NEW sent \in Seq(S)
  PROVE  /\ DOMAIN PulseMap(sent) = {sent[n].id : n \in DOMAIN sent}
         /\ \A id \in DOMAIN PulseMap(sent) : \E n \in DOMAIN sent : sent[n].id = id /\ PulseMap(sent)[id] = sent[n]
<1>1. DOMAIN PulseMap(sent) = {sent[n].id : n \in DOMAIN sent}
  BY DEF PulseMap
<1>2. ASSUME NEW id \in DOMAIN PulseMap(sent)
      PROVE  \E n \in DOMAIN sent : sent[n].id = id /\ PulseMap(sent)[id] = sent[n]
  <2> DEFINE T == {n \in DOMAIN sent : sent[n].id = id}
             last == CHOOSE n \in DOMAIN sent : sent[n].id = id /\ \A m \in DOMAIN sent : sent[m].id = id => m <= n
  <2>1. T \subseteq 1..Len(sent) /\ Len(sent) \in Nat /\ T # {}
    BY <1>1
  <2>2. PICK k \in T : \A m \in T : m <= k
    BY <2>1, LastExists
  <2>3. last \in DOMAIN sent /\ sent[last].id = id
    BY <2>2
  <2>4. PulseMap(sent)[id] = sent[last]
    BY <1>1 DEF PulseMap
  <2>. QED
    BY <2>3, <2>4
<1>. QED
  BY <1>1, <1>2

\* The message of a sequence has its pulses, each under its identifier, and its constraints.
LEMMA SentIs ==
  ASSUME IInv, ServedInv
  PROVE  /\ Sent \in RequestType /\ Sent.constraints = constraints
         /\ {Sent.pulses[n].id : n \in DOMAIN Sent.pulses} = DOMAIN pulses
         /\ \A n \in DOMAIN Sent.pulses : LET m == Sent.pulses[n] IN
              m.id \in DOMAIN pulses /\ m.start = pulses[m.id].start /\ m.duration = pulses[m.id].duration
<1> DEFINE N == Cardinality(DOMAIN pulses)
           ids == CHOOSE f \in [1..N -> DOMAIN pulses] : {f[n] : n \in DOMAIN f} = DOMAIN pulses
           messages == [n \in DOMAIN ids |-> [id |-> ids[n], start |-> pulses[ids[n]].start,
                                             duration |-> pulses[ids[n]].duration]]
<1>1. N \in Nat /\ \E f \in [1..N -> DOMAIN pulses] : {f[n] : n \in DOMAIN f} = DOMAIN pulses
  <2>1. N \in Nat /\ ExistsBijection(1..N, DOMAIN pulses)
    BY FS_CardinalityType DEF ServedInv
  <2>2. PICK f \in Surjection(1..N, DOMAIN pulses) : TRUE
    BY <2>1 DEF ExistsBijection, Bijection
  <2>. QED
    BY <2>1, <2>2 DEF Surjection
<1>2. ids \in [1..N -> DOMAIN pulses] /\ {ids[n] : n \in 1..N} = DOMAIN pulses
  BY <1>1
<1> HIDE DEF ids, N
<1>3. \A id \in DOMAIN pulses : id \in Ids /\ pulses[id].start \in Nat /\ pulses[id].duration \in Nat
  BY DEF IInv, Built, ServedInv, PulseType
<1>4. messages \in Seq(MessagePulse)
  <2>1. \A n \in 1..N : messages[n] \in MessagePulse
    BY <1>2, <1>3 DEF MessagePulse
  <2>2. messages \in [1..N -> MessagePulse]
    BY <1>2, <2>1
  <2>. QED
    BY <1>1, <2>2
<1>5. Sent = [pulses |-> messages, constraints |-> constraints]
  BY DEF Sent, ids, N
<1>6. constraints \in Seq(MessageConstraint)
  <2>1. ConstraintType \subseteq MessageConstraint
    BY DEF ConstraintType, MessageConstraint
  <2>2. constraints \in [1..Len(constraints) -> ConstraintType] /\ Len(constraints) \in Nat
    BY DEF IInv, Built
  <2>3. constraints \in [1..Len(constraints) -> MessageConstraint]
    BY <2>1, <2>2
  <2>. QED
    BY <2>2, <2>3
<1>7. Sent.pulses = messages /\ Sent.constraints = constraints /\ DOMAIN messages = 1..N
      /\ \A n \in 1..N : messages[n] = [id |-> ids[n], start |-> pulses[ids[n]].start,
                                        duration |-> pulses[ids[n]].duration]
  BY <1>2, <1>5
<1>8. Sent \in RequestType
  BY <1>4, <1>5, <1>6 DEF RequestType
<1> HIDE DEF messages
<1>9. ASSUME NEW n \in DOMAIN Sent.pulses
      PROVE  LET m == Sent.pulses[n] IN
               m.id \in DOMAIN pulses /\ m.start = pulses[m.id].start /\ m.duration = pulses[m.id].duration
  <2>1. n \in 1..N /\ ids[n] \in DOMAIN pulses
    BY <1>2, <1>7
  <2>. QED
    BY <1>7, <2>1
<1>10. {Sent.pulses[n].id : n \in DOMAIN Sent.pulses} = DOMAIN pulses
  <2>1. \A n \in 1..N : Sent.pulses[n].id = ids[n]
    BY <1>7
  <2>2. {Sent.pulses[n].id : n \in 1..N} = {ids[n] : n \in 1..N}
    BY <2>1
  <2>. QED
    BY <1>2, <1>7, <2>2
<1>. QED
  BY <1>7, <1>8, <1>9, <1>10

\* What the two rules ask, kind by kind.
LEMMA RulesByKind ==
  ASSUME NEW c, NEW a, NEW b
  PROVE  LET gap == b.start - (a.start + a.duration)
             back == a.start - (b.start + b.duration)
         IN /\ c.kind = "sequential" => (Check(c, a, b, 0) <=> gap >= c.tolerance - 0)
                                        /\ (ServerCheck(c, a, b) <=> gap >= -c.tolerance)
            /\ c.kind = "max_delay" => (Check(c, a, b, 0) <=> gap <= c.tolerance + 0)
                                       /\ (ServerCheck(c, a, b) <=> gap <= c.tolerance)
            /\ c.kind = "simultaneous" => (Check(c, a, b, 0) <=> Abs(a.start - b.start) <= c.tolerance + 0)
                                          /\ (ServerCheck(c, a, b) <=> Together(c, a, b))
            /\ c.kind = "min_gap" => (Check(c, a, b, 0) <=> (IF a.start <= b.start THEN gap ELSE back) >= c.tolerance + 0)
                                     /\ (ServerCheck(c, a, b) <=> gap >= c.tolerance)
            /\ c.kind = "aligned" => ServerCheck(c, a, b)
BY DEF Check, ServerCheck

\* An accepted request: its constraints are between its pulses and, where the two rules
\* ask the same, hold.
LEMMA AcceptedSays ==
  ASSUME ServedInv, served = "accepted", OnGrid(request), NEW k \in DOMAIN request.constraints
  PROVE  LET c == request.constraints[k] map == PulseMap(request.pulses) IN
           /\ Resolved(request, c)
           /\ c.kind \in {"aligned", "unspecified", "sequential"} \/ Check(c, map[c.a], map[c.b], 0)
<1> DEFINE c == request.constraints[k]
           map == PulseMap(request.pulses)
           a == map[c.a]
           b == map[c.b]
<1>1. {c.a, c.b} \subseteq DOMAIN map /\ ServerCheck(c, a, b)
  BY DEF ServedInv, ServerErrors
<1>2. request.pulses \in Seq(MessagePulse)
  BY DEF ServedInv, RequestType
<1>3. /\ a.start \in Int /\ b.start \in Int /\ a.duration \in Int /\ b.duration \in Int
      /\ a.duration >= 0 /\ b.duration >= 0
      /\ a.start % Ns = 0 /\ b.start % Ns = 0
  <2>1. ASSUME NEW id \in DOMAIN map
        PROVE  map[id].start \in Int /\ map[id].duration \in Int /\ map[id].duration >= 0 /\ map[id].start % Ns = 0
    <3>1. PICK n \in DOMAIN request.pulses : map[id] = request.pulses[n]
      BY <1>2, PulseMapIs
    <3>2. request.pulses[n] \in MessagePulse
      BY <1>2
    <3>. QED
      BY <3>1, <3>2 DEF OnGrid, MessagePulse
  <2>. QED
    BY <1>1, <2>1
<1>4. c.tolerance \in Int /\ c.tolerance >= 0 /\ c.kind \in Kinds \cup {"unspecified"}
  <2>1. c \in MessageConstraint
    BY DEF ServedInv, RequestType
  <2>. QED
    BY <2>1 DEF OnGrid, MessageConstraint
<1> HIDE DEF a, b, c, map
<1>5. ASSUME c.kind = "max_delay" PROVE Check(c, a, b, 0)
  BY <1>1, <1>3, <1>4, <1>5, RulesByKind
<1>6. ASSUME c.kind = "simultaneous" PROVE Check(c, a, b, 0)
  <2> DEFINE apart == Abs(a.start - b.start)
  <2>1. apart <= c.tolerance \/ 100 * apart <= Ns
    BY <1>1, <1>6, RulesByKind DEF Together
  <2>2. apart \in Nat /\ (apart = 0 \/ apart >= Ns)
    <3>1. a.start = Ns * (a.start \div Ns) /\ b.start = Ns * (b.start \div Ns)
          /\ a.start \div Ns \in Int /\ b.start \div Ns \in Int
      BY <1>3, ClockAssumption
    <3> DEFINE m == (a.start \div Ns) - (b.start \div Ns)
    <3>2. a.start - b.start = Ns * m /\ m \in Int
      BY <3>1, ClockAssumption
    <3> HIDE DEF m
    <3>3. m >= 1 => Ns * m >= Ns
      BY <3>2, ClockAssumption
    <3>4. m <= -1 => Ns * m <= -Ns
      BY <3>2, ClockAssumption
    <3>5. m = 0 => Ns * m = 0
      BY ClockAssumption
    <3>6. a.start - b.start = 0 \/ a.start - b.start >= Ns \/ a.start - b.start <= -Ns
      BY <3>2, <3>3, <3>4, <3>5
    <3>. QED
      BY <1>3, <3>6, ClockAssumption DEF Abs
  <2>3. apart <= c.tolerance
    BY <1>4, <2>1, <2>2, ClockAssumption
  <2>. QED
    BY <1>4, <1>6, <2>3, RulesByKind
<1>7. ASSUME c.kind = "min_gap" PROVE Check(c, a, b, 0)
  <2>1. b.start - (a.start + a.duration) >= c.tolerance
    BY <1>1, <1>7, RulesByKind
  <2>. QED
    BY <1>3, <1>4, <1>7, <2>1, RulesByKind
<1>8. c.kind \in {"aligned", "unspecified", "sequential"} \/ Check(c, a, b, 0)
  BY <1>4, <1>5, <1>6, <1>7 DEF Kinds
<1>. QED
  BY <1>1, <1>8 DEF Resolved, a, b, c, map

\* A rejected sequence that was built on a clock that moves nothing: a minimum gap names
\* its pulses backwards.
LEMMA RejectedSays ==
  ASSUME IInv, ServedInv, served = "rejected", request = Sent, ~awg, OnGrid(request)
  PROVE  \E k \in DOMAIN request.constraints :
           request.constraints[k].kind = "min_gap" /\ ~InOrder(request, request.constraints[k])
<1> DEFINE map == PulseMap(request.pulses)
<1>1. /\ request \in RequestType /\ request.constraints = constraints
      /\ {request.pulses[n].id : n \in DOMAIN request.pulses} = DOMAIN pulses
      /\ \A n \in DOMAIN request.pulses :
           /\ request.pulses[n].id \in DOMAIN pulses
           /\ request.pulses[n].start = pulses[request.pulses[n].id].start
           /\ request.pulses[n].duration = pulses[request.pulses[n].id].duration
  BY SentIs
<1>2. request.pulses \in Seq(MessagePulse)
  BY <1>1 DEF RequestType
<1>3. DOMAIN map = DOMAIN pulses
  BY <1>1, <1>2, PulseMapIs
<1>4. ASSUME NEW id \in DOMAIN pulses
      PROVE  /\ map[id].start \in Nat /\ map[id].duration \in Nat
             /\ StartNs(pulses[id]) = map[id].start /\ DurationNs(pulses[id]) = map[id].duration
  <2>1. PICK n \in DOMAIN request.pulses : request.pulses[n].id = id /\ map[id] = request.pulses[n]
    <3>1. id \in DOMAIN map
      BY <1>3
    <3>. QED
      BY <1>2, <3>1, PulseMapIs
  <2>2. map[id].start = pulses[id].start /\ map[id].duration = pulses[id].duration
    BY <1>1, <2>1
  <2>3. pulses[id].start \in Nat /\ pulses[id].duration \in Nat
    BY DEF IInv, Built, PulseType
  <2>4. pulses[id].start % Ns = 0 /\ pulses[id].duration % Ns = 0
    BY <2>1, <2>2 DEF OnGrid
  <2>5. Rounded(pulses[id].start, Ns) * Ns = pulses[id].start /\ Rounded(pulses[id].duration, Ns) * Ns = pulses[id].duration
    BY <2>3, <2>4, ClockAssumption, OnGridStays
  <2>. QED
    BY <2>2, <2>3, <2>5 DEF StartNs, DurationNs, QuantizedNs, Grid
<1>5. PICK k \in DOMAIN constraints :
        ~({constraints[k].a, constraints[k].b} \subseteq DOMAIN map
          /\ ServerCheck(constraints[k], map[constraints[k].a], map[constraints[k].b]))
  BY <1>1 DEF ServedInv, ServerErrors
<1> DEFINE c == constraints[k]
           a == map[c.a]
           b == map[c.b]
<1>6. c.a \in DOMAIN pulses /\ c.b \in DOMAIN pulses /\ c \in ConstraintType
  BY DEF IInv, Resolves, Built
<1>7. ~ServerCheck(c, a, b)
  BY <1>3, <1>5, <1>6
<1>8. Check(c, a, b, 0)
  <2>1. Check(c, Placed(pulses[c.a]), Placed(pulses[c.b]), 0)
    BY DEF IInv, ConstraintsKept, ConstraintIssues, Holds, JitterOfTwo
  <2>2. /\ Placed(pulses[c.a]).start = a.start /\ Placed(pulses[c.a]).duration = a.duration
        /\ Placed(pulses[c.b]).start = b.start /\ Placed(pulses[c.b]).duration = b.duration
    BY <1>4, <1>6 DEF Placed
  <2>. QED
    BY <2>1, <2>2 DEF Check
<1>9. /\ a.start \in Nat /\ b.start \in Nat /\ a.duration \in Nat /\ b.duration \in Nat
      /\ c.tolerance \in Nat /\ c.kind \in Kinds
  BY <1>4, <1>6 DEF ConstraintType
<1> HIDE DEF a, b, c, map
<1>10. c.kind = "min_gap" /\ ~(a.start <= b.start)
  <2>1. c.kind # "sequential"
    BY <1>7, <1>8, <1>9, RulesByKind
  <2>2. c.kind # "max_delay"
    BY <1>7, <1>8, <1>9, RulesByKind
  <2>3. c.kind # "simultaneous"
    BY <1>7, <1>8, <1>9, RulesByKind DEF Together, Abs
  <2>4. c.kind # "aligned"
    BY <1>7, RulesByKind
  <2>5. c.kind = "min_gap"
    BY <1>9, <2>1, <2>2, <2>3, <2>4 DEF Kinds
  <2>. QED
    BY <1>7, <1>8, <1>9, <2>5, RulesByKind
<1>. QED
  BY <1>1, <1>3, <1>6, <1>10 DEF InOrder, Resolved, a, b, c, map

LEMMA ServedInit == Init => ServedInv
<1> SUFFICES ASSUME Init PROVE ServedInv
  OBVIOUS
<1>1. DOMAIN pulses = {}
  BY DEF Init
<1>2. NoRequest \in RequestType
  BY DEF NoRequest, RequestType
<1>. QED
  BY <1>1, <1>2, FS_EmptySet DEF Init, ServedInv

LEMMA ServedStep == IInv /\ ServedInv /\ [Next]_vars => ServedInv'
<1> SUFFICES ASSUME IInv, ServedInv, [Next]_vars PROVE ServedInv'
  OBVIOUS
<1>1. NoRequest \in RequestType
  BY DEF NoRequest, RequestType
<1>2. ASSUME NEW id \in Ids, NEW qubits \in QubitLists, NEW start \in Starts, NEW duration \in Durations,
             AppendPulse(id, qubits, start, duration)
      PROVE  ServedInv'
  <2>1. DOMAIN pulses' = DOMAIN pulses \cup {id} /\ request' = NoRequest /\ served' = "none"
    BY <1>2 DEF AppendPulse
  <2>2. IsFiniteSet(DOMAIN pulses')
    BY <2>1, FS_AddElement DEF ServedInv
  <2>. QED
    BY <1>1, <2>1, <2>2 DEF ServedInv
<1>3. ASSUME NEW c \in Asked, AddConstraint(c) PROVE ServedInv'
  BY <1>1, <1>3 DEF AddConstraint, ServedInv
<1>4. CASE Validate \/ UNCHANGED vars
  BY <1>4 DEF Validate, vars, ServedInv, ServerErrors
<1>5. CASE Serve
  <2>1. request' \in RequestType
    BY <1>5, SentIs, CallerAssumption DEF Serve
  <2>2. pulses' = pulses /\ served' = IF ServerErrors(request') = {} THEN "accepted" ELSE "rejected"
    BY <1>5 DEF Serve
  <2>3. ServerErrors(request)' = ServerErrors(request')
    BY DEF ServerErrors, PulseMap, ServerCheck, Together, Abs
  <2>. QED
    BY <2>1, <2>2, <2>3 DEF ServedInv
<1>. QED
  BY <1>2, <1>3, <1>4, <1>5 DEF Next

\* Where the clock moves nothing and nothing jitters, the server accepts a valid sequence
\* unless a minimum gap names its pulses backwards, and what it accepts, of any client,
\* breaks at most alignments and sequential gaps (validate.rs 39-176, constraints.rs 112-197).
THEOREM RulesCompared == Spec => []RulesAgree
<1>1. Init => IInv /\ awg \in BOOLEAN /\ ServedInv
  BY InitInv, ServedInit DEF Init
<1>2. IInv /\ awg \in BOOLEAN /\ ServedInv /\ [Next]_vars => (IInv /\ awg \in BOOLEAN /\ ServedInv)'
  BY StepInv, ServedStep
<1>3. IInv /\ ServedInv => RulesAgree
  <2> SUFFICES ASSUME IInv, ServedInv, ~awg, OnGrid(request)
               PROVE  /\ served = "rejected" /\ request = Sent =>
                           \E k \in DOMAIN request.constraints :
                             request.constraints[k].kind = "min_gap" /\ ~InOrder(request, request.constraints[k])
                      /\ served = "accepted" =>
                           \A k \in DOMAIN request.constraints :
                             LET c == request.constraints[k] map == PulseMap(request.pulses) IN
                               /\ Resolved(request, c)
                               /\ c.kind \in {"aligned", "unspecified", "sequential"} \/ Check(c, map[c.a], map[c.b], 0)
    BY DEF RulesAgree
  <2>1. served = "rejected" /\ request = Sent =>
          \E k \in DOMAIN request.constraints :
            request.constraints[k].kind = "min_gap" /\ ~InOrder(request, request.constraints[k])
    BY RejectedSays
  <2>. QED
    BY <2>1, AcceptedSays
<1>. QED
  BY <1>1, <1>2, <1>3, PTL DEF Spec

\* Charges are natural numbers.
LEMMA ChargedTyped ==
  ASSUME awg \in BOOLEAN, spent \in [Qubits -> Nat], NEW qubits \in Seq(Qubits), NEW p \in PulseType
  PROVE  Charged(qubits, DurationNs(p)) \in [Qubits -> Nat]
<1>1. DurationNs(p) \in Nat
  <2>1. Grid \in Nat \ {0} /\ p.duration \in Nat
    BY ClockAssumption DEF Grid, PulseType
  <2> DEFINE x == 2 * p.duration + Grid
             y == 2 * Grid
  <2>2. x \in Nat /\ y \in Nat \ {0}
    BY <2>1
  <2>3. x \div y \in Nat
    <3> HIDE DEF x, y
    <3>. QED
      BY <2>2
  <2>. QED
    BY <2>1, <2>3 DEF DurationNs, QuantizedNs, Rounded
<1>2. ASSUME NEW q \in Qubits PROVE Occurrences(q, qubits) \in Nat
  <2>1. IsFiniteSet(DOMAIN qubits) /\ IsFiniteSet({i \in DOMAIN qubits : qubits[i] = q})
    BY FS_Interval, FS_Subset
  <2>. QED
    BY <2>1, FS_CardinalityType DEF Occurrences
<1>3. ASSUME NEW q \in Qubits PROVE spent[q] + DurationNs(p) * Occurrences(q, qubits) \in Nat
  <2>1. \A x, y, z \in Nat : x + y * z \in Nat
    OBVIOUS
  <2>. QED
    BY <1>1, <1>2, <2>1
<1>. QED
  BY <1>3 DEF Charged

\* Type correctness: charges never fall below zero and what is kept of a request is one.
THEOREM TypeCorrect == Spec => []TypeOK
<1>1. Init => IInv /\ ServedInv /\ TypeOK
  <2>1. NoRequest \in RequestType
    BY DEF NoRequest, RequestType
  <2>. QED
    BY <2>1, InitInv, ServedInit, CallerAssumption DEF Init, TypeOK
<1>2. IInv /\ ServedInv /\ TypeOK /\ [Next]_vars => (IInv /\ ServedInv /\ TypeOK)'
  <2> SUFFICES ASSUME IInv, ServedInv, TypeOK, [Next]_vars PROVE (IInv /\ ServedInv /\ TypeOK)'
    OBVIOUS
  <2>0. IInv' /\ ServedInv'
    BY StepInv, ServedStep DEF TypeOK
  <2>1. request' \in RequestType
    BY <2>0 DEF ServedInv
  <2>2. ASSUME NEW id \in Ids, NEW qubits \in QubitLists, NEW start \in Starts, NEW duration \in Durations,
               AppendPulse(id, qubits, start, duration)
        PROVE  TypeOK'
    <3>1. MakePulse(qubits, start, duration) \in PulseType /\ qubits \in Seq(Qubits)
      BY PulseTyped, CallerAssumption DEF TypeOK
    <3>2. spent' \in [Qubits -> Nat]
      BY <2>2, <3>1, ChargedTyped DEF AppendPulse, TypeOK
    <3>3. DOMAIN pulses' = DOMAIN pulses \cup {id} /\ pulses' \in [DOMAIN pulses' -> PulseType]
      BY <2>0, <2>2 DEF AppendPulse, IInv, Built
    <3>. QED
      BY <2>1, <2>2, <3>2, <3>3 DEF AppendPulse, TypeOK
  <2>3. ASSUME NEW c \in Asked, AddConstraint(c) PROVE TypeOK'
    <3>1. constraints' \in Seq(ConstraintType)
      BY <2>0 DEF IInv, Built
    <3>. QED
      BY <2>1, <2>3, <3>1 DEF AddConstraint, TypeOK
  <2>4. CASE Validate
    BY <2>0, <2>1, <2>4 DEF Validate, TypeOK
  <2>5. CASE Serve
    BY <2>0, <2>1, <2>5 DEF Serve, TypeOK
  <2>6. CASE UNCHANGED vars
    BY <2>0, <2>6 DEF vars, TypeOK
  <2>. QED
    BY <2>0, <2>2, <2>3, <2>4, <2>5, <2>6 DEF Next
<1>. QED
  BY <1>1, <1>2, PTL DEF Spec
================================================================================
