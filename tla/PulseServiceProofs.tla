-------------------------- MODULE PulseServiceProofs --------------------------
(***************************************************************************)
(* Proofs about PulseService, for any number of handlers, backends, requests  *)
(* and batches: what a handler's answers say of what it ran, and on which       *)
(* backend, whatever is registered and removed while it awaits.               *)
(***************************************************************************)
EXTENDS PulseService, FiniteSetTheorems, TLAPS

Working == {"lookup", "info", "execute"}

\* A call works on the first member without an answer, and a batch that stops at an
\* error has met none.
Underway(c) ==
  /\ Len(c.results) <= Len(c.todo)
  /\ c.stop => c.rpc = "batch"
  /\ c.at \in Working => /\ Len(c.results) < Len(c.todo)
                         /\ c.stop => \A i \in DOMAIN c.results : c.results[i] = "ok"
  /\ c.at \in {"info", "execute"} => c.held \in Objects
  /\ c.at = "execute" => c.rpc \in Runs
  /\ c.at \in {"survey", "probe"} => c.todo = <<>> /\ c.ran = <<>>

\* The backend calls are those of the members answered, and of the one that executes now.
RanInOrder(c) ==
  /\ \A i, j \in DOMAIN c.ran : i < j => c.ran[i].member < c.ran[j].member
  /\ \A e \in DOMAIN c.ran : c.ran[e].member <= Len(c.results) + (IF c.at = "execute" THEN 1 ELSE 0)
  /\ c.at = "execute" => \E e \in DOMAIN c.ran : c.ran[e].member = Len(c.results) + 1
  /\ c.rpc \in Runs => \A i \in DOMAIN c.results :
       (\E e \in DOMAIN c.ran : c.ran[e].member = i) <=> c.results[i] \in {"ok", "backend_error"}

Validated(c) == \A e \in DOMAIN c.ran : RequestValid(c.todo[c.ran[e].member], c.ran[e].object)

\* Each answer is counted once, and what was skipped was skipped for an error.
Accounted(c) ==
  /\ c.ok = Count(c.results, {"ok"})
  /\ c.skipped = Count(c.results, {"aborted"})
  /\ c.ok + c.failed + c.skipped = Len(c.results)
  /\ c.at = "idle" => Len(c.results) = Len(c.todo)
  /\ \A i \in DOMAIN c.results : c.results[i] = "aborted" <=>
       c.stop /\ \E j \in 1..(i - 1) : c.results[j] # "ok"

CallInv(c) == Underway(c) /\ RanInOrder(c) /\ Validated(c) /\ Accounted(c)

IInv == TypeOK /\ \A t \in Tasks : CallInv(task[t])

-----------------------------------------------------------------------------
(* Counting answers                                                         *)

LEMMA CountTyped ==
  ASSUME NEW s \in Seq(Statuses), NEW S
  PROVE  Count(s, S) \in Nat /\ IsFiniteSet({i \in DOMAIN s : s[i] \in S})
<1>1. IsFiniteSet({i \in DOMAIN s : s[i] \in S})
  BY FS_Interval, FS_Subset
<1> QED
  BY <1>1, FS_CardinalityType DEF Count

LEMMA CountNone == Count(<<>>, {"ok"}) = 0 /\ Count(<<>>, {"aborted"}) = 0
<1>1. \A S : {i \in DOMAIN <<>> : <<>>[i] \in S} = {}
  OBVIOUS
<1> QED
  BY <1>1, FS_EmptySet DEF Count

LEMMA DisjointUnion ==
  ASSUME NEW A, IsFiniteSet(A), NEW B, IsFiniteSet(B), \A x \in A : x \notin B
  PROVE  Cardinality(A \cup B) = Cardinality(A) + Cardinality(B)
<1>1. A \cap B = {}
  OBVIOUS
<1>2. Cardinality(A \cap B) = 0
  BY <1>1, FS_EmptySet
<1>3. Cardinality(A) \in Nat /\ Cardinality(B) \in Nat
  BY FS_CardinalityType
<1>4. Cardinality(A \cup B) = Cardinality(A) + Cardinality(B) - Cardinality(A \cap B)
  BY FS_Union
<1> QED
  BY <1>2, <1>3, <1>4

\* One more answer, and then as many skipped as follow.
LEMMA CountMore ==
  ASSUME NEW old \in Seq(Statuses), NEW new \in Seq(Statuses), NEW skipped \in Nat,
         NEW status \in Statuses \ {"aborted"},
         Len(new) = Len(old) + 1 + skipped,
         \A i \in 1..Len(old) : new[i] = old[i],
         new[Len(old) + 1] = status,
         \A i \in (Len(old) + 2)..Len(new) : new[i] = "aborted"
  PROVE  /\ Count(new, {"ok"}) = Count(old, {"ok"}) + (IF status = "ok" THEN 1 ELSE 0)
         /\ Count(new, {"aborted"}) = Count(old, {"aborted"}) + skipped
<1> DEFINE okOld == {i \in DOMAIN old : old[i] \in {"ok"}}
           okNew == {i \in DOMAIN new : new[i] \in {"ok"}}
           abOld == {i \in DOMAIN old : old[i] \in {"aborted"}}
           abNew == {i \in DOMAIN new : new[i] \in {"aborted"}}
           tail == (Len(old) + 2)..Len(new)
           this == Len(old) + 1
<1>1. IsFiniteSet(okOld) /\ IsFiniteSet(abOld)
  BY CountTyped
<1>2. DOMAIN old = 1..Len(old) /\ DOMAIN new = 1..Len(new) /\ Len(old) \in Nat /\ Len(new) \in Nat
  OBVIOUS
<1>3. /\ Count(new, {"ok"}) = Cardinality(okNew) /\ Count(old, {"ok"}) = Cardinality(okOld)
      /\ Count(new, {"aborted"}) = Cardinality(abNew) /\ Count(old, {"aborted"}) = Cardinality(abOld)
  BY DEF Count
<1>4. IsFiniteSet(tail) /\ Cardinality(tail) = skipped
  <2>1. Len(new) - (Len(old) + 2) + 1 = skipped /\ Len(old) + 2 \in Int /\ Len(new) \in Int
    BY <1>2
  <2>2. IsFiniteSet(tail) /\ Cardinality(tail) =
          IF Len(old) + 2 > Len(new) THEN 0 ELSE Len(new) - (Len(old) + 2) + 1
    BY <2>1, FS_Interval
  <2>3. (IF Len(old) + 2 > Len(new) THEN 0 ELSE Len(new) - (Len(old) + 2) + 1) = skipped
    BY <1>2
  <2> QED
    BY <2>2, <2>3
<1>5. /\ \A i \in abOld : i \notin tail
      /\ this \notin okOld
  BY <1>2
<1>6. abNew = abOld \cup tail
  <2>1. ASSUME NEW i PROVE i \in abNew <=> i \in abOld \/ i \in tail
    BY <1>2
  <2> HIDE DEF abNew, abOld, tail
  <2> QED
    BY <2>1
<1>7. status = "ok" => okNew = okOld \cup {this}
  <2>1. ASSUME status = "ok", NEW i PROVE i \in okNew <=> i \in okOld \/ i = this
    BY <1>2, <2>1
  <2> HIDE DEF okNew, okOld, this
  <2> QED
    BY <2>1
<1>8. status # "ok" => okNew = okOld
  <2>1. ASSUME status # "ok", NEW i PROVE i \in okNew <=> i \in okOld
    BY <1>2, <2>1
  <2> HIDE DEF okNew, okOld
  <2> QED
    BY <2>1
<1> HIDE DEF okOld, okNew, abOld, abNew, tail, this
<1>9. Cardinality(abNew) = Cardinality(abOld) + skipped
  BY <1>1, <1>4, <1>5, <1>6, DisjointUnion
<1>10. Cardinality(okOld) \in Nat
  BY <1>1, FS_CardinalityType
<1>11. Cardinality(okNew) = Cardinality(okOld) + (IF status = "ok" THEN 1 ELSE 0)
  <2>1. Cardinality(okOld \cup {this}) = Cardinality(okOld) + 1
    BY <1>1, <1>5, FS_AddElement
  <2>2. CASE status = "ok"
    BY <1>7, <2>1, <2>2
  <2>3. CASE status # "ok"
    <3>1. (IF status = "ok" THEN 1 ELSE 0) = 0
      BY <2>3
    <3> QED
      BY <1>8, <1>10, <2>3, <3>1
  <2> QED
    BY <2>2, <2>3
<1> QED
  BY <1>3, <1>9, <1>11

-----------------------------------------------------------------------------
(* Responding                                                               *)

Answers(old, status, skipped) == Append(old, status) \o [i \in 1..skipped |-> "aborted"]

LEMMA AnswersFacts ==
  ASSUME NEW old \in Seq(Statuses), NEW status \in Statuses, NEW skipped \in Nat
  PROVE  LET new == Answers(old, status, skipped) IN
         /\ new \in Seq(Statuses) /\ Len(new) = Len(old) + 1 + skipped
         /\ \A i \in 1..Len(old) : new[i] = old[i]
         /\ new[Len(old) + 1] = status
         /\ \A i \in (Len(old) + 2)..Len(new) : new[i] = "aborted"
<1> DEFINE first == Append(old, status)
           tail == [i \in 1..skipped |-> "aborted"]
           new == first \o tail
<1>1. /\ first \in Seq(Statuses) /\ Len(first) = Len(old) + 1
      /\ \A i \in 1..Len(old) : first[i] = old[i]
      /\ first[Len(old) + 1] = status
  OBVIOUS
<1>2. "aborted" \in Statuses
  BY DEF Statuses
<1>3. tail \in Seq(Statuses) /\ Len(tail) = skipped
  BY <1>2
<1>4. \A i \in 1..skipped : tail[i] = "aborted"
  OBVIOUS
<1> HIDE DEF first, tail
<1>5. new \in Seq(Statuses) /\ Len(new) = Len(old) + 1 + skipped
  BY <1>1, <1>3
<1>6. \A i \in 1..(Len(old) + 1) : new[i] = first[i]
  BY <1>1, <1>3
<1>7. \A i \in (Len(old) + 2)..(Len(old) + 1 + skipped) :
        new[i] = tail[i - (Len(old) + 1)] /\ i - (Len(old) + 1) \in 1..skipped
  BY <1>1, <1>3
<1>8. new = Answers(old, status, skipped)
  BY DEF Answers, first, tail
<1>9. Len(old) \in Nat
  OBVIOUS
<1> HIDE DEF new
<1>10. /\ \A i \in 1..Len(old) : i \in 1..(Len(old) + 1)
       /\ Len(old) + 1 \in 1..(Len(old) + 1)
  BY <1>9
<1>11. (\A i \in 1..Len(old) : new[i] = old[i]) /\ new[Len(old) + 1] = status
  BY <1>1, <1>6, <1>10
<1>12. \A i \in (Len(old) + 2)..Len(new) : new[i] = "aborted"
  <2> TAKE i \in (Len(old) + 2)..Len(new)
  <2>1. i \in (Len(old) + 2)..(Len(old) + 1 + skipped)
    BY <1>5
  <2> QED
    BY <1>4, <1>7, <2>1
<1> QED
  BY <1>5, <1>8, <1>11, <1>12

\* What one response does to a call: c before, d after.
Responded(c, d, status, skipped) ==
  /\ d \in TaskType
  /\ d.rpc = c.rpc /\ d.todo = c.todo /\ d.stop = c.stop /\ d.ran = c.ran
  /\ d.results = Answers(c.results, status, skipped)
  /\ d.ok = c.ok + (IF status = "ok" THEN 1 ELSE 0)
  /\ d.failed = c.failed + (IF status # "ok" THEN 1 ELSE 0)
  /\ d.skipped = c.skipped + skipped
  /\ d.at = IF Len(d.results) = Len(d.todo) THEN "idle" ELSE "lookup"
  /\ skipped > 0 => c.stop /\ status # "ok"
  /\ c.stop /\ status # "ok" => Len(d.results) = Len(c.todo)
  /\ Len(d.results) <= Len(c.todo)

LEMMA RespondFacts ==
  ASSUME TypeOK, NEW t \in Tasks, NEW status \in Statuses \ {"aborted"},
         Underway(task[t]), task[t].at \in Working, Respond(t, status)
  PROVE  /\ task' \in [Tasks -> TaskType]
         /\ \A u \in Tasks \ {t} : task'[u] = task[u]
         /\ \E skipped \in Nat : Responded(task[t], task'[t], status, skipped)
<1> DEFINE c == task[t]
           after == Len(c.todo) - Member(t)
           stopped == c.rpc = "batch" /\ c.stop /\ status # "ok"
           skipped == IF stopped THEN after ELSE 0
           d == [c EXCEPT !.results = Answers(@, status, skipped),
                          !.ok = IF status = "ok" THEN @ + 1 ELSE @,
                          !.failed = IF status # "ok" THEN @ + 1 ELSE @,
                          !.skipped = @ + skipped,
                          !.held = NoObject,
                          !.at = IF stopped \/ after = 0 THEN "idle" ELSE "lookup"]
<1>1. task' = [task EXCEPT ![t] = d]
  BY DEF Respond, Answers
<1>2. c \in TaskType
  BY DEF TypeOK
<1>3. /\ c.results \in Seq(Statuses) /\ c.todo \in Seq(Requests)
      /\ c.ok \in Nat /\ c.failed \in Nat /\ c.skipped \in Nat
      /\ Len(c.results) \in Nat /\ Len(c.todo) \in Nat /\ c.stop \in BOOLEAN
  BY <1>2 DEF TaskType
<1>4. Len(c.results) < Len(c.todo) /\ (c.stop => c.rpc = "batch")
  BY DEF Underway
<1>5. after = Len(c.todo) - (Len(c.results) + 1)
  BY DEF Member
<1>6. after \in Nat
  <2>1. Len(c.results) \in Nat /\ Len(c.todo) \in Nat /\ Len(c.results) < Len(c.todo)
    BY <1>3, <1>4
  <2>2. Len(c.todo) - (Len(c.results) + 1) \in Nat
    BY <2>1
  <2> QED
    BY <1>5, <2>2
<1> HIDE DEF after
<1>7. skipped \in Nat /\ (skipped > 0 => c.stop /\ status # "ok")
  BY <1>3, <1>6
<1>8. LET new == Answers(c.results, status, skipped) IN
      new \in Seq(Statuses) /\ Len(new) = Len(c.results) + 1 + skipped
  <2>1. c.results \in Seq(Statuses) /\ skipped \in Nat /\ status \in Statuses
    BY <1>3, <1>7
  <2> HIDE DEF c, skipped, stopped
  <2> QED
    BY <2>1, AnswersFacts
<1>9. /\ (stopped \/ after = 0) <=> Len(c.results) + 1 + skipped = Len(c.todo)
      /\ c.stop /\ status # "ok" => Len(c.results) + 1 + skipped = Len(c.todo)
      /\ Len(c.results) + 1 + skipped <= Len(c.todo)
  <2>1. Len(c.results) \in Nat /\ Len(c.todo) \in Nat /\ Len(c.results) + 1 + after = Len(c.todo)
    <3>1. Len(c.results) \in Nat /\ Len(c.todo) \in Nat
      BY <1>3
    <3>2. \A a, b \in Nat : a + 1 + (b - (a + 1)) = b
      OBVIOUS
    <3>3. Len(c.results) + 1 + (Len(c.todo) - (Len(c.results) + 1)) = Len(c.todo)
      BY <3>1, <3>2
    <3> QED
      BY <1>5, <3>1, <3>3
  <2>2. c.stop /\ status # "ok" => stopped
    BY <1>4
  <2>3. CASE stopped
    <3>1. skipped = after
      BY <2>3
    <3> QED
      BY <2>1, <2>3, <3>1
  <2>4. CASE ~stopped
    <3>1. skipped = 0
      BY <2>4
    <3> HIDE DEF stopped, skipped
    <3> QED
      BY <1>6, <2>1, <2>2, <2>4, <3>1
  <2> QED
    BY <2>3, <2>4
<1> HIDE DEF skipped, stopped
<1>10. /\ d.results = Answers(c.results, status, skipped)
       /\ d.rpc = c.rpc /\ d.todo = c.todo /\ d.stop = c.stop /\ d.ran = c.ran
       /\ d.ok = (IF status = "ok" THEN c.ok + 1 ELSE c.ok)
       /\ d.failed = (IF status # "ok" THEN c.failed + 1 ELSE c.failed)
       /\ d.skipped = c.skipped + skipped
       /\ d.at = (IF stopped \/ after = 0 THEN "idle" ELSE "lookup")
  BY <1>2 DEF TaskType
<1>11. d \in TaskType
  <2>1. Answers(c.results, status, skipped) \in Seq(Statuses)
    BY <1>8
  <2>2. c.ok + 1 \in Nat /\ c.failed + 1 \in Nat /\ c.skipped + skipped \in Nat
    BY <1>3, <1>7
  <2>3. /\ (IF status = "ok" THEN c.ok + 1 ELSE c.ok) \in Nat
        /\ (IF status # "ok" THEN c.failed + 1 ELSE c.failed) \in Nat
    BY <1>3, <2>2
  <2>4. (IF stopped \/ after = 0 THEN "idle" ELSE "lookup")
          \in {"idle", "lookup", "info", "execute", "survey", "probe"}
    OBVIOUS
  <2> QED
    BY <1>2, <2>1, <2>2, <2>3, <2>4 DEF TaskType
<1> HIDE DEF d
<1>12. Responded(c, d, status, skipped)
  <2>1. d.ok = c.ok + (IF status = "ok" THEN 1 ELSE 0) /\ d.failed = c.failed + (IF status # "ok" THEN 1 ELSE 0)
    BY <1>3, <1>10
  <2>2. Len(d.results) = Len(c.results) + 1 + skipped
    BY <1>8, <1>10
  <2>3. d.at = IF Len(d.results) = Len(d.todo) THEN "idle" ELSE "lookup"
    BY <1>9, <1>10, <2>2
  <2> QED
    BY <1>7, <1>9, <1>10, <1>11, <2>1, <2>2, <2>3 DEF Responded
<1>13. task'[t] = d /\ task' \in [Tasks -> TaskType] /\ \A u \in Tasks \ {t} : task'[u] = task[u]
  BY <1>1, <1>11 DEF TypeOK
<1> QED
  BY <1>7, <1>12, <1>13

-----------------------------------------------------------------------------
(* What each kind of step keeps of a call: c before, d after                *)

LEMMA ElementTyped ==
  ASSUME NEW S, NEW s \in Seq(S), NEW i \in DOMAIN s
  PROVE  s[i] \in S
OBVIOUS

LEMMA CallTyped ==
  ASSUME NEW c \in TaskType
  PROVE  /\ c.results \in Seq(Statuses) /\ c.todo \in Seq(Requests)
         /\ c.ran \in Seq([member : Nat, object : Objects])
         /\ c.ok \in Nat /\ c.failed \in Nat /\ c.skipped \in Nat
         /\ c.stop \in BOOLEAN /\ c.rpc \in Rpcs
         /\ c.at \in {"idle", "lookup", "info", "execute", "survey", "probe"}
         /\ DOMAIN c.results = 1..Len(c.results) /\ Len(c.results) \in Nat
         /\ DOMAIN c.ran = 1..Len(c.ran) /\ Len(c.ran) \in Nat /\ Len(c.todo) \in Nat
         /\ \A e \in DOMAIN c.ran : c.ran[e].member \in Nat /\ c.ran[e].object \in Objects
<1>1. /\ c.results \in Seq(Statuses) /\ c.todo \in Seq(Requests)
      /\ c.ran \in Seq([member : Nat, object : Objects])
      /\ c.ok \in Nat /\ c.failed \in Nat /\ c.skipped \in Nat
      /\ c.stop \in BOOLEAN /\ c.rpc \in Rpcs
      /\ c.at \in {"idle", "lookup", "info", "execute", "survey", "probe"}
  BY DEF TaskType
<1>2. /\ DOMAIN c.results = 1..Len(c.results) /\ Len(c.results) \in Nat
      /\ DOMAIN c.ran = 1..Len(c.ran) /\ Len(c.ran) \in Nat /\ Len(c.todo) \in Nat
  BY <1>1
<1>3. ASSUME NEW e \in DOMAIN c.ran PROVE c.ran[e].member \in Nat /\ c.ran[e].object \in Objects
  <2>1. c.ran[e] \in [member : Nat, object : Objects]
    BY <1>1, ElementTyped
  <2> QED
    BY <2>1
<1> QED
  BY <1>1, <1>2, <1>3

SameCall(c, d) == /\ d.rpc = c.rpc /\ d.todo = c.todo /\ d.stop = c.stop /\ d.ran = c.ran
                  /\ d.results = c.results /\ d.ok = c.ok /\ d.failed = c.failed
                  /\ d.skipped = c.skipped

LEMMA Moved ==
  ASSUME NEW c \in TaskType, NEW d \in TaskType, CallInv(c), SameCall(c, d),
         \/ d.at = c.at /\ d.held = c.held
         \/ c.at = "lookup" /\ d.at = "info" /\ d.held \in Objects
         \/ c.at \in {"survey", "probe"} /\ d.at \in {"idle", "survey", "probe"}
  PROVE  CallInv(d)
<1> USE DEF SameCall
<1>1. Validated(d)
  BY DEF CallInv, Validated
<1>2. Underway(d)
  BY DEF CallInv, Underway, Working
<1>3. RanInOrder(d)
  <2>1. d.at = "execute" <=> c.at = "execute"
    OBVIOUS
  <2>2. (IF d.at = "execute" THEN 1 ELSE 0) = (IF c.at = "execute" THEN 1 ELSE 0)
    BY <2>1
  <2>3. d.rpc = c.rpc /\ d.ran = c.ran /\ d.results = c.results
    OBVIOUS
  <2>4. RanInOrder(c)
    BY DEF CallInv
  <2>5. \A e \in DOMAIN d.ran : d.ran[e].member <= Len(d.results) + (IF d.at = "execute" THEN 1 ELSE 0)
    <3>1. \A e \in DOMAIN c.ran : c.ran[e].member <= Len(c.results) + (IF c.at = "execute" THEN 1 ELSE 0)
      BY <2>4 DEF RanInOrder
    <3> QED
      BY <2>2, <2>3, <3>1, Zenon
  <2>6. d.at = "execute" => \E e \in DOMAIN d.ran : d.ran[e].member = Len(d.results) + 1
    BY <2>1, <2>3, <2>4, Zenon DEF RanInOrder
  <2>7. \A i, j \in DOMAIN d.ran : i < j => d.ran[i].member < d.ran[j].member
    BY <2>3, <2>4, Zenon DEF RanInOrder
  <2>8. ASSUME d.rpc \in Runs, NEW i \in DOMAIN d.results
        PROVE  (\E e \in DOMAIN d.ran : d.ran[e].member = i) <=> d.results[i] \in {"ok", "backend_error"}
    <3>1. c.rpc \in Runs /\ i \in DOMAIN c.results
      BY <2>3, <2>8
    <3>2. (\E e \in DOMAIN c.ran : c.ran[e].member = i) <=> c.results[i] \in {"ok", "backend_error"}
      BY <2>4, <3>1 DEF RanInOrder
    <3> QED
      BY <2>3, <3>2
  <2> QED
    BY <2>5, <2>6, <2>7, <2>8, Zenon DEF RanInOrder
<1>4. Accounted(d)
  <2>1. d.at = "idle" => Len(d.results) = Len(d.todo)
    <3>1. CASE d.at = c.at
      BY <3>1 DEF CallInv, Accounted
    <3>2. CASE d.at = "idle" /\ c.at \in {"survey", "probe"}
      <4>1. c.todo = <<>> /\ Len(c.results) <= Len(c.todo) /\ Len(c.results) \in Nat
        BY <3>2, CallTyped DEF CallInv, Underway
      <4>2. Len(c.todo) = 0
        BY <4>1
      <4> QED
        BY <4>1, <4>2
    <3> QED
      BY <3>1, <3>2
  <2> QED
    BY <2>1 DEF CallInv, Accounted
<1> QED
  BY <1>1, <1>2, <1>3, <1>4 DEF CallInv

LEMMA Began ==
  ASSUME NEW d \in TaskType, d.results = <<>>, d.ran = <<>>, d.ok = 0, d.failed = 0, d.skipped = 0,
         d.stop => d.rpc = "batch",
         \/ d.at = "idle" /\ d.todo = <<>>
         \/ d.at = "lookup" /\ d.todo # <<>>
         \/ d.at = "survey" /\ d.todo = <<>>
  PROVE  CallInv(d)
<1>1. /\ d.todo \in Seq(Requests) /\ Len(d.todo) \in Nat
      /\ Len(d.results) = 0 /\ DOMAIN d.results = {} /\ DOMAIN d.ran = {}
  BY CallTyped
<1>2. d.todo # <<>> => Len(d.todo) > 0
  BY <1>1
<1>3. d.todo = <<>> => Len(d.todo) = 0
  OBVIOUS
<1>4. Underway(d)
  BY <1>1, <1>2, <1>3 DEF Underway, Working
<1>5. RanInOrder(d) /\ Validated(d)
  BY <1>1 DEF RanInOrder, Validated
<1>6. Accounted(d)
  <2>1. Count(d.results, {"ok"}) = 0 /\ Count(d.results, {"aborted"}) = 0
    BY CountNone
  <2> QED
    BY <1>1, <1>3, <2>1 DEF Accounted
<1> QED
  BY <1>4, <1>5, <1>6 DEF CallInv

LEMMA Started ==
  ASSUME NEW c \in TaskType, NEW d \in TaskType, CallInv(c), c.at = "info", c.rpc \in Runs,
         d.rpc = c.rpc, d.todo = c.todo, d.stop = c.stop, d.results = c.results,
         d.ok = c.ok, d.failed = c.failed, d.skipped = c.skipped, d.held = c.held, d.at = "execute",
         d.ran = Append(c.ran, [member |-> Len(c.results) + 1, object |-> c.held]),
         RequestValid(c.todo[Len(c.results) + 1], c.held)
  PROVE  CallInv(d)
<1> DEFINE e == [member |-> Len(c.results) + 1, object |-> c.held]
           last == Len(c.ran) + 1
<1>1. c.ran \in Seq([member : Nat, object : Objects]) /\ Len(c.results) \in Nat /\ Len(c.ran) \in Nat
  BY CallTyped
<1>2. c.held \in Objects
  BY DEF CallInv, Underway
<1>3. /\ DOMAIN d.ran = 1..last /\ DOMAIN c.ran = 1..Len(c.ran)
      /\ \A i \in DOMAIN c.ran : d.ran[i] = c.ran[i]
      /\ d.ran[last] = e
  BY <1>1, <1>2
<1>4. e.member = Len(c.results) + 1 /\ e.object = c.held
  OBVIOUS
<1>5. \A i \in DOMAIN c.ran : c.ran[i].member \in Nat /\ c.ran[i].member <= Len(c.results)
  BY CallTyped DEF CallInv, RanInOrder
<1>6. \A i \in DOMAIN d.ran : i \in DOMAIN c.ran \/ i = last
  BY <1>1, <1>3
<1> HIDE DEF e
<1>7. Underway(d)
  BY DEF CallInv, Underway, Working
<1>8. Validated(d)
  BY <1>3, <1>4, <1>6 DEF CallInv, Validated
<1>9. Accounted(d)
  BY DEF CallInv, Accounted
<1>10. RanInOrder(d)
  <2>1. ASSUME NEW i \in DOMAIN d.ran, NEW j \in DOMAIN d.ran, i < j
        PROVE  d.ran[i].member < d.ran[j].member
    <3>1. i \in DOMAIN c.ran
      BY <1>1, <1>3, <2>1
    <3>2. CASE j \in DOMAIN c.ran
      BY <1>3, <2>1, <3>1, <3>2 DEF CallInv, RanInOrder
    <3>3. CASE j = last
      BY <1>1, <1>3, <1>4, <1>5, <3>1, <3>3
    <3> QED
      BY <1>6, <3>2, <3>3
  <2>2. ASSUME NEW i \in DOMAIN d.ran PROVE d.ran[i].member <= Len(d.results) + 1
    <3>1. CASE i = last
      BY <1>1, <1>3, <1>4, <3>1
    <3>2. CASE i \in DOMAIN c.ran
      BY <1>1, <1>3, <1>5, <3>2
    <3> QED
      BY <1>6, <3>1, <3>2
  <2>3. last \in DOMAIN d.ran /\ d.ran[last].member = Len(d.results) + 1
    BY <1>1, <1>3, <1>4
  <2>4. ASSUME NEW i \in DOMAIN d.results
        PROVE  (\E f \in DOMAIN d.ran : d.ran[f].member = i)
                 <=> d.results[i] \in {"ok", "backend_error"}
    <3>1. i # Len(c.results) + 1
      BY <1>1, CallTyped
    <3>2. ASSUME NEW f \in DOMAIN d.ran, d.ran[f].member = i
          PROVE  \E g \in DOMAIN c.ran : c.ran[g].member = i
      <4>1. f # last
        BY <1>3, <1>4, <3>1, <3>2
      <4> QED
        BY <1>3, <1>6, <3>2, <4>1
    <3>3. ASSUME NEW f \in DOMAIN c.ran, c.ran[f].member = i
          PROVE  \E g \in DOMAIN d.ran : d.ran[g].member = i
      <4>1. f \in DOMAIN d.ran
        BY <1>1, <1>3
      <4> QED
        BY <1>3, <3>3, <4>1
    <3>4. (\E f \in DOMAIN c.ran : c.ran[f].member = i) <=> c.results[i] \in {"ok", "backend_error"}
      BY DEF CallInv, RanInOrder
    <3> QED
      BY <3>2, <3>3, <3>4
  <2> QED
    BY <2>1, <2>2, <2>3, <2>4 DEF RanInOrder
<1> QED
  BY <1>7, <1>8, <1>9, <1>10 DEF CallInv

LEMMA Answered ==
  ASSUME NEW c \in TaskType, NEW d, NEW skipped \in Nat, NEW status \in Statuses \ {"aborted"},
         CallInv(c), c.at \in Working, Responded(c, d, status, skipped),
         c.rpc \in Runs => (c.at = "execute" <=> status \in {"ok", "backend_error"})
  PROVE  CallInv(d)
<1> DEFINE this == Len(c.results) + 1
<1>0. c.results \in Seq(Statuses)
  BY CallTyped
<1>1. /\ Len(c.results) \in Nat /\ this \in Nat /\ DOMAIN c.results = 1..Len(c.results)
      /\ c.ok \in Nat /\ c.failed \in Nat /\ c.skipped \in Nat
  BY CallTyped
<1>2. d \in TaskType
  BY DEF Responded
<1>3. /\ d.rpc = c.rpc /\ d.todo = c.todo /\ d.stop = c.stop /\ d.ran = c.ran
      /\ d.results = Answers(c.results, status, skipped)
      /\ d.at = IF Len(d.results) = Len(d.todo) THEN "idle" ELSE "lookup"
      /\ skipped > 0 => c.stop /\ status # "ok"
      /\ c.stop /\ status # "ok" => Len(d.results) = Len(d.todo)
      /\ Len(d.results) <= Len(d.todo)
  BY DEF Responded
<1>4. /\ d.results \in Seq(Statuses) /\ Len(d.results) = Len(c.results) + 1 + skipped
      /\ \A i \in 1..Len(c.results) : d.results[i] = c.results[i]
      /\ d.results[this] = status
      /\ \A i \in (Len(c.results) + 2)..Len(d.results) : d.results[i] = "aborted"
  BY <1>0, <1>3, AnswersFacts
<1>5. Len(d.results) \in Nat /\ DOMAIN d.results = 1..Len(d.results) /\ Len(d.todo) \in Nat
  BY <1>2, CallTyped
<1>6. \A i \in DOMAIN d.results :
        i \in DOMAIN c.results \/ i = this \/ i \in (Len(c.results) + 2)..Len(d.results)
  BY <1>1, <1>5
<1>7. c.stop => \A i \in DOMAIN c.results : c.results[i] = "ok"
  BY DEF CallInv, Underway
<1>8. \A e \in DOMAIN c.ran : c.ran[e].member \in Nat
  BY CallTyped
<1>9. \A e \in DOMAIN c.ran :
        /\ c.ran[e].member <= this
        /\ c.at # "execute" => c.ran[e].member <= Len(c.results)
  <2> TAKE e \in DOMAIN c.ran
  <2>1. c.ran[e].member <= Len(c.results) + (IF c.at = "execute" THEN 1 ELSE 0)
    BY DEF CallInv, RanInOrder
  <2>2. CASE c.at = "execute"
    BY <1>1, <1>8, <2>1, <2>2
  <2>3. CASE c.at # "execute"
    BY <1>1, <1>8, <2>1, <2>3
  <2> QED
    BY <2>2, <2>3
<1>10. d.at \in {"idle", "lookup"} /\ (d.at = "idle" <=> Len(d.results) = Len(d.todo))
  BY <1>3
<1>11. Underway(d)
  <2>1. c.stop => c.rpc = "batch"
    BY DEF CallInv, Underway
  <2>2. d.at = "lookup" => Len(d.results) < Len(d.todo)
    BY <1>3, <1>5, <1>10
  <2>3. ASSUME d.at = "lookup", d.stop, NEW i \in DOMAIN d.results PROVE d.results[i] = "ok"
    <3>1. status = "ok" /\ skipped = 0 /\ c.stop
      BY <1>3, <1>10, <2>3
    <3>2. i \in DOMAIN c.results \/ i = this
      BY <1>1, <1>4, <1>5, <1>6, <3>1
    <3> QED
      BY <1>1, <1>4, <1>7, <3>1, <3>2
  <2> QED
    BY <1>3, <1>10, <2>1, <2>2, <2>3 DEF Underway, Working
<1>12. RanInOrder(d)
  <2>1. \A i, j \in DOMAIN d.ran : i < j => d.ran[i].member < d.ran[j].member
    BY <1>3 DEF CallInv, RanInOrder
  <2>2. \A e \in DOMAIN d.ran : d.ran[e].member <= Len(d.results) + (IF d.at = "execute" THEN 1 ELSE 0)
    <3>1. (IF d.at = "execute" THEN 1 ELSE 0) = 0
      BY <1>10
    <3>2. this <= Len(d.results)
      BY <1>1, <1>4
    <3>3. ASSUME NEW e \in DOMAIN c.ran PROVE c.ran[e].member <= Len(d.results)
      <4>1. c.ran[e].member \in Nat /\ c.ran[e].member <= this
        BY <1>8, <1>9
      <4> QED
        BY <1>1, <1>5, <3>2, <4>1
    <3> QED
      BY <1>3, <1>5, <3>1, <3>3
  <2>3. ASSUME d.rpc \in Runs, NEW i \in DOMAIN d.results
        PROVE  (\E e \in DOMAIN d.ran : d.ran[e].member = i) <=> d.results[i] \in {"ok", "backend_error"}
    <3>1. c.rpc \in Runs
      BY <1>3, <2>3
    <3>2. CASE i \in DOMAIN c.results
      <4>1. (\E e \in DOMAIN c.ran : c.ran[e].member = i) <=> c.results[i] \in {"ok", "backend_error"}
        BY <3>1, <3>2 DEF CallInv, RanInOrder
      <4>2. d.results[i] = c.results[i]
        BY <1>1, <1>4, <3>2
      <4> QED
        BY <1>3, <4>1, <4>2
    <3>3. CASE i = this
      <4>1. c.at = "execute" => \E e \in DOMAIN c.ran : c.ran[e].member = this
        BY DEF CallInv, RanInOrder
      <4>2. ASSUME c.at # "execute", NEW e \in DOMAIN c.ran PROVE c.ran[e].member # this
        <5>1. c.ran[e].member \in Nat /\ c.ran[e].member <= Len(c.results)
          BY <1>8, <1>9, <4>2
        <5> QED
          BY <1>1, <5>1
      <4>3. d.results[i] = status
        BY <1>4, <3>3
      <4> QED
        BY <1>3, <3>1, <3>3, <4>1, <4>2, <4>3
    <3>4. CASE i \in (Len(c.results) + 2)..Len(d.results)
      <4>1. ASSUME NEW e \in DOMAIN c.ran PROVE c.ran[e].member # i
        <5>1. c.ran[e].member \in Nat /\ c.ran[e].member <= this
          BY <1>8, <1>9
        <5> QED
          BY <1>1, <1>5, <3>4, <5>1
      <4>2. d.results[i] = "aborted"
        BY <1>4, <3>4
      <4> QED
        BY <1>3, <4>1, <4>2
    <3> QED
      BY <1>6, <3>2, <3>3, <3>4
  <2> QED
    BY <1>10, <2>1, <2>2, <2>3 DEF RanInOrder
<1>13. Validated(d)
  BY <1>3 DEF CallInv, Validated
<1>14. Accounted(d)
  <2>1. /\ c.ok = Count(c.results, {"ok"}) /\ c.skipped = Count(c.results, {"aborted"})
        /\ c.ok + c.failed + c.skipped = Len(c.results)
    BY DEF CallInv, Accounted
  <2>2. /\ Count(d.results, {"ok"}) = Count(c.results, {"ok"}) + (IF status = "ok" THEN 1 ELSE 0)
        /\ Count(d.results, {"aborted"}) = Count(c.results, {"aborted"}) + skipped
    BY <1>0, <1>4, CountMore
  <2>3. /\ d.ok = c.ok + (IF status = "ok" THEN 1 ELSE 0)
        /\ d.failed = c.failed + (IF status # "ok" THEN 1 ELSE 0)
        /\ d.skipped = c.skipped + skipped
    BY DEF Responded
  <2>4. d.ok = Count(d.results, {"ok"}) /\ d.skipped = Count(d.results, {"aborted"})
    BY <2>1, <2>2, <2>3, Zenon
  <2>5. d.ok + d.failed + d.skipped = Len(d.results)
    <3>1. CASE status = "ok"
      <4>1. (IF status = "ok" THEN 1 ELSE 0) = 1 /\ (IF status # "ok" THEN 1 ELSE 0) = 0
        BY <3>1
      <4>2. d.ok = c.ok + 1 /\ d.failed = c.failed + 0
        BY <2>3, <4>1, Zenon
      <4>3. c.ok + 1 + (c.failed + 0) + (c.skipped + skipped) = c.ok + c.failed + c.skipped + 1 + skipped
        <5>1. c.ok \in Nat /\ c.failed \in Nat /\ c.skipped \in Nat
          BY <1>1
        <5> QED
          BY <5>1
      <4> QED
        BY <1>4, <2>1, <2>3, <4>2, <4>3, Zenon
    <3>2. CASE status # "ok"
      <4>1. (IF status = "ok" THEN 1 ELSE 0) = 0 /\ (IF status # "ok" THEN 1 ELSE 0) = 1
        BY <3>2
      <4>2. d.ok = c.ok + 0 /\ d.failed = c.failed + 1
        BY <2>3, <4>1, Zenon
      <4>3. c.ok + 0 + (c.failed + 1) + (c.skipped + skipped) = c.ok + c.failed + c.skipped + 1 + skipped
        <5>1. c.ok \in Nat /\ c.failed \in Nat /\ c.skipped \in Nat
          BY <1>1
        <5> QED
          BY <5>1
      <4> QED
        BY <1>4, <2>1, <2>3, <4>2, <4>3, Zenon
    <3> QED
      BY <3>1, <3>2
  <2>6. ASSUME NEW i \in DOMAIN d.results
        PROVE  d.results[i] = "aborted" <=> d.stop /\ \E j \in 1..(i - 1) : d.results[j] # "ok"
    <3>1. CASE i \in DOMAIN c.results
      <4>1. c.results[i] = "aborted" <=> c.stop /\ \E j \in 1..(i - 1) : c.results[j] # "ok"
        BY <3>1 DEF CallInv, Accounted
      <4>2. ASSUME NEW j \in 1..(i - 1) PROVE d.results[j] = c.results[j]
        <5>1. j \in 1..Len(c.results)
          BY <1>1, <3>1
        <5> QED
          BY <1>4, <5>1
      <4>3. d.results[i] = c.results[i]
        BY <1>1, <1>4, <3>1
      <4> QED
        BY <1>3, <4>1, <4>2, <4>3
    <3>2. CASE i = this
      <4>1. \A j \in 1..(i - 1) : j \in DOMAIN c.results /\ d.results[j] = c.results[j]
        BY <1>1, <1>4, <3>2
      <4> QED
        BY <1>3, <1>4, <1>7, <3>2, <4>1
    <3>3. CASE i \in (Len(c.results) + 2)..Len(d.results)
      <4>1. skipped > 0 /\ this \in 1..(i - 1)
        BY <1>1, <1>4, <1>5, <3>3
      <4> QED
        BY <1>3, <1>4, <3>3, <4>1
    <3> QED
      BY <1>6, <3>1, <3>2, <3>3
  <2> QED
    BY <1>10, <2>4, <2>5, <2>6 DEF Accounted
<1> QED
  BY <1>11, <1>12, <1>13, <1>14 DEF CallInv

-----------------------------------------------------------------------------
(* The invariant                                                            *)

LEMMA IdleTyped == IdleTask \in TaskType
<1>1. /\ <<>> \in Seq(Requests) /\ <<>> \in Seq(Statuses)
      /\ <<>> \in Seq([member : Nat, object : Objects])
  OBVIOUS
<1>2. [n \in Names |-> "absent"] \in [Names -> Health \cup Listing \cup {"absent"}]
  OBVIOUS
<1> QED
  BY <1>1, <1>2 DEF IdleTask, TaskType, Rpcs, Runs, Health

\* The other calls are where they were.
LEMMA OneCall ==
  ASSUME IInv, NEW t \in Tasks, task' \in [Tasks -> TaskType],
         \A u \in Tasks \ {t} : task'[u] = task[u], CallInv(task'[t])
  PROVE  \A u \in Tasks : CallInv(task'[u])
<1> TAKE u \in Tasks
<1>1. CASE u = t
  BY <1>1
<1>2. CASE u # t
  BY <1>2 DEF IInv
<1> QED
  BY <1>1, <1>2

TasksKept == task' \in [Tasks -> TaskType] /\ \A u \in Tasks : CallInv(task'[u])

LEMMA RespondKeeps ==
  ASSUME IInv, NEW t \in Tasks, NEW status \in Statuses \ {"aborted"}, Respond(t, status),
         task[t].at \in Working,
         task[t].rpc \in Runs => (task[t].at = "execute" <=> status \in {"ok", "backend_error"})
  PROVE  TasksKept
<1>1. task[t] \in TaskType /\ CallInv(task[t]) /\ Underway(task[t])
  BY DEF IInv, TypeOK, CallInv
<1>2. /\ task' \in [Tasks -> TaskType]
      /\ \A u \in Tasks \ {t} : task'[u] = task[u]
      /\ \E skipped \in Nat : Responded(task[t], task'[t], status, skipped)
  BY <1>1, RespondFacts DEF IInv
<1>3. PICK skipped \in Nat : Responded(task[t], task'[t], status, skipped)
  BY <1>2
<1>4. CallInv(task'[t])
  BY <1>1, <1>3, Answered
<1> QED
  BY <1>2, <1>4, OneCall DEF TasksKept

LEMMA ReceiveKeeps ==
  ASSUME IInv, NEW t \in Tasks, NEW rpc \in Rpcs, NEW members \in Seq(Requests), NEW stop \in BOOLEAN,
         stop => rpc = "batch", Receive(t, rpc, members, stop)
  PROVE  TasksKept
<1> DEFINE d == [IdleTask EXCEPT !.rpc = rpc, !.todo = members, !.stop = stop,
                                 !.at = IF members = <<>> THEN "idle" ELSE "lookup"]
<1>1. task' = [task EXCEPT ![t] = d]
  BY DEF Receive
<1>2. d \in TaskType
  BY IdleTyped DEF TaskType
<1>3. /\ d.results = <<>> /\ d.ran = <<>> /\ d.ok = 0 /\ d.failed = 0 /\ d.skipped = 0
      /\ d.rpc = rpc /\ d.todo = members /\ d.stop = stop
      /\ d.at = IF members = <<>> THEN "idle" ELSE "lookup"
  BY DEF IdleTask
<1> HIDE DEF d
<1>4. CallInv(d)
  BY <1>2, <1>3, Began
<1>5. task'[t] = d /\ task' \in [Tasks -> TaskType] /\ \A u \in Tasks \ {t} : task'[u] = task[u]
  BY <1>1, <1>2 DEF IInv, TypeOK
<1> QED
  BY <1>4, <1>5, OneCall DEF TasksKept

LEMMA ArriveKeeps ==
  ASSUME IInv, NEW t \in Tasks, Arrive(t)
  PROVE  TasksKept
<1>1. \A r \in Requests : <<r>> \in Seq(Requests)
  OBVIOUS
<1>2. ASSUME NEW r \in Requests, ReceivePulse(t, r) PROVE TasksKept
  BY <1>1, <1>2, ReceiveKeeps DEF ReceivePulse, Rpcs, Runs
<1>3. ASSUME NEW r \in Requests, ReceiveRest(t, r) PROVE TasksKept
  BY <1>1, <1>3, ReceiveKeeps DEF ReceiveRest, Rpcs, Runs
<1>4. ASSUME NEW r \in Requests, ReceiveInfo(t, r) PROVE TasksKept
  BY <1>1, <1>4, ReceiveKeeps DEF ReceiveInfo, Rpcs, Asks
<1>5. ASSUME NEW r \in Requests, ReceiveAsk(t, r) PROVE TasksKept
  <2>1. PICK rpc \in Asks \ {"info"} : Receive(t, rpc, <<r>>, FALSE)
    BY <1>5 DEF ReceiveAsk
  <2> QED
    BY <1>1, <2>1, ReceiveKeeps DEF Rpcs
<1>6. ASSUME NEW members \in Batches, NEW stop \in BOOLEAN, ReceiveBatch(t, members, stop)
      PROVE  TasksKept
  BY <1>6, ReceiveKeeps, RequestsAssumption DEF ReceiveBatch, Rpcs, Runs
<1>7. ASSUME NEW rpc \in Surveys, ReceiveSurvey(t, rpc) PROVE TasksKept
  <2> DEFINE listed == {n \in Names : Registry!Registered(n)}
             d == [IdleTask EXCEPT !.rpc = rpc, !.at = "survey", !.left = listed, !.kept = listed]
  <2>1. task' = [task EXCEPT ![t] = d]
    BY <1>7 DEF ReceiveSurvey
  <2>2. listed \in SUBSET Names
    OBVIOUS
  <2> HIDE DEF listed
  <2>3. d \in TaskType
    BY <2>2, IdleTyped DEF TaskType, Rpcs
  <2>4. /\ d.results = <<>> /\ d.ran = <<>> /\ d.ok = 0 /\ d.failed = 0 /\ d.skipped = 0
        /\ d.todo = <<>> /\ d.stop = FALSE /\ d.at = "survey"
    BY DEF IdleTask
  <2> HIDE DEF d
  <2>5. CallInv(d)
    BY <2>3, <2>4, Began
  <2>6. task'[t] = d /\ task' \in [Tasks -> TaskType] /\ \A u \in Tasks \ {t} : task'[u] = task[u]
    BY <2>1, <2>3 DEF IInv, TypeOK
  <2> QED
    BY <2>5, <2>6, OneCall DEF TasksKept
<1> QED
  BY <1>2, <1>3, <1>4, <1>5, <1>6, <1>7 DEF Arrive

\* A step of one call that neither answers nor runs a member.
LEMMA MovedKeeps ==
  ASSUME IInv, NEW t \in Tasks, task' \in [Tasks -> TaskType],
         \A u \in Tasks \ {t} : task'[u] = task[u], SameCall(task[t], task'[t]),
         \/ task'[t].at = task[t].at /\ task'[t].held = task[t].held
         \/ task[t].at = "lookup" /\ task'[t].at = "info" /\ task'[t].held \in Objects
         \/ task[t].at \in {"survey", "probe"} /\ task'[t].at \in {"idle", "survey", "probe"}
  PROVE  TasksKept
<1>1. task[t] \in TaskType /\ task'[t] \in TaskType /\ CallInv(task[t])
  BY DEF IInv, TypeOK
<1>2. CallInv(task'[t])
  BY <1>1, Moved
<1> QED
  BY <1>2, OneCall DEF TasksKept

LEMMA LookupKeeps ==
  ASSUME IInv, NEW t \in Tasks, Lookup(t)
  PROVE  TasksKept
<1> DEFINE o == BackendFor(Current(t))
<1>1. task[t].at = "lookup" /\ task[t].at \in Working /\ task[t].at # "execute"
  BY DEF Lookup, Working
<1>2. ASSUME NEW status \in {"invalid_argument", "not_found"}, Respond(t, status) PROVE TasksKept
  BY <1>1, <1>2, RespondKeeps DEF Statuses
<1>3. CASE o # NoObject /\ task' = [task EXCEPT ![t].held = o, ![t].at = "info"]
  <2>1. /\ task[t] \in TaskType /\ task[t].todo \in Seq(Requests)
        /\ Len(task[t].results) \in Nat /\ Len(task[t].todo) \in Nat
    BY CallTyped DEF IInv, TypeOK
  <2>2. Len(task[t].results) < Len(task[t].todo)
    BY <1>1 DEF IInv, CallInv, Underway
  <2>3. Current(t) \in Requests
    BY <2>1, <2>2 DEF Current, Member
  <2>4. Current(t) \in RequestType
    BY <2>3, RequestsAssumption
  <2>5. Current(t).backend \in Names \cup {NoName}
    BY <2>4 DEF RequestType
  <2>6. o \in Objects \cup {NoObject}
    BY <2>5 DEF BackendFor, Registry!DefaultObject, IInv, TypeOK
  <2>7. o \in Objects
    BY <1>3, <2>6
  <2> HIDE DEF o
  <2>8. task' = [task EXCEPT ![t] = [task[t] EXCEPT !.held = o, !.at = "info"]]
    BY <1>3, <2>1
  <2>9. [task[t] EXCEPT !.held = o, !.at = "info"] \in TaskType
    BY <2>1, <2>7 DEF TaskType
  <2>10. /\ task'[t] = [task[t] EXCEPT !.held = o, !.at = "info"]
         /\ task' \in [Tasks -> TaskType] /\ \A u \in Tasks \ {t} : task'[u] = task[u]
    BY <2>8, <2>9 DEF IInv, TypeOK
  <2>11. SameCall(task[t], task'[t]) /\ task'[t].at = "info" /\ task'[t].held = o
    BY <2>1, <2>10 DEF SameCall, TaskType
  <2> QED
    BY <1>1, <2>7, <2>10, <2>11, MovedKeeps
<1> QED
  BY <1>2, <1>3 DEF Lookup

LEMMA InfoKeeps ==
  ASSUME IInv, NEW t \in Tasks, InfoReturns(t)
  PROVE  TasksKept
<1>1. task[t].at = "info" /\ task[t].at \in Working /\ task[t].at # "execute"
  BY DEF InfoReturns, Working
<1>2. CASE Respond(t, AskFailed(task[t].rpc))
  <2>1. AskFailed(task[t].rpc) \in Statuses \ {"aborted"}
    BY DEF AskFailed, Statuses
  <2>2. task[t].rpc \in Runs => AskFailed(task[t].rpc) \notin {"ok", "backend_error"}
    BY DEF AskFailed, Runs
  <2> QED
    BY <1>1, <1>2, <2>1, <2>2, RespondKeeps
<1>3. CASE task[t].rpc \in Asks /\ Respond(t, "ok")
  BY <1>1, <1>3, RespondKeeps DEF Asks, Runs, Statuses
<1>4. CASE Respond(t, "invalid_argument")
  BY <1>1, <1>4, RespondKeeps DEF Statuses
<1>5. CASE /\ task[t].rpc \in Runs /\ RequestValid(Current(t), task[t].held)
           /\ task' = [task EXCEPT ![t].at = "execute",
                         ![t].ran = Append(@, [member |-> Member(t), object |-> task[t].held])]
  <2> DEFINE call == [member |-> Member(t), object |-> task[t].held]
             d == [task[t] EXCEPT !.at = "execute", !.ran = Append(@, call)]
  <2>1. /\ task[t] \in TaskType /\ task[t].ran \in Seq([member : Nat, object : Objects])
        /\ Len(task[t].results) \in Nat
    BY CallTyped DEF IInv, TypeOK
  <2>2. task[t].held \in Objects
    BY <1>1 DEF IInv, CallInv, Underway
  <2>3. call \in [member : Nat, object : Objects]
    BY <2>1, <2>2 DEF Member
  <2>4. task' = [task EXCEPT ![t] = d]
    BY <1>5
  <2>5. call = [member |-> Len(task[t].results) + 1, object |-> task[t].held]
    BY DEF Member
  <2> HIDE DEF call
  <2>6. Append(task[t].ran, call) \in Seq([member : Nat, object : Objects])
    BY <2>1, <2>3
  <2>7. d \in TaskType
    BY <2>1, <2>6 DEF TaskType
  <2>8. /\ d.rpc = task[t].rpc /\ d.todo = task[t].todo /\ d.stop = task[t].stop
        /\ d.results = task[t].results /\ d.ok = task[t].ok /\ d.failed = task[t].failed
        /\ d.skipped = task[t].skipped /\ d.held = task[t].held /\ d.at = "execute"
        /\ d.ran = Append(task[t].ran, call)
    BY <2>1 DEF TaskType
  <2> HIDE DEF d
  <2>9. RequestValid(task[t].todo[Len(task[t].results) + 1], task[t].held)
    BY <1>5 DEF Current, Member
  <2>10. CallInv(task[t])
    BY DEF IInv
  <2>11. CallInv(d)
    BY <1>1, <1>5, <2>1, <2>5, <2>7, <2>8, <2>9, <2>10, Started
  <2>12. task'[t] = d /\ task' \in [Tasks -> TaskType] /\ \A u \in Tasks \ {t} : task'[u] = task[u]
    BY <2>4, <2>7 DEF IInv, TypeOK
  <2> QED
    BY <2>11, <2>12, OneCall DEF TasksKept
<1> QED
  BY <1>2, <1>3, <1>4, <1>5 DEF InfoReturns

LEMMA ExecuteKeeps ==
  ASSUME IInv, NEW t \in Tasks, ExecuteReturns(t)
  PROVE  TasksKept
<1>1. PICK status \in {"ok", "backend_error"} : Respond(t, status)
  BY DEF ExecuteReturns
<1>2. task[t].at = "execute" /\ task[t].at \in Working
  BY DEF ExecuteReturns, Working
<1> QED
  BY <1>1, <1>2, RespondKeeps DEF Statuses

\* A survey moves on: neither the answers nor the history change.
LEMMA SurveyKeeps ==
  ASSUME IInv, NEW t \in Tasks, Survey(t) \/ \E status \in Health \cup Listing : ProbeReturns(t, status)
  PROVE  TasksKept
<1>1. /\ task[t] \in TaskType /\ task[t].left \in SUBSET Names
      /\ task[t].probing \in Names \cup {NoName}
      /\ task[t].seen \in [Names -> Health \cup Listing \cup {"absent"}]
      /\ task \in [Tasks -> TaskType]
  BY DEF IInv, TypeOK, TaskType
<1>2. SUFFICES ASSUME NEW d \in TaskType, task' = [task EXCEPT ![t] = d], SameCall(task[t], d),
                      task[t].at \in {"survey", "probe"}, d.at \in {"idle", "survey", "probe"}
               PROVE  TasksKept
  <2>1. CASE Survey(t)
    <3>1. task[t].at = "survey"
      BY <2>1 DEF Survey
    <3>2. CASE Await(t, "idle")
      <4> DEFINE d == [task[t] EXCEPT !.at = "idle"]
      <4>1. d \in TaskType /\ SameCall(task[t], d) /\ d.at = "idle"
        BY <1>1 DEF SameCall, TaskType
      <4>2. task' = [task EXCEPT ![t] = d]
        BY <3>2 DEF Await
      <4> QED
        BY <1>2, <3>1, <4>1, <4>2
    <3>3. ASSUME NEW n \in Names, task' = [task EXCEPT ![t].left = @ \ {n}]
          PROVE  TasksKept
      <4> DEFINE left == task[t].left \ {n}
                 d == [task[t] EXCEPT !.left = left]
      <4>1. task' = [task EXCEPT ![t] = d]
        BY <3>3
      <4>2. left \in SUBSET Names
        BY <1>1
      <4> HIDE DEF left
      <4>3. d \in TaskType /\ SameCall(task[t], d) /\ d.at = "survey"
        BY <1>1, <3>1, <4>2 DEF SameCall, TaskType
      <4> QED
        BY <1>2, <3>1, <4>1, <4>3
    <3>4. ASSUME NEW n \in Names,
                 task' = [task EXCEPT ![t].left = @ \ {n}, ![t].probing = n, ![t].at = "probe"]
          PROVE  TasksKept
      <4> DEFINE left == task[t].left \ {n}
                 d == [task[t] EXCEPT !.left = left, !.probing = n, !.at = "probe"]
      <4>1. task' = [task EXCEPT ![t] = d]
        BY <3>4
      <4>2. left \in SUBSET Names
        BY <1>1
      <4> HIDE DEF left
      <4>3. d \in TaskType /\ SameCall(task[t], d) /\ d.at = "probe"
        BY <1>1, <4>2 DEF SameCall, TaskType
      <4> QED
        BY <1>2, <3>1, <4>1, <4>3
    <3> QED
      BY <1>1, <2>1, <3>2, <3>3, <3>4 DEF Survey
  <2>2. ASSUME NEW status \in Health \cup Listing, ProbeReturns(t, status) PROVE TasksKept
    <3> DEFINE seen == [task[t].seen EXCEPT ![task[t].probing] = status]
               overall == Worse(task[t].overall, status)
               d == [task[t] EXCEPT !.at = "survey", !.probing = NoName,
                                    !.seen = seen, !.overall = overall]
    <3>1. seen \in [Names -> Health \cup Listing \cup {"absent"}]
      BY <1>1
    <3>2. overall \in Health
      <4>1. task[t].overall \in Health
        BY <1>1 DEF TaskType
      <4> QED
        BY <4>1 DEF Worse, Health
    <3>3. task' = [task EXCEPT ![t] = d]
      BY <2>2 DEF ProbeReturns
    <3> HIDE DEF seen, overall
    <3>4. d \in TaskType /\ SameCall(task[t], d) /\ d.at = "survey"
      BY <1>1, <3>1, <3>2 DEF SameCall, TaskType
    <3>5. task[t].at = "probe"
      BY <2>2 DEF ProbeReturns
    <3> QED
      BY <1>2, <3>3, <3>4, <3>5
  <2> QED
    BY <2>1, <2>2
<1>3. task'[t] = d /\ task' \in [Tasks -> TaskType] /\ \A u \in Tasks \ {t} : task'[u] = task[u]
  BY <1>1, <1>2
<1> QED
  BY <1>2, <1>3, MovedKeeps

-----------------------------------------------------------------------------
(* The theorems                                                             *)

LEMMA RegistryTyped ==
  ASSUME TypeOK, [Next]_vars
  PROVE  backends' \in [Names -> Objects \cup {NoObject}] /\ default' \in Names \cup {NoName}
<1> USE DEF TypeOK
<1>1. ASSUME NEW n \in Names, NEW o \in Objects, RegisterBackend(n, o)
      PROVE  backends' \in [Names -> Objects \cup {NoObject}] /\ default' \in Names \cup {NoName}
  BY <1>1 DEF RegisterBackend, Registry!Register
<1>2. ASSUME NEW n \in Names, SetDefaultBackend(n)
      PROVE  backends' \in [Names -> Objects \cup {NoObject}] /\ default' \in Names \cup {NoName}
  BY <1>2 DEF SetDefaultBackend, Registry!SetDefault
<1>3. ASSUME NEW n \in Names, UnregisterBackend(n)
      PROVE  backends' \in [Names -> Objects \cup {NoObject}] /\ default' \in Names \cup {NoName}
  BY <1>3 DEF UnregisterBackend, Registry!Unregister
<1>4. ASSUME NEW t \in Tasks, Arrive(t) \/ Proceed(t)
      PROVE  UNCHANGED <<backends, default>>
  BY <1>4 DEF Arrive, Proceed, ReceivePulse, ReceiveBatch, ReceiveInfo, ReceiveAsk, ReceiveRest,
              Receive, ReceiveSurvey, Lookup, InfoReturns, ExecuteReturns, Survey, ProbeReturns
<1> QED
  BY <1>1, <1>2, <1>3, <1>4 DEF Next, Admin, vars

\* Registering and removing backends leaves every call where it was.
LEMMA AdminKeeps ==
  ASSUME IInv, Admin
  PROVE  TasksKept
<1>1. CASE UNCHANGED task
  BY <1>1 DEF TasksKept, IInv, TypeOK
<1>2. ASSUME NEW n \in Names, UnregisterBackend(n) PROVE TasksKept
  <2>1. task' = [t \in Tasks |-> [task[t] EXCEPT !.kept = @ \ {n}]]
    BY <1>2 DEF UnregisterBackend
  <2>2. ASSUME NEW t \in Tasks PROVE task'[t] \in TaskType /\ CallInv(task'[t])
    <3> DEFINE kept == task[t].kept \ {n}
               d == [task[t] EXCEPT !.kept = kept]
    <3>1. task[t] \in TaskType /\ CallInv(task[t]) /\ task[t].kept \in SUBSET Names
      BY DEF IInv, TypeOK, TaskType
    <3>2. task'[t] = d
      BY <2>1
    <3>3. kept \in SUBSET Names
      BY <3>1
    <3> HIDE DEF kept
    <3>4. d \in TaskType /\ SameCall(task[t], d) /\ d.at = task[t].at /\ d.held = task[t].held
      BY <3>1, <3>3 DEF SameCall, TaskType
    <3>5. CallInv(d)
      BY <3>1, <3>4, Moved
    <3> QED
      BY <3>2, <3>4, <3>5
  <2>3. task' \in [Tasks -> TaskType]
    <3>1. task' = [t \in Tasks |-> task'[t]]
      BY <2>1
    <3> QED
      BY <2>2, <3>1
  <2> QED
    BY <2>2, <2>3 DEF TasksKept
<1> QED
  BY <1>1, <1>2 DEF Admin, RegisterBackend, SetDefaultBackend

LEMMA InvInit == Init => IInv
<1> SUFFICES ASSUME Init PROVE IInv
  OBVIOUS
<1>1. TypeOK
  BY IdleTyped DEF Init, TypeOK
<1>2. CallInv(IdleTask)
  BY IdleTyped, Began DEF IdleTask
<1> QED
  BY <1>1, <1>2 DEF Init, IInv

LEMMA InvStep == IInv /\ [Next]_vars => IInv'
<1> SUFFICES ASSUME IInv, [Next]_vars PROVE IInv'
  OBVIOUS
<1>1. TasksKept
  <2>1. CASE UNCHANGED vars
    BY <2>1 DEF vars, TasksKept, IInv, TypeOK
  <2>2. CASE Admin
    BY <2>2, AdminKeeps
  <2>3. ASSUME NEW t \in Tasks, Arrive(t) PROVE TasksKept
    BY <2>3, ArriveKeeps
  <2>4. ASSUME NEW t \in Tasks, Proceed(t) PROVE TasksKept
    BY <2>4, LookupKeeps, InfoKeeps, ExecuteKeeps, SurveyKeeps DEF Proceed
  <2> QED
    BY <2>1, <2>2, <2>3, <2>4 DEF Next
<1>2. backends' \in [Names -> Objects \cup {NoObject}] /\ default' \in Names \cup {NoName}
  BY RegistryTyped DEF IInv
<1>3. TypeOK'
  BY <1>1, <1>2 DEF TypeOK, TasksKept
<1>4. \A t \in Tasks : CallInv(task[t])'
  BY <1>1 DEF TasksKept, CallInv, Underway, RanInOrder, Validated, Accounted
<1> QED
  BY <1>3, <1>4 DEF IInv

\* The invariant the others follow from: every call is typed, works on its first
\* unanswered member, and has run, validated and counted what its answers say.
THEOREM Invariance == Spec => []IInv
BY InvInit, InvStep, PTL DEF Spec

\* Calls, registry and backends keep their types, whichever answers the backends give.
THEOREM TypeCorrect == Spec => []TypeOK
<1>1. IInv => TypeOK
  BY DEF IInv
<1> QED
  BY <1>1, Invariance, PTL

\* The backend that runs a pulse is the one whose size it was validated against,
\* whatever was registered or removed during the await in between (grpc.rs
\* 200-250, rest.rs 409-486).
THEOREM NeverMisvalidated == Spec => []ValidatedForExecutor
<1>1. IInv => ValidatedForExecutor
  BY DEF IInv, CallInv, Validated, ValidatedForExecutor
<1> QED
  BY <1>1, Invariance, PTL

\* A member reaches a backend at most once, and only if its answer says so (grpc.rs
\* 327-347).
THEOREM RunsAtMostOnce == Spec => []RanAsAnswered
<1>1. IInv => RanAsAnswered
  BY DEF IInv, CallInv, RanInOrder, RanAsAnswered
<1> QED
  BY <1>1, Invariance, PTL

\* A batch's answers are complete, in order, and counted as what they are; what was
\* skipped follows an error (grpc.rs 319-384).
THEOREM BatchesAddUp == Spec => []BatchAccounted
<1>1. IInv => BatchAccounted
  BY DEF IInv, CallInv, Accounted, BatchAccounted
<1> QED
  BY <1>1, Invariance, PTL

-----------------------------------------------------------------------------
(* Surveys                                                                  *)

\* A listed backend that has stayed is reported, still to be asked or being asked;
\* no name is reported twice, and overall is the verdict on those reported.
SurveyInv(t) == LET c == task[t] IN
  c.rpc \in Surveys =>
    /\ c.at \in {"idle", "survey", "probe"}
    /\ \A n \in c.kept : backends[n] # NoObject
    /\ \A n \in c.kept : c.seen[n] # "absent" \/ n \in c.left \/ (c.at = "probe" /\ n = c.probing)
    /\ c.at = "idle" => c.left = {}
    /\ \A n \in c.left : c.seen[n] = "absent"
    /\ c.at = "probe" => c.probing \in Names \ c.left /\ c.seen[c.probing] = "absent"
    /\ c.overall = "healthy" <=> \A n \in Names : c.seen[n] \notin {"degraded", "unavailable"}

Surveying == \A t \in Tasks : SurveyInv(t)

\* A call that is no survey has nothing to keep.
LEMMA OtherCalls ==
  ASSUME TypeOK, NEW t \in Tasks, UNCHANGED backends, \A u \in Tasks \ {t} : task'[u] = task[u],
         Surveying, SurveyInv(t)'
  PROVE  Surveying'
<1>1. ASSUME NEW u \in Tasks \ {t} PROVE SurveyInv(u)'
  BY DEF Surveying, SurveyInv
<1> QED
  BY <1>1 DEF Surveying

LEMMA SurveyingStays == IInv /\ Surveying /\ [Next]_vars => Surveying'
<1> SUFFICES ASSUME IInv, Surveying, [Next]_vars PROVE Surveying'
  OBVIOUS
<1>1. task \in [Tasks -> TaskType] /\ backends \in [Names -> Objects \cup {NoObject}] /\ TypeOK
  BY DEF IInv, TypeOK
<1>2. \A t \in Tasks : /\ task[t] \in TaskType /\ task[t].left \in SUBSET Names
                       /\ task[t].kept \in SUBSET Names
                       /\ task[t].seen \in [Names -> Health \cup Listing \cup {"absent"}]
                       /\ task[t].overall \in Health
  BY <1>1 DEF TaskType
<1>3. CASE UNCHANGED vars
  BY <1>3 DEF vars, Surveying, SurveyInv
<1>4. ASSUME NEW n \in Names, NEW o \in Objects, RegisterBackend(n, o) PROVE Surveying'
  <2>1. UNCHANGED task /\ \A m \in Names : backends[m] # NoObject => backends'[m] # NoObject
    BY <1>1, <1>4, NothingAssumption DEF RegisterBackend, Registry!Register
  <2> QED
    BY <1>2, <2>1 DEF Surveying, SurveyInv
<1>5. ASSUME NEW n \in Names, SetDefaultBackend(n) PROVE Surveying'
  BY <1>5 DEF SetDefaultBackend, Registry!SetDefault, Surveying, SurveyInv
<1>6. ASSUME NEW n \in Names, UnregisterBackend(n) PROVE Surveying'
  <2> SUFFICES ASSUME NEW t \in Tasks PROVE SurveyInv(t)'
    BY DEF Surveying
  <2> DEFINE kept == task[t].kept \ {n}
  <2>1. task'[t] = [task[t] EXCEPT !.kept = kept]
    BY <1>6 DEF UnregisterBackend
  <2>2. \A m \in kept : backends'[m] = backends[m]
    BY <1>1, <1>2, <1>6 DEF UnregisterBackend, Registry!Unregister
  <2>3. kept \subseteq task[t].kept
    OBVIOUS
  <2> HIDE DEF kept
  <2>4. /\ task'[t].kept = kept /\ task'[t].rpc = task[t].rpc /\ task'[t].at = task[t].at
        /\ task'[t].seen = task[t].seen /\ task'[t].left = task[t].left
        /\ task'[t].probing = task[t].probing /\ task'[t].overall = task[t].overall
    BY <1>2, <2>1 DEF TaskType
  <2>5. SurveyInv(t)
    BY DEF Surveying
  <2> QED
    BY <2>2, <2>3, <2>4, <2>5 DEF SurveyInv
<1>7. ASSUME NEW t \in Tasks, Arrive(t) PROVE Surveying'
  <2>1. ASSUME NEW rpc, NEW members, NEW stop, Receive(t, rpc, members, stop), rpc \notin Surveys
        PROVE  Surveying'
    <3> DEFINE d == [IdleTask EXCEPT !.rpc = rpc, !.todo = members, !.stop = stop,
                                     !.at = IF members = <<>> THEN "idle" ELSE "lookup"]
    <3>1. task' = [task EXCEPT ![t] = d] /\ UNCHANGED backends
      BY <2>1 DEF Receive
    <3>2. d.rpc = rpc
      BY DEF IdleTask
    <3> HIDE DEF d
    <3>3. task'[t].rpc \notin Surveys /\ \A u \in Tasks \ {t} : task'[u] = task[u]
      BY <1>1, <2>1, <3>1, <3>2
    <3>4. SurveyInv(t)'
      BY <3>3 DEF SurveyInv
    <3> QED
      BY <1>1, <3>1, <3>3, <3>4, OtherCalls
  <2>2. ASSUME NEW rpc \in Surveys, ReceiveSurvey(t, rpc) PROVE Surveying'
    <3> DEFINE listed == {n \in Names : Registry!Registered(n)}
               d == [IdleTask EXCEPT !.rpc = rpc, !.at = "survey", !.left = listed, !.kept = listed]
    <3>1. task' = [task EXCEPT ![t] = d] /\ UNCHANGED backends
      BY <2>2 DEF ReceiveSurvey
    <3>2. /\ d.at = "survey" /\ d.left = listed /\ d.kept = listed /\ d.overall = "healthy"
          /\ d.seen = [n \in Names |-> "absent"]
      BY DEF IdleTask
    <3>3. listed \subseteq Names /\ \A n \in listed : backends[n] # NoObject
      BY DEF Registry!Registered
    <3> HIDE DEF listed, d
    <3>4. task'[t] = d /\ \A u \in Tasks \ {t} : task'[u] = task[u]
      BY <1>1, <3>1
    <3>5. SurveyInv(t)'
      BY <3>1, <3>2, <3>3, <3>4 DEF SurveyInv
    <3> QED
      BY <1>1, <3>1, <3>4, <3>5, OtherCalls
  <2> QED
    BY <1>7, <2>1, <2>2 DEF Arrive, ReceivePulse, ReceiveRest, ReceiveInfo, ReceiveAsk,
                            ReceiveBatch, Asks, Surveys
<1>8. ASSUME NEW t \in Tasks, Lookup(t) \/ InfoReturns(t) \/ ExecuteReturns(t) PROVE Surveying'
  <2>1. task[t].at \in {"lookup", "info", "execute"} /\ UNCHANGED backends
    BY <1>8 DEF Lookup, InfoReturns, ExecuteReturns
  <2>2. task[t].rpc \notin Surveys
    BY <2>1 DEF Surveying, SurveyInv
  <2>3. /\ task'[t].rpc = task[t].rpc
        /\ \A u \in Tasks \ {t} : task'[u] = task[u]
    <3>1. ASSUME NEW status, Respond(t, status)
          PROVE  task'[t].rpc = task[t].rpc /\ \A u \in Tasks \ {t} : task'[u] = task[u]
      BY <1>1, <1>2, <3>1 DEF Respond, TaskType
    <3>2. ASSUME NEW o, NEW ran,
                 \/ task' = [task EXCEPT ![t].held = o, ![t].at = "info"]
                 \/ task' = [task EXCEPT ![t].at = "execute", ![t].ran = Append(@, ran)]
          PROVE  task'[t].rpc = task[t].rpc /\ \A u \in Tasks \ {t} : task'[u] = task[u]
      BY <1>1, <1>2, <3>2 DEF TaskType
    <3> QED
      BY <1>8, <3>1, <3>2 DEF Lookup, InfoReturns, ExecuteReturns
  <2>4. SurveyInv(t)'
    BY <2>2, <2>3 DEF SurveyInv
  <2> QED
    BY <1>1, <2>1, <2>3, <2>4, OtherCalls
<1>9. ASSUME NEW t \in Tasks, Survey(t) PROVE Surveying'
  <2> DEFINE c == task[t]
  <2>1. c.at = "survey" /\ UNCHANGED backends
    BY <1>9 DEF Survey
  <2>2. SurveyInv(t)
    BY DEF Surveying
  <2>3. CASE c.left = {} /\ Await(t, "idle")
    <3>1. /\ task'[t].at = "idle" /\ task'[t].rpc = c.rpc /\ task'[t].left = {}
          /\ task'[t].kept = c.kept /\ task'[t].seen = c.seen /\ task'[t].overall = c.overall
          /\ \A u \in Tasks \ {t} : task'[u] = task[u]
      BY <1>1, <1>2, <2>3 DEF Await, TaskType
    <3>2. SurveyInv(t)'
      BY <2>1, <2>2, <2>3, <3>1 DEF SurveyInv
    <3> QED
      BY <1>1, <2>1, <3>1, <3>2, OtherCalls
  <2>4. ASSUME NEW n \in c.left, backends[n] = NoObject, task' = [task EXCEPT ![t].left = @ \ {n}]
        PROVE  Surveying'
    <3>1. /\ task'[t].at = c.at /\ task'[t].rpc = c.rpc /\ task'[t].left = c.left \ {n}
          /\ task'[t].kept = c.kept /\ task'[t].seen = c.seen /\ task'[t].overall = c.overall
          /\ \A u \in Tasks \ {t} : task'[u] = task[u]
      BY <1>1, <1>2, <2>4 DEF TaskType
    <3>2. c.rpc \in Surveys => n \notin c.kept
      BY <2>2, <2>4 DEF SurveyInv
    <3>3. SurveyInv(t)'
      BY <2>1, <2>2, <3>1, <3>2 DEF SurveyInv
    <3> QED
      BY <1>1, <2>1, <3>1, <3>3, OtherCalls
  <2>5. ASSUME NEW n \in c.left,
               task' = [task EXCEPT ![t].left = @ \ {n}, ![t].probing = n, ![t].at = "probe"]
        PROVE  Surveying'
    <3>1. /\ task'[t].at = "probe" /\ task'[t].rpc = c.rpc /\ task'[t].left = c.left \ {n}
          /\ task'[t].probing = n
          /\ task'[t].kept = c.kept /\ task'[t].seen = c.seen /\ task'[t].overall = c.overall
          /\ \A u \in Tasks \ {t} : task'[u] = task[u]
      BY <1>1, <1>2, <2>5 DEF TaskType
    <3>2. n \in Names
      BY <1>2
    <3>3. SurveyInv(t)'
      BY <2>1, <2>2, <3>1, <3>2 DEF SurveyInv
    <3> QED
      BY <1>1, <2>1, <3>1, <3>3, OtherCalls
  <2> QED
    BY <1>9, <2>3, <2>4, <2>5 DEF Survey, Registry!Registered
<1>10. ASSUME NEW t \in Tasks, NEW status \in Health \cup Listing, ProbeReturns(t, status)
       PROVE  Surveying'
  <2> DEFINE c == task[t]
             seen == [c.seen EXCEPT ![c.probing] = status]
             overall == Worse(c.overall, status)
  <2>1. c.at = "probe" /\ UNCHANGED backends
    BY <1>10 DEF ProbeReturns
  <2>2. SurveyInv(t)
    BY DEF Surveying
  <2>3. /\ task'[t].at = "survey" /\ task'[t].rpc = c.rpc /\ task'[t].left = c.left
        /\ task'[t].kept = c.kept /\ task'[t].seen = seen /\ task'[t].overall = overall
        /\ \A u \in Tasks \ {t} : task'[u] = task[u]
    BY <1>1, <1>2, <1>10 DEF ProbeReturns, TaskType
  <2>4. \A n \in Names : seen[n] = IF n = c.probing THEN status ELSE c.seen[n]
    BY <1>2
  <2>5. status # "absent"
    BY DEF Health, Listing
  <2>6. overall = "healthy" <=> c.overall = "healthy" /\ status \notin {"degraded", "unavailable"}
    BY <1>2 DEF Worse, Health, Listing
  <2> HIDE DEF seen, overall
  <2>7. SurveyInv(t)'
    <3>1. CASE c.rpc \in Surveys
      <4> DEFINE fine(s) == \A n \in Names : s[n] \notin {"degraded", "unavailable"}
      <4>1. c.probing \in Names \ c.left /\ c.seen[c.probing] = "absent"
        BY <2>1, <2>2, <3>1 DEF SurveyInv
      <4>2. fine(seen) <=> fine(c.seen) /\ status \notin {"degraded", "unavailable"}
        BY <2>4, <4>1
      <4>3. c.overall = "healthy" <=> fine(c.seen)
        BY <2>2, <3>1 DEF SurveyInv
      <4>4. overall = "healthy" <=> fine(seen)
        BY <2>6, <4>2, <4>3
      <4>5. \A n \in c.kept : seen[n] # "absent" \/ n \in c.left
        BY <1>2, <2>1, <2>2, <2>4, <2>5, <3>1 DEF SurveyInv
      <4>6. \A n \in c.left : seen[n] = "absent"
        BY <1>2, <2>2, <2>4, <3>1, <4>1 DEF SurveyInv
      <4>7. \A n \in c.kept : backends[n] # NoObject
        BY <2>2, <3>1 DEF SurveyInv
      <4> QED
        BY <2>1, <2>3, <4>4, <4>5, <4>6, <4>7 DEF SurveyInv
    <3>2. CASE c.rpc \notin Surveys
      BY <2>3, <3>2 DEF SurveyInv
    <3> QED
      BY <3>1, <3>2
  <2> QED
    BY <1>1, <2>1, <2>3, <2>7, OtherCalls
<1> QED
  BY <1>3, <1>4, <1>5, <1>6, <1>7, <1>8, <1>9, <1>10 DEF Next, Admin, Proceed

\* A survey reports every backend that stayed registered, and "healthy" exactly when
\* all it reports is (grpc.rs 496-540, rest.rs 276-347).
THEOREM SurveysSound == Spec => []HealthReportSound
<1>1. Init => Surveying
  BY DEF Init, Surveying, SurveyInv, IdleTask, Surveys
<1>2. Surveying => HealthReportSound
  BY DEF Surveying, SurveyInv, HealthReportSound
<1> QED
  BY <1>1, <1>2, Invariance, SurveyingStays, PTL DEF Spec
===============================================================================
