---------------------------- MODULE RegistryProofs ----------------------------
(***************************************************************************)
(* Proofs about RegistryLocks for any number of callers, names and backend  *)
(* objects.  The inductive invariant says who holds which lock and what a   *)
(* call knows while it holds it.                                            *)
(***************************************************************************)
EXTENDS RegistryLocks, TLAPS

\* The points at which a call holds the writer bit of each lock, or is a reader.
BWriter == {"register_insert", "register_default", "register_set",
            "unregister_remove", "unregister_default", "unregister_clear"}
BReader == {"set_default_default", "set_default_set"}
DWriter == {"register_set", "set_default_set", "unregister_clear"}
DReader == {"get_default_get"}

\* Past the point where the map was changed: no reader is left inside.
Changed == {"register_default", "register_set", "unregister_default", "unregister_clear"}

LocksHeld ==
  \A t \in Threads :
    /\ bLock.writer = t <=> call[t].at \in BWriter
    /\ t \in bLock.readers <=> call[t].at \in BReader
    /\ dLock.writer = t <=> call[t].at \in DWriter
    /\ t \in dLock.readers <=> call[t].at \in DReader

CallsKnow ==
  \A t \in Threads :
    /\ ~At(t, "idle") => call[t].name \in Names
    /\ At(t, "register_insert") => call[t].object # NoObject
    /\ call[t].at \in Changed => bLock.readers = {}
    /\ call[t].at \in {"register_default", "register_set"} => backends[call[t].name] # NoObject
    /\ call[t].at \in {"unregister_default", "unregister_clear"} =>
         backends[call[t].name] = NoObject /\ call[t].object # NoObject
    /\ call[t].at \in BReader => backends[call[t].name] # NoObject
    /\ At(t, "get_default_get") => default = call[t].name

\* Without the visible map: the default may be out of the map only while the
\* unregister call that took it out has not yet cleared it.
DefaultHeld ==
  default # NoName =>
    \/ backends[default] # NoObject
    \/ \E t \in Threads : /\ call[t].at \in {"unregister_default", "unregister_clear"}
                          /\ call[t].name = default

\* register of a name that was absent: the default cannot be that name before
\* the call returns, since the default was not visible.
NewNameNotDefault ==
  \A t \in Threads :
    /\ call[t].at \in {"register_default", "register_set"}
    /\ call[t].object = NoObject
    => default # call[t].name

IInv == TypeOK /\ LocksHeld /\ CallsKnow /\ DefaultHeld /\ NewNameNotDefault

-----------------------------------------------------------------------------
\* Every step keeps every variable in its type; a call that goes on has a name.
LEMMA TypeStep ==
  ASSUME TypeOK, CallsKnow, Next
  PROVE  TypeOK'
<1>. USE NoThreadAssumption, NamesAssumption, ObjectsAssumption
         DEF At, Start, Goto, Return, Claimable, Readable, Drained, Claimed, Entered, Left, Released,
             TypeOK, Calls, Points, Idle, RwLock, MaybeName, MaybeObject,
             CallsKnow
<1>1. ASSUME NEW t \in Threads, NEW n \in Names, NEW o \in Objects, RegisterClaim(t, n, o)
      PROVE  TypeOK'
  BY <1>1 DEF RegisterClaim
<1>2. ASSUME NEW t \in Threads, RegisterInsert(t)
      PROVE  TypeOK'
  BY <1>2 DEF RegisterInsert
<1>3. ASSUME NEW t \in Threads, RegisterClaimDefault(t)
      PROVE  TypeOK'
  BY <1>3 DEF RegisterClaimDefault
<1>4. ASSUME NEW t \in Threads, RegisterSet(t)
      PROVE  TypeOK'
  BY <1>4 DEF RegisterSet
<1>5. ASSUME NEW t \in Threads, NEW n \in Names, SetDefaultCheck(t, n)
      PROVE  TypeOK'
  BY <1>5 DEF SetDefaultCheck
<1>6. ASSUME NEW t \in Threads, SetDefaultClaim(t)
      PROVE  TypeOK'
  BY <1>6 DEF SetDefaultClaim
<1>7. ASSUME NEW t \in Threads, SetDefaultSet(t)
      PROVE  TypeOK'
  BY <1>7 DEF SetDefaultSet
<1>8. ASSUME NEW t \in Threads, NEW n \in Names, UnregisterClaim(t, n)
      PROVE  TypeOK'
  BY <1>8 DEF UnregisterClaim
<1>9. ASSUME NEW t \in Threads, UnregisterRemove(t)
      PROVE  TypeOK'
  BY <1>9 DEF UnregisterRemove
<1>10. ASSUME NEW t \in Threads, UnregisterClaimDefault(t)
      PROVE  TypeOK'
  BY <1>10 DEF UnregisterClaimDefault
<1>11. ASSUME NEW t \in Threads, UnregisterClear(t)
      PROVE  TypeOK'
  BY <1>11 DEF UnregisterClear
<1>12. ASSUME NEW t \in Threads, NEW n \in Names, Get(t, n)
      PROVE  TypeOK'
  BY <1>12 DEF Get
<1>13. ASSUME NEW t \in Threads, GetDefaultRead(t)
      PROVE  TypeOK'
  BY <1>13 DEF GetDefaultRead
<1>14. ASSUME NEW t \in Threads, GetDefaultGet(t)
      PROVE  TypeOK'
  BY <1>14 DEF GetDefaultGet
<1>. QED
  BY <1>1, <1>2, <1>3, <1>4, <1>5, <1>6, <1>7, <1>8, <1>9, <1>10, <1>11, <1>12, <1>13, <1>14
  DEF Next, RegisterStep, SetDefaultStep, UnregisterStep, LookupStep

\* Lock ownership follows the point each call has reached.
LEMMA LocksStep ==
  ASSUME TypeOK, LocksHeld, Next
  PROVE  LocksHeld'
<1>. USE NoThreadAssumption, NamesAssumption, ObjectsAssumption
         DEF At, Start, Goto, Return, Claimable, Readable, Drained, Claimed, Entered, Left, Released,
             TypeOK, Calls, Points, Idle, RwLock, MaybeName, MaybeObject,
             LocksHeld, BWriter, BReader, DWriter, DReader
<1>1. ASSUME NEW t \in Threads, NEW n \in Names, NEW o \in Objects, RegisterClaim(t, n, o)
      PROVE  LocksHeld'
  BY <1>1 DEF RegisterClaim
<1>2. ASSUME NEW t \in Threads, RegisterInsert(t)
      PROVE  LocksHeld'
  BY <1>2 DEF RegisterInsert
<1>3. ASSUME NEW t \in Threads, RegisterClaimDefault(t)
      PROVE  LocksHeld'
  BY <1>3 DEF RegisterClaimDefault
<1>4. ASSUME NEW t \in Threads, RegisterSet(t)
      PROVE  LocksHeld'
  BY <1>4 DEF RegisterSet
<1>5. ASSUME NEW t \in Threads, NEW n \in Names, SetDefaultCheck(t, n)
      PROVE  LocksHeld'
  BY <1>5 DEF SetDefaultCheck
<1>6. ASSUME NEW t \in Threads, SetDefaultClaim(t)
      PROVE  LocksHeld'
  BY <1>6 DEF SetDefaultClaim
<1>7. ASSUME NEW t \in Threads, SetDefaultSet(t)
      PROVE  LocksHeld'
  BY <1>7 DEF SetDefaultSet
<1>8. ASSUME NEW t \in Threads, NEW n \in Names, UnregisterClaim(t, n)
      PROVE  LocksHeld'
  BY <1>8 DEF UnregisterClaim
<1>9. ASSUME NEW t \in Threads, UnregisterRemove(t)
      PROVE  LocksHeld'
  BY <1>9 DEF UnregisterRemove
<1>10. ASSUME NEW t \in Threads, UnregisterClaimDefault(t)
      PROVE  LocksHeld'
  BY <1>10 DEF UnregisterClaimDefault
<1>11. ASSUME NEW t \in Threads, UnregisterClear(t)
      PROVE  LocksHeld'
  BY <1>11 DEF UnregisterClear
<1>12. ASSUME NEW t \in Threads, NEW n \in Names, Get(t, n)
      PROVE  LocksHeld'
  BY <1>12 DEF Get
<1>13. ASSUME NEW t \in Threads, GetDefaultRead(t)
      PROVE  LocksHeld'
  BY <1>13 DEF GetDefaultRead
<1>14. ASSUME NEW t \in Threads, GetDefaultGet(t)
      PROVE  LocksHeld'
  BY <1>14 DEF GetDefaultGet
<1>. QED
  BY <1>1, <1>2, <1>3, <1>4, <1>5, <1>6, <1>7, <1>8, <1>9, <1>10, <1>11, <1>12, <1>13, <1>14
  DEF Next, RegisterStep, SetDefaultStep, UnregisterStep, LookupStep

\* What a call knows stays true while the locks it holds keep the others out.
LEMMA KnowStep ==
  ASSUME TypeOK, LocksHeld, CallsKnow, Next
  PROVE  CallsKnow'
<1>. USE NoThreadAssumption, NamesAssumption, ObjectsAssumption
         DEF At, Start, Goto, Return, Claimable, Readable, Drained, Claimed, Entered, Left, Released,
             TypeOK, Calls, Points, Idle, RwLock, MaybeName, MaybeObject,
             LocksHeld, CallsKnow, Changed, BWriter, BReader, DWriter, DReader
<1>1. ASSUME NEW t \in Threads, NEW n \in Names, NEW o \in Objects, RegisterClaim(t, n, o)
      PROVE  CallsKnow'
  BY <1>1 DEF RegisterClaim
<1>2. ASSUME NEW t \in Threads, RegisterInsert(t)
      PROVE  CallsKnow'
  BY <1>2 DEF RegisterInsert
<1>3. ASSUME NEW t \in Threads, RegisterClaimDefault(t)
      PROVE  CallsKnow'
  BY <1>3 DEF RegisterClaimDefault
<1>4. ASSUME NEW t \in Threads, RegisterSet(t)
      PROVE  CallsKnow'
  BY <1>4 DEF RegisterSet
<1>5. ASSUME NEW t \in Threads, NEW n \in Names, SetDefaultCheck(t, n)
      PROVE  CallsKnow'
  BY <1>5 DEF SetDefaultCheck
<1>6. ASSUME NEW t \in Threads, SetDefaultClaim(t)
      PROVE  CallsKnow'
  BY <1>6 DEF SetDefaultClaim
<1>7. ASSUME NEW t \in Threads, SetDefaultSet(t)
      PROVE  CallsKnow'
  BY <1>7 DEF SetDefaultSet
<1>8. ASSUME NEW t \in Threads, NEW n \in Names, UnregisterClaim(t, n)
      PROVE  CallsKnow'
  BY <1>8 DEF UnregisterClaim
<1>9. ASSUME NEW t \in Threads, UnregisterRemove(t)
      PROVE  CallsKnow'
  BY <1>9 DEF UnregisterRemove
<1>10. ASSUME NEW t \in Threads, UnregisterClaimDefault(t)
      PROVE  CallsKnow'
  BY <1>10 DEF UnregisterClaimDefault
<1>11. ASSUME NEW t \in Threads, UnregisterClear(t)
      PROVE  CallsKnow'
  BY <1>11 DEF UnregisterClear
<1>12. ASSUME NEW t \in Threads, NEW n \in Names, Get(t, n)
      PROVE  CallsKnow'
  BY <1>12 DEF Get
<1>13. ASSUME NEW t \in Threads, GetDefaultRead(t)
      PROVE  CallsKnow'
  BY <1>13 DEF GetDefaultRead
<1>14. ASSUME NEW t \in Threads, GetDefaultGet(t)
      PROVE  CallsKnow'
  BY <1>14 DEF GetDefaultGet
<1>. QED
  BY <1>1, <1>2, <1>3, <1>4, <1>5, <1>6, <1>7, <1>8, <1>9, <1>10, <1>11, <1>12, <1>13, <1>14
  DEF Next, RegisterStep, SetDefaultStep, UnregisterStep, LookupStep

\* Only the unregister call that removed the default may leave it dangling.
LEMMA HeldStep ==
  ASSUME TypeOK, LocksHeld, CallsKnow, DefaultHeld, Next
  PROVE  DefaultHeld'
<1>. USE NoThreadAssumption, NamesAssumption, ObjectsAssumption
         DEF At, Start, Goto, Return, Claimable, Readable, Drained, Claimed, Entered, Left, Released,
             TypeOK, Calls, Points, Idle, RwLock, MaybeName, MaybeObject,
             LocksHeld, CallsKnow, DefaultHeld, Changed, BWriter, BReader, DWriter, DReader
<1>1. ASSUME NEW t \in Threads, NEW n \in Names, NEW o \in Objects, RegisterClaim(t, n, o)
      PROVE  DefaultHeld'
  BY <1>1 DEF RegisterClaim
<1>2. ASSUME NEW t \in Threads, RegisterInsert(t)
      PROVE  DefaultHeld'
  BY <1>2 DEF RegisterInsert
<1>3. ASSUME NEW t \in Threads, RegisterClaimDefault(t)
      PROVE  DefaultHeld'
  BY <1>3 DEF RegisterClaimDefault
<1>4. ASSUME NEW t \in Threads, RegisterSet(t)
      PROVE  DefaultHeld'
  BY <1>4 DEF RegisterSet
<1>5. ASSUME NEW t \in Threads, NEW n \in Names, SetDefaultCheck(t, n)
      PROVE  DefaultHeld'
  BY <1>5 DEF SetDefaultCheck
<1>6. ASSUME NEW t \in Threads, SetDefaultClaim(t)
      PROVE  DefaultHeld'
  BY <1>6 DEF SetDefaultClaim
<1>7. ASSUME NEW t \in Threads, SetDefaultSet(t)
      PROVE  DefaultHeld'
  BY <1>7 DEF SetDefaultSet
<1>8. ASSUME NEW t \in Threads, NEW n \in Names, UnregisterClaim(t, n)
      PROVE  DefaultHeld'
  BY <1>8 DEF UnregisterClaim
<1>9. ASSUME NEW t \in Threads, UnregisterRemove(t)
      PROVE  DefaultHeld'
  BY <1>9 DEF UnregisterRemove
<1>10. ASSUME NEW t \in Threads, UnregisterClaimDefault(t)
      PROVE  DefaultHeld'
  BY <1>10 DEF UnregisterClaimDefault
<1>11. ASSUME NEW t \in Threads, UnregisterClear(t)
      PROVE  DefaultHeld'
  BY <1>11 DEF UnregisterClear
<1>12. ASSUME NEW t \in Threads, NEW n \in Names, Get(t, n)
      PROVE  DefaultHeld'
  BY <1>12 DEF Get
<1>13. ASSUME NEW t \in Threads, GetDefaultRead(t)
      PROVE  DefaultHeld'
  BY <1>13 DEF GetDefaultRead
<1>14. ASSUME NEW t \in Threads, GetDefaultGet(t)
      PROVE  DefaultHeld'
  BY <1>14 DEF GetDefaultGet
<1>. QED
  BY <1>1, <1>2, <1>3, <1>4, <1>5, <1>6, <1>7, <1>8, <1>9, <1>10, <1>11, <1>12, <1>13, <1>14
  DEF Next, RegisterStep, SetDefaultStep, UnregisterStep, LookupStep

\* The default changes only under the write lock or a read lock of the map.
LEMMA NewNameStep ==
  ASSUME TypeOK, LocksHeld, CallsKnow, DefaultHeld, NewNameNotDefault, Next
  PROVE  NewNameNotDefault'
<1>. USE NoThreadAssumption, NamesAssumption, ObjectsAssumption
         DEF At, Start, Goto, Return, Claimable, Readable, Drained, Claimed, Entered, Left, Released,
             TypeOK, Calls, Points, Idle, RwLock, MaybeName, MaybeObject,
             LocksHeld, CallsKnow, DefaultHeld, NewNameNotDefault, Changed,
             BWriter, BReader, DWriter, DReader
<1>1. ASSUME NEW t \in Threads, NEW n \in Names, NEW o \in Objects, RegisterClaim(t, n, o)
      PROVE  NewNameNotDefault'
  BY <1>1 DEF RegisterClaim
<1>2. ASSUME NEW t \in Threads, RegisterInsert(t)
      PROVE  NewNameNotDefault'
  BY <1>2 DEF RegisterInsert
<1>3. ASSUME NEW t \in Threads, RegisterClaimDefault(t)
      PROVE  NewNameNotDefault'
  BY <1>3 DEF RegisterClaimDefault
<1>4. ASSUME NEW t \in Threads, RegisterSet(t)
      PROVE  NewNameNotDefault'
  BY <1>4 DEF RegisterSet
<1>5. ASSUME NEW t \in Threads, NEW n \in Names, SetDefaultCheck(t, n)
      PROVE  NewNameNotDefault'
  BY <1>5 DEF SetDefaultCheck
<1>6. ASSUME NEW t \in Threads, SetDefaultClaim(t)
      PROVE  NewNameNotDefault'
  BY <1>6 DEF SetDefaultClaim
<1>7. ASSUME NEW t \in Threads, SetDefaultSet(t)
      PROVE  NewNameNotDefault'
  BY <1>7 DEF SetDefaultSet
<1>8. ASSUME NEW t \in Threads, NEW n \in Names, UnregisterClaim(t, n)
      PROVE  NewNameNotDefault'
  BY <1>8 DEF UnregisterClaim
<1>9. ASSUME NEW t \in Threads, UnregisterRemove(t)
      PROVE  NewNameNotDefault'
  BY <1>9 DEF UnregisterRemove
<1>10. ASSUME NEW t \in Threads, UnregisterClaimDefault(t)
      PROVE  NewNameNotDefault'
  BY <1>10 DEF UnregisterClaimDefault
<1>11. ASSUME NEW t \in Threads, UnregisterClear(t)
      PROVE  NewNameNotDefault'
  BY <1>11 DEF UnregisterClear
<1>12. ASSUME NEW t \in Threads, NEW n \in Names, Get(t, n)
      PROVE  NewNameNotDefault'
  BY <1>12 DEF Get
<1>13. ASSUME NEW t \in Threads, GetDefaultRead(t)
      PROVE  NewNameNotDefault'
  BY <1>13 DEF GetDefaultRead
<1>14. ASSUME NEW t \in Threads, GetDefaultGet(t)
      PROVE  NewNameNotDefault'
  BY <1>14 DEF GetDefaultGet
<1>. QED
  BY <1>1, <1>2, <1>3, <1>4, <1>5, <1>6, <1>7, <1>8, <1>9, <1>10, <1>11, <1>12, <1>13, <1>14
  DEF Next, RegisterStep, SetDefaultStep, UnregisterStep, LookupStep

LEMMA InvInit == Init => IInv
BY NoThreadAssumption, NamesAssumption, ObjectsAssumption
DEF Init, Unlocked, IInv, TypeOK, Calls, Points, Idle, RwLock, MaybeName, MaybeObject,
    LocksHeld, CallsKnow, DefaultHeld, NewNameNotDefault, At, Changed,
    BWriter, BReader, DWriter, DReader

LEMMA InvStep == IInv /\ [Next]_vars => IInv'
<1>1. ASSUME IInv, Next
      PROVE  IInv'
  BY <1>1, TypeStep, LocksStep, KnowStep, HeldStep, NewNameStep DEF IInv
<1>2. ASSUME IInv, UNCHANGED vars
      PROVE  IInv'
  BY <1>2 DEF IInv, vars, TypeOK, LocksHeld, CallsKnow, DefaultHeld, NewNameNotDefault, At
<1>. QED
  BY <1>1, <1>2

\* The invariant the other theorems rest on.
THEOREM Invariance == Spec => []IInv
<1>. QED
  BY InvInit, InvStep, PTL DEF Spec

\* Type correctness of the registry and of its two locks.
THEOREM TypeCorrect == Spec => []TypeOK
<1>1. IInv => TypeOK
  BY DEF IInv
<1>. QED
  BY <1>1, Invariance, PTL

-----------------------------------------------------------------------------
(* Properties of one state and of one step                                  *)

\* Nobody changes the map, or the default, under a reader of its lock.
THEOREM NoReaderDisturbed == Spec => ReadersUndisturbed
<1>1. IInv /\ [Next]_vars =>
        [/\ backends' # backends => bLock.readers = {}
         /\ default' # default => dLock.readers = {}]_vars
  BY DEF IInv, CallsKnow, Drained, vars, Next,
         RegisterStep, SetDefaultStep, UnregisterStep, LookupStep,
         RegisterClaim, RegisterInsert, RegisterClaimDefault, RegisterSet,
         SetDefaultCheck, SetDefaultClaim, SetDefaultSet,
         UnregisterClaim, UnregisterRemove, UnregisterClaimDefault, UnregisterClear,
         Get, GetDefaultRead, GetDefaultGet
<1>. QED
  BY <1>1, Invariance, PTL DEF Spec, ReadersUndisturbed

\* get_default's second lookup finds the default it read.
THEOREM LookupFinds == Spec => []DefaultLookupFinds
<1>1. IInv => DefaultLookupFinds
  BY NoThreadAssumption, NamesAssumption
  DEF IInv, LocksHeld, CallsKnow, DefaultHeld, DefaultLookupFinds, At, Readable, BWriter
<1>. QED
  BY <1>1, Invariance, PTL

\* Without a get_default among them, the thread with the innermost lock can go on.
THEOREM InversionOnly == Spec => []OnlyGetDefaultInverts
<1>1. ASSUME IInv, Stuck, \A t \in Threads : ~At(t, "get_default_get")
      PROVE  FALSE
  <2>1. dLock.readers = {}
    BY <1>1 DEF IInv, LocksHeld, TypeOK, RwLock, At, DReader
  <2>2. dLock.writer = NoThread
    BY <1>1, <2>1 DEF IInv, LocksHeld, TypeOK, RwLock, Stuck, Busy, WaitsFor, At, DWriter
  <2>3. \A t \in Threads : call[t].at \in {"idle", "register_insert", "unregister_remove"}
    BY <1>1, <2>1, <2>2 DEF IInv, TypeOK, Calls, Points, Stuck, Busy, WaitsFor, At
  <2>4. bLock.readers = {}
    BY <1>1, <2>3 DEF IInv, LocksHeld, TypeOK, RwLock, BReader
  <2>. QED
    BY <1>1, <2>3, <2>4 DEF Stuck, Busy, WaitsFor, At
<1>2. IInv => OnlyGetDefaultInverts
  BY <1>1 DEF OnlyGetDefaultInverts, Busy, At
<1>. QED
  BY <1>2, Invariance, PTL

-----------------------------------------------------------------------------
(* Refinement of the atomic registry                                        *)

\* What callers can know of the map, without the CHOOSE of its definition: the
\* one thread that has changed it (it holds the write lock) hides its change.
VisibleIs ==
  /\ \A t \in Threads : call[t].at \in Changed =>
       VisibleBackends = [backends EXCEPT ![call[t].name] = call[t].object]
  /\ (\A t \in Threads : call[t].at \notin Changed) => VisibleBackends = backends

LEMMA Visible == IInv => VisibleIs
<1>. SUFFICES ASSUME IInv PROVE VisibleIs
  OBVIOUS
<1>. USE DEF IInv, TypeOK, LocksHeld, BWriter, Changed, Pending, Calls
<1>1. ASSUME NEW t \in Threads, call[t].at \in Changed
      PROVE  VisibleBackends = [backends EXCEPT ![call[t].name] = call[t].object]
  <2>1. \A u \in Threads, n \in Names : Pending(u, n) <=> u = t /\ n = call[t].name
    BY <1>1, NoThreadAssumption
  <2>2. ASSUME NEW n \in Names
        PROVE  VisibleBackends[n] = [backends EXCEPT ![call[t].name] = call[t].object][n]
    <3>1. CASE n = call[t].name
      <4>1. (CHOOSE u \in Threads : Pending(u, n)) = t
        BY <2>1, <3>1
      <4>2. \E u \in Threads : Pending(u, n)
        BY <2>1, <3>1
      <4>. QED
        BY <4>1, <4>2, <3>1 DEF VisibleBackends
    <3>2. CASE n # call[t].name
      BY <2>1, <3>2 DEF VisibleBackends
    <3>. QED
      BY <3>1, <3>2
  <2>. QED
    BY <2>2 DEF VisibleBackends
<1>2. ASSUME \A t \in Threads : call[t].at \notin Changed
      PROVE  VisibleBackends = backends
  <2>1. \A t \in Threads, n \in Names : ~Pending(t, n)
    BY <1>2
  <2>. QED
    BY <2>1 DEF VisibleBackends
<1>. QED
  BY <1>1, <1>2 DEF VisibleIs

\* The visible map stays as it is unless the map changes or a hidden change begins or ends.
LEMMA VisibleStays ==
  ASSUME VisibleIs, VisibleIs', UNCHANGED backends,
         \A t \in Threads :
           \/ call'[t] = call[t]
           \/ call[t].at \notin Changed /\ call'[t].at \notin Changed
           \/ /\ call[t].at \in Changed /\ call'[t].at \in Changed
              /\ call'[t].name = call[t].name /\ call'[t].object = call[t].object
  PROVE  UNCHANGED VisibleBackends
<1>1. CASE \E t \in Threads : call[t].at \in Changed
  <2>. PICK t \in Threads : call[t].at \in Changed
    BY <1>1
  <2>1. /\ call'[t].at \in Changed
        /\ call'[t].name = call[t].name
        /\ call'[t].object = call[t].object
    OBVIOUS
  <2>. QED
    BY <2>1 DEF VisibleIs
<1>2. CASE \A t \in Threads : call[t].at \notin Changed
  BY <1>2 DEF VisibleIs
<1>. QED
  BY <1>1, <1>2

LEMMA InitRefines == Init => Abstract!Init
<1>. SUFFICES ASSUME Init PROVE Abstract!Init
  OBVIOUS
<1>1. \A t \in Threads, n \in Names : ~Pending(t, n)
  BY DEF Init, Pending, Idle
<1>2. VisibleBackends = backends
  BY <1>1 DEF Init, VisibleBackends
<1>. QED
  BY <1>2 DEF Init, Abstract!Init

\* What a step of a call is to callers: the whole method where it takes effect,
\* a stutter everywhere else.
LEMMA StepRefines ==
  ASSUME IInv, IInv', VisibleIs, VisibleIs', Next
  PROVE  Abstract!Next \/ UNCHANGED <<VisibleBackends, default, answer>>
<1>. USE DEF At, Start, Goto, Return, IInv, TypeOK, Calls, Idle, Changed
<1>1. ASSUME NEW t \in Threads, NEW n \in Names, NEW o \in Objects, RegisterClaim(t, n, o)
      PROVE  UNCHANGED <<VisibleBackends, default, answer>>
  BY <1>1, VisibleStays DEF RegisterClaim
<1>2. ASSUME NEW t \in Threads, RegisterInsert(t)
      PROVE  UNCHANGED <<VisibleBackends, default, answer>>
  <2>1. \A u \in Threads : call[u].at \notin Changed
    BY <1>2, NoThreadAssumption DEF RegisterInsert, LocksHeld, BWriter
  <2>2. VisibleBackends = backends
    BY <2>1 DEF VisibleIs
  <2>3. VisibleBackends' = [backends' EXCEPT ![call[t].name] = backends[call[t].name]]
    BY <1>2 DEF VisibleIs, RegisterInsert
  <2>4. VisibleBackends' = backends
    BY <1>2, <2>3 DEF RegisterInsert, CallsKnow
  <2>. QED
    BY <1>2, <2>2, <2>4 DEF RegisterInsert
<1>3. ASSUME NEW t \in Threads, RegisterClaimDefault(t)
      PROVE  UNCHANGED <<VisibleBackends, default, answer>>
  BY <1>3, VisibleStays DEF RegisterClaimDefault
<1>4. ASSUME NEW t \in Threads, RegisterSet(t)
      PROVE  Abstract!Register(call[t].name, backends[call[t].name])
  <2>1. \A u \in Threads : call'[u].at \notin Changed
    BY <1>4, NoThreadAssumption DEF RegisterSet, LocksHeld, BWriter
  <2>2. VisibleBackends' = backends
    BY <1>4, <2>1 DEF VisibleIs, RegisterSet
  <2>3. VisibleBackends = [backends EXCEPT ![call[t].name] = call[t].object]
    BY <1>4 DEF VisibleIs, RegisterSet
  <2>4. VisibleBackends' = [VisibleBackends EXCEPT ![call[t].name] = backends[call[t].name]]
    BY <2>2, <2>3
  <2>. QED
    BY <1>4, <2>4 DEF RegisterSet, Abstract!Register
<1>5. ASSUME NEW t \in Threads, NEW n \in Names, SetDefaultCheck(t, n)
      PROVE  UNCHANGED <<VisibleBackends, default, answer>>
  BY <1>5, VisibleStays DEF SetDefaultCheck
<1>6. ASSUME NEW t \in Threads, SetDefaultClaim(t)
      PROVE  UNCHANGED <<VisibleBackends, default, answer>>
  BY <1>6, VisibleStays DEF SetDefaultClaim
<1>7. ASSUME NEW t \in Threads, SetDefaultSet(t)
      PROVE  Abstract!SetDefault(call[t].name)
  <2>1. \A u \in Threads : call[u].at \notin Changed
    BY <1>7 DEF SetDefaultSet, CallsKnow, LocksHeld, BReader
  <2>2. VisibleBackends = backends
    BY <2>1 DEF VisibleIs
  <2>3. UNCHANGED VisibleBackends
    BY <1>7, VisibleStays DEF SetDefaultSet
  <2>. QED
    BY <1>7, <2>2, <2>3 DEF SetDefaultSet, Abstract!SetDefault, Abstract!Registered, CallsKnow, BReader
<1>8. ASSUME NEW t \in Threads, NEW n \in Names, UnregisterClaim(t, n)
      PROVE  UNCHANGED <<VisibleBackends, default, answer>>
  BY <1>8, VisibleStays DEF UnregisterClaim
<1>9. ASSUME NEW t \in Threads, UnregisterRemove(t)
      PROVE  UNCHANGED <<VisibleBackends, default, answer>>
  <2>1. \A u \in Threads : call[u].at \notin Changed
    BY <1>9, NoThreadAssumption DEF UnregisterRemove, LocksHeld, BWriter
  <2>2. VisibleBackends = backends
    BY <2>1 DEF VisibleIs
  <2>3. CASE backends[call[t].name] # NoObject
    <3>1. VisibleBackends' = [backends' EXCEPT ![call[t].name] = backends[call[t].name]]
      BY <1>9, <2>3 DEF VisibleIs, UnregisterRemove
    <3>2. VisibleBackends' = backends
      BY <1>9, <3>1 DEF UnregisterRemove, CallsKnow
    <3>. QED
      BY <1>9, <2>2, <3>2 DEF UnregisterRemove
  <2>4. CASE backends[call[t].name] = NoObject
    <3>1. \A u \in Threads : call'[u].at \notin Changed
      BY <1>9, <2>1, <2>4 DEF UnregisterRemove
    <3>2. backends' = backends
      BY <1>9, <2>4 DEF UnregisterRemove, CallsKnow
    <3>. QED
      BY <1>9, <2>2, <3>1, <3>2 DEF VisibleIs, UnregisterRemove
  <2>. QED
    BY <2>3, <2>4
<1>10. ASSUME NEW t \in Threads, UnregisterClaimDefault(t)
       PROVE  UNCHANGED <<VisibleBackends, default, answer>>
  BY <1>10, VisibleStays DEF UnregisterClaimDefault
<1>11. ASSUME NEW t \in Threads, UnregisterClear(t)
       PROVE  Abstract!Unregister(call[t].name)
  <2>1. \A u \in Threads : call'[u].at \notin Changed
    BY <1>11, NoThreadAssumption DEF UnregisterClear, LocksHeld, BWriter
  <2>2. VisibleBackends' = backends
    BY <1>11, <2>1 DEF VisibleIs, UnregisterClear
  <2>3. VisibleBackends = [backends EXCEPT ![call[t].name] = call[t].object]
    BY <1>11 DEF VisibleIs, UnregisterClear
  <2>4. /\ VisibleBackends' = [VisibleBackends EXCEPT ![call[t].name] = NoObject]
        /\ VisibleBackends[call[t].name] # NoObject
    BY <1>11, <2>2, <2>3 DEF UnregisterClear, CallsKnow
  <2>. QED
    BY <1>11, <2>4 DEF UnregisterClear, Abstract!Unregister, Abstract!Registered
<1>12. ASSUME NEW t \in Threads, NEW n \in Names, Get(t, n)
       PROVE  Abstract!Get(t, n)
  <2>1. \A u \in Threads : call[u].at \notin Changed
    BY <1>12, NoThreadAssumption DEF Get, Readable, LocksHeld, BWriter
  <2>2. VisibleBackends = backends /\ UNCHANGED VisibleBackends
    BY <1>12, <2>1, VisibleStays DEF VisibleIs, Get
  <2>. QED
    BY <1>12, <2>2 DEF Get, Abstract!Get
<1>13. ASSUME NEW t \in Threads, GetDefaultRead(t)
       PROVE  Abstract!GetDefault(t) \/ UNCHANGED <<VisibleBackends, default, answer>>
  <2>1. UNCHANGED VisibleBackends
    BY <1>13, VisibleStays DEF GetDefaultRead
  <2>. QED
    BY <1>13, <2>1 DEF GetDefaultRead, Abstract!GetDefault, Abstract!DefaultObject
<1>14. ASSUME NEW t \in Threads, GetDefaultGet(t)
       PROVE  Abstract!GetDefault(t)
  <2>1. \A u \in Threads : call[u].at \notin Changed
    BY <1>14, NoThreadAssumption DEF GetDefaultGet, Readable, LocksHeld, BWriter
  <2>2. VisibleBackends = backends /\ UNCHANGED VisibleBackends
    BY <1>14, <2>1, VisibleStays DEF VisibleIs, GetDefaultGet
  <2>3. default = call[t].name /\ default # NoName
    BY <1>14, NamesAssumption DEF GetDefaultGet, CallsKnow
  <2>. QED
    BY <1>14, <2>2, <2>3 DEF GetDefaultGet, Abstract!GetDefault, Abstract!DefaultObject
<1>15. ASSUME NEW t \in Threads,
              RegisterStep(t) \/ SetDefaultStep(t) \/ UnregisterStep(t) \/ LookupStep(t)
       PROVE  Abstract!Next \/ UNCHANGED <<VisibleBackends, default, answer>>
  <2>1. ~At(t, "idle") => call[t].name \in Names
    BY DEF CallsKnow
  <2>2. CASE RegisterStep(t)
    <3>1. RegisterSet(t) => backends[call[t].name] \in Objects
      BY <2>1 DEF RegisterSet, CallsKnow, MaybeObject
    <3>. QED
      BY <2>1, <2>2, <3>1, <1>1, <1>2, <1>3, <1>4 DEF RegisterStep, RegisterSet, Abstract!Next
  <2>3. CASE SetDefaultStep(t)
    BY <2>1, <2>3, <1>5, <1>6, <1>7 DEF SetDefaultStep, SetDefaultSet, Abstract!Next
  <2>4. CASE UnregisterStep(t)
    BY <2>1, <2>4, <1>8, <1>9, <1>10, <1>11 DEF UnregisterStep, UnregisterClear, Abstract!Next
  <2>5. CASE LookupStep(t)
    BY <2>5, <1>12, <1>13, <1>14 DEF LookupStep, Abstract!Next
  <2>. QED
    BY <1>15, <2>2, <2>3, <2>4, <2>5
<1>. QED
  BY <1>15 DEF Next

\* The two-lock registry implements the atomic registry.
THEOREM Refinement == Spec => ImplementsRegistry
<1>1. IInv /\ IInv' /\ VisibleIs /\ VisibleIs' /\ [Next]_vars
        => [Abstract!Next]_(Abstract!vars)
  <2>1. UNCHANGED vars => UNCHANGED <<VisibleBackends, default, answer>>
    BY DEF vars, VisibleBackends, Pending
  <2>. QED
    BY <2>1, StepRefines DEF Abstract!vars
<1>. QED
  BY <1>1, Visible, InitRefines, Invariance, PTL DEF Spec, ImplementsRegistry, Abstract!Spec

\* The visible default names a visible backend, at every moment.
THEOREM DefaultAlwaysRegistered == Spec => []DefaultRegistered
<1>1. ASSUME IInv, VisibleIs
      PROVE  DefaultRegistered
  <2>. SUFFICES ASSUME default # NoName
                PROVE  VisibleBackends[default] # NoObject
    BY DEF DefaultRegistered, Abstract!DefaultRegistered, Abstract!Registered
  <2>1. CASE \E t \in Threads : call[t].at \in Changed
    <3>. PICK t \in Threads : call[t].at \in Changed
      BY <2>1
    <3>1. VisibleBackends = [backends EXCEPT ![call[t].name] = call[t].object]
      BY <1>1 DEF VisibleIs
    <3>2. CASE default = call[t].name
      <4>1. call[t].object # NoObject
        BY <1>1, <3>2 DEF IInv, NewNameNotDefault, CallsKnow, Changed
      <4>. QED
        BY <1>1, <3>1, <3>2, <4>1 DEF IInv, TypeOK, MaybeName
    <3>3. CASE default # call[t].name
      <4>1. backends[default] # NoObject
        BY <1>1, <3>3, NoThreadAssumption DEF IInv, DefaultHeld, LocksHeld, BWriter, Changed
      <4>. QED
        BY <1>1, <3>1, <3>3, <4>1 DEF IInv, TypeOK, MaybeName
    <3>. QED
      BY <3>2, <3>3
  <2>2. CASE \A t \in Threads : call[t].at \notin Changed
    BY <1>1, <2>2 DEF VisibleIs, IInv, DefaultHeld, Changed
  <2>. QED
    BY <2>1, <2>2
<1>. QED
  BY <1>1, Visible, Invariance, PTL

=============================================================================
