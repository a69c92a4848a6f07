---------------------------- MODULE RegistryLocks ----------------------------
(***************************************************************************)
(* The backend registry as it is written (hal/src/backend/registry.rs): two *)
(* parking_lot::RwLocks, one around the map and one around the default      *)
(* name, taken in the order backends-then-default by register, set_default  *)
(* and unregister, and default-then-backends by get_default.  Each thread   *)
(* has the registry call it is in, with the call's locals.                  *)
(***************************************************************************)

CONSTANTS
  Threads,   \* the callers: main, tonic and axum worker threads
  NoThread,  \* no thread holds the writer bit
  Names,     \* names a backend can have
  NoName,    \* Option::None for a name
  Objects,   \* backend objects (Arc<dyn QuantumBackend>)
  NoObject   \* an absent key of the map

ASSUME NoThreadAssumption == NoThread \notin Threads
ASSUME NamesAssumption == NoName \notin Names
ASSUME ObjectsAssumption == NoObject \notin Objects

VARIABLES
  backends,  \* the map behind the first lock
  default,   \* the name behind the second lock
  bLock,     \* the RwLock of backends
  dLock,     \* the RwLock of default_backend
  call,      \* the call each thread is in
  answer     \* the object each thread's last lookup returned

vars == <<backends, default, bLock, dLock, call, answer>>

MaybeObject == Objects \cup {NoObject}
MaybeName == Names \cup {NoName}

\* A call stops only where it must wait for a lock; the numbers are registry.rs lines.
Points == {"idle",
           "register_insert",     \* 75: backends.write() claimed, readers inside
           "register_default",    \* 79: inserted, default.write() not yet claimed
           "register_set",        \* 79: default.write() claimed, readers inside
           "set_default_default", \* 93: backends.read() held
           "set_default_set",     \* 93: default.write() claimed, readers inside
           "unregister_remove",   \* 161: backends.write() claimed, readers inside
           "unregister_default",  \* 168: removed, default.write() not yet claimed
           "unregister_clear",    \* 168: default.write() claimed, readers inside
           "get_default_get"}     \* 112: default.read() held, calls self.get

\* "object" is the local the call carries: the backend to insert, then the one
\* that insert or remove took out of the map.
Calls == [at : Points, name : MaybeName, object : MaybeObject]
Idle == [at |-> "idle", name |-> NoName, object |-> NoObject]

RwLock == [writer : Threads \cup {NoThread}, readers : SUBSET Threads]

TypeOK ==
  /\ backends \in [Names -> MaybeObject]
  /\ default \in MaybeName
  /\ bLock \in RwLock
  /\ dLock \in RwLock
  /\ call \in [Threads -> Calls]
  /\ answer \in [Threads -> MaybeObject]

-----------------------------------------------------------------------------
(* parking_lot::RwLock: a writer claims the writer bit, then waits for the  *)
(* readers inside to leave; while the bit is set no new reader enters.      *)

Unlocked == [writer |-> NoThread, readers |-> {}]
Claimable(lock) == lock.writer = NoThread
Readable(lock) == lock.writer = NoThread
Drained(lock) == lock.readers = {}
Claimed(lock, t) == [lock EXCEPT !.writer = t]
Entered(lock, t) == [lock EXCEPT !.readers = @ \cup {t}]
Left(lock, t) == [lock EXCEPT !.readers = @ \ {t}]
Released(lock) == [lock EXCEPT !.writer = NoThread]

-----------------------------------------------------------------------------
Init ==
  /\ backends = [n \in Names |-> NoObject]
  /\ default = NoName
  /\ bLock = Unlocked
  /\ dLock = Unlocked
  /\ call = [t \in Threads |-> Idle]
  /\ answer = [t \in Threads |-> NoObject]

At(t, point) == call[t].at = point
Start(t, point, n, o) ==
  call' = [call EXCEPT ![t] = [at |-> point, name |-> n, object |-> o]]
Goto(t, point) == call' = [call EXCEPT ![t].at = point]
Return(t) == call' = [call EXCEPT ![t] = Idle]

RegisterClaim(t, n, o) ==
  /\ At(t, "idle")
  /\ Claimable(bLock)
  /\ bLock' = Claimed(bLock, t)
  /\ Start(t, "register_insert", n, o)
  /\ UNCHANGED <<backends, default, dLock, answer>>

RegisterInsert(t) ==
  /\ At(t, "register_insert")
  /\ Drained(bLock)
  /\ backends' = [backends EXCEPT ![call[t].name] = call[t].object]
  /\ Start(t, "register_default", call[t].name, backends[call[t].name])
  /\ UNCHANGED <<default, bLock, dLock, answer>>

RegisterClaimDefault(t) ==
  /\ At(t, "register_default")
  /\ Claimable(dLock)
  /\ dLock' = Claimed(dLock, t)
  /\ Goto(t, "register_set")
  /\ UNCHANGED <<backends, default, bLock, answer>>

\* Mutant: the is_none() test of line 80 is missing.
RegisterSetAlways(t) ==
  /\ At(t, "register_set")
  /\ Drained(dLock)
  /\ default' = call[t].name
  /\ bLock' = Released(bLock)
  /\ dLock' = Released(dLock)
  /\ Return(t)
  /\ UNCHANGED <<backends, answer>>

RegisterSet(t) ==
  /\ At(t, "register_set")
  /\ Drained(dLock)
  /\ default' = IF default = NoName THEN call[t].name ELSE default
  /\ bLock' = Released(bLock)
  /\ dLock' = Released(dLock)
  /\ Return(t)
  /\ UNCHANGED <<backends, answer>>

\* set_default of an unknown name returns NotFound at once: no state changes.
SetDefaultCheck(t, n) ==
  /\ At(t, "idle")
  /\ Readable(bLock)
  /\ backends[n] # NoObject
  /\ bLock' = Entered(bLock, t)
  /\ Start(t, "set_default_default", n, NoObject)
  /\ UNCHANGED <<backends, default, dLock, answer>>

SetDefaultClaim(t) ==
  /\ At(t, "set_default_default")
  /\ Claimable(dLock)
  /\ dLock' = Claimed(dLock, t)
  /\ Goto(t, "set_default_set")
  /\ UNCHANGED <<backends, default, bLock, answer>>

\* Mutant: the read guard of the map outlives the call.
SetDefaultSetLeaks(t) ==
  /\ At(t, "set_default_set")
  /\ Drained(dLock)
  /\ default' = call[t].name
  /\ dLock' = Released(dLock)
  /\ Return(t)
  /\ UNCHANGED <<backends, bLock, answer>>

SetDefaultSet(t) ==
  /\ At(t, "set_default_set")
  /\ Drained(dLock)
  /\ default' = call[t].name
  /\ bLock' = Left(bLock, t)
  /\ dLock' = Released(dLock)
  /\ Return(t)
  /\ UNCHANGED <<backends, answer>>

UnregisterClaim(t, n) ==
  /\ At(t, "idle")
  /\ Claimable(bLock)
  /\ bLock' = Claimed(bLock, t)
  /\ Start(t, "unregister_remove", n, NoObject)
  /\ UNCHANGED <<backends, default, dLock, answer>>

\* 164: the default lock is taken only when something was removed.
UnregisterRemove(t) ==
  LET n == call[t].name IN
  /\ At(t, "unregister_remove")
  /\ Drained(bLock)
  /\ backends' = [backends EXCEPT ![n] = NoObject]
  /\ \/ /\ backends[n] # NoObject
        /\ Start(t, "unregister_default", n, backends[n])
        /\ UNCHANGED bLock
     \/ /\ backends[n] = NoObject
        /\ bLock' = Released(bLock)
        /\ Return(t)
  /\ UNCHANGED <<default, dLock, answer>>

UnregisterClaimDefault(t) ==
  /\ At(t, "unregister_default")
  /\ Claimable(dLock)
  /\ dLock' = Claimed(dLock, t)
  /\ Goto(t, "unregister_clear")
  /\ UNCHANGED <<backends, default, bLock, answer>>

\* Mutant: the default is not cleared with its backend.
UnregisterClearForgets(t) ==
  /\ At(t, "unregister_clear")
  /\ Drained(dLock)
  /\ bLock' = Released(bLock)
  /\ dLock' = Released(dLock)
  /\ Return(t)
  /\ UNCHANGED <<backends, default, answer>>

UnregisterClear(t) ==
  /\ At(t, "unregister_clear")
  /\ Drained(dLock)
  /\ default' = IF default = call[t].name THEN NoName ELSE default
  /\ bLock' = Released(bLock)
  /\ dLock' = Released(dLock)
  /\ Return(t)
  /\ UNCHANGED <<backends, answer>>

\* get, and contains, list, list_with_types and len, which differ only in what
\* they return: the read lock is dropped with no other wanted, so one step.
Get(t, n) ==
  /\ At(t, "idle")
  /\ Readable(bLock)
  /\ answer' = [answer EXCEPT ![t] = backends[n]]
  /\ UNCHANGED <<backends, default, bLock, dLock, call>>

\* Mutant: the default lock is dropped before self.get.
GetDefaultReadDrops(t) ==
  /\ At(t, "idle")
  /\ Readable(dLock)
  /\ default # NoName
  /\ Start(t, "get_default_get", default, NoObject)
  /\ UNCHANGED <<backends, default, bLock, dLock, answer>>

\* get_default: the default lock is read and stays held across self.get.
GetDefaultRead(t) ==
  /\ At(t, "idle")
  /\ Readable(dLock)
  /\ \/ /\ default = NoName
        /\ answer' = [answer EXCEPT ![t] = NoObject]
        /\ UNCHANGED <<dLock, call>>
     \/ /\ default # NoName
        /\ dLock' = Entered(dLock, t)
        /\ Start(t, "get_default_get", default, NoObject)
        /\ UNCHANGED answer
  /\ UNCHANGED <<backends, default, bLock>>

GetDefaultGet(t) ==
  /\ At(t, "get_default_get")
  /\ Readable(bLock)
  /\ answer' = [answer EXCEPT ![t] = backends[call[t].name]]
  /\ dLock' = Left(dLock, t)
  /\ Return(t)
  /\ UNCHANGED <<backends, default, bLock>>

RegisterStep(t) ==
  \/ \E n \in Names, o \in Objects : RegisterClaim(t, n, o)
  \/ RegisterInsert(t) \/ RegisterClaimDefault(t) \/ RegisterSet(t)

SetDefaultStep(t) ==
  \/ \E n \in Names : SetDefaultCheck(t, n)
  \/ SetDefaultClaim(t) \/ SetDefaultSet(t)

UnregisterStep(t) ==
  \/ \E n \in Names : UnregisterClaim(t, n)
  \/ UnregisterRemove(t) \/ UnregisterClaimDefault(t) \/ UnregisterClear(t)

LookupStep(t) ==
  \/ \E n \in Names : Get(t, n)
  \/ GetDefaultRead(t) \/ GetDefaultGet(t)

Next == \E t \in Threads :
          RegisterStep(t) \/ SetDefaultStep(t) \/ UnregisterStep(t) \/ LookupStep(t)

Spec == Init /\ [][Next]_vars

-----------------------------------------------------------------------------
(* Properties                                                               *)

\* A change a thread has made to the map and not returned from: it still holds
\* the write lock, so nobody can have seen it.
Pending(t, n) ==
  /\ call[t].name = n
  /\ call[t].at \in {"register_default", "register_set",
                     "unregister_default", "unregister_clear"}

\* The map as callers can know it.
VisibleBackends ==
  [n \in Names |-> IF \E t \in Threads : Pending(t, n)
                   THEN call[CHOOSE t \in Threads : Pending(t, n)].object
                   ELSE backends[n]]

Abstract == INSTANCE BackendRegistry WITH backends <- VisibleBackends

\* The two-lock registry implements the atomic one: every method takes effect at
\* one point between its call and its return, whatever the interleaving.
ImplementsRegistry == Abstract!Spec

\* A default names a registered backend, as callers see both, also in the middle
\* of other threads' register, set_default and unregister (registry.rs 75-94, 161-172).
DefaultRegistered == Abstract!DefaultRegistered

\* get_default holds the default while it looks it up, so by the time it can read
\* the map the name it read is still the default and still registered: it never
\* answers NotFound for a default that was set (registry.rs 110-112).
DefaultLookupFinds ==
  \A t \in Threads : At(t, "get_default_get") =>
    /\ default = call[t].name
    /\ Readable(bLock) => backends[default] # NoObject

\* Neither value changes under a reader that is inside its lock (registry.rs 40, 43).
ReadersUndisturbed ==
  [][/\ backends' # backends => bLock.readers = {}
     /\ default' # default => dLock.readers = {}]_vars

\* The threads t waits for, by the lock it wants next.
WaitsFor(t) ==
  CASE call[t].at \in {"register_insert", "unregister_remove"} -> bLock.readers
    [] call[t].at \in {"register_default", "set_default_default", "unregister_default"} ->
         {dLock.writer} \ {NoThread}
    [] call[t].at \in {"register_set", "set_default_set", "unregister_clear"} -> dLock.readers
    [] call[t].at = "get_default_get" -> {bLock.writer} \ {NoThread}
    [] OTHER -> {}

Busy == {t \in Threads : ~At(t, "idle")}
Stuck == Busy # {} /\ \A t \in Busy : WaitsFor(t) # {}

\* register, set_default and unregister agree on the lock order: calls can all
\* wait for each other only when one of them is get_default, which takes the
\* locks the other way round (registry.rs 110-112 against 75-79, 88-93, 161-168).
OnlyGetDefaultInverts == Stuck => \E t \in Busy : At(t, "get_default_get")

\* "The registry is thread-safe and can be shared across async tasks" (registry.rs
\* 21), with "dynamic (runtime) backend registration" (registry.rs 7): the calls
\* of several threads never end up all waiting for each other.
NeverStuck == ~Stuck
=============================================================================
