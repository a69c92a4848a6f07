--------------------------- MODULE BackendRegistry ---------------------------
(***************************************************************************)
(* What the backend registry of the HAL promises its callers                *)
(* (hal/src/backend/registry.rs): a map from names to backend objects and   *)
(* an optional default name, on which every public method takes effect in   *)
(* one atomic step.  RegistryLocks shows that the two-lock implementation   *)
(* keeps this promise; PulseService builds on it.                           *)
(***************************************************************************)

CONSTANTS
  Threads,   \* the callers of the registry
  Names,     \* names a backend can have
  NoName,    \* Option::None for a name
  Objects,   \* backend objects (Arc<dyn QuantumBackend>)
  NoObject   \* no backend: an absent key, and the answer of a failed lookup

VARIABLES
  backends,  \* the map; an absent key maps to NoObject
  default,   \* the default backend's name, or NoName
  answer     \* the object each thread's last lookup returned

vars == <<backends, default, answer>>

TypeOK ==
  /\ backends \in [Names -> Objects \cup {NoObject}]
  /\ default \in Names \cup {NoName}
  /\ answer \in [Threads -> Objects \cup {NoObject}]

Registered(n) == backends[n] # NoObject

Init ==
  /\ backends = [n \in Names |-> NoObject]
  /\ default = NoName
  /\ answer = [t \in Threads |-> NoObject]

\* register: replaces a backend of that name; a first backend becomes the default.
Register(n, o) ==
  /\ backends' = [backends EXCEPT ![n] = o]
  /\ default' = IF default = NoName THEN n ELSE default
  /\ UNCHANGED answer

\* set_default: refused (no change) for a name that is not registered.
SetDefault(n) ==
  /\ Registered(n)
  /\ default' = n
  /\ UNCHANGED <<backends, answer>>

\* unregister: the default is cleared with its backend, none takes its place.
Unregister(n) ==
  /\ Registered(n)
  /\ backends' = [backends EXCEPT ![n] = NoObject]
  /\ default' = IF default = n THEN NoName ELSE default
  /\ UNCHANGED answer

Get(t, n) ==
  /\ answer' = [answer EXCEPT ![t] = backends[n]]
  /\ UNCHANGED <<backends, default>>

\* What get_default returns.
DefaultObject == IF default = NoName THEN NoObject ELSE backends[default]

GetDefault(t) ==
  /\ answer' = [answer EXCEPT ![t] = DefaultObject]
  /\ UNCHANGED <<backends, default>>

Next ==
  \/ \E n \in Names : SetDefault(n) \/ Unregister(n) \/ (\E o \in Objects : Register(n, o))
  \/ \E t \in Threads : GetDefault(t) \/ (\E n \in Names : Get(t, n))

Spec == Init /\ [][Next]_vars

\* The default, when there is one, is a registered backend: a request without a
\* backend name is never routed to one that was removed (registry.rs 166-172).
DefaultRegistered == default # NoName => Registered(default)
=============================================================================
