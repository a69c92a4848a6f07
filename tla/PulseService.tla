----------------------------- MODULE PulseService -----------------------------
(***************************************************************************)
(* The request handlers of the HAL's two servers (hal/src/server/grpc.rs    *)
(* and rest.rs) over the backend registry.  A handler is a task: what it    *)
(* does between two awaits on a backend is one step; while it awaits, other *)
(* tasks run and backends are registered, replaced and removed.  The        *)
(* registry is the atomic one, which RegistryLocks implements.              *)
(***************************************************************************)
EXTENDS Integers, Sequences, FiniteSets

CONSTANTS
  Tasks,      \* handlers in flight at the same time
  Names, NoName, Objects, NoObject,  \* as in BackendRegistry
  NumQubits,  \* the qubit count each backend object reports
  MaxQubits,  \* the validation limit MAX_QUBITS
  Requests,   \* pulse requests, see RequestType
  Batches     \* request sequences that clients send in one batch call

\* backend: the name asked for, NoName meaning "the default".
\* wellFormed: the pulse is present, no integer is negative and the optional
\*   pulse sequence satisfies its constraints (checked on gRPC before anything else).
\* inRange: envelopes, shots and duration pass validate_api_request.
\* target, measure: the qubits the pulse drives, and measurement_qubits.
RequestType == [backend : Names \cup {NoName}, wellFormed : BOOLEAN, inRange : BOOLEAN,
                target : Seq(Nat), measure : Seq(Nat)]

ASSUME RequestsAssumption == Requests \subseteq RequestType /\ Batches \subseteq Seq(Requests)
ASSUME SizesAssumption == NumQubits \in [Objects -> Nat] /\ MaxQubits \in Nat
ASSUME NothingAssumption == NoName \notin Names /\ NoObject \notin Objects

VARIABLES
  backends,  \* the registry's map
  default,   \* the registry's default
  task       \* the call each handler is serving, and its locals

vars == <<backends, default, task>>

Registry == INSTANCE BackendRegistry WITH Threads <- {}, answer <- <<>>

\* What a client may call.  Asks question one backend; Surveys all of them;
\* gRPC's list_backends answers from the registry at once and is left out.
Runs == {"execute", "batch", "rest"}
Asks == {"info", "rest_info", "health_of"}
Surveys == {"health", "list"}
Rpcs == Runs \cup Asks \cup Surveys
Statuses == {"ok", "invalid_argument", "not_found", "internal", "backend_error", "aborted"}
Health == {"healthy", "degraded", "unavailable"}
Listing == {"listed", "failed"}  \* of a backend's hardware info, on the REST list

\* at: the await the handler is in.  todo, results: a batch and its responses so
\* far.  held: the Arc<dyn QuantumBackend> the handler keeps across awaits.
\* ran: history of the backend calls made for the batch's members.
\* left, probing, seen, overall: the names health still has to survey, the one it
\* awaits, the statuses found and the overall status; kept: history of the listed
\* names that have been registered ever since.
TaskType == [rpc : Rpcs, at : {"idle", "lookup", "info", "execute", "survey", "probe"},
             todo : Seq(Requests), stop : BOOLEAN, results : Seq(Statuses),
             ok : Nat, failed : Nat, skipped : Nat,
             held : Objects \cup {NoObject},
             ran : Seq([member : Nat, object : Objects]),
             left : SUBSET Names, probing : Names \cup {NoName}, kept : SUBSET Names,
             seen : [Names -> Health \cup Listing \cup {"absent"}], overall : Health]

IdleTask == [rpc |-> "execute", at |-> "idle", todo |-> <<>>, stop |-> FALSE, results |-> <<>>,
             ok |-> 0, failed |-> 0, skipped |-> 0, held |-> NoObject, ran |-> <<>>,
             left |-> {}, probing |-> NoName, kept |-> {},
             seen |-> [n \in Names |-> "absent"], overall |-> "healthy"]

TypeOK ==
  /\ backends \in [Names -> Objects \cup {NoObject}]
  /\ default \in Names \cup {NoName}
  /\ task \in [Tasks -> TaskType]

-----------------------------------------------------------------------------
(* Start-up and the registry                                                *)

\* initialize_backends: each enabled backend whose constructor succeeds is
\* registered, in a fixed order, the first becomes the default and QuTiP may be
\* made the default; the server does not start with none.
Init ==
  /\ backends \in [Names -> Objects \cup {NoObject}]
  /\ default \in Names
  /\ Registry!Registered(default)
  /\ task = [t \in Tasks |-> IdleTask]

RegisterBackend(n, o) == Registry!Register(n, o) /\ UNCHANGED task
SetDefaultBackend(n) == Registry!SetDefault(n) /\ UNCHANGED task

UnregisterBackend(n) ==
  /\ Registry!Unregister(n)
  /\ task' = [t \in Tasks |-> [task[t] EXCEPT !.kept = @ \ {n}]]

-----------------------------------------------------------------------------
(* One pulse: execute_single_pulse and the REST endpoint                    *)

Await(t, point) == task' = [task EXCEPT ![t].at = point]
Member(t) == Len(task[t].results) + 1
Current(t) == task[t].todo[Member(t)]

\* Mutant: the skipped members are answered but not counted.
RespondUncounted(t, status) ==
  LET call == task[t]
      after == Len(call.todo) - Member(t)
      stopped == call.rpc = "batch" /\ call.stop /\ status # "ok"
      skipped == IF stopped THEN after ELSE 0
  IN task' = [task EXCEPT ![t] =
       [call EXCEPT !.results = Append(@, status) \o [i \in 1..skipped |-> "aborted"],
                    !.ok = IF status = "ok" THEN @ + 1 ELSE @,
                    !.failed = IF status # "ok" THEN @ + 1 ELSE @,
                    !.held = NoObject,
                    !.at = IF stopped \/ after = 0 THEN "idle" ELSE "lookup"]]

\* The response for the current member.  A batch that stops on the first error
\* answers all that follow at once, without a backend; otherwise the next begins.
Respond(t, status) ==
  LET call == task[t]
      after == Len(call.todo) - Member(t)
      stopped == call.rpc = "batch" /\ call.stop /\ status # "ok"
      skipped == IF stopped THEN after ELSE 0
  IN task' = [task EXCEPT ![t] =
       [call EXCEPT !.results = Append(@, status) \o [i \in 1..skipped |-> "aborted"],
                    !.ok = IF status = "ok" THEN @ + 1 ELSE @,
                    !.failed = IF status # "ok" THEN @ + 1 ELSE @,
                    !.skipped = @ + skipped,
                    !.held = NoObject,
                    !.at = IF stopped \/ after = 0 THEN "idle" ELSE "lookup"]]

Receive(t, rpc, members, stop) ==
  /\ task[t].at = "idle"
  /\ task' = [task EXCEPT ![t] =
       [IdleTask EXCEPT !.rpc = rpc, !.todo = members, !.stop = stop,
                        !.at = IF members = <<>> THEN "idle" ELSE "lookup"]]
  /\ UNCHANGED <<backends, default>>

ReceivePulse(t, r) == Receive(t, "execute", <<r>>, FALSE)
ReceiveBatch(t, members, stop) == Receive(t, "batch", members, stop)
ReceiveInfo(t, r) == Receive(t, "info", <<r>>, FALSE)

\* GET /backends/:name, and health of one backend: the name is required.
ReceiveAsk(t, r) == r.backend # NoName /\ \E rpc \in Asks \ {"info"} : Receive(t, rpc, <<r>>, FALSE)

\* The REST body has unsigned fields, no measurement qubits and no sequence.
ReceiveRest(t, r) ==
  /\ r.wellFormed
  /\ r.measure = <<>>
  /\ Receive(t, "rest", <<r>>, FALSE)

\* Up to the first await: the checks that need no backend, then the registry.
WellFormed(t) == task[t].rpc \in {"execute", "batch"} => Current(t).wellFormed
BackendFor(r) == IF r.backend = NoName THEN Registry!DefaultObject ELSE backends[r.backend]

Lookup(t) ==
  /\ task[t].at = "lookup"
  /\ \/ ~WellFormed(t) /\ Respond(t, "invalid_argument")
     \/ WellFormed(t) /\ BackendFor(Current(t)) = NoObject /\ Respond(t, "not_found")
     \/ /\ WellFormed(t)
        /\ BackendFor(Current(t)) # NoObject
        /\ task' = [task EXCEPT ![t].held = BackendFor(Current(t)), ![t].at = "info"]
  /\ UNCHANGED <<backends, default>>

NoDuplicates(qubits) == \A i, j \in DOMAIN qubits : i # j => qubits[i] # qubits[j]

\* validate_target_qubits
QubitsValid(qubits, limit) ==
  /\ qubits # <<>>
  /\ \A i \in DOMAIN qubits : qubits[i] < limit
  /\ NoDuplicates(qubits)

Least(a, b) == IF a < b THEN a ELSE b
Limit(o) == Least(NumQubits[o], MaxQubits)
QubitsForValidation(r) == IF r.measure = <<>> THEN r.target ELSE r.measure
RequestValid(r, o) == r.inRange /\ QubitsValid(QubitsForValidation(r), Limit(o))

\* Mutant: the registry is asked again for the backend that executes.
InfoReturnsLooksAgain(t) ==
  /\ task[t].at = "info"
  /\ RequestValid(Current(t), task[t].held)
  /\ BackendFor(Current(t)) # NoObject
  /\ task' = [task EXCEPT ![t].at = "execute",
                ![t].ran = Append(@, [member |-> Member(t), object |-> BackendFor(Current(t))])]
  /\ UNCHANGED <<backends, default>>

\* gRPC passes a backend's error on; where its info is only a means, and on REST, it is internal.
AskFailed(rpc) == IF rpc \in {"info", "health_of"} THEN "backend_error" ELSE "internal"

\* get_hardware_info (health_check for health_of) returned: a pulse is validated
\* against what it said, an asker gets the answer.
InfoReturns(t) ==
  /\ task[t].at = "info"
  /\ \/ Respond(t, AskFailed(task[t].rpc))
     \/ task[t].rpc \in Asks /\ Respond(t, "ok")
     \/ /\ task[t].rpc \in Runs
        /\ ~RequestValid(Current(t), task[t].held)
        /\ Respond(t, "invalid_argument")
     \/ /\ task[t].rpc \in Runs
        /\ RequestValid(Current(t), task[t].held)
        /\ task' = [task EXCEPT ![t].at = "execute",
                      ![t].ran = Append(@, [member |-> Member(t), object |-> task[t].held])]
  /\ UNCHANGED <<backends, default>>

\* Mutant: a failed execution is retried.
ExecuteReturnsRetry(t) ==
  /\ task[t].at = "execute"
  /\ \/ Respond(t, "ok")
     \/ task' = [task EXCEPT ![t].ran = Append(@, [member |-> Member(t), object |-> task[t].held])]
  /\ UNCHANGED <<backends, default>>

\* backend.execute_pulse returned.
ExecuteReturns(t) ==
  /\ task[t].at = "execute"
  /\ \/ Respond(t, "ok")
     \/ Respond(t, "backend_error")
  /\ UNCHANGED <<backends, default>>

-----------------------------------------------------------------------------
(* Health of all backends, and the REST list of them with their hardware info *)

ReceiveSurvey(t, rpc) ==
  LET listed == {n \in Names : Registry!Registered(n)} IN
  /\ task[t].at = "idle"
  /\ task' = [task EXCEPT ![t] = [IdleTask EXCEPT !.rpc = rpc, !.at = "survey",
                                                  !.left = listed, !.kept = listed]]
  /\ UNCHANGED <<backends, default>>

\* Mutant: the survey ends at the first backend that has gone.
SurveyBreaks(t) ==
  /\ task[t].at = "survey"
  /\ \/ task[t].left = {} /\ Await(t, "idle")
     \/ \E n \in task[t].left : ~Registry!Registered(n) /\ Await(t, "idle")
     \/ \E n \in task[t].left :
          /\ Registry!Registered(n)
          /\ task' = [task EXCEPT ![t].left = @ \ {n}, ![t].probing = n, ![t].at = "probe"]
  /\ UNCHANGED <<backends, default>>

\* Mutant: the survey waits for a backend that has gone to come back.
SurveyWaits(t) ==
  /\ task[t].at = "survey"
  /\ \/ task[t].left = {} /\ Await(t, "idle")
     \/ \E n \in task[t].left :
          /\ Registry!Registered(n)
          /\ task' = [task EXCEPT ![t].left = @ \ {n}, ![t].probing = n, ![t].at = "probe"]
  /\ UNCHANGED <<backends, default>>

\* The next name of the list is skipped when its backend has gone meanwhile.
Survey(t) ==
  /\ task[t].at = "survey"
  /\ \/ task[t].left = {} /\ Await(t, "idle")
     \/ \E n \in task[t].left :
          /\ ~Registry!Registered(n)
          /\ task' = [task EXCEPT ![t].left = @ \ {n}]
     \/ \E n \in task[t].left :
          /\ Registry!Registered(n)
          /\ task' = [task EXCEPT ![t].left = @ \ {n}, ![t].probing = n, ![t].at = "probe"]
  /\ UNCHANGED <<backends, default>>

Worse(overall, status) ==
  CASE status \in {"healthy"} \cup Listing -> overall
    [] status = "degraded" /\ overall # "healthy" -> overall
    [] OTHER -> "degraded"

\* health_check returned, an error counting as unavailable; or get_hardware_info did.
ProbeReturns(t, status) ==
  /\ task[t].at = "probe"
  /\ status \in (IF task[t].rpc = "list" THEN Listing ELSE Health)
  /\ task' = [task EXCEPT ![t].at = "survey", ![t].probing = NoName,
                          ![t].seen = [@ EXCEPT ![task[t].probing] = status],
                          ![t].overall = Worse(@, status)]
  /\ UNCHANGED <<backends, default>>

-----------------------------------------------------------------------------
Admin == \E n \in Names : \/ SetDefaultBackend(n) \/ UnregisterBackend(n)
                          \/ \E o \in Objects : RegisterBackend(n, o)

Arrive(t) == \/ \E r \in Requests : ReceivePulse(t, r) \/ ReceiveRest(t, r) \/ ReceiveInfo(t, r) \/ ReceiveAsk(t, r)
             \/ \E members \in Batches, stop \in BOOLEAN : ReceiveBatch(t, members, stop)
             \/ \E rpc \in Surveys : ReceiveSurvey(t, rpc)

Proceed(t) == \/ Lookup(t) \/ InfoReturns(t) \/ ExecuteReturns(t) \/ Survey(t)
              \/ \E status \in Health \cup Listing : ProbeReturns(t, status)

Next == Admin \/ \E t \in Tasks : Arrive(t) \/ Proceed(t)

\* A handler is polled when it can go on, and backends answer every call (the
\* clients and QuTiP bound theirs with timeouts, see RemoteJobs and ServerLifecycle).
Fairness == \A t \in Tasks : WF_vars(Proceed(t))

Spec == Init /\ [][Next]_vars /\ Fairness

-----------------------------------------------------------------------------
(* Properties                                                               *)

Count(results, S) == Cardinality({i \in DOMAIN results : results[i] \in S})

\* execute_pulse_batch answers every member exactly once, in order, and its three
\* counts are those of the answers; with stop_on_first_error all members after
\* the first failure are skipped and none before it (grpc.rs 319-384).
BatchAccounted ==
  \A t \in Tasks : LET call == task[t] IN
    /\ call.ok = Count(call.results, {"ok"})
    /\ call.skipped = Count(call.results, {"aborted"})
    /\ call.ok + call.failed + call.skipped = Len(call.results)
    /\ call.at = "idle" => Len(call.results) = Len(call.todo)
    /\ \A i \in DOMAIN call.results : call.results[i] = "aborted" <=>
         call.stop /\ \E j \in 1..(i - 1) : call.results[j] # "ok"

\* A member reaches a backend at most once, and only if its answer says so: never
\* when it was refused, not found or skipped (grpc.rs 327-347).
RanAsAnswered ==
  \A t \in Tasks : LET call == task[t] IN
    /\ \A i, j \in DOMAIN call.ran : i < j => call.ran[i].member < call.ran[j].member
    /\ call.rpc \in Runs => \A i \in DOMAIN call.results :
         (\E e \in DOMAIN call.ran : call.ran[e].member = i)
           <=> call.results[i] \in {"ok", "backend_error"}

\* The backend that runs a pulse is the one whose size it was validated against,
\* even when the name was unregistered or given to another backend during the
\* await in between (grpc.rs 200-250, rest.rs 409-486).
ValidatedForExecutor ==
  \A t \in Tasks : \A i \in DOMAIN task[t].ran :
    RequestValid(task[t].todo[task[t].ran[i].member], task[t].ran[i].object)

\* A survey covers every backend that was registered throughout, whatever came and
\* went or failed meanwhile, and a health report is "healthy" exactly when every
\* status in it is (grpc.rs 496-540, rest.rs 276-347).
HealthReportSound ==
  \A t \in Tasks : LET call == task[t] IN
    call.rpc \in Surveys /\ call.at = "idle" =>
      /\ \A n \in call.kept : call.seen[n] # "absent"
      /\ call.overall = "healthy" <=>
           \A n \in Names : call.seen[n] \notin {"degraded", "unavailable"}

\* Every call is answered: no sequence of registrations, removals and backend
\* errors makes a handler loop or wait for ever (grpc.rs 327-373, 501-530).
CallsAnswered == \A t \in Tasks : task[t].at # "idle" ~> task[t].at = "idle"
=============================================================================
