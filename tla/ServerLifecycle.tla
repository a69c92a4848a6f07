---------------------------- MODULE ServerLifecycle ----------------------------
(***************************************************************************)
(* The life of the HAL process: run_servers (hal/src/server/mod.rs) races   *)
(* the gRPC and the REST server in a select!, a signal task tells both to   *)
(* stop through a watch channel, and when run_servers returns the tokio     *)
(* runtime is dropped with the requests still running.  A request may await *)
(* Python code on the blocking pool (hal/src/backend/qutip/mod.rs), which   *)
(* nothing can stop.                                                        *)
(***************************************************************************)
EXTENDS FiniteSets

CONSTANT Requests   \* the requests clients send during the life of the process

VARIABLES
  restEnabled,  \* config.rest_enabled
  signal,       \* the spawned task that awaits ctrl_c
  shutdown,     \* the value of the watch channel
  server,       \* the serve future of each server
  request,      \* the handler of each request, and the server it runs on
  python,       \* the blocking thread each request started
  main          \* the main task, then the runtime's destructor

vars == <<restEnabled, signal, shutdown, server, request, python, main>>

Servers == {"grpc", "rest"}
Ended == {"finished", "failed"}

TypeOK ==
  /\ restEnabled \in BOOLEAN
  /\ signal \in {"armed", "fired", "lost"}
  /\ shutdown \in BOOLEAN
  /\ server \in [Servers -> {"off", "starting", "serving", "draining", "dropped"} \cup Ended]
  /\ request \in [Requests -> [state : {"none", "running", "answered", "abandoned", "cancelled"},
                               on : Servers]]
  /\ python \in [Requests -> {"none", "running", "done"}]
  /\ main \in {"running", "returned", "dropping", "exited"}

Running(s) == {r \in Requests : request[r].state = "running" /\ request[r].on = s}

Init ==
  /\ restEnabled \in BOOLEAN
  /\ signal = "armed"
  /\ shutdown = FALSE
  /\ server = [s \in Servers |-> IF s = "rest" /\ ~restEnabled THEN "off" ELSE "starting"]
  /\ request \in [Requests -> [state : {"none"}, on : Servers]]
  /\ python = [r \in Requests |-> "none"]
  /\ main = "running"

-----------------------------------------------------------------------------
(* The signal task                                                          *)

CtrlC ==
  /\ signal = "armed" /\ main = "running"
  /\ signal' = "fired" /\ shutdown' = TRUE
  /\ UNCHANGED <<restEnabled, server, request, python, main>>

\* Mutant: the outcome of ctrl_c is not looked at.
SignalLostShutsDown ==
  /\ signal = "armed" /\ main = "running"
  /\ signal' = "lost" /\ shutdown' = TRUE
  /\ UNCHANGED <<restEnabled, server, request, python, main>>

\* ctrl_c returns an error: the task ends and nobody will ever signal shutdown.
SignalLost ==
  /\ signal = "armed" /\ main = "running"
  /\ signal' = "lost"
  /\ UNCHANGED <<restEnabled, shutdown, server, request, python, main>>

-----------------------------------------------------------------------------
(* The serve future of one server, polled while main runs                   *)

ServerStep(s, from, to) ==
  /\ main = "running"
  /\ server[s] = from
  /\ server' = [server EXCEPT ![s] = to]
  /\ UNCHANGED <<restEnabled, signal, shutdown, request, python, main>>

Bind(s) == ServerStep(s, "starting", "serving")

\* Mutant: the signal is handled only when both servers are up.
DrainWithBoth(s) ==
  /\ shutdown /\ \A z \in Servers : server[z] \in {"serving", "draining"}
  /\ ServerStep(s, "serving", "draining")

\* changed() on a clone of the first receiver: a value sent before the server
\* subscribed is seen too.
Drain(s) == shutdown /\ ServerStep(s, "serving", "draining")

\* select! returns at once with the first server that ends, well or not, and drops
\* the other; without REST the gRPC server is awaited alone.
End(s, from, how) ==
  /\ main = "running"
  /\ server[s] = from
  /\ server' = [z \in Servers |-> IF z = s THEN how
                                  ELSE IF server[z] = "off" THEN "off" ELSE "dropped"]
  /\ main' = "returned"
  /\ UNCHANGED <<restEnabled, signal, shutdown, request, python>>

BindFails(s) == End(s, "starting", "failed")

\* Mutant: the server does not wait for its requests.
FinishAtOnce(s) == End(s, "draining", "finished")

\* Graceful: the future ends when the last request of its server has ended.
Finish(s) == Running(s) = {} /\ End(s, "draining", "finished")

\* Requests and their connections are tasks of their own.
Accept(r, onPython) ==
  /\ request[r].state = "none"
  /\ main = "running" /\ server[request[r].on] = "serving"
  /\ request' = [request EXCEPT ![r].state = "running"]
  /\ python' = [python EXCEPT ![r] = IF onPython THEN "running" ELSE "none"]
  /\ UNCHANGED <<restEnabled, signal, shutdown, server, main>>

EndRequest(r, state) ==
  /\ request[r].state = "running"
  /\ request' = [request EXCEPT ![r].state = state]
  /\ UNCHANGED <<restEnabled, signal, shutdown, server, python, main>>

Reply(r) == python[r] # "running" /\ EndRequest(r, "answered")

\* tokio::time::timeout around spawn_blocking: an error is answered while the
\* thread goes on, holding the GIL.
PythonTimesOut(r) == python[r] = "running" /\ EndRequest(r, "answered")

\* The client closes its connection: the handler is dropped, its thread is not.
ClientGone(r) == EndRequest(r, "abandoned")

PythonReturns(r) ==
  /\ python[r] = "running"
  /\ python' = [python EXCEPT ![r] = "done"]
  /\ UNCHANGED <<restEnabled, signal, shutdown, server, request, main>>

-----------------------------------------------------------------------------
(* The end of the process                                                   *)

\* Mutant: the destructor forgets the tasks.
RuntimeLeaks ==
  /\ main = "returned"
  /\ main' = "dropping"
  /\ UNCHANGED <<restEnabled, signal, shutdown, server, request, python>>

\* The runtime's destructor cancels every task that is still running ...
RuntimeDropped ==
  /\ main = "returned"
  /\ request' = [r \in Requests |->
                   IF request[r].state = "running" THEN [request[r] EXCEPT !.state = "cancelled"]
                                                   ELSE request[r]]
  /\ main' = "dropping"
  /\ UNCHANGED <<restEnabled, signal, shutdown, server, python>>

\* ... and waits for the blocking threads without limit: shutdown_timeout_sec is
\* only logged.
Exit ==
  /\ main = "dropping"
  /\ \A r \in Requests : python[r] # "running"
  /\ main' = "exited"
  /\ UNCHANGED <<restEnabled, signal, shutdown, server, request, python>>

-----------------------------------------------------------------------------
\* A handler is a task of its own, which lives until the runtime is dropped.
Handler(r) == main \in {"running", "returned"} /\ (Reply(r) \/ PythonTimesOut(r))

Next ==
  \/ CtrlC \/ SignalLost \/ RuntimeDropped \/ Exit
  \/ \E s \in Servers : Bind(s) \/ BindFails(s) \/ Drain(s) \/ Finish(s)
  \/ \E r \in Requests : \/ Handler(r) \/ PythonReturns(r)
                         \/ main \in {"running", "returned"} /\ ClientGone(r)
                         \/ \E onPython \in BOOLEAN : Accept(r, onPython)

\* The runtime polls every task that is ready.  Backend calls end, Python's within
\* its timeout; PythonReturns is fair only where the simulation itself ends.
Fairness ==
  /\ \A s \in Servers : WF_vars(Bind(s)) /\ WF_vars(Drain(s)) /\ WF_vars(Finish(s))
  /\ WF_vars(RuntimeDropped) /\ WF_vars(Exit)
  /\ \A r \in Requests : WF_vars(Handler(r))

SimulationsEnd == \A r \in Requests : WF_vars(PythonReturns(r))

Spec == Init /\ [][Next]_vars /\ Fairness /\ SimulationsEnd

-----------------------------------------------------------------------------
(* Properties                                                               *)

\* A request is cut off only because the other server ended first: never when the
\* gRPC server runs alone, and never by its own server, which drains
\* (server/mod.rs 109-127, the select! that drops the slower server).
CutOffOnlyByPeer ==
  \A r \in Requests : request[r].state = "cancelled" =>
    /\ restEnabled
    /\ server[request[r].on] = "dropped"
    /\ \E s \in Servers : s # request[r].on /\ server[s] \in Ended

\* The process stops only when asked to, or because a port could not be bound; a
\* lost signal handler stops nothing (server/mod.rs 103-107, 109-127).
StopsOnlyForCause ==
  main # "running" =>
    \/ signal = "fired" /\ shutdown
    \/ \E s \in Servers : server[s] = "failed"

\* Once shutdown is signalled the process exits, whatever requests are running, if
\* simulations end (server/mod.rs 103-140).
ShutdownCompletes == shutdown ~> main = "exited"

\* No request is left without an end: it is answered, given up by its client or
\* cancelled, also when it arrives as the server drains (grpc.rs 60-69, rest.rs 88-103).
RequestsEnd == \A r \in Requests : request[r].state = "running" ~> request[r].state # "running"
=============================================================================
