--------------------------- MODULE HalProcessProofs ---------------------------
(***************************************************************************)
(* Proofs about HalProcess and the servers it runs, for any build,           *)
(* invocations and requests: what ends the servers and which requests that    *)
(* cuts off, where the process gets its settings from, what it serves with,   *)
(* and what its exit status tells.                                           *)
(***************************************************************************)
EXTENDS HalProcess, TLAPS

-----------------------------------------------------------------------------
(* The servers alone, from the start of run_servers: what ends the process    *)
(* and which requests its end cuts off.                                      *)

\* While main runs no server has ended; afterwards one has, and it is the only one
\* that was not dropped.
OneEnded ==
  /\ main = "running" => \A s \in Servers : server[s] \notin Ended \cup {"dropped"}
  /\ main # "running" =>
       \E s \in Servers : /\ server[s] \in Ended
                          /\ \A z \in Servers \ {s} : server[z] \in {"off", "dropped"}

\* Only the REST server may be off, and it is when the configuration says so.
OffIsRest ==
  /\ server["grpc"] # "off"
  /\ server["rest"] = "off" <=> ~restEnabled

\* A running request is on a server that serves, drains or was dropped; a cancelled
\* one on a server that was dropped, after main returned.
RunningOnLive ==
  \A r \in Requests :
    /\ request[r].state = "running" => server[request[r].on] \in {"serving", "draining", "dropped"}
    /\ request[r].state = "cancelled" => server[request[r].on] = "dropped" /\ main # "running"

\* Servers drain only on the signal.
DrainIsAsked ==
  /\ shutdown <=> signal = "fired"
  /\ \A s \in Servers : server[s] \in {"draining", "finished"} => shutdown

IInv == TypeOK /\ OneEnded /\ OffIsRest /\ RunningOnLive /\ DrainIsAsked

LEMMA InitInv == Init => IInv
BY DEF Init, IInv, TypeOK, OneEnded, OffIsRest, RunningOnLive, DrainIsAsked, Servers, Ended

\* The steps of a server that keep its future pending.
LEMMA ServerStepInv ==
  ASSUME IInv, NEW s \in Servers, Bind(s) \/ Drain(s)
  PROVE  IInv'
<1>1. main = "running" /\ main' = "running" /\ UNCHANGED <<restEnabled, signal, shutdown, request, python>>
  BY DEF Bind, Drain, ServerStep
<1>2. PICK to \in {"serving", "draining"} :
        /\ server' = [server EXCEPT ![s] = to]
        /\ to = "draining" => shutdown
        /\ server[s] \in {"starting", "serving"}
  BY DEF Bind, Drain, ServerStep
<1>3. TypeOK'
  BY <1>1, <1>2 DEF IInv, TypeOK, Servers, Ended
<1>4. OneEnded' /\ OffIsRest'
  BY <1>1, <1>2 DEF IInv, TypeOK, OneEnded, OffIsRest, Servers, Ended
<1>5. RunningOnLive'
  BY <1>1, <1>2 DEF IInv, TypeOK, RunningOnLive, Servers
<1>6. DrainIsAsked'
  BY <1>1, <1>2 DEF IInv, TypeOK, DrainIsAsked, Servers
<1> QED BY <1>3, <1>4, <1>5, <1>6 DEF IInv

\* The step in which one server ends and main returns.
LEMMA EndInv ==
  ASSUME IInv, NEW s \in Servers, BindFails(s) \/ Finish(s)
  PROVE  IInv'
<1>1. /\ main = "running" /\ main' = "returned"
      /\ UNCHANGED <<restEnabled, signal, shutdown, request, python>>
  BY DEF BindFails, Finish, End
<1>2. PICK how \in Ended :
        server' = [z \in Servers |-> IF z = s THEN how
                                     ELSE IF server[z] = "off" THEN "off" ELSE "dropped"]
  BY DEF BindFails, Finish, End, Ended
<1>3. server[s] = "starting" \/ (server[s] = "draining" /\ Running(s) = {})
  BY DEF BindFails, Finish, End
<1>4. TypeOK'
  BY <1>1, <1>2 DEF IInv, TypeOK, Servers, Ended
<1>5. OneEnded' /\ OffIsRest'
  BY <1>1, <1>2, <1>3 DEF IInv, OneEnded, OffIsRest, Servers, Ended
<1>6. RunningOnLive'
  <2> SUFFICES ASSUME NEW r \in Requests
               PROVE  /\ request[r].state = "running" =>
                           server'[request[r].on] \in {"serving", "draining", "dropped"}
                      /\ request[r].state = "cancelled" => server'[request[r].on] = "dropped"
    BY <1>1 DEF RunningOnLive
  <2>1. request[r].on \in Servers
    BY DEF IInv, TypeOK
  <2>2. request[r].state # "cancelled"
    BY <1>1 DEF IInv, RunningOnLive
  <2>3. request[r].state = "running" => request[r].on # s /\ server[request[r].on] # "off"
    BY <1>3 DEF IInv, RunningOnLive, Running
  <2> QED BY <1>2, <2>1, <2>2, <2>3
<1>7. DrainIsAsked'
  <2>1. how = "finished" => server[s] = "draining"
    BY <1>2 DEF BindFails, Finish, End
  <2> QED BY <1>1, <1>2, <2>1 DEF IInv, DrainIsAsked, Servers, Ended
<1> QED BY <1>4, <1>5, <1>6, <1>7 DEF IInv

\* The steps of the signal task.
LEMMA SignalInv ==
  ASSUME IInv, CtrlC \/ SignalLost
  PROVE  IInv'
<1>1. UNCHANGED <<restEnabled, server, request, python, main>>
  BY DEF CtrlC, SignalLost
<1>2. TypeOK'
  BY <1>1 DEF IInv, TypeOK, CtrlC, SignalLost
<1>3. OneEnded' /\ OffIsRest' /\ RunningOnLive'
  BY <1>1 DEF IInv, OneEnded, OffIsRest, RunningOnLive
<1>4. DrainIsAsked'
  BY <1>1 DEF IInv, DrainIsAsked, CtrlC, SignalLost
<1> QED BY <1>2, <1>3, <1>4 DEF IInv

\* The steps of a request's handler.
LEMMA HandlerInv ==
  ASSUME IInv, NEW r \in Requests,
         \/ Handler(r) \/ PythonReturns(r) \/ ClientGone(r)
         \/ \E onPython \in BOOLEAN : Accept(r, onPython)
  PROVE  IInv'
<1>1. UNCHANGED <<restEnabled, signal, shutdown, server, main>>
  BY DEF Handler, Reply, PythonTimesOut, PythonReturns, ClientGone, EndRequest, Accept
<1>2. /\ \/ request' = request
         \/ \E to \in {"running", "answered", "abandoned"} :
              /\ request' = [request EXCEPT ![r].state = to]
              /\ to = "running" => server[request[r].on] = "serving"
      /\ python' = python \/ \E to \in {"none", "running", "done"} : python' = [python EXCEPT ![r] = to]
  BY DEF Handler, Reply, PythonTimesOut, PythonReturns, ClientGone, EndRequest, Accept
<1>3. TypeOK'
  BY <1>1, <1>2 DEF IInv, TypeOK
<1>4. OneEnded' /\ OffIsRest' /\ DrainIsAsked'
  BY <1>1 DEF IInv, OneEnded, OffIsRest, DrainIsAsked
<1>5. RunningOnLive'
  BY <1>1, <1>2 DEF IInv, TypeOK, RunningOnLive
<1> QED BY <1>3, <1>4, <1>5 DEF IInv

\* The steps of the runtime's destructor.
LEMMA DestructorInv ==
  ASSUME IInv, RuntimeDropped \/ Exit
  PROVE  IInv'
<1>1. UNCHANGED <<restEnabled, signal, shutdown, server, python>> /\ main # "running"
      /\ main' \in {"dropping", "exited"}
  BY DEF RuntimeDropped, Exit
<1>2. \A s \in Servers : server[s] \in Ended \cup {"off", "dropped"}
  BY <1>1 DEF IInv, OneEnded, Servers
<1>3. TypeOK'
  BY <1>1 DEF IInv, TypeOK, RuntimeDropped, Exit
<1>4. OneEnded' /\ OffIsRest' /\ DrainIsAsked'
  BY <1>1 DEF IInv, OneEnded, OffIsRest, DrainIsAsked
<1>5. RunningOnLive'
  <2>1. \A r \in Requests : request[r].state = "running" => server[request[r].on] = "dropped"
    BY <1>2 DEF IInv, TypeOK, RunningOnLive, Ended
  <2>2. CASE Exit
    BY <1>1, <2>2 DEF IInv, RunningOnLive, Exit
  <2>3. CASE RuntimeDropped
    BY <1>1, <2>1, <2>3 DEF IInv, TypeOK, RunningOnLive, RuntimeDropped
  <2> QED BY <2>2, <2>3
<1> QED BY <1>3, <1>4, <1>5 DEF IInv

LEMMA InvStep == IInv /\ [Next]_vars => IInv'
<1> SUFFICES ASSUME IInv, [Next]_vars PROVE IInv'
  OBVIOUS
<1>1. CASE CtrlC \/ SignalLost
  BY <1>1, SignalInv
<1>2. CASE RuntimeDropped \/ Exit
  BY <1>2, DestructorInv
<1>3. CASE \E s \in Servers : Bind(s) \/ BindFails(s) \/ Drain(s) \/ Finish(s)
  BY <1>3, ServerStepInv, EndInv
<1>4. CASE \E r \in Requests : \/ Handler(r) \/ PythonReturns(r)
                               \/ main \in {"running", "returned"} /\ ClientGone(r)
                               \/ \E onPython \in BOOLEAN : Accept(r, onPython)
  BY <1>4, HandlerInv
<1>5. CASE UNCHANGED vars
  BY <1>5 DEF vars, IInv, TypeOK, OneEnded, OffIsRest, RunningOnLive, DrainIsAsked
<1> QED BY <1>1, <1>2, <1>3, <1>4, <1>5 DEF Next

LEMMA InvCutOff == IInv => CutOffOnlyByPeer
<1> SUFFICES ASSUME IInv, NEW r \in Requests, request[r].state = "cancelled"
             PROVE  /\ restEnabled
                    /\ server[request[r].on] = "dropped"
                    /\ \E s \in Servers : s # request[r].on /\ server[s] \in Ended
  BY DEF CutOffOnlyByPeer
<1>1. server[request[r].on] = "dropped" /\ main # "running" /\ request[r].on \in Servers
  BY DEF IInv, TypeOK, RunningOnLive
<1>2. PICK s \in Servers : server[s] \in Ended
  BY <1>1 DEF IInv, OneEnded
<1>3. s # request[r].on
  BY <1>1, <1>2 DEF Ended
<1>4. restEnabled
  BY <1>1, <1>2, <1>3 DEF IInv, OffIsRest, Servers, Ended
<1> QED BY <1>1, <1>2, <1>3, <1>4

LEMMA InvStops == IInv => StopsOnlyForCause
BY DEF IInv, OneEnded, DrainIsAsked, StopsOnlyForCause, Ended

\* IInv is an inductive invariant of the two servers and the runtime.
THEOREM Invariance == Spec => []IInv
BY InitInv, InvStep, PTL DEF Spec

\* Every reachable state has its type.
THEOREM TypeCorrect == Spec => []TypeOK
<1>1. IInv => TypeOK
  BY DEF IInv
<1> QED BY <1>1, Invariance, PTL

\* A request is cut off only when the other server ended first, never by its own and
\* never without REST (the select! of run_servers, server/mod.rs 109-127).
THEOREM OnlyPeersCutOff == Spec => []CutOffOnlyByPeer
BY Invariance, InvCutOff, PTL

\* The process stops only on the signal or when a port could not be bound
\* (server/mod.rs 103-127).
THEOREM StopsForCause == Spec => []StopsOnlyForCause
BY Invariance, InvStops, PTL

-----------------------------------------------------------------------------
(* The whole process                                                        *)

\* What the configuration is once the command has been looked at.
Effective == IF given.command = "serve" THEN Over(Options, Load(given)) ELSE Load(given)

\* No server has been started.
Unstarted ==
  /\ main = "running" /\ signal = "unset" /\ ~shutdown
  /\ request \in [Requests -> [state : {"none"}, on : Servers]]
  /\ python = [r \in Requests |-> "none"]

Stages == {"started", "loaded", "backends", "ready", "serving", "ended"}

HalTypeOK ==
  /\ given \in Invocations /\ stage \in Stages
  /\ registered \subseteq BackendNames
  /\ reports \in [BackendNames -> Reports \cup {"none"}]
  /\ stage # "ended" => exit = "none"

\* What has been read is the whole configuration, and only a valid one is served.
ConfigInv ==
  /\ stage \notin {"started", "ended"} => ArgumentsParse /\ Loads(given)
  /\ stage = "loaded" => config = Load(given)
  /\ stage \notin {"started", "loaded"} /\ ArgumentsParse /\ Loads(given) => config = Effective
  /\ stage \in {"backends", "ready", "serving"} /\ given.command = "serve" => Validate(config)

\* What is registered was constructed from the configuration.
RegistryInv ==
  stage \in {"ready", "serving"} =>
    /\ registered # {} /\ registered \subseteq Constructible
    /\ default \in registered /\ ("qutip_simulator" \in registered => default = "qutip_simulator")

\* The servers exist from run_servers on, and have ended when a process that served has.
ServersInv ==
  /\ stage \notin {"serving", "ended"} => Unstarted
  /\ stage = "serving" => IInv /\ given.command = "serve" /\ restEnabled = config.rest_enabled
  /\ stage = "ended" => Unstarted \/ IInv

HalInv == HalTypeOK /\ ConfigInv /\ RegistryInv /\ ServersInv /\ ExitStatusHonest

-----------------------------------------------------------------------------
(* The configuration                                                        *)

LEMMA OverAt ==
  ASSUME NEW f, NEW g, NEW s \in DOMAIN f \cup DOMAIN g
  PROVE  Over(f, g)[s] = IF s \in DOMAIN f THEN f[s] ELSE g[s]
BY DEF Over

LEMMA OverDomain ==
  ASSUME NEW f, NEW g
  PROVE  DOMAIN Over(f, g) = DOMAIN f \cup DOMAIN g
BY DEF Over

\* What a file that is read leaves of the defaults.
LEMMA FileAt ==
  ASSUME NEW i, NEW s \in Settings
  PROVE  LET file == ConfigFile(i).settings IN
         /\ s \in DOMAIN FromFile(i)
         /\ FromFile(i)[s] = IF s \in DOMAIN file THEN file[s]
                             ELSE IF s = "allowed_origins" /\ "allow_all" \in DOMAIN file THEN {}
                             ELSE Defaults[s]
<1> DEFINE file == ConfigFile(i).settings
           section == IF DOMAIN file \cap DOMAIN CorsDefaults # {} THEN [allowed_origins |-> {}] ELSE << >>
<1>1. CASE Existing(i) = {}
  <2>1. DOMAIN file = {}
    BY <1>1 DEF ConfigFile, NoFile
  <2>2. FromFile(i) = Defaults
    BY <1>1 DEF FromFile
  <2> QED
    BY <2>1, <2>2 DEF Settings
<1>2. CASE Existing(i) # {}
  <2>1. FromFile(i) = Over(file, Over(section, Defaults))
    BY <1>2 DEF FromFile, Deserialized
  <2>2. DOMAIN CorsDefaults = {"allow_all", "allowed_origins"}
    BY DEF CorsDefaults
  <2>3. s \in DOMAIN section <=> s = "allowed_origins" /\ DOMAIN file \cap {"allow_all", "allowed_origins"} # {}
    BY <2>2
  <2>4. s \in DOMAIN section => section[s] = {}
    BY <2>2
  <2>5. s \notin DOMAIN file => (s \in DOMAIN section <=> s = "allowed_origins" /\ "allow_all" \in DOMAIN file)
    BY <2>3
  <2> HIDE DEF file, section
  <2>6. s \in DOMAIN Over(section, Defaults)
    BY OverDomain DEF Settings
  <2>7. Over(section, Defaults)[s] = IF s \in DOMAIN section THEN section[s] ELSE Defaults[s]
    BY OverAt DEF Settings
  <2>8. s \in DOMAIN FromFile(i)
    BY <2>1, <2>6 DEF Over
  <2>9. FromFile(i)[s] = IF s \in DOMAIN file THEN file[s] ELSE Over(section, Defaults)[s]
    BY <2>1, <2>6, OverAt
  <2> QED
    BY <2>4, <2>5, <2>7, <2>8, <2>9 DEF file
<1> QED
  BY <1>1, <1>2

InEnv(i, s) == s \in DOMAIN i.env /\ (s \in Ports => i.env[s] \in PortNumbers)

LEMMA LoadAt ==
  ASSUME NEW i, NEW s \in Settings
  PROVE  /\ s \in DOMAIN Load(i)
         /\ Load(i)[s] = IF InEnv(i, s) THEN i.env[s] ELSE FromFile(i)[s]
<1>1. Load(i) = Over(Parsed(i.env), FromFile(i))
  BY DEF Load, ApplyEnvOverrides
<1>2. s \in DOMAIN Parsed(i.env) <=> InEnv(i, s)
  BY DEF Parsed, InEnv
<1>3. InEnv(i, s) => Parsed(i.env)[s] = i.env[s]
  BY DEF Parsed, InEnv
<1>4. s \in DOMAIN FromFile(i)
  BY FileAt
<1>5. s \in DOMAIN Load(i)
  BY <1>1, <1>4 DEF Over
<1>6. Load(i)[s] = IF s \in DOMAIN Parsed(i.env) THEN Parsed(i.env)[s] ELSE FromFile(i)[s]
  BY <1>1, <1>4, OverAt
<1> QED
  BY <1>2, <1>3, <1>5, <1>6

\* The options win over what was loaded; those that come from the environment are what
\* the environment gave there too.
LEMMA EffectiveAt ==
  ASSUME NEW s \in Settings, ArgumentsParse
  PROVE  Effective[s] = IF given.command = "serve" /\ s \in DOMAIN given.args THEN given.args[s]
                        ELSE IF InEnv(given, s) THEN given.env[s] ELSE FromFile(given)[s]
<1>1. s \in DOMAIN Load(given) /\ Load(given)[s] = IF InEnv(given, s) THEN given.env[s] ELSE FromFile(given)[s]
  BY LoadAt
<1>2. CASE given.command # "serve"
  BY <1>1, <1>2 DEF Effective
<1>3. CASE given.command = "serve"
  <2>1. Effective = Over(Options, Load(given))
    BY <1>3 DEF Effective
  <2>2. Effective[s] = IF s \in DOMAIN Options THEN Options[s] ELSE Load(given)[s]
    BY <1>1, <2>1, OverAt
  <2>3. DOMAIN Options = DOMAIN given.args \cup DOMAIN OptionsFromEnv
    BY OverDomain DEF Options
  <2>4. CASE s \in DOMAIN given.args
    <3>1. Options[s] = given.args[s]
      BY <2>4, OverAt DEF Options
    <3> QED
      BY <1>3, <2>2, <2>3, <2>4, <3>1
  <2>5. CASE s \notin DOMAIN given.args /\ s \in DOMAIN OptionsFromEnv
    <3>1. Options[s] = OptionsFromEnv[s]
      BY <2>5, OverAt DEF Options
    <3>2. OptionsFromEnv[s] = given.env[s] /\ s \in DOMAIN given.env
      BY <2>5 DEF OptionsFromEnv
    <3>3. OptionsFromEnv[s] \in PortNumbers
      BY <1>3, <2>5 DEF ArgumentsParse
    <3> QED
      BY <2>2, <2>3, <2>5, <3>1, <3>2, <3>3 DEF InEnv
  <2>6. CASE s \notin DOMAIN given.args /\ s \notin DOMAIN OptionsFromEnv
    BY <1>1, <2>2, <2>3, <2>6
  <2> QED
    BY <2>4, <2>5, <2>6
<1> QED
  BY <1>2, <1>3

LEMMA Resolved == HalInv => ConfigurationResolved
<1> SUFFICES ASSUME HalInv, stage \notin {"started", "loaded"}, ArgumentsParse, Loads(given),
                    NEW s \in Settings
             PROVE  LET file == ConfigFile(given).settings
                        inEnv == s \in DOMAIN given.env /\ (s \in Ports => given.env[s] \in PortNumbers)
                    IN config[s] =
                         CASE given.command = "serve" /\ s \in DOMAIN given.args -> given.args[s]
                           [] inEnv /\ ~(given.command = "serve" /\ s \in DOMAIN given.args) -> given.env[s]
                           [] OTHER -> IF s \in DOMAIN file THEN file[s]
                                       ELSE IF s = "allowed_origins" /\ "allow_all" \in DOMAIN file THEN {}
                                       ELSE Defaults[s]
  BY DEF ConfigurationResolved
<1> DEFINE file == ConfigFile(given).settings
           fromFile == IF s \in DOMAIN file THEN file[s]
                       ELSE IF s = "allowed_origins" /\ "allow_all" \in DOMAIN file THEN {}
                       ELSE Defaults[s]
<1>1. config = Effective
  BY DEF HalInv, ConfigInv
<1>2. FromFile(given)[s] = fromFile
  BY FileAt
<1> HIDE DEF fromFile
<1>3. config[s] = IF given.command = "serve" /\ s \in DOMAIN given.args THEN given.args[s]
                  ELSE IF InEnv(given, s) THEN given.env[s] ELSE fromFile
  BY <1>1, <1>2, EffectiveAt
<1>4. CASE given.command = "serve" /\ s \in DOMAIN given.args
  BY <1>3, <1>4 DEF fromFile
<1>5. CASE ~(given.command = "serve" /\ s \in DOMAIN given.args) /\ InEnv(given, s)
  BY <1>3, <1>5 DEF fromFile, InEnv
<1>6. CASE ~(given.command = "serve" /\ s \in DOMAIN given.args) /\ ~InEnv(given, s)
  BY <1>3, <1>6 DEF fromFile, InEnv
<1> QED
  BY <1>4, <1>5, <1>6

\* The options and the file hold ports and a flag; no variable of the environment is one.
LEMMA EffectiveTyped ==
  ASSUME given \in Invocations, ArgumentsParse, given.command = "serve"
  PROVE  /\ \A s \in Ports : Effective[s] \in PortNumbers
         /\ Effective.rest_enabled \in BOOLEAN
<1> DEFINE file == ConfigFile(given).settings
<1>1. Typed(given.args) /\ Typed(file) /\ DOMAIN given.env \subseteq EnvSettings
  BY InvocationsAssumption
<1>2. /\ Ports \cup {"rest_enabled"} \subseteq Settings
      /\ Defaults.grpc_port = 50051 /\ Defaults.rest_port = 8080 /\ Defaults.rest_enabled \in BOOLEAN
  <2>1. DOMAIN Defaults = DOMAIN ServerDefaults \cup DOMAIN Over(CorsDefaults, BackendDefaults)
    BY OverDomain DEF Defaults
  <2>2. DOMAIN ServerDefaults = {"grpc_port", "rest_port", "rest_enabled"}
    BY DEF ServerDefaults
  <2>3. \A s \in DOMAIN ServerDefaults : Defaults[s] = ServerDefaults[s]
    BY OverAt DEF Defaults
  <2>4. ServerDefaults.grpc_port = 50051 /\ ServerDefaults.rest_port = 8080
    BY DEF ServerDefaults
  <2>5. ServerDefaults.rest_enabled \in BOOLEAN
    BY DEF ServerDefaults
  <2> QED
    BY <2>1, <2>2, <2>3, <2>4, <2>5 DEF Settings, Ports
<1> HIDE DEF file
<1>3. ASSUME NEW s \in Ports PROVE Effective[s] \in PortNumbers
  <2>1. s \in Settings /\ s # "allowed_origins" /\ Defaults[s] \in PortNumbers
    <3>1. s = "grpc_port" \/ s = "rest_port"
      BY DEF Ports
    <3>2. s \in Settings
      BY <1>2
    <3>3. 50051 \in PortNumbers /\ 8080 \in PortNumbers
      BY DEF PortNumbers
    <3>4. Defaults[s] \in PortNumbers
      BY <1>2, <3>1, <3>3
    <3> QED
      BY <3>1, <3>2, <3>4
  <2>2. FromFile(given)[s] = IF s \in DOMAIN file THEN file[s] ELSE Defaults[s]
    BY <2>1, FileAt DEF file
  <2>3. FromFile(given)[s] \in PortNumbers
    BY <1>1, <2>1, <2>2 DEF Typed
  <2>4. Effective[s] = IF s \in DOMAIN given.args THEN given.args[s]
                       ELSE IF InEnv(given, s) THEN given.env[s] ELSE FromFile(given)[s]
    BY <2>1, EffectiveAt
  <2> QED
    BY <1>1, <2>3, <2>4 DEF Typed, InEnv
<1>4. Effective.rest_enabled \in BOOLEAN
  <2> DEFINE s == "rest_enabled"
  <2>1. ~InEnv(given, s)
    BY <1>1 DEF InEnv, EnvSettings, Ports
  <2>2. FromFile(given)[s] = IF s \in DOMAIN file THEN file[s] ELSE Defaults[s]
    BY <1>2, FileAt DEF file
  <2>4. FromFile(given)[s] \in BOOLEAN
    <3>1. s \in DOMAIN file => file[s] \in BOOLEAN
      BY <1>1 DEF Typed
    <3>2. Defaults[s] \in BOOLEAN
      BY <1>2
    <3> QED
      BY <2>2, <3>1, <3>2
  <2>3. Effective[s] = IF s \in DOMAIN given.args THEN given.args[s] ELSE FromFile(given)[s]
    BY <1>2, <2>1, EffectiveAt
  <2> QED
    BY <1>1, <2>3, <2>4 DEF Typed
<1> QED
  BY <1>3, <1>4

-----------------------------------------------------------------------------
(* The steps                                                                *)

\* What depends on the invocation alone stays.
LEMMA GivenStays ==
  ASSUME given' = given
  PROVE  Effective' = Effective /\ (ArgumentsParse' <=> ArgumentsParse) /\ (Loads(given)' <=> Loads(given))
BY DEF Effective, ArgumentsParse, Options, OptionsFromEnv

LEMMA UnstartedStays ==
  ASSUME Unstarted, UNCHANGED vars
  PROVE  Unstarted'
BY DEF Unstarted, vars

LEMMA HalInitInv == HalInit => HalInv
<1> SUFFICES ASSUME HalInit PROVE HalInv
  OBVIOUS
<1>1. HalTypeOK
  BY DEF HalInit, HalTypeOK, Stages
<1>2. ConfigInv /\ RegistryInv
  BY DEF HalInit, ConfigInv, RegistryInv
<1>3. ServersInv
  BY DEF HalInit, ServersInv, Unstarted
<1>4. ExitStatusHonest
  BY DEF HalInit, ExitStatusHonest
<1> QED
  BY <1>1, <1>2, <1>3, <1>4 DEF HalInv

LEMMA LoadConfigInv ==
  ASSUME HalInv, LoadConfig, UNCHANGED vars
  PROVE  HalInv'
<1>1. /\ stage = "started" /\ given' = given /\ registered' = registered /\ reports' = reports
      /\ \/ ArgumentsParse /\ Loads(given) /\ config' = Load(given) /\ stage' = "loaded" /\ exit' = exit
         \/ ~(ArgumentsParse /\ Loads(given)) /\ stage' = "ended" /\ exit' = "error"
  BY DEF LoadConfig, EndWith, Goto
<1>2. HalTypeOK'
  BY <1>1 DEF HalInv, HalTypeOK, Stages
<1>3. ConfigInv'
  BY <1>1, GivenStays DEF ConfigInv
<1>4. RegistryInv'
  BY <1>1 DEF RegistryInv
<1>5. ServersInv'
  <2>1. Unstarted'
    BY <1>1, UnstartedStays DEF HalInv, ServersInv
  <2> QED
    BY <1>1, <2>1 DEF ServersInv
<1>6. ExitStatusHonest'
  BY <1>1 DEF HalInv, HalTypeOK, ExitStatusHonest
<1> QED
  BY <1>2, <1>3, <1>4, <1>5, <1>6 DEF HalInv

LEMMA DispatchInv ==
  ASSUME HalInv, Dispatch, UNCHANGED vars
  PROVE  HalInv'
<1>1. /\ stage = "loaded" /\ given' = given /\ registered' = registered /\ reports' = reports
      /\ ArgumentsParse /\ Loads(given) /\ config = Load(given) /\ exit = "none"
  BY DEF Dispatch, HalInv, HalTypeOK, ConfigInv
<1>2. /\ stage' \in {"backends", "ended"}
      /\ config' = Effective
      /\ stage' = "backends" => exit' = "none" /\ (given.command = "serve" => Validate(config'))
      /\ stage' = "ended" /\ exit' = "ok" =>
           given.command = "config" \/ (given.command = "validate" /\ Validate(config'))
  <2>1. CASE ServeConfig
    BY <1>1, <2>1 DEF ServeConfig, EndWith, Goto, Effective
  <2>2. CASE given.command # "serve"
    BY <1>1, <2>2 DEF Dispatch, ServeConfig, EndWith, Goto, Effective
  <2> QED
    BY <1>1, <2>1, <2>2 DEF Dispatch
<1>3. HalTypeOK'
  BY <1>1, <1>2 DEF HalInv, HalTypeOK, Stages
<1>4. ConfigInv'
  BY <1>1, <1>2, GivenStays DEF ConfigInv
<1>5. RegistryInv'
  BY <1>2 DEF RegistryInv
<1>6. ServersInv'
  <2>1. Unstarted'
    BY <1>1, UnstartedStays DEF HalInv, ServersInv
  <2> QED
    BY <1>2, <2>1 DEF ServersInv
<1>7. ExitStatusHonest'
  BY <1>1, <1>2 DEF ExitStatusHonest, Validate
<1> QED
  BY <1>3, <1>4, <1>5, <1>6, <1>7 DEF HalInv

LEMMA FirstIsRegistered ==
  ASSUME NEW up, up \subseteq BackendNames, up # {}
  PROVE  /\ FirstRegistered(up) \in up
         /\ "qutip_simulator" \in up => FirstRegistered(up) = "qutip_simulator"
<1> DEFINE First(k) == Backends[k] \in up /\ \A j \in 1..k-1 : Backends[j] \notin up
<1>1. /\ DOMAIN Backends = 1..3
      /\ Backends[1] = "qutip_simulator" /\ Backends[2] = "iqm_garnet" /\ Backends[3] = "ibm"
  BY DEF Backends
<1>2. up \subseteq {Backends[1], Backends[2], Backends[3]}
  BY <1>1 DEF BackendNames
<1>3. \E k \in DOMAIN Backends : First(k)
  <2>1. CASE Backends[1] \in up
    BY <1>1, <2>1
  <2>2. CASE Backends[1] \notin up /\ Backends[2] \in up
    <3>1. First(2)
      BY <2>2
    <3> QED
      BY <1>1, <3>1
  <2>3. CASE Backends[1] \notin up /\ Backends[2] \notin up
    <3>1. Backends[3] \in up
      BY <1>2, <2>3
    <3>2. \A j \in 1..2 : j = 1 \/ j = 2
      OBVIOUS
    <3>3. First(3)
      BY <2>3, <3>1, <3>2
    <3> QED
      BY <1>1, <3>3
  <2> QED
    BY <2>1, <2>2, <2>3
<1>4. PICK k \in DOMAIN Backends : First(k) /\ FirstRegistered(up) = Backends[k]
  BY <1>3 DEF FirstRegistered
<1>5. "qutip_simulator" \in up => k = 1
  BY <1>1, <1>4
<1> QED
  BY <1>1, <1>4, <1>5

LEMMA InitializeBackendsInv ==
  ASSUME HalInv, InitializeBackends, UNCHANGED vars
  PROVE  HalInv'
<1>1. stage = "backends" /\ given' = given /\ config' = config /\ reports' = reports /\ exit = "none"
  BY DEF InitializeBackends, HalInv, HalTypeOK
<1>2. PICK up \in SUBSET Constructible :
        /\ registered' = up
        /\ up # {} => \/ default' = "qutip_simulator" /\ "qutip_simulator" \in up
                      \/ default' = FirstRegistered(up)
        /\ \/ up = {} /\ stage' = "ended" /\ exit' = "error"
           \/ up # {} /\ stage' = "ready" /\ exit' = exit
  BY DEF InitializeBackends, EndWith, Goto
<1>3. up \subseteq BackendNames
  BY <1>2 DEF Constructible, BackendNames, Backends
<1>4. HalTypeOK'
  BY <1>1, <1>2, <1>3 DEF HalInv, HalTypeOK, Stages
<1>5. ConfigInv'
  BY <1>1, <1>2, GivenStays DEF HalInv, ConfigInv
<1>6. RegistryInv'
  <2>1. Constructible' = Constructible
    BY <1>1 DEF Constructible, QutipConstructible, IqmConstructible, IbmConstructible
  <2> QED
    BY <1>2, <1>3, <2>1, FirstIsRegistered DEF RegistryInv
<1>7. ServersInv'
  <2>1. Unstarted'
    BY <1>1, UnstartedStays DEF HalInv, ServersInv
  <2> QED
    BY <1>2, <2>1 DEF ServersInv
<1>8. ExitStatusHonest'
  BY <1>1, <1>2 DEF ExitStatusHonest
<1> QED
  BY <1>4, <1>5, <1>6, <1>7, <1>8 DEF HalInv

\* The steps after the backends that only report: they end the process or go on.
LEMMA ReportingInv ==
  ASSUME HalInv, ListBackends \/ Health, UNCHANGED vars
  PROVE  HalInv'
<1>1. /\ stage = "ready" /\ given.command \in {"health", "health_of", "backends"} /\ exit = "none"
      /\ UNCHANGED <<given, config, registered, default>>
      /\ \/ stage' = "ended" /\ reports' = reports
         \/ stage' = "ready" /\ exit' = exit
  BY DEF HalInv, HalTypeOK, ListBackends, Health, CheckBackend, EndWith
<1>2. reports' \in [BackendNames -> Reports \cup {"none"}]
  BY DEF HalInv, HalTypeOK, ListBackends, Health, CheckBackend
<1>3. HalTypeOK'
  BY <1>1, <1>2 DEF HalInv, HalTypeOK, Stages
<1>4. ConfigInv'
  BY <1>1, GivenStays DEF HalInv, ConfigInv
<1>5. RegistryInv'
  BY <1>1 DEF HalInv, RegistryInv, Constructible, QutipConstructible, IqmConstructible, IbmConstructible
<1>6. ServersInv'
  <2>1. Unstarted'
    BY <1>1, UnstartedStays DEF HalInv, ServersInv
  <2> QED
    BY <1>1, <2>1 DEF ServersInv
<1>7. ExitStatusHonest'
  <2> SUFFICES ASSUME exit' = "ok", given.command # "backends" PROVE ExitStatusHonest'
    BY <1>1 DEF ExitStatusHonest
  <2>1. /\ exit' = HealthStatus /\ reports' = reports /\ given.command \in {"health", "health_of"}
        /\ \A b \in Asked \cap registered : reports[b] # "none"
    BY <1>1 DEF ListBackends, Health, EndWith, CheckBackend
  <2>2. Asked \subseteq registered /\ \A b \in Asked : reports[b] \notin Unhealthy /\ reports[b] # "none"
    BY <2>1 DEF HealthStatus
  <2>3. CASE given.command = "health"
    <3>1. registered # {} /\ \A b \in registered : reports[b] = "healthy"
      BY <1>1, <2>2, <2>3 DEF HalInv, HalTypeOK, RegistryInv, Asked, Unhealthy
    <3> QED
      BY <1>1, <2>1, <2>3, <3>1 DEF ExitStatusHonest
  <2>4. CASE given.command = "health_of"
    <3>1. given.of \in registered /\ reports[given.of] \notin {"none", "failed"}
      BY <2>2, <2>4 DEF Asked, Unhealthy
    <3> QED
      BY <1>1, <2>1, <2>4, <3>1 DEF ExitStatusHonest
  <2> QED
    BY <2>1, <2>3, <2>4
<1> QED
  BY <1>3, <1>4, <1>5, <1>6, <1>7 DEF HalInv

LEMMA RunServersInv ==
  ASSUME HalInv, RunServers
  PROVE  HalInv'
<1>1. /\ stage = "ready" /\ stage' = "serving" /\ exit = "none" /\ exit' = "none"
      /\ given.command = "serve" /\ ArgumentsParse /\ Loads(given)
      /\ UNCHANGED <<shutdown, request, python, main, given, config, registered, default, reports>>
  BY DEF HalInv, HalTypeOK, ConfigInv, RunServers, Goto
<1>2. HalTypeOK'
  BY <1>1 DEF HalInv, HalTypeOK, Stages
<1>3. ConfigInv'
  BY <1>1, GivenStays DEF HalInv, ConfigInv
<1>4. RegistryInv'
  BY <1>1 DEF HalInv, RegistryInv, Constructible, QutipConstructible, IqmConstructible, IbmConstructible
<1>5. ServersInv'
  <2>1. config = Effective /\ given \in Invocations
    BY <1>1 DEF HalInv, HalTypeOK, ConfigInv
  <2>2. config.rest_enabled \in BOOLEAN
    BY <1>1, <2>1, EffectiveTyped
  <2>3. /\ main' = "running" /\ shutdown' = FALSE /\ signal' = "armed" /\ restEnabled' = config.rest_enabled
        /\ request' \in [Requests -> [state : {"none"}, on : Servers]]
        /\ python' = [r \in Requests |-> "none"]
        /\ server' = [s \in Servers |-> IF s = "rest" /\ ~restEnabled' THEN "off" ELSE "starting"]
    BY <1>1 DEF RunServers, HalInv, ServersInv, Unstarted
  <2>4. IInv'
    BY <2>2, <2>3 DEF IInv, TypeOK, OneEnded, OffIsRest, RunningOnLive, DrainIsAsked, Servers, Ended
  <2> QED
    BY <1>1, <2>3, <2>4 DEF ServersInv
<1>6. ExitStatusHonest'
  BY <1>1 DEF ExitStatusHonest
<1> QED
  BY <1>2, <1>3, <1>4, <1>5, <1>6 DEF HalInv

LEMMA ServingEndsInv ==
  ASSUME HalInv, ServingEnds
  PROVE  HalInv'
<1>1. /\ stage = "serving" /\ stage' = "ended" /\ main = "exited" /\ given.command = "serve"
      /\ exit' = (IF ~restEnabled /\ server["grpc"] = "failed" THEN "error" ELSE "ok")
      /\ UNCHANGED <<vars, given, config, registered, default, reports>>
  BY DEF HalInv, ServersInv, ServingEnds, EndWith
<1>2. IInv /\ restEnabled = config.rest_enabled
  BY <1>1 DEF HalInv, ServersInv
<1>3. HalTypeOK'
  BY <1>1 DEF HalInv, HalTypeOK, Stages
<1>4. ConfigInv'
  BY <1>1, GivenStays DEF HalInv, ConfigInv
<1>5. RegistryInv'
  BY <1>1 DEF RegistryInv
<1>6. ServersInv'
  <2>1. IInv'
    BY <1>1, <1>2, InvStep
  <2> QED
    BY <1>1, <2>1 DEF ServersInv
<1>7. ExitStatusHonest'
  <2>1. PICK s \in Servers : server[s] \in Ended
    BY <1>1, <1>2 DEF IInv, OneEnded
  <2>2. server[s] = "finished" => shutdown
    BY <1>2 DEF IInv, DrainIsAsked
  <2>3. exit' = "ok" /\ server[s] = "failed" => restEnabled
    BY <1>1, <1>2 DEF IInv, OffIsRest, Servers
  <2>4. exit' = "ok" => shutdown' \/ (config'.rest_enabled /\ \E z \in Servers : server'[z] = "failed")
    BY <1>1, <1>2, <2>1, <2>2, <2>3 DEF Ended, vars
  <2> QED
    BY <1>1, <2>4 DEF ExitStatusHonest
<1> QED
  BY <1>3, <1>4, <1>5, <1>6, <1>7 DEF HalInv

LEMMA ServingInv ==
  ASSUME HalInv, stage = "serving", Next, UNCHANGED halVars
  PROVE  HalInv'
<1>1. UNCHANGED <<given, stage, config, registered, default, reports, exit>> /\ exit = "none"
  BY DEF halVars, HalInv, HalTypeOK
<1>2. HalTypeOK'
  BY <1>1 DEF HalInv, HalTypeOK
<1>3. ConfigInv'
  BY <1>1, GivenStays DEF HalInv, ConfigInv
<1>4. RegistryInv'
  BY <1>1 DEF HalInv, RegistryInv, Constructible, QutipConstructible, IqmConstructible, IbmConstructible
<1>5. ServersInv'
  <2>1. IInv'
    BY InvStep DEF HalInv, ServersInv
  <2>2. restEnabled' = restEnabled
    BY DEF Next, CtrlC, SignalLost, RuntimeDropped, Exit, Bind, BindFails, Drain, Finish, ServerStep, End,
           Handler, Reply, PythonTimesOut, EndRequest, PythonReturns, ClientGone, Accept
  <2> QED
    BY <1>1, <2>1, <2>2 DEF HalInv, ServersInv
<1>6. ExitStatusHonest'
  BY <1>1 DEF ExitStatusHonest
<1> QED
  BY <1>2, <1>3, <1>4, <1>5, <1>6 DEF HalInv

LEMMA HalInvStep == HalInv /\ [HalNext]_processVars => HalInv'
<1> SUFFICES ASSUME HalInv, [HalNext]_processVars PROVE HalInv'
  OBVIOUS
<1>1. CASE Main
  BY <1>1, LoadConfigInv, DispatchInv, InitializeBackendsInv, ReportingInv DEF Main
<1>2. CASE RunServers \/ ServingEnds
  BY <1>2, RunServersInv, ServingEndsInv
<1>3. CASE stage = "serving" /\ Next /\ UNCHANGED halVars
  BY <1>3, ServingInv
<1>4. CASE UNCHANGED processVars
  <2>1. UNCHANGED vars /\ UNCHANGED <<given, stage, config, registered, default, reports, exit>>
    BY <1>4 DEF processVars, halVars
  <2>2. HalTypeOK' /\ ConfigInv' /\ RegistryInv'
    BY <2>1, GivenStays DEF HalInv, HalTypeOK, ConfigInv, RegistryInv,
                            Constructible, QutipConstructible, IqmConstructible, IbmConstructible
  <2>3. (IInv => IInv') /\ (Unstarted => Unstarted')
    BY <2>1, InvStep, UnstartedStays
  <2>4. ServersInv'
    BY <2>1, <2>3 DEF HalInv, ServersInv, vars
  <2>5. ExitStatusHonest'
    BY <2>1 DEF HalInv, ExitStatusHonest, vars
  <2> QED
    BY <2>2, <2>4, <2>5 DEF HalInv
<1> QED
  BY <1>1, <1>2, <1>3, <1>4 DEF HalNext

-----------------------------------------------------------------------------
(* The theorems                                                             *)

LEMMA Usable == HalInv => ServesUsable
<1> SUFFICES ASSUME HalInv, stage = "serving" PROVE ServesUsable
  BY DEF ServesUsable
<1>1. /\ given.command = "serve" /\ ArgumentsParse /\ Loads(given) /\ given \in Invocations
      /\ config = Effective /\ Validate(config)
  BY DEF HalInv, HalTypeOK, ConfigInv, ServersInv
<1>2. config.grpc_port \in PortNumbers /\ config.rest_port \in PortNumbers
  BY <1>1, EffectiveTyped DEF Ports
<1>3. default \in registered /\ ("qutip_simulator" \in registered => default = "qutip_simulator")
  BY DEF HalInv, RegistryInv
<1>4. "iqm_garnet" \in registered => config.gateway_url /\ config.auth_token
  BY DEF HalInv, RegistryInv, Constructible, IqmConstructible
<1> QED
  BY <1>1, <1>2, <1>3, <1>4 DEF ServesUsable, Validate

LEMMA ServersSound == HalInv => CutOffOnlyByPeer /\ StopsOnlyForCause
<1> SUFFICES ASSUME HalInv PROVE CutOffOnlyByPeer /\ StopsOnlyForCause
  OBVIOUS
<1>1. CASE IInv
  BY <1>1, InvCutOff, InvStops
<1>2. CASE Unstarted
  BY <1>2 DEF Unstarted, CutOffOnlyByPeer, StopsOnlyForCause
<1> QED
  BY <1>1, <1>2 DEF HalInv, ServersInv

\* HalInv is an inductive invariant of the process, from its command line to its end.
THEOREM HalInvariance == HalSpec => []HalInv
BY HalInitInv, HalInvStep, PTL DEF HalSpec

\* In the whole process, too, only its peer cuts a server's requests off
\* (server/mod.rs 109-127).
THEOREM HalCutsOffByPeer == HalSpec => []CutOffOnlyByPeer
BY HalInvariance, ServersSound, PTL

\* In the whole process, too, serving stops only on the signal or a port that could not
\* be bound (server/mod.rs 103-127).
THEOREM HalStopsForCause == HalSpec => []StopsOnlyForCause
BY HalInvariance, ServersSound, PTL

\* Every setting has the value of the last source that gives it, for any files,
\* environment and options (config.rs 47-119, main.rs 104-121).
THEOREM SettingsResolved == HalSpec => []ConfigurationResolved
BY HalInvariance, Resolved, PTL

\* Whatever is served is served on usable ports, from a registry with a default
\* (main.rs 107-140, 243-303, config.rs 122-143).
THEOREM OnlyUsableServed == HalSpec => []ServesUsable
BY HalInvariance, Usable, PTL

\* Success is reported only of what the command asked for
\* (main.rs 139, 142-189, server/mod.rs 111-127).
THEOREM SuccessHonest == HalSpec => []ExitStatusHonest
<1>1. HalInv => ExitStatusHonest
  BY DEF HalInv
<1> QED
  BY <1>1, HalInvariance, PTL
===============================================================================
