------------------------------ MODULE HalProcess ------------------------------
(***************************************************************************)
(* The qubit-os-hal process from its command line to its exit status          *)
(* (hal/src/main.rs): it loads the configuration, constructs the backends, and   *)
(* serves (ServerLifecycle), checks health, lists or validates.                *)
(***************************************************************************)
EXTENDS ServerLifecycle, HalConfig

CONSTANTS
  Features,     \* the cargo features of the build: python, iqm, ibm
  Invocations   \* see InvocationFields

Commands == {"serve", "health", "health_of", "backends", "config", "validate"}
Backends == <<"qutip_simulator", "iqm_garnet", "ibm">>   \* in the order of their construction
BackendNames == {Backends[k] : k \in DOMAIN Backends}
Reports == {"healthy", "degraded", "unavailable", "failed"}

\* of: the backend that "health --backend" names.  args: what serve's options give.
\* named: whether --config is given.  files: a state and the settings of each place.
InvocationFields == {"command", "of", "named", "files", "env", "args"}

ASSUME FeaturesAssumption == Features \subseteq {"python", "iqm", "ibm"}
\* serde and clap leave nothing else in a file that is read or on the command line.
Typed(source) ==
  /\ DOMAIN source \subseteq Settings
  /\ \A s \in Ports \cap DOMAIN source : source[s] \in PortNumbers
  /\ "rest_enabled" \in DOMAIN source => source["rest_enabled"] \in BOOLEAN

ASSUME InvocationsAssumption ==
  \A i \in Invocations :
    /\ DOMAIN i = InvocationFields /\ i.command \in Commands
    /\ DOMAIN i.env \subseteq EnvSettings
    /\ Typed(i.args) /\ Typed(ConfigFile(i).settings)

VARIABLES
  given,       \* the invocation
  stage,       \* how far main has come
  config,      \* the effective configuration, the defaults before it is loaded
  registered,  \* the backends of the registry
  default,     \* the registry's default, or "none"
  reports,     \* what health_check has said of each backend, "none" before it is asked
  exit         \* the exit status, "none" while the process runs

halVars == <<given, stage, config, registered, default, reports, exit>>
processVars == <<vars, halVars>>

\* Nothing of the servers exists before run_servers.
HalInit ==
  /\ restEnabled = TRUE /\ signal = "unset" /\ shutdown = FALSE /\ main = "running"
  /\ server = [s \in Servers |-> "off"]
  /\ request \in [Requests -> [state : {"none"}, on : Servers]]
  /\ python = [r \in Requests |-> "none"]
  /\ given \in Invocations
  /\ stage = "started" /\ config = Defaults
  /\ registered = {} /\ default = "none"
  /\ reports = [b \in BackendNames |-> "none"] /\ exit = "none"

EndWith(status) == stage' = "ended" /\ exit' = status
Goto(next) == stage' = next /\ UNCHANGED exit

-----------------------------------------------------------------------------
(* Configuration                                                            *)

\* Cli::parse: serve alone declares the port variables, and takes an option from the
\* environment unless the command line has it; a malformed one stops it.
OptionsFromEnv == [s \in (DOMAIN given.env \cap Ports) \ DOMAIN given.args |-> given.env[s]]
Options == Over(given.args, OptionsFromEnv)
ArgumentsParse ==
  given.command = "serve" => \A s \in DOMAIN OptionsFromEnv : OptionsFromEnv[s] \in PortNumbers

LoadConfig ==
  /\ stage = "started"
  /\ IF ArgumentsParse /\ Loads(given)
       THEN config' = Load(given) /\ Goto("loaded")
       ELSE EndWith("error") /\ UNCHANGED config
  /\ UNCHANGED <<given, registered, default, reports>>

\* Mutant: validated before the options are applied.
ServeConfigEarly ==
  /\ given.command = "serve"
  /\ config' = Over(Options, config)
  /\ IF Validate(config) THEN Goto("backends") ELSE EndWith("error")
ServeConfig ==
  /\ given.command = "serve"
  /\ config' = Over(Options, config)
  /\ IF Validate(config') THEN Goto("backends") ELSE EndWith("error")

\* The match on the command, up to the backends.
Dispatch ==
  /\ stage = "loaded"
  /\ \/ ServeConfig
     \/ given.command \in {"health", "health_of", "backends"} /\ Goto("backends") /\ UNCHANGED config
     \/ given.command = "config" /\ EndWith("ok") /\ UNCHANGED config
     \/ /\ given.command = "validate"
        /\ EndWith(IF Validate(config) THEN "ok" ELSE "error")
        /\ UNCHANGED config
  /\ UNCHANGED <<given, registered, default, reports>>

-----------------------------------------------------------------------------
(* Backends                                                                 *)

\* Each backend must be built in, be enabled and have what its constructor asks for.
QutipConstructible == "python" \in Features /\ config.qutip_simulator
IqmConstructible == "iqm" \in Features /\ config.iqm_garnet /\ config.gateway_url /\ config.auth_token
IbmConstructible == "ibm" \in Features /\ config.ibm /\ config.ibm_token
Constructible ==
  {b \in {"qutip_simulator"} : QutipConstructible} \cup {b \in {"iqm_garnet"} : IqmConstructible}
    \cup {b \in {"ibm"} : IbmConstructible}

\* register makes the first the default, whatever its "default" setting.
FirstRegistered(up) ==
  Backends[CHOOSE k \in DOMAIN Backends : Backends[k] \in up /\ \A j \in 1..k-1 : Backends[j] \notin up]

\* initialize_backends: a constructor that fails is logged; QuTiP's asks Python.
InitializeBackends ==
  /\ stage = "backends"
  /\ \E up \in SUBSET Constructible :
       /\ registered' = up
       /\ default' = IF up = {} THEN "none"
                     ELSE IF "qutip_simulator" \in up /\ config.qutip_default THEN "qutip_simulator"
                     ELSE FirstRegistered(up)
       /\ IF up = {} THEN EndWith("error") ELSE Goto("ready")
  /\ UNCHANGED <<given, config, reports>>

ListBackends ==
  /\ stage = "ready" /\ given.command = "backends"
  /\ EndWith("ok")
  /\ UNCHANGED <<given, config, registered, default, reports>>

-----------------------------------------------------------------------------
(* Health                                                                   *)

Asked == IF given.command = "health_of" THEN {given.of} ELSE registered
Unhealthy == IF given.command = "health_of" THEN {"failed"} ELSE Reports \ {"healthy"}

\* The loop goes on to the other backends; health --backend accepts any status.
CheckBackend(b) ==
  /\ b \in registered /\ reports[b] = "none"
  /\ \E report \in Reports : reports' = [reports EXCEPT ![b] = report]
  /\ UNCHANGED <<stage, exit>>

\* Mutant: an error of a health check is printed and not counted.
HealthStatusLenient ==
  IF Asked \subseteq registered /\ \A b \in Asked : reports[b] \notin Unhealthy \ {"failed"}
    THEN "ok" ELSE "error"
HealthStatus ==
  IF Asked \subseteq registered /\ \A b \in Asked : reports[b] \notin Unhealthy
    THEN "ok" ELSE "error"

Health ==
  /\ stage = "ready" /\ given.command \in {"health", "health_of"}
  /\ \/ \E b \in Asked : CheckBackend(b)
     \/ /\ \A b \in Asked \cap registered : reports[b] # "none"
        /\ EndWith(HealthStatus) /\ UNCHANGED reports
  /\ UNCHANGED <<given, config, registered, default>>

-----------------------------------------------------------------------------
(* Serving                                                                  *)

RunServers ==
  /\ stage = "ready" /\ given.command = "serve"
  /\ Goto("serving")
  /\ restEnabled' = config.rest_enabled
  /\ server' = [s \in Servers |-> IF s = "rest" /\ ~config.rest_enabled THEN "off" ELSE "starting"]
  /\ signal' = "armed"
  /\ UNCHANGED <<shutdown, request, python, main, given, config, registered, default, reports>>

\* The error of a server is logged where two are raced, and returned where one is awaited.
ServingEnds ==
  /\ stage = "serving" /\ main = "exited"
  /\ EndWith(IF ~restEnabled /\ server["grpc"] = "failed" THEN "error" ELSE "ok")
  /\ UNCHANGED <<vars, given, config, registered, default, reports>>

-----------------------------------------------------------------------------
Main == (LoadConfig \/ Dispatch \/ InitializeBackends \/ ListBackends \/ Health) /\ UNCHANGED vars

HalNext ==
  \/ Main \/ RunServers \/ ServingEnds
  \/ stage = "serving" /\ Next /\ UNCHANGED halVars

\* main is polled like every task of the runtime; the backends' health checks time out.
HalSpec ==
  /\ HalInit /\ [][HalNext]_processVars
  /\ WF_processVars(Main) /\ WF_processVars(RunServers) /\ WF_processVars(ServingEnds)
  /\ Fairness /\ SimulationsEnd

-----------------------------------------------------------------------------
(* Properties                                                               *)

\* Once loaded, each setting comes from the last source that has it: the command line
\* over the environment, the environment over the one file that is read, a file over
\* the defaults (config.rs 47-119, main.rs 104-121).  A port the environment does not
\* spell counts as not given, and a section about CORS without origins as one with none.
ConfigurationResolved ==
  stage \notin {"started", "loaded"} /\ ArgumentsParse /\ Loads(given) =>
    \A s \in Settings :
      LET file == ConfigFile(given).settings
          inEnv == s \in DOMAIN given.env /\ (s \in Ports => given.env[s] \in PortNumbers)
      IN config[s] =
           CASE given.command = "serve" /\ s \in DOMAIN given.args -> given.args[s]
             [] inEnv /\ ~(given.command = "serve" /\ s \in DOMAIN given.args) -> given.env[s]
             [] OTHER -> IF s \in DOMAIN file THEN file[s]
                         ELSE IF s = "allowed_origins" /\ "allow_all" \in DOMAIN file THEN {}
                         ELSE Defaults[s]

\* The servers start only on two different ports that are not 0, and over a registry
\* whose default is one of its backends, QuTiP wherever it runs, each of them enabled
\* and with its credentials; never on a file that cannot be read
\* (main.rs 107-140, 243-303, config.rs 122-143).
ServesUsable ==
  stage = "serving" =>
    /\ {config.grpc_port, config.rest_port} \subseteq PortNumbers \ {0}
    /\ config.grpc_port # config.rest_port
    /\ default \in registered /\ ("qutip_simulator" \in registered => default = "qutip_simulator")
    /\ "iqm_garnet" \in registered => config.gateway_url /\ config.auth_token
    /\ Loads(given)

\* What success tells: health found every registered backend healthy and at least one,
\* health of one backend only that it answered; a server stopped because it was asked
\* to, or, with REST, because one of the two could not start, which the status of the
\* process does not tell (main.rs 139, 142-189, server/mod.rs 111-127).
ExitStatusHonest ==
  exit = "ok" =>
    CASE given.command = "health" ->
           registered # {} /\ \A b \in registered : reports[b] = "healthy"
      [] given.command = "health_of" -> given.of \in registered /\ reports[given.of] \notin {"none", "failed"}
      [] given.command = "serve" ->
           shutdown \/ (config.rest_enabled /\ \E s \in Servers : server[s] = "failed")
      [] given.command = "validate" -> config.grpc_port # config.rest_port
      [] OTHER -> TRUE
================================================================================
