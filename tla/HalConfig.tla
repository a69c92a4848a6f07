------------------------------- MODULE HalConfig -------------------------------
(***************************************************************************)
(* The configuration of the HAL (hal/src/config.rs): a value for each setting,   *)
(* from the built-in defaults, a YAML file, the environment and the command line. *)
(* A source is a function on the settings it names.  Secrets and addresses       *)
(* are only present or absent.                                              *)
(***************************************************************************)
EXTENDS Integers, Sequences

LOCAL INSTANCE FiniteSetsExt

\* A source over another one: TLC's @@, spelled out for the proofs.
Over(f, g) == [s \in DOMAIN f \cup DOMAIN g |-> IF s \in DOMAIN f THEN f[s] ELSE g[s]]

Ports == {"grpc_port", "rest_port"}
PortNumbers == 0..65535

\* impl Default of each section: the settings that change what the process does.
ServerDefaults == [grpc_port |-> 50051, rest_port |-> 8080, rest_enabled |-> TRUE]
CorsDefaults == [allow_all |-> FALSE, allowed_origins |-> {"localhost"}]
QutipDefaults == [qutip_simulator |-> TRUE, qutip_default |-> TRUE]
IqmDefaults == [iqm_garnet |-> FALSE, gateway_url |-> FALSE, auth_token |-> FALSE]
IbmDefaults == [ibm |-> FALSE, ibm_token |-> FALSE]
BackendDefaults == Over(QutipDefaults, Over(IqmDefaults, IbmDefaults))
Defaults == Over(ServerDefaults, Over(CorsDefaults, BackendDefaults))
Settings == DOMAIN Defaults

\* The settings the environment can give.
EnvSettings == Ports \cup {"allow_all", "allowed_origins", "gateway_url", "auth_token"}

\* serde: a section that is there without its origins has none, an absent one the default's.
Deserialized(file) ==
  LET section == IF DOMAIN file \cap DOMAIN CorsDefaults # {} THEN [allowed_origins |-> {}] ELSE << >>
  IN Over(file, Over(section, Defaults))

\* What env::var and parse make of the environment: a port that is no u16 is passed over.
Parsed(env) ==
  [s \in {s \in DOMAIN env : s \in Ports => env[s] \in PortNumbers} |-> env[s]]

ApplyEnvOverrides(config, env) == Over(Parsed(env), config)

\* The file that is read: the one named, or the first of the default places that exists.
Candidates(given) == IF given.named THEN <<"--config">> ELSE <<"config.yaml", "config.yml", "/etc/qubitos/config.yaml">>
Existing(given) ==
  {k \in DOMAIN Candidates(given) : given.files[Candidates(given)[k]].state # "absent"}
NoFile == [state |-> "readable", settings |-> << >>]
ConfigFile(given) ==
  IF Existing(given) = {} THEN NoFile ELSE given.files[Candidates(given)[Min(Existing(given))]]
FromFile(given) ==
  IF Existing(given) = {} THEN Defaults ELSE Deserialized(ConfigFile(given).settings)

Loads(given) == ConfigFile(given).state = "readable"

\* Mutant: the file after the environment, as the module's comment has it.
LoadEnvFirst(given) ==
  Over(ConfigFile(given).settings, ApplyEnvOverrides(FromFile(given), given.env))
\* Config::load, when the file can be read.
Load(given) == ApplyEnvOverrides(FromFile(given), given.env)

\* Config::validate
Validate(config) ==
  /\ config.grpc_port # 0 /\ config.rest_port # 0
  /\ config.grpc_port # config.rest_port
================================================================================
