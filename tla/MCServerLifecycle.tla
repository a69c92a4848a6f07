--------------------------- MODULE MCServerLifecycle ---------------------------
(***************************************************************************)
(* Two requests: on the same server, on different servers, and one that     *)
(* outlives the other.  The invocations give each setting in one source, in  *)
(* two that disagree, in none; files that are missing, broken and shadowed;   *)
(* ports that are equal, zero or no numbers; backends without credentials.    *)
(***************************************************************************)
EXTENDS HalProcess, TLC

Absent == [state |-> "absent", settings |-> << >>]
Broken == [state |-> "broken", settings |-> << >>]
With(settings) == [state |-> "readable", settings |-> settings]
Files(named, first, second) ==
  [place \in {"--config", "config.yaml", "config.yml", "/etc/qubitos/config.yaml"} |->
     CASE place = "--config" -> named [] place = "config.yaml" -> first
       [] place = "config.yml" -> second [] OTHER -> Absent]

Invocation(command, named, files, env, args) ==
  [command |-> command, of |-> "iqm_garnet", named |-> named, files |-> files, env |-> env, args |-> args]

AllClouds == With([iqm_garnet |-> TRUE, gateway_url |-> TRUE, ibm |-> TRUE, ibm_token |-> TRUE,
                   qutip_default |-> FALSE, rest_port |-> 1])
NoSimulator == With([qutip_simulator |-> FALSE, iqm_garnet |-> TRUE, allow_all |-> FALSE])
Default == Files(Absent, Absent, Absent)
Credentials == [gateway_url |-> TRUE, auth_token |-> TRUE]

Served == {
  Invocation("serve", FALSE, Default, << >>, << >>),
  Invocation("serve", FALSE, Default, << >>, [rest_enabled |-> FALSE]),
  Invocation("serve", FALSE, Files(Absent, Broken, AllClouds), << >>, << >>),
  Invocation("serve", TRUE, Files(Absent, Broken, Absent), << >>, << >>),
  Invocation("serve", TRUE, Files(AllClouds, Absent, Absent), [auth_token |-> TRUE, rest_port |-> 2], << >>),
  Invocation("serve", FALSE, Default, [rest_port |-> 70000], << >>),
  Invocation("serve", FALSE, Default, [rest_port |-> 70000], [rest_port |-> 50051]),
  Invocation("serve", FALSE, Default, << >>, [grpc_port |-> 0, rest_enabled |-> FALSE])}

Others == {
  Invocation(command, FALSE, Files(Absent, Absent, file), env, << >>) :
    command \in Commands \ {"serve"}, file \in {Absent, AllClouds, NoSimulator},
    env \in {<< >>, Credentials, [rest_port |-> 70000], [rest_port |-> 50051]}}

MCInvocations == Served \cup Others
=============================================================================
