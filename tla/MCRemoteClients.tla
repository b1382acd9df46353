--------------------------- MODULE MCRemoteClients ---------------------------
(* An instance of RemoteClients for TLC: two ways to use one secret, another *)
(* datum of it, and a target without a client.                               *)
EXTENDS RemoteClients

MCTargets ==
  {[auth |-> "kubeconfig", name |-> "secret", key |-> "a"],
   [auth |-> "kubeconfig", name |-> "secret", key |-> "b"],
   [auth |-> "workload-identity", name |-> "secret", key |-> "a"],
   [auth |-> "maestro", name |-> "secret", key |-> "a"],
   [auth |-> "local", name |-> "secret", key |-> "a"]}

MCWritten == {<<"clusters", "secret">>}
=============================================================================
