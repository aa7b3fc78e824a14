------------------------- MODULE MCKubernetesCluster -------------------------
(* Small instances of KubernetesCluster for TLC.                           *)
EXTENDS KubernetesCluster

(* Two addresses, and a name, which is no ClusterIP.                       *)
TwoHosts == {"10.0.0.1", "10.0.0.2"}
HostAndName == {"10.0.0.1", "host"}
Name == {"host"}
TwoPorts == {443, 6443}
PortAndNone == {443, 65536}
NoPort == {65536}

(* The endpoint is left out, half given, or given.                         *)
SomeRequests ==
  {NoEndpoint, [host |-> "host", port |-> 0], [host |-> "host", port |-> 443],
   [host |-> NoHost, port |-> 65536]}
TwoRequests == {NoEndpoint, [host |-> "10.0.0.1", port |-> 6443]}
=============================================================================
