------------------------------ MODULE MCProvider ------------------------------
(* A small instance of Provider for TLC.                                   *)
EXTENDS Provider

(* Machines differ in this setting only in what their readiness needs; a   *)
(* control plane needs more.                                               *)
MachineInputs == {[allowRecreation |-> FALSE, controlPlane |-> TRUE, validData |-> TRUE]}

(* The user creates all objects at once; the kubeadm controllers wait for  *)
(* the infrastructure.                                                     *)
AtStart == {"owner", "cluster", "kubernetesCluster", "dataSecret"}
=============================================================================
