--------------------------- MODULE ClusterLifecycle ---------------------------
(***************************************************************************)
(* What a KubernetesCluster promises to the Cluster controller of Cluster  *)
(* API and to the machines of the cluster: an endpoint that does not move, *)
(* Ready, a failure that stays, and a deletion.  KubernetesCluster         *)
(* implements this specification; Provider composes it with a machine.     *)
(***************************************************************************)
CONSTANTS
  Endpoints,  \* the complete endpoints
  None        \* no endpoint, or half of one

VARIABLES
  endpoint,     \* where the control plane is reached
  ready,        \* the infrastructure has been reported ready
  broken,       \* a failure has been reported
  terminating,  \* the cluster is being deleted
  gone          \* it has been removed

vars == <<endpoint, ready, broken, terminating, gone>>

Init ==
  /\ endpoint \in Endpoints \cup {None}
  /\ ready = FALSE /\ broken = FALSE /\ terminating = FALSE /\ gone = FALSE

(* An endpoint is set once; only a cluster that goes may lose its Service  *)
(* and record the address of another.                                      *)
Publish ==
  /\ ~gone /\ (endpoint = None \/ terminating)
  /\ endpoint' \in Endpoints
  /\ UNCHANGED <<ready, broken, terminating, gone>>

(* Ready is never taken back.                                              *)
BecomeReady ==
  /\ ~gone /\ ~ready
  /\ ready' = TRUE
  /\ UNCHANGED <<endpoint, broken, terminating, gone>>

Break ==
  /\ ~gone /\ ~broken
  /\ broken' = TRUE
  /\ UNCHANGED <<endpoint, ready, terminating, gone>>

Terminate ==
  /\ ~gone /\ ~terminating
  /\ terminating' = TRUE
  /\ UNCHANGED <<endpoint, ready, broken, gone>>

Remove ==
  /\ ~gone
  /\ gone' = TRUE
  /\ endpoint' = None /\ ready' = FALSE /\ broken' = FALSE /\ terminating' = FALSE

Next == Publish \/ BecomeReady \/ Break \/ Terminate \/ Remove

Spec == Init /\ [][Next]_vars
=============================================================================
