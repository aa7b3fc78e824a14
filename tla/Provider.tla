------------------------------- MODULE Provider -------------------------------
(***************************************************************************)
(* The provider of one workload cluster: a KubernetesMachine in full       *)
(* detail and the KubernetesCluster it belongs to, as its ClusterLifecycle *)
(* (which KubernetesCluster implements), driven by the Cluster and Machine *)
(* controllers of Cluster API.                                             *)
(*                                                                         *)
(* They meet in three places.  The machine controller looks up the         *)
(* KubernetesCluster in an informer ("kubernetesCluster" in given).  The   *)
(* Cluster controller takes Ready of the KubernetesCluster for             *)
(* infrastructure that is ready ("infraReady" in given).  And a Cluster,   *)
(* or the namespace of both, is deleted: with the Cluster the machine goes *)
(* first, with the namespace either may.                                   *)
(***************************************************************************)
EXTENDS KubernetesMachine

CONSTANTS
  Endpoints, None,  \* of ClusterLifecycle
  Teardowns         \* what may be deleted: the "cluster", its "namespace"

ASSUME TeardownsAssumption == Teardowns \subseteq {"cluster", "namespace"}

VARIABLES endpoint, ready, broken, terminating, gone  \* of ClusterLifecycle

Cluster == INSTANCE ClusterLifecycle

clusterVars == <<endpoint, ready, broken, terminating, gone>>
allVars == <<vars, clusterVars>>

-----------------------------------------------------------------------------
(* Steps of one component alone.                                           *)

MachineAlone(A) == A /\ UNCHANGED clusterVars
ClusterAlone(A) == A /\ UNCHANGED vars

(* What the machine's own specification leaves to its environment, Provide *)
(* and the deletions, is replaced below.                                   *)
MachineNext ==
  \/ Controller \/ Watches \/ GarbageCollector \/ Kubelet \/ NodeJoins
  \/ Pause \/ Unpause \/ Faults \/ KubectlEnds \/ Resync

ClusterProvisions == Cluster!Publish \/ Cluster!BecomeReady \/ Cluster!Break
ClusterRemoved == terminating /\ Cluster!Remove

-----------------------------------------------------------------------------
(* Where the components meet.                                              *)

(* The informer of the machine controller notices that the                 *)
(* KubernetesCluster has gone.                                             *)
LoseKubernetesCluster ==
  /\ gone /\ "kubernetesCluster" \in given
  /\ given' = given \ {"kubernetesCluster"}
  /\ queued' = (queued \/ KubernetesClusterToKubernetesMachines("kubernetesCluster"))
  /\ UNCHANGED <<server, cache, paused, clusterDeleting, input, local, created, faults, clusterVars>>

(* The Cluster controller reports the infrastructure as ready when the     *)
(* KubernetesCluster is; the others provide the rest.                      *)
ProvideFor(x) ==
  /\ x = "kubernetesCluster" => ~gone
  /\ x = "infraReady" => ready
  /\ MachineAlone(Provide(x))

(* The Cluster controller deletes the machines first, and the              *)
(* KubernetesCluster when none is left.  The namespace controller deletes  *)
(* everything in any order and in the background.                          *)
TearDownMachine ==
  /\ clusterDeleting
  /\ \/ "cluster" \in Teardowns /\ MachineAlone(DeleteMachine("default"))
     \/ "namespace" \in Teardowns /\ MachineAlone(DeleteMachine("background"))

TearDownCluster ==
  /\ clusterDeleting
  /\ "namespace" \in Teardowns \/ ~km.exists
  /\ ClusterAlone(Cluster!Terminate)

-----------------------------------------------------------------------------
ProviderInit == Init /\ Cluster!Init

ProviderNext ==
  \/ MachineAlone(MachineNext)
  \/ ClusterAlone(ClusterProvisions) \/ ClusterAlone(ClusterRemoved)
  \/ LoseKubernetesCluster \/ \E x \in Prereqs : ProvideFor(x)
  \/ MachineAlone(DeleteCluster) \/ TearDownMachine \/ TearDownCluster

ProviderSpec == ProviderInit /\ [][ProviderNext]_allVars

(* The machine's fairness; of the cluster, what the run cluster_lifecycle  *)
(* shows (Provisioned and DeletionCompletes); and the Cluster controller   *)
(* goes through with a deletion.  That the KubernetesCluster goes before   *)
(* the machine may happen with a namespace but is not relied upon.         *)
ProviderFairness ==
  /\ WF_allVars(MachineAlone(Controller))
  /\ WF_allVars(MachineAlone(SyncKM)) /\ WF_allVars(MachineAlone(SyncPod))
  /\ WF_allVars(MachineAlone(GarbageCollector))
  /\ WF_allVars(MachineAlone(Kubelet)) /\ WF_allVars(MachineAlone(NodeJoins))
  /\ WF_allVars(\E x \in Prereqs : ProvideFor(x))
  /\ WF_allVars(~paused /\ ~broken /\ ~ready /\ ClusterAlone(Cluster!BecomeReady \/ Cluster!Break))
  /\ WF_allVars(~paused /\ ClusterAlone(ClusterRemoved))
  /\ WF_allVars(LoseKubernetesCluster)
  /\ WF_allVars(TearDownMachine) /\ WF_allVars(~km.exists /\ TearDownCluster)

ProviderFairSpec == ProviderSpec /\ ProviderFairness

-----------------------------------------------------------------------------
(* Properties.                                                             *)

(* The KubernetesCluster went before the machine: Reconcile of the machine *)
(* returns before it looks at the deletion, and nothing removes the        *)
(* machine's finalizer.                                                    *)
Stranded == km.exists /\ gone

NothingOfMachine == ~km.exists /\ pod = NoPod /\ secret = "none" /\ pvcs = {}

(* Nothing is built for the machine, and no finalizer holds it, before the *)
(* KubernetesCluster has been ready, which the machine controller knows    *)
(* only from the Cluster, and reads again on every reconciliation: not by  *)
(* a stale copy, and not when the KubernetesCluster breaks or goes since.  *)
WaitsForCluster == km.fins # {} \/ created > 0 => ready \/ gone

(* A Cluster that is deleted goes for good with everything made for its    *)
(* machine, in whatever state of their set-up the deletion finds the two,  *)
(* unless the KubernetesCluster goes first or the Cluster is paused.       *)
TeardownCompletes ==
  <>clusterDeleting => <>paused \/ <>[](Stranded \/ (NothingOfMachine /\ gone))

(* A Cluster that stays gets a machine that is ready, unless it is paused  *)
(* or one of the two reports a failure: the machine controller is woken    *)
(* for all that it waits for, except what it does not watch: it has read   *)
(* too early the readiness of the infrastructure, the bootstrap data or    *)
(* the KubernetesCluster, and nothing but the informers' resync will make  *)
(* it read again.                                                          *)
Missed == Quiescent /\ km.exists /\ Overlooked # {} /\ Overlooked \subseteq Unwatched

ClusterComesUp ==
  \/ <>((ready /\ km.ready) \/ broken \/ km.failed \/ clusterDeleting \/ paused)
  \/ <>[]Missed
=============================================================================
