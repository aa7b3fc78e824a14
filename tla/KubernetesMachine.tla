-------------------------- MODULE KubernetesMachine --------------------------
(***************************************************************************)
(* The life of one KubernetesMachine: the KubernetesMachineReconciler of   *)
(* src/controllers/kubernetesmachine_controller.go, the objects it owns    *)
(* (Pod, cloud-init Secret, PersistentVolumeClaims), the API server, the   *)
(* kubelet, the garbage collector and the other Cluster API controllers.   *)
(*                                                                         *)
(* A reconciliation is not atomic.  It reads the informer caches cKM and   *)
(* cPod when it starts, then makes live calls (create, delete, exec), and  *)
(* ends with two patches (spec and metadata, then status) that send only   *)
(* what changed since the read.  Between two of these every other actor    *)
(* may move, any call may fail, or be performed and reported as failed,    *)
(* and the manager may crash.                                              *)
(***************************************************************************)
EXTENDS Naturals, FiniteSets, Conversion

CONSTANTS
  Claims,         \* the volume claim templates of the KubernetesMachine
  Inputs,         \* the user's choices a behaviour may start with
  InitiallyGiven, \* what the other controllers have provided at the start
  Deletions,      \* the delete requests that may come: of the Cluster, or of the
                  \* machine with the default or the background policy
  Foreign,        \* the names that others may take: "pod", and at the start "secret"
  SameName,       \* the Machine has the same name as the KubernetesMachine
  FaultKinds,     \* the faults that may happen: "crash", "call", "hang", "pod", "pause"
  MaxFaults,      \* bound on their number
  MaxPods         \* bound: after so many Pods the machine's cache no longer lags

(* What a reconciliation reads of Machine, Cluster and KubernetesCluster.  *)
Prereqs ==
  {"owner", "cluster", "kubernetesCluster", "infraReady", "bootstrap", "dataSecret"}

ASSUME InputsAssumption ==
  Inputs \subseteq [allowRecreation : BOOLEAN, controlPlane : BOOLEAN, validData : BOOLEAN]
ASSUME ClaimsAssumption == IsFiniteSet(Claims)
ASSUME GivenAssumption == InitiallyGiven \subseteq Prereqs
ASSUME DeletionsAssumption == Deletions \subseteq {"cluster", "default", "background"}
ASSUME BoundsAssumption == MaxFaults \in Nat /\ MaxPods \in Nat
ASSUME SameNameAssumption == SameName \in BOOLEAN

VARIABLES
  km,      \* the KubernetesMachine on the API server
  pod,     \* the Pod with the machine's name on the API server
  secret,  \* the owner of the cloud-init Secret ("none": no Secret)
  pvcs,    \* the claims that exist
  node,    \* the Node of the workload cluster
  boot,    \* the bootstrap process of the current Pod has been enabled
  reset,   \* kubeadm reset has run in the current Pod
  cKM,     \* informer cache of the KubernetesMachine
  cPod,    \* informer cache of the Pod
  given,   \* the Prereqs the caches hold
  paused,  \* Cluster or KubernetesMachine is paused
  clusterDeleting, \* the Cluster has a deletion timestamp
  input,   \* the user's choices, never changed
  pc,      \* the next call of the reconciliation in progress
  before,  \* the KubernetesMachine as read when it started
  after,   \* its in-memory copy, to be patched
  seen,    \* the Pod as read from the cache
  rerr,    \* the reconciliation returns an error
  known,   \* the Prereqs that the last reconciliation read, which only properties look at
  queued,  \* the work queue holds a request for this machine
  created, \* number of Pods created by the controller so far
  faults   \* number of faults so far

server == <<km, pod, secret, pvcs, node, boot, reset>>
cache == <<cKM, cPod>>
others == <<given, paused, clusterDeleting, input>>
local == <<pc, before, after, seen, rerr, known>>
vars == <<server, cache, others, local, queued, created, faults>>

-----------------------------------------------------------------------------
(* The objects.                                                            *)

Finalizers == {"machine", "foreground"}
Phases == {"", "Pending", "Provisioning", "Running", "Failed", "Deleting"}

Machines ==
  [exists : BOOLEAN, deleting : BOOLEAN, fins : SUBSET Finalizers, providerID : BOOLEAN,
   ready : BOOLEAN, failed : BOOLEAN, phase : Phases, version : BOOLEAN]

NewMachine ==
  [exists |-> TRUE, deleting |-> FALSE, fins |-> {}, providerID |-> FALSE,
   ready |-> FALSE, failed |-> FALSE, phase |-> "", version |-> FALSE]

GoneMachine == [NewMachine EXCEPT !.exists = FALSE]

(* The kind container, as the kubelet reports it in the Pod's status.      *)
ContainerStates ==
  {"none", "waiting", "running", "containerReady", "podReady", "terminated"}
Alive == {"running", "containerReady", "podReady"}

Owners == {"none", "self", "other"}
Pods == [uid : Nat, owner : Owners, deleting : BOOLEAN, state : ContainerStates]

NoPod == [uid |-> 0, owner |-> "none", deleting |-> FALSE, state |-> "none"]
ForeignPod == [uid |-> 1, owner |-> "other", deleting |-> FALSE, state |-> "running"]
NewPod_Unowned(n) == [uid |-> n + 2, owner |-> "none", deleting |-> FALSE, state |-> "none"]
NewPod(n) == [uid |-> n + 2, owner |-> "self", deleting |-> FALSE, state |-> "none"]

Exists(p) == p.uid # 0

(* The API server removes a deleting object with its last finalizer.       *)
Settle(k) == IF k.deleting /\ k.fins = {} THEN GoneMachine ELSE k

-----------------------------------------------------------------------------
(* The pure parts of the reconciler.                                       *)

(* The Machine of the model has a version; the code copies only one that   *)
(* is set.                                                                 *)
reconcileVersion(k) == [k EXCEPT !.version = TRUE]

reconcilePhase_Unlisted(k) ==
  [k EXCEPT !.phase = IF k.deleting THEN "Terminating" ELSE @]

(* Later assignments win, so the cases are listed from the last to the     *)
(* first.                                                                  *)
reconcilePhase(k) ==
  [k EXCEPT !.phase =
     CASE k.deleting -> "Deleting"
       [] ~k.deleting /\ k.failed -> "Failed"
       [] ~k.deleting /\ ~k.failed /\ k.providerID /\ k.ready -> "Running"
       [] ~k.deleting /\ ~k.failed /\ k.providerID /\ ~k.ready -> "Provisioning"
       [] ~k.deleting /\ ~k.failed /\ ~k.providerID /\ @ = "" -> "Pending"
       [] OTHER -> @]

SetFailure(k) == [k EXCEPT !.failed = TRUE]

AddFinalizers_ForegroundOnly(k) == [k EXCEPT !.fins = @ \cup {"foreground"}]
AddFinalizers_MachineOnly(k) == [k EXCEPT !.fins = @ \cup {"machine"}]
AddFinalizers(k) == [k EXCEPT !.fins = @ \cup Finalizers]

RemoveFinalizer_Forgotten(k) == k
RemoveFinalizer(k) == [k EXCEPT !.fins = @ \ {"machine"}]
SetReady(k, r) == [k EXCEPT !.ready = r]

(* The work queue merges a request with one already waiting.               *)
Enqueue == queued' = TRUE

Fault(kind) == kind \in FaultKinds /\ faults < MaxFaults /\ faults' = faults + 1

(* How a call to the API server ends: performed, refused, or performed     *)
(* with the answer lost; the last two look alike to the caller.            *)
Outcomes == {"ok", "refused", "lost"}
Outcome(o) == IF o = "ok" THEN UNCHANGED faults ELSE Fault("call")

Return_NoPhase(k, err) == pc' = "patch" /\ after' = k /\ rerr' = err /\ seen' = NoPod
Return_NoError(k, err) ==
  pc' = "patch" /\ after' = reconcilePhase(k) /\ rerr' = FALSE /\ seen' = NoPod

(* The reconciler returns: the deferred function computes the phase and    *)
(* patches, whatever the result was.                                       *)
Return(k, err) ==
  /\ pc' = "patch"
  /\ after' = reconcilePhase(k)
  /\ rerr' = err
  /\ seen' = NoPod

(* The reconciler goes on to the live call at step s.                      *)
Proceed(s) ==
  /\ pc' = s
  /\ UNCHANGED <<after, seen, rerr>>

(* The first live call of a reconciliation, which has read the Pod.        *)
Call(s, k) ==
  /\ pc' = s
  /\ after' = k
  /\ seen' = cPod
  /\ rerr' = FALSE

-----------------------------------------------------------------------------
(* Reconcile: from the work queue, through everything that is decided from *)
(* the caches, to the first live call.                                     *)

Take ==
  /\ pc = "idle" /\ queued
  /\ created < MaxPods \/ cKM = km
  /\ queued' = FALSE
  /\ known' = given
  /\ UNCHANGED <<server, cache, others, created, faults>>

(* The object is gone: nothing to do, and nothing to patch.                *)
ReconcileNotFound ==
  /\ Take
  /\ ~cKM.exists
  /\ UNCHANGED <<pc, before, after, seen, rerr>>

Fetch ==
  /\ Take
  /\ cKM.exists
  /\ before' = cKM

(* The returns of Reconcile before it dispatches.                          *)
AwaitOwner ==
  /\ Fetch
  /\ "owner" \notin given
  /\ Return(cKM, FALSE)

AwaitCluster ==
  /\ Fetch
  /\ "owner" \in given /\ "cluster" \notin given
  /\ Return(reconcileVersion(cKM), TRUE)

AwaitKubernetesCluster ==
  /\ Fetch
  /\ {"owner", "cluster"} \subseteq given
  /\ "kubernetesCluster" \notin given \/ paused
  /\ Return(reconcileVersion(cKM), FALSE)

Dispatch ==
  /\ Fetch
  /\ {"owner", "cluster", "kubernetesCluster"} \subseteq given
  /\ ~paused

AwaitInfrastructure ==
  /\ Dispatch
  /\ ~cKM.deleting /\ "infraReady" \notin given
  /\ Return(reconcileVersion(cKM), FALSE)

(* reconcileNormal, up to its first live call.                             *)
NormalFailed_Retries(k) == k.failed /\ Return([k EXCEPT !.failed = FALSE], FALSE)

NormalFailed(k) ==
  /\ k.failed
  /\ Return(k, FALSE)

NormalAwaitBootstrap(k) ==
  /\ "bootstrap" \notin given
  /\ Return(k, FALSE)

NormalPodNotFound_Recreates(k) ==
  /\ "bootstrap" \in given /\ ~Exists(cPod)
  /\ Call("createPod", SetReady(k, FALSE))

NormalPodNotFound_StartsOver(k) ==
  /\ "bootstrap" \in given /\ ~Exists(cPod)
  /\ Call("createPod", [SetReady(k, FALSE) EXCEPT !.providerID = FALSE])

NormalPodNotFound(k) ==
  /\ "bootstrap" \in given /\ ~Exists(cPod)
  /\ \/ input.allowRecreation /\ Call("createPod", SetReady(k, FALSE))
     \/ ~input.allowRecreation /\ k.providerID /\ Return(SetFailure(k), FALSE)
     \/ ~input.allowRecreation /\ ~k.providerID /\ Call("createPod", k)

NormalPodFound_AnyOwner(k) ==
  /\ "bootstrap" \in given /\ Exists(cPod)
  /\ \/ ~k.providerID /\ Return([k EXCEPT !.providerID = TRUE], FALSE)
     \/ k.providerID /\ ~cPod.deleting /\ Call("createPVCs", k)

NormalPodFound(k) ==
  /\ "bootstrap" \in given /\ Exists(cPod)
  /\ \/ cPod.owner # "self" /\ Return(SetFailure(k), FALSE)
     \/ /\ cPod.owner = "self"
        /\ \/ ~k.providerID /\ Return([k EXCEPT !.providerID = TRUE], FALSE)
           \/ /\ k.providerID /\ cPod.deleting
              /\ IF input.allowRecreation
                   THEN Return(SetReady(k, FALSE), FALSE)
                   ELSE Return(SetFailure(k), FALSE)
           \/ k.providerID /\ ~cPod.deleting /\ Call("createPVCs", k)

reconcileNormal_AnyInfrastructure ==
  /\ Dispatch
  /\ ~cKM.deleting
  /\ LET k0 == reconcileVersion(cKM)
         k == AddFinalizers(k0)
     IN \/ NormalFailed(k0)
        \/ ~k0.failed /\ (NormalAwaitBootstrap(k) \/ NormalPodNotFound(k) \/ NormalPodFound(k))

reconcileNormal ==
  /\ Dispatch
  /\ ~cKM.deleting /\ "infraReady" \in given
  /\ LET k0 == reconcileVersion(cKM)
         k == AddFinalizers(k0)
     IN \/ NormalFailed(k0)
        \/ ~k0.failed /\ \/ NormalAwaitBootstrap(k)
                         \/ NormalPodNotFound(k)
                         \/ NormalPodFound(k)

(* reconcileDelete: only a control plane machine of a cluster that stays   *)
(* has to be reset first, and only a Pod of its own can be.                *)
reconcileDelete ==
  /\ Dispatch
  /\ cKM.deleting
  /\ LET k == reconcileVersion(cKM)
         needsReset == ~clusterDeleting /\ input.controlPlane
     IN \/ needsReset /\ cPod.owner = "self" /\ Call("reset", k)
        \/ needsReset /\ ~Exists(cPod) /\ Return(SetFailure(RemoveFinalizer(k)), FALSE)
        \/ needsReset /\ cPod.owner = "other" /\ Return(RemoveFinalizer(k), FALSE)
        \/ ~needsReset /\ Return(RemoveFinalizer(k), FALSE)

Reconcile ==
  \/ ReconcileNotFound \/ AwaitOwner \/ AwaitCluster \/ AwaitKubernetesCluster
  \/ AwaitInfrastructure \/ reconcileNormal \/ reconcileDelete

-----------------------------------------------------------------------------
(* The live calls of a reconciliation, each with what the code does with   *)
(* the answer.                                                             *)

Step(s) ==
  /\ pc = s
  /\ UNCHANGED <<cache, others, before, known>>

(* Create fails with AlreadyExists when the cache missed a Pod.            *)
createMachinePod ==
  /\ Step("createPod")
  /\ \E o \in Outcomes :
       /\ Outcome(o)
       /\ \/ /\ o # "refused" /\ ~Exists(pod)
             /\ pod' = NewPod(created)
             /\ created' = created + 1
             /\ boot' = FALSE /\ reset' = FALSE
             /\ Return(after, o # "ok")
          \/ /\ o = "refused" \/ Exists(pod)
             /\ UNCHANGED <<pod, created, boot, reset>>
             /\ Return(after, TRUE)
  /\ UNCHANGED <<km, secret, pvcs, node, queued>>

(* The events of claims and of the Secret queue the KubernetesMachine that *)
(* controls them.                                                          *)
PersistentVolumeClaimToKubernetesMachine(c) == c \in Claims
SecretToKubernetesMachine(owner) == owner = "self"

(* Any of the live reads and creates may fail; the errors are aggregated.  *)
(* Then the bootstrap data: a missing Secret is logged and not retried,    *)
(* malformed data is an error.                                             *)
createPersistentVolumeClaims ==
  /\ pc = "createPVCs"
  /\ known' = known \cup ({"dataSecret"} \cap given)
  /\ \E new \in SUBSET (Claims \ pvcs), err \in BOOLEAN :
       /\ new # Claims \ pvcs => err
       /\ IF err THEN Fault("call") ELSE UNCHANGED faults
       /\ pvcs' = pvcs \cup new
       /\ queued' = (queued \/ \E c \in new : PersistentVolumeClaimToKubernetesMachine(c))
       /\ \/ err /\ Return(after, TRUE)
          \/ ~err /\ "dataSecret" \notin given /\ Return(after, FALSE)
          \/ ~err /\ "dataSecret" \in given /\ ~input.validData /\ Return(after, TRUE)
          \/ ~err /\ "dataSecret" \in given /\ input.validData /\ Proceed("createSecret")
  /\ UNCHANGED <<cache, others, before, km, pod, secret, node, boot, reset, created>>

(* AlreadyExists is no error.  The ownership test that follows looks at    *)
(* the object in memory, which always names this machine: it decides       *)
(* nothing.  Then the status of the kind container.                        *)
createSecret ==
  /\ Step("createSecret")
  /\ \E o \in Outcomes :
       /\ Outcome(o)
       /\ IF o # "refused" /\ secret = "none"
            THEN secret' = "self" /\ queued' = (queued \/ SecretToKubernetesMachine("self"))
            ELSE UNCHANGED <<secret, queued>>
       /\ \/ o # "ok" /\ Return(after, TRUE)
          \/ o = "ok" /\ seen.state \in {"none", "waiting"} /\ Return(after, FALSE)
          \/ /\ o = "ok" /\ seen.state = "terminated"
             /\ IF input.allowRecreation THEN Proceed("deletePod")
                                         ELSE Return(SetFailure(after), FALSE)
          \/ o = "ok" /\ seen.state \in Alive /\ Proceed("enable")
  /\ UNCHANGED <<km, pod, pvcs, node, boot, reset, created>>

deletePod_Forgotten ==
  /\ Step("deletePod")
  /\ Return(after, FALSE)
  /\ UNCHANGED <<server, queued, created, faults>>

(* Delete names the Pod and has no precondition on its UID: it may be      *)
(* another Pod than the one that was read, and somebody else's.            *)
deletePod ==
  /\ Step("deletePod")
  /\ \E o \in Outcomes :
       /\ Outcome(o)
       /\ pod' = IF o # "refused" /\ Exists(pod) THEN [pod EXCEPT !.deleting = TRUE] ELSE pod
       /\ Return(after, o # "ok" \/ ~Exists(pod))
  /\ UNCHANGED <<km, secret, pvcs, node, boot, reset, queued, created>>

(* An exec names the Pod, too; it needs a running kind container, which    *)
(* somebody else's Pod may have or not.                                    *)
kindContainerExec(o) == o # "refused" /\ Exists(pod) /\ pod.state \in Alive
ExecOutcome(o) == Outcome(o) \/ (o = "refused" /\ pod.owner = "other" /\ UNCHANGED faults)

enableBoostrapProcess ==
  /\ Step("enable")
  /\ \E o \in Outcomes :
       /\ ExecOutcome(o)
       /\ boot' = (boot \/ kindContainerExec(o))
       /\ LET done == o = "ok" /\ kindContainerExec(o)
          IN \/ ~done /\ Return(after, TRUE)
             \/ done /\ seen.state = "running" /\ Return(after, FALSE)
             \/ done /\ seen.state # "running" /\ Proceed("setProviderID")
  /\ UNCHANGED <<km, pod, secret, pvcs, node, reset, queued, created>>

(* kubectl, run in the first control plane Pod of the cluster that the     *)
(* cache lists, patches the Node of this machine: it must have joined.     *)
nodePatched_Unchecked(o) == TRUE
nodePatched(o) == o = "ok" /\ node # "absent"
PatchedNode == IF node = "joined" THEN "provided" ELSE node

(* The list has the machine's own Pod if that is one; the Pods of other    *)
(* machines may all be missing from it.                                    *)
NoControllerPod == ~(input.controlPlane /\ cPod.owner = "self")

setNodeProviderID ==
  /\ Step("setProviderID")
  /\ \/ NoControllerPod /\ Fault("pod") /\ Return(after, TRUE) /\ UNCHANGED node
     \/ \E o \in Outcomes :
          /\ Outcome(o)
          /\ node' = IF o # "refused" THEN PatchedNode ELSE node
          /\ \/ ~nodePatched(o) /\ Return(after, TRUE)
             \/ nodePatched(o) /\ seen.state = "podReady" /\ Return(SetReady(after, TRUE), FALSE)
             \/ nodePatched(o) /\ seen.state # "podReady" /\ Return(after, FALSE)
  /\ UNCHANGED <<km, pod, secret, pvcs, boot, reset, queued, created>>

kubeadmReset ==
  /\ Step("reset")
  /\ \E o \in Outcomes :
       /\ ExecOutcome(o)
       /\ reset' = (reset \/ kindContainerExec(o))
       /\ IF o = "ok" /\ kindContainerExec(o)
            THEN Return(RemoveFinalizer(after), FALSE)
            ELSE Return(after, TRUE)
  /\ UNCHANGED <<km, pod, secret, pvcs, node, boot, queued, created>>

(* exec.Stream has no deadline and no context: a command that hangs keeps  *)
(* the controller's only worker until its container goes, in this          *)
(* machine's Pod or, for kubectl, in the control plane Pod it runs in.     *)
ExecHangs ==
  /\ Step(pc) /\ pc \in {"enable", "reset"}
  /\ kindContainerExec("ok") /\ Fault("hang")
  /\ pc' = "hung"
  /\ boot' \in {boot, boot \/ pc = "enable"}
  /\ reset' \in {reset, reset \/ pc = "reset"}
  /\ UNCHANGED <<after, seen, rerr, km, pod, secret, pvcs, node, queued, created>>

KubectlHangs ==
  /\ Step("setProviderID") /\ Fault("hang")
  /\ pc' = "hungElsewhere"
  /\ node' \in {node, PatchedNode}
  /\ UNCHANGED <<after, seen, rerr, km, pod, secret, pvcs, boot, reset, queued, created>>

(* Somebody else's Pod of the name may be the one that took the place of   *)
(* the Pod that was entered.                                               *)
ExecEnds ==
  /\ Step("hung")
  /\ pod.state \notin Alive \/ pod.owner = "other"
  /\ Return(after, TRUE)
  /\ UNCHANGED <<server, queued, created, faults>>

KubectlEnds ==
  /\ Step("hungElsewhere")
  /\ Return(after, TRUE)
  /\ UNCHANGED <<server, queued, created, faults>>

-----------------------------------------------------------------------------
(* The deferred patchHelper.Patch: two merge patches, both attempted, each *)
(* sending only the fields that differ from what was read; a list such as  *)
(* the finalizers is sent whole.                                           *)

Sent(new, old, current) == IF new # old THEN new ELSE current

MergeSpec(k) ==
  [k EXCEPT !.fins = Sent(after.fins, before.fins, @),
            !.providerID = Sent(after.providerID, before.providerID, @)]

MergeStatus(k) ==
  [k EXCEPT !.ready = Sent(after.ready, before.ready, @),
            !.failed = Sent(after.failed, before.failed, @),
            !.phase = Sent(after.phase, before.phase, @),
            !.version = Sent(after.version, before.version, @)]

SpecChanged == after.fins # before.fins \/ after.providerID # before.providerID
StatusChanged == after # [before EXCEPT !.fins = after.fins, !.providerID = after.providerID]

(* The API server takes no new finalizer on an object being deleted.       *)
SpecAccepted == km.exists /\ (km.deleting => MergeSpec(km).fins \subseteq km.fins)

Patch ==
  /\ Step("patch")
  /\ \/ ~SpecChanged /\ UNCHANGED <<km, rerr, faults>>
     \/ /\ SpecChanged
        /\ \E o \in Outcomes :
             /\ Outcome(o)
             /\ km' = IF o # "refused" /\ SpecAccepted THEN Settle(MergeSpec(km)) ELSE km
             /\ rerr' = (rerr \/ o # "ok" \/ ~SpecAccepted)
  /\ pc' = "patchStatus"
  /\ UNCHANGED <<after, seen, pod, secret, pvcs, node, boot, reset, queued, created>>

(* Back to the work queue, which retries after an error.                   *)
Forget ==
  /\ pc' = "idle"
  /\ before' = GoneMachine /\ after' = GoneMachine /\ seen' = NoPod /\ rerr' = FALSE
  /\ UNCHANGED known

PatchStatus ==
  /\ pc = "patchStatus"
  /\ \/ /\ ~StatusChanged
        /\ queued' = (queued \/ rerr)
        /\ UNCHANGED <<km, faults>>
     \/ /\ StatusChanged
        /\ \E o \in Outcomes :
             /\ Outcome(o)
             /\ km' = IF o # "refused" /\ km.exists THEN MergeStatus(km) ELSE km
             /\ queued' = (queued \/ rerr \/ o # "ok" \/ ~km.exists)
  /\ Forget
  /\ UNCHANGED <<cache, others, pod, secret, pvcs, node, boot, reset, created>>

(* The manager restarts: the informers list everything again and every     *)
(* object found is queued.                                                 *)
Crash ==
  /\ Fault("crash")
  /\ Forget
  /\ cKM' = km /\ cPod' = pod
  /\ Enqueue
  /\ UNCHANGED <<server, others, created>>

-----------------------------------------------------------------------------
(* Watches: a cache catches up and its event handler queues a request.     *)

SyncKM ==
  /\ cKM # km
  /\ cKM' = km
  /\ Enqueue
  /\ UNCHANGED <<server, cPod, others, local, created, faults>>

(* Only a Pod that a KubernetesMachine controls queues its owner.          *)
PodToKubernetesMachine_Nobody(p) == FALSE
PodToKubernetesMachine(p) == p.owner = "self"

(* A cache that still holds an earlier Pod shows its deletion first.       *)
SyncPod ==
  /\ cPod # pod
  /\ cPod' = IF Exists(cPod) /\ cPod.uid # pod.uid THEN NoPod ELSE pod
  /\ queued' = (queued \/ PodToKubernetesMachine(cPod) \/ PodToKubernetesMachine(pod))
  /\ UNCHANGED <<server, cKM, others, local, created, faults>>

(* The informers' periodic resync queues what the cache holds.             *)
Resync ==
  /\ cKM.exists /\ ~queued
  /\ Enqueue
  /\ UNCHANGED <<server, cache, others, local, created, faults>>

(* The informers show what the other controllers provide, each in its own  *)
(* time and so in any order.  Machine and Cluster are watched; a           *)
(* KubernetesCluster queues the name of the Machine, which is the name of  *)
(* the KubernetesMachine only by chance; neither the Cluster's status nor  *)
(* the bootstrap data Secret is watched.                                   *)
KubernetesClusterToKubernetesMachines(x) == x = "kubernetesCluster" /\ SameName

Wakes_MachineUnwatched(x) == x = "cluster"
Wakes(x) == x \in {"owner", "cluster", "bootstrap"} \/ KubernetesClusterToKubernetesMachines(x)

Provide(x) ==
  /\ x \notin given
  /\ given' = given \cup {x}
  /\ queued' = (queued \/ Wakes(x))
  /\ UNCHANGED <<server, cache, paused, clusterDeleting, input, local, created, faults>>

Pause ==
  /\ ~paused /\ Fault("pause")
  /\ paused' = TRUE
  /\ UNCHANGED <<server, cache, given, clusterDeleting, input, local, queued, created>>

Unpause ==
  /\ paused
  /\ paused' = FALSE
  /\ Enqueue
  /\ UNCHANGED <<server, cache, given, clusterDeleting, input, local, created, faults>>

DeleteCluster ==
  /\ "cluster" \in Deletions /\ ~clusterDeleting
  /\ clusterDeleting' = TRUE
  /\ UNCHANGED <<server, cache, given, paused, input, local, queued, created, faults>>

(* The Machine controller, or a user, deletes the KubernetesMachine.  The  *)
(* default policy keeps the foregroundDeletion finalizer, "background"     *)
(* drops it.                                                               *)
DeleteMachine(p) ==
  /\ km.exists /\ ~km.deleting
  /\ km' = Settle([km EXCEPT !.deleting = TRUE,
                             !.fins = IF p = "background" THEN @ \ {"foreground"} ELSE @])
  /\ UNCHANGED <<pod, secret, pvcs, node, boot, reset, cache, others, local, queued, created, faults>>

-----------------------------------------------------------------------------
(* The garbage collector: dependents go before their owner when it has the *)
(* foregroundDeletion finalizer, and after it when it is gone.             *)

Collecting == ~km.exists \/ (km.deleting /\ "foreground" \in km.fins)

CollectPod ==
  /\ Collecting
  /\ pod.owner = "self" /\ ~pod.deleting
  /\ pod' = [pod EXCEPT !.deleting = TRUE]
  /\ UNCHANGED <<km, secret, pvcs, node, boot, reset, cache, others, local, queued, created, faults>>

CollectSecret ==
  /\ Collecting
  /\ secret = "self"
  /\ secret' = "none"
  /\ queued' = (queued \/ SecretToKubernetesMachine(secret))
  /\ UNCHANGED <<km, pod, pvcs, node, boot, reset, cache, others, local, created, faults>>

(* A claim in use by a Pod is kept until the Pod is gone.                  *)
CollectClaims ==
  /\ Collecting
  /\ pvcs # {} /\ pod.owner # "self"
  /\ pvcs' = {}
  /\ queued' = (queued \/ \E c \in pvcs : PersistentVolumeClaimToKubernetesMachine(c))
  /\ UNCHANGED <<km, pod, secret, node, boot, reset, cache, others, local, created, faults>>

CollectMachine ==
  /\ km.deleting /\ "foreground" \in km.fins
  /\ pod.owner # "self" /\ secret # "self" /\ pvcs = {}
  /\ km' = Settle([km EXCEPT !.fins = @ \ {"foreground"}])
  /\ UNCHANGED <<pod, secret, pvcs, node, boot, reset, cache, others, local, queued, created, faults>>

-----------------------------------------------------------------------------
(* The kubelet of the management cluster and the machine itself.           *)

PodChanges == UNCHANGED <<km, secret, pvcs, node, cache, others, local, created>>

(* The events of a Pod that goes queue a request even when the cache never *)
(* showed the Pod, if it was the machine's.                                *)
PodGoes ==
  /\ pod' = NoPod /\ boot' = FALSE /\ reset' = FALSE
  /\ queued' = (queued \/ PodToKubernetesMachine(pod))

(* The container needs its volumes to start; a control plane's readiness   *)
(* probe needs the API server, which the bootstrap process starts.         *)
KubeletStarts ==
  /\ pod.owner = "self" /\ ~pod.deleting
  /\ \/ pod.state = "none" /\ pod' = [pod EXCEPT !.state = "waiting"]
     \/ /\ pod.state = "waiting"
        /\ secret # "none" /\ pvcs = Claims
        /\ pod' = [pod EXCEPT !.state = "running"]
     \/ /\ pod.state = "running"
        /\ input.controlPlane => boot
        /\ pod' = [pod EXCEPT !.state = "containerReady"]
     \/ pod.state = "containerReady" /\ pod' = [pod EXCEPT !.state = "podReady"]
  /\ UNCHANGED <<boot, reset, queued, faults>> /\ PodChanges

KubeletRemoves ==
  /\ pod.deleting
  /\ PodGoes
  /\ UNCHANGED faults /\ PodChanges

NodeJoins ==
  /\ node = "absent" /\ boot /\ pod.owner = "self" /\ pod.state \in Alive
  /\ node' = "joined"
  /\ UNCHANGED <<km, pod, secret, pvcs, boot, reset, cache, others, local, queued, created, faults>>

(* Somebody deletes the Pod, gracefully or at once with its host.          *)
PodLost ==
  /\ pod.owner = "self" /\ Fault("pod")
  /\ \/ ~pod.deleting /\ pod' = [pod EXCEPT !.deleting = TRUE] /\ UNCHANGED <<boot, reset, queued>>
     \/ PodGoes
  /\ PodChanges

KindTerminates ==
  /\ pod.owner = "self" /\ pod.state \in Alive /\ Fault("pod")
  /\ pod' = [pod EXCEPT !.state = "terminated"]
  /\ UNCHANGED <<boot, reset, queued>> /\ PodChanges

PodUnready ==
  /\ pod.state = "podReady" /\ Fault("pod")
  /\ pod' = [pod EXCEPT !.state = "running"]
  /\ UNCHANGED <<boot, reset, queued>> /\ PodChanges

(* Somebody else's Pod takes the machine's name when it is free.           *)
ForeignComes ==
  /\ "pod" \in Foreign /\ ~Exists(pod)
  /\ pod' = ForeignPod
  /\ UNCHANGED <<boot, reset, queued, faults>> /\ PodChanges

(* What somebody else has under the machine's name goes away.              *)
ForeignGoes ==
  /\ \/ pod.owner = "other" /\ PodGoes /\ UNCHANGED secret
     \/ secret = "other" /\ secret' = "none" /\ UNCHANGED <<pod, boot, reset, queued>>
  /\ UNCHANGED <<km, pvcs, node, cache, others, local, created, faults>>

-----------------------------------------------------------------------------
Init ==
  /\ km = NewMachine /\ cKM = NewMachine
  /\ pod \in {NoPod} \cup (IF "pod" \in Foreign THEN {ForeignPod} ELSE {})
  /\ cPod = pod
  /\ secret \in {"none"} \cup (IF "secret" \in Foreign THEN {"other"} ELSE {})
  /\ pvcs = {} /\ node = "absent" /\ boot = FALSE /\ reset = FALSE
  /\ given = InitiallyGiven /\ paused = FALSE /\ clusterDeleting = FALSE
  /\ input \in Inputs
  /\ pc = "idle" /\ before = GoneMachine /\ after = GoneMachine /\ seen = NoPod /\ rerr = FALSE
  /\ known = {}
  /\ queued = TRUE /\ created = 0 /\ faults = 0

Controller ==
  \/ Reconcile
  \/ createMachinePod \/ createPersistentVolumeClaims \/ createSecret \/ deletePod
  \/ enableBoostrapProcess \/ setNodeProviderID \/ kubeadmReset \/ ExecEnds
  \/ Patch \/ PatchStatus

Watches == SyncKM \/ SyncPod

GarbageCollector == CollectPod \/ CollectSecret \/ CollectClaims \/ CollectMachine

Kubelet == KubeletStarts \/ KubeletRemoves

Users ==
  \/ \E p \in Deletions \ {"cluster"} : DeleteMachine(p)
  \/ DeleteCluster \/ Pause \/ Unpause

Faults == Crash \/ ExecHangs \/ KubectlHangs \/ PodLost \/ KindTerminates \/ PodUnready

Next ==
  \/ Controller \/ Watches \/ GarbageCollector \/ Kubelet \/ NodeJoins
  \/ \E x \in Prereqs : Provide(x)
  \/ Users \/ Faults \/ KubectlEnds \/ ForeignComes \/ ForeignGoes \/ Resync

Spec == Init /\ [][Next]_vars

(* The manager runs and its work queue and informers make progress; so do  *)
(* the garbage collector, the kubelet and the kubeadm of the machine.  No  *)
(* user, no fault and no resync is relied upon, nor that kubectl in another *)
(* machine's Pod comes back.                                               *)
Fairness ==
  /\ WF_vars(Controller)
  /\ WF_vars(SyncKM) /\ WF_vars(SyncPod)
  /\ WF_vars(CollectPod) /\ WF_vars(CollectSecret)
  /\ WF_vars(CollectClaims) /\ WF_vars(CollectMachine)
  /\ WF_vars(KubeletStarts) /\ WF_vars(KubeletRemoves)
  /\ WF_vars(NodeJoins)
  /\ \A x \in Prereqs : WF_vars(Provide(x))

FairSpec == Spec /\ Fairness

-----------------------------------------------------------------------------
(* Properties.                                                             *)

Steps ==
  {"idle", "createPod", "createPVCs", "createSecret", "deletePod", "enable",
   "setProviderID", "reset", "hung", "hungElsewhere", "patch", "patchStatus"}

(* Type correctness of every variable.                                     *)
TypeOK ==
  /\ km \in Machines /\ cKM \in Machines /\ before \in Machines /\ after \in Machines
  /\ pod \in Pods /\ cPod \in Pods /\ seen \in Pods
  /\ secret \in Owners /\ pvcs \subseteq Claims
  /\ node \in {"absent", "joined", "provided"}
  /\ boot \in BOOLEAN /\ reset \in BOOLEAN
  /\ given \subseteq Prereqs /\ paused \in BOOLEAN /\ clusterDeleting \in BOOLEAN
  /\ input \in Inputs
  /\ pc \in Steps /\ rerr \in BOOLEAN /\ known \subseteq Prereqs /\ queued \in BOOLEAN
  /\ created \in Nat /\ faults \in 0 .. MaxFaults

(* A control plane machine of a cluster that stays keeps its finalizer as  *)
(* long as its Pod runs with an etcd member that kubeadm reset has not     *)
(* removed: the machine cannot disappear around a live member.  (When      *)
(* recreation is allowed a cache that lags behind two Pods of the same     *)
(* name can defeat this, and so can somebody else's Secret in the place of *)
(* the machine's.)                                                         *)
MemberNotAbandoned ==
  /\ input.controlPlane /\ ~clusterDeleting /\ ~input.allowRecreation
  /\ boot /\ ~reset /\ pod.owner = "self" /\ pod.state \in Alive
  => "machine" \in km.fins

(* Status.Ready is reported only for a machine with a provider ID, whose   *)
(* Node carries that provider ID.                                          *)
ReadyIsBacked == km.ready => km.providerID /\ node = "provided"

(* The work queue is empty and the caches have caught up.                  *)
Quiescent == pc = "idle" /\ ~queued /\ cKM = km /\ cPod = pod

(* What arrives without an event, the KubernetesCluster unless the names   *)
(* agree.                                                                  *)
Unwatched == {"infraReady", "dataSecret"} \cup (IF SameName THEN {} ELSE {"kubernetesCluster"})

(* What has arrived since the last reconciliation read it.                 *)
Overlooked == given \ known

(* When nothing is queued and no event is on its way, only what arrived    *)
(* without an event can have been overlooked, and if nothing has been,     *)
(* nothing is left to do that depends on the controller alone: every       *)
(* return without an error waits for something that will queue the machine *)
(* again, or for one of the three that will not.  (Somebody else's Secret  *)
(* that the machine relies on may go without an event, too.)               *)
NoLostWakeup ==
  Quiescent /\ km.exists /\ ~paused =>
    /\ Overlooked \subseteq Unwatched
    /\ given = Prereqs /\ Overlooked = {} =>
         \/ km.deleting /\ "machine" \notin km.fins
         \/ ~km.deleting /\ km.failed
         \/ /\ ~km.deleting
            /\ pod.owner = "self" /\ km.providerID
            /\ \/ pod.deleting /\ input.allowRecreation
               \/ /\ ~pod.deleting /\ pvcs = Claims
                  /\ secret # "none" \/ "secret" \in Foreign
                  /\ pod.state # "terminated"
                  /\ pod.state \in Alive => boot
                  /\ pod.state = "podReady" => km.ready

(* When nothing is left to do, Status.Phase says what the rest of the      *)
(* object says, although it is patched after, and apart from, the spec.    *)
PhaseSettles == Quiescent /\ km.exists => km.phase = reconcilePhase(km).phase

(* A machine that has been ready never gets a second Pod unless recreation *)
(* is allowed, even when the controller acts on a stale copy of it.        *)
NoReplacementOnceReady ==
  [][km.ready /\ ~input.allowRecreation => created' = created]_vars

(* Somebody else's Pod of the machine's name is deleted, or entered, only  *)
(* by a reconciliation that read a Pod of the machine in its place: the    *)
(* ownership tests look at the cache, and what follows them addresses the  *)
(* Pod by its name alone.                                                  *)
Touched == (pod'.deleting /\ ~pod.deleting) \/ (boot' /\ ~boot) \/ (reset' /\ ~reset)

ForeignPodUntouched ==
  [][pod.owner = "other" /\ Touched => seen.owner = "self" /\ seen.uid # pod.uid]_vars

(* Once everything is provided the machine becomes ready, or is reported   *)
(* as failed, unless it is deleted or paused first or an exec hangs.       *)
Provisioned ==
  <>(\/ km.ready \/ km.failed \/ km.deleting \/ ~km.exists \/ paused
     \/ pc \in {"hung", "hungElsewhere"})

(* A deletion runs to its end, unless paused, for every machine that needs *)
(* no kubeadm reset: a worker, or any machine of a cluster that is being   *)
(* deleted, even when the deletion of the cluster comes late, and even     *)
(* when an exec hangs: the garbage collector takes the Pod from under it.  *)
(* Only kubectl in the Pod of another machine can hold it up.              *)
DeletionCompletesWithoutReset ==
  km.deleting /\ (~input.controlPlane \/ clusterDeleting)
    ~> (~km.exists \/ paused \/ pc = "hungElsewhere")

(* After the machine is gone, its Pod, Secret and claims go for good: a    *)
(* reconciliation that still works on a stale copy may create one again,   *)
(* but not for ever.                                                       *)
NothingLeftBehind ==
  <>(~km.exists) =>
    <>[]((Exists(pod) => pod.owner = "other") /\ secret # "self" /\ pvcs = {})

(* With recreation a machine heals: whatever Pods are lost, terminate or   *)
(* are deleted in place of another, it ends up with a Pod that has been    *)
(* told to bootstrap and is ready, and with Ready reported, unless it is   *)
(* deleted or an exec hangs.                                               *)
Heals ==
  input.allowRecreation =>
    <>[](\/ km.deleting \/ ~km.exists \/ pc \in {"hung", "hungElsewhere"}
         \/ km.ready /\ boot /\ pod.state = "podReady" /\ ~pod.deleting)

(* The KubernetesMachine as an object of the API: the PodSpec and the      *)
(* claims, which the controller never changes, are left out.               *)
Object(k) ==
  [meta |-> [exists |-> k.exists, deleting |-> k.deleting, fins |-> k.fins],
   spec |-> [providerID |-> k.providerID, allowRecreation |-> input.allowRecreation,
             podSpec |-> {}, volumeClaimTemplates |-> Claims],
   version |-> k.version, failure |-> k.failed, phase |-> k.phase, ready |-> k.ready]

(* A client of v1alpha2 that reads the machine at any moment and writes it *)
(* back takes nothing from it: no provider ID, which would let it be built *)
(* twice, no failure, no finalizer.                                        *)
SurvivesV1alpha2 == MachineConvertTo(MachineConvertFrom(Object(km))) = Object(km)

(* What the comments of the code promise and the code does not keep.       *)

(* The comment in reconcileDelete: the etcd member is removed in a         *)
(* controlled way; so the Pod of a deleted control plane machine does not  *)
(* go before kubeadm reset has run in it.                                  *)
ResetBeforePodGoes ==
  [][input.controlPlane /\ ~clusterDeleting /\ km.deleting /\ boot /\ ~reset => boot']_vars

(* The comment on the Secret's ownership test: a machine boots only with a *)
(* cloud-init Secret that it controls.                                     *)
BootsFromOwnSecret == [][~boot /\ boot' => secret = "self"]_vars

-----------------------------------------------------------------------------
(* The lifecycle that others see, and that this specification implements.  *)

Stage ==
  CASE ~km.exists -> "gone"
    [] km.exists /\ km.ready -> "running"
    [] km.exists /\ ~km.ready /\ km.providerID -> "provisioned"
    [] OTHER -> "pending"

Lifecycle ==
  INSTANCE MachineLifecycle
    WITH stage <- Stage, failed <- km.failed, terminating <- km.deleting,
         builds <- created, rebuildable <- input.allowRecreation

(* Whatever caches, retries, lost answers and crashes do, the Machine      *)
(* controller sees a machine that follows MachineLifecycle: a provider ID  *)
(* only for a Pod that was built, Ready only after the provider ID and     *)
(* taken back only for a rebuild, no second Pod behind its back, a failure *)
(* that stays, and an object that does not come back.  (Where somebody     *)
(* else's Pod has the name, a copy that has missed the failure may still   *)
(* build one when that Pod goes.)                                          *)
ImplementsLifecycle == Lifecycle!Spec
=============================================================================
