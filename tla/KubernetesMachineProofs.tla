----------------------- MODULE KubernetesMachineProofs -----------------------
(* Proofs about KubernetesMachine, for every value of its constants.       *)
EXTENDS KubernetesMachine, TLAPS

-----------------------------------------------------------------------------
(* The inductive invariant behind NoReplacementOnceReady and ReadyIsBacked *)

Acting == pc # "idle"

(* The cache notices that the machine is gone after it is.                 *)
CacheTrailsExistence == (km.exists => cKM.exists) /\ (Acting /\ km.exists => before.exists)

(* The provider ID is never taken back, so whoever has seen it can rely on *)
(* it: the reconciliation on its copy, the copy on the cache, the cache on *)
(* the API server.                                                         *)
ProviderIDIsStable ==
  /\ cKM.providerID => (km.exists => km.providerID)
  /\ Acting /\ before.providerID => after.providerID /\ (cKM.exists => cKM.providerID)

(* Ready was decided by a reconciliation that had read the provider ID     *)
(* from the cache, and after the Node had been patched.                    *)
ReadyFollowsProviderID ==
  /\ km.ready => km.exists /\ km.providerID /\ cKM.providerID /\ node = "provided"
  /\ cKM.ready => cKM.providerID /\ node = "provided"
  /\ Acting /\ km.ready => before.providerID
  /\ Acting /\ before.ready => before.providerID
  /\ Acting /\ after.ready => before.providerID /\ node = "provided"

(* The steps of a reconciliation that has found its Pod and provider ID.   *)
AfterTheRead == {"createPVCs", "createSecret", "deletePod", "enable", "setProviderID"}

(* A Pod is created only by a reconciliation that saw no provider ID, and  *)
(* the steps that lead to Ready are taken only by one that did.            *)
StepsFollowProviderID ==
  /\ pc = "createPod" /\ ~input.allowRecreation => ~before.providerID
  /\ pc \in AfterTheRead => before.providerID

ReadyInv ==
  /\ TypeOK
  /\ CacheTrailsExistence
  /\ ProviderIDIsStable
  /\ ReadyFollowsProviderID
  /\ StepsFollowProviderID

-----------------------------------------------------------------------------
(* The objects and the pure parts of the reconciler.                       *)

(* The fields of a KubernetesMachine have their types.                     *)
LEMMA MachineFields ==
  ASSUME NEW STATE k, k \in Machines
  PROVE  /\ k.exists \in BOOLEAN /\ k.deleting \in BOOLEAN /\ k.fins \subseteq Finalizers
         /\ k.providerID \in BOOLEAN /\ k.ready \in BOOLEAN /\ k.failed \in BOOLEAN
         /\ k.phase \in Phases /\ k.version \in BOOLEAN
BY DEF Machines

(* reconcilePhase keeps a KubernetesMachine well-formed.                   *)
LEMMA ReconcilePhaseType ==
  ASSUME NEW STATE k, k \in Machines
  PROVE  reconcilePhase(k) \in Machines
BY DEF Machines, reconcilePhase, Phases

(* reconcilePhase touches nothing but Status.Phase.                        *)
LEMMA ReconcilePhaseKeeps ==
  ASSUME NEW STATE k, k \in Machines
  PROVE  /\ reconcilePhase(k).exists = k.exists /\ reconcilePhase(k).deleting = k.deleting
         /\ reconcilePhase(k).fins = k.fins /\ reconcilePhase(k).providerID = k.providerID
         /\ reconcilePhase(k).ready = k.ready /\ reconcilePhase(k).failed = k.failed
BY DEF Machines, reconcilePhase

(* The assignments of the reconciler to finalizers, failure, Ready and     *)
(* version leave a well-formed KubernetesMachine.                          *)
LEMMA SettersType ==
  ASSUME NEW STATE k, k \in Machines, NEW STATE b, b \in BOOLEAN
  PROVE  /\ reconcileVersion(k) \in Machines
         /\ SetFailure(k) \in Machines
         /\ AddFinalizers(k) \in Machines
         /\ RemoveFinalizer(k) \in Machines
         /\ SetReady(k, b) \in Machines
         /\ [k EXCEPT !.providerID = TRUE] \in Machines
BY DEF Machines, reconcileVersion, SetFailure, AddFinalizers, RemoveFinalizer, SetReady

(* The objects that are created, absent or taken by others are well-       *)
(* formed.                                                                 *)
LEMMA ObjectsType ==
  /\ NewMachine \in Machines /\ GoneMachine \in Machines
  /\ NoPod \in Pods /\ ForeignPod \in Pods
  /\ \A n \in Nat : NewPod(n) \in Pods
<1>1. NewMachine \in Machines
  BY DEF Machines, Phases, NewMachine
<1>2. GoneMachine \in Machines
  BY <1>1 DEF Machines, GoneMachine
<1>3. NoPod \in Pods /\ ForeignPod \in Pods
  BY DEF Pods, Owners, ContainerStates, NoPod, ForeignPod
<1>4. \A n \in Nat : NewPod(n) \in Pods
  BY DEF Pods, Owners, ContainerStates, NewPod
<1> QED BY <1>1, <1>2, <1>3, <1>4

(* The API server's removal of an object leaves a well-formed one.         *)
LEMMA SettleType == ASSUME NEW STATE k, k \in Machines PROVE Settle(k) \in Machines
BY ObjectsType DEF Settle

(* A merge patch of well-formed objects gives a well-formed object.        *)
LEMMA MergeType ==
  ASSUME TypeOK
  PROVE  MergeSpec(km) \in Machines /\ MergeStatus(km) \in Machines
BY ZenonT(60) DEF TypeOK, MergeSpec, MergeStatus, Sent, Machines

-----------------------------------------------------------------------------
(* Type correctness.                                                       *)

(* A reconciliation that returns leaves well-typed locals for the patch.   *)
LEMMA ReturnType ==
  ASSUME NEW STATE k, k \in Machines, NEW STATE e, e \in BOOLEAN, Return(k, e)
  PROVE  after' \in Machines /\ pc' \in Steps /\ rerr' \in BOOLEAN /\ seen' \in Pods
BY ReconcilePhaseType, ObjectsType DEF Return, Steps

(* A reconciliation that makes its first live call leaves well-typed       *)
(* locals.                                                                 *)
LEMMA CallType ==
  ASSUME TypeOK, NEW STATE k, k \in Machines, NEW s \in Steps, Call(s, k)
  PROVE  after' \in Machines /\ pc' \in Steps /\ rerr' \in BOOLEAN /\ seen' \in Pods
BY DEF Call, TypeOK

(* reconcileNormal leaves well-typed locals on each of its paths.          *)
LEMMA NormalType ==
  ASSUME TypeOK, reconcileNormal
  PROVE  after' \in Machines /\ pc' \in Steps /\ rerr' \in BOOLEAN /\ seen' \in Pods
<1> DEFINE k0 == reconcileVersion(cKM)
           k == AddFinalizers(k0)
<1>1. k0 \in Machines
  BY SettersType DEF TypeOK
<1>2. k \in Machines
  BY <1>1, SettersType
<1>3. /\ SetReady(k, FALSE) \in Machines /\ SetFailure(k) \in Machines
      /\ [k EXCEPT !.providerID = TRUE] \in Machines
  BY <1>2, SettersType
<1> HIDE DEF k
<1>4. CASE NormalFailed(k0)
  BY <1>1, <1>4, ReturnType DEF NormalFailed
<1> HIDE DEF k0
<1>5. CASE NormalAwaitBootstrap(k)
  BY <1>2, <1>5, ReturnType DEF NormalAwaitBootstrap
<1>6. CASE NormalPodNotFound(k)
  BY <1>2, <1>3, <1>6, ReturnType, CallType DEF NormalPodNotFound, Steps
<1>7. CASE NormalPodFound(k)
  BY <1>2, <1>3, <1>7, ReturnType, CallType DEF NormalPodFound, Steps
<1> QED
  BY <1>4, <1>5, <1>6, <1>7 DEF reconcileNormal, k, k0

(* reconcileDelete leaves well-typed locals on each of its paths.          *)
LEMMA DeleteType ==
  ASSUME TypeOK, reconcileDelete
  PROVE  after' \in Machines /\ pc' \in Steps /\ rerr' \in BOOLEAN /\ seen' \in Pods
<1> DEFINE k == reconcileVersion(cKM)
<1>1. k \in Machines
  BY SettersType DEF TypeOK
<1>2. RemoveFinalizer(k) \in Machines
  BY <1>1, SettersType
<1>3. SetFailure(RemoveFinalizer(k)) \in Machines
  BY <1>2, SettersType
<1> HIDE DEF k
<1> QED
  BY <1>1, <1>2, <1>3, ReturnType, CallType DEF reconcileDelete, Steps, k

(* What a reconciliation decides from the caches keeps all types.          *)
LEMMA ReconcileTypeOK == TypeOK /\ Reconcile => TypeOK'
<1> SUFFICES ASSUME TypeOK, Reconcile PROVE TypeOK'
  OBVIOUS
<1>1. Take
  BY DEF Reconcile, ReconcileNotFound, AwaitOwner, AwaitCluster, AwaitKubernetesCluster,
         AwaitInfrastructure, reconcileNormal, reconcileDelete, Dispatch, Fetch
<1>2. /\ before' \in Machines /\ after' \in Machines /\ pc' \in Steps
      /\ rerr' \in BOOLEAN /\ seen' \in Pods
  <2>1. CASE ReconcileNotFound
    BY <2>1 DEF ReconcileNotFound, TypeOK, local
  <2>2. CASE AwaitOwner
    BY <2>2, ReturnType DEF AwaitOwner, Fetch, TypeOK
  <2>3. CASE AwaitCluster \/ AwaitKubernetesCluster \/ AwaitInfrastructure
    <3>1. reconcileVersion(cKM) \in Machines
      BY SettersType DEF TypeOK
    <3> QED
      BY <2>3, <3>1, ReturnType
      DEF AwaitCluster, AwaitKubernetesCluster, AwaitInfrastructure, Dispatch, Fetch, TypeOK
  <2>4. CASE reconcileNormal
    BY <2>4, NormalType DEF reconcileNormal, Dispatch, Fetch, TypeOK
  <2>5. CASE reconcileDelete
    BY <2>5, DeleteType DEF reconcileDelete, Dispatch, Fetch, TypeOK
  <2> QED
    BY <2>1, <2>2, <2>3, <2>4, <2>5 DEF Reconcile
<1> QED
  BY <1>1, <1>2 DEF Take, TypeOK, server, cache, others

(* The count of faults stays within its bound.                             *)
LEMMA FaultType ==
  ASSUME TypeOK, NEW x, Fault(x)
  PROVE  faults' \in 0 .. MaxFaults
BY BoundsAssumption DEF TypeOK, Fault

(* The same for a call, however it ends.                                   *)
LEMMA OutcomeType ==
  ASSUME TypeOK, NEW o, Outcome(o)
  PROVE  faults' \in 0 .. MaxFaults
BY FaultType DEF Outcome, TypeOK

(* The same for an exec.                                                   *)
LEMMA ExecOutcomeType ==
  ASSUME TypeOK, NEW o, ExecOutcome(o)
  PROVE  faults' \in 0 .. MaxFaults
BY OutcomeType DEF ExecOutcome, TypeOK

(* Going on to the next live call keeps the locals well-typed.             *)
LEMMA ProceedType ==
  ASSUME TypeOK, NEW s \in Steps, Proceed(s)
  PROVE  after' \in Machines /\ pc' \in Steps /\ rerr' \in BOOLEAN /\ seen' \in Pods
BY DEF Proceed, TypeOK

(* Each live call of the reconciler keeps all types.                       *)
LEMMA CallsTypeOK ==
  TypeOK /\ (\/ createMachinePod \/ createPersistentVolumeClaims \/ createSecret \/ deletePod
             \/ enableBoostrapProcess \/ setNodeProviderID \/ kubeadmReset
             \/ ExecHangs \/ ExecEnds \/ KubectlHangs \/ KubectlEnds) => TypeOK'
<1> USE DEF Step, cache, others
<1>0. ASSUME TypeOK
      PROVE  /\ after \in Machines /\ SetFailure(after) \in Machines
             /\ RemoveFinalizer(after) \in Machines /\ SetReady(after, TRUE) \in Machines
  BY <1>0, SettersType DEF TypeOK
<1>1. ASSUME TypeOK, createMachinePod PROVE TypeOK'
  <2>1. PICK o \in Outcomes :
          /\ Outcome(o)
          /\ \/ /\ pod' = NewPod(created) /\ created' = created + 1
                /\ boot' = FALSE /\ reset' = FALSE
                /\ Return(after, o # "ok")
             \/ UNCHANGED <<pod, created, boot, reset>> /\ Return(after, TRUE)
    BY <1>1 DEF createMachinePod
  <2>2. pod' \in Pods /\ created' \in Nat /\ boot' \in BOOLEAN /\ reset' \in BOOLEAN
    <3>1. created \in Nat /\ pod \in Pods /\ NewPod(created) \in Pods
      BY <1>1, ObjectsType DEF TypeOK
    <3>2. CASE /\ pod' = NewPod(created) /\ created' = created + 1
               /\ boot' = FALSE /\ reset' = FALSE
      <4>1. created' \in Nat
        BY <3>1, <3>2
      <4>2. pod' \in Pods /\ boot' \in BOOLEAN /\ reset' \in BOOLEAN
        BY <3>1, <3>2, Zenon
      <4> QED BY <4>1, <4>2
    <3>3. CASE UNCHANGED <<pod, created, boot, reset>>
      BY <1>1, <3>3 DEF TypeOK
    <3> QED BY <2>1, <3>2, <3>3
  <2>3. after' \in Machines /\ pc' \in Steps /\ rerr' \in BOOLEAN /\ seen' \in Pods
    <3>1. Return(after, TRUE) \/ Return(after, FALSE)
      BY <2>1
    <3> QED BY <1>0, <1>1, <3>1, ReturnType
  <2> QED
    BY <1>1, <2>1, <2>2, <2>3, OutcomeType DEF createMachinePod, TypeOK
<1>2. ASSUME TypeOK, createPersistentVolumeClaims PROVE TypeOK'
  <2>1. /\ faults' \in 0 .. MaxFaults /\ pvcs' \subseteq Claims /\ queued' \in BOOLEAN
        /\ known' \subseteq Prereqs
    BY <1>2, FaultType DEF createPersistentVolumeClaims, TypeOK
  <2>2. Return(after, TRUE) \/ Return(after, FALSE) \/ Proceed("createSecret")
    BY <1>2 DEF createPersistentVolumeClaims
  <2>3. after' \in Machines /\ pc' \in Steps /\ rerr' \in BOOLEAN /\ seen' \in Pods
    BY <1>0, <1>2, <2>2, ReturnType, ProceedType DEF Steps
  <2> QED
    BY <1>2, <2>1, <2>3 DEF createPersistentVolumeClaims, TypeOK
<1>3. ASSUME TypeOK, createSecret PROVE TypeOK'
  <2>1. faults' \in 0 .. MaxFaults /\ secret' \in Owners /\ queued' \in BOOLEAN
    BY <1>3, OutcomeType DEF createSecret, TypeOK, Owners, Enqueue
  <2>2. after' \in Machines /\ pc' \in Steps /\ rerr' \in BOOLEAN /\ seen' \in Pods
    BY <1>0, <1>3, ReturnType, ProceedType DEF createSecret, Steps
  <2> QED
    BY <1>3, <2>1, <2>2 DEF createSecret, TypeOK
<1>4. ASSUME TypeOK, deletePod PROVE TypeOK'
  <2>1. faults' \in 0 .. MaxFaults /\ pod' \in Pods
    BY <1>4, OutcomeType DEF deletePod, TypeOK, Pods
  <2>2. after' \in Machines /\ pc' \in Steps /\ rerr' \in BOOLEAN /\ seen' \in Pods
    BY <1>0, <1>4, ReturnType DEF deletePod
  <2> QED
    BY <1>4, <2>1, <2>2 DEF deletePod, TypeOK
<1>5. ASSUME TypeOK, enableBoostrapProcess PROVE TypeOK'
  <2>1. faults' \in 0 .. MaxFaults /\ boot' \in BOOLEAN
    BY <1>5, ExecOutcomeType DEF enableBoostrapProcess, TypeOK
  <2>2. after' \in Machines /\ pc' \in Steps /\ rerr' \in BOOLEAN /\ seen' \in Pods
    BY <1>0, <1>5, ReturnType, ProceedType DEF enableBoostrapProcess, Steps
  <2> QED
    BY <1>5, <2>1, <2>2 DEF enableBoostrapProcess, TypeOK
<1>6. ASSUME TypeOK, setNodeProviderID PROVE TypeOK'
  <2>1. faults' \in 0 .. MaxFaults /\ node' \in {"absent", "joined", "provided"}
    BY <1>6, OutcomeType, FaultType DEF setNodeProviderID, PatchedNode, TypeOK
  <2>2. after' \in Machines /\ pc' \in Steps /\ rerr' \in BOOLEAN /\ seen' \in Pods
    BY <1>0, <1>6, ReturnType DEF setNodeProviderID
  <2> QED
    BY <1>6, <2>1, <2>2 DEF setNodeProviderID, TypeOK
<1>7. ASSUME TypeOK, kubeadmReset PROVE TypeOK'
  <2>1. faults' \in 0 .. MaxFaults /\ reset' \in BOOLEAN
    BY <1>7, ExecOutcomeType DEF kubeadmReset, TypeOK
  <2>2. after' \in Machines /\ pc' \in Steps /\ rerr' \in BOOLEAN /\ seen' \in Pods
    BY <1>0, <1>7, ReturnType DEF kubeadmReset
  <2> QED
    BY <1>7, <2>1, <2>2 DEF kubeadmReset, TypeOK
<1>8. ASSUME TypeOK, ExecHangs PROVE TypeOK'
  <2>1. faults' \in 0 .. MaxFaults /\ boot' \in BOOLEAN /\ reset' \in BOOLEAN /\ pc' \in Steps
    BY <1>8, FaultType DEF ExecHangs, TypeOK, Steps
  <2> QED
    BY <1>8, <2>1 DEF ExecHangs, TypeOK
<1>9. ASSUME TypeOK, ExecEnds PROVE TypeOK'
  <2>1. after' \in Machines /\ pc' \in Steps /\ rerr' \in BOOLEAN /\ seen' \in Pods
    BY <1>0, <1>9, ReturnType DEF ExecEnds
  <2> QED
    BY <1>9, <2>1 DEF ExecEnds, TypeOK, server
<1>10. ASSUME TypeOK, KubectlHangs PROVE TypeOK'
  <2>1. faults' \in 0 .. MaxFaults /\ node' \in {"absent", "joined", "provided"} /\ pc' \in Steps
    BY <1>10, FaultType DEF KubectlHangs, PatchedNode, TypeOK, Steps
  <2> QED
    BY <1>10, <2>1 DEF KubectlHangs, TypeOK
<1>11. ASSUME TypeOK, KubectlEnds PROVE TypeOK'
  <2>1. after' \in Machines /\ pc' \in Steps /\ rerr' \in BOOLEAN /\ seen' \in Pods
    BY <1>0, <1>11, ReturnType DEF KubectlEnds
  <2> QED
    BY <1>11, <2>1 DEF KubectlEnds, TypeOK, server
<1> QED
  BY <1>1, <1>2, <1>3, <1>4, <1>5, <1>6, <1>7, <1>8, <1>9, <1>10, <1>11

(* The two deferred patches, and a crash before or between them, keep all  *)
(* types.                                                                  *)
LEMMA PatchesTypeOK == TypeOK /\ (Patch \/ PatchStatus \/ Crash) => TypeOK'
<1> USE DEF Step, cache, others, server
<1>1. ASSUME TypeOK, Patch PROVE TypeOK'
  <2>1. km' \in Machines
    BY <1>1, MergeType, SettleType DEF Patch, TypeOK
  <2>2. faults' \in 0 .. MaxFaults /\ rerr' \in BOOLEAN
    BY <1>1, OutcomeType DEF Patch, TypeOK
  <2> QED
    BY <1>1, <2>1, <2>2 DEF Patch, TypeOK, Steps
<1>2. ASSUME TypeOK, PatchStatus PROVE TypeOK'
  <2>1. km' \in Machines
    BY <1>2, MergeType DEF PatchStatus, TypeOK
  <2>2. faults' \in 0 .. MaxFaults /\ queued' \in BOOLEAN
    BY <1>2, OutcomeType DEF PatchStatus, TypeOK
  <2> QED
    BY <1>2, <2>1, <2>2, ObjectsType DEF PatchStatus, Forget, TypeOK, Steps
<1>3. ASSUME TypeOK, Crash PROVE TypeOK'
  BY <1>3, FaultType, ObjectsType DEF Crash, Forget, Enqueue, TypeOK, Steps
<1> QED
  BY <1>1, <1>2, <1>3

(* So do the watches, the users, the garbage collector and the kubelet.    *)
LEMMA DeletionTypeOK == ASSUME TypeOK, NEW p, DeleteMachine(p) PROVE TypeOK'
<1> USE DEF cache, others, server, local
<1>1. [km EXCEPT !.deleting = TRUE,
                 !.fins = IF p = "background" THEN @ \ {"foreground"} ELSE @] \in Machines
  BY DEF TypeOK, Machines
<1>2. km' \in Machines
  BY <1>1, SettleType DEF DeleteMachine
<1> QED BY <1>2 DEF DeleteMachine, TypeOK

LEMMA EnvironmentTypeOK ==
  TypeOK /\ (\/ Watches \/ Resync \/ (\E x \in Prereqs : Provide(x)) \/ Users
             \/ GarbageCollector \/ Kubelet \/ NodeJoins
             \/ PodLost \/ KindTerminates \/ PodUnready \/ ForeignComes \/ ForeignGoes) => TypeOK'
<1> USE DEF cache, others, server, local, Enqueue, PodChanges
<1>1. ASSUME TypeOK, Watches \/ Resync \/ (\E x \in Prereqs : Provide(x)) PROVE TypeOK'
  <2>1. CASE Watches
    BY <1>1, <2>1, ObjectsType DEF Watches, SyncKM, SyncPod, TypeOK
  <2>2. CASE Resync
    BY <1>1, <2>2 DEF Resync, TypeOK
  <2>3. CASE \E x \in Prereqs : Provide(x)
    BY <1>1, <2>3 DEF Provide, TypeOK
  <2> QED BY <1>1, <2>1, <2>2, <2>3
<1>2. ASSUME TypeOK, Users PROVE TypeOK'
  <2>1. ASSUME NEW p, DeleteMachine(p) PROVE TypeOK'
    BY <1>2, <2>1, DeletionTypeOK
  <2>2. CASE DeleteCluster \/ Pause \/ Unpause
    BY <1>2, <2>2, FaultType DEF DeleteCluster, Pause, Unpause, TypeOK
  <2> QED BY <1>2, <2>1, <2>2 DEF Users
<1>3. ASSUME TypeOK, GarbageCollector PROVE TypeOK'
  <2>1. CASE CollectPod
    BY <1>3, <2>1 DEF CollectPod, TypeOK, Pods
  <2>2. CASE CollectSecret \/ CollectClaims
    BY <1>3, <2>2 DEF CollectSecret, CollectClaims, TypeOK, Owners
  <2>3. CASE CollectMachine
    <3>1. [km EXCEPT !.fins = @ \ {"foreground"}] \in Machines
      BY <1>3 DEF TypeOK, Machines
    <3>2. km' \in Machines
      BY <2>3, <3>1, SettleType DEF CollectMachine
    <3> QED BY <1>3, <2>3, <3>2 DEF CollectMachine, TypeOK
  <2> QED BY <1>3, <2>1, <2>2, <2>3 DEF GarbageCollector
<1>4. ASSUME TypeOK, Kubelet \/ NodeJoins PROVE TypeOK'
  <2>1. CASE KubeletStarts
    BY <1>4, <2>1 DEF KubeletStarts, TypeOK, Pods, ContainerStates
  <2>2. CASE KubeletRemoves
    BY <1>4, <2>2, ObjectsType DEF KubeletRemoves, PodGoes, TypeOK
  <2>3. CASE NodeJoins
    BY <1>4, <2>3 DEF NodeJoins, TypeOK
  <2> QED BY <1>4, <2>1, <2>2, <2>3 DEF Kubelet
<1>5. ASSUME TypeOK, PodLost \/ KindTerminates \/ PodUnready PROVE TypeOK'
  <2>1. faults' \in 0 .. MaxFaults
    BY <1>5, FaultType DEF PodLost, KindTerminates, PodUnready
  <2>2. pod' \in Pods
    <3>1. CASE pod' = NoPod
      BY <3>1, ObjectsType
    <3>2. CASE pod' # NoPod
      BY <1>5, <3>2 DEF PodLost, KindTerminates, PodUnready, PodGoes, TypeOK, Pods, ContainerStates
    <3> QED BY <3>1, <3>2
  <2> QED
    BY <1>5, <2>1, <2>2 DEF PodLost, KindTerminates, PodUnready, PodGoes, TypeOK
<1>6. ASSUME TypeOK, ForeignComes \/ ForeignGoes PROVE TypeOK'
  BY <1>6, ObjectsType, ZenonT(60) DEF ForeignComes, ForeignGoes, PodGoes, TypeOK, Owners
<1> QED
  BY <1>1, <1>2, <1>3, <1>4, <1>5, <1>6

(* The initial states are well-typed.                                      *)
LEMMA InitTypeOK == Init => TypeOK
<1> SUFFICES ASSUME Init PROVE TypeOK
  OBVIOUS
<1>1. /\ km \in Machines /\ cKM \in Machines /\ before \in Machines /\ after \in Machines
      /\ pod \in Pods /\ cPod \in Pods /\ seen \in Pods
  BY ObjectsType DEF Init
<1>2. /\ secret \in Owners /\ pvcs \subseteq Claims /\ input \in Inputs
      /\ given \subseteq Prereqs /\ known \subseteq Prereqs
  BY GivenAssumption DEF Init, Owners
<1>3. created \in Nat /\ faults \in 0 .. MaxFaults
  BY BoundsAssumption DEF Init
<1>4. /\ boot \in BOOLEAN /\ reset \in BOOLEAN /\ paused \in BOOLEAN
      /\ clusterDeleting \in BOOLEAN /\ rerr \in BOOLEAN /\ queued \in BOOLEAN
      /\ node \in {"absent", "joined", "provided"} /\ pc \in Steps
  BY DEF Init, Steps
<1> QED
  BY <1>1, <1>2, <1>3, <1>4 DEF TypeOK

(* The machine among others: they may also take away what they have        *)
(* provided, or delete the machine at any time and in any way.  The safety *)
(* proofs do not depend on the others being as orderly as in Spec, so they *)
(* also hold in Provider.                                                  *)
Withdraw ==
  /\ given' \subseteq given /\ queued' \in BOOLEAN
  /\ UNCHANGED <<server, cache, paused, clusterDeleting, input, local, created, faults>>

OpenNext == Next \/ (\E p : DeleteMachine(p)) \/ Withdraw

OpenSpec == Init /\ [][OpenNext]_vars

(* The specification has no other steps than these.                        *)
LEMMA NextIsOpen == [Next]_vars => [OpenNext]_vars
BY DEF OpenNext

LEMMA SpecIsOpen == Spec => OpenSpec
BY NextIsOpen, PTL DEF Spec, OpenSpec

(* Every step keeps all types.                                             *)
LEMMA NextTypeOK == TypeOK /\ [OpenNext]_vars => TypeOK'
<1>1. ASSUME TypeOK, Next PROVE TypeOK'
  BY <1>1, ReconcileTypeOK, CallsTypeOK, PatchesTypeOK, EnvironmentTypeOK
  DEF Next, Controller, Faults
<1>2. ASSUME TypeOK, Withdraw PROVE TypeOK'
  BY <1>2 DEF TypeOK, Withdraw, server, cache, local
<1>3. ASSUME TypeOK, UNCHANGED vars PROVE TypeOK'
  BY <1>3 DEF TypeOK, vars, server, cache, others, local
<1> QED
  BY <1>1, <1>2, <1>3, DeletionTypeOK DEF OpenNext

(* Every variable keeps its type, whatever fails and in whatever order the *)
(* controller, the caches and the other actors move.                       *)
LEMMA OpenTypeCorrect == OpenSpec => []TypeOK
BY InitTypeOK, NextTypeOK, PTL DEF OpenSpec

(* The same of the specification.                                          *)
THEOREM TypeCorrect == Spec => []TypeOK
BY OpenTypeCorrect, SpecIsOpen, PTL

-----------------------------------------------------------------------------
(* Ready and the provider ID.                                              *)

(* No assignment of the reconciler but its own touches the provider ID,    *)
(* Ready or the existence of the KubernetesMachine.                        *)
LEMMA SettersKeep ==
  ASSUME NEW STATE k, k \in Machines
  PROVE  /\ reconcileVersion(k).providerID = k.providerID
         /\ reconcileVersion(k).ready = k.ready /\ reconcileVersion(k).failed = k.failed
         /\ SetFailure(k).providerID = k.providerID /\ SetFailure(k).ready = k.ready
         /\ AddFinalizers(k).providerID = k.providerID /\ AddFinalizers(k).ready = k.ready
         /\ RemoveFinalizer(k).providerID = k.providerID /\ RemoveFinalizer(k).ready = k.ready
         /\ SetReady(k, FALSE).providerID = k.providerID /\ SetReady(k, FALSE).ready = FALSE
         /\ SetReady(k, TRUE).providerID = k.providerID /\ SetReady(k, TRUE).ready = TRUE
         /\ [k EXCEPT !.providerID = TRUE].providerID = TRUE
         /\ [k EXCEPT !.providerID = TRUE].ready = k.ready
BY DEF Machines, reconcileVersion, SetFailure, AddFinalizers, RemoveFinalizer, SetReady

(* A machine that is gone is neither ready nor has a provider ID.          *)
LEMMA GoneFields ==
  ~GoneMachine.exists /\ ~GoneMachine.ready /\ ~GoneMachine.providerID /\ ~GoneMachine.deleting
BY DEF GoneMachine, NewMachine

(* What a reconciliation that returns, or makes its first call, has        *)
(* decided about the provider ID and about Ready.                          *)
LEMMA ReturnKeeps ==
  ASSUME NEW STATE k, k \in Machines, NEW STATE e, Return(k, e)
  PROVE  pc' = "patch" /\ after'.providerID = k.providerID /\ after'.ready = k.ready
BY ReconcilePhaseKeeps DEF Return

(* The first live call starts from the copy that was decided upon.         *)
LEMMA CallKeeps ==
  ASSUME NEW STATE k, k \in Machines, NEW s, Call(s, k)
  PROVE  pc' = s /\ after'.providerID = k.providerID /\ after'.ready = k.ready
BY DEF Call

(* What a reconciliation has decided when it makes its first call.         *)
Decided ==
  /\ before' = cKM
  /\ cKM.providerID => after'.providerID
  /\ after'.ready => cKM.ready
  /\ \/ pc' \in {"patch", "reset"}
     \/ pc' = "createPod" /\ (~input.allowRecreation => ~cKM.providerID)
     \/ pc' = "createPVCs" /\ cKM.providerID

(* reconcileNormal creates a Pod only without a provider ID, unless        *)
(* recreation is allowed, and goes on to the later steps only with one.    *)
LEMMA NormalDecides == ASSUME TypeOK, reconcileNormal PROVE Decided
<1> DEFINE k0 == reconcileVersion(cKM)
           k == AddFinalizers(k0)
<1>1. k0 \in Machines /\ k0.providerID = cKM.providerID /\ k0.ready = cKM.ready
  BY SettersType, SettersKeep DEF TypeOK
<1>2. k \in Machines /\ k.providerID = cKM.providerID /\ k.ready = cKM.ready
  BY <1>1, SettersType, SettersKeep
<1>3. before' = cKM
  BY DEF reconcileNormal, Dispatch, Fetch
<1>4. NormalFailed(k0) \/ NormalAwaitBootstrap(k) \/ NormalPodNotFound(k) \/ NormalPodFound(k)
  BY DEF reconcileNormal
<1> HIDE DEF k, k0
<1>5. CASE NormalFailed(k0)
  <2>1. Return(k0, FALSE)
    BY <1>5 DEF NormalFailed
  <2> QED BY <1>1, <1>3, <2>1, ReturnKeeps DEF Decided
<1>6. CASE NormalAwaitBootstrap(k)
  <2>1. Return(k, FALSE)
    BY <1>6 DEF NormalAwaitBootstrap
  <2> QED BY <1>2, <1>3, <2>1, ReturnKeeps DEF Decided
<1>7. /\ SetReady(k, FALSE) \in Machines /\ SetFailure(k) \in Machines
      /\ [k EXCEPT !.providerID = TRUE] \in Machines
      /\ SetReady(k, FALSE).providerID = cKM.providerID /\ SetReady(k, FALSE).ready = FALSE
      /\ SetFailure(k).providerID = cKM.providerID /\ SetFailure(k).ready = cKM.ready
      /\ [k EXCEPT !.providerID = TRUE].providerID = TRUE
      /\ [k EXCEPT !.providerID = TRUE].ready = cKM.ready
  BY <1>2, SettersType, SettersKeep
<1>8. CASE NormalPodNotFound(k)
  <2>1. CASE Call("createPod", SetReady(k, FALSE)) /\ input.allowRecreation
    BY <1>3, <1>7, <2>1, CallKeeps DEF Decided
  <2>2. CASE Return(SetFailure(k), FALSE)
    BY <1>3, <1>7, <2>2, ReturnKeeps DEF Decided
  <2>3. CASE ~k.providerID /\ Call("createPod", k)
    BY <1>2, <1>3, <2>3, CallKeeps DEF Decided
  <2> QED BY <1>8, <2>1, <2>2, <2>3 DEF NormalPodNotFound
<1>9. CASE NormalPodFound(k)
  <2>1. CASE Return(SetFailure(k), FALSE)
    BY <1>3, <1>7, <2>1, ReturnKeeps DEF Decided
  <2>2. CASE Return([k EXCEPT !.providerID = TRUE], FALSE)
    BY <1>3, <1>7, <2>2, ReturnKeeps DEF Decided
  <2>3. CASE Return(SetReady(k, FALSE), FALSE)
    BY <1>3, <1>7, <2>3, ReturnKeeps DEF Decided
  <2>4. CASE k.providerID /\ Call("createPVCs", k)
    BY <1>2, <1>3, <2>4, CallKeeps DEF Decided
  <2> QED BY <1>9, <2>1, <2>2, <2>3, <2>4 DEF NormalPodFound
<1> QED BY <1>4, <1>5, <1>6, <1>8, <1>9

(* The same of a whole reconciliation up to its first call.                *)
LEMMA ReconcileDecides ==
  ASSUME TypeOK, Reconcile, ~ReconcileNotFound
  PROVE  Decided /\ cKM.exists
<1> DEFINE k == reconcileVersion(cKM)
<1>1. /\ cKM \in Machines /\ k \in Machines
      /\ k.providerID = cKM.providerID /\ k.ready = cKM.ready
  BY SettersType, SettersKeep DEF TypeOK
<1>2. /\ RemoveFinalizer(k) \in Machines
      /\ RemoveFinalizer(k).providerID = cKM.providerID /\ RemoveFinalizer(k).ready = cKM.ready
  BY <1>1, SettersType, SettersKeep
<1>3. /\ SetFailure(RemoveFinalizer(k)) \in Machines
      /\ SetFailure(RemoveFinalizer(k)).providerID = cKM.providerID
      /\ SetFailure(RemoveFinalizer(k)).ready = cKM.ready
  BY <1>2, SettersType, SettersKeep
<1>4. Fetch
  BY DEF Reconcile, AwaitOwner, AwaitCluster, AwaitKubernetesCluster,
         AwaitInfrastructure, reconcileNormal, reconcileDelete, Dispatch
<1>5. CASE AwaitOwner
  <2>1. Return(cKM, FALSE)
    BY <1>5 DEF AwaitOwner
  <2> QED BY <1>1, <1>4, <2>1, ReturnKeeps DEF Decided, Fetch
<1> HIDE DEF k
<1>6. CASE AwaitCluster \/ AwaitKubernetesCluster \/ AwaitInfrastructure
  <2>1. Return(k, TRUE) \/ Return(k, FALSE)
    BY <1>6 DEF AwaitCluster, AwaitKubernetesCluster, AwaitInfrastructure, k
  <2> QED BY <1>1, <1>4, <2>1, ReturnKeeps DEF Decided, Fetch
<1>7. CASE reconcileNormal
  BY <1>4, <1>7, NormalDecides DEF Fetch
<1>8. CASE reconcileDelete
  <2>1. \/ Call("reset", k) \/ Return(SetFailure(RemoveFinalizer(k)), FALSE)
        \/ Return(RemoveFinalizer(k), FALSE)
    BY <1>8 DEF reconcileDelete, k
  <2>2. CASE Call("reset", k)
    BY <1>1, <1>4, <2>2, CallKeeps DEF Decided, Fetch
  <2>3. CASE Return(SetFailure(RemoveFinalizer(k)), FALSE)
    BY <1>3, <1>4, <2>3, ReturnKeeps DEF Decided, Fetch
  <2>4. CASE Return(RemoveFinalizer(k), FALSE)
    BY <1>2, <1>4, <2>4, ReturnKeeps DEF Decided, Fetch
  <2> QED BY <2>1, <2>2, <2>3, <2>4
<1> QED BY <1>5, <1>6, <1>7, <1>8 DEF Reconcile

(* What a live call of a reconciliation may do to them.                    *)
CallEffect ==
  /\ UNCHANGED <<km, cKM, before, input>>
  /\ pc # "idle"
  /\ pc' \in {"patch", "hung", "hungElsewhere"} \/ (pc \in AfterTheRead /\ pc' \in AfterTheRead)
  /\ after'.providerID = after.providerID
  /\ after'.ready => after.ready \/ (pc = "setProviderID" /\ node' = "provided")
  /\ node = "provided" => node' = "provided"

(* What any live call can change of the provider ID, Ready and the Node:   *)
(* Ready is set only after the Node has been patched.                      *)
LEMMA CallsEffect ==
  ASSUME TypeOK,
         \/ createMachinePod \/ createPersistentVolumeClaims \/ createSecret \/ deletePod
         \/ enableBoostrapProcess \/ setNodeProviderID \/ kubeadmReset \/ ExecHangs \/ ExecEnds
         \/ KubectlHangs \/ KubectlEnds
  PROVE  CallEffect
<1> USE DEF Step, cache, others
<1>1. /\ after \in Machines /\ SetFailure(after) \in Machines
      /\ RemoveFinalizer(after) \in Machines /\ SetReady(after, TRUE) \in Machines
      /\ SetFailure(after).providerID = after.providerID
      /\ SetFailure(after).ready = after.ready
      /\ RemoveFinalizer(after).providerID = after.providerID
      /\ RemoveFinalizer(after).ready = after.ready
      /\ SetReady(after, TRUE).providerID = after.providerID
  BY SettersType, SettersKeep DEF TypeOK
<1>2. ASSUME NEW STATE e, Return(after, e) \/ Return(SetFailure(after), e)
                             \/ Return(RemoveFinalizer(after), e)
      PROVE  pc' = "patch" /\ after'.providerID = after.providerID /\ after'.ready = after.ready
  BY <1>1, <1>2, ReturnKeeps
<1>3. CASE createMachinePod
  <2>1. Return(after, TRUE) \/ Return(after, FALSE)
    BY <1>3 DEF createMachinePod
  <2> QED BY <1>2, <1>3, <2>1 DEF createMachinePod, CallEffect
<1>4. CASE createPersistentVolumeClaims
  <2>1. Return(after, TRUE) \/ Return(after, FALSE) \/ Proceed("createSecret")
    BY <1>4 DEF createPersistentVolumeClaims
  <2>2. CASE Return(after, TRUE) \/ Return(after, FALSE)
    BY <1>2, <1>4, <2>2 DEF createPersistentVolumeClaims, CallEffect
  <2>3. CASE Proceed("createSecret")
    BY <1>4, <2>3 DEF createPersistentVolumeClaims, CallEffect, Proceed, AfterTheRead
  <2> QED BY <2>1, <2>2, <2>3
<1>5. CASE createSecret
  <2>1. \/ Return(after, TRUE) \/ Return(after, FALSE) \/ Return(SetFailure(after), FALSE)
        \/ Proceed("deletePod") \/ Proceed("enable")
    BY <1>5 DEF createSecret
  <2>2. CASE Return(after, TRUE) \/ Return(after, FALSE) \/ Return(SetFailure(after), FALSE)
    BY <1>2, <1>5, <2>2 DEF createSecret, CallEffect
  <2>3. CASE Proceed("deletePod") \/ Proceed("enable")
    BY <1>5, <2>3 DEF createSecret, CallEffect, Proceed, AfterTheRead
  <2> QED BY <2>1, <2>2, <2>3
<1>6. CASE deletePod
  <2>1. Return(after, TRUE) \/ Return(after, FALSE)
    BY <1>6 DEF deletePod
  <2> QED BY <1>2, <1>6, <2>1 DEF deletePod, CallEffect
<1>7. CASE enableBoostrapProcess
  <2>1. Return(after, TRUE) \/ Return(after, FALSE) \/ Proceed("setProviderID")
    BY <1>7 DEF enableBoostrapProcess
  <2>2. CASE Return(after, TRUE) \/ Return(after, FALSE)
    BY <1>2, <1>7, <2>2 DEF enableBoostrapProcess, CallEffect
  <2>3. CASE Proceed("setProviderID")
    BY <1>7, <2>3 DEF enableBoostrapProcess, CallEffect, Proceed, AfterTheRead
  <2> QED BY <2>1, <2>2, <2>3
<1>8. CASE setNodeProviderID
  <2>0. /\ UNCHANGED <<km, cKM, before, input>> /\ pc = "setProviderID"
        /\ node = "provided" => node' = "provided"
    BY <1>8 DEF setNodeProviderID, PatchedNode
  <2>1. \/ Return(after, TRUE) \/ Return(after, FALSE)
        \/ Return(SetReady(after, TRUE), FALSE) /\ node' = "provided"
    BY <1>8 DEF setNodeProviderID, nodePatched, PatchedNode, TypeOK
  <2>2. CASE Return(after, TRUE) \/ Return(after, FALSE)
    BY <1>2, <2>0, <2>2 DEF CallEffect
  <2>3. CASE Return(SetReady(after, TRUE), FALSE) /\ node' = "provided"
    <3>1. pc' = "patch" /\ after'.providerID = after.providerID
      BY <1>1, <2>3, ReturnKeeps
    <3> QED BY <2>0, <2>3, <3>1 DEF CallEffect
  <2> QED BY <2>1, <2>2, <2>3
<1>9. CASE kubeadmReset
  <2>1. Return(after, TRUE) \/ Return(RemoveFinalizer(after), FALSE)
    BY <1>9 DEF kubeadmReset
  <2> QED BY <1>2, <1>9, <2>1 DEF kubeadmReset, CallEffect
<1>10. CASE ExecHangs
  BY <1>10 DEF ExecHangs, CallEffect
<1>11. CASE ExecEnds
  BY <1>2, <1>11 DEF ExecEnds, CallEffect, server
<1>12. CASE KubectlHangs
  BY <1>12 DEF KubectlHangs, PatchedNode, CallEffect
<1>13. CASE KubectlEnds
  BY <1>2, <1>13 DEF KubectlEnds, CallEffect, server
<1> QED
  BY <1>3, <1>4, <1>5, <1>6, <1>7, <1>8, <1>9, <1>10, <1>11, <1>12, <1>13

(* The merge patches, and the API server's removal of the object.          *)
LEMMA MergeKeeps ==
  ASSUME TypeOK
  PROVE  /\ MergeSpec(km).exists = km.exists /\ MergeSpec(km).ready = km.ready
         /\ MergeSpec(km).providerID = Sent(after.providerID, before.providerID, km.providerID)
         /\ MergeStatus(km).exists = km.exists
         /\ MergeStatus(km).providerID = km.providerID
         /\ MergeStatus(km).ready = Sent(after.ready, before.ready, km.ready)
BY DEF TypeOK, MergeSpec, MergeStatus, Machines

(* The API server's removal of an object withdraws nothing from one that   *)
(* still exists.                                                           *)
LEMMA SettleKeeps ==
  ASSUME NEW STATE k, k \in Machines
  PROVE  \/ Settle(k) = k
         \/ ~Settle(k).exists /\ ~Settle(k).ready /\ ~Settle(k).providerID
BY GoneFields DEF Settle

-----------------------------------------------------------------------------
(* ReadyInv is inductive.                                                  *)

(* ReadyInv without the types.                                             *)
Links ==
  CacheTrailsExistence /\ ProviderIDIsStable /\ ReadyFollowsProviderID /\ StepsFollowProviderID

(* The links hold initially.                                               *)
LEMMA InitLinks == Init => Links
BY GoneFields
DEF Init, Links, CacheTrailsExistence, ProviderIDIsStable, ReadyFollowsProviderID,
    StepsFollowProviderID, AfterTheRead, Acting, NewMachine, GoneMachine

(* A step that leaves the machine, its copies and the Node alone.          *)
LEMMA FrameLinks ==
  ASSUME Links, UNCHANGED <<km, cKM, before, after, pc, node, input>>
  PROVE  Links'
BY DEF Links, CacheTrailsExistence, ProviderIDIsStable, ReadyFollowsProviderID,
       StepsFollowProviderID, Acting

(* A reconciliation's decisions keep the links.                            *)
LEMMA ReconcileLinks == ASSUME TypeOK, Links, Reconcile PROVE Links'
<1>1. pc = "idle" /\ UNCHANGED <<km, cKM, node, input>>
  BY DEF Reconcile, ReconcileNotFound, AwaitOwner, AwaitCluster, AwaitKubernetesCluster,
         AwaitInfrastructure, reconcileNormal, reconcileDelete, Dispatch, Fetch, Take,
         server, cache, others
<1>2. CASE ReconcileNotFound
  BY <1>1, <1>2, FrameLinks DEF ReconcileNotFound, local
<1>3. CASE ~ReconcileNotFound
  <2>1. Decided /\ cKM.exists
    BY <1>3, ReconcileDecides
  <2> USE DEF Decided
  <2>2. CacheTrailsExistence'
    BY <1>1, <2>1 DEF Links, CacheTrailsExistence
  <2>3. ProviderIDIsStable'
    BY <1>1, <2>1 DEF Links, ProviderIDIsStable
  <2>4. ReadyFollowsProviderID'
    BY <1>1, <2>1 DEF Links, ReadyFollowsProviderID
  <2>5. StepsFollowProviderID'
    BY <1>1, <2>1 DEF Links, StepsFollowProviderID, AfterTheRead
  <2> QED BY <2>2, <2>3, <2>4, <2>5 DEF Links
<1> QED BY <1>2, <1>3

(* A live call keeps the links.                                            *)
LEMMA CallLinks == ASSUME TypeOK, Links, CallEffect PROVE Links'
<1> USE DEF CallEffect, Links, Acting
<1>1. CacheTrailsExistence'
  BY DEF CacheTrailsExistence
<1>2. ProviderIDIsStable'
  BY DEF ProviderIDIsStable
<1>3. ReadyFollowsProviderID'
  BY DEF ReadyFollowsProviderID, StepsFollowProviderID, AfterTheRead
<1>4. StepsFollowProviderID'
  BY DEF StepsFollowProviderID, AfterTheRead
<1> QED BY <1>1, <1>2, <1>3, <1>4

(* The spec patch keeps the links: a provider ID is added, never removed.  *)
LEMMA PatchLinks == ASSUME TypeOK, Links, Patch PROVE Links'
<1>1. /\ pc = "patch" /\ pc' = "patchStatus"
      /\ UNCHANGED <<cKM, before, after, node, input>>
  BY DEF Patch, Step, cache, others
<1>2. \/ km' = km
      \/ ~km'.exists /\ ~km'.ready /\ ~km'.providerID
      \/ /\ km'.exists = km.exists /\ km'.ready = km.ready
         /\ km'.providerID = Sent(after.providerID, before.providerID, km.providerID)
  BY MergeKeeps, MergeType, SettleKeeps DEF Patch
<1>3. km.providerID /\ km'.exists => km'.providerID
  <2>1. before.providerID => after.providerID
    BY <1>1 DEF Links, ProviderIDIsStable, Acting
  <2>2. /\ before.providerID \in BOOLEAN /\ after.providerID \in BOOLEAN
        /\ km.providerID \in BOOLEAN
    BY MachineFields DEF TypeOK
  <2> QED BY <1>2, <2>1, <2>2 DEF Sent
<1>4. CacheTrailsExistence'
  BY <1>1, <1>2 DEF Links, CacheTrailsExistence, Acting
<1>5. ProviderIDIsStable'
  BY <1>1, <1>2, <1>3 DEF Links, ProviderIDIsStable, Acting
<1>6. ReadyFollowsProviderID'
  BY <1>1, <1>2, <1>3 DEF Links, ReadyFollowsProviderID, Acting
<1>7. StepsFollowProviderID'
  BY <1>1 DEF StepsFollowProviderID, AfterTheRead
<1> QED BY <1>4, <1>5, <1>6, <1>7 DEF Links

(* The status patch keeps the links: Ready is set only by a copy that had  *)
(* the provider ID.                                                        *)
LEMMA PatchStatusLinks == ASSUME TypeOK, Links, PatchStatus PROVE Links'
<1>1. pc = "patchStatus" /\ pc' = "idle" /\ UNCHANGED <<cKM, node, input>>
  BY DEF PatchStatus, Forget, cache, others
<1>2. \/ km' = km
      \/ /\ km.exists /\ km'.exists = km.exists /\ km'.providerID = km.providerID
         /\ km'.ready = Sent(after.ready, before.ready, km.ready)
  BY MergeKeeps DEF PatchStatus
<1>3. km'.ready => km.ready \/ (km.exists /\ after.ready)
  BY <1>2 DEF Sent
<1>4. CacheTrailsExistence' /\ ProviderIDIsStable'
  BY <1>1, <1>2 DEF Links, CacheTrailsExistence, ProviderIDIsStable, Acting
<1>5. ReadyFollowsProviderID'
  <2>1. CASE km'.ready /\ ~km.ready
    <3>1. before.providerID /\ node = "provided"
      BY <1>1, <1>3, <2>1 DEF Links, ReadyFollowsProviderID, Acting
    <3>2. cKM.providerID
      BY <1>1, <1>3, <2>1, <3>1 DEF Links, ProviderIDIsStable, CacheTrailsExistence, Acting
    <3>3. km.providerID
      BY <1>3, <2>1, <3>2 DEF Links, ProviderIDIsStable
    <3> QED
      BY <1>1, <1>2, <2>1, <3>1, <3>2, <3>3 DEF Links, ReadyFollowsProviderID, Acting
  <2>2. CASE km'.ready => km.ready
    BY <1>1, <1>2, <2>2 DEF Links, ReadyFollowsProviderID, Acting
  <2> QED BY <2>1, <2>2
<1>6. StepsFollowProviderID'
  BY <1>1 DEF StepsFollowProviderID, AfterTheRead
<1> QED BY <1>4, <1>5, <1>6 DEF Links

(* A cache that catches up, by an event or a restart, keeps the links.     *)
LEMMA CatchUpLinks == ASSUME TypeOK, Links, SyncKM \/ Crash PROVE Links'
<1>1. /\ cKM' = km /\ UNCHANGED <<km, node, input>>
      /\ pc' = "idle" \/ UNCHANGED <<pc, before, after>>
  BY DEF SyncKM, Crash, Forget, server, others, local
<1>2. CASE pc' = "idle"
  BY <1>1, <1>2 DEF Links, CacheTrailsExistence, ProviderIDIsStable, ReadyFollowsProviderID,
                    StepsFollowProviderID, AfterTheRead, Acting
<1>3. CASE pc' # "idle" /\ UNCHANGED <<pc, before, after>>
  BY <1>1, <1>3 DEF Links, CacheTrailsExistence, ProviderIDIsStable, ReadyFollowsProviderID,
                    StepsFollowProviderID, Acting
<1> QED BY <1>1, <1>2, <1>3

(* A delete request, or the garbage collector's last word on the machine.  *)
LEMMA DeletionLinks ==
  ASSUME TypeOK, Links, (\E p : DeleteMachine(p)) \/ CollectMachine
  PROVE  Links'
<1>1. UNCHANGED <<cKM, before, after, pc, node, input>>
  BY DEF DeleteMachine, CollectMachine, cache, others, local
<1> DEFINE Result ==
      \/ ~km'.exists /\ ~km'.ready /\ ~km'.providerID
      \/ km'.exists = km.exists /\ km'.ready = km.ready /\ km'.providerID = km.providerID
<1>2. ASSUME NEW p, DeleteMachine(p) PROVE Result
  <2> DEFINE k == [km EXCEPT !.deleting = TRUE,
                             !.fins = IF p = "background" THEN @ \ {"foreground"} ELSE @]
  <2>1. /\ k \in Machines
        /\ k.exists = km.exists /\ k.ready = km.ready /\ k.providerID = km.providerID
    BY DEF TypeOK, Machines
  <2>2. km' = Settle(k)
    BY <1>2 DEF DeleteMachine
  <2> HIDE DEF k
  <2> QED BY <2>1, <2>2, SettleKeeps
<1>3. ASSUME CollectMachine PROVE Result
  <2> DEFINE k == [km EXCEPT !.fins = @ \ {"foreground"}]
  <2>1. /\ k \in Machines
        /\ k.exists = km.exists /\ k.ready = km.ready /\ k.providerID = km.providerID
    BY DEF TypeOK, Machines
  <2>2. km' = Settle(k)
    BY <1>3 DEF CollectMachine
  <2> HIDE DEF k
  <2> QED BY <2>1, <2>2, SettleKeeps
<1>4. Result
  BY <1>2, <1>3
<1> QED
  BY <1>1, <1>4 DEF Links, CacheTrailsExistence, ProviderIDIsStable, ReadyFollowsProviderID,
                    StepsFollowProviderID, Acting

(* Every step keeps the links.                                             *)
LEMMA NextLinks == ASSUME TypeOK, Links, [OpenNext]_vars PROVE Links'
<1> USE DEF server, cache, others, local
<1>1. CASE Reconcile
  BY <1>1, ReconcileLinks
<1>2. CASE \/ createMachinePod \/ createPersistentVolumeClaims \/ createSecret \/ deletePod
           \/ enableBoostrapProcess \/ setNodeProviderID \/ kubeadmReset \/ ExecHangs \/ ExecEnds
           \/ KubectlHangs \/ KubectlEnds
  BY <1>2, CallsEffect, CallLinks
<1>3. CASE Patch \/ PatchStatus
  BY <1>3, PatchLinks, PatchStatusLinks
<1>4. CASE SyncKM \/ Crash
  BY <1>4, CatchUpLinks
<1>5. CASE (\E p : DeleteMachine(p)) \/ CollectMachine
  BY <1>5, DeletionLinks
<1>6. CASE NodeJoins
  BY <1>6 DEF NodeJoins, Links, CacheTrailsExistence, ProviderIDIsStable,
              ReadyFollowsProviderID, StepsFollowProviderID, Acting
<1>7. CASE SyncPod \/ Resync \/ (\E x \in Prereqs : Provide(x)) \/ DeleteCluster \/ Pause \/ Unpause
  BY <1>7, FrameLinks DEF SyncPod, Resync, Provide, DeleteCluster, Pause, Unpause
<1>8. CASE CollectPod \/ CollectSecret \/ CollectClaims \/ ForeignComes \/ ForeignGoes
  BY <1>8, FrameLinks
  DEF CollectPod, CollectSecret, CollectClaims, ForeignComes, ForeignGoes, PodChanges
<1>9. CASE Kubelet \/ PodLost \/ KindTerminates \/ PodUnready
  BY <1>9, FrameLinks
  DEF Kubelet, KubeletStarts, KubeletRemoves, PodLost, KindTerminates, PodUnready, PodChanges
<1>10. CASE Withdraw \/ UNCHANGED vars
  BY <1>10, FrameLinks DEF Withdraw, vars
<1> QED
  BY <1>1, <1>2, <1>3, <1>4, <1>5, <1>6, <1>7, <1>8, <1>9, <1>10
  DEF OpenNext, Next, Controller, Watches, GarbageCollector, Users, Faults

(* The inductive invariant: caches, copies and the API server agree about  *)
(* the provider ID in the order in which they learn of it.                 *)
THEOREM ReadyInvariant == OpenSpec => []ReadyInv
<1>1. Init => ReadyInv
  BY InitTypeOK, InitLinks DEF ReadyInv, Links
<1>2. ReadyInv /\ [OpenNext]_vars => ReadyInv'
  BY NextTypeOK, NextLinks DEF ReadyInv, Links
<1> QED
  BY <1>1, <1>2, PTL DEF OpenSpec

(* Status.Ready is reported only with a provider ID that is in the spec    *)
(* and on the Node, for any number of faults and any choice of the user.   *)
LEMMA OpenReadyIsBacked == OpenSpec => []ReadyIsBacked
<1>1. ReadyInv => ReadyIsBacked
  BY DEF ReadyInv, ReadyFollowsProviderID, ReadyIsBacked
<1> QED
  BY <1>1, ReadyInvariant, PTL

(* The same of the specification.                                          *)
THEOREM ReadyIsBackedAlways == Spec => []ReadyIsBacked
BY OpenReadyIsBacked, SpecIsOpen, PTL

(* A machine that has been ready never gets another Pod unless recreation  *)
(* is allowed: the reconciliation that creates one has read no provider    *)
(* ID, and while the machine is ready there is none that has not.          *)
LEMMA OpenNoReplacement == OpenSpec => NoReplacementOnceReady
<1>1. ReadyInv /\ [OpenNext]_vars => [km.ready /\ ~input.allowRecreation => created' = created]_vars
  <2> SUFFICES ASSUME ReadyInv, OpenNext, km.ready, ~input.allowRecreation
               PROVE  created' = created
    BY DEF vars
  <2>1. pc # "createPod"
    BY DEF ReadyInv, ReadyFollowsProviderID, StepsFollowProviderID, Acting
  <2>2. ~createMachinePod
    BY <2>1 DEF createMachinePod, Step
  <2> QED
    BY <2>2 DEF OpenNext, Withdraw, Next, Controller, Watches, GarbageCollector, Kubelet, Users, Faults,
      Reconcile, ReconcileNotFound, AwaitOwner, AwaitCluster, AwaitKubernetesCluster,
      AwaitInfrastructure, reconcileNormal, reconcileDelete, Dispatch, Fetch, Take,
      createPersistentVolumeClaims, createSecret, deletePod, enableBoostrapProcess,
      setNodeProviderID, kubeadmReset, ExecHangs, ExecEnds, KubectlHangs, KubectlEnds,
      Patch, PatchStatus, Crash, SyncKM, SyncPod, Resync,
      Provide, Pause, Unpause, DeleteCluster, DeleteMachine, CollectPod, CollectSecret,
      CollectClaims, CollectMachine, KubeletStarts, KubeletRemoves, NodeJoins, PodLost,
      KindTerminates, PodUnready, PodChanges, ForeignComes, ForeignGoes
<1> QED
  BY <1>1, ReadyInvariant, PTL DEF OpenSpec, NoReplacementOnceReady

(* The same of the specification.                                          *)
THEOREM NoReplacement == Spec => NoReplacementOnceReady
BY OpenNoReplacement, SpecIsOpen, PTL
=============================================================================
