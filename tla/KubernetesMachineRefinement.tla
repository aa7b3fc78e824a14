--------------------- MODULE KubernetesMachineRefinement ---------------------
(***************************************************************************)
(* Proofs about KubernetesMachine, continued: whose Pods it touches, that  *)
(* it implements MachineLifecycle, and that a control plane machine does   *)
(* not disappear around an etcd member that has not been reset.            *)
(***************************************************************************)
EXTENDS KubernetesMachineProofs

-----------------------------------------------------------------------------
(* The inductive invariant behind ForeignPodUntouched, and what the        *)
(* refinement needs to know of Pods.                                       *)

(* A Pod that exists, or that some copy shows, is somebody else's or one   *)
(* that this controller has created.                                       *)
Theirs(p) == "pod" \in Foreign /\ p.owner = "other" /\ p.uid = 1 /\ p.state = "running"
Accounted(p) == p = NoPod \/ Theirs(p) \/ (p.owner = "self" /\ p.uid \in 2 .. created + 1)

(* The steps at which the reconciliation holds on to the Pod it has seen.  *)
Holding == AfterTheRead \cup {"reset", "hung", "hungElsewhere"}

(* The Pod that is to be entered or deleted has been seen to be the        *)
(* machine's own; what has the name by then may be another.                *)
PodsInv ==
  /\ Accounted(pod) /\ Accounted(cPod) /\ Accounted(seen)
  /\ pc \in Holding => seen.owner = "self"

-----------------------------------------------------------------------------
(* The inductive invariant behind ImplementsLifecycle, when no other       *)
(* owner's Pod has the machine's name.                                     *)

(* What a reconciliation changes in its copy: a provider ID only for a Pod *)
(* that was built, Ready taken back only for a rebuild, a failure never    *)
(* taken back, and never both of Ready and the failure.                    *)
CopyIsSober ==
  /\ Acting /\ after.providerID /\ ~before.providerID => created > 0
  /\ Acting /\ before.ready /\ ~after.ready => input.allowRecreation
  /\ Acting /\ before.failed => after.failed
  /\ Acting => after.ready = before.ready \/ after.failed = before.failed
  /\ pc = "createPod" => after.failed = before.failed
  /\ pc \in Holding => after.ready = before.ready /\ after.failed = before.failed

(* Whoever reads this machine creates no Pod for it any more.              *)
Final(k) == k.failed \/ k.deleting \/ (k.providerID /\ ~input.allowRecreation)

(* A failure was decided from a copy that rules out another Pod, and so do *)
(* all later copies: a stale cache may miss the failure, but not what led  *)
(* to it.                                                                  *)
FailureIsFinal ==
  /\ km.failed => km.exists /\ Final(cKM)
  /\ Final(cKM) => (km.exists => Final(km))
  /\ Acting /\ km.failed => Final(before)
  /\ Acting /\ after.failed => Final(before)
  /\ Acting /\ Final(before) => (cKM.exists => Final(cKM))
  /\ pc = "createPod" => ~Final(before)

(* Nothing of a machine that is gone can be seen.                          *)
GoneIsBlank == ~km.exists => km = GoneMachine

LifecycleInv == ReadyInv /\ PodsInv /\ CopyIsSober /\ FailureIsFinal /\ GoneIsBlank

-----------------------------------------------------------------------------
(* Pods.                                                                   *)

(* The fields of the Pods that are absent, somebody else's or new.         *)
LEMMA PodFields ==
  /\ NoPod.uid = 0 /\ NoPod.owner = "none" /\ NoPod.state = "none"
  /\ ForeignPod.uid = 1 /\ ForeignPod.owner = "other" /\ ~ForeignPod.deleting
  /\ ForeignPod.state = "running"
  /\ \A n \in Nat : NewPod(n).uid = n + 2 /\ NewPod(n).owner = "self" /\ NewPod(n).state = "none"
BY DEF NoPod, ForeignPod, NewPod

(* What is known of Pods holds initially.                                  *)
LEMMA InitPods == Init => PodsInv
<1> SUFFICES ASSUME Init PROVE PodsInv
  OBVIOUS
<1>1. Accounted(pod)
  BY PodFields DEF Init, Accounted, Theirs
<1>2. Accounted(cPod) /\ Accounted(seen)
  BY <1>1 DEF Init, Accounted
<1>3. pc = "idle"
  BY DEF Init
<1> QED BY <1>1, <1>2, <1>3 DEF PodsInv, Holding, AfterTheRead

(* A step that leaves the Pods alone, and at most lets the reconciliation  *)
(* go on with the one it has seen, or drop it.                             *)
LEMMA FramePods ==
  ASSUME TypeOK, PodsInv, UNCHANGED <<pod, cPod, created>>,
         \/ seen' = NoPod /\ pc' \notin Holding
         \/ seen' = seen /\ (pc' \in Holding => pc \in Holding)
  PROVE  PodsInv'
<1>1. Accounted(seen)'
  BY DEF PodsInv, Accounted, Theirs
<1>2. Accounted(pod)' /\ Accounted(cPod)'
  BY DEF PodsInv, Accounted, Theirs
<1>3. pc' \in Holding => seen'.owner = "self"
  BY DEF PodsInv, Holding
<1> QED BY <1>1, <1>2, <1>3 DEF PodsInv, Holding

(* A reconciliation that returns drops the Pod it has seen.                *)
LEMMA ReturnDrops ==
  ASSUME NEW k, NEW e, Return(k, e)
  PROVE  seen' = NoPod /\ pc' = "patch" /\ pc' \notin Holding
BY DEF Return, Holding, AfterTheRead

(* What a reconciliation holds on to is its own Pod as the cache shows it. *)
LEMMA ReconcilePods == ASSUME TypeOK, PodsInv, Reconcile PROVE PodsInv'
<1>1. Take
  BY DEF Reconcile, ReconcileNotFound, AwaitOwner, AwaitCluster, AwaitKubernetesCluster,
         AwaitInfrastructure, reconcileNormal, reconcileDelete, Dispatch, Fetch
<1>2. UNCHANGED <<pod, cPod, created>>
  BY <1>1 DEF Take, server, cache
<1>3. \/ UNCHANGED <<pc, seen>>
      \/ \E k, e : Return(k, e)
      \/ pc' = "createPod" /\ seen' = cPod
      \/ pc' \in {"createPVCs", "reset"} /\ seen' = cPod /\ cPod.owner = "self"
  BY DEF Reconcile, ReconcileNotFound, AwaitOwner, AwaitCluster, AwaitKubernetesCluster,
         AwaitInfrastructure, reconcileNormal, reconcileDelete, NormalFailed,
         NormalAwaitBootstrap, NormalPodNotFound, NormalPodFound, Call, local
<1>4. CASE UNCHANGED <<pc, seen>>
  BY <1>2, <1>4, FramePods
<1>5. CASE \E k, e : Return(k, e)
  BY <1>2, <1>5, ReturnDrops, FramePods
<1>6. CASE \/ pc' = "createPod" /\ seen' = cPod
           \/ pc' \in {"createPVCs", "reset"} /\ seen' = cPod /\ cPod.owner = "self"
  BY <1>2, <1>6 DEF PodsInv, Accounted, Theirs, Holding, AfterTheRead
<1> QED BY <1>3, <1>4, <1>5, <1>6

(* Live calls: a Pod that is created is the machine's, and one that is     *)
(* deleted stays who it was.                                               *)
LEMMA CallPods ==
  ASSUME TypeOK, PodsInv,
         \/ createMachinePod \/ createPersistentVolumeClaims \/ createSecret \/ deletePod
         \/ enableBoostrapProcess \/ setNodeProviderID \/ kubeadmReset \/ ExecHangs \/ ExecEnds
         \/ KubectlHangs \/ KubectlEnds
  PROVE  PodsInv'
<1> USE DEF Step, cache, others
<1>2. CASE createMachinePod
  <2>1. /\ UNCHANGED cPod /\ seen' = NoPod /\ pc' \notin Holding
        /\ \/ pod' = NewPod(created) /\ created' = created + 1
           \/ UNCHANGED <<pod, created, boot, reset>>
    BY <1>2, ReturnDrops DEF createMachinePod
  <2>2. CASE UNCHANGED <<pod, created, boot, reset>>
    BY <2>1, <2>2, FramePods
  <2>3. CASE pod' = NewPod(created) /\ created' = created + 1
    <3>1. created \in Nat
      BY DEF TypeOK
    <3>2. pod'.owner = "self" /\ pod'.uid = created + 2
      BY <2>3, <3>1, PodFields
    <3>3. Accounted(pod)' /\ Accounted(seen)'
      BY <2>1, <2>3, <3>1, <3>2 DEF Accounted
    <3>4. Accounted(cPod)'
      BY <2>1, <2>3, <3>1 DEF PodsInv, Accounted, Theirs
    <3> QED BY <2>1, <3>2, <3>3, <3>4 DEF PodsInv, Holding
  <2> QED BY <2>1, <2>2, <2>3
<1>3. CASE createPersistentVolumeClaims \/ createSecret \/ setNodeProviderID
  <2>1. /\ UNCHANGED <<pod, cPod, created>> /\ pc \in Holding
        /\ (\E k, e : Return(k, e)) \/ (\E s : Proceed(s))
    BY <1>3 DEF createPersistentVolumeClaims, createSecret, setNodeProviderID, Holding, AfterTheRead
  <2>2. CASE \E k, e : Return(k, e)
    BY <2>1, <2>2, ReturnDrops, FramePods
  <2>3. CASE \E s : Proceed(s)
    BY <2>1, <2>3, FramePods DEF Proceed
  <2> QED BY <2>1, <2>2, <2>3
<1>4. CASE deletePod
  <2>1. /\ UNCHANGED <<cPod, created>> /\ seen' = NoPod /\ pc' \notin Holding
        /\ pod' = pod \/ (Exists(pod) /\ pod' = [pod EXCEPT !.deleting = TRUE])
    BY <1>4, ReturnDrops DEF deletePod
  <2>2. CASE pod' = pod
    BY <2>1, <2>2, FramePods
  <2>3. CASE Exists(pod) /\ pod' = [pod EXCEPT !.deleting = TRUE]
    <3>1. Theirs(pod) \/ (pod.owner = "self" /\ pod.uid \in 2 .. created + 1)
      BY <2>3, PodFields DEF PodsInv, Accounted, Exists
    <3>2. pod'.owner = pod.owner /\ pod'.uid = pod.uid /\ pod'.state = pod.state
      BY <2>3 DEF TypeOK, Pods
    <3>3. Accounted(pod)' /\ Accounted(cPod)' /\ Accounted(seen)'
      BY <2>1, <3>1, <3>2 DEF PodsInv, Accounted, Theirs
    <3> QED BY <2>1, <3>3 DEF PodsInv
  <2> QED BY <2>1, <2>2, <2>3
<1>5. CASE enableBoostrapProcess \/ kubeadmReset
  <2>1. /\ UNCHANGED <<pod, cPod, created>> /\ pc \in Holding
        /\ (\E k, e : Return(k, e)) \/ (\E s : Proceed(s))
    BY <1>5 DEF enableBoostrapProcess, kubeadmReset, Holding, AfterTheRead
  <2>2. CASE \E k, e : Return(k, e)
    BY <2>1, <2>2, ReturnDrops, FramePods
  <2>3. CASE \E s : Proceed(s)
    BY <2>1, <2>3, FramePods DEF Proceed
  <2> QED BY <2>1, <2>2, <2>3
<1>6. CASE ExecHangs \/ KubectlHangs
  BY <1>6, FramePods DEF ExecHangs, KubectlHangs, Holding, AfterTheRead
<1>7. CASE ExecEnds \/ KubectlEnds
  BY <1>7, ReturnDrops, FramePods DEF ExecEnds, KubectlEnds, server
<1> QED BY <1>2, <1>3, <1>4, <1>5, <1>6, <1>7

(* The patches, a crash, and a cache that catches up.                      *)
LEMMA SyncsPods ==
  ASSUME TypeOK, PodsInv, Patch \/ PatchStatus \/ Crash \/ SyncPod
  PROVE  PodsInv'
<1> USE DEF Step, cache, others, server, local
<1>1. CASE Patch
  BY <1>1, FramePods DEF Patch, Holding, AfterTheRead
<1>2. CASE PatchStatus
  BY <1>2, FramePods DEF PatchStatus, Forget, Holding, AfterTheRead
<1>3. CASE Crash
  <2>1. UNCHANGED <<pod, created>> /\ cPod' = pod /\ seen' = NoPod /\ pc' = "idle"
    BY <1>3 DEF Crash, Forget
  <2> QED BY <2>1 DEF PodsInv, Accounted, Theirs, Holding, AfterTheRead
<1>4. CASE SyncPod
  <2>1. /\ UNCHANGED <<pod, created, pc, seen>>
        /\ cPod' = pod \/ cPod' = NoPod
    BY <1>4 DEF SyncPod
  <2> QED BY <2>1 DEF PodsInv, Accounted, Theirs
<1> QED BY <1>1, <1>2, <1>3, <1>4

(* The steps of the garbage collector, of the kubelet and of fate that     *)
(* change the Pod.                                                         *)
FatePod ==
  CollectPod \/ KubeletStarts \/ KubeletRemoves \/ PodLost \/ KindTerminates \/ PodUnready
  \/ ForeignComes \/ ForeignGoes

(* The Pod goes, or it stays the same Pod; somebody else's comes only      *)
(* where there is none, and only goes.                                     *)
LEMMA FateOfPod ==
  ASSUME TypeOK, PodsInv, FatePod
  PROVE  /\ UNCHANGED <<cPod, created, seen, pc>>
         /\ \/ pod' = NoPod /\ ~boot' /\ ~reset'
            \/ pod' = pod /\ UNCHANGED <<boot, reset>>
            \/ /\ pod.owner = "self" /\ pod'.owner = "self" /\ pod'.uid = pod.uid
               /\ UNCHANGED <<boot, reset>>
            \/ ~Exists(pod) /\ Theirs(pod') /\ UNCHANGED <<boot, reset>>
<1> USE DEF cache, local, PodChanges, FatePod
<1>1. UNCHANGED <<cPod, created, seen, pc>>
  BY DEF CollectPod, KubeletStarts, KubeletRemoves, PodLost, KindTerminates, PodUnready,
         ForeignComes, ForeignGoes
<1>2. CASE CollectPod
  BY <1>1, <1>2 DEF CollectPod, TypeOK, Pods
<1>3. CASE KubeletStarts
  BY <1>1, <1>3 DEF KubeletStarts, TypeOK, Pods
<1>4. CASE KubeletRemoves
  BY <1>1, <1>4 DEF KubeletRemoves, PodGoes
<1>5. CASE PodLost
  BY <1>1, <1>5 DEF PodLost, PodGoes, TypeOK, Pods
<1>6. CASE KindTerminates
  BY <1>1, <1>6 DEF KindTerminates, TypeOK, Pods
<1>7. CASE PodUnready
  <2>1. pod.owner = "self"
    BY <1>7, PodFields DEF PodUnready, PodsInv, Accounted, Theirs
  <2> QED BY <1>1, <1>7, <2>1 DEF PodUnready, TypeOK, Pods
<1>8. CASE ForeignGoes
  BY <1>1, <1>8 DEF ForeignGoes, PodGoes
<1>9. CASE ForeignComes
  BY <1>1, <1>9, PodFields DEF ForeignComes, Theirs
<1> QED BY <1>2, <1>3, <1>4, <1>5, <1>6, <1>7, <1>8, <1>9

(* Fate keeps what is known of Pods.                                       *)
LEMMA FatePods == ASSUME TypeOK, PodsInv, FatePod PROVE PodsInv'
<1> DEFINE Alike == /\ pod.owner = "self" /\ pod'.owner = "self" /\ pod'.uid = pod.uid
                    /\ UNCHANGED <<boot, reset>>
<1>1. /\ UNCHANGED <<cPod, created, seen, pc>>
      /\ \/ pod' = NoPod \/ (pod' = pod /\ UNCHANGED <<boot, reset>>) \/ Alike
         \/ Theirs(pod')
  BY FateOfPod
<1>2. Accounted(cPod)' /\ Accounted(seen)'
  BY <1>1 DEF PodsInv, Accounted, Theirs
<1>3. CASE pod' = NoPod \/ Theirs(pod')
  BY <1>1, <1>2, <1>3 DEF PodsInv, Accounted, Theirs
<1>4. CASE pod' = pod /\ UNCHANGED <<boot, reset>>
  BY <1>1, <1>4, FramePods
<1>5. CASE Alike
  <2>1. pod.uid \in 2 .. created + 1
    BY <1>5, PodFields DEF PodsInv, Accounted, Theirs
  <2>2. Accounted(pod)'
    BY <1>1, <1>5, <2>1 DEF Accounted
  <2> QED BY <1>1, <1>2, <1>5, <2>2 DEF PodsInv
<1> QED BY <1>1, <1>3, <1>4, <1>5

(* Every step keeps what is known of Pods.                                 *)
LEMMA NextPods == ASSUME TypeOK, PodsInv, [OpenNext]_vars PROVE PodsInv'
<1> USE DEF server, cache, others, local
<1>1. CASE Reconcile
  BY <1>1, ReconcilePods
<1>2. CASE \/ createMachinePod \/ createPersistentVolumeClaims \/ createSecret \/ deletePod
           \/ enableBoostrapProcess \/ setNodeProviderID \/ kubeadmReset \/ ExecHangs \/ ExecEnds
           \/ KubectlHangs \/ KubectlEnds
  BY <1>2, CallPods
<1>3. CASE Patch \/ PatchStatus \/ Crash \/ SyncPod
  BY <1>3, SyncsPods
<1>4. CASE FatePod
  BY <1>4, FatePods
<1>5. CASE SyncKM \/ Resync \/ (\E x \in Prereqs : Provide(x)) \/ DeleteCluster \/ Pause \/ Unpause
  BY <1>5, FramePods DEF SyncKM, Resync, Provide, DeleteCluster, Pause, Unpause
<1>6. CASE (\E p : DeleteMachine(p)) \/ CollectMachine
  <2>1. UNCHANGED <<pod, cPod, created, seen, pc>>
    BY <1>6 DEF DeleteMachine, CollectMachine
  <2> QED BY <2>1, FramePods
<1>7. CASE CollectSecret \/ CollectClaims \/ NodeJoins
  BY <1>7, FramePods DEF CollectSecret, CollectClaims, NodeJoins
<1>8. CASE Withdraw \/ UNCHANGED vars
  BY <1>8, FramePods DEF Withdraw, vars
<1> QED
  BY <1>1, <1>2, <1>3, <1>4, <1>5, <1>6, <1>7, <1>8
  DEF OpenNext, Next, Controller, Watches, GarbageCollector, Kubelet, Users, Faults, FatePod

(* A Pod that exists or that a copy shows is accounted for, and the one    *)
(* that is held has been seen to be the machine's own, whoever takes its   *)
(* name and whenever.                                                      *)
THEOREM PodsInvariant == OpenSpec => []PodsInv
<1>1. TypeOK /\ PodsInv /\ [OpenNext]_vars => PodsInv'
  BY NextPods
<1> QED
  BY <1>1, InitPods, OpenTypeCorrect, PTL DEF OpenSpec

(* Somebody else's Pod, whenever it took the machine's name, is deleted or *)
(* entered only by a reconciliation that has read a Pod of the machine in  *)
(* its place: nobody but the controller's calls touches it, each of them   *)
(* follows an ownership test, and the Pod that passed it was another.      *)
LEMMA OpenForeignUntouched == OpenSpec => ForeignPodUntouched
<1>1. TypeOK /\ PodsInv /\ [OpenNext]_vars
        => [pod.owner = "other" /\ Touched => seen.owner = "self" /\ seen.uid # pod.uid]_vars
  <2> SUFFICES ASSUME TypeOK, PodsInv, OpenNext, pod.owner = "other", Touched
               PROVE  seen.owner = "self" /\ seen.uid # pod.uid
    OBVIOUS
  <2> USE DEF Step, server, cache, others, local, PodChanges
  <2>1. pod.uid = 1 /\ Exists(pod)
    BY PodFields DEF PodsInv, Accounted, Theirs, Exists
  <2>2. CASE pc \in Holding
    <3>1. seen.owner = "self"
      BY <2>2 DEF PodsInv
    <3>2. seen.uid \in 2 .. created + 1
      BY <3>1, PodFields DEF PodsInv, Accounted, Theirs
    <3> QED BY <2>1, <3>1, <3>2
  <2>3. CASE FatePod
    <3>1. ~NoPod.deleting
      BY DEF NoPod
    <3> QED BY <2>1, <2>3, <3>1, FateOfPod DEF Touched
  <2>4. CASE pc \notin Holding /\ ~FatePod
    <3>1. UNCHANGED <<pod, boot, reset>>
      <4>1. CASE Reconcile
        BY <4>1 DEF Reconcile, ReconcileNotFound, AwaitOwner, AwaitCluster,
           AwaitKubernetesCluster, AwaitInfrastructure, reconcileNormal, reconcileDelete,
           Dispatch, Fetch, Take
      <4>2. ~(\/ createPersistentVolumeClaims \/ createSecret \/ deletePod
              \/ enableBoostrapProcess \/ setNodeProviderID \/ kubeadmReset
              \/ ExecHangs \/ ExecEnds \/ KubectlHangs \/ KubectlEnds)
        BY <2>4 DEF createPersistentVolumeClaims, createSecret, deletePod,
           enableBoostrapProcess, setNodeProviderID, kubeadmReset,
           ExecHangs, ExecEnds, KubectlHangs, KubectlEnds, Holding, AfterTheRead
      <4>3. CASE createMachinePod \/ Patch \/ PatchStatus \/ Crash
        BY <2>1, <4>3 DEF createMachinePod, Patch, PatchStatus, Crash
      <4>4. CASE SyncKM \/ SyncPod \/ Resync \/ (\E x \in Prereqs : Provide(x)) \/ Withdraw
        BY <4>4 DEF SyncKM, SyncPod, Resync, Provide, Withdraw
      <4>5. CASE Pause \/ Unpause \/ DeleteCluster \/ (\E p : DeleteMachine(p))
        BY <4>5 DEF Pause, Unpause, DeleteCluster, DeleteMachine
      <4>6. CASE CollectSecret \/ CollectClaims \/ CollectMachine \/ NodeJoins
        BY <4>6 DEF CollectSecret, CollectClaims, CollectMachine, NodeJoins
      <4> QED
        BY <2>4, <4>1, <4>2, <4>3, <4>4, <4>5, <4>6
        DEF OpenNext, Next, Controller, Watches, GarbageCollector, Kubelet, Users, Faults, FatePod
    <3> QED BY <3>1 DEF Touched
  <2> QED BY <2>2, <2>3, <2>4
<1> QED
  BY <1>1, OpenTypeCorrect, PodsInvariant, PTL DEF OpenSpec, ForeignPodUntouched

(* The same of the specification.                                          *)
THEOREM ForeignPodIsUntouched == Spec => ForeignPodUntouched
BY OpenForeignUntouched, SpecIsOpen, PTL

-----------------------------------------------------------------------------
(* What a reconciliation decides, path by path.                            *)

(* The copy has these provider ID, Ready, failure and finalizers.          *)
AfterIs(p, r, f, s) ==
  after'.providerID = p /\ after'.ready = r /\ after'.failed = f /\ after'.fins = s

AllFins == cKM.fins \cup Finalizers

(* It waits for something, or the machine has failed before.               *)
Waits ==
  /\ pc' = "patch"
  /\ \/ AfterIs(cKM.providerID, cKM.ready, cKM.failed, cKM.fins)
     \/ ~cKM.deleting /\ AfterIs(cKM.providerID, cKM.ready, cKM.failed, AllFins)

Creates ==
  /\ pc' = "createPod" /\ ~cKM.deleting /\ ~cKM.failed
  /\ \/ input.allowRecreation /\ AfterIs(cKM.providerID, FALSE, cKM.failed, AllFins)
     \/ /\ ~input.allowRecreation /\ ~cKM.providerID
        /\ AfterIs(cKM.providerID, cKM.ready, cKM.failed, AllFins)

Fails ==
  /\ pc' = "patch" /\ ~cKM.deleting
  /\ \/ ~input.allowRecreation /\ cKM.providerID
     \/ Exists(cPod) /\ cPod.owner # "self"
  /\ AfterIs(cKM.providerID, cKM.ready, TRUE, AllFins)

Provides ==
  /\ pc' = "patch" /\ ~cKM.deleting /\ cPod.owner = "self"
  /\ AfterIs(TRUE, cKM.ready, cKM.failed, AllFins)

Unreadies ==
  /\ pc' = "patch" /\ ~cKM.deleting /\ input.allowRecreation
  /\ AfterIs(cKM.providerID, FALSE, cKM.failed, AllFins)

GoesOn ==
  /\ pc' = "createPVCs" /\ ~cKM.deleting /\ cKM.providerID
  /\ seen' = cPod /\ cPod.owner = "self"
  /\ AfterIs(cKM.providerID, cKM.ready, cKM.failed, AllFins)

Resets ==
  /\ pc' = "reset" /\ cKM.deleting
  /\ seen' = cPod /\ cPod.owner = "self"
  /\ AfterIs(cKM.providerID, cKM.ready, cKM.failed, cKM.fins)

Releases ==
  /\ pc' = "patch" /\ cKM.deleting
  /\ ~Exists(cPod) \/ cPod.owner = "other" \/ clusterDeleting \/ ~input.controlPlane
  /\ \E f \in {cKM.failed, TRUE} :
       AfterIs(cKM.providerID, cKM.ready, f, cKM.fins \ {"machine"})

(* The copy that is returned with, or that the first call starts from, is  *)
(* the one that was decided upon.                                          *)
LEMMA CopyOf ==
  ASSUME NEW STATE k, k \in Machines, (\E e : Return(k, e)) \/ (\E s : Call(s, k))
  PROVE  AfterIs(k.providerID, k.ready, k.failed, k.fins)
BY ReconcilePhaseKeeps DEF Return, Call, AfterIs

(* What each assignment of the reconciler does to those fields.            *)
LEMMA SettersFields ==
  ASSUME NEW STATE k, k \in Machines
  PROVE  /\ reconcileVersion(k).providerID = k.providerID /\ reconcileVersion(k).ready = k.ready
         /\ reconcileVersion(k).failed = k.failed /\ reconcileVersion(k).fins = k.fins
         /\ SetFailure(k).providerID = k.providerID /\ SetFailure(k).ready = k.ready
         /\ SetFailure(k).failed = TRUE /\ SetFailure(k).fins = k.fins
         /\ AddFinalizers(k).providerID = k.providerID /\ AddFinalizers(k).ready = k.ready
         /\ AddFinalizers(k).failed = k.failed /\ AddFinalizers(k).fins = k.fins \cup Finalizers
         /\ RemoveFinalizer(k).providerID = k.providerID /\ RemoveFinalizer(k).ready = k.ready
         /\ RemoveFinalizer(k).failed = k.failed
         /\ RemoveFinalizer(k).fins = k.fins \ {"machine"}
         /\ SetReady(k, FALSE).providerID = k.providerID /\ SetReady(k, FALSE).ready = FALSE
         /\ SetReady(k, FALSE).failed = k.failed /\ SetReady(k, FALSE).fins = k.fins
         /\ SetReady(k, TRUE).providerID = k.providerID /\ SetReady(k, TRUE).ready = TRUE
         /\ SetReady(k, TRUE).failed = k.failed /\ SetReady(k, TRUE).fins = k.fins
         /\ [k EXCEPT !.providerID = TRUE].providerID = TRUE
         /\ [k EXCEPT !.providerID = TRUE].ready = k.ready
         /\ [k EXCEPT !.providerID = TRUE].failed = k.failed
         /\ [k EXCEPT !.providerID = TRUE].fins = k.fins
BY DEF Machines, reconcileVersion, SetFailure, AddFinalizers, RemoveFinalizer, SetReady

(* reconcileNormal waits, creates, fails, provides, takes Ready back or    *)
(* goes on.                                                                *)
LEMMA NormalCases ==
  ASSUME TypeOK, reconcileNormal
  PROVE  Waits \/ Creates \/ Fails \/ Provides \/ Unreadies \/ GoesOn
<1> DEFINE k0 == reconcileVersion(cKM)
           k == AddFinalizers(k0)
<1>1. /\ k0 \in Machines /\ k0.providerID = cKM.providerID /\ k0.ready = cKM.ready
      /\ k0.failed = cKM.failed /\ k0.fins = cKM.fins
  BY SettersType, SettersFields DEF TypeOK
<1>2. /\ k \in Machines /\ k.providerID = cKM.providerID /\ k.ready = cKM.ready
      /\ k.failed = cKM.failed /\ k.fins = AllFins
  <2> HIDE DEF k0
  <2>1. k \in Machines
    BY <1>1, SettersType
  <2>2. /\ k.providerID = k0.providerID /\ k.ready = k0.ready
        /\ k.failed = k0.failed /\ k.fins = k0.fins \cup Finalizers
    BY <1>1, SettersFields
  <2> QED BY <1>1, <2>1, <2>2, Zenon DEF AllFins
<1>3. /\ ~cKM.deleting
      /\ \/ NormalFailed(k0)
         \/ ~k0.failed /\ (NormalAwaitBootstrap(k) \/ NormalPodNotFound(k) \/ NormalPodFound(k))
  BY DEF reconcileNormal
<1> HIDE DEF k, k0
<1>4. /\ SetReady(k, FALSE) \in Machines /\ SetFailure(k) \in Machines
      /\ [k EXCEPT !.providerID = TRUE] \in Machines
  BY <1>2, SettersType
<1>5. CASE NormalFailed(k0)
  <2>1. Return(k0, FALSE) /\ pc' = "patch"
    BY <1>5 DEF NormalFailed, Return
  <2>2. AfterIs(k0.providerID, k0.ready, k0.failed, k0.fins)
    BY <1>1, <2>1, CopyOf
  <2> QED BY <1>1, <2>1, <2>2 DEF Waits
<1>6. CASE NormalAwaitBootstrap(k)
  <2>1. Return(k, FALSE) /\ pc' = "patch"
    BY <1>6 DEF NormalAwaitBootstrap, Return
  <2>2. AfterIs(k.providerID, k.ready, k.failed, k.fins)
    BY <1>2, <2>1, CopyOf
  <2> QED BY <1>2, <1>3, <2>1, <2>2 DEF Waits
<1>7. CASE ~k0.failed /\ NormalPodNotFound(k)
  <2>1. CASE input.allowRecreation /\ Call("createPod", SetReady(k, FALSE))
    <3>1. AfterIs(cKM.providerID, FALSE, cKM.failed, AllFins)
      <4> DEFINE j == SetReady(k, FALSE)
      <4>1. /\ j \in Machines /\ j.providerID = cKM.providerID /\ j.ready = FALSE
            /\ j.failed = cKM.failed /\ j.fins = AllFins
        BY <1>2, <1>4, SettersFields
      <4>2. \E s : Call(s, j)
        BY <2>1
      <4> HIDE DEF j
      <4> QED BY <4>1, <4>2, CopyOf
    <3> QED BY <1>1, <1>3, <1>7, <2>1, <3>1 DEF Creates, Call
  <2>2. CASE ~input.allowRecreation /\ k.providerID /\ Return(SetFailure(k), FALSE)
    <3>1. AfterIs(cKM.providerID, cKM.ready, TRUE, AllFins)
      <4> DEFINE j == SetFailure(k)
      <4>1. /\ j \in Machines /\ j.providerID = cKM.providerID /\ j.ready = cKM.ready
            /\ j.failed = TRUE /\ j.fins = AllFins
        BY <1>2, <1>4, SettersFields
      <4>2. \E e : Return(j, e)
        BY <2>2
      <4> HIDE DEF j
      <4> QED BY <4>1, <4>2, CopyOf
    <3> QED BY <1>2, <1>3, <2>2, <3>1 DEF Fails, Return
  <2>3. CASE ~input.allowRecreation /\ ~k.providerID /\ Call("createPod", k)
    <3>1. AfterIs(k.providerID, k.ready, k.failed, k.fins)
      BY <1>2, <2>3, CopyOf
    <3> QED BY <1>1, <1>2, <1>3, <1>7, <2>3, <3>1 DEF Creates, Call
  <2> QED BY <1>7, <2>1, <2>2, <2>3 DEF NormalPodNotFound
<1>8. CASE NormalPodFound(k)
  <2>0. Exists(cPod)
    BY <1>8 DEF NormalPodFound
  <2>1. ASSUME Return(SetFailure(k), FALSE)
        PROVE  pc' = "patch" /\ AfterIs(cKM.providerID, cKM.ready, TRUE, AllFins)
    <3> DEFINE j == SetFailure(k)
    <3>1. /\ j \in Machines /\ j.providerID = cKM.providerID /\ j.ready = cKM.ready
          /\ j.failed = TRUE /\ j.fins = AllFins
      BY <1>2, <1>4, SettersFields
    <3>2. pc' = "patch" /\ \E e : Return(j, e)
      BY <2>1 DEF Return
    <3> HIDE DEF j
    <3> QED BY <3>1, <3>2, CopyOf
  <2>2. CASE cPod.owner # "self" /\ Return(SetFailure(k), FALSE)
    BY <1>3, <2>0, <2>1, <2>2 DEF Fails
  <2>3. CASE cPod.owner = "self" /\ Return([k EXCEPT !.providerID = TRUE], FALSE)
    <3> DEFINE j == [k EXCEPT !.providerID = TRUE]
    <3>1. /\ j \in Machines /\ j.providerID = TRUE /\ j.ready = cKM.ready
          /\ j.failed = cKM.failed /\ j.fins = AllFins
      BY <1>2, <1>4, SettersFields
    <3>2. pc' = "patch" /\ \E e : Return(j, e)
      BY <2>3 DEF Return
    <3> HIDE DEF j
    <3>3. AfterIs(j.providerID, j.ready, j.failed, j.fins)
      BY <3>1, <3>2, CopyOf
    <3> QED BY <1>3, <2>3, <3>1, <3>2, <3>3 DEF Provides
  <2>4. CASE input.allowRecreation /\ Return(SetReady(k, FALSE), FALSE)
    <3> DEFINE j == SetReady(k, FALSE)
    <3>1. /\ j \in Machines /\ j.providerID = cKM.providerID /\ j.ready = FALSE
          /\ j.failed = cKM.failed /\ j.fins = AllFins
      BY <1>2, <1>4, SettersFields
    <3>2. pc' = "patch" /\ \E e : Return(j, e)
      BY <2>4 DEF Return
    <3> HIDE DEF j
    <3>3. AfterIs(j.providerID, j.ready, j.failed, j.fins)
      BY <3>1, <3>2, CopyOf
    <3> QED BY <1>3, <2>4, <3>1, <3>2, <3>3 DEF Unreadies
  <2>5. CASE ~input.allowRecreation /\ k.providerID /\ Return(SetFailure(k), FALSE)
    BY <1>2, <1>3, <2>1, <2>5 DEF Fails
  <2>6. CASE cPod.owner = "self" /\ k.providerID /\ Call("createPVCs", k)
    <3>1. AfterIs(k.providerID, k.ready, k.failed, k.fins)
      BY <1>2, <2>6, CopyOf
    <3> QED BY <1>2, <1>3, <2>6, <3>1 DEF GoesOn, Call
  <2> QED BY <1>8, <2>2, <2>3, <2>4, <2>5, <2>6 DEF NormalPodFound
<1> QED BY <1>3, <1>5, <1>6, <1>7, <1>8

(* reconcileDelete resets the machine first, or releases it.               *)
LEMMA DeleteCases ==
  ASSUME TypeOK, reconcileDelete
  PROVE  Resets \/ Releases
<1> DEFINE k == reconcileVersion(cKM)
<1>1. /\ k \in Machines /\ k.providerID = cKM.providerID /\ k.ready = cKM.ready
      /\ k.failed = cKM.failed /\ k.fins = cKM.fins
  BY SettersType, SettersFields DEF TypeOK
<1> DEFINE r == RemoveFinalizer(k)
<1>2. /\ cKM.deleting
      /\ \/ cPod.owner = "self" /\ Call("reset", k)
         \/ /\ ~Exists(cPod) \/ cPod.owner = "other" \/ clusterDeleting \/ ~input.controlPlane
            /\ Return(SetFailure(r), FALSE) \/ Return(r, FALSE)
  BY DEF reconcileDelete
<1> HIDE DEF k
<1>3. /\ r \in Machines /\ r.providerID = cKM.providerID /\ r.ready = cKM.ready
      /\ r.failed = cKM.failed /\ r.fins = cKM.fins \ {"machine"}
  <2>1. r \in Machines
    BY <1>1, SettersType
  <2>2. /\ r.providerID = k.providerID /\ r.ready = k.ready
        /\ r.failed = k.failed /\ r.fins = k.fins \ {"machine"}
    BY <1>1, SettersFields
  <2> QED BY <1>1, <2>1, <2>2, Zenon
<1> HIDE DEF r
<1>4. CASE cPod.owner = "self" /\ Call("reset", k)
  <2>1. AfterIs(k.providerID, k.ready, k.failed, k.fins)
    BY <1>1, <1>4, CopyOf
  <2> QED BY <1>1, <1>2, <1>4, <2>1 DEF Resets, Call
<1>5. CASE /\ ~Exists(cPod) \/ cPod.owner = "other" \/ clusterDeleting \/ ~input.controlPlane
           /\ Return(r, FALSE)
  <2>1. AfterIs(r.providerID, r.ready, r.failed, r.fins)
    BY <1>3, <1>5, CopyOf
  <2> QED BY <1>2, <1>3, <1>5, <2>1 DEF Releases, Return
<1>6. CASE /\ ~Exists(cPod) \/ cPod.owner = "other" \/ clusterDeleting \/ ~input.controlPlane
           /\ Return(SetFailure(r), FALSE)
  <2> DEFINE j == SetFailure(r)
  <2>1. /\ j \in Machines /\ j.providerID = cKM.providerID /\ j.ready = cKM.ready
        /\ j.failed = TRUE /\ j.fins = cKM.fins \ {"machine"}
    BY <1>3, SettersType, SettersFields
  <2>2. pc' = "patch" /\ \E e : Return(j, e)
    BY <1>6 DEF Return
  <2> HIDE DEF j
  <2>3. AfterIs(j.providerID, j.ready, j.failed, j.fins)
    BY <2>1, <2>2, CopyOf
  <2> QED BY <1>2, <1>6, <2>1, <2>2, <2>3 DEF Releases
<1> QED BY <1>2, <1>4, <1>5, <1>6

(* The paths of a whole reconciliation up to its first call.               *)
LEMMA ReconcileCases ==
  ASSUME TypeOK, Reconcile, ~ReconcileNotFound
  PROVE  /\ before' = cKM /\ cKM.exists /\ pc = "idle"
         /\ \/ Waits \/ Creates \/ Fails \/ Provides \/ Unreadies \/ GoesOn
            \/ Resets \/ Releases
<1>1. Fetch
  BY DEF Reconcile, AwaitOwner, AwaitCluster, AwaitKubernetesCluster,
         AwaitInfrastructure, reconcileNormal, reconcileDelete, Dispatch
<1>2. before' = cKM /\ cKM.exists /\ pc = "idle"
  BY <1>1 DEF Fetch, Take
<1>3. CASE AwaitOwner
  <2>1. pc' = "patch" /\ \E e : Return(cKM, e)
    BY <1>3 DEF AwaitOwner, Return
  <2>2. AfterIs(cKM.providerID, cKM.ready, cKM.failed, cKM.fins)
    BY <2>1, CopyOf DEF TypeOK
  <2> QED BY <1>2, <2>1, <2>2 DEF Waits
<1>4. CASE AwaitCluster \/ AwaitKubernetesCluster \/ AwaitInfrastructure
  <2> DEFINE k == reconcileVersion(cKM)
  <2>1. /\ k \in Machines /\ k.providerID = cKM.providerID /\ k.ready = cKM.ready
        /\ k.failed = cKM.failed /\ k.fins = cKM.fins
    BY SettersType, SettersFields DEF TypeOK
  <2>2. pc' = "patch" /\ \E e : Return(k, e)
    BY <1>4 DEF AwaitCluster, AwaitKubernetesCluster, AwaitInfrastructure, Return
  <2> HIDE DEF k
  <2>3. AfterIs(k.providerID, k.ready, k.failed, k.fins)
    BY <2>1, <2>2, CopyOf
  <2> QED BY <1>2, <2>1, <2>2, <2>3 DEF Waits
<1>5. CASE reconcileNormal
  BY <1>2, <1>5, NormalCases
<1>6. CASE reconcileDelete
  BY <1>2, <1>6, DeleteCases
<1> QED BY <1>3, <1>4, <1>5, <1>6 DEF Reconcile

-----------------------------------------------------------------------------
(* What the live calls and the patches do, path by path.                   *)

KeepsCopy == AfterIs(after.providerID, after.ready, after.failed, after.fins)

CallPaths ==
  /\ UNCHANGED <<km, cKM, cPod, before, input, clusterDeleting>>
  /\ created' \in Nat /\ created' >= created
  /\ pc \in Holding \cup {"createPod"}
  /\ \/ pc' = "patch" /\ KeepsCopy
     \/ /\ pc \in Holding /\ pc' \in Holding \ {"reset"}
        /\ pc' \in AfterTheRead => pc \in AfterTheRead
        /\ KeepsCopy
     \/ /\ pc = "createSecret" /\ pc' = "patch" /\ ~input.allowRecreation
        /\ AfterIs(after.providerID, after.ready, TRUE, after.fins)
     \/ /\ pc = "setProviderID" /\ pc' = "patch"
        /\ AfterIs(after.providerID, TRUE, after.failed, after.fins)
     \/ /\ pc = "reset" /\ pc' = "patch" /\ reset'
        /\ AfterIs(after.providerID, after.ready, after.failed, after.fins \ {"machine"})

(* Every live call takes one of these paths.                               *)
LEMMA CallCases ==
  ASSUME TypeOK,
         \/ createMachinePod \/ createPersistentVolumeClaims \/ createSecret \/ deletePod
         \/ enableBoostrapProcess \/ setNodeProviderID \/ kubeadmReset \/ ExecHangs \/ ExecEnds
         \/ KubectlHangs \/ KubectlEnds
  PROVE  CallPaths
<1> USE DEF Step, cache, others
<1>1. UNCHANGED <<km, cKM, cPod, before, input, clusterDeleting>>
  BY DEF createMachinePod, createPersistentVolumeClaims, createSecret, deletePod, server,
         enableBoostrapProcess, setNodeProviderID, kubeadmReset, ExecHangs, ExecEnds,
         KubectlHangs, KubectlEnds
<1>2. created' \in Nat /\ created' >= created
  <2>1. created' = created \/ created' = created + 1
    BY DEF createMachinePod, createPersistentVolumeClaims, createSecret, deletePod,
           enableBoostrapProcess, setNodeProviderID, kubeadmReset, ExecHangs, ExecEnds,
         KubectlHangs, KubectlEnds
  <2> QED BY <2>1 DEF TypeOK
<1>3. ASSUME (\E e : Return(after, e)) \/ (\E s : Proceed(s)) PROVE KeepsCopy
  <2>1. CASE \E e : Return(after, e)
    BY <2>1, CopyOf DEF TypeOK, KeepsCopy
  <2>2. CASE \E s : Proceed(s)
    BY <2>2 DEF Proceed, KeepsCopy, AfterIs
  <2> QED BY <1>3, <2>1, <2>2
<1>4. ASSUME NEW k, NEW e, Return(k, e) PROVE pc' = "patch"
  BY <1>4 DEF Return
<1>5. CASE createMachinePod
  <2>1. pc = "createPod" /\ \E e : Return(after, e)
    BY <1>5 DEF createMachinePod
  <2> QED BY <1>1, <1>2, <1>3, <1>4, <2>1 DEF CallPaths
<1>6. CASE createPersistentVolumeClaims
  <2>1. pc = "createPVCs" /\ ((\E e : Return(after, e)) \/ Proceed("createSecret"))
    BY <1>6 DEF createPersistentVolumeClaims
  <2> QED BY <1>1, <1>2, <1>3, <1>4, <2>1 DEF CallPaths, Holding, AfterTheRead, Proceed
<1>7. CASE createSecret
  <2>1. /\ pc = "createSecret"
        /\ \/ \E e : Return(after, e)
           \/ ~input.allowRecreation /\ Return(SetFailure(after), FALSE)
           \/ \E s \in {"deletePod", "enable"} : Proceed(s)
    BY <1>7 DEF createSecret
  <2>2. CASE (\E e : Return(after, e)) \/ \E s \in {"deletePod", "enable"} : Proceed(s)
    BY <1>1, <1>2, <1>3, <1>4, <2>1, <2>2 DEF CallPaths, Holding, AfterTheRead, Proceed
  <2>3. CASE ~input.allowRecreation /\ Return(SetFailure(after), FALSE)
    <3> DEFINE j == SetFailure(after)
    <3>1. /\ j \in Machines /\ j.providerID = after.providerID /\ j.ready = after.ready
          /\ j.failed = TRUE /\ j.fins = after.fins
      BY SettersType, SettersFields DEF TypeOK
    <3>2. pc' = "patch" /\ \E e : Return(j, e)
      BY <2>3, <1>4
    <3> HIDE DEF j
    <3>3. AfterIs(j.providerID, j.ready, j.failed, j.fins)
      BY <3>1, <3>2, CopyOf
    <3> QED BY <1>1, <1>2, <2>1, <2>3, <3>1, <3>2, <3>3 DEF CallPaths, Holding, AfterTheRead
  <2> QED BY <2>1, <2>2, <2>3
<1>8. CASE deletePod
  <2>1. pc = "deletePod" /\ \E e : Return(after, e)
    BY <1>8 DEF deletePod
  <2> QED BY <1>1, <1>2, <1>3, <1>4, <2>1 DEF CallPaths, Holding, AfterTheRead
<1>9. CASE enableBoostrapProcess
  <2>1. pc = "enable" /\ ((\E e : Return(after, e)) \/ Proceed("setProviderID"))
    BY <1>9 DEF enableBoostrapProcess
  <2> QED BY <1>1, <1>2, <1>3, <1>4, <2>1 DEF CallPaths, Holding, AfterTheRead, Proceed
<1>10. CASE setNodeProviderID
  <2>1. /\ pc = "setProviderID"
        /\ (\E e : Return(after, e)) \/ Return(SetReady(after, TRUE), FALSE)
    BY <1>10 DEF setNodeProviderID
  <2>2. CASE \E e : Return(after, e)
    BY <1>1, <1>2, <1>3, <1>4, <2>1, <2>2 DEF CallPaths, Holding, AfterTheRead
  <2>3. CASE Return(SetReady(after, TRUE), FALSE)
    <3> DEFINE j == SetReady(after, TRUE)
    <3>1. /\ j \in Machines /\ j.providerID = after.providerID /\ j.ready = TRUE
          /\ j.failed = after.failed /\ j.fins = after.fins
      BY SettersType, SettersFields DEF TypeOK
    <3>2. pc' = "patch" /\ \E e : Return(j, e)
      BY <2>3, <1>4
    <3> HIDE DEF j
    <3>3. AfterIs(j.providerID, j.ready, j.failed, j.fins)
      BY <3>1, <3>2, CopyOf
    <3> QED BY <1>1, <1>2, <2>1, <2>3, <3>1, <3>2, <3>3 DEF CallPaths, Holding, AfterTheRead
  <2> QED BY <2>1, <2>2, <2>3
<1>11. CASE kubeadmReset
  <2>1. /\ pc = "reset"
        /\ (\E e : Return(after, e)) \/ (reset' /\ Return(RemoveFinalizer(after), FALSE))
    BY <1>11 DEF kubeadmReset
  <2>2. CASE \E e : Return(after, e)
    BY <1>1, <1>2, <1>3, <1>4, <2>1, <2>2 DEF CallPaths, Holding, AfterTheRead
  <2>3. CASE reset' /\ Return(RemoveFinalizer(after), FALSE)
    <3> DEFINE j == RemoveFinalizer(after)
    <3>1. /\ j \in Machines /\ j.providerID = after.providerID /\ j.ready = after.ready
          /\ j.failed = after.failed /\ j.fins = after.fins \ {"machine"}
      BY SettersType, SettersFields DEF TypeOK
    <3>2. pc' = "patch" /\ \E e : Return(j, e)
      BY <2>3, <1>4
    <3> HIDE DEF j
    <3>3. AfterIs(j.providerID, j.ready, j.failed, j.fins)
      BY <3>1, <3>2, CopyOf
    <3> QED BY <1>1, <1>2, <2>1, <2>3, <3>1, <3>2, <3>3 DEF CallPaths, Holding, AfterTheRead
  <2> QED BY <2>1, <2>2, <2>3
<1>12. CASE ExecHangs \/ KubectlHangs
  BY <1>1, <1>2, <1>12
  DEF ExecHangs, KubectlHangs, CallPaths, Holding, AfterTheRead, KeepsCopy, AfterIs
<1>13. CASE ExecEnds \/ KubectlEnds
  BY <1>1, <1>2, <1>3, <1>4, <1>13 DEF ExecEnds, KubectlEnds, CallPaths, Holding, AfterTheRead
<1> QED
  BY <1>5, <1>6, <1>7, <1>8, <1>9, <1>10, <1>11, <1>12, <1>13

(* The object on the API server has these fields.                          *)
MachineIs(d, p, r, f, s) ==
  /\ km'.exists /\ km'.deleting = d /\ km'.providerID = p /\ km'.ready = r
  /\ km'.failed = f /\ km'.fins = s

(* The spec patch does nothing, removes the object with its last           *)
(* finalizer, or sends provider ID and finalizers.                         *)
LEMMA PatchCases ==
  ASSUME TypeOK, Patch
  PROVE  /\ pc = "patch" /\ pc' = "patchStatus"
         /\ UNCHANGED <<cKM, before, after, input, created, clusterDeleting>>
         /\ \/ km' = km
            \/ /\ km.exists /\ km.deleting /\ km' = GoneMachine
               /\ Sent(after.fins, before.fins, km.fins) = {}
            \/ /\ km.exists
               /\ MachineIs(km.deleting, Sent(after.providerID, before.providerID, km.providerID),
                            km.ready, km.failed, Sent(after.fins, before.fins, km.fins))
<1> DEFINE k == MergeSpec(km)
<1>1. /\ pc = "patch" /\ pc' = "patchStatus"
      /\ UNCHANGED <<cKM, before, after, input, created, clusterDeleting>>
      /\ km' = km \/ (km.exists /\ km' = Settle(k))
  BY DEF Patch, Step, cache, others, SpecAccepted
<1>2. /\ k.exists = km.exists /\ k.deleting = km.deleting /\ k.ready = km.ready
      /\ k.failed = km.failed /\ k.fins = Sent(after.fins, before.fins, km.fins)
      /\ k.providerID = Sent(after.providerID, before.providerID, km.providerID)
  BY DEF TypeOK, Machines, MergeSpec
<1> HIDE DEF k
<1> QED BY <1>1, <1>2 DEF Settle, MachineIs

(* The status patch does nothing, or sends Ready and the failure.          *)
LEMMA PatchStatusCases ==
  ASSUME TypeOK, PatchStatus
  PROVE  /\ pc = "patchStatus" /\ pc' = "idle"
         /\ UNCHANGED <<cKM, input, created, clusterDeleting>>
         /\ \/ km' = km
            \/ /\ km.exists
               /\ MachineIs(km.deleting, km.providerID, Sent(after.ready, before.ready, km.ready),
                            Sent(after.failed, before.failed, km.failed), km.fins)
<1> DEFINE k == MergeStatus(km)
<1>1. /\ pc = "patchStatus" /\ pc' = "idle"
      /\ UNCHANGED <<cKM, input, created, clusterDeleting>>
      /\ km' = km \/ (km.exists /\ km' = k)
  BY DEF PatchStatus, Forget, cache, others
<1>2. /\ k.exists = km.exists /\ k.deleting = km.deleting /\ k.providerID = km.providerID
      /\ k.ready = Sent(after.ready, before.ready, km.ready)
      /\ k.failed = Sent(after.failed, before.failed, km.failed) /\ k.fins = km.fins
  BY DEF TypeOK, Machines, MergeStatus
<1> HIDE DEF k
<1> QED BY <1>1, <1>2 DEF MachineIs

(* A delete request, or the garbage collector's last word, marks the       *)
(* object, or removes it; the reconciler's finalizer stays.                *)
LEMMA DeletionCases ==
  ASSUME TypeOK, GoneIsBlank, (\E p : DeleteMachine(p)) \/ CollectMachine
  PROVE  /\ km.exists
         /\ UNCHANGED <<cKM, before, after, pc, input, created, clusterDeleting>>
         /\ \/ km' = GoneMachine /\ "machine" \notin km.fins
            \/ \E s \in {km.fins, km.fins \ {"foreground"}} :
                 MachineIs(TRUE, km.providerID, km.ready, km.failed, s)
<1>1. UNCHANGED <<cKM, before, after, pc, input, created, clusterDeleting>>
  BY DEF DeleteMachine, CollectMachine, cache, others, local
<1>2. ASSUME NEW p, DeleteMachine(p)
      PROVE  /\ km.exists
             /\ \/ km' = GoneMachine /\ "machine" \notin km.fins
                \/ \E s \in {km.fins, km.fins \ {"foreground"}} :
                     MachineIs(TRUE, km.providerID, km.ready, km.failed, s)
  <2> DEFINE s == IF p = "background" THEN km.fins \ {"foreground"} ELSE km.fins
             k == [km EXCEPT !.deleting = TRUE, !.fins = s]
  <2>1. /\ k.exists = km.exists /\ k.deleting = TRUE /\ k.providerID = km.providerID
        /\ k.ready = km.ready /\ k.failed = km.failed /\ k.fins = s
    BY DEF TypeOK, Machines
  <2>2. km.exists /\ km' = Settle(k)
    BY <1>2 DEF DeleteMachine
  <2>3. s \in {km.fins, km.fins \ {"foreground"}}
    OBVIOUS
  <2>4. s = {} => "machine" \notin km.fins
    OBVIOUS
  <2> HIDE DEF k, s
  <2>5. km' = IF s = {} THEN GoneMachine ELSE k
    BY <2>1, <2>2 DEF Settle
  <2>6. CASE s = {}
    BY <2>2, <2>4, <2>5, <2>6
  <2>7. CASE s # {}
    <3>1. MachineIs(TRUE, km.providerID, km.ready, km.failed, s)
      BY <2>1, <2>2, <2>5, <2>7 DEF MachineIs
    <3> QED BY <2>2, <2>3, <3>1
  <2> QED BY <2>6, <2>7
<1>3. ASSUME CollectMachine
      PROVE  /\ km.exists
             /\ \/ km' = GoneMachine /\ "machine" \notin km.fins
                \/ \E s \in {km.fins, km.fins \ {"foreground"}} :
                     MachineIs(TRUE, km.providerID, km.ready, km.failed, s)
  <2> DEFINE s == km.fins \ {"foreground"}
             k == [km EXCEPT !.fins = s]
  <2>1. /\ k.exists = km.exists /\ k.deleting = km.deleting /\ k.providerID = km.providerID
        /\ k.ready = km.ready /\ k.failed = km.failed /\ k.fins = s
    BY DEF TypeOK, Machines
  <2>2. km.deleting /\ km' = Settle(k)
    BY <1>3 DEF CollectMachine
  <2>3. km.exists
    BY <2>2, GoneFields DEF GoneIsBlank
  <2>4. km.deleting = TRUE
    BY <2>2, MachineFields DEF TypeOK
  <2>5. s = {} => "machine" \notin km.fins
    OBVIOUS
  <2> HIDE DEF k, s
  <2>6. km' = IF s = {} THEN GoneMachine ELSE k
    BY <2>1, <2>2 DEF Settle
  <2>7. CASE s = {}
    BY <2>3, <2>5, <2>6, <2>7
  <2>8. CASE s # {}
    <3>1. MachineIs(TRUE, km.providerID, km.ready, km.failed, s)
      BY <2>1, <2>3, <2>4, <2>6, <2>8 DEF MachineIs
    <3> QED BY <2>3, <3>1 DEF s
  <2> QED BY <2>7, <2>8
<1> QED BY <1>1, <1>2, <1>3

-----------------------------------------------------------------------------
(* LifecycleInv is inductive when no other owner's Pod has the name.       *)

(* LifecycleInv without the parts that are proved already.                 *)
Copies == CopyIsSober /\ FailureIsFinal /\ GoneIsBlank

(* The fields that the copies are compared by are Booleans.                *)
LEMMA CopyFields ==
  ASSUME TypeOK
  PROVE  /\ km.failed \in BOOLEAN /\ km.deleting \in BOOLEAN /\ km.providerID \in BOOLEAN
         /\ km.ready \in BOOLEAN /\ km.exists \in BOOLEAN
         /\ cKM.failed \in BOOLEAN /\ cKM.deleting \in BOOLEAN /\ cKM.providerID \in BOOLEAN
         /\ cKM.ready \in BOOLEAN /\ cKM.exists \in BOOLEAN
         /\ before.failed \in BOOLEAN /\ before.deleting \in BOOLEAN
         /\ before.providerID \in BOOLEAN /\ before.ready \in BOOLEAN
         /\ after.failed \in BOOLEAN /\ after.providerID \in BOOLEAN /\ after.ready \in BOOLEAN
BY MachineFields DEF TypeOK

(* The copies agree initially.                                             *)
LEMMA InitCopies == Init => Copies
<1> SUFFICES ASSUME Init PROVE Copies
  OBVIOUS
<1>1. /\ pc = "idle" /\ km = NewMachine /\ cKM = NewMachine
      /\ NewMachine.exists /\ ~NewMachine.failed /\ ~NewMachine.deleting /\ ~NewMachine.providerID
  BY DEF Init, NewMachine
<1> QED
  BY <1>1 DEF Copies, CopyIsSober, Holding, FailureIsFinal, GoneIsBlank, Acting, Final, AfterTheRead

(* A step that leaves the machine and its copies alone.                    *)
LEMMA FrameCopies ==
  ASSUME TypeOK, Copies, UNCHANGED <<km, cKM, before, after, pc, input>>,
         created' = created
  PROVE  Copies'
BY DEF Copies, CopyIsSober, Holding, FailureIsFinal, GoneIsBlank, Acting, Final

(* What a reconciliation decides keeps the copies in agreement: it decides *)
(* on a failure only where no Pod may follow, and sets a provider ID only  *)
(* for a Pod that was built.                                               *)
LEMMA ReconcileCopies ==
  ASSUME "pod" \notin Foreign, TypeOK, Links, PodsInv, Copies, Reconcile
  PROVE  Copies'
<1>1. pc = "idle" /\ UNCHANGED <<km, cKM, input, created>>
  BY DEF Reconcile, ReconcileNotFound, AwaitOwner, AwaitCluster, AwaitKubernetesCluster,
         AwaitInfrastructure, reconcileNormal, reconcileDelete, Dispatch, Fetch, Take,
         server, cache, others
<1>2. CASE ReconcileNotFound
  BY <1>1, <1>2, FrameCopies DEF ReconcileNotFound, local
<1>3. CASE ~ReconcileNotFound
  <2>1. /\ before' = cKM /\ cKM.exists
        /\ \/ Waits \/ Creates \/ Fails \/ Provides \/ Unreadies \/ GoesOn \/ Resets \/ Releases
    BY <1>3, ReconcileCases
  <2>2. Exists(cPod) => cPod.owner = "self"
    BY PodFields DEF PodsInv, Accounted, Theirs, Exists
  <2>3. cPod.owner = "self" => created > 0
    BY PodFields DEF PodsInv, Accounted, Theirs, TypeOK
  <2>4. /\ pc' \in {"patch", "createPod", "createPVCs", "reset"}
        /\ after'.providerID /\ ~cKM.providerID => created > 0
        /\ cKM.ready /\ ~after'.ready => input.allowRecreation
        /\ cKM.failed => after'.failed
        /\ after'.ready = cKM.ready \/ after'.failed = cKM.failed
        /\ pc' = "createPod" => after'.failed = cKM.failed /\ ~Final(cKM)
        /\ pc' \in {"createPVCs", "reset"} => after'.ready = cKM.ready /\ after'.failed = cKM.failed
    BY <2>1, <2>2, <2>3 DEF Waits, Creates, Fails, Provides, Unreadies, GoesOn, Resets, Releases,
                            AfterIs, Final
  <2>5. after'.failed => Final(cKM)
    BY <2>1, <2>2 DEF Waits, Creates, Fails, Provides, Unreadies, GoesOn, Resets, Releases,
                      AfterIs, Final
  <2>6. Final(cKM)' <=> Final(cKM)
    BY <1>1 DEF Final
  <2>7. Final(before)' <=> Final(cKM)
    BY <1>1, <2>1 DEF Final
  <2>8. Final(km)' <=> Final(km)
    BY <1>1 DEF Final
  <2>9. CopyIsSober'
    BY <1>1, <2>1, <2>4 DEF CopyIsSober, Holding, AfterTheRead, Acting
  <2>10. FailureIsFinal'
    BY <1>1, <2>1, <2>4, <2>5, <2>6, <2>7, <2>8 DEF Copies, FailureIsFinal, Acting
  <2> QED BY <1>1, <2>9, <2>10 DEF Copies, GoneIsBlank
<1> QED BY <1>2, <1>3

(* The live calls keep the copies in agreement.                            *)
LEMMA CallCopies ==
  ASSUME TypeOK, Links, Copies, CallPaths
  PROVE  Copies'
<1>1. /\ UNCHANGED <<km, cKM, before, input>> /\ created' \in Nat /\ created' >= created
      /\ created \in Nat /\ Acting /\ pc' # "createPod"
  BY DEF CallPaths, Holding, AfterTheRead, TypeOK, Acting
<1>2. /\ Final(cKM)' <=> Final(cKM)
      /\ Final(before)' <=> Final(before)
      /\ Final(km)' <=> Final(km)
  BY <1>1 DEF Final
<1>3. CASE /\ KeepsCopy /\ \/ pc' = "patch"
                           \/ pc \in Holding /\ pc' \in Holding
  <2>1. /\ after'.providerID = after.providerID /\ after'.ready = after.ready
        /\ after'.failed = after.failed
    BY <1>3 DEF KeepsCopy, AfterIs
  <2>2. CopyIsSober'
    BY <1>1, <1>3, <2>1 DEF Copies, CopyIsSober, Acting, Holding, AfterTheRead
  <2>3. FailureIsFinal'
    BY <1>1, <1>2, <2>1 DEF Copies, FailureIsFinal, Acting
  <2> QED BY <1>1, <2>2, <2>3 DEF Copies, GoneIsBlank
<1>4. CASE /\ pc = "createSecret" /\ pc' = "patch" /\ ~input.allowRecreation
           /\ AfterIs(after.providerID, after.ready, TRUE, after.fins)
  <2>1. before.providerID /\ Final(before)
    BY <1>4 DEF Links, StepsFollowProviderID, AfterTheRead, Final
  <2>2. CopyIsSober'
    BY <1>1, <1>4 DEF Copies, CopyIsSober, Holding, Acting, AfterTheRead, AfterIs
  <2>3. FailureIsFinal'
    BY <1>1, <1>2, <1>4, <2>1 DEF Copies, FailureIsFinal, Acting
  <2> QED BY <1>1, <2>2, <2>3 DEF Copies, GoneIsBlank
<1>5. CASE /\ pc = "setProviderID" /\ pc' = "patch"
           /\ AfterIs(after.providerID, TRUE, after.failed, after.fins)
  <2>1. CopyIsSober'
    BY <1>1, <1>5 DEF Copies, CopyIsSober, Holding, Acting, AfterTheRead, AfterIs
  <2>2. FailureIsFinal'
    BY <1>1, <1>2, <1>5 DEF Copies, FailureIsFinal, Acting, AfterIs
  <2> QED BY <1>1, <2>1, <2>2 DEF Copies, GoneIsBlank
<1>6. CASE /\ pc = "reset" /\ pc' = "patch"
           /\ AfterIs(after.providerID, after.ready, after.failed, after.fins \ {"machine"})
  <2>1. CopyIsSober'
    BY <1>1, <1>6 DEF Copies, CopyIsSober, Holding, Acting, AfterTheRead, AfterIs
  <2>2. FailureIsFinal'
    BY <1>1, <1>2, <1>6 DEF Copies, FailureIsFinal, Acting, AfterIs
  <2> QED BY <1>1, <2>1, <2>2 DEF Copies, GoneIsBlank
<1> QED BY <1>3, <1>4, <1>5, <1>6 DEF CallPaths

(* The spec patch keeps the copies in agreement.                           *)
LEMMA PatchCopies == ASSUME TypeOK, Links, Copies, Patch PROVE Copies'
<1>1. /\ pc = "patch" /\ pc' = "patchStatus"
      /\ UNCHANGED <<cKM, before, after, input, created>>
      /\ \/ km' = km
         \/ km' = GoneMachine
         \/ /\ km.exists /\ km'.exists /\ km'.deleting = km.deleting /\ km'.failed = km.failed
            /\ km'.providerID = Sent(after.providerID, before.providerID, km.providerID)
  BY PatchCases DEF MachineIs
<1>2. km.providerID /\ km'.exists => km'.providerID
  <2>1. before.providerID => after.providerID
    BY <1>1 DEF Links, ProviderIDIsStable, Acting
  <2> QED BY <1>1, <2>1, CopyFields, GoneFields DEF Sent
<1>3. Final(km) => (km'.exists => Final(km)')
  BY <1>1, <1>2, GoneFields DEF Final
<1>4. Final(cKM)' <=> Final(cKM)
  BY <1>1 DEF Final
<1>5. Final(before)' <=> Final(before)
  BY <1>1 DEF Final
<1>6. km'.failed => km.failed /\ km'.exists
  BY <1>1 DEF Copies, FailureIsFinal, GoneMachine, NewMachine
<1>7. km'.exists => km.exists
  BY <1>1, GoneFields
<1>8. CopyIsSober'
  BY <1>1 DEF Copies, CopyIsSober, Holding, Acting, AfterTheRead
<1>9. FailureIsFinal'
  BY <1>1, <1>3, <1>4, <1>5, <1>6, <1>7 DEF Copies, FailureIsFinal, Acting
<1>10. GoneIsBlank'
  BY <1>1 DEF Copies, GoneIsBlank
<1> QED BY <1>8, <1>9, <1>10 DEF Copies

(* The status patch keeps the copies in agreement: a failure is never      *)
(* withdrawn, and one that is new was decided where no Pod may follow.     *)
LEMMA PatchStatusCopies == ASSUME TypeOK, Links, Copies, PatchStatus PROVE Copies'
<1>1. /\ pc = "patchStatus" /\ pc' = "idle"
      /\ UNCHANGED <<cKM, input, created>>
      /\ \/ km' = km
         \/ /\ km.exists /\ km'.exists /\ km'.deleting = km.deleting
            /\ km'.providerID = km.providerID
            /\ km'.failed = Sent(after.failed, before.failed, km.failed)
  BY PatchStatusCases DEF MachineIs
<1>2. km.failed => km'.failed
  <2>1. before.failed => after.failed
    BY <1>1 DEF Copies, CopyIsSober, Holding, Acting
  <2> QED BY <1>1, <2>1, CopyFields DEF Sent
<1>3. Final(km) => (km'.exists => Final(km)')
  BY <1>1, <1>2 DEF Final
<1>4. Final(cKM)' <=> Final(cKM)
  BY <1>1 DEF Final
<1>5. km'.failed /\ ~km.failed => km'.exists /\ Final(cKM)
  <2> SUFFICES ASSUME km'.failed, ~km.failed PROVE km'.exists /\ Final(cKM)
    OBVIOUS
  <2>1. km.exists /\ km'.exists /\ after.failed
    BY <1>1, CopyFields DEF Sent
  <2>2. Final(before) /\ cKM.exists
    BY <1>1, <2>1 DEF Copies, FailureIsFinal, Links, CacheTrailsExistence, Acting
  <2> QED BY <1>1, <2>1, <2>2 DEF Copies, FailureIsFinal, Acting
<1>6. km'.failed => km'.exists /\ Final(cKM)
  BY <1>1, <1>5 DEF Copies, FailureIsFinal
<1>7. km'.exists => km.exists
  BY <1>1
<1>8. CopyIsSober'
  BY <1>1 DEF CopyIsSober, Holding, Acting, AfterTheRead
<1>9. FailureIsFinal'
  BY <1>1, <1>3, <1>4, <1>6, <1>7 DEF Copies, FailureIsFinal, Acting
<1>10. GoneIsBlank'
  BY <1>1 DEF Copies, GoneIsBlank
<1> QED BY <1>8, <1>9, <1>10 DEF Copies

(* A cache that catches up, by an event or a restart.                      *)
LEMMA CatchUpCopies == ASSUME TypeOK, Links, Copies, SyncKM \/ Crash PROVE Copies'
<1>1. /\ cKM' = km /\ UNCHANGED <<km, input, created>>
      /\ pc' = "idle" \/ UNCHANGED <<pc, before, after>>
  BY DEF SyncKM, Crash, Forget, server, others, local
<1>2. Final(km)' <=> Final(km)
  BY <1>1 DEF Final
<1>3. Final(cKM)' <=> Final(km)
  BY <1>1 DEF Final
<1>4. km.failed => km.exists /\ Final(km)
  BY DEF Copies, FailureIsFinal, Final
<1>5. CASE pc' = "idle"
  BY <1>1, <1>2, <1>3, <1>4, <1>5
  DEF Copies, CopyIsSober, Holding, FailureIsFinal, GoneIsBlank, Acting, AfterTheRead
<1>6. CASE UNCHANGED <<pc, before, after>>
  <2>1. Final(before)' <=> Final(before)
    BY <1>1, <1>6 DEF Final
  <2>2. Acting /\ Final(before) => (km.exists => Final(km))
    BY DEF Copies, FailureIsFinal, Links, CacheTrailsExistence
  <2>3. FailureIsFinal'
    BY <1>1, <1>2, <1>3, <1>4, <1>6, <2>1, <2>2 DEF Copies, FailureIsFinal, Acting
  <2>4. CopyIsSober' /\ GoneIsBlank'
    BY <1>1, <1>6 DEF Copies, CopyIsSober, Holding, GoneIsBlank, Acting
  <2> QED BY <2>3, <2>4 DEF Copies
<1> QED BY <1>1, <1>5, <1>6

(* A delete request, or the garbage collector's last word.                 *)
LEMMA DeletionCopies ==
  ASSUME TypeOK, Links, Copies, (\E p : DeleteMachine(p)) \/ CollectMachine
  PROVE  Copies'
<1>1. /\ km.exists
      /\ UNCHANGED <<cKM, before, after, pc, input, created>>
      /\ \/ km' = GoneMachine
         \/ km'.exists /\ km'.deleting /\ km'.failed = km.failed
  BY DeletionCases DEF Copies, MachineIs
<1>2. Final(cKM)' <=> Final(cKM)
  BY <1>1 DEF Final
<1>3. Final(before)' <=> Final(before)
  BY <1>1 DEF Final
<1>4. km'.exists => Final(km)'
  BY <1>1, GoneFields DEF Final
<1>5. km'.failed => km.failed /\ km'.exists
  BY <1>1 DEF GoneMachine, NewMachine
<1>6. CopyIsSober' /\ GoneIsBlank'
  BY <1>1 DEF Copies, CopyIsSober, Holding, GoneIsBlank, Acting
<1>7. FailureIsFinal'
  BY <1>1, <1>2, <1>3, <1>4, <1>5 DEF Copies, FailureIsFinal, Acting
<1> QED BY <1>6, <1>7 DEF Copies

(* The steps that concern neither the machine nor its copies.              *)
Elsewhere ==
  \/ SyncPod \/ Resync \/ (\E x \in Prereqs : Provide(x)) \/ DeleteCluster \/ Pause \/ Unpause
  \/ CollectPod \/ CollectSecret \/ CollectClaims \/ ForeignComes \/ ForeignGoes
  \/ NodeJoins
  \/ Kubelet \/ PodLost \/ KindTerminates \/ PodUnready

(* They leave the machine, its copies and the count of Pods alone.         *)
LEMMA ElsewhereFrame ==
  ASSUME Elsewhere \/ Withdraw \/ UNCHANGED vars
  PROVE  UNCHANGED <<km, cKM, before, after, pc, input, created>>
BY DEF Elsewhere, Withdraw, SyncPod, Resync, Provide, DeleteCluster, Pause, Unpause, CollectPod,
       CollectSecret, CollectClaims, ForeignComes, ForeignGoes, NodeJoins, Kubelet, KubeletStarts,
       KubeletRemoves, PodLost, KindTerminates, PodUnready, PodChanges,
       vars, server, cache, others, local

(* The live calls of a reconciliation, and the exec that hangs.            *)
Calls ==
  \/ createMachinePod \/ createPersistentVolumeClaims \/ createSecret \/ deletePod
  \/ enableBoostrapProcess \/ setNodeProviderID \/ kubeadmReset \/ ExecHangs \/ ExecEnds
  \/ KubectlHangs \/ KubectlEnds

(* The steps of the specification, grouped by what they do to the machine  *)
(* and its copies.                                                         *)
LEMMA NextCases ==
  ASSUME [Next]_vars
  PROVE  \/ Reconcile \/ Calls \/ Patch \/ PatchStatus \/ SyncKM \/ Crash
         \/ (\E p : DeleteMachine(p)) \/ CollectMachine
         \/ Elsewhere \/ UNCHANGED vars
BY DEF Next, Controller, Watches, GarbageCollector, Users, Faults, Calls, Elsewhere

(* With those that the others may take besides.                            *)
LEMMA OpenCases ==
  ASSUME [OpenNext]_vars
  PROVE  \/ Reconcile \/ Calls \/ Patch \/ PatchStatus \/ SyncKM \/ Crash
         \/ (\E p : DeleteMachine(p)) \/ CollectMachine
         \/ Elsewhere \/ Withdraw \/ UNCHANGED vars
<1>1. CASE [Next]_vars
  BY <1>1, NextCases
<1> QED BY <1>1 DEF OpenNext

(* Every step keeps the copies in agreement.                               *)
LEMMA NextCopies ==
  ASSUME "pod" \notin Foreign, TypeOK, Links, PodsInv, Copies, [OpenNext]_vars
  PROVE  Copies'
<1>1. CASE Reconcile
  BY <1>1, ReconcileCopies
<1>2. CASE Calls
  BY <1>2, CallCases, CallCopies DEF Calls
<1>3. CASE Patch \/ PatchStatus
  BY <1>3, PatchCopies, PatchStatusCopies
<1>4. CASE SyncKM \/ Crash
  BY <1>4, CatchUpCopies
<1>5. CASE (\E p : DeleteMachine(p)) \/ CollectMachine
  BY <1>5, DeletionCopies
<1>6. CASE Elsewhere \/ Withdraw \/ UNCHANGED vars
  BY <1>6, ElsewhereFrame, FrameCopies
<1> QED BY <1>1, <1>2, <1>3, <1>4, <1>5, <1>6, OpenCases

(* The invariant of the refinement: no copy of the machine, however stale, *)
(* leads the reconciler to undo what has been reported.                    *)
THEOREM LifecycleInvariant ==
  ASSUME "pod" \notin Foreign
  PROVE  OpenSpec => []LifecycleInv
<1>1. Init => LifecycleInv
  BY InitTypeOK, InitLinks, InitPods, InitCopies DEF LifecycleInv, ReadyInv, Links, Copies
<1>2. LifecycleInv /\ [OpenNext]_vars => LifecycleInv'
  BY NextTypeOK, NextLinks, NextPods, NextCopies DEF LifecycleInv, ReadyInv, Links, Copies
<1> QED
  BY <1>1, <1>2, PTL DEF OpenSpec

-----------------------------------------------------------------------------
(* The refinement.                                                         *)

View == <<Stage, km.failed, km.deleting, created, input.allowRecreation>>

(* Stage by the fields that it is made of.                                 *)
LEMMA StageOf ==
  ASSUME TypeOK, Links
  PROVE  /\ ~km.exists => Stage = "gone"
         /\ km.exists /\ km.ready => Stage = "running"
         /\ km.exists /\ ~km.ready /\ km.providerID => Stage = "provisioned"
         /\ km.exists /\ ~km.ready /\ ~km.providerID => Stage = "pending"
BY CopyFields DEF Stage

(* The removal of the object is the abstract Remove.                       *)
LEMMA GoneImplements ==
  ASSUME TypeOK, TypeOK', Links, Links', km.exists, km' = GoneMachine,
         UNCHANGED <<created, input>>
  PROVE  Lifecycle!Remove
<1>1. /\ Stage # "gone" /\ Stage' = "gone"
  BY StageOf, CopyFields, GoneFields DEF Stage
<1>2. km'.failed = FALSE /\ km'.deleting = FALSE
  BY DEF GoneMachine, NewMachine
<1> QED BY <1>1, <1>2 DEF Lifecycle!Remove

(* A step that changes neither the machine nor the count is a stutter.     *)
LEMMA FrameImplements ==
  ASSUME UNCHANGED <<km, created, input>>
  PROVE  UNCHANGED View
BY DEF View, Stage

(* The creation of a Pod is the abstract Build: the machine has not failed *)
(* and, when it runs, may be rebuilt.                                      *)
LEMMA CallImplements ==
  ASSUME TypeOK, LifecycleInv, Calls
  PROVE  Lifecycle!Build \/ UNCHANGED View
<1>1. UNCHANGED <<km, input>>
  BY CallCases DEF Calls, CallPaths
<1>2. created' = created \/ (pc = "createPod" /\ created' = created + 1)
  BY DEF Calls, Step, createMachinePod, createPersistentVolumeClaims, createSecret, deletePod,
         enableBoostrapProcess, setNodeProviderID, kubeadmReset, ExecHangs, ExecEnds,
         KubectlHangs, KubectlEnds
<1>3. CASE created' = created
  BY <1>1, <1>3, FrameImplements
<1>4. CASE pc = "createPod" /\ created' = created + 1
  <2>1. ~km.failed
    BY <1>4 DEF LifecycleInv, FailureIsFinal, Acting
  <2>2. Stage = "running" => input.allowRecreation
    <3>1. km.ready => input.allowRecreation
      BY <1>4 DEF LifecycleInv, ReadyInv, ReadyFollowsProviderID, StepsFollowProviderID, Acting
    <3> QED BY <3>1 DEF Stage
  <2>3. UNCHANGED <<Stage, km.failed, km.deleting, input.allowRecreation>>
    BY <1>1 DEF Stage
  <2> QED BY <1>4, <2>1, <2>2, <2>3 DEF Lifecycle!Build
<1> QED BY <1>2, <1>3, <1>4

(* The spec patch is the abstract Provision, Remove or a stutter.          *)
LEMMA PatchImplements ==
  ASSUME TypeOK, TypeOK', Links, Links', LifecycleInv, Patch
  PROVE  Lifecycle!Provision \/ Lifecycle!Remove \/ UNCHANGED View
<1>1. /\ pc = "patch" /\ UNCHANGED <<input, created>>
      /\ \/ km' = km
         \/ km.exists /\ km' = GoneMachine
         \/ /\ km.exists
            /\ MachineIs(km.deleting, Sent(after.providerID, before.providerID, km.providerID),
                         km.ready, km.failed, Sent(after.fins, before.fins, km.fins))
  BY PatchCases
<1>2. CASE km' = km
  BY <1>1, <1>2, FrameImplements
<1>3. CASE km.exists /\ km' = GoneMachine
  BY <1>1, <1>3, GoneImplements
<1>4. CASE /\ km.exists /\ km'.exists
           /\ km'.deleting = km.deleting /\ km'.failed = km.failed /\ km'.ready = km.ready
           /\ km'.providerID = Sent(after.providerID, before.providerID, km.providerID)
  <2>1. CASE km'.providerID = km.providerID
    <3>1. Stage' = Stage
      BY <1>4, <2>1 DEF Stage
    <3> QED BY <1>1, <1>4, <3>1 DEF View
  <2>2. CASE km'.providerID # km.providerID
    <3>1. after.providerID # before.providerID /\ km'.providerID = after.providerID
      BY <1>4, <2>2 DEF Sent
    <3>2. after.providerID /\ ~before.providerID
      BY <1>1, <3>1, CopyFields DEF Links, ProviderIDIsStable, Acting
    <3>3. created > 0 /\ ~km.providerID /\ km'.providerID
      BY <1>1, <2>2, <3>1, <3>2, CopyFields DEF LifecycleInv, CopyIsSober, Holding, Acting
    <3>4. ~km.ready
      BY <3>3 DEF Links, ReadyFollowsProviderID
    <3>5. Stage = "pending" /\ Stage' = "provisioned"
      BY <1>4, <3>3, <3>4, CopyFields DEF Stage
    <3> QED BY <1>1, <1>4, <3>3, <3>5 DEF Lifecycle!Provision
  <2> QED BY <2>1, <2>2
<1> QED BY <1>1, <1>2, <1>3, <1>4 DEF MachineIs

(* The status patch is the abstract Run, Interrupt, Fail or a stutter,     *)
(* never two of them at once.                                              *)
LEMMA PatchStatusImplements ==
  ASSUME TypeOK, TypeOK', Links, Links', LifecycleInv, PatchStatus
  PROVE  Lifecycle!Run \/ Lifecycle!Interrupt \/ Lifecycle!Fail \/ UNCHANGED View
<1>1. /\ pc = "patchStatus" /\ UNCHANGED <<input, created>>
      /\ \/ km' = km
         \/ /\ km.exists
            /\ MachineIs(km.deleting, km.providerID, Sent(after.ready, before.ready, km.ready),
                         Sent(after.failed, before.failed, km.failed), km.fins)
  BY PatchStatusCases
<1>2. CASE km' = km
  BY <1>1, <1>2, FrameImplements
<1>3. CASE /\ km.exists /\ km'.exists
           /\ km'.deleting = km.deleting /\ km'.providerID = km.providerID
           /\ km'.ready = Sent(after.ready, before.ready, km.ready)
           /\ km'.failed = Sent(after.failed, before.failed, km.failed)
  <2>1. /\ before.ready /\ ~after.ready => input.allowRecreation
        /\ before.failed => after.failed
        /\ after.ready = before.ready \/ after.failed = before.failed
    BY <1>1 DEF LifecycleInv, CopyIsSober, Holding, Acting
  <2>2. CASE km'.ready = km.ready /\ km'.failed = km.failed
    <3>1. Stage' = Stage
      BY <1>3, <2>2 DEF Stage
    <3> QED BY <1>1, <1>3, <2>2, <3>1 DEF View
  <2>3. CASE km'.ready = km.ready /\ km'.failed # km.failed
    <3>1. after.failed # before.failed /\ km'.failed = after.failed
      BY <1>3, <2>3 DEF Sent
    <3>2. km'.failed = TRUE /\ ~km.failed
      BY <2>1, <2>3, <3>1, CopyFields
    <3>3. Stage' = Stage /\ Stage # "gone"
      BY <1>3, <2>3 DEF Stage
    <3> QED BY <1>1, <1>3, <3>2, <3>3 DEF Lifecycle!Fail
  <2>4. CASE km'.ready # km.ready
    <3>1. after.ready # before.ready /\ km'.ready = after.ready
      BY <1>3, <2>4 DEF Sent
    <3>2. km'.failed = km.failed
      BY <1>3, <2>1, <3>1 DEF Sent
    <3>3. km.providerID
      <4>1. km'.ready \in BOOLEAN /\ km.ready \in BOOLEAN
        BY DEF TypeOK, Machines
      <4>2. km.ready => km.providerID
        BY DEF Links, ReadyFollowsProviderID
      <4>3. km'.ready => km'.providerID
        BY DEF Links, ReadyFollowsProviderID
      <4> QED BY <1>3, <2>4, <4>1, <4>2, <4>3
    <3>4. CASE after.ready
      <4>1. Stage = "provisioned" /\ Stage' = "running"
        BY <1>3, <2>4, <3>1, <3>3, <3>4, CopyFields DEF Stage
      <4> QED BY <1>1, <1>3, <3>2, <4>1 DEF Lifecycle!Run
    <3>5. CASE ~after.ready
      <4>1. before.ready /\ input.allowRecreation
        BY <2>1, <3>1, <3>5, CopyFields
      <4>2. Stage = "running" /\ Stage' = "provisioned"
        BY <1>3, <2>4, <3>1, <3>3, <3>5, CopyFields DEF Stage
      <4> QED BY <1>1, <1>3, <3>2, <4>1, <4>2 DEF Lifecycle!Interrupt
    <3> QED BY <3>4, <3>5
  <2> QED BY <2>2, <2>3, <2>4
<1> QED BY <1>1, <1>2, <1>3 DEF MachineIs

(* A delete request is the abstract Terminate or Remove, and the garbage   *)
(* collector's last word Remove or a stutter.                              *)
LEMMA DeletionImplements ==
  ASSUME TypeOK, TypeOK', Links, Links', LifecycleInv,
         (\E p : DeleteMachine(p)) \/ CollectMachine
  PROVE  Lifecycle!Terminate \/ Lifecycle!Remove \/ UNCHANGED View
<1>1. /\ km.exists /\ UNCHANGED <<input, created>>
      /\ \/ km' = GoneMachine
         \/ /\ km'.exists /\ km'.deleting = TRUE /\ km'.providerID = km.providerID
            /\ km'.ready = km.ready /\ km'.failed = km.failed
  BY DeletionCases DEF MachineIs, LifecycleInv
<1>2. CASE km' = GoneMachine
  BY <1>1, <1>2, GoneImplements
<1>3. CASE /\ km'.exists /\ km'.deleting = TRUE /\ km'.providerID = km.providerID
           /\ km'.ready = km.ready /\ km'.failed = km.failed
  <2>1. Stage' = Stage /\ Stage # "gone"
    BY <1>1, <1>3 DEF Stage
  <2>2. CASE km.deleting
    <3>1. km'.deleting = km.deleting
      BY <1>3, <2>2, CopyFields
    <3> QED BY <1>1, <1>3, <2>1, <3>1 DEF View
  <2>3. CASE ~km.deleting
    BY <1>1, <1>3, <2>1, <2>3 DEF Lifecycle!Terminate
  <2> QED BY <2>2, <2>3
<1> QED BY <1>1, <1>2, <1>3

(* Every step is a step of the abstract machine, or none.                  *)
LEMMA NextImplements ==
  ASSUME LifecycleInv, LifecycleInv', [OpenNext]_vars
  PROVE  Lifecycle!Next \/ UNCHANGED View
<1>1. TypeOK /\ TypeOK' /\ Links /\ Links'
  BY DEF LifecycleInv, ReadyInv, Links
<1>2. CASE Reconcile
  <2>1. UNCHANGED <<km, created, input>>
    BY <1>2 DEF Reconcile, ReconcileNotFound, AwaitOwner, AwaitCluster, AwaitKubernetesCluster,
       AwaitInfrastructure, reconcileNormal, reconcileDelete, Dispatch, Fetch, Take,
       server, others
  <2> QED BY <2>1, FrameImplements
<1>3. CASE Calls
  BY <1>1, <1>3, CallImplements DEF Lifecycle!Next
<1>4. CASE Patch
  BY <1>1, <1>4, PatchImplements DEF Lifecycle!Next
<1>5. CASE PatchStatus
  BY <1>1, <1>5, PatchStatusImplements DEF Lifecycle!Next
<1>6. CASE SyncKM \/ Crash
  BY <1>6, FrameImplements DEF SyncKM, Crash, server, others
<1>7. CASE (\E p : DeleteMachine(p)) \/ CollectMachine
  BY <1>1, <1>7, DeletionImplements DEF Lifecycle!Next
<1>8. CASE Elsewhere \/ Withdraw \/ UNCHANGED vars
  BY <1>8, ElsewhereFrame, FrameImplements
<1> QED BY <1>2, <1>3, <1>4, <1>5, <1>6, <1>7, <1>8, OpenCases

(* The controller with its caches, retries, lost answers and crashes       *)
(* implements MachineLifecycle, unless somebody else's Pod may take the     *)
(* name: then a failure that a stale cache has missed can be followed by a *)
(* Pod.                                                                    *)
LEMMA OpenRefinement ==
  ASSUME "pod" \notin Foreign
  PROVE  OpenSpec => ImplementsLifecycle
<1>1. Init => Lifecycle!Init
  <2> SUFFICES ASSUME Init PROVE Lifecycle!Init
    OBVIOUS
  <2>1. Stage = "pending" /\ km.failed = FALSE /\ km.deleting = FALSE /\ created = 0
    BY DEF Init, Stage, NewMachine
  <2>2. input.allowRecreation \in BOOLEAN
    BY InputsAssumption DEF Init
  <2> QED BY <2>1, <2>2 DEF Lifecycle!Init
<1>2. LifecycleInv /\ LifecycleInv' /\ [OpenNext]_vars => [Lifecycle!Next]_(Lifecycle!vars)
  BY NextImplements DEF View, Lifecycle!vars
<1> QED
  BY <1>1, <1>2, LifecycleInvariant, PTL DEF OpenSpec, ImplementsLifecycle, Lifecycle!Spec

(* The same of the specification.                                          *)
THEOREM Refinement ==
  ASSUME "pod" \notin Foreign
  PROVE  Spec => ImplementsLifecycle
BY OpenRefinement, SpecIsOpen, PTL

-----------------------------------------------------------------------------
(* The conversion, at every moment: a client of v1alpha2 that reads the    *)
(* machine and writes it back takes nothing from it, whatever the          *)
(* controller and its faults have made of it.                              *)
THEOREM RoundTripKeepsMachine == Spec => []SurvivesV1alpha2
<1>1. SurvivesV1alpha2
  BY DEF SurvivesV1alpha2, MachineConvertTo, MachineConvertFrom, SpecConvertTo,
         SpecConvertFrom, Object
<1> QED BY <1>1, PTL

-----------------------------------------------------------------------------
(* The inductive invariant behind MemberNotAbandoned, when the cloud-init  *)
(* Secret's name is free.                                                  *)

Started(p) == p.owner = "self" /\ p.state \notin {"none", "waiting"}

(* No copy that a reconciliation may still act upon lacks the provider ID. *)
ProviderIDRead == (cKM.exists => cKM.providerID) /\ (Acting => before.providerID)

(* A Pod of the machine has started, or may.                               *)
Launched == secret = "self" \/ Started(pod) \/ Started(cPod) \/ Started(seen)

(* A Pod has started, or can, only when its Secret was created, which was  *)
(* after the provider ID had been read: without recreation no other Pod of *)
(* the machine follows it, so a copy of a started Pod shows the one that   *)
(* exists, unless that is somebody else's.                                 *)
StartedIsLast ==
  /\ secret # "other"
  /\ Launched => ProviderIDRead
  /\ ~input.allowRecreation /\ Started(cPod) => pod.uid \in {0, 1, cPod.uid}
  /\ ~input.allowRecreation /\ Started(seen) => pod.uid \in {0, 1, seen.uid}
  /\ pc = "enable" => Started(seen)

(* The cache does not lose sight of a Pod of the machine: the one that a   *)
(* reconciliation has seen, and so the one that has been told to           *)
(* bootstrap.                                                              *)
CacheShowsMember ==
  /\ seen.owner = "self" /\ seen.uid = pod.uid => cPod.uid = pod.uid
  /\ boot => Exists(pod)
  /\ boot /\ pod.owner = "self" /\ ~input.allowRecreation => cPod.uid = pod.uid

(* A deletion is not taken back, and the cache and the copy learn of it in *)
(* this order.                                                             *)
DeletionIsStable ==
  /\ cKM.deleting => (km.exists => km.deleting)
  /\ Acting /\ before.deleting => (cKM.exists => cKM.deleting)

Guarded(k) == k.exists /\ ~k.deleting /\ k.providerID => "machine" \in k.fins

(* The finalizer arrives no later than the provider ID, and only a         *)
(* reconciliation that has read the deletion removes it.                   *)
FinalizerIsKept ==
  /\ Guarded(km) /\ Guarded(cKM) /\ (Acting => before.exists /\ Guarded(before))
  /\ cKM.exists /\ ~cKM.deleting /\ "machine" \in cKM.fins => "machine" \in km.fins
  /\ Acting /\ ~before.deleting /\ "machine" \in before.fins => "machine" \in km.fins
  /\ pc \in AfterTheRead => ~before.deleting
  /\ pc = "reset" => before.deleting /\ (after.providerID => before.providerID)
  /\ Acting /\ after.providerID /\ ~before.providerID => "machine" \in after.fins

(* The copy is about to take the finalizer away.                           *)
Releasing == Acting /\ after.fins # before.fins /\ "machine" \notin after.fins

(* An etcd member that has to be reset first, and has not been.            *)
Unreset ==
  /\ pod.owner = "self" /\ boot /\ ~reset
  /\ input.controlPlane /\ ~clusterDeleting /\ ~input.allowRecreation

(* The finalizer goes only from a machine without a member to reset, and   *)
(* none can appear in it any more.                                         *)
MemberIsHeld ==
  /\ Releasing => before.deleting /\ ~Unreset
  /\ Unreset => "machine" \in km.fins

MemberInv ==
  /\ ReadyInv /\ PodsInv /\ GoneIsBlank
  /\ StartedIsLast /\ CacheShowsMember /\ DeletionIsStable /\ FinalizerIsKept /\ MemberIsHeld

-----------------------------------------------------------------------------
(* Which Pod is the last one.                                              *)

(* A machine that is gone leaves nothing to see.                           *)
LEMMA NextGone == ASSUME TypeOK, Links, GoneIsBlank, [OpenNext]_vars PROVE GoneIsBlank'
<1>1. CASE Reconcile
  BY <1>1 DEF GoneIsBlank, Reconcile, ReconcileNotFound, AwaitOwner, AwaitCluster,
     AwaitKubernetesCluster, AwaitInfrastructure, reconcileNormal, reconcileDelete,
     Dispatch, Fetch, Take, server
<1>2. CASE Calls
  BY <1>2, CallCases DEF GoneIsBlank, Calls, CallPaths
<1>3. CASE Patch
  BY <1>3, PatchCases DEF GoneIsBlank, MachineIs
<1>4. CASE PatchStatus
  BY <1>4, PatchStatusCases DEF GoneIsBlank, MachineIs
<1>5. CASE SyncKM \/ Crash
  BY <1>5 DEF GoneIsBlank, SyncKM, Crash, server
<1>6. CASE (\E p : DeleteMachine(p)) \/ CollectMachine
  BY <1>6, DeletionCases DEF GoneIsBlank, MachineIs
<1>7. CASE Elsewhere \/ Withdraw \/ UNCHANGED vars
  BY <1>7, ElsewhereFrame DEF GoneIsBlank
<1> QED BY <1>1, <1>2, <1>3, <1>4, <1>5, <1>6, <1>7, OpenCases

(* Once every copy in use has the provider ID, all later ones have.        *)
LEMMA ReadStays ==
  ASSUME TypeOK, Links, ProviderIDRead, [OpenNext]_vars
  PROVE  ProviderIDRead'
<1> USE DEF ProviderIDRead, Acting
<1>1. CASE Reconcile
  <2>1. UNCHANGED cKM
    BY <1>1 DEF Reconcile, ReconcileNotFound, AwaitOwner, AwaitCluster,
       AwaitKubernetesCluster, AwaitInfrastructure, reconcileNormal, reconcileDelete,
       Dispatch, Fetch, Take, cache
  <2>2. CASE ReconcileNotFound
    BY <2>1, <2>2 DEF ReconcileNotFound, local
  <2>3. CASE ~ReconcileNotFound
    BY <1>1, <2>1, <2>3, ReconcileCases
  <2> QED BY <2>2, <2>3
<1>2. CASE Calls
  BY <1>2, CallCases DEF Calls, CallPaths, Holding, AfterTheRead
<1>3. CASE Patch
  BY <1>3, PatchCases
<1>4. CASE PatchStatus
  BY <1>4, PatchStatusCases
<1>5. CASE SyncKM \/ Crash
  <2>1. /\ cKM' = km
        /\ pc' = "idle" \/ UNCHANGED <<pc, before>>
    BY <1>5 DEF SyncKM, Crash, Forget, server, local
  <2>2. km.exists => km.providerID
    BY DEF Links, CacheTrailsExistence, ProviderIDIsStable
  <2> QED BY <2>1, <2>2
<1>6. CASE (\E p : DeleteMachine(p)) \/ CollectMachine
  BY <1>6 DEF DeleteMachine, CollectMachine, cache, local
<1>7. CASE Elsewhere \/ Withdraw \/ UNCHANGED vars
  BY <1>7, ElsewhereFrame
<1> QED BY <1>1, <1>2, <1>3, <1>4, <1>5, <1>6, <1>7, OpenCases

(* What a step does to the Secret, the Pod and its copies: what a          *)
(* reconciliation sees comes from the cache, what the cache shows from the *)
(* API server, a Pod needs its Secret to start and is entered by a step of *)
(* its own.                                                                *)
PodStays ==
  \/ pod'.uid = pod.uid
  \/ pod' = NoPod /\ ~boot'
  \/ ~Exists(pod) /\ Theirs(pod') /\ UNCHANGED <<cPod, boot, seen, pc>>
  \/ pc = "createPod" /\ seen' = NoPod /\ cPod' = cPod /\ ~Started(pod)' /\ ~boot'

CacheSteps ==
  \/ cPod' = cPod
  \/ UNCHANGED pod /\ cPod' = pod
  \/ UNCHANGED pod /\ cPod' = NoPod /\ cPod.uid # pod.uid

SeenSteps ==
  \/ seen' \in {seen, NoPod}
  \/ seen' = cPod /\ UNCHANGED <<cPod, pod>>

SecretSteps == secret' # secret => secret' = "none" \/ (secret' = "self" /\ pc = "createSecret")

BootSteps ==
  /\ boot' => boot \/ (pc = "enable" /\ Exists(pod) /\ UNCHANGED <<pod, cPod>>)
  /\ boot' /\ reset => reset'
  /\ pc' = "enable" => /\ seen' = seen
                       /\ pc = "enable" \/ (pc = "createSecret" /\ seen.state \in Alive)

PodSteps ==
  /\ PodStays /\ CacheSteps /\ SeenSteps /\ SecretSteps /\ BootSteps
  /\ Started(pod)' => Started(pod) \/ secret # "none"

(* A step that leaves Pod, cache and Secret alone and enters no Pod.       *)
LEMMA FrameSteps ==
  ASSUME UNCHANGED <<pod, cPod, secret, boot, reset>>,
         seen' \in {seen, NoPod}, pc' # "enable" \/ UNCHANGED <<pc, seen>>
  PROVE  PodSteps
BY DEF PodSteps, PodStays, CacheSteps, SeenSteps, SecretSteps, BootSteps, Started

(* Where the Pod's life goes on, or ends.                                  *)
LEMMA FateSteps ==
  ASSUME TypeOK, PodsInv, FatePod
  PROVE  PodSteps
<1>1. /\ UNCHANGED <<cPod, created, seen, pc>>
      /\ \/ pod' = NoPod /\ ~boot' /\ ~reset'
         \/ pod' = pod /\ UNCHANGED <<boot, reset>>
         \/ /\ pod.owner = "self" /\ pod'.owner = "self" /\ pod'.uid = pod.uid
            /\ UNCHANGED <<boot, reset>>
         \/ ~Exists(pod) /\ Theirs(pod') /\ UNCHANGED <<boot, reset>>
  BY FateOfPod
<1>2. secret' = secret \/ secret' = "none"
  BY DEF FatePod, CollectPod, KubeletStarts, KubeletRemoves, PodLost, KindTerminates,
         PodUnready, ForeignComes, ForeignGoes, PodChanges
<1>3. Started(pod)' => Started(pod) \/ secret # "none"
  <2>1. CASE pod' = NoPod
    BY <2>1, PodFields DEF Started
  <2>2. CASE KubeletStarts
    BY <2>2 DEF KubeletStarts, Started, TypeOK, Pods
  <2>3. CASE CollectPod
    BY <2>3 DEF CollectPod, Started, TypeOK, Pods
  <2>4. CASE pod' # NoPod /\ (KubeletRemoves \/ PodLost)
    BY <2>4, PodFields DEF KubeletRemoves, PodLost, PodGoes, Started, TypeOK, Pods
  <2>5. CASE KindTerminates \/ PodUnready
    <3>1. Started(pod)
      BY <2>5, PodFields DEF KindTerminates, PodUnready, Started, PodsInv, Accounted, Theirs, Alive
    <3> QED BY <3>1
  <2>6. CASE ForeignComes \/ ForeignGoes
    BY <2>6, PodFields DEF ForeignComes, ForeignGoes, PodGoes, Started
  <2> QED BY <2>1, <2>2, <2>3, <2>4, <2>5, <2>6 DEF FatePod
<1>4. PodStays /\ CacheSteps /\ SeenSteps /\ SecretSteps
  BY <1>1, <1>2 DEF PodStays, CacheSteps, SeenSteps, SecretSteps
<1>5. BootSteps
  BY <1>1 DEF BootSteps
<1> QED BY <1>3, <1>4, <1>5 DEF PodSteps

(* The live calls.                                                         *)
LEMMA CallSteps ==
  ASSUME TypeOK, PodsInv, Calls
  PROVE  PodSteps
<1> USE DEF Step, cache, others
<1>1. CASE createMachinePod
  <2>1. /\ pc = "createPod" /\ UNCHANGED <<cPod, secret>> /\ seen' = NoPod /\ pc' = "patch"
        /\ \/ pod' = NewPod(created) /\ boot' = FALSE
           \/ UNCHANGED <<pod, boot, reset>>
    BY <1>1, ReturnDrops DEF createMachinePod
  <2>2. CASE UNCHANGED <<pod, boot, reset>>
    BY <2>1, <2>2, FrameSteps
  <2>3. CASE pod' = NewPod(created) /\ boot' = FALSE
    <3>1. ~Started(pod)'
      BY <2>3, PodFields DEF Started, TypeOK
    <3> QED
      BY <2>1, <2>3, <3>1
      DEF PodSteps, PodStays, CacheSteps, SeenSteps, SecretSteps, BootSteps
  <2> QED BY <2>1, <2>2, <2>3
<1>2. CASE createPersistentVolumeClaims \/ setNodeProviderID \/ ExecEnds \/ KubectlEnds
  <2>1. /\ UNCHANGED <<pod, cPod, secret, boot, reset>>
        /\ (\E k, e : Return(k, e)) \/ Proceed("createSecret")
    BY <1>2 DEF createPersistentVolumeClaims, setNodeProviderID, ExecEnds, KubectlEnds, server
  <2>2. CASE \E k, e : Return(k, e)
    BY <2>1, <2>2, ReturnDrops, FrameSteps
  <2>3. CASE Proceed("createSecret")
    BY <2>1, <2>3, FrameSteps DEF Proceed
  <2> QED BY <2>1, <2>2, <2>3
<1>3. CASE createSecret
  <2>1. /\ UNCHANGED <<pod, cPod, boot, reset>> /\ pc = "createSecret"
        /\ secret' = secret \/ secret' = "self"
        /\ \/ \E k, e : Return(k, e)
           \/ Proceed("deletePod")
           \/ seen.state \in Alive /\ Proceed("enable")
    BY <1>3 DEF createSecret
  <2>2. /\ seen' \in {seen, NoPod}
        /\ pc' = "enable" => seen' = seen /\ seen.state \in Alive
    BY <2>1, ReturnDrops DEF Proceed
  <2> QED
    BY <2>1, <2>2 DEF PodSteps, PodStays, CacheSteps, SeenSteps, SecretSteps, BootSteps, Started
<1>4. CASE deletePod
  <2>1. /\ UNCHANGED <<cPod, secret, boot, reset>> /\ seen' = NoPod /\ pc' = "patch"
        /\ pod' = pod \/ pod' = [pod EXCEPT !.deleting = TRUE]
    BY <1>4, ReturnDrops DEF deletePod
  <2>2. pod'.uid = pod.uid /\ pod'.owner = pod.owner /\ pod'.state = pod.state
    BY <2>1 DEF TypeOK, Pods
  <2> QED
    BY <2>1, <2>2 DEF PodSteps, PodStays, CacheSteps, SeenSteps, SecretSteps, BootSteps, Started
<1>5. CASE enableBoostrapProcess
  <2>1. /\ UNCHANGED <<pod, cPod, secret, reset>> /\ pc = "enable"
        /\ boot' => boot \/ Exists(pod)
        /\ (\E k, e : Return(k, e)) \/ Proceed("setProviderID")
    BY <1>5 DEF enableBoostrapProcess, kindContainerExec
  <2>2. seen' \in {seen, NoPod} /\ pc' # "enable"
    BY <2>1, ReturnDrops DEF Proceed
  <2> QED
    BY <2>1, <2>2 DEF PodSteps, PodStays, CacheSteps, SeenSteps, SecretSteps, BootSteps, Started
<1>6. CASE kubeadmReset
  <2>1. /\ UNCHANGED <<pod, cPod, secret, boot>> /\ (reset => reset')
        /\ \E k, e : Return(k, e)
    BY <1>6 DEF kubeadmReset
  <2>2. seen' = NoPod /\ pc' # "enable"
    BY <2>1, ReturnDrops
  <2> QED
    BY <2>1, <2>2 DEF PodSteps, PodStays, CacheSteps, SeenSteps, SecretSteps, BootSteps, Started
<1>7. CASE ExecHangs
  <2>1. /\ UNCHANGED <<pod, cPod, secret, seen>> /\ pc' = "hung"
        /\ boot' => boot \/ (pc = "enable" /\ Exists(pod))
        /\ reset => reset'
    BY <1>7 DEF ExecHangs, kindContainerExec, TypeOK
  <2> QED
    BY <2>1 DEF PodSteps, PodStays, CacheSteps, SeenSteps, SecretSteps, BootSteps, Started
<1>8. CASE KubectlHangs
  BY <1>8, FrameSteps DEF KubectlHangs
<1> QED BY <1>1, <1>2, <1>3, <1>4, <1>5, <1>6, <1>7, <1>8 DEF Calls

(* Every step.                                                             *)
LEMMA NextSteps ==
  ASSUME TypeOK, PodsInv, [OpenNext]_vars
  PROVE  PodSteps
<1> USE DEF server, cache, others, local
<1>1. CASE Reconcile
  <2>1. UNCHANGED <<pod, cPod, secret, boot, reset>>
    BY <1>1 DEF Reconcile, ReconcileNotFound, AwaitOwner, AwaitCluster,
       AwaitKubernetesCluster, AwaitInfrastructure, reconcileNormal, reconcileDelete,
       Dispatch, Fetch, Take
  <2>2. CASE ReconcileNotFound
    BY <2>1, <2>2, FrameSteps DEF ReconcileNotFound
  <2>3. CASE ~ReconcileNotFound
    <3>1. pc' # "enable"
      BY <1>1, <2>3, ReconcileCases
      DEF Waits, Creates, Fails, Provides, Unreadies, GoesOn, Resets, Releases
    <3>2. seen' \in {NoPod, cPod}
      BY <1>1, <2>3 DEF Reconcile, AwaitOwner, AwaitCluster, AwaitKubernetesCluster,
         AwaitInfrastructure, reconcileNormal, reconcileDelete, NormalFailed,
         NormalAwaitBootstrap, NormalPodNotFound, NormalPodFound, Call, Return
    <3> QED
      BY <2>1, <3>1, <3>2
      DEF PodSteps, PodStays, CacheSteps, SeenSteps, SecretSteps, BootSteps, Started
  <2> QED BY <2>2, <2>3
<1>2. CASE Calls
  BY <1>2, CallSteps
<1>3. CASE Patch
  BY <1>3, FrameSteps DEF Patch, Step
<1>4. CASE PatchStatus
  BY <1>4, FrameSteps DEF PatchStatus, Forget
<1>5. CASE Crash
  <2>1. UNCHANGED <<pod, secret, boot, reset>> /\ cPod' = pod /\ seen' = NoPod /\ pc' = "idle"
    BY <1>5 DEF Crash, Forget
  <2> QED
    BY <2>1 DEF PodSteps, PodStays, CacheSteps, SeenSteps, SecretSteps, BootSteps, Started
<1>6. CASE SyncPod
  <2>1. /\ UNCHANGED <<pod, secret, boot, reset, seen, pc>>
        /\ cPod' = pod \/ (cPod' = NoPod /\ cPod.uid # pod.uid)
    BY <1>6 DEF SyncPod
  <2> QED
    BY <2>1 DEF PodSteps, PodStays, CacheSteps, SeenSteps, SecretSteps, BootSteps, Started
<1>7. CASE FatePod
  BY <1>7, FateSteps
<1>8. CASE \/ SyncKM \/ Resync \/ (\E x \in Prereqs : Provide(x)) \/ DeleteCluster \/ Pause
           \/ Unpause \/ CollectMachine \/ (\E p : DeleteMachine(p))
           \/ CollectClaims \/ NodeJoins \/ Withdraw \/ UNCHANGED vars
  BY <1>8, FrameSteps DEF SyncKM, Resync, Withdraw, Provide, DeleteCluster, Pause, Unpause,
     CollectMachine, DeleteMachine, CollectClaims, NodeJoins, vars
<1>9. CASE CollectSecret
  <2>1. UNCHANGED <<pod, cPod, boot, reset, seen, pc>> /\ secret' = "none"
    BY <1>9 DEF CollectSecret
  <2> QED
    BY <2>1 DEF PodSteps, PodStays, CacheSteps, SeenSteps, SecretSteps, BootSteps, Started
<1> QED
  BY <1>1, <1>2, <1>3, <1>4, <1>5, <1>6, <1>7, <1>8, <1>9
  DEF OpenNext, Next, Controller, Watches, GarbageCollector, Kubelet, Users, Faults, FatePod, Calls

(* The user's choices are not changed, nor is the deletion of the Cluster  *)
(* taken back.                                                             *)
LEMMA NextInput ==
  ASSUME TypeOK, [OpenNext]_vars
  PROVE  input' = input /\ clusterDeleting' \in {clusterDeleting, TRUE}
<1> USE DEF server, cache, others, local, Step, PodChanges
<1>1. CASE Reconcile
  BY <1>1 DEF Reconcile, ReconcileNotFound, AwaitOwner, AwaitCluster,
     AwaitKubernetesCluster, AwaitInfrastructure, reconcileNormal, reconcileDelete,
     Dispatch, Fetch, Take
<1>2. CASE Calls
  BY <1>2, CallCases DEF Calls, CallPaths
<1>3. CASE Patch \/ PatchStatus \/ SyncKM \/ Crash \/ CollectMachine
           \/ (\E p : DeleteMachine(p)) \/ Withdraw \/ UNCHANGED vars
  BY <1>3 DEF Withdraw, Patch, PatchStatus, SyncKM, Crash, CollectMachine, DeleteMachine, vars
<1>4. CASE Elsewhere
  BY <1>4 DEF Elsewhere, SyncPod, Resync, Provide, DeleteCluster, Pause, Unpause, CollectPod,
       CollectSecret, CollectClaims, ForeignComes, ForeignGoes, NodeJoins, Kubelet, KubeletStarts,
       KubeletRemoves, PodLost, KindTerminates, PodUnready
<1> QED BY <1>1, <1>2, <1>3, <1>4, OpenCases

(* Without recreation nothing follows a Pod that has started, and the      *)
(* cache shows the Pod that has been told to bootstrap.                    *)
LEMMA NextStarted ==
  ASSUME TypeOK, Links, PodsInv, PodsInv', StartedIsLast, CacheShowsMember, [OpenNext]_vars
  PROVE  StartedIsLast' /\ CacheShowsMember'
<1>1. /\ PodStays /\ CacheSteps /\ SeenSteps /\ SecretSteps /\ BootSteps
      /\ Started(pod)' => Started(pod) \/ secret # "none"
  BY NextSteps DEF PodSteps
<1>2. input' = input
  BY NextInput
<1>3. secret' # "other" /\ secret \in {"none", "self"}
  BY <1>1 DEF StartedIsLast, SecretSteps, TypeOK, Owners
<1>4. ~Started(NoPod)
  BY PodFields DEF Started
<1>5. Started(cPod)' => Started(cPod) \/ Started(pod)
  BY <1>1, <1>4 DEF CacheSteps, Started
<1>6. Started(seen)' => Started(seen) \/ Started(cPod)
  BY <1>1, <1>4 DEF SeenSteps, Started
<1>7. Launched' => ProviderIDRead'
  <2> SUFFICES ASSUME Launched' PROVE ProviderIDRead'
    OBVIOUS
  <2>1. Launched \/ pc = "createSecret"
    BY <1>1, <1>3, <1>5, <1>6 DEF Launched, SecretSteps
  <2>2. pc = "createSecret" => ProviderIDRead
    BY DEF Links, StepsFollowProviderID, ProviderIDIsStable, AfterTheRead, Acting, ProviderIDRead
  <2> QED BY <2>1, <2>2, ReadStays DEF StartedIsLast
<1>8. ~input.allowRecreation /\ pc = "createPod" => ~Launched
  BY DEF StartedIsLast, ProviderIDRead, Links, StepsFollowProviderID, Acting
<1>9. ~input.allowRecreation /\ Started(cPod)' => pod'.uid \in {0, 1, cPod'.uid}
  BY <1>1, <1>4, <1>8, PodFields
  DEF PodStays, Theirs, CacheSteps, StartedIsLast, Launched, Started
<1>10. ~input.allowRecreation /\ Started(seen)' => pod'.uid \in {0, 1, seen'.uid}
  BY <1>1, <1>4, <1>8, PodFields
  DEF PodStays, Theirs, SeenSteps, StartedIsLast, Launched, Started
<1>11. pc' = "enable" => Started(seen)'
  BY <1>1 DEF BootSteps, StartedIsLast, PodsInv, Holding, AfterTheRead, Started, Alive
<1>12. seen'.owner = "self" /\ seen'.uid = pod'.uid => cPod'.uid = pod'.uid
  <2> SUFFICES ASSUME seen'.owner = "self", seen'.uid = pod'.uid PROVE cPod'.uid = pod'.uid
    OBVIOUS
  <2>1. pod'.uid >= 2
    BY PodFields DEF PodsInv, Accounted, Theirs
  <2>2. seen' # NoPod /\ pod'.uid = pod.uid
    BY <1>1, <2>1, PodFields DEF PodStays, Theirs
  <2> QED BY <1>1, <2>1, <2>2, PodFields DEF CacheSteps, SeenSteps, CacheShowsMember
<1>13. boot' => Exists(pod)'
  BY <1>1, PodFields DEF PodStays, Theirs, BootSteps, CacheShowsMember, Exists
<1>14. boot' /\ pod'.owner = "self" /\ ~input.allowRecreation => cPod'.uid = pod'.uid
  <2> SUFFICES ASSUME boot', pod'.owner = "self", ~input.allowRecreation
               PROVE  cPod'.uid = pod'.uid
    OBVIOUS
  <2>1. pod'.uid >= 2
    BY PodFields DEF PodsInv, Accounted, Theirs
  <2>2. pod'.uid = pod.uid
    BY <1>1, <2>1, PodFields DEF PodStays, Theirs
  <2>3. pod.owner = "self"
    BY <2>1, <2>2, PodFields DEF PodsInv, Accounted, Theirs
  <2>4. CASE boot
    BY <1>1, <2>1, <2>2, <2>3, <2>4, PodFields DEF CacheSteps, CacheShowsMember
  <2>5. CASE ~boot
    <3>1. pc = "enable" /\ UNCHANGED <<pod, cPod>>
      BY <1>1, <2>5 DEF BootSteps
    <3>2. pod.uid = seen.uid /\ seen.owner = "self"
      BY <2>1, <2>2, <3>1 DEF StartedIsLast, Started
    <3> QED BY <3>1, <3>2 DEF CacheShowsMember
  <2> QED BY <2>4, <2>5
<1> QED
  BY <1>2, <1>3, <1>7, <1>9, <1>10, <1>11, <1>12, <1>13, <1>14
  DEF StartedIsLast, CacheShowsMember

-----------------------------------------------------------------------------
(* The finalizer.                                                          *)

(* What is known of deletion and finalizer, without the Pods.              *)
Fins == DeletionIsStable /\ FinalizerIsKept /\ (Releasing => before.deleting)

(* A step that leaves the machine and its copies alone.                    *)
LEMMA FrameFins ==
  ASSUME Fins, UNCHANGED <<km, cKM, before, after, pc>>
  PROVE  Fins'
BY DEF Fins, DeletionIsStable, FinalizerIsKept, Guarded, Releasing, Acting

(* A reconciliation plans to remove the finalizer only of a machine that   *)
(* it has read to be deleted.                                              *)
LEMMA ReconcileFins == ASSUME TypeOK, Links, Fins, Reconcile PROVE Fins'
<1>1. pc = "idle" /\ UNCHANGED <<km, cKM>>
  BY DEF Reconcile, ReconcileNotFound, AwaitOwner, AwaitCluster, AwaitKubernetesCluster,
         AwaitInfrastructure, reconcileNormal, reconcileDelete, Dispatch, Fetch, Take,
         server, cache
<1>2. CASE ReconcileNotFound
  BY <1>1, <1>2, FrameFins DEF ReconcileNotFound, local
<1>3. CASE ~ReconcileNotFound
  <2>1. /\ before' = cKM /\ cKM.exists
        /\ \/ Waits \/ Creates \/ Fails \/ Provides \/ Unreadies \/ GoesOn \/ Resets \/ Releases
    BY <1>3, ReconcileCases
  <2>2. "machine" \in AllFins
    BY DEF AllFins, Finalizers
  <2>3. /\ pc' \in AfterTheRead => ~cKM.deleting
        /\ pc' = "reset" => cKM.deleting /\ (after'.providerID => cKM.providerID)
        /\ pc' # "idle"
    BY <2>1 DEF Waits, Creates, Fails, Provides, Unreadies, GoesOn, Resets, Releases, AfterIs,
                AfterTheRead
  <2>4. /\ after'.providerID /\ ~cKM.providerID => "machine" \in after'.fins
        /\ after'.fins # cKM.fins /\ "machine" \notin after'.fins => cKM.deleting
    BY <2>1, <2>2 DEF Waits, Creates, Fails, Provides, Unreadies, GoesOn, Resets, Releases, AfterIs
  <2>5. DeletionIsStable'
    BY <1>1, <2>1 DEF Fins, DeletionIsStable
  <2>6. FinalizerIsKept'
    BY <1>1, <2>1, <2>3, <2>4 DEF Fins, FinalizerIsKept, Guarded
  <2>7. Releasing' => before'.deleting
    BY <2>1, <2>4 DEF Releasing
  <2> QED BY <2>5, <2>6, <2>7 DEF Fins
<1> QED BY <1>2, <1>3

(* Nor does a live call remove it from the copy of another.                *)
LEMMA CallFins == ASSUME TypeOK, Links, Fins, CallPaths PROVE Fins'
<1>1. UNCHANGED <<km, cKM, before>> /\ pc # "idle"
  BY DEF CallPaths, Holding, AfterTheRead
<1>2. CASE pc' = "patch" /\ after'.fins = after.fins
  <2>1. after'.providerID = after.providerID
    BY DEF CallPaths, KeepsCopy, AfterIs
  <2> QED
    BY <1>1, <1>2, <2>1
    DEF Fins, DeletionIsStable, FinalizerIsKept, Guarded, Releasing, Acting, AfterTheRead
<1>3. CASE /\ pc' \in Holding \ {"reset"} /\ (pc' \in AfterTheRead => pc \in AfterTheRead)
           /\ KeepsCopy
  <2>1. after'.providerID = after.providerID /\ after'.fins = after.fins
    BY <1>3 DEF KeepsCopy, AfterIs
  <2> QED
    BY <1>1, <1>3, <2>1
    DEF Fins, DeletionIsStable, FinalizerIsKept, Guarded, Releasing, Acting
<1>4. CASE /\ pc = "reset" /\ pc' = "patch"
           /\ AfterIs(after.providerID, after.ready, after.failed, after.fins \ {"machine"})
  BY <1>1, <1>4
  DEF Fins, DeletionIsStable, FinalizerIsKept, Guarded, Releasing, Acting, AfterTheRead, AfterIs
<1> QED BY <1>2, <1>3, <1>4 DEF CallPaths, KeepsCopy, AfterIs

(* The spec patch removes the finalizer only of a machine whose deletion   *)
(* the cache shows.                                                        *)
LEMMA PatchFins == ASSUME TypeOK, Links, Fins, Patch PROVE Fins'
<1>1. /\ pc = "patch" /\ pc' = "patchStatus" /\ UNCHANGED <<cKM, before, after>>
      /\ \/ km' = km
         \/ /\ km.exists /\ km.deleting /\ km' = GoneMachine
            /\ Sent(after.fins, before.fins, km.fins) = {}
         \/ /\ km.exists /\ km'.exists /\ km'.deleting = km.deleting
            /\ km'.providerID = Sent(after.providerID, before.providerID, km.providerID)
            /\ km'.fins = Sent(after.fins, before.fins, km.fins)
  BY PatchCases DEF MachineIs
<1>2. CASE km' = km
  BY <1>1, <1>2 DEF Fins, DeletionIsStable, FinalizerIsKept, Guarded, Releasing, Acting, AfterTheRead
<1>3. CASE km' # km
  <2>1. km.exists /\ cKM.exists
    BY <1>1, <1>3 DEF Links, CacheTrailsExistence
  <2>2. before.deleting => cKM.deleting /\ km.deleting
    BY <1>1, <2>1 DEF Fins, DeletionIsStable, Acting
  <2> DEFINE s == Sent(after.fins, before.fins, km.fins)
  <2>3. "machine" \in km.fins /\ "machine" \notin s => before.deleting
    BY <1>1 DEF Fins, Releasing, Acting, Sent
  <2>4. "machine" \in km'.fins \/ "machine" \notin s
    BY <1>1, <1>3
  <2>5. km'.exists => km'.deleting = km.deleting
    BY <1>1, <1>3, GoneFields
  <2>6. Guarded(km)'
    <3> SUFFICES ASSUME km'.exists, ~km'.deleting, km'.providerID PROVE "machine" \in km'.fins
      BY DEF Guarded
    <3>1. /\ ~km.deleting /\ ~before.deleting
          /\ km'.providerID = Sent(after.providerID, before.providerID, km.providerID)
          /\ km'.fins = s
      BY <1>1, <1>3, <2>2, <2>5, GoneFields
    <3>2. CASE km.providerID
      BY <2>1, <2>3, <3>1, <3>2 DEF Fins, FinalizerIsKept, Guarded
    <3>3. CASE ~km.providerID
      <4>1. after.providerID /\ ~before.providerID
        BY <1>1, <3>1, <3>3, CopyFields DEF Sent, Links, ProviderIDIsStable, Acting
      <4>2. "machine" \in after.fins
        BY <1>1, <4>1 DEF Fins, FinalizerIsKept, Acting
      <4>3. CASE after.fins # before.fins
        BY <3>1, <4>2, <4>3 DEF Sent
      <4>4. CASE after.fins = before.fins
        BY <1>1, <3>1, <4>2, <4>4 DEF Sent, Fins, FinalizerIsKept, Acting
      <4> QED BY <4>3, <4>4
    <3> QED BY <3>2, <3>3
  <2> HIDE DEF s
  <2>7. cKM.exists /\ ~cKM.deleting /\ "machine" \in cKM.fins => "machine" \in km'.fins
    BY <2>2, <2>3, <2>4 DEF Fins, FinalizerIsKept
  <2>8. ~before.deleting /\ "machine" \in before.fins => "machine" \in km'.fins
    BY <1>1, <2>3, <2>4 DEF Fins, FinalizerIsKept, Acting
  <2>9. FinalizerIsKept'
    BY <1>1, <2>6, <2>7, <2>8 DEF Fins, FinalizerIsKept, Guarded, Acting, AfterTheRead
  <2>10. DeletionIsStable'
    BY <1>1, <2>1, <2>5 DEF Fins, DeletionIsStable, Acting
  <2>11. Releasing' => before'.deleting
    BY <1>1 DEF Fins, Releasing, Acting
  <2> QED BY <2>9, <2>10, <2>11 DEF Fins
<1> QED BY <1>2, <1>3

(* Every step keeps what is known of deletion and finalizer.               *)
LEMMA NextFins ==
  ASSUME TypeOK, Links, GoneIsBlank, Fins, [OpenNext]_vars
  PROVE  Fins'
<1>1. CASE Reconcile
  BY <1>1, ReconcileFins
<1>2. CASE Calls
  BY <1>2, CallCases, CallFins DEF Calls
<1>3. CASE Patch
  BY <1>3, PatchFins
<1>4. CASE PatchStatus
  <2>1. /\ pc' = "idle" /\ UNCHANGED cKM
        /\ \/ km' = km
           \/ /\ km.exists /\ km'.exists /\ km'.deleting = km.deleting
              /\ km'.providerID = km.providerID /\ km'.fins = km.fins
    BY <1>4, PatchStatusCases DEF MachineIs
  <2> QED
    BY <2>1 DEF Fins, DeletionIsStable, FinalizerIsKept, Guarded, Releasing, Acting, AfterTheRead
<1>5. CASE SyncKM \/ Crash
  <2>1. /\ cKM' = km /\ UNCHANGED km
        /\ pc' = "idle" \/ UNCHANGED <<pc, before, after>>
    BY <1>5 DEF SyncKM, Crash, Forget, server, local
  <2>2. Acting /\ before.deleting => (km.exists => km.deleting)
    BY DEF Fins, DeletionIsStable, Links, CacheTrailsExistence
  <2>3. CASE pc' = "idle"
    BY <2>1, <2>3
    DEF Fins, DeletionIsStable, FinalizerIsKept, Guarded, Releasing, Acting, AfterTheRead
  <2>4. CASE UNCHANGED <<pc, before, after>>
    BY <2>1, <2>2, <2>4
    DEF Fins, DeletionIsStable, FinalizerIsKept, Guarded, Releasing, Acting
  <2> QED BY <2>1, <2>3, <2>4
<1>6. CASE (\E p : DeleteMachine(p)) \/ CollectMachine
  <2>1. /\ km.exists /\ UNCHANGED <<cKM, before, after, pc>>
        /\ \/ ~km'.exists /\ "machine" \notin km.fins
           \/ km'.exists /\ km'.deleting /\ ("machine" \in km.fins => "machine" \in km'.fins)
    BY <1>6, DeletionCases, GoneFields DEF MachineIs
  <2> QED
    BY <2>1 DEF Fins, DeletionIsStable, FinalizerIsKept, Guarded, Releasing, Acting
<1>7. CASE Elsewhere \/ Withdraw \/ UNCHANGED vars
  BY <1>7, ElsewhereFrame, FrameFins
<1> QED BY <1>1, <1>2, <1>3, <1>4, <1>5, <1>6, <1>7, OpenCases

-----------------------------------------------------------------------------
(* The member.                                                             *)

(* A member that has to be reset appears only by the exec that enables the *)
(* bootstrap process.                                                      *)
LEMMA UnresetCause ==
  ASSUME TypeOK, TypeOK', PodsInv, PodsInv', [OpenNext]_vars
  PROVE  Unreset' => Unreset \/ pc = "enable"
<1>1. BootSteps /\ PodStays
  BY NextSteps DEF PodSteps
<1>2. input' = input /\ clusterDeleting' \in {clusterDeleting, TRUE}
  BY NextInput
<1>3. clusterDeleting \in BOOLEAN /\ clusterDeleting' \in BOOLEAN
  BY DEF TypeOK
<1>4. ~clusterDeleting' => ~clusterDeleting
  BY <1>2, <1>3
<1>5. pod'.owner = "self" /\ boot' => pod.owner = "self"
  BY <1>1, PodFields DEF PodStays, PodsInv, Accounted, Theirs
<1> QED BY <1>1, <1>2, <1>4, <1>5 DEF BootSteps, Unreset

(* While the reconciliation can still enable the bootstrap process, the    *)
(* finalizer is in place and stays.                                        *)
LEMMA EnableIsGuarded ==
  ASSUME Links, Fins, pc = "enable"
  PROVE  "machine" \in km.fins /\ ~Releasing
BY DEF Links, StepsFollowProviderID, Fins, FinalizerIsKept, Guarded, AfterTheRead, Acting

(* Every step holds the member.                                            *)
LEMMA NextHeld ==
  ASSUME TypeOK, TypeOK', Links, PodsInv, PodsInv', GoneIsBlank, CacheShowsMember, Fins, Fins',
         MemberIsHeld, [OpenNext]_vars
  PROVE  MemberIsHeld'
<1> SUFFICES /\ Releasing' => ~Unreset'
             /\ Unreset' => "machine" \in km'.fins
  BY DEF MemberIsHeld, Fins
<1>0. Unreset' => "machine" \in km.fins /\ ~Releasing
  BY UnresetCause, EnableIsGuarded DEF MemberIsHeld
<1>1. CASE Reconcile
  <2>1. UNCHANGED <<km, cPod, pod, boot, reset, input, clusterDeleting>>
    BY <1>1 DEF Reconcile, ReconcileNotFound, AwaitOwner, AwaitCluster,
       AwaitKubernetesCluster, AwaitInfrastructure, reconcileNormal, reconcileDelete,
       Dispatch, Fetch, Take, server, cache, others
  <2>2. Unreset' <=> Unreset
    BY <2>1 DEF Unreset
  <2>3. Releasing' => ~Unreset
    <3>1. CASE ReconcileNotFound
      BY <3>1 DEF ReconcileNotFound, local, Releasing, Acting, MemberIsHeld
    <3>2. CASE ~ReconcileNotFound
      <4> SUFFICES ASSUME Releasing', Unreset PROVE FALSE
        OBVIOUS
      <4>1. /\ before' = cKM
            /\ \/ Waits \/ Creates \/ Fails \/ Provides \/ Unreadies \/ GoesOn \/ Resets
               \/ Releases
        BY <1>1, <3>2, ReconcileCases
      <4>2. "machine" \in AllFins
        BY DEF AllFins, Finalizers
      <4>3. after'.fins # cKM.fins /\ "machine" \notin after'.fins
        BY <4>1 DEF Releasing
      <4>4. Releases
        BY <4>1, <4>2, <4>3
        DEF Waits, Creates, Fails, Provides, Unreadies, GoesOn, Resets, AfterIs
      <4>5. /\ pod.owner = "self" /\ cPod.uid = pod.uid
            /\ ~clusterDeleting /\ input.controlPlane
        BY DEF Unreset, CacheShowsMember
      <4>6. pod.uid >= 2
        BY <4>5, PodFields DEF PodsInv, Accounted, Theirs
      <4>7. cPod.owner = "self" /\ Exists(cPod)
        BY <4>5, <4>6, PodFields DEF PodsInv, Accounted, Theirs, Exists
      <4> QED BY <4>4, <4>5, <4>7 DEF Releases
    <3> QED BY <3>1, <3>2
  <2> QED BY <1>0, <2>1, <2>2, <2>3
<1>2. CASE Calls
  <2>1. CallPaths
    BY <1>2, CallCases DEF Calls
  <2>2. CASE reset'
    BY <1>0, <2>1, <2>2 DEF CallPaths, Unreset
  <2>3. CASE ~reset'
    <3>1. after'.fins = after.fins /\ UNCHANGED <<km, before>> /\ Acting
      BY <2>1, <2>3 DEF CallPaths, KeepsCopy, AfterIs, Holding, AfterTheRead, Acting
    <3> QED BY <1>0, <3>1 DEF Releasing
  <2> QED BY <2>2, <2>3
<1>3. CASE Patch
  <2>1. /\ pc = "patch" /\ UNCHANGED <<before, after>>
        /\ \/ km' = km
           \/ km' = GoneMachine /\ Sent(after.fins, before.fins, km.fins) = {}
           \/ km'.fins = Sent(after.fins, before.fins, km.fins)
    BY <1>3, PatchCases DEF MachineIs
  <2>2. Unreset' => "machine" \in Sent(after.fins, before.fins, km.fins)
    BY <1>0, <2>1 DEF Releasing, Acting, Sent
  <2> QED BY <1>0, <2>1, <2>2 DEF Releasing, Acting
<1>4. CASE PatchStatus
  BY <1>0, <1>4, PatchStatusCases DEF MachineIs, Releasing, Acting
<1>5. CASE SyncKM \/ Crash
  <2>1. UNCHANGED km /\ (pc' = "idle" \/ UNCHANGED <<pc, before, after>>)
    BY <1>5 DEF SyncKM, Crash, Forget, server, local
  <2> QED BY <1>0, <2>1 DEF Releasing, Acting
<1>6. CASE (\E p : DeleteMachine(p)) \/ CollectMachine
  <2>1. /\ UNCHANGED <<before, after, pc>>
        /\ "machine" \in km.fins => "machine" \in km'.fins
    BY <1>6, DeletionCases DEF MachineIs
  <2> QED BY <1>0, <2>1 DEF Releasing, Acting
<1>7. CASE Elsewhere \/ Withdraw \/ UNCHANGED vars
  BY <1>0, <1>7, ElsewhereFrame DEF Releasing, Acting
<1> QED BY <1>1, <1>2, <1>3, <1>4, <1>5, <1>6, <1>7, OpenCases

(* The member's invariant holds initially.                                 *)
LEMMA InitMember == ASSUME "secret" \notin Foreign PROVE Init => MemberInv
<1> SUFFICES ASSUME Init PROVE MemberInv
  OBVIOUS
<1>1. ReadyInv /\ PodsInv /\ GoneIsBlank
  BY InitTypeOK, InitLinks, InitPods, InitCopies DEF ReadyInv, Links, Copies
<1>2. /\ pc = "idle" /\ secret = "none" /\ seen = NoPod /\ boot = FALSE
      /\ cPod = pod /\ pod \in {NoPod, ForeignPod}
  BY DEF Init
<1>3. StartedIsLast
  BY <1>2, PodFields DEF StartedIsLast, Launched, Started
<1>4. CacheShowsMember
  BY <1>2, PodFields DEF CacheShowsMember
<1>5. /\ km = NewMachine /\ cKM = NewMachine
      /\ ~NewMachine.deleting /\ ~NewMachine.providerID /\ NewMachine.fins = {}
  BY DEF Init, NewMachine
<1>6. DeletionIsStable /\ FinalizerIsKept
  BY <1>2, <1>5 DEF DeletionIsStable, FinalizerIsKept, Guarded, Acting, AfterTheRead
<1>7. MemberIsHeld
  BY <1>2 DEF MemberIsHeld, Releasing, Unreset, Acting
<1> QED BY <1>1, <1>3, <1>4, <1>6, <1>7 DEF MemberInv

(* The member's invariant, for a Secret name that is free at the start.    *)
THEOREM MemberInvariant ==
  ASSUME "secret" \notin Foreign
  PROVE  OpenSpec => []MemberInv
<1>1. Init => MemberInv
  BY InitMember
<1>2. MemberInv /\ [OpenNext]_vars => MemberInv'
  <2> SUFFICES ASSUME MemberInv, [OpenNext]_vars PROVE MemberInv'
    OBVIOUS
  <2>1. /\ TypeOK /\ Links /\ PodsInv /\ GoneIsBlank /\ StartedIsLast /\ CacheShowsMember
        /\ Fins /\ MemberIsHeld
    BY DEF MemberInv, ReadyInv, Links, Fins, MemberIsHeld
  <2>2. TypeOK' /\ Links' /\ PodsInv' /\ GoneIsBlank'
    BY <2>1, NextTypeOK, NextLinks, NextPods, NextGone
  <2>3. StartedIsLast' /\ CacheShowsMember'
    BY <2>1, <2>2, NextStarted
  <2>4. Fins'
    BY <2>1, NextFins
  <2>5. MemberIsHeld'
    BY <2>1, <2>2, <2>4, NextHeld
  <2> QED BY <2>2, <2>3, <2>4, <2>5 DEF MemberInv, ReadyInv, Links, Fins
<1> QED
  BY <1>1, <1>2, PTL DEF OpenSpec

(* A control plane machine of a cluster that stays keeps its finalizer     *)
(* while its Pod runs an etcd member that kubeadm reset has not removed,   *)
(* for any number of Pods lost, calls failed and restarts, unless          *)
(* recreation is allowed or somebody else's Secret, under the name of the  *)
(* machine's own, lets a Pod start before the provider ID is known.        *)
LEMMA OpenMemberHeld ==
  ASSUME "secret" \notin Foreign
  PROVE  OpenSpec => []MemberNotAbandoned
<1>1. MemberInv => MemberNotAbandoned
  BY DEF MemberInv, MemberIsHeld, Unreset, MemberNotAbandoned
<1> QED
  BY <1>1, MemberInvariant, PTL

(* The same of the specification.                                          *)
THEOREM MemberIsNotAbandoned ==
  ASSUME "secret" \notin Foreign
  PROVE  Spec => []MemberNotAbandoned
BY OpenMemberHeld, SpecIsOpen, PTL
=============================================================================
