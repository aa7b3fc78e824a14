--------------------------- MODULE ProviderProofs ---------------------------
(***************************************************************************)
(* Proofs about Provider, for every value of its constants.  Whatever the  *)
(* KubernetesCluster does, the machine takes the steps of OpenNext and the *)
(* cluster those of ClusterLifecycle: what is proved of each alone holds   *)
(* of the two together.  And the machine waits for the cluster.            *)
(***************************************************************************)
EXTENDS Provider, KubernetesMachineRefinement

-----------------------------------------------------------------------------
(* The components in the composition.                                      *)

(* Only the others provide, and only they take away.                       *)
LEMMA GivenStays == ASSUME MachineNext \/ DeleteCluster PROVE given' = given
<1> USE DEF server, cache, others, local, Step, PodChanges
<1>1. CASE Reconcile
  BY <1>1 DEF Reconcile, ReconcileNotFound, AwaitOwner, AwaitCluster,
     AwaitKubernetesCluster, AwaitInfrastructure, reconcileNormal, reconcileDelete,
     Dispatch, Fetch, Take
<1>2. CASE Calls
  BY <1>2 DEF Calls, createMachinePod, createPersistentVolumeClaims, createSecret, deletePod,
     enableBoostrapProcess, setNodeProviderID, kubeadmReset, ExecHangs, ExecEnds, KubectlHangs,
     KubectlEnds
<1>3. CASE \/ Patch \/ PatchStatus \/ SyncKM \/ SyncPod \/ Crash \/ DeleteCluster
           \/ Pause \/ Unpause \/ Resync
  BY <1>3 DEF Patch, PatchStatus, SyncKM, SyncPod, Crash, DeleteCluster, Pause, Unpause, Resync
<1>4. CASE GarbageCollector \/ Kubelet \/ NodeJoins \/ PodLost \/ KindTerminates \/ PodUnready
  BY <1>4 DEF GarbageCollector, CollectPod, CollectSecret, CollectClaims, CollectMachine, Kubelet,
     KubeletStarts, KubeletRemoves, NodeJoins, PodLost, KindTerminates, PodUnready
<1> QED
  BY <1>1, <1>2, <1>3, <1>4 DEF MachineNext, Controller, Watches, Faults, Calls

(* A step of the composition is a step of the machine among others, and it *)
(* takes nothing but the KubernetesCluster from it.                        *)
LEMMA MachineSteps ==
  ASSUME [ProviderNext]_allVars
  PROVE  [OpenNext]_vars /\ ("infraReady" \in given => "infraReady" \in given')
<1>1. CASE MachineAlone(MachineNext) \/ MachineAlone(DeleteCluster)
  <2>1. MachineNext \/ DeleteCluster
    BY <1>1 DEF MachineAlone
  <2>2. Next
    BY <2>1 DEF MachineNext, Next, Users
  <2>3. given' = given
    BY <2>1, GivenStays
  <2> QED BY <2>2, <2>3 DEF OpenNext
<1>2. CASE LoseKubernetesCluster
  <2>1. given' = given \ {"kubernetesCluster"} /\ queued' \in BOOLEAN
    BY <1>2 DEF LoseKubernetesCluster
  <2>2. Withdraw
    BY <1>2, <2>1 DEF Withdraw, LoseKubernetesCluster
  <2> QED BY <2>1, <2>2 DEF OpenNext
<1>3. CASE \E x \in Prereqs : ProvideFor(x)
  BY <1>3 DEF ProvideFor, MachineAlone, Provide, OpenNext, Next
<1>4. CASE TearDownMachine
  <2>1. DeleteMachine("default") \/ DeleteMachine("background")
    BY <1>4 DEF TearDownMachine, MachineAlone
  <2>2. \E p : DeleteMachine(p)
    BY <2>1
  <2>3. given' = given
    BY <2>1 DEF DeleteMachine, others
  <2> QED BY <2>2, <2>3 DEF OpenNext
<1>5. CASE \/ ClusterAlone(ClusterProvisions) \/ ClusterAlone(ClusterRemoved)
           \/ TearDownCluster \/ UNCHANGED allVars
  <2>1. UNCHANGED vars
    BY <1>5 DEF ClusterAlone, TearDownCluster, allVars
  <2> QED BY <2>1 DEF vars, others
<1> QED BY <1>1, <1>2, <1>3, <1>4, <1>5 DEF ProviderNext

(* Every step of the composition is one of the cluster's lifecycle, or     *)
(* none.                                                                   *)
LEMMA ClusterSteps ==
  ASSUME [ProviderNext]_allVars
  PROVE  [Cluster!Next]_(Cluster!vars)
<1> USE DEF clusterVars, Cluster!vars
<1>1. CASE \/ MachineAlone(MachineNext) \/ MachineAlone(DeleteCluster) \/ TearDownMachine
           \/ LoseKubernetesCluster \/ (\E x \in Prereqs : ProvideFor(x)) \/ UNCHANGED allVars
  BY <1>1 DEF MachineAlone, TearDownMachine, LoseKubernetesCluster, ProvideFor, allVars
<1>2. CASE ClusterAlone(ClusterProvisions) \/ ClusterAlone(ClusterRemoved) \/ TearDownCluster
  BY <1>2 DEF ClusterAlone, ClusterProvisions, ClusterRemoved, TearDownCluster, Cluster!Next
<1> QED BY <1>1, <1>2 DEF ProviderNext

(* In the composition the machine is a machine among others.               *)
LEMMA MachineInProvider == ProviderSpec => OpenSpec
<1>1. [ProviderNext]_allVars => [OpenNext]_vars
  BY MachineSteps
<1> QED BY <1>1, PTL DEF ProviderSpec, ProviderInit, OpenSpec

(* In the composition Ready of the machine stands for a Node with the      *)
(* provider ID, and a machine that has been ready gets no second Pod,      *)
(* although the KubernetesCluster may go under it.                         *)
THEOREM ReadyInProvider == ProviderSpec => []ReadyIsBacked /\ NoReplacementOnceReady
BY MachineInProvider, OpenReadyIsBacked, OpenNoReplacement, PTL

(* In the composition, too, the machine follows MachineLifecycle.          *)
THEOREM RefinementInProvider ==
  ASSUME "pod" \notin Foreign
  PROVE  ProviderSpec => ImplementsLifecycle
BY MachineInProvider, OpenRefinement, PTL

(* In the composition, too, no etcd member of a cluster that stays is      *)
(* abandoned, in whatever order the namespace of both is torn down.        *)
THEOREM MemberInProvider ==
  ASSUME "secret" \notin Foreign
  PROVE  ProviderSpec => []MemberNotAbandoned
BY MachineInProvider, OpenMemberHeld, PTL

-----------------------------------------------------------------------------
(* The machine waits for the cluster.                                      *)

(* Something has been built for the machine, or a finalizer holds it, or a *)
(* copy says so or leads to it.                                            *)
Begun ==
  \/ km.fins # {} \/ cKM.fins # {} \/ created > 0 \/ pc = "createPod"
  \/ Acting /\ (before.fins # {} \/ after.fins # {})

WaitsInv ==
  /\ TypeOK /\ GoneIsBlank /\ Links
  /\ Begun => "infraReady" \in given
  /\ "infraReady" \in given => ready \/ gone

(* What a reconciliation decides without reconcileNormal begins nothing.   *)
LEMMA ReconcileBegins ==
  ASSUME TypeOK, Reconcile, Begun'
  PROVE  Begun \/ "infraReady" \in given
<1> SUFFICES ASSUME ~Begun, ~reconcileNormal PROVE FALSE
  BY DEF reconcileNormal
<1>1. UNCHANGED <<km, cKM, created>>
  BY DEF Reconcile, ReconcileNotFound, AwaitOwner, AwaitCluster, AwaitKubernetesCluster,
     AwaitInfrastructure, reconcileNormal, reconcileDelete, Dispatch, Fetch, Take, server, cache
<1>2. CASE ReconcileNotFound
  BY <1>1, <1>2 DEF ReconcileNotFound, local, Begun, Acting
<1>3. CASE ~ReconcileNotFound
  <2>1. before' = cKM
    BY <1>3, ReconcileCases
  <2>2. pc' # "createPod" /\ after'.fins \subseteq cKM.fins
    <3>1. CASE reconcileDelete
      BY <3>1, DeleteCases DEF Resets, Releases, AfterIs
    <3>2. CASE AwaitOwner
      <4>1. pc' = "patch" /\ \E e : Return(cKM, e)
        BY <3>2 DEF AwaitOwner, Return
      <4> QED BY <4>1, CopyOf DEF TypeOK, AfterIs
    <3>3. CASE AwaitCluster \/ AwaitKubernetesCluster \/ AwaitInfrastructure
      <4> DEFINE k == reconcileVersion(cKM)
      <4>1. k \in Machines /\ k.fins = cKM.fins
        BY SettersType, SettersFields DEF TypeOK
      <4>2. pc' = "patch" /\ \E e : Return(k, e)
        BY <3>3 DEF AwaitCluster, AwaitKubernetesCluster, AwaitInfrastructure, Return
      <4> HIDE DEF k
      <4> QED BY <4>1, <4>2, CopyOf DEF AfterIs
    <3> QED BY <1>3, <3>1, <3>2, <3>3 DEF Reconcile
  <2> QED BY <1>1, <2>1, <2>2 DEF Begun
<1> QED BY <1>2, <1>3

(* Only reconcileNormal begins, and only when the infrastructure is ready. *)
LEMMA NextBegins ==
  ASSUME TypeOK, GoneIsBlank, [OpenNext]_vars, Begun'
  PROVE  Begun \/ "infraReady" \in given
<1> SUFFICES ASSUME ~Begun, ~Reconcile PROVE FALSE
  BY ReconcileBegins
<1>0. /\ km.fins = {} /\ cKM.fins = {} /\ ~(created > 0) /\ pc # "createPod"
      /\ Acting => before.fins = {} /\ after.fins = {}
  BY DEF Begun
<1> GoneMachine.fins = {}
  BY DEF GoneMachine, NewMachine
<1>1. CASE Calls
  <2>1. CallPaths
    BY <1>1, CallCases DEF Calls
  <2>2. created' = created
    BY <1>0, <1>1 DEF Calls, createMachinePod, createPersistentVolumeClaims, createSecret,
       deletePod, enableBoostrapProcess, setNodeProviderID, kubeadmReset, ExecHangs, ExecEnds,
       KubectlHangs, KubectlEnds, Step
  <2>3. Acting /\ pc' # "createPod" /\ UNCHANGED <<km, cKM, before>>
    BY <2>1 DEF CallPaths, Holding, AfterTheRead, Acting
  <2>4. after'.fins \subseteq after.fins
    BY <2>1 DEF CallPaths, KeepsCopy, AfterIs
  <2> QED BY <1>0, <2>2, <2>3, <2>4 DEF Begun
<1>2. CASE Patch
  <2>1. /\ Acting /\ pc' = "patchStatus" /\ UNCHANGED <<cKM, before, after, created>>
        /\ \/ km' = km \/ km' = GoneMachine
           \/ km'.fins = Sent(after.fins, before.fins, km.fins)
    BY <1>2, PatchCases DEF MachineIs, Acting
  <2>2. Sent(after.fins, before.fins, km.fins) = {}
    BY <1>0, <2>1 DEF Sent
  <2> QED BY <1>0, <2>1, <2>2 DEF Begun
<1>3. CASE PatchStatus
  BY <1>0, <1>3, PatchStatusCases DEF Begun, MachineIs, Acting
<1>4. CASE SyncKM \/ Crash
  BY <1>0, <1>4 DEF SyncKM, Crash, Forget, server, local, Begun, Acting
<1>5. CASE (\E p : DeleteMachine(p)) \/ CollectMachine
  <2>1. UNCHANGED <<cKM, before, after, pc, created>> /\ km'.fins = {}
    BY <1>0, <1>5, DeletionCases DEF MachineIs
  <2> QED BY <1>0, <2>1 DEF Begun, Acting
<1>6. CASE Elsewhere \/ Withdraw \/ UNCHANGED vars
  BY <1>0, <1>6, ElsewhereFrame DEF Begun, Acting
<1> QED BY <1>1, <1>2, <1>3, <1>4, <1>5, <1>6, OpenCases

(* The others say that the infrastructure is ready only when the           *)
(* KubernetesCluster is, which does not take it back.                      *)
LEMMA InfrastructureIsReady ==
  ASSUME [ProviderNext]_allVars, "infraReady" \in given => ready \/ gone
  PROVE  ("infraReady" \in given => ready \/ gone)'
<1>1. CASE \E x \in Prereqs : ProvideFor(x)
  BY <1>1 DEF ProvideFor, MachineAlone, clusterVars, Provide
<1>2. CASE MachineAlone(MachineNext) \/ MachineAlone(DeleteCluster)
  BY <1>2, GivenStays DEF MachineAlone, clusterVars
<1>3. CASE TearDownMachine \/ LoseKubernetesCluster
  BY <1>3 DEF TearDownMachine, MachineAlone, DeleteMachine, LoseKubernetesCluster, clusterVars, others
<1>4. CASE \/ ClusterAlone(ClusterProvisions) \/ ClusterAlone(ClusterRemoved)
           \/ TearDownCluster \/ UNCHANGED allVars
  <2>1. given' = given
    BY <1>4 DEF ClusterAlone, TearDownCluster, allVars, vars, others
  <2>2. ready \/ gone => ready' \/ gone'
    BY <1>4, ClusterSteps DEF Cluster!Next, Cluster!vars, Cluster!Publish, Cluster!BecomeReady,
       Cluster!Break, Cluster!Terminate, Cluster!Remove
  <2> QED BY <2>1, <2>2
<1> QED BY <1>1, <1>2, <1>3, <1>4 DEF ProviderNext

(* Nothing is built for a machine, and no finalizer holds it, before its   *)
(* KubernetesCluster has been ready: whatever its caches miss, whatever    *)
(* fails, and whatever becomes of the cluster afterwards.                  *)
THEOREM MachineWaitsForCluster ==
  ASSUME "infraReady" \notin InitiallyGiven
  PROVE  ProviderSpec => []WaitsForCluster
<1>1. ProviderInit => WaitsInv
  <2> SUFFICES ASSUME Init PROVE WaitsInv
    BY DEF ProviderInit
  <2>1. TypeOK /\ GoneIsBlank /\ Links
    BY InitTypeOK, InitLinks, InitCopies DEF Copies
  <2>2. "infraReady" \notin given
    BY DEF Init
  <2>3. /\ km.fins = {} /\ cKM.fins = {} /\ created = 0 /\ pc = "idle"
    BY DEF Init, NewMachine
  <2>4. ~Begun
    BY <2>3 DEF Begun, Acting
  <2> QED BY <2>1, <2>2, <2>4 DEF WaitsInv
<1>2. WaitsInv /\ [ProviderNext]_allVars => WaitsInv'
  <2> SUFFICES ASSUME WaitsInv, [ProviderNext]_allVars PROVE WaitsInv'
    OBVIOUS
  <2>1. [OpenNext]_vars /\ ("infraReady" \in given => "infraReady" \in given')
    BY MachineSteps
  <2>2. TypeOK /\ GoneIsBlank /\ Links
    BY DEF WaitsInv
  <2>3. TypeOK' /\ GoneIsBlank' /\ Links'
    BY <2>1, <2>2, NextTypeOK, NextGone, NextLinks
  <2>4. (Begun => "infraReady" \in given)'
    BY <2>1, <2>2, NextBegins DEF WaitsInv
  <2>5. ("infraReady" \in given => ready \/ gone)'
    BY InfrastructureIsReady DEF WaitsInv
  <2> QED BY <2>3, <2>4, <2>5 DEF WaitsInv
<1>3. WaitsInv => WaitsForCluster
  BY DEF WaitsInv, Begun, WaitsForCluster
<1> QED BY <1>1, <1>2, <1>3, PTL DEF ProviderSpec
=============================================================================
