----------------------- MODULE KubernetesMachineWakeup -----------------------
(***************************************************************************)
(* Proofs about KubernetesMachine, continued: no wake-up is lost.  When    *)
(* nothing is queued and no event is on its way, the phase is written and  *)
(* the controller has done what depends on it alone.                       *)
(***************************************************************************)
EXTENDS KubernetesMachineRefinement

-----------------------------------------------------------------------------
(* The inductive invariant behind PhaseSettles and NoLostWakeup.           *)

(* A copy is of an earlier moment: a deletion is not taken back, and while *)
(* it lasts finalizers only go.                                            *)
Older(c) == km.exists => c.exists /\ (c.deleting => km.deleting /\ km.fins \subseteq c.fins)

CopiesAreOlder ==
  /\ Older(cKM)
  /\ Acting => /\ before.exists /\ Older(before)
               /\ after.exists = before.exists /\ after.deleting = before.deleting

(* As long as no request is queued, the copy a reconciliation works on is  *)
(* the cached one; a change of the spec has been written, or it will be    *)
(* tried again.                                                            *)
UnqueuedIsCurrent == Acting /\ ~queued => before = cKM

SpecIsSent == pc = "patchStatus" /\ ~rerr /\ SpecChanged => km # before

(* Status.Phase says what the rest of the copy says.                       *)
PhaseIsSaid(k) == k.phase = reconcilePhase(k).phase

PhaseIsDecided == pc \in {"patch", "patchStatus"} => PhaseIsSaid(after)

PhaseIsWritten == pc = "idle" /\ ~queued /\ km.exists => cKM # km \/ PhaseIsSaid(km)

PhaseInv ==
  /\ GoneIsBlank /\ CopiesAreOlder
  /\ UnqueuedIsCurrent /\ SpecIsSent /\ PhaseIsDecided /\ PhaseIsWritten

(* What arrives with an event queues the machine until it has been read.   *)
ArrivalsQueue == known \subseteq given /\ (~queued => Overlooked \subseteq Unwatched)

(* Nothing has been queued since the reconciliation started, and it had,   *)
(* and read, all it needs.                                                 *)
Undisturbed == ~queued /\ given = Prereqs /\ Overlooked = {} /\ ~paused

SecretStands == secret # "none" \/ "secret" \in Foreign

(* The machine k, whose Pod is p, has what the controller can give it.     *)
Attended(k, p) ==
  /\ k.providerID /\ p.owner = "self"
  /\ \/ p.deleting /\ input.allowRecreation
     \/ /\ ~p.deleting /\ pvcs = Claims /\ SecretStands
        /\ p.state # "terminated"
        /\ p.state \in Alive => boot
        /\ p.state = "podReady" => k.ready

(* A Pod of the machine's has been created, or deleted, or has gone, and   *)
(* the cache does not show it yet: whoever has the name by then, an event  *)
(* is on its way.                                                          *)
PodUnseen ==
  \/ cPod.owner # "self" /\ pod.owner = "self"
  \/ cPod.owner = "self" /\ ~cPod.deleting /\ (pod.deleting \/ pod.uid # cPod.uid)

(* What the steps up to a live call have established.                      *)
StepsAttend ==
  /\ secret = "other" => "secret" \in Foreign
  /\ pc = "createPod" /\ ~queued => cPod.owner # "self"
  /\ pc \in {"createPod"} \cup AfterTheRead => ~before.deleting
  /\ pc = "reset" => before.deleting
  /\ pc \in AfterTheRead => ~seen.deleting /\ after.providerID /\ (~queued => seen = cPod)
  /\ pc \in AfterTheRead \ {"createPVCs"} /\ ~queued => pvcs = Claims
  /\ pc \in {"enable", "setProviderID"} /\ ~queued => SecretStands
  /\ pc = "deletePod" => seen.state = "terminated"
  /\ pc = "enable" => seen.state \in Alive
  /\ pc = "setProviderID" => /\ seen.state \in {"containerReady", "podReady"}
                             /\ ~queued => boot \/ PodUnseen

(* What a reconciliation has decided without an error: to let a deleted    *)
(* machine go, to report a failure, or that nothing is left to be done but *)
(* what it is about to send or what the cache is about to show.            *)
MachineIsDecided ==
  pc \in {"patch", "patchStatus"} /\ Undisturbed /\ ~rerr =>
    IF before.deleting
      THEN "machine" \notin after.fins
      ELSE \/ after.failed \/ PodUnseen \/ Attended(after, cPod)
           \/ after.providerID # before.providerID

MachineIsAttended ==
  pc = "idle" /\ Undisturbed /\ km.exists /\ cKM = km =>
    IF km.deleting
      THEN "machine" \notin km.fins
      ELSE km.failed \/ PodUnseen \/ Attended(km, cPod)

WakeupInv == ArrivalsQueue /\ StepsAttend /\ MachineIsDecided /\ MachineIsAttended

-----------------------------------------------------------------------------
(* What the reconciler decides about the phase.                            *)

(* k is a copy of the machine c with other spec and status.                *)
CopyOfMachine(k, c) == k \in Machines /\ k.exists = c.exists /\ k.deleting = c.deleting

(* The assignments of the reconciler change neither identity nor deletion. *)
LEMMA SettersCopy ==
  ASSUME NEW STATE k, NEW STATE c, CopyOfMachine(k, c)
  PROVE  /\ CopyOfMachine(reconcileVersion(k), c) /\ CopyOfMachine(SetFailure(k), c)
         /\ CopyOfMachine(AddFinalizers(k), c) /\ CopyOfMachine(RemoveFinalizer(k), c)
         /\ CopyOfMachine(SetReady(k, FALSE), c) /\ CopyOfMachine(SetReady(k, TRUE), c)
         /\ CopyOfMachine([k EXCEPT !.providerID = TRUE], c)
         /\ CopyOfMachine(reconcilePhase(k), c)
<1>1. k \in Machines /\ k.exists = c.exists /\ k.deleting = c.deleting
  BY DEF CopyOfMachine
<1>2. /\ reconcileVersion(k).exists = k.exists /\ reconcileVersion(k).deleting = k.deleting
      /\ SetFailure(k).exists = k.exists /\ SetFailure(k).deleting = k.deleting
      /\ AddFinalizers(k).exists = k.exists /\ AddFinalizers(k).deleting = k.deleting
      /\ RemoveFinalizer(k).exists = k.exists /\ RemoveFinalizer(k).deleting = k.deleting
      /\ [k EXCEPT !.providerID = TRUE].exists = k.exists
      /\ [k EXCEPT !.providerID = TRUE].deleting = k.deleting
  BY <1>1 DEF Machines, reconcileVersion, SetFailure, AddFinalizers, RemoveFinalizer
<1>3. ASSUME NEW r \in BOOLEAN
      PROVE  SetReady(k, r).exists = k.exists /\ SetReady(k, r).deleting = k.deleting
  BY <1>1 DEF Machines, SetReady
<1>4. /\ reconcileVersion(k) \in Machines /\ SetFailure(k) \in Machines
      /\ AddFinalizers(k) \in Machines /\ RemoveFinalizer(k) \in Machines
      /\ [k EXCEPT !.providerID = TRUE] \in Machines
      /\ SetReady(k, FALSE) \in Machines /\ SetReady(k, TRUE) \in Machines
  BY <1>1, SettersType
<1>5. CopyOfMachine(reconcilePhase(k), c)
  BY <1>1, ReconcilePhaseType, ReconcilePhaseKeeps DEF CopyOfMachine
<1> QED BY <1>1, <1>2, <1>3, <1>4, <1>5 DEF CopyOfMachine

(* reconcilePhase, run again, changes nothing.                             *)
LEMMA PhaseIsStable ==
  ASSUME NEW STATE k, k \in Machines
  PROVE  PhaseIsSaid(reconcilePhase(k))
<1> DEFINE j == reconcilePhase(k)
<1>1. /\ j \in Machines /\ j.deleting = k.deleting /\ j.failed = k.failed
      /\ j.providerID = k.providerID /\ j.ready = k.ready
  BY ReconcilePhaseType, ReconcilePhaseKeeps
<1>2. j.phase = CASE k.deleting -> "Deleting"
                  [] ~k.deleting /\ k.failed -> "Failed"
                  [] ~k.deleting /\ ~k.failed /\ k.providerID /\ k.ready -> "Running"
                  [] ~k.deleting /\ ~k.failed /\ k.providerID /\ ~k.ready -> "Provisioning"
                  [] ~k.deleting /\ ~k.failed /\ ~k.providerID /\ k.phase = "" -> "Pending"
                  [] OTHER -> k.phase
  BY DEF reconcilePhase, Machines
<1> HIDE DEF j
<1>3. reconcilePhase(j).phase =
                CASE j.deleting -> "Deleting"
                  [] ~j.deleting /\ j.failed -> "Failed"
                  [] ~j.deleting /\ ~j.failed /\ j.providerID /\ j.ready -> "Running"
                  [] ~j.deleting /\ ~j.failed /\ j.providerID /\ ~j.ready -> "Provisioning"
                  [] ~j.deleting /\ ~j.failed /\ ~j.providerID /\ j.phase = "" -> "Pending"
                  [] OTHER -> j.phase
  BY <1>1 DEF reconcilePhase, Machines
<1>4. reconcilePhase(j).phase = j.phase
  BY <1>1, <1>2, <1>3, MachineFields
<1> QED BY <1>4 DEF PhaseIsSaid, j

(* The copy that a reconciliation returns with is of the machine it has    *)
(* read and says its phase; the copy of one that goes on is kept as well.  *)
LEMMA ReturnSays ==
  ASSUME NEW STATE k, NEW STATE c, CopyOfMachine(k, c), NEW e, Return(k, e)
  PROVE  /\ pc' = "patch" /\ PhaseIsSaid(after)'
         /\ after'.exists = c.exists /\ after'.deleting = c.deleting
<1>1. k \in Machines
  BY DEF CopyOfMachine
<1>2. PhaseIsSaid(reconcilePhase(k)) /\ CopyOfMachine(reconcilePhase(k), c)
  BY <1>1, PhaseIsStable, SettersCopy
<1>3. pc' = "patch" /\ after' = reconcilePhase(k)
  BY DEF Return
<1> QED BY <1>2, <1>3 DEF PhaseIsSaid, CopyOfMachine

(* A reconciliation that has read the machine.                             *)
Begins ==
  /\ before' = cKM /\ cKM.exists /\ pc = "idle"
  /\ after'.exists = cKM.exists /\ after'.deleting = cKM.deleting
  /\ \/ pc' = "patch" /\ PhaseIsSaid(after)'
     \/ pc' \in {"createPod", "createPVCs", "reset"}
  /\ UNCHANGED <<km, cKM>>

LEMMA ReconcileBegins == ASSUME TypeOK, Reconcile, ~ReconcileNotFound PROVE Begins
<1>1. before' = cKM /\ cKM.exists /\ pc = "idle" /\ UNCHANGED <<km, cKM>>
  BY DEF Reconcile, AwaitOwner, AwaitCluster, AwaitKubernetesCluster,
         AwaitInfrastructure, reconcileNormal, reconcileDelete, Dispatch, Fetch, Take,
         server, cache
<1>2. ASSUME NEW STATE k, CopyOfMachine(k, cKM), NEW e, Return(k, e) PROVE Begins
  BY <1>1, <1>2, ReturnSays DEF Begins
<1>3. ASSUME NEW STATE k, CopyOfMachine(k, cKM),
             NEW s \in {"createPod", "createPVCs", "reset"}, Call(s, k)
      PROVE Begins
  BY <1>1, <1>3 DEF Begins, Call, CopyOfMachine
<1>4. CopyOfMachine(cKM, cKM) /\ CopyOfMachine(reconcileVersion(cKM), cKM)
  BY SettersCopy DEF TypeOK, CopyOfMachine
<1>5. CASE AwaitOwner
  BY <1>2, <1>4, <1>5 DEF AwaitOwner
<1>6. CASE AwaitCluster \/ AwaitKubernetesCluster \/ AwaitInfrastructure
  BY <1>2, <1>4, <1>6 DEF AwaitCluster, AwaitKubernetesCluster, AwaitInfrastructure
<1>7. CASE reconcileNormal
  <2> DEFINE k0 == reconcileVersion(cKM)
             k == AddFinalizers(k0)
  <2>1. NormalFailed(k0) \/ NormalAwaitBootstrap(k) \/ NormalPodNotFound(k) \/ NormalPodFound(k)
    BY <1>7 DEF reconcileNormal
  <2>2. CopyOfMachine(k0, cKM) /\ CopyOfMachine(k, cKM)
    BY <1>4, SettersCopy
  <2> HIDE DEF k, k0
  <2>3. /\ CopyOfMachine(SetFailure(k), cKM) /\ CopyOfMachine(SetReady(k, FALSE), cKM)
        /\ CopyOfMachine([k EXCEPT !.providerID = TRUE], cKM)
    BY <2>2, SettersCopy
  <2>4. CASE NormalFailed(k0) \/ NormalAwaitBootstrap(k)
    BY <1>2, <2>2, <2>4 DEF NormalFailed, NormalAwaitBootstrap
  <2>5. CASE NormalPodNotFound(k)
    BY <1>2, <1>3, <2>2, <2>3, <2>5 DEF NormalPodNotFound
  <2>6. CASE NormalPodFound(k)
    BY <1>2, <1>3, <2>2, <2>3, <2>6 DEF NormalPodFound
  <2> QED BY <2>1, <2>4, <2>5, <2>6
<1>8. CASE reconcileDelete
  <2> DEFINE k == reconcileVersion(cKM)
  <2>1. \/ Call("reset", k) \/ Return(SetFailure(RemoveFinalizer(k)), FALSE)
        \/ Return(RemoveFinalizer(k), FALSE)
    BY <1>8 DEF reconcileDelete
  <2>2. CopyOfMachine(k, cKM) /\ CopyOfMachine(RemoveFinalizer(k), cKM)
    BY <1>4, SettersCopy
  <2>3. CopyOfMachine(SetFailure(RemoveFinalizer(k)), cKM)
    <3> DEFINE r == RemoveFinalizer(k)
    <3> HIDE DEF r, k
    <3>1. CopyOfMachine(r, cKM)
      BY <2>2 DEF r
    <3>2. CopyOfMachine(SetFailure(r), cKM)
      BY <3>1, SettersCopy
    <3> QED BY <3>2 DEF r
  <2> HIDE DEF k
  <2> QED BY <1>2, <1>3, <2>1, <2>2, <2>3
<1> QED BY <1>5, <1>6, <1>7, <1>8 DEF Reconcile

(* A live call leaves the copy alone, or returns with it.                  *)
GoesOnOrReturns ==
  /\ UNCHANGED <<km, cKM, before>> /\ pc \in Holding \cup {"createPod"}
  /\ after'.exists = after.exists /\ after'.deleting = after.deleting
  /\ \/ pc' = "patch" /\ PhaseIsSaid(after)'
     \/ pc' \in Holding
  /\ queued => queued'

LEMMA CallsSay == ASSUME TypeOK, Calls PROVE GoesOnOrReturns
<1>1. UNCHANGED <<km, cKM, before>> /\ pc \in Holding \cup {"createPod"}
  BY CallCases DEF Calls, CallPaths
<1>2. queued => queued'
  BY DEF Calls, createMachinePod, createPersistentVolumeClaims, createSecret, deletePod,
         enableBoostrapProcess, setNodeProviderID, kubeadmReset, ExecHangs, ExecEnds,
         KubectlHangs, KubectlEnds
<1>3. ASSUME NEW STATE k, CopyOfMachine(k, after), NEW e, Return(k, e) PROVE GoesOnOrReturns
  BY <1>1, <1>2, <1>3, ReturnSays DEF GoesOnOrReturns
<1>4. ASSUME NEW s \in Holding, Proceed(s) PROVE GoesOnOrReturns
  BY <1>1, <1>2, <1>4 DEF GoesOnOrReturns, Proceed
<1>5. /\ CopyOfMachine(after, after) /\ CopyOfMachine(SetFailure(after), after)
      /\ CopyOfMachine(SetReady(after, TRUE), after) /\ CopyOfMachine(RemoveFinalizer(after), after)
  BY SettersCopy DEF TypeOK, CopyOfMachine
<1>6. \/ \E e : Return(after, e)
      \/ \E e : Return(SetFailure(after), e)
      \/ \E e : Return(SetReady(after, TRUE), e)
      \/ \E e : Return(RemoveFinalizer(after), e)
      \/ \E s \in Holding : Proceed(s)
      \/ ExecHangs \/ KubectlHangs
  BY DEF Calls, createMachinePod, createPersistentVolumeClaims, createSecret, deletePod,
         enableBoostrapProcess, setNodeProviderID, kubeadmReset, ExecEnds, KubectlEnds, Holding,
         AfterTheRead
<1>7. CASE ExecHangs \/ KubectlHangs
  BY <1>1, <1>2, <1>7 DEF ExecHangs, KubectlHangs, GoesOnOrReturns, Holding
<1> QED BY <1>3, <1>4, <1>5, <1>6, <1>7
-----------------------------------------------------------------------------
(* The copies are older than the machine.                                  *)

(* The spec patch has nothing to send, fails, or is merged.                *)
LEMMA PatchSends ==
  ASSUME TypeOK, Patch
  PROVE  /\ pc = "patch" /\ pc' = "patchStatus" /\ (rerr => rerr')
         /\ UNCHANGED <<cKM, before, after, queued>>
         /\ \/ ~SpecChanged /\ km' = km
            \/ km' = km /\ rerr'
            \/ SpecChanged /\ SpecAccepted /\ km' = Settle(MergeSpec(km))
BY DEF Patch, Step, cache, TypeOK

(* The status patch has nothing to send, fails, or is merged.              *)
LEMMA PatchStatusSends ==
  ASSUME TypeOK, PatchStatus
  PROVE  /\ pc = "patchStatus" /\ pc' = "idle" /\ UNCHANGED cKM
         /\ ~queued' => ~queued /\ ~rerr
         /\ \/ ~StatusChanged /\ km' = km
            \/ km' = km /\ queued'
            \/ StatusChanged /\ km.exists /\ km' = MergeStatus(km)
BY DEF PatchStatus, Forget, cache, TypeOK

(* What the patches make of each field.                                    *)
LEMMA MergeSpecFields ==
  ASSUME TypeOK
  PROVE  /\ MergeSpec(km) \in Machines
         /\ MergeSpec(km).exists = km.exists /\ MergeSpec(km).deleting = km.deleting
         /\ MergeSpec(km).fins = Sent(after.fins, before.fins, km.fins)
         /\ MergeSpec(km).providerID = Sent(after.providerID, before.providerID, km.providerID)
BY MergeType DEF TypeOK, Machines, MergeSpec

LEMMA MergeStatusFields ==
  ASSUME TypeOK
  PROVE  /\ MergeStatus(km).exists = km.exists /\ MergeStatus(km).deleting = km.deleting
         /\ MergeStatus(km).fins = km.fins
         /\ MergeStatus(km).providerID = km.providerID
         /\ MergeStatus(km).ready = Sent(after.ready, before.ready, km.ready)
         /\ MergeStatus(km).failed = Sent(after.failed, before.failed, km.failed)
         /\ MergeStatus(km).phase = Sent(after.phase, before.phase, km.phase)
         /\ MergeStatus(km).version = Sent(after.version, before.version, km.version)
BY DEF TypeOK, Machines, MergeStatus

(* A step never takes a deletion back, and gives a machine that is being   *)
(* deleted no finalizer.                                                   *)
Ages ==
  km'.exists => km.exists /\ (km.deleting => km'.deleting /\ km'.fins \subseteq km.fins)

LEMMA NextAges == ASSUME TypeOK, GoneIsBlank, [Next]_vars PROVE Ages
<1>1. UNCHANGED km => Ages
  BY DEF Ages
<1>2. CASE Reconcile
  <2>1. UNCHANGED km
    BY <1>2 DEF Reconcile, ReconcileNotFound, AwaitOwner, AwaitCluster, AwaitKubernetesCluster,
       AwaitInfrastructure, reconcileNormal, reconcileDelete, Dispatch, Fetch, Take, server
  <2> QED BY <1>1, <2>1
<1>3. CASE Calls
  BY <1>1, <1>3, CallsSay DEF GoesOnOrReturns
<1>4. CASE Patch
  <2>1. ASSUME SpecAccepted, km' = Settle(MergeSpec(km)) PROVE Ages
    <3>1. km' = MergeSpec(km) \/ ~km'.exists
      BY <2>1, GoneFields DEF Settle
    <3> QED BY <2>1, <3>1, MergeSpecFields DEF Ages, SpecAccepted
  <2> QED BY <1>1, <1>4, <2>1, PatchSends
<1>5. CASE PatchStatus
  BY <1>1, <1>5, PatchStatusSends, MergeStatusFields DEF Ages
<1>6. CASE (\E p : DeleteMachine(p)) \/ CollectMachine
  BY <1>6, DeletionCases, GoneFields DEF Ages, MachineIs
<1>7. CASE SyncKM \/ Crash \/ Elsewhere \/ UNCHANGED vars
  <2>1. UNCHANGED km
    BY <1>7, ElsewhereFrame DEF SyncKM, Crash, server
  <2> QED BY <1>1, <2>1
<1> QED BY <1>2, <1>3, <1>4, <1>5, <1>6, <1>7, NextCases

(* What was older stays older.                                             *)
LEMMA NextOlder ==
  ASSUME TypeOK, GoneIsBlank, CopiesAreOlder, [Next]_vars
  PROVE  CopiesAreOlder'
<1> USE DEF CopiesAreOlder, Acting
<1>1. Ages
  BY NextAges
<1>2. ASSUME UNCHANGED cKM PROVE Older(cKM)'
  BY <1>1, <1>2 DEF Ages, Older
<1>3. ASSUME UNCHANGED <<before, after>>, pc # "idle"
      PROVE  /\ before'.exists /\ Older(before)'
             /\ after'.exists = before'.exists /\ after'.deleting = before'.deleting
  BY <1>1, <1>3 DEF Ages, Older
<1>4. CASE Reconcile
  <2>1. CASE ReconcileNotFound
    BY <1>1, <1>2, <1>3, <2>1 DEF ReconcileNotFound, Take, local, cache
  <2>2. CASE ~ReconcileNotFound
    <3>1. Begins
      BY <1>4, <2>2, ReconcileBegins
    <3>2. Older(before)'
      BY <3>1 DEF Begins, Older
    <3> QED BY <1>2, <3>1, <3>2 DEF Begins
  <2> QED BY <2>1, <2>2
<1>5. CASE Calls
  <2>1. GoesOnOrReturns
    BY <1>5, CallsSay
  <2>2. pc # "idle" /\ UNCHANGED <<cKM, before>>
    BY <2>1 DEF GoesOnOrReturns, Holding, AfterTheRead
  <2>3. Older(before)'
    BY <1>1, <2>2 DEF Ages, Older
  <2> QED BY <1>2, <2>1, <2>2, <2>3 DEF GoesOnOrReturns
<1>6. CASE Patch
  BY <1>2, <1>3, <1>6, PatchSends
<1>7. CASE PatchStatus
  BY <1>2, <1>7, PatchStatusSends
<1>8. CASE SyncKM
  <2>1. cKM' = km /\ UNCHANGED <<km, before, after, pc>>
    BY <1>8 DEF SyncKM, server, local
  <2>2. Older(cKM)'
    BY <2>1 DEF Older
  <2> QED BY <1>3, <2>1, <2>2
<1>9. CASE Crash
  <2>1. cKM' = km /\ UNCHANGED km /\ pc' = "idle"
    BY <1>9 DEF Crash, server, Forget
  <2> QED BY <2>1 DEF Older
<1>10. CASE (\E p : DeleteMachine(p)) \/ CollectMachine
  BY <1>2, <1>3, <1>10, DeletionCases
<1>11. CASE Elsewhere \/ UNCHANGED vars
  BY <1>2, <1>3, <1>11, ElsewhereFrame
<1> QED BY <1>4, <1>5, <1>6, <1>7, <1>8, <1>9, <1>10, <1>11, NextCases
-----------------------------------------------------------------------------
(* The phase is written.                                                   *)

(* A patch that is merged shows: the machine is not what was read.         *)
LEMMA MergeShows ==
  ASSUME TypeOK, before.exists, SpecChanged, km' = Settle(MergeSpec(km))
  PROVE  km' # before
<1>1. km' = MergeSpec(km) \/ km' = GoneMachine
  BY DEF Settle
<1>2. CASE km' = GoneMachine
  BY <1>2, GoneFields
<1>3. CASE km' = MergeSpec(km)
  BY <1>3, MergeSpecFields DEF SpecChanged, Sent
<1> QED BY <1>1, <1>2, <1>3

(* A deletion shows in the same way.                                       *)
LEMMA DeletionShows ==
  ASSUME TypeOK, GoneIsBlank, NEW c, c.exists, Older(c),
         (\E p : DeleteMachine(p)) \/ CollectMachine
  PROVE  km' # c
<1>1. CASE ~km'.exists
  BY <1>1
<1>2. CASE km'.exists /\ ~c.deleting
  <2>1. km'.deleting
    BY <1>2, DeletionCases, GoneFields DEF MachineIs
  <2> QED BY <1>2, <2>1
<1>3. CASE km'.exists /\ c.deleting
  <2>1. km.exists
    BY DeletionCases
  <2>2. km.deleting /\ km.fins \subseteq c.fins
    BY <1>3, <2>1 DEF Older
  <2>3. CollectMachine
    BY <2>2 DEF DeleteMachine
  <2>4. "foreground" \in km.fins
    BY <2>3 DEF CollectMachine
  <2>5. "foreground" \notin km'.fins
    <3> DEFINE k == [km EXCEPT !.fins = @ \ {"foreground"}]
    <3>1. k.fins = km.fins \ {"foreground"}
      BY DEF TypeOK, Machines
    <3>2. km' = Settle(k)
      BY <2>3 DEF CollectMachine
    <3> HIDE DEF k
    <3>3. km' = k
      BY <1>3, <3>2, GoneFields DEF Settle
    <3> QED BY <3>1, <3>3
  <2> QED BY <2>2, <2>4, <2>5
<1> QED BY <1>1, <1>2, <1>3

(* When the reconciliation ends, nothing is queued and the cache shows the *)
(* machine as it is, then the reconciliation had nothing to change.        *)
LEMMA NothingToChange ==
  ASSUME TypeOK, PhaseInv, PatchStatus, ~queued', cKM = km'
  PROVE  km' = after /\ before = after /\ ~queued /\ ~rerr
<1>1. /\ pc = "patchStatus" /\ ~queued /\ ~rerr
      /\ \/ ~StatusChanged /\ km' = km
         \/ StatusChanged /\ km' = MergeStatus(km)
  BY PatchStatusSends
<1>2. before = km' /\ after.exists = before.exists /\ after.deleting = before.deleting
  BY <1>1 DEF PhaseInv, UnqueuedIsCurrent, CopiesAreOlder, Acting
<1>3. before \in Machines /\ after \in Machines
  BY DEF TypeOK
<1>4. ~StatusChanged
  <2> SUFFICES ASSUME StatusChanged PROVE FALSE
    OBVIOUS
  <2>1. before = MergeStatus(km)
    BY <1>1, <1>2
  <2>2. /\ after.ready = before.ready /\ after.failed = before.failed
        /\ after.phase = before.phase /\ after.version = before.version
    BY <2>1, MergeStatusFields DEF Sent
  <2> QED BY <1>2, <1>3, <2>2 DEF StatusChanged, Machines
<1>5. ~SpecChanged
  BY <1>1, <1>2, <1>4 DEF PhaseInv, SpecIsSent
<1>6. after = before
  BY <1>3, <1>4, <1>5 DEF StatusChanged, SpecChanged, Machines
<1> QED BY <1>1, <1>2, <1>6

LEMMA InitPhase == Init => PhaseInv
<1> SUFFICES ASSUME Init PROVE PhaseInv
  OBVIOUS
<1>1. km = NewMachine /\ cKM = km /\ pc = "idle" /\ queued
  BY DEF Init
<1>2. km.exists
  BY <1>1 DEF NewMachine
<1> QED
  BY <1>1, <1>2
  DEF PhaseInv, GoneIsBlank, CopiesAreOlder, Older, Acting, UnqueuedIsCurrent, SpecIsSent,
      PhaseIsDecided, PhaseIsWritten

(* PhaseInv is inductive: a reconciliation leaves a machine whose phase is *)
(* written, a copy in the cache that is behind, or a request in the queue. *)
LEMMA NextPhase ==
  ASSUME TypeOK, Links, PhaseInv, [Next]_vars
  PROVE  PhaseInv'
<1>0. /\ GoneIsBlank /\ CopiesAreOlder /\ UnqueuedIsCurrent /\ SpecIsSent
      /\ PhaseIsDecided /\ PhaseIsWritten
  BY DEF PhaseInv
<1>1. GoneIsBlank' /\ CopiesAreOlder'
  BY <1>0, NextGone, NextOlder, NextIsOpen
<1> SUFFICES UnqueuedIsCurrent' /\ SpecIsSent' /\ PhaseIsDecided' /\ PhaseIsWritten'
  BY <1>1 DEF PhaseInv
<1> USE DEF UnqueuedIsCurrent, SpecIsSent, PhaseIsDecided, PhaseIsWritten, Acting
<1>2. CASE Reconcile
  <2>1. CASE ReconcileNotFound
    <3>1. pc' = "idle" /\ UNCHANGED <<km, cKM>> /\ ~cKM.exists
      BY <2>1 DEF ReconcileNotFound, Take, local, server, cache
    <3> QED BY <1>0, <3>1 DEF CopiesAreOlder, Older
  <2>2. CASE ~ReconcileNotFound
    BY <1>2, <2>2, ReconcileBegins DEF Begins
  <2> QED BY <2>1, <2>2
<1>3. CASE Calls
  <2>1. GoesOnOrReturns /\ queued \in BOOLEAN
    BY <1>3, CallsSay DEF TypeOK
  <2> QED BY <1>0, <2>1 DEF GoesOnOrReturns, Holding, AfterTheRead
<1>4. CASE Patch
  <2>1. before.exists
    BY <1>0, <1>4, PatchSends DEF CopiesAreOlder
  <2>2. SpecChanged /\ km' = Settle(MergeSpec(km)) => km' # before
    BY <2>1, MergeShows
  <2>3. SpecChanged' = SpecChanged
    BY <1>4, PatchSends DEF SpecChanged
  <2>4. PhaseIsDecided'
    BY <1>0, <1>4, PatchSends DEF PhaseIsSaid
  <2> QED BY <1>0, <1>4, <2>2, <2>3, <2>4, PatchSends
<1>5. CASE PatchStatus
  <2>1. pc = "patchStatus" /\ pc' = "idle" /\ UNCHANGED cKM
    BY <1>5, PatchStatusSends
  <2>2. ASSUME ~queued', cKM' = km' PROVE PhaseIsSaid(km)'
    <3>1. km' = after
      BY <1>5, <2>1, <2>2, NothingToChange
    <3> QED BY <1>0, <2>1, <3>1 DEF PhaseIsSaid
  <2> QED BY <2>1, <2>2
<1>6. CASE SyncKM
  BY <1>0, <1>6 DEF SyncKM, server, local, Enqueue, SpecChanged, PhaseIsSaid
<1>7. CASE Crash
  BY <1>7 DEF Crash, Forget, Enqueue
<1>8. CASE (\E p : DeleteMachine(p)) \/ CollectMachine
  <2>1. UNCHANGED <<cKM, before, after, pc, rerr, queued>> /\ km.exists
    BY <1>0, <1>8, DeletionCases DEF DeleteMachine, CollectMachine, cache, local
  <2>2. cKM # km'
    BY <1>0, <1>8, <2>1, DeletionShows DEF CopiesAreOlder, Older
  <2>3. pc # "idle" => before # km'
    BY <1>0, <1>8, <2>1, DeletionShows DEF CopiesAreOlder
  <2> QED BY <1>0, <2>1, <2>2, <2>3 DEF PhaseIsSaid
<1>9. CASE Elsewhere \/ UNCHANGED vars
  <2>1. /\ UNCHANGED <<km, cKM, before, after, pc, rerr>>
        /\ queued => queued'
    BY <1>9, ElsewhereFrame DEF Elsewhere, SyncPod, Resync, Provide, DeleteCluster, Pause,
       Unpause, CollectPod, CollectSecret, CollectClaims, ForeignComes, ForeignGoes, NodeJoins,
       Kubelet, KubeletStarts, KubeletRemoves, PodLost, KindTerminates, PodUnready, PodChanges,
       PodGoes, vars, local, Enqueue, TypeOK
  <2> QED BY <1>0, <2>1 DEF SpecChanged, PhaseIsSaid
<1> QED BY <1>2, <1>3, <1>4, <1>5, <1>6, <1>7, <1>8, <1>9, NextCases

(* At every moment, whatever fails, crashes or is paused: the phase that a *)
(* reconciliation decided has been written, or a request is queued, or one *)
(* will be because the cache is behind.                                    *)
THEOREM PhaseInvariant == Spec => [](ReadyInv /\ PhaseInv)
<1>1. Init => ReadyInv /\ PhaseInv
  BY InitTypeOK, InitLinks, InitPhase DEF ReadyInv, Links
<1>2. ReadyInv /\ PhaseInv /\ [Next]_vars => (ReadyInv /\ PhaseInv)'
  <2> SUFFICES ASSUME ReadyInv, PhaseInv, [Next]_vars PROVE (ReadyInv /\ PhaseInv)'
    OBVIOUS
  <2>1. TypeOK /\ Links
    BY DEF ReadyInv, Links
  <2>2. TypeOK' /\ Links' /\ PhaseInv'
    BY <2>1, NextTypeOK, NextLinks, NextPhase, NextIsOpen
  <2> QED BY <2>2 DEF ReadyInv, Links
<1> QED BY <1>1, <1>2, PTL DEF Spec

(* Nothing is left to do only when Status.Phase says what the rest of the  *)
(* machine says: the two deferred patches, which may fail one without the  *)
(* other, never leave the phase behind for good.                           *)
THEOREM PhaseIsSettled == Spec => []PhaseSettles
<1>1. PhaseInv => PhaseSettles
  BY DEF PhaseInv, PhaseIsWritten, PhaseIsSaid, PhaseSettles, Quiescent
<1> QED BY <1>1, PhaseInvariant, PTL
-----------------------------------------------------------------------------
(* What the reconciler attends to.                                         *)

(* What a reconciliation has decided, from all it needs, when it returns.  *)
DecidedAtOnce ==
  IF cKM.deleting
    THEN "machine" \notin after'.fins
    ELSE \/ after'.failed
         \/ after'.providerID # cKM.providerID
         \/ after'.providerID /\ cPod.owner = "self" /\ cPod.deleting /\ input.allowRecreation

Attends ==
  \/ pc' = "createPod" /\ ~Exists(cPod) /\ ~cKM.deleting
  \/ /\ pc' = "createPVCs" /\ seen' = cPod /\ cPod.owner = "self"
     /\ ~cPod.deleting /\ ~cKM.deleting /\ after'.providerID
  \/ pc' = "reset" /\ cKM.deleting
  \/ pc' = "patch" /\ (given = Prereqs /\ ~paused => DecidedAtOnce)

LEMMA NormalAttends == ASSUME TypeOK, reconcileNormal PROVE Attends
<1> DEFINE k0 == reconcileVersion(cKM)
           k == AddFinalizers(k0)
<1>1. /\ ~cKM.deleting
      /\ \/ NormalFailed(k0)
         \/ NormalAwaitBootstrap(k) \/ NormalPodNotFound(k) \/ NormalPodFound(k)
  BY DEF reconcileNormal
<1>2. k0 \in Machines /\ k0.providerID = cKM.providerID
  BY SettersType, SettersFields DEF TypeOK
<1>3. k \in Machines /\ k.providerID = cKM.providerID
  <2> HIDE DEF k0
  <2>1. k \in Machines /\ k.providerID = k0.providerID
    BY <1>2, SettersType, SettersFields
  <2> QED BY <1>2, <2>1
<1> HIDE DEF k, k0
<1>4. cKM.providerID \in BOOLEAN
  BY MachineFields DEF TypeOK
<1>5. ASSUME NEW e, Return(SetFailure(k), e) PROVE Attends
  <2> DEFINE j == SetFailure(k)
  <2>1. j \in Machines /\ j.failed = TRUE
    BY <1>3, SettersType, SettersFields
  <2> HIDE DEF j
  <2>2. pc' = "patch" /\ after'.failed
    BY <1>5, <2>1, CopyOf DEF AfterIs, Return, j
  <2> QED BY <1>1, <2>2 DEF Attends, DecidedAtOnce
<1>6. CASE NormalFailed(k0)
  <2>1. pc' = "patch" /\ after'.failed
    BY <1>2, <1>6, CopyOf DEF AfterIs, Return, NormalFailed
  <2> QED BY <1>1, <2>1 DEF Attends, DecidedAtOnce
<1>7. CASE NormalAwaitBootstrap(k)
  BY <1>7 DEF NormalAwaitBootstrap, Attends, Return, Prereqs
<1>8. CASE NormalPodNotFound(k)
  BY <1>1, <1>5, <1>8 DEF NormalPodNotFound, Attends, Call
<1>9. CASE NormalPodFound(k)
  <2>1. CASE ~k.providerID /\ Return([k EXCEPT !.providerID = TRUE], FALSE)
    <3> DEFINE j == [k EXCEPT !.providerID = TRUE]
    <3>1. j \in Machines /\ j.providerID = TRUE
      BY <1>3, SettersType, SettersFields
    <3> HIDE DEF j
    <3>2. pc' = "patch" /\ after'.providerID = TRUE
      BY <2>1, <3>1, CopyOf DEF AfterIs, Return, j
    <3> QED BY <1>1, <1>3, <1>4, <2>1, <3>2 DEF Attends, DecidedAtOnce
  <2>2. CASE /\ k.providerID /\ cPod.owner = "self" /\ cPod.deleting
             /\ input.allowRecreation /\ Return(SetReady(k, FALSE), FALSE)
    <3> DEFINE j == SetReady(k, FALSE)
    <3>1. j \in Machines /\ j.providerID = k.providerID
      BY <1>3, SettersType, SettersFields
    <3> HIDE DEF j
    <3>2. pc' = "patch" /\ after'.providerID = k.providerID
      BY <2>2, <3>1, CopyOf DEF AfterIs, Return, j
    <3> QED BY <1>1, <2>2, <3>2 DEF Attends, DecidedAtOnce
  <2>3. CASE k.providerID /\ cPod.owner = "self" /\ ~cPod.deleting /\ Call("createPVCs", k)
    BY <1>1, <2>3 DEF Attends, Call
  <2> QED BY <1>5, <1>9, <2>1, <2>2, <2>3 DEF NormalPodFound
<1> QED BY <1>1, <1>6, <1>7, <1>8, <1>9

LEMMA DeleteAttends == ASSUME TypeOK, reconcileDelete PROVE Attends
<1>1. Resets \/ Releases
  BY DeleteCases
<1> QED BY <1>1 DEF Resets, Releases, Attends, DecidedAtOnce, AfterIs

LEMMA ReconcileAttends == ASSUME TypeOK, Reconcile, ~ReconcileNotFound PROVE Attends
<1>1. CASE AwaitOwner \/ AwaitCluster \/ AwaitKubernetesCluster \/ AwaitInfrastructure
  BY <1>1 DEF AwaitOwner, AwaitCluster, AwaitKubernetesCluster, AwaitInfrastructure,
              Attends, Return, Prereqs
<1> QED BY <1>1, NormalAttends, DeleteAttends DEF Reconcile
-----------------------------------------------------------------------------
(* WakeupInv is inductive.                                                 *)

LEMMA InitWakeup == Init => WakeupInv
<1> SUFFICES ASSUME Init PROVE WakeupInv
  OBVIOUS
<1>1. pc = "idle" /\ queued /\ known = {}
  BY DEF Init
<1>2. secret = "other" => "secret" \in Foreign
  BY DEF Init
<1> QED
  BY <1>1, <1>2
  DEF WakeupInv, ArrivalsQueue, StepsAttend, AfterTheRead, MachineIsDecided, MachineIsAttended,
      Undisturbed

(* Everything is read when a reconciliation starts, and what comes later   *)
(* queues the machine or is not watched.                                   *)
LEMMA NextArrivals == ASSUME TypeOK, ArrivalsQueue, [Next]_vars PROVE ArrivalsQueue'
<1> USE DEF ArrivalsQueue, Overlooked
<1>1. ASSUME UNCHANGED <<given, known>>, queued => queued' PROVE ArrivalsQueue'
  BY <1>1 DEF TypeOK, Unwatched
<1>2. CASE Reconcile
  <2>1. known' = given /\ UNCHANGED given
    BY <1>2 DEF Reconcile, ReconcileNotFound, AwaitOwner, AwaitCluster, AwaitKubernetesCluster,
       AwaitInfrastructure, reconcileNormal, reconcileDelete, Dispatch, Fetch, Take, others
  <2> QED BY <2>1
<1>3. CASE Calls
  <2>1. queued => queued'
    BY <1>3, CallsSay DEF GoesOnOrReturns
  <2>2. /\ UNCHANGED given
        /\ UNCHANGED known \/ known' = known \cup ({"dataSecret"} \cap given)
    BY <1>3 DEF Calls, createMachinePod, createPersistentVolumeClaims, createSecret, deletePod,
       enableBoostrapProcess, setNodeProviderID, kubeadmReset, ExecHangs, ExecEnds,
       KubectlHangs, KubectlEnds, Step, others
  <2>3. queued \in BOOLEAN /\ UNCHANGED Unwatched
    BY DEF TypeOK, Unwatched
  <2> QED BY <2>1, <2>2, <2>3
<1>4. CASE \E x \in Prereqs : Provide(x)
  <2>1. PICK x \in Prereqs : Provide(x)
    BY <1>4
  <2>2. x \in Unwatched \/ queued'
    BY <2>1 DEF Provide, Wakes, KubernetesClusterToKubernetesMachines, Prereqs, Unwatched
  <2>3. given' = given \cup {x} /\ UNCHANGED known /\ (~queued' => ~queued)
    BY <2>1 DEF Provide, local
  <2>4. UNCHANGED Unwatched
    BY DEF Unwatched
  <2> QED BY <2>2, <2>3, <2>4
<1>5. CASE Patch \/ PatchStatus \/ SyncKM \/ Crash
  BY <1>1, <1>5
  DEF Patch, Step, PatchStatus, Forget, SyncKM, Crash, Enqueue, others, local, TypeOK
<1>6. CASE (\E p : DeleteMachine(p)) \/ CollectMachine \/ UNCHANGED vars
  BY <1>1, <1>6 DEF DeleteMachine, CollectMachine, others, local, vars
<1>7. CASE Elsewhere /\ ~\E x \in Prereqs : Provide(x)
  BY <1>1, <1>7 DEF Elsewhere, SyncPod, Resync, DeleteCluster, Pause, Unpause, CollectPod,
     CollectSecret, CollectClaims, ForeignComes, ForeignGoes, NodeJoins, Kubelet, KubeletStarts,
     KubeletRemoves, PodLost, KindTerminates, PodUnready, PodChanges, PodGoes, Enqueue,
     others, local, TypeOK
<1> QED BY <1>2, <1>3, <1>4, <1>5, <1>6, <1>7, NextCases

(* What the steps of others that queue nothing leave as it was.            *)
Undisturbing ==
  /\ ~queued' => ~queued
  /\ Undisturbed' => Undisturbed
  /\ UNCHANGED <<before, after, pc, rerr, input>>
  /\ UNCHANGED seen
  /\ secret' = "other" => secret = "other"
  /\ ~queued' =>
       /\ UNCHANGED pvcs
       /\ SecretStands => SecretStands'
       /\ PodUnseen => PodUnseen'
       /\ cPod' = cPod \/ (cPod.owner # "self" /\ cPod'.owner # "self")
       /\ cPod.owner = "self" /\ ~cPod.deleting => boot' = boot \/ PodUnseen'

LEMMA ElsewhereUndisturbing ==
  ASSUME TypeOK, PodsInv, WakeupInv, Elsewhere
  PROVE  Undisturbing
<1> USE DEF server, cache, others, local, Undisturbed, Overlooked, SecretStands
<1>0. /\ UNCHANGED <<before, after, pc, input>>
      /\ known \subseteq given /\ queued \in BOOLEAN
      /\ secret = "other" => "secret" \in Foreign
  BY ElsewhereFrame DEF WakeupInv, ArrivalsQueue, StepsAttend, TypeOK
<1>1. CASE SyncPod
  <2>1. /\ UNCHANGED <<pod, secret, pvcs, boot, given, known, paused, rerr, seen>>
        /\ cPod' = IF Exists(cPod) /\ cPod.uid # pod.uid THEN NoPod ELSE pod
        /\ ~queued' => ~queued /\ cPod.owner # "self" /\ pod.owner # "self"
    BY <1>1 DEF SyncPod, PodToKubernetesMachine
  <2>2. ~queued' => cPod'.owner # "self" /\ ~PodUnseen
    BY <2>1, PodFields DEF PodUnseen
  <2> QED BY <1>0, <2>1, <2>2 DEF Undisturbing
<1>2. CASE Resync \/ Unpause \/ CollectSecret \/ CollectClaims
  <2>1. CASE Resync \/ Unpause
    BY <1>0, <2>1 DEF Resync, Unpause, Enqueue, Undisturbing
  <2>2. CASE CollectSecret
    BY <1>0, <2>2 DEF CollectSecret, SecretToKubernetesMachine, Undisturbing
  <2>3. CASE CollectClaims
    <3>1. queued'
      BY <2>3 DEF CollectClaims, PersistentVolumeClaimToKubernetesMachine, TypeOK
    <3> QED BY <1>0, <2>3, <3>1 DEF CollectClaims, Undisturbing
  <2> QED BY <1>2, <2>1, <2>2, <2>3
<1>3. CASE \E x \in Prereqs : Provide(x)
  <2>1. PICK x \in Prereqs : Provide(x)
    BY <1>3
  <2>2. UNCHANGED <<pod, cPod, secret, pvcs, boot, paused, rerr, seen>> /\ (~queued' => ~queued)
    BY <2>1 DEF Provide
  <2>3. ~Undisturbed'
    BY <1>0, <2>1 DEF Provide
  <2> QED BY <1>0, <2>2, <2>3 DEF Undisturbing, PodUnseen
<1>4. CASE DeleteCluster \/ Pause \/ NodeJoins
  BY <1>0, <1>4 DEF DeleteCluster, Pause, NodeJoins, Undisturbing, PodUnseen
<1>5. CASE FatePod
  <2>1. UNCHANGED <<cPod, pvcs, given, known, paused, rerr, seen>> /\ (~queued' => ~queued)
    BY <1>5 DEF FatePod, CollectPod, KubeletStarts, KubeletRemoves, PodLost, KindTerminates,
       PodUnready, ForeignComes, ForeignGoes, PodChanges, PodGoes, TypeOK
  <2>2. secret' = secret \/ (secret = "other" /\ secret' = "none")
    BY <1>5 DEF FatePod, CollectPod, KubeletStarts, KubeletRemoves, PodLost, KindTerminates,
       PodUnready, ForeignComes, ForeignGoes, PodChanges
  <2>3. ASSUME ~queued'
        PROVE  \/ /\ UNCHANGED boot /\ pod'.owner = pod.owner /\ pod'.uid = pod.uid
                  /\ pod.deleting => pod'.deleting
               \/ /\ pod.owner # "self" /\ pod'.owner # "self" /\ pod'.uid \in {0, 1}
    <3>1. CASE CollectPod
      BY <3>1 DEF CollectPod, TypeOK, Pods
    <3>2. CASE KubeletStarts
      BY <3>2 DEF KubeletStarts, TypeOK, Pods
    <3>3. CASE KubeletRemoves
      BY <2>3, <3>3, PodFields DEF KubeletRemoves, PodGoes, PodToKubernetesMachine
    <3>4. CASE PodLost
      BY <2>3, <3>4 DEF PodLost, PodGoes, PodToKubernetesMachine, TypeOK, Pods
    <3>5. CASE KindTerminates
      BY <3>5 DEF KindTerminates, TypeOK, Pods
    <3>6. CASE PodUnready
      BY <3>6 DEF PodUnready, TypeOK, Pods
    <3>7. CASE ForeignComes
      BY <3>7, PodFields DEF ForeignComes, PodsInv, Accounted, Theirs, Exists
    <3>8. CASE ForeignGoes
      BY <3>8, PodFields DEF ForeignGoes, PodGoes
    <3> QED BY <1>5, <3>1, <3>2, <3>3, <3>4, <3>5, <3>6, <3>7, <3>8 DEF FatePod
  <2>4. cPod.owner = "self" => cPod.uid \notin {0, 1}
    BY PodFields DEF PodsInv, Accounted, Theirs, TypeOK
  <2>5. ASSUME ~queued', PodUnseen PROVE PodUnseen'
    BY <2>1, <2>3, <2>4, <2>5 DEF PodUnseen
  <2>6. ASSUME ~queued', cPod.owner = "self", ~cPod.deleting PROVE boot' = boot \/ PodUnseen'
    BY <2>1, <2>3, <2>4, <2>6 DEF PodUnseen
  <2> QED BY <1>0, <2>1, <2>2, <2>5, <2>6 DEF Undisturbing
<1> QED BY <1>1, <1>2, <1>3, <1>4, <1>5 DEF Elsewhere, FatePod, Kubelet
(* The parts of WakeupInv that depend on the step of the reconciliation.   *)
Attentive == StepsAttend /\ MachineIsDecided /\ MachineIsAttended

LEMMA UndisturbingAttentive ==
  ASSUME PodsInv, Attentive, Undisturbing, UNCHANGED <<km, cKM>>
  PROVE  Attentive'
<1>1. StepsAttend'
  <2>1. pc \in AfterTheRead => seen.owner = "self" /\ ~seen.deleting
    BY DEF PodsInv, Holding, Attentive, StepsAttend
  <2> QED
    BY <2>1 DEF Attentive, StepsAttend, Undisturbing, AfterTheRead
<1>2. ASSUME ~queued', Attended(after, cPod) PROVE PodUnseen' \/ Attended(after, cPod)'
  BY <1>2 DEF Undisturbing, Attended
<1>3. MachineIsDecided'
  BY <1>2 DEF Attentive, MachineIsDecided, Undisturbing, Undisturbed
<1>4. ASSUME ~queued', Attended(km, cPod) PROVE PodUnseen' \/ Attended(km, cPod)'
  BY <1>4 DEF Undisturbing, Attended
<1>5. MachineIsAttended'
  BY <1>4 DEF Attentive, MachineIsAttended, Undisturbing, Undisturbed
<1> QED BY <1>1, <1>3, <1>5 DEF Attentive

(* The copy that is returned with, after a call.                           *)
LEMMA ReturnedCopy ==
  ASSUME TypeOK, NEW e, Return(after, e)
  PROVE  /\ pc' = "patch" /\ rerr' = e
         /\ AfterIs(after.providerID, after.ready, after.failed, after.fins)
BY CopyOf DEF TypeOK, Return

LEMMA CallsAttentive ==
  ASSUME TypeOK, PodsInv, Attentive, Calls
  PROVE  Attentive'
<1> USE DEF Step, cache, others
<1>1. UNCHANGED <<km, cKM, cPod, given, paused, input, before>>
  BY DEF Calls, createMachinePod, createPersistentVolumeClaims, createSecret, deletePod, server,
         enableBoostrapProcess, setNodeProviderID, kubeadmReset, ExecHangs, ExecEnds,
         KubectlHangs, KubectlEnds
<1>3. pc' # "idle" /\ (secret' = "other" => "secret" \in Foreign)
  <2>1. secret' \in {secret, "self"}
    BY DEF Calls, createMachinePod, createPersistentVolumeClaims, createSecret, deletePod, server,
           enableBoostrapProcess, setNodeProviderID, kubeadmReset, ExecHangs, ExecEnds,
           KubectlHangs, KubectlEnds
  <2>2. pc' # "idle"
    BY CallsSay DEF GoesOnOrReturns, Holding, AfterTheRead
  <2> QED BY <2>1, <2>2 DEF Attentive, StepsAttend
<1>4. ASSUME pc' = "patch", MachineIsDecided' PROVE Attentive'
  BY <1>3, <1>4 DEF Attentive, StepsAttend, MachineIsAttended, AfterTheRead
<1>5. ASSUME NEW k, Return(k, TRUE) PROVE Attentive'
  <2>1. pc' = "patch" /\ rerr'
    BY <1>5 DEF Return
  <2>2. MachineIsDecided'
    BY <2>1 DEF MachineIsDecided
  <2> QED BY <1>4, <2>1, <2>2
<1>6. ASSUME NEW s \in AfterTheRead \ {"createPVCs"}, Proceed(s), StepsAttend'
      PROVE  Attentive'
  BY <1>3, <1>6 DEF Attentive, MachineIsDecided, MachineIsAttended, Proceed, AfterTheRead
<1>7. CASE createMachinePod
  <2>1. pc = "createPod" /\ UNCHANGED queued
    BY <1>7 DEF createMachinePod
  <2>2. CASE Return(after, FALSE) /\ pod' = NewPod(created)
    <3>1. pod'.owner = "self"
      BY <2>2, PodFields DEF TypeOK
    <3>2. pc' = "patch"
      BY <2>2 DEF Return
    <3>3. MachineIsDecided'
      BY <1>1, <2>1, <3>1
      DEF Attentive, StepsAttend, MachineIsDecided, Undisturbed, PodUnseen
    <3> QED BY <1>4, <3>2, <3>3
  <2> QED BY <1>5, <1>7, <2>2 DEF createMachinePod, Outcomes
<1>8. CASE createPersistentVolumeClaims
  <2>1. CASE Return(after, FALSE) /\ "dataSecret" \notin given
    <3>1. ~Undisturbed'
      BY <1>1, <2>1 DEF Undisturbed, Prereqs
    <3>2. MachineIsDecided' /\ pc' = "patch"
      BY <2>1, <3>1 DEF MachineIsDecided, Return
    <3> QED BY <1>4, <3>2
  <2>2. CASE Proceed("createSecret") /\ pvcs' = Claims
    <3>1. pc = "createPVCs" /\ (~queued' => ~queued)
      BY <1>8 DEF createPersistentVolumeClaims, TypeOK
    <3>2. StepsAttend'
      BY <1>1, <1>3, <2>2, <3>1 DEF Attentive, StepsAttend, Proceed, AfterTheRead
    <3> QED BY <1>6, <2>2, <3>2 DEF AfterTheRead
  <2>3. \/ Return(after, TRUE)
        \/ Return(after, FALSE) /\ "dataSecret" \notin given
        \/ Proceed("createSecret") /\ pvcs' = Claims
    BY <1>8 DEF createPersistentVolumeClaims, TypeOK
  <2> QED BY <1>5, <2>1, <2>2, <2>3
<1>9. CASE createSecret
  <2>1. /\ pc = "createSecret" /\ UNCHANGED <<pod, pvcs, boot>> /\ (~queued' => ~queued)
    BY <1>9 DEF createSecret, Enqueue
  <2>2. /\ pc \in AfterTheRead /\ ~seen.deleting /\ after.providerID /\ seen.owner = "self"
        /\ ~before.deleting
        /\ ~queued => pvcs = Claims /\ seen = cPod
    BY <2>1 DEF Attentive, StepsAttend, PodsInv, Holding, AfterTheRead
  <2>3. \/ Return(after, TRUE)
        \/ /\ secret' # "none"
           /\ \/ Return(after, FALSE) /\ seen.state \in {"none", "waiting"}
              \/ Return(SetFailure(after), FALSE)
              \/ seen.state = "terminated" /\ Proceed("deletePod")
              \/ seen.state \in Alive /\ Proceed("enable")
    BY <1>9 DEF createSecret, TypeOK, Owners
  <2>4. CASE secret' # "none" /\ Return(after, FALSE) /\ seen.state \in {"none", "waiting"}
    <3>1. pc' = "patch" /\ after'.providerID = after.providerID
      BY <2>4, ReturnedCopy DEF AfterIs
    <3>2. ~queued' => Attended(after, cPod)'
      BY <1>1, <2>1, <2>2, <2>4, <3>1 DEF Attended, SecretStands, Alive
    <3>3. MachineIsDecided'
      BY <1>1, <2>2, <3>2 DEF MachineIsDecided, Undisturbed
    <3> QED BY <1>4, <3>1, <3>3
  <2>5. CASE Return(SetFailure(after), FALSE)
    <3> DEFINE j == SetFailure(after)
    <3>1. j \in Machines /\ j.failed = TRUE
      BY SettersType, SettersFields DEF TypeOK
    <3>2. pc' = "patch" /\ \E e : Return(j, e)
      BY <2>5 DEF Return
    <3> HIDE DEF j
    <3>3. after'.failed
      BY <3>1, <3>2, CopyOf DEF AfterIs
    <3>4. MachineIsDecided'
      BY <1>1, <2>2, <3>3 DEF MachineIsDecided
    <3> QED BY <1>4, <3>2, <3>4
  <2>6. CASE secret' # "none" /\ seen.state = "terminated" /\ Proceed("deletePod")
    <3>1. StepsAttend'
      BY <1>1, <1>3, <2>1, <2>2, <2>6 DEF StepsAttend, Proceed, AfterTheRead
    <3> QED BY <1>6, <2>6, <3>1 DEF AfterTheRead
  <2>7. CASE secret' # "none" /\ seen.state \in Alive /\ Proceed("enable")
    <3>1. StepsAttend'
      BY <1>1, <1>3, <2>1, <2>2, <2>7 DEF StepsAttend, Proceed, AfterTheRead, SecretStands
    <3> QED BY <1>6, <2>7, <3>1 DEF AfterTheRead
  <2> QED BY <1>5, <2>3, <2>4, <2>5, <2>6, <2>7
<1>10. CASE deletePod
  <2>1. /\ pc = "deletePod" /\ UNCHANGED queued
        /\ \/ Return(after, TRUE)
           \/ Return(after, FALSE) /\ pod' = [pod EXCEPT !.deleting = TRUE]
    BY <1>10 DEF deletePod
  <2>2. CASE Return(after, FALSE) /\ pod' = [pod EXCEPT !.deleting = TRUE]
    <3>1. pod'.deleting /\ pc' = "patch"
      BY <2>2 DEF TypeOK, Pods, Return
    <3>2. ~queued => cPod.owner = "self" /\ ~cPod.deleting
      BY <2>1 DEF Attentive, StepsAttend, PodsInv, Holding, AfterTheRead
    <3>3. ~before.deleting
      BY <2>1 DEF Attentive, StepsAttend, AfterTheRead
    <3>4. MachineIsDecided'
      BY <1>1, <2>1, <3>1, <3>2, <3>3 DEF MachineIsDecided, Undisturbed, PodUnseen
    <3> QED BY <1>4, <3>1, <3>4
  <2> QED BY <1>5, <2>1, <2>2
<1>11. CASE enableBoostrapProcess
  <2>1. /\ pc = "enable" /\ UNCHANGED <<queued, secret, pvcs>>
        /\ \/ Return(after, TRUE)
           \/ boot' /\ seen.state = "running" /\ Return(after, FALSE)
           \/ boot' /\ seen.state # "running" /\ Proceed("setProviderID")
    BY <1>11 DEF enableBoostrapProcess, TypeOK
  <2>2. /\ pc \in AfterTheRead /\ ~seen.deleting /\ after.providerID /\ seen.owner = "self"
        /\ ~before.deleting /\ seen.state \in Alive
        /\ ~queued => pvcs = Claims /\ seen = cPod /\ SecretStands
    BY <2>1 DEF Attentive, StepsAttend, PodsInv, Holding, AfterTheRead
  <2>3. CASE boot' /\ seen.state = "running" /\ Return(after, FALSE)
    <3>1. pc' = "patch" /\ after'.providerID = after.providerID
      BY <2>3, ReturnedCopy DEF AfterIs
    <3>2. ~queued' => Attended(after, cPod)'
      BY <1>1, <2>1, <2>2, <2>3, <3>1 DEF Attended, SecretStands, Alive
    <3>3. MachineIsDecided'
      BY <1>1, <2>2, <3>2 DEF MachineIsDecided, Undisturbed
    <3> QED BY <1>4, <3>1, <3>3
  <2>4. CASE boot' /\ seen.state # "running" /\ Proceed("setProviderID")
    <3>1. StepsAttend'
      BY <1>1, <1>3, <2>1, <2>2, <2>4
      DEF StepsAttend, Proceed, AfterTheRead, SecretStands, Alive
    <3> QED BY <1>6, <2>4, <3>1 DEF AfterTheRead
  <2> QED BY <1>5, <2>1, <2>3, <2>4
<1>12. CASE setNodeProviderID
  <2>1. /\ pc = "setProviderID" /\ UNCHANGED <<queued, secret, pvcs, boot>>
        /\ \/ Return(after, TRUE)
           \/ seen.state = "podReady" /\ Return(SetReady(after, TRUE), FALSE)
           \/ seen.state # "podReady" /\ Return(after, FALSE)
    BY <1>12 DEF setNodeProviderID
  <2>2. /\ pc \in AfterTheRead /\ ~seen.deleting /\ after.providerID /\ seen.owner = "self"
        /\ ~before.deleting /\ seen.state \in {"containerReady", "podReady"}
        /\ ~queued => pvcs = Claims /\ seen = cPod /\ SecretStands /\ (boot \/ PodUnseen)
    BY <2>1 DEF Attentive, StepsAttend, PodsInv, Holding, AfterTheRead
  <2>3. ASSUME pc' = "patch", after'.providerID = after.providerID,
               seen.state = "podReady" => after'.ready
        PROVE  Attentive'
    <3>0. UNCHANGED pod
      BY <1>12 DEF setNodeProviderID
    <3>1. ~queued' => PodUnseen' \/ Attended(after, cPod)'
      BY <1>1, <2>1, <2>2, <2>3, <3>0 DEF Attended, SecretStands, PodUnseen
    <3>2. MachineIsDecided'
      BY <1>1, <2>2, <3>1 DEF MachineIsDecided, Undisturbed
    <3> QED BY <1>4, <2>3, <3>2
  <2>4. CASE seen.state # "podReady" /\ Return(after, FALSE)
    BY <2>3, <2>4, ReturnedCopy DEF AfterIs
  <2>5. CASE seen.state = "podReady" /\ Return(SetReady(after, TRUE), FALSE)
    <3> DEFINE j == SetReady(after, TRUE)
    <3>1. j \in Machines /\ j.ready = TRUE /\ j.providerID = after.providerID
      BY SettersType, SettersFields DEF TypeOK
    <3>2. pc' = "patch" /\ \E e : Return(j, e)
      BY <2>5 DEF Return
    <3> HIDE DEF j
    <3>3. after'.ready /\ after'.providerID = after.providerID
      BY <3>1, <3>2, CopyOf DEF AfterIs
    <3> QED BY <2>3, <3>2, <3>3
  <2> QED BY <1>5, <2>1, <2>4, <2>5
<1>13. CASE kubeadmReset
  <2>1. CASE Return(RemoveFinalizer(after), FALSE)
    <3> DEFINE j == RemoveFinalizer(after)
    <3>1. j \in Machines /\ j.fins = after.fins \ {"machine"}
      BY SettersType, SettersFields DEF TypeOK
    <3>2. pc' = "patch" /\ \E e : Return(j, e)
      BY <2>1 DEF Return
    <3> HIDE DEF j
    <3>3. "machine" \notin after'.fins
      BY <3>1, <3>2, CopyOf DEF AfterIs
    <3>4. before.deleting
      BY <1>13 DEF kubeadmReset, Attentive, StepsAttend
    <3>5. MachineIsDecided'
      BY <1>1, <3>3, <3>4 DEF MachineIsDecided
    <3> QED BY <1>4, <3>2, <3>5
  <2> QED BY <1>5, <1>13, <2>1 DEF kubeadmReset
<1>14. CASE ExecHangs \/ KubectlHangs
  BY <1>1, <1>3, <1>14
  DEF ExecHangs, KubectlHangs, Attentive, StepsAttend, MachineIsDecided, MachineIsAttended,
      AfterTheRead
<1>15. CASE ExecEnds \/ KubectlEnds
  BY <1>5, <1>15 DEF ExecEnds, KubectlEnds
<1> QED BY <1>7, <1>8, <1>9, <1>10, <1>11, <1>12, <1>13, <1>14, <1>15 DEF Calls
(* Every step keeps what is known of wake-ups.                             *)
LEMMA NextWakeup ==
  ASSUME TypeOK, PodsInv, PhaseInv, WakeupInv, [Next]_vars
  PROVE  WakeupInv'
<1> USE DEF Overlooked
<1>0. Attentive /\ ArrivalsQueue /\ GoneIsBlank /\ CopiesAreOlder
  BY DEF Attentive, WakeupInv, PhaseInv
<1>1. ArrivalsQueue'
  BY <1>0, NextArrivals
<1> SUFFICES Attentive'
  BY <1>1 DEF Attentive, WakeupInv
<1>3. CASE Reconcile
  <2>1. UNCHANGED <<km, pod, secret, pvcs, boot, cKM, cPod, given, paused, input>>
    BY <1>3 DEF Reconcile, ReconcileNotFound, AwaitOwner, AwaitCluster, AwaitKubernetesCluster,
       AwaitInfrastructure, reconcileNormal, reconcileDelete, Dispatch, Fetch, Take,
       server, cache, others
  <2>2. CASE ReconcileNotFound
    <3>1. pc' = "idle" /\ ~cKM.exists
      BY <2>2 DEF ReconcileNotFound, Take, local
    <3>2. ~km'.exists
      BY <1>0, <2>1, <3>1 DEF CopiesAreOlder, Older
    <3> QED
      BY <1>0, <2>1, <3>1, <3>2
      DEF Attentive, StepsAttend, MachineIsDecided, MachineIsAttended, AfterTheRead
  <2>3. CASE ~ReconcileNotFound
    <3>1. Attends /\ before' = cKM
      BY <1>3, <2>3, ReconcileAttends, ReconcileBegins DEF Begins
    <3>2. StepsAttend'
      <4>1. ~Exists(cPod) => cPod.owner # "self"
        BY PodFields DEF PodsInv, Accounted, Theirs, Exists, TypeOK
      <4> QED BY <1>0, <2>1, <3>1, <4>1 DEF Attends, Attentive, StepsAttend, AfterTheRead
    <3>3. MachineIsDecided'
      <4> SUFFICES ASSUME pc' = "patch", given = Prereqs, ~paused
                   PROVE  IF before'.deleting
                            THEN "machine" \notin after'.fins
                            ELSE \/ after'.failed \/ PodUnseen' \/ Attended(after, cPod)'
                                 \/ after'.providerID # before'.providerID
        BY <2>1, <3>1 DEF MachineIsDecided, Undisturbed, Attends
      <4>1. DecidedAtOnce
        BY <3>1 DEF Attends
      <4> QED BY <2>1, <3>1, <4>1 DEF DecidedAtOnce, Attended
    <3>4. MachineIsAttended'
      BY <3>1 DEF Attends, MachineIsAttended
    <3> QED BY <3>2, <3>3, <3>4 DEF Attentive
  <2> QED BY <2>2, <2>3
<1>4. CASE Calls
  BY <1>0, <1>4, CallsAttentive
<1>5. CASE Patch
  <2>1. /\ UNCHANGED <<cKM, before, after, seen, pod, secret, pvcs, boot, queued>>
        /\ UNCHANGED <<cPod, given, known, paused, input>>
        /\ pc = "patch" /\ pc' = "patchStatus" /\ (rerr => rerr')
    BY <1>5 DEF Patch, Step, cache, others, TypeOK
  <2>2. StepsAttend'
    BY <1>0, <2>1 DEF Attentive, StepsAttend, AfterTheRead
  <2>3. MachineIsDecided'
    BY <1>0, <2>1 DEF Attentive, MachineIsDecided, Undisturbed, PodUnseen, Attended, SecretStands
  <2> QED BY <2>1, <2>2, <2>3 DEF Attentive, MachineIsAttended
<1>6. CASE PatchStatus
  <2>1. /\ UNCHANGED <<cKM, cPod, given, known, paused, input, pod, secret, pvcs, boot>>
        /\ pc = "patchStatus" /\ pc' = "idle"
    BY <1>6 DEF PatchStatus, Forget, cache, others
  <2>2. StepsAttend'
    BY <1>0, <2>1 DEF Attentive, StepsAttend, AfterTheRead
  <2>3. MachineIsAttended'
    <3> SUFFICES ASSUME Undisturbed', cKM' = km'
                 PROVE  IF km'.deleting
                          THEN "machine" \notin km'.fins
                          ELSE km'.failed \/ PodUnseen' \/ Attended(km, cPod)'
      BY DEF MachineIsAttended
    <3>1. km' = after /\ before = after /\ ~queued /\ ~rerr
      BY <1>6, <2>1, NothingToChange DEF Undisturbed
    <3>2. IF after.deleting
            THEN "machine" \notin after.fins
            ELSE after.failed \/ PodUnseen \/ Attended(after, cPod)
      BY <1>0, <2>1, <3>1 DEF Attentive, MachineIsDecided, Undisturbed
    <3> QED BY <2>1, <3>1, <3>2 DEF PodUnseen, Attended, SecretStands
  <2> QED BY <2>1, <2>2, <2>3 DEF Attentive, MachineIsDecided
<1>7. CASE SyncKM
  <2>1. UNCHANGED <<pod, cPod, secret, pc, before, after, seen>> /\ queued'
    BY <1>7 DEF SyncKM, server, local, Enqueue
  <2>2. StepsAttend'
    BY <1>0, <2>1 DEF Attentive, StepsAttend
  <2> QED
    BY <2>1, <2>2 DEF Attentive, MachineIsDecided, MachineIsAttended, Undisturbed
<1>8. CASE Crash
  <2>1. UNCHANGED <<pod, secret>> /\ cPod' = pod /\ pc' = "idle" /\ queued'
    BY <1>8 DEF Crash, server, Forget, Enqueue
  <2> QED
    BY <1>0, <2>1 DEF Attentive, StepsAttend, MachineIsDecided, MachineIsAttended, Undisturbed,
       AfterTheRead
<1>9. CASE (\E p : DeleteMachine(p)) \/ CollectMachine
  <2>1. UNCHANGED <<pod, secret, pvcs, boot, cKM, cPod, given, known, paused, input, pc, before,
                    after, seen, rerr, queued>>
    BY <1>9 DEF DeleteMachine, CollectMachine, cache, others, local
  <2>2. cKM # km'
    BY <1>0, <1>9, DeletionCases, DeletionShows DEF CopiesAreOlder, Older
  <2>3. StepsAttend'
    BY <1>0, <2>1 DEF Attentive, StepsAttend, SecretStands, PodUnseen
  <2>4. MachineIsDecided'
    BY <1>0, <2>1 DEF Attentive, MachineIsDecided, Undisturbed, PodUnseen, Attended, SecretStands
  <2> QED BY <2>1, <2>2, <2>3, <2>4 DEF Attentive, MachineIsAttended
<1>10. CASE Elsewhere
  BY <1>0, <1>10, ElsewhereFrame, ElsewhereUndisturbing, UndisturbingAttentive
<1>11. CASE UNCHANGED vars
  <2>1. Undisturbing /\ UNCHANGED <<km, cKM, pod, cPod>>
    BY <1>11 DEF vars, server, cache, others, local, Undisturbing, Undisturbed, SecretStands,
                 PodUnseen
  <2> QED BY <1>0, <2>1, UndisturbingAttentive
<1> QED
  BY <1>3, <1>4, <1>5, <1>6, <1>7, <1>8, <1>9, <1>10, <1>11, NextCases

(* At every moment, whatever fails, crashes or is paused, and in whatever  *)
(* order the caches show what the others provide: a request is queued, or  *)
(* one will be because a cache is behind, or something that is not watched *)
(* has arrived after the last reconciliation read it, or the machine has   *)
(* what the controller can give it.                                        *)
THEOREM WakeupInvariant == Spec => []WakeupInv
<1> DEFINE I == TypeOK /\ Links /\ PodsInv /\ PhaseInv /\ WakeupInv
<1>1. Init => I
  BY InitTypeOK, InitLinks, InitPods, InitPhase, InitWakeup
<1>2. I /\ [Next]_vars => I'
  BY NextTypeOK, NextLinks, NextPods, NextPhase, NextWakeup, NextIsOpen
<1>3. I => WakeupInv
  OBVIOUS
<1> HIDE DEF I
<1> QED BY <1>1, <1>2, <1>3, PTL DEF Spec

(* Nothing is queued, with all caches current, only when nothing is left   *)
(* to do that depends on the controller alone: no return without an error, *)
(* no lost answer, no crash and no event that came during a reconciliation *)
(* leaves a machine behind that nobody looks at again.  The one exception  *)
(* is named: what arrives without an event after a reconciliation that did *)
(* without it waits for the resync.                                        *)
THEOREM NoWakeupIsLost == Spec => []NoLostWakeup
<1>1. TypeOK /\ PodsInv /\ WakeupInv => NoLostWakeup
  <2>0. WakeupInv /\ Quiescent => Overlooked \subseteq Unwatched
    BY DEF WakeupInv, ArrivalsQueue, Quiescent
  <2> SUFFICES ASSUME TypeOK, PodsInv, WakeupInv, Quiescent, km.exists, given = Prereqs,
                      Overlooked = {}, ~paused
               PROVE  NoLostWakeup
    BY <2>0 DEF NoLostWakeup
  <2>1. IF km.deleting
          THEN "machine" \notin km.fins
          ELSE km.failed \/ PodUnseen \/ Attended(km, cPod)
    BY DEF WakeupInv, MachineIsAttended, Undisturbed, Quiescent
  <2>2. CASE km.deleting \/ km.failed
    BY <2>1, <2>2 DEF NoLostWakeup
  <2>3. CASE PodUnseen /\ ~km.deleting
    <3>1. cPod = pod
      BY DEF Quiescent
    <3> QED BY <2>3, <3>1 DEF PodUnseen
  <2>4. CASE Attended(km, cPod) /\ ~km.deleting
    BY <2>4 DEF Attended, SecretStands, NoLostWakeup, Quiescent
  <2> QED BY <2>1, <2>2, <2>3, <2>4
<1> QED BY <1>1, TypeCorrect, PodsInvariant, SpecIsOpen, WakeupInvariant, PTL
=============================================================================
