-------------------------- MODULE KubernetesCluster --------------------------
(***************************************************************************)
(* The life of one KubernetesCluster: the KubernetesClusterReconciler of   *)
(* src/controllers/kubernetescluster_controller.go and the control plane   *)
(* Service it owns.  As in KubernetesMachine, a reconciliation reads the   *)
(* informer caches when it starts, makes at most one live call (create the *)
(* Service) and ends with two merge patches; other actors move in between. *)
(***************************************************************************)
EXTENDS Naturals, Conversion

CONSTANTS
  Hosts,        \* the addresses of Services and of requests
  Ports,        \* their ports, 443 among them
  Unallocatable,\* the hosts that are no ClusterIP to be had: out of range, allocated, or no IP
  Unservable,   \* the ports that the API server takes for none
  Types,        \* the Service types the user may ask for ("": left out)
  Requested,    \* the endpoints the user may ask for
  Foreign,      \* the Service name may be taken at the start
  Deletions,    \* the policies a delete request may carry
  FaultKinds,   \* the faults that may happen: "crash", "call", "service", "pause"
  MaxFaults     \* bound on their number

NoHost == ""
defaultClusterLoadBalancerPort == 443

Endpoints == [host : Hosts \cup {NoHost}, port : Ports \cup {0}]
ServiceTypes == {"ClusterIP", "LoadBalancer"}

ASSUME EndpointsAssumption ==
  /\ NoHost \notin Hosts /\ 0 \notin Ports /\ Ports \subseteq Nat
  /\ defaultClusterLoadBalancerPort \in Ports
  /\ Requested \subseteq Endpoints
ASSUME RefusalsAssumption ==
  /\ \E h \in Hosts : h \notin Unallocatable
  /\ defaultClusterLoadBalancerPort \notin Unservable
ASSUME TypesAssumption == Types \subseteq ServiceTypes \cup {""}
ASSUME ForeignAssumption == Foreign \in BOOLEAN
ASSUME DeletionsAssumption == Deletions \subseteq {"default", "background"}
ASSUME BoundAssumption == MaxFaults \in Nat

VARIABLES
  kc,      \* the KubernetesCluster on the API server
  svc,     \* the Service with the cluster's name on the API server
  cKC,     \* informer cache of the KubernetesCluster
  cSvc,    \* informer cache of the Service
  owned,   \* the Cluster controller has set the owner reference
  paused,  \* Cluster or KubernetesCluster is paused
  pc,      \* the next call of the reconciliation in progress
  before,  \* the KubernetesCluster as read when it started
  after,   \* its in-memory copy, to be patched
  again,   \* the request goes back to the queue: an error or RequeueAfter
  queued,  \* the work queue holds a request for this cluster
  faults   \* number of faults so far

local == <<pc, before, after, again>>
vars == <<kc, svc, cKC, cSvc, owned, paused, local, queued, faults>>

-----------------------------------------------------------------------------
(* The objects.                                                            *)

Finalizers == {"cluster", "foreground"}
Phases == {"", "Provisioning", "Provisioned", "Failed", "Deleting"}

Clusters ==
  [exists : BOOLEAN, deleting : BOOLEAN, fins : SUBSET Finalizers,
   type : ServiceTypes \cup {""}, endpoint : Endpoints,
   ready : BOOLEAN, failed : BOOLEAN, phase : Phases]

NoEndpoint == [host |-> NoHost, port |-> 0]

NewCluster(t, e) ==
  [exists |-> TRUE, deleting |-> FALSE, fins |-> {}, type |-> t, endpoint |-> e,
   ready |-> FALSE, failed |-> FALSE, phase |-> ""]

GoneCluster == [NewCluster("", NoEndpoint) EXCEPT !.exists = FALSE]

(* The host of a load balancer is empty until it is provisioned; the port  *)
(* is 0 when no port targets the API server any more.                      *)
Services ==
  [owner : {"none", "self", "other"}, type : ServiceTypes,
   host : Hosts \cup {NoHost}, port : Ports \cup {0}]

NoService == [owner |-> "none", type |-> "ClusterIP", host |-> NoHost, port |-> 0]

(* The endpoint of somebody else's Service is never read.                  *)
ForeignService == [NoService EXCEPT !.owner = "other"]

(* Either part missing makes an endpoint zero.                             *)
IsZero(e) == e.host = NoHost \/ e.port = 0

Settle(k) == IF k.deleting /\ k.fins = {} THEN GoneCluster ELSE k

-----------------------------------------------------------------------------
(* The pure parts of the reconciler.                                       *)

reconcilePhase_Unlisted(k) == [k EXCEPT !.phase = IF k.ready THEN "Running" ELSE @]

reconcilePhase(k) ==
  [k EXCEPT !.phase =
     CASE k.deleting -> "Deleting"
       [] ~k.deleting /\ k.failed -> "Failed"
       [] ~k.deleting /\ ~k.failed /\ k.ready -> "Provisioned"
       [] ~k.deleting /\ ~k.failed /\ ~k.ready /\ @ = "" -> "Provisioning"
       [] OTHER -> @]

DefaultType(k) == [k EXCEPT !.type = IF @ = "" THEN "ClusterIP" ELSE @]
SetFailure(k) == [k EXCEPT !.failed = TRUE]

RecordEndpoint_Overwrites(k, s) ==
  [k EXCEPT !.endpoint = [host |-> s.host, port |-> s.port], !.ready = TRUE]
RecordEndpoint_NotReady(k, s) ==
  IF IsZero(k.endpoint) THEN [k EXCEPT !.endpoint = [host |-> s.host, port |-> s.port]] ELSE k
RecordEndpoint_Unchecked(k, s) ==
  [RecordEndpoint_NotReady(k, s) EXCEPT !.ready = TRUE]

(* The endpoint of the Service s is recorded if there is none yet, and     *)
(* compared with the recorded one in any case.                             *)
RecordEndpoint(k, s) ==
  LET e == [host |-> s.host, port |-> s.port]
      r == IF IsZero(k.endpoint) THEN [k EXCEPT !.endpoint = e] ELSE k
  IN IF r.endpoint # e THEN SetFailure(r) ELSE [r EXCEPT !.ready = TRUE]

Enqueue == queued' = TRUE
Fault(kind) == kind \in FaultKinds /\ faults < MaxFaults /\ faults' = faults + 1

(* A call is performed, refused, or performed with the answer lost.        *)
Outcomes == {"ok", "refused", "lost"}
Outcome(o) == IF o = "ok" THEN UNCHANGED faults ELSE Fault("call")

Return_NoPhase(k, requeue) == pc' = "patch" /\ after' = k /\ again' = requeue

Return(k, requeue) ==
  /\ pc' = "patch"
  /\ after' = reconcilePhase(k)
  /\ again' = requeue

-----------------------------------------------------------------------------
(* Reconcile.                                                              *)

Take ==
  /\ pc = "idle" /\ queued
  /\ queued' = FALSE
  /\ UNCHANGED <<kc, svc, cKC, cSvc, owned, paused, faults>>

ReconcileNotFound ==
  /\ Take
  /\ ~cKC.exists
  /\ UNCHANGED local

Fetch_Missing == Take /\ before' = cKC

Fetch ==
  /\ Take
  /\ cKC.exists
  /\ before' = cKC

AwaitCluster ==
  /\ Fetch
  /\ ~owned \/ paused
  /\ Return(cKC, FALSE)

Dispatch == Fetch /\ owned /\ ~paused

reconcileDelete_KeepsFinalizer ==
  /\ Dispatch
  /\ cKC.deleting
  /\ Return(DefaultType(cKC), FALSE)

reconcileDelete ==
  /\ Dispatch
  /\ cKC.deleting
  /\ Return([DefaultType(cKC) EXCEPT !.fins = @ \ {"cluster"}], FALSE)

reconcileNormal ==
  /\ Dispatch
  /\ ~cKC.deleting
  /\ LET k == [DefaultType(cKC) EXCEPT !.fins = @ \cup Finalizers]
         provisioned == cSvc.type = "LoadBalancer" => cSvc.host # NoHost
     IN \/ /\ cSvc.owner = "none"
           /\ pc' = "createService" /\ after' = k /\ again' = FALSE
        \/ cSvc.owner = "other" /\ Return(SetFailure(k), TRUE)
        \/ cSvc.owner = "self" /\ ~provisioned /\ Return(k, TRUE)
        \/ cSvc.owner = "self" /\ provisioned /\ Return(RecordEndpoint(k, cSvc), FALSE)

Reconcile == ReconcileNotFound \/ AwaitCluster \/ reconcileNormal \/ reconcileDelete

(* The Service asks for the recorded host and port, which the API server   *)
(* may refuse for good.                                                    *)
Refused(k) ==
  \/ k.type = "ClusterIP" /\ k.endpoint.host \in Unallocatable
  \/ k.endpoint.port \in Unservable

(* A ClusterIP is given at once, the one asked for if there is one; a load *)
(* balancer gets its address later.                                        *)
createClusterService ==
  /\ pc = "createService"
  /\ \/ Refused(after) /\ Return(after, TRUE) /\ UNCHANGED <<svc, faults>>
     \/ \E o \in Outcomes, h \in Hosts \ Unallocatable :
          /\ ~Refused(after) /\ Outcome(o)
          /\ after.type = "ClusterIP" /\ after.endpoint.host # NoHost => h = after.endpoint.host
          /\ svc' = IF o # "refused" /\ svc.owner = "none"
                      THEN [owner |-> "self", type |-> after.type,
                            host |-> IF after.type = "ClusterIP" THEN h ELSE NoHost,
                            port |-> IF after.endpoint.port # 0 THEN after.endpoint.port
                                     ELSE defaultClusterLoadBalancerPort]
                      ELSE svc
          /\ Return(after, o # "ok" \/ svc.owner # "none")
  /\ UNCHANGED <<kc, cKC, cSvc, owned, paused, before, queued>>

-----------------------------------------------------------------------------
(* The deferred patches, as in KubernetesMachine.                          *)

Sent(new, old, current) == IF new # old THEN new ELSE current

(* A merge patch compares the endpoint's host and port one by one.         *)
MergeSpec(k) ==
  [k EXCEPT !.fins = Sent(after.fins, before.fins, @),
            !.type = Sent(after.type, before.type, @),
            !.endpoint = [host |-> Sent(after.endpoint.host, before.endpoint.host, @.host),
                          port |-> Sent(after.endpoint.port, before.endpoint.port, @.port)]]

MergeStatus(k) ==
  [k EXCEPT !.ready = Sent(after.ready, before.ready, @),
            !.failed = Sent(after.failed, before.failed, @),
            !.phase = Sent(after.phase, before.phase, @)]

SpecChanged ==
  \/ after.fins # before.fins \/ after.type # before.type
  \/ after.endpoint # before.endpoint
StatusChanged ==
  after.ready # before.ready \/ after.failed # before.failed \/ after.phase # before.phase

SpecAccepted == kc.exists /\ (kc.deleting => MergeSpec(kc).fins \subseteq kc.fins)

Patch ==
  /\ pc = "patch"
  /\ \/ ~SpecChanged /\ UNCHANGED <<kc, again, faults>>
     \/ /\ SpecChanged
        /\ \E o \in Outcomes :
             /\ Outcome(o)
             /\ kc' = IF o # "refused" /\ SpecAccepted THEN Settle(MergeSpec(kc)) ELSE kc
             /\ again' = (again \/ o # "ok" \/ ~SpecAccepted)
  /\ pc' = "patchStatus"
  /\ UNCHANGED <<svc, cKC, cSvc, owned, paused, before, after, queued>>

Forget == pc' = "idle" /\ before' = GoneCluster /\ after' = GoneCluster /\ again' = FALSE

PatchStatus ==
  /\ pc = "patchStatus"
  /\ \/ ~StatusChanged /\ queued' = (queued \/ again) /\ UNCHANGED <<kc, faults>>
     \/ /\ StatusChanged
        /\ \E o \in Outcomes :
             /\ Outcome(o)
             /\ kc' = IF o # "refused" /\ kc.exists THEN MergeStatus(kc) ELSE kc
             /\ queued' = (queued \/ again \/ o # "ok" \/ ~kc.exists)
  /\ Forget
  /\ UNCHANGED <<svc, cKC, cSvc, owned, paused>>

Crash ==
  /\ Fault("crash")
  /\ Forget
  /\ cKC' = kc /\ cSvc' = svc
  /\ Enqueue
  /\ UNCHANGED <<kc, svc, owned, paused>>

-----------------------------------------------------------------------------
(* Watches, other controllers and users.                                   *)

SyncKC ==
  /\ cKC # kc
  /\ cKC' = kc
  /\ Enqueue
  /\ UNCHANGED <<kc, svc, cSvc, owned, paused, local, faults>>

ServiceToKubernetesCluster(s) == s.owner = "self"

SyncService ==
  /\ cSvc # svc
  /\ cSvc' = svc
  /\ queued' = (queued \/ ServiceToKubernetesCluster(cSvc) \/ ServiceToKubernetesCluster(svc))
  /\ UNCHANGED <<kc, svc, cKC, owned, paused, local, faults>>

SetOwner ==
  /\ ~owned
  /\ owned' = TRUE
  /\ Enqueue
  /\ UNCHANGED <<kc, svc, cKC, cSvc, paused, local, faults>>

(* The Cluster is watched: a pause that ends queues a request.             *)
Pause ==
  /\ ~paused /\ Fault("pause")
  /\ paused' = TRUE
  /\ UNCHANGED <<kc, svc, cKC, cSvc, owned, local, queued>>

Unpause ==
  /\ paused
  /\ paused' = FALSE
  /\ Enqueue
  /\ UNCHANGED <<kc, svc, cKC, cSvc, owned, local, faults>>

DeleteCluster(p) ==
  /\ kc.exists /\ ~kc.deleting
  /\ kc' = Settle([kc EXCEPT !.deleting = TRUE,
                             !.fins = IF p = "background" THEN @ \ {"foreground"} ELSE @])
  /\ UNCHANGED <<svc, cKC, cSvc, owned, paused, local, queued, faults>>

-----------------------------------------------------------------------------
(* The Service: provisioning, garbage collection, tampering.               *)

ServiceChanges == UNCHANGED <<kc, cKC, cSvc, owned, paused, local>>

(* The cloud gives a load balancer an address, not always the one asked    *)
(* for.                                                                    *)
LoadBalancerProvisioned ==
  /\ svc.owner = "self" /\ svc.type = "LoadBalancer" /\ svc.host = NoHost
  /\ \E h \in Hosts : svc' = [svc EXCEPT !.host = h]
  /\ ServiceChanges /\ UNCHANGED <<queued, faults>>

(* The events of a Service that goes queue its owner, even when the cache  *)
(* never showed it.                                                        *)
ServiceLost ==
  /\ svc.owner = "self" /\ Fault("service")
  /\ svc' = NoService
  /\ Enqueue
  /\ ServiceChanges

ServiceEdited ==
  /\ svc.owner = "self" /\ Fault("service")
  /\ \/ \E p \in (Ports \cup {0}) \ (Unservable \cup {svc.port}) : svc' = [svc EXCEPT !.port = p]
     \/ /\ svc.type = "LoadBalancer" /\ svc.host # NoHost
        /\ \E h \in Hosts \ {svc.host} : svc' = [svc EXCEPT !.host = h]
  /\ ServiceChanges /\ UNCHANGED queued

ForeignGoes ==
  /\ svc.owner = "other"
  /\ svc' = NoService
  /\ ServiceChanges /\ UNCHANGED <<queued, faults>>

Collecting == ~kc.exists \/ (kc.deleting /\ "foreground" \in kc.fins)

CollectService ==
  /\ Collecting /\ svc.owner = "self"
  /\ svc' = NoService
  /\ Enqueue
  /\ ServiceChanges /\ UNCHANGED faults

CollectCluster ==
  /\ kc.deleting /\ "foreground" \in kc.fins /\ svc.owner # "self"
  /\ kc' = Settle([kc EXCEPT !.fins = @ \ {"foreground"}])
  /\ UNCHANGED <<svc, cKC, cSvc, owned, paused, local, queued, faults>>

-----------------------------------------------------------------------------
Init ==
  /\ \E t \in Types, e \in Requested : kc = NewCluster(t, e)
  /\ cKC = kc
  /\ svc \in {NoService} \cup (IF Foreign THEN {ForeignService} ELSE {})
  /\ cSvc = svc
  /\ owned = FALSE /\ paused = FALSE
  /\ pc = "idle" /\ before = GoneCluster /\ after = GoneCluster /\ again = FALSE
  /\ queued = TRUE /\ faults = 0

Controller == Reconcile \/ createClusterService \/ Patch \/ PatchStatus

Next ==
  \/ Controller \/ SyncKC \/ SyncService \/ SetOwner \/ Pause \/ Unpause
  \/ \E p \in Deletions : DeleteCluster(p)
  \/ LoadBalancerProvisioned \/ ServiceLost \/ ServiceEdited \/ ForeignGoes
  \/ CollectService \/ CollectCluster \/ Crash

Spec == Init /\ [][Next]_vars

Fairness ==
  /\ WF_vars(Controller) /\ WF_vars(SyncKC) /\ WF_vars(SyncService)
  /\ WF_vars(SetOwner) /\ WF_vars(LoadBalancerProvisioned)
  /\ WF_vars(CollectService) /\ WF_vars(CollectCluster)

FairSpec == Spec /\ Fairness

-----------------------------------------------------------------------------
(* Properties.                                                             *)

(* Type correctness of every variable.                                     *)
TypeOK ==
  /\ kc \in Clusters /\ cKC \in Clusters /\ before \in Clusters /\ after \in Clusters
  /\ svc \in Services /\ cSvc \in Services
  /\ owned \in BOOLEAN /\ paused \in BOOLEAN /\ again \in BOOLEAN /\ queued \in BOOLEAN
  /\ pc \in {"idle", "createService", "patch", "patchStatus"}
  /\ faults \in 0 .. MaxFaults

(* The comment before the comparison: make sure the endpoint has not       *)
(* changed.  An endpoint that is complete is never replaced by another,    *)
(* unless the cluster, and with it the Service, is being deleted.          *)
EndpointIsStable ==
  [][kc.exists /\ ~kc.deleting /\ ~IsZero(kc.endpoint) =>
       kc'.endpoint = kc.endpoint \/ ~kc'.exists]_vars

Quiescent == pc = "idle" /\ ~queued /\ cKC = kc /\ cSvc = svc

(* When nothing is left to do the cluster has been decided: its endpoint   *)
(* is the one its own Service serves, or the cluster has failed.  A change *)
(* to the Service, before or after, does not go unnoticed.                 *)
SettlesOnServiceEndpoint ==
  Quiescent /\ kc.exists /\ ~kc.deleting /\ owned /\ ~paused /\ ~kc.failed =>
    kc.ready /\ svc.owner = "self" /\ kc.endpoint = [host |-> svc.host, port |-> svc.port]

(* When nothing is left to do, Status.Phase says what the rest of the      *)
(* object says, although it is patched after, and apart from, the spec.    *)
PhaseSettles == Quiescent /\ kc.exists => kc.phase = reconcilePhase(kc).phase

(* The cluster becomes ready, or is reported failed, unless it is deleted  *)
(* or paused first.  The one request that the code retries for ever is     *)
(* for a Service that the API server will not have: nothing reports it.    *)
Provisioned ==
  <>(kc.ready \/ kc.failed \/ kc.deleting \/ ~kc.exists \/ paused \/ Refused(DefaultType(kc)))

(* A deletion runs to its end, unless paused.                              *)
DeletionCompletes == kc.deleting ~> (~kc.exists \/ paused)

(* After the cluster is gone its Service goes for good, even when a        *)
(* reconciliation on a stale copy creates it once more.                    *)
NothingLeftBehind == <>(~kc.exists) => <>[](svc.owner # "self")

(* The KubernetesCluster as an object of the API.                          *)
Object(k) ==
  [meta |-> [exists |-> k.exists, deleting |-> k.deleting, fins |-> k.fins],
   type |-> k.type, endpoint |-> k.endpoint,
   failure |-> k.failed, phase |-> k.phase, ready |-> k.ready]

(* A client of v1alpha2 looks for the endpoint in the status: when nothing *)
(* is left to do and the cluster is ready, it finds the recorded one there *)
(* and no other, although the endpoint is written in the spec, and apart   *)
(* from Ready, unless the cluster is being deleted or is paused: a patch   *)
(* that failed is not retried until the pause ends.  Writing the cluster   *)
(* back at any moment changes nothing.                                     *)
V1alpha2Agrees ==
  LET view == ClusterConvertFrom(Object(kc), IsZero(kc.endpoint))
  IN /\ ClusterConvertTo(view) = Object(kc)
     /\ Quiescent /\ ~paused /\ kc.ready /\ ~kc.failed /\ ~kc.deleting
          => view.apiEndpoints = {kc.endpoint}

-----------------------------------------------------------------------------
(* The lifecycle that others see, and that this specification implements   *)
(* as long as nobody else touches the Service.                             *)

Lifecycle ==
  INSTANCE ClusterLifecycle
    WITH Endpoints <- {e \in Endpoints : ~IsZero(e)}, None <- NoEndpoint,
         endpoint <- IF IsZero(kc.endpoint) THEN NoEndpoint ELSE kc.endpoint,
         ready <- kc.ready, broken <- kc.failed,
         terminating <- kc.deleting, gone <- ~kc.exists

(* Whatever caches, retries, lost answers and crashes do, the Cluster      *)
(* controller sees a cluster that follows ClusterLifecycle: an endpoint    *)
(* that is set once, although host and port are patched one by one and     *)
(* apart from Ready; Ready and a failure that are not taken back; and an   *)
(* object that does not come back.                                         *)
ImplementsLifecycle == Lifecycle!Spec
=============================================================================
