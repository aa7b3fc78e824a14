----------------------- MODULE KubernetesClusterProofs -----------------------
(***************************************************************************)
(* Proofs about KubernetesCluster, for every value of its constants: its   *)
(* types, that no wake-up is lost, that the endpoint is recorded once, and *)
(* that ClusterLifecycle is implemented.                                   *)
(***************************************************************************)
EXTENDS KubernetesCluster, TLAPS

-----------------------------------------------------------------------------
(* The inductive invariants.  They say how the copies of the cluster, in   *)
(* the cache and in a reconciliation, relate to the object they were read  *)
(* from.                                                                   *)

Live == kc.exists /\ ~kc.deleting

(* A copy is of an earlier moment: a deletion is not taken back, and while *)
(* it lasts finalizers only go.                                            *)
Older(c) == kc.exists => c.exists /\ (c.deleting => kc.deleting /\ kc.fins \subseteq c.fins)

CopiesAreOlder == Older(cKC) /\ (pc # "idle" => before.exists /\ Older(before))

(* A reconciliation decides about the status and never takes Ready or a    *)
(* failure back; it reports one of them at a time.                         *)
StepsKeepStatus ==
  pc # "idle" =>
    /\ after.exists = before.exists /\ after.deleting = before.deleting
    /\ before.ready => after.ready
    /\ before.failed => after.failed
    /\ after.failed = before.failed \/ after.ready = before.ready

GoneIsBlank == ~kc.exists => kc = GoneCluster

(* A default type is set before a Service is created.                      *)
TypeIsSet == pc = "createService" => after.type # ""

CopiesInv == TypeIsSet /\ CopiesAreOlder /\ StepsKeepStatus /\ GoneIsBlank

(* No wake-up is lost.  As long as no request is queued, the copy a        *)
(* reconciliation works on is the cached one; what it decided has been     *)
(* written, or it will be tried again.                                     *)
UnqueuedIsCurrent == pc # "idle" /\ ~queued => before = cKC

SpecIsSent == pc = "patchStatus" /\ ~again /\ SpecChanged => kc # before

PhaseIsSaid(k) == k.phase = reconcilePhase(k).phase

PhaseIsDecided == pc \in {"patch", "patchStatus"} => PhaseIsSaid(after)

PhaseIsWritten == pc = "idle" /\ ~queued /\ kc.exists => cKC # kc \/ PhaseIsSaid(kc)

(* The cluster k has been found to agree with the Service s.               *)
Agrees(k, s) ==
  k.ready /\ s.owner = "self" /\ k.endpoint = [host |-> s.host, port |-> s.port]

(* The Service has been created and the cache does not show it yet.        *)
CreatedUnseen == cSvc.owner = "none" /\ svc.owner = "self"

ForeignIsFirst == svc.owner = "other" => cSvc.owner = "other"

ClusterIsDecided ==
  Live /\ owned /\ ~paused /\ ~queued =>
    /\ pc = "createService" => cSvc.owner = "none"
    /\ pc \in {"patch", "patchStatus"} /\ ~again =>
         after.failed \/ Agrees(after, cSvc) \/ CreatedUnseen
    /\ pc = "idle" =>
         kc.failed \/ cKC # kc \/ Agrees(kc, cSvc) \/ CreatedUnseen

WakeupInv ==
  /\ UnqueuedIsCurrent /\ SpecIsSent /\ PhaseIsDecided /\ PhaseIsWritten
  /\ ForeignIsFirst /\ ClusterIsDecided

(* What follows holds as long as nobody else touches the Service.  A       *)
(* Service serves a port, and until the cluster goes it keeps its port and *)
(* the address it was given.                                               *)
Complete(s) == s.owner = "self" => s.port # 0 /\ (s.type = "ClusterIP" => s.host # NoHost)

Served(e) ==
  svc.owner = "self" /\ svc.host # NoHost /\ e = [host |-> svc.host, port |-> svc.port]

ServiceIsSteady ==
  /\ Complete(svc) /\ Complete(cSvc)
  /\ Live /\ cSvc.owner = "self" =>
       /\ svc.owner = "self" /\ cSvc.port = svc.port
       /\ cSvc.host # NoHost => cSvc.host = svc.host

(* An earlier copy has the same endpoint, or had none where the cluster    *)
(* now has the one that is served.                                         *)
Behind(c) ==
  kc.exists =>
    \/ c.endpoint = kc.endpoint
    \/ /\ ~IsZero(kc.endpoint)
       /\ ~kc.deleting => IsZero(c.endpoint) /\ Served(kc.endpoint)

EndpointsAreBehind == Behind(cKC) /\ (pc # "idle" => Behind(before))

RecordsService ==
  pc # "idle" =>
    \/ after.endpoint = before.endpoint
    \/ /\ IsZero(before.endpoint) /\ ~IsZero(after.endpoint)
       /\ Live => Served(after.endpoint)

EndpointInv == ServiceIsSteady /\ EndpointsAreBehind /\ RecordsService

(* Ready is reported by an owned cluster whose Service the cache shows     *)
(* with its address.                                                       *)
ReadyIsServed ==
  LET reported == kc.ready \/ cKC.ready \/ (pc # "idle" /\ after.ready)
  IN reported => owned /\ (Live => cSvc.owner = "self" /\ cSvc.host # NoHost)

(* Ready and the endpoint are patched apart: where the endpoint did not    *)
(* arrive it will be sent again.                                           *)
ReadyIsRecorded ==
  Live /\ after.ready /\ ~before.ready =>
    /\ pc \in {"createService", "patch"} => ~IsZero(after.endpoint)
    /\ pc = "patchStatus" /\ IsZero(kc.endpoint) => again

EndpointWillBeSent ==
  Live /\ kc.ready /\ IsZero(kc.endpoint) /\ ~paused =>
    \/ queued
    \/ pc = "patch" /\ after.endpoint # before.endpoint
    \/ pc = "patchStatus" /\ again

ReadyInv == ReadyIsServed /\ ReadyIsRecorded /\ EndpointWillBeSent

-----------------------------------------------------------------------------
(* The objects and the pure parts of the reconciler.                       *)

(* The fields of a KubernetesCluster have their types.                     *)
LEMMA ClusterFields ==
  ASSUME NEW k, k \in Clusters
  PROVE  /\ k.exists \in BOOLEAN /\ k.deleting \in BOOLEAN /\ k.fins \subseteq Finalizers
         /\ k.type \in ServiceTypes \cup {""} /\ k.endpoint \in Endpoints
         /\ k.ready \in BOOLEAN /\ k.failed \in BOOLEAN /\ k.phase \in Phases
BY DEF Clusters

(* The two halves of an endpoint have their types.                         *)
LEMMA EndpointFields ==
  ASSUME NEW e, e \in Endpoints
  PROVE  /\ e.host \in Hosts \cup {NoHost} /\ e.port \in Ports \cup {0}
         /\ e = [host |-> e.host, port |-> e.port]
BY DEF Endpoints

(* A KubernetesCluster is what its fields are.                             *)
LEMMA ClusterExtensional ==
  ASSUME NEW k, k \in Clusters, NEW m, m \in Clusters,
         k.exists = m.exists, k.deleting = m.deleting, k.fins = m.fins, k.type = m.type,
         k.endpoint = m.endpoint, k.ready = m.ready, k.failed = m.failed, k.phase = m.phase
  PROVE  k = m
<1> DEFINE Rebuilt(c) ==
             [exists |-> c.exists, deleting |-> c.deleting, fins |-> c.fins, type |-> c.type,
              endpoint |-> c.endpoint, ready |-> c.ready, failed |-> c.failed, phase |-> c.phase]
<1>1. k = Rebuilt(k) /\ m = Rebuilt(m)
  BY DEF Clusters
<1> QED BY <1>1, Zenon

(* Fields of their types make a KubernetesCluster.                         *)
LEMMA ClusterRecord ==
  ASSUME NEW a \in BOOLEAN, NEW d \in BOOLEAN, NEW f \in SUBSET Finalizers,
         NEW t \in ServiceTypes \cup {""}, NEW e \in Endpoints,
         NEW r \in BOOLEAN, NEW x \in BOOLEAN, NEW y \in Phases
  PROVE  [exists |-> a, deleting |-> d, fins |-> f, type |-> t, endpoint |-> e,
          ready |-> r, failed |-> x, phase |-> y] \in Clusters
BY DEF Clusters

(* The cluster that has gone, and the absent Service.                      *)
LEMMA ObjectsType ==
  /\ NoEndpoint \in Endpoints /\ IsZero(NoEndpoint)
  /\ GoneCluster \in Clusters
  /\ ~GoneCluster.exists /\ ~GoneCluster.deleting /\ GoneCluster.fins = {}
  /\ ~GoneCluster.ready /\ ~GoneCluster.failed /\ GoneCluster.endpoint = NoEndpoint
  /\ NoService \in Services /\ NoService.owner = "none"
  /\ ForeignService \in Services /\ ForeignService.owner = "other"
<1>1. NoEndpoint \in Endpoints /\ IsZero(NoEndpoint)
  BY DEF NoEndpoint, Endpoints, IsZero
<1>2. /\ NoService \in Services /\ NoService.owner = "none"
      /\ ForeignService \in Services /\ ForeignService.owner = "other"
  BY DEF NoService, ForeignService, Services, ServiceTypes
<1>3. /\ GoneCluster \in Clusters
      /\ ~GoneCluster.exists /\ ~GoneCluster.deleting /\ GoneCluster.fins = {}
      /\ ~GoneCluster.ready /\ ~GoneCluster.failed /\ GoneCluster.endpoint = NoEndpoint
  BY <1>1 DEF GoneCluster, NewCluster, Clusters, Phases, ServiceTypes
<1> QED BY <1>1, <1>2, <1>3

(* A new cluster is well-formed and has what was asked for.                *)
LEMMA NewClusterFields ==
  ASSUME NEW t \in Types, NEW e \in Requested
  PROVE  /\ NewCluster(t, e) \in Clusters /\ NewCluster(t, e).exists
         /\ ~NewCluster(t, e).deleting /\ NewCluster(t, e).endpoint = e
         /\ ~NewCluster(t, e).ready /\ ~NewCluster(t, e).failed
<1>1. t \in ServiceTypes \cup {""} /\ e \in Endpoints
  BY TypesAssumption, EndpointsAssumption
<1> QED BY <1>1 DEF NewCluster, Clusters, Phases

(* reconcilePhase writes Status.Phase and nothing else, and a second time  *)
(* changes nothing.                                                        *)
LEMMA ReconcilePhaseFields ==
  ASSUME NEW k, k \in Clusters
  PROVE  /\ reconcilePhase(k) \in Clusters
         /\ reconcilePhase(k).exists = k.exists /\ reconcilePhase(k).deleting = k.deleting
         /\ reconcilePhase(k).fins = k.fins /\ reconcilePhase(k).type = k.type
         /\ reconcilePhase(k).endpoint = k.endpoint
         /\ reconcilePhase(k).ready = k.ready /\ reconcilePhase(k).failed = k.failed
         /\ PhaseIsSaid(reconcilePhase(k))
<1>1. /\ reconcilePhase(k) \in Clusters
      /\ reconcilePhase(k).exists = k.exists /\ reconcilePhase(k).deleting = k.deleting
      /\ reconcilePhase(k).fins = k.fins /\ reconcilePhase(k).type = k.type
      /\ reconcilePhase(k).endpoint = k.endpoint
      /\ reconcilePhase(k).ready = k.ready /\ reconcilePhase(k).failed = k.failed
  BY DEF reconcilePhase, Clusters, Phases
<1>2. PhaseIsSaid(reconcilePhase(k))
  BY DEF reconcilePhase, Clusters, Phases, PhaseIsSaid
<1> QED BY <1>1, <1>2

(* DefaultType sets a type where there was none.                           *)
LEMMA DefaultTypeFields ==
  ASSUME NEW k, k \in Clusters
  PROVE  /\ DefaultType(k) \in Clusters /\ DefaultType(k).type # ""
         /\ DefaultType(k).exists = k.exists /\ DefaultType(k).deleting = k.deleting
         /\ DefaultType(k).fins = k.fins /\ DefaultType(k).endpoint = k.endpoint
         /\ DefaultType(k).ready = k.ready /\ DefaultType(k).failed = k.failed
BY DEF DefaultType, Clusters, ServiceTypes

(* SetFailure reports a failure and changes nothing else.                  *)
LEMMA SetFailureFields ==
  ASSUME NEW k, k \in Clusters
  PROVE  /\ SetFailure(k) \in Clusters /\ SetFailure(k).failed
         /\ SetFailure(k).exists = k.exists /\ SetFailure(k).deleting = k.deleting
         /\ SetFailure(k).fins = k.fins /\ SetFailure(k).type = k.type
         /\ SetFailure(k).endpoint = k.endpoint /\ SetFailure(k).ready = k.ready
BY DEF SetFailure, Clusters

(* The endpoint a Service serves.                                          *)
Serves(s) == [host |-> s.host, port |-> s.port]

LEMMA ServesType == ASSUME NEW s, s \in Services PROVE Serves(s) \in Endpoints
BY DEF Serves, Services, Endpoints

(* RecordEndpoint keeps an endpoint that is complete, takes that of the    *)
(* Service otherwise, and reports either agreement or a failure.           *)
LEMMA RecordEndpointFields ==
  ASSUME NEW k, k \in Clusters, NEW s, s \in Services, NEW r, r = RecordEndpoint(k, s)
  PROVE  /\ r \in Clusters
         /\ r.exists = k.exists /\ r.deleting = k.deleting
         /\ r.fins = k.fins /\ r.type = k.type
         /\ r.endpoint = IF IsZero(k.endpoint) THEN Serves(s) ELSE k.endpoint
         /\ \/ r.endpoint = Serves(s) /\ r.ready /\ r.failed = k.failed
            \/ r.endpoint # Serves(s) /\ r.ready = k.ready /\ r.failed
<1> DEFINE m == IF IsZero(k.endpoint) THEN [k EXCEPT !.endpoint = Serves(s)] ELSE k
<1>1. /\ m \in Clusters
      /\ m.exists = k.exists /\ m.deleting = k.deleting
      /\ m.fins = k.fins /\ m.type = k.type
      /\ m.endpoint = IF IsZero(k.endpoint) THEN Serves(s) ELSE k.endpoint
      /\ m.ready = k.ready /\ m.failed = k.failed
  BY ServesType DEF Clusters
<1>2. RecordEndpoint(k, s) = IF m.endpoint # Serves(s) THEN SetFailure(m) ELSE [m EXCEPT !.ready = TRUE]
  BY DEF RecordEndpoint, Serves
<1> HIDE DEF m
<1>3. CASE m.endpoint # Serves(s)
  BY <1>1, <1>2, <1>3, SetFailureFields
<1>4. CASE m.endpoint = Serves(s)
  <2>1. /\ [m EXCEPT !.ready = TRUE] \in Clusters
        /\ [m EXCEPT !.ready = TRUE].exists = m.exists
        /\ [m EXCEPT !.ready = TRUE].deleting = m.deleting
        /\ [m EXCEPT !.ready = TRUE].fins = m.fins
        /\ [m EXCEPT !.ready = TRUE].type = m.type
        /\ [m EXCEPT !.ready = TRUE].endpoint = m.endpoint
        /\ [m EXCEPT !.ready = TRUE].ready = TRUE
        /\ [m EXCEPT !.ready = TRUE].failed = m.failed
    BY <1>1 DEF Clusters
  <2> QED BY <1>1, <1>2, <1>4, <2>1
<1> QED BY <1>3, <1>4

(* The API server's removal of a cluster.                                  *)
LEMMA SettleFields ==
  ASSUME NEW k, k \in Clusters
  PROVE  Settle(k) \in Clusters /\ (Settle(k) = k \/ (k.deleting /\ Settle(k) = GoneCluster))
BY ObjectsType DEF Settle

-----------------------------------------------------------------------------
(* What a reconciliation decides.  The actions below are Reconcile with    *)
(* the fields of its copy spelt out; they serve the proofs only.           *)

HasAddress(s) == s.type = "LoadBalancer" => s.host # NoHost

(* The decision is made; the patches follow.                               *)
Decides == pc' = "patch" /\ PhaseIsSaid(after)'

Keeps ==
  /\ after'.endpoint = cKC.endpoint
  /\ after'.ready = cKC.ready /\ after'.failed = cKC.failed

Waits == (~owned \/ paused) /\ again' = FALSE /\ Decides /\ Keeps

Releases == cKC.deleting /\ owned /\ ~paused /\ again' = FALSE /\ Decides /\ Keeps

Normal == ~cKC.deleting /\ owned /\ ~paused

Creates ==
  /\ Normal /\ cSvc.owner = "none"
  /\ pc' = "createService" /\ again' = FALSE /\ after'.type # "" /\ Keeps

Fails ==
  /\ Normal /\ cSvc.owner = "other" /\ again' = TRUE /\ Decides
  /\ after'.endpoint = cKC.endpoint /\ after'.ready = cKC.ready /\ after'.failed

Retries ==
  Normal /\ cSvc.owner = "self" /\ ~HasAddress(cSvc) /\ again' = TRUE /\ Decides /\ Keeps

Records ==
  /\ Normal /\ cSvc.owner = "self" /\ HasAddress(cSvc) /\ again' = FALSE /\ Decides
  /\ after'.endpoint = IF IsZero(cKC.endpoint) THEN Serves(cSvc) ELSE cKC.endpoint
  /\ \/ after'.endpoint = Serves(cSvc) /\ after'.ready /\ after'.failed = cKC.failed
     \/ after'.endpoint # Serves(cSvc) /\ after'.ready = cKC.ready /\ after'.failed

Starts ==
  /\ cKC.exists /\ before' = cKC
  /\ after' \in Clusters /\ after'.exists = cKC.exists /\ after'.deleting = cKC.deleting
  /\ Waits \/ Releases \/ Creates \/ Fails \/ Retries \/ Records

(* A path that returns k decides what k says, and the phase.               *)
LEMMA ReturnDecides ==
  ASSUME NEW k, k \in Clusters, NEW r, Return(k, r)
  PROVE  /\ Decides /\ again' = r /\ after' \in Clusters
         /\ after'.exists = k.exists /\ after'.deleting = k.deleting
         /\ after'.endpoint = k.endpoint
         /\ after'.ready = k.ready /\ after'.failed = k.failed
<1>1. after' = reconcilePhase(k) /\ pc' = "patch" /\ again' = r
  BY DEF Return
<1>2. PhaseIsSaid(after)'
  BY <1>1, ReconcilePhaseFields DEF PhaseIsSaid
<1> QED BY <1>1, <1>2, ReconcilePhaseFields DEF Decides

(* A reconciliation takes the request off the queue and, where the cache   *)
(* shows the cluster, starts on a copy of it.                              *)
LEMMA ReconcileCases ==
  ASSUME TypeOK, Reconcile
  PROVE  Take /\ ((~cKC.exists /\ UNCHANGED local) \/ Starts)
<1>1. cKC \in Clusters /\ cSvc \in Services
  BY DEF TypeOK
<1>2. CASE ReconcileNotFound
  BY <1>2 DEF ReconcileNotFound
<1>3. CASE AwaitCluster
  <2>1. Take /\ cKC.exists /\ before' = cKC /\ (~owned \/ paused) /\ Return(cKC, FALSE)
    BY <1>3 DEF AwaitCluster, Fetch
  <2> QED BY <1>1, <2>1, ReturnDecides DEF Starts, Waits, Keeps
<1>4. CASE reconcileDelete
  <2> DEFINE k == [DefaultType(cKC) EXCEPT !.fins = @ \ {"cluster"}]
  <2>1. /\ Take /\ cKC.exists /\ before' = cKC /\ owned /\ ~paused /\ cKC.deleting
        /\ Return(k, FALSE)
    BY <1>4 DEF reconcileDelete, Dispatch, Fetch
  <2>2. /\ k \in Clusters /\ k.exists = cKC.exists /\ k.deleting = cKC.deleting
        /\ k.endpoint = cKC.endpoint /\ k.ready = cKC.ready /\ k.failed = cKC.failed
    BY <1>1, DefaultTypeFields DEF Clusters
  <2> HIDE DEF k
  <2> QED BY <2>1, <2>2, ReturnDecides DEF Starts, Releases, Keeps
<1>5. CASE reconcileNormal
  <2> DEFINE k == [DefaultType(cKC) EXCEPT !.fins = @ \cup Finalizers]
  <2>1. /\ Take /\ cKC.exists /\ before' = cKC /\ owned /\ ~paused /\ ~cKC.deleting
        /\ \/ /\ cSvc.owner = "none"
              /\ pc' = "createService" /\ after' = k /\ again' = FALSE
           \/ cSvc.owner = "other" /\ Return(SetFailure(k), TRUE)
           \/ cSvc.owner = "self" /\ ~HasAddress(cSvc) /\ Return(k, TRUE)
           \/ cSvc.owner = "self" /\ HasAddress(cSvc) /\ Return(RecordEndpoint(k, cSvc), FALSE)
    BY <1>5 DEF reconcileNormal, Dispatch, Fetch, HasAddress
  <2>2. /\ k \in Clusters /\ k.exists = cKC.exists /\ k.deleting = cKC.deleting
        /\ k.endpoint = cKC.endpoint /\ k.ready = cKC.ready /\ k.failed = cKC.failed
        /\ k.type # ""
    BY <1>1, DefaultTypeFields DEF Clusters
  <2> HIDE DEF k
  <2>3. CASE cSvc.owner = "none" /\ pc' = "createService" /\ after' = k /\ again' = FALSE
    BY <2>1, <2>2, <2>3 DEF Starts, Creates, Normal, Keeps
  <2>4. CASE cSvc.owner = "other" /\ Return(SetFailure(k), TRUE)
    <3>1. /\ SetFailure(k) \in Clusters /\ SetFailure(k).exists = cKC.exists
          /\ SetFailure(k).deleting = cKC.deleting /\ SetFailure(k).endpoint = cKC.endpoint
          /\ SetFailure(k).ready = cKC.ready /\ SetFailure(k).failed
      BY <2>2, SetFailureFields
    <3> QED BY <2>1, <2>4, <3>1, ReturnDecides DEF Starts, Fails, Normal
  <2>5. CASE cSvc.owner = "self" /\ ~HasAddress(cSvc) /\ Return(k, TRUE)
    BY <2>1, <2>2, <2>5, ReturnDecides DEF Starts, Retries, Normal, Keeps
  <2>6. CASE cSvc.owner = "self" /\ HasAddress(cSvc) /\ Return(RecordEndpoint(k, cSvc), FALSE)
    <3> DEFINE r == RecordEndpoint(k, cSvc)
    <3>1. /\ r \in Clusters /\ r.exists = cKC.exists /\ r.deleting = cKC.deleting
          /\ r.endpoint = IF IsZero(cKC.endpoint) THEN Serves(cSvc) ELSE cKC.endpoint
          /\ \/ r.endpoint = Serves(cSvc) /\ r.ready /\ r.failed = cKC.failed
             \/ r.endpoint # Serves(cSvc) /\ r.ready = cKC.ready /\ r.failed
      <4>1. r = RecordEndpoint(k, cSvc)
        OBVIOUS
      <4> HIDE DEF r
      <4>2. /\ r \in Clusters /\ r.exists = k.exists /\ r.deleting = k.deleting
            /\ r.endpoint = IF IsZero(k.endpoint) THEN Serves(cSvc) ELSE k.endpoint
            /\ \/ r.endpoint = Serves(cSvc) /\ r.ready /\ r.failed = k.failed
               \/ r.endpoint # Serves(cSvc) /\ r.ready = k.ready /\ r.failed
        <5>1. k \in Clusters /\ cSvc \in Services
          BY <1>1, <2>2
        <5>2. r \in Clusters
          BY <5>1, <4>1, RecordEndpointFields
        <5>3. r.exists = k.exists /\ r.deleting = k.deleting
          BY <5>1, <4>1, RecordEndpointFields
        <5>4. r.endpoint = IF IsZero(k.endpoint) THEN Serves(cSvc) ELSE k.endpoint
          BY <5>1, <4>1, RecordEndpointFields
        <5>5.  \/ r.endpoint = Serves(cSvc) /\ r.ready /\ r.failed = k.failed
               \/ r.endpoint # Serves(cSvc) /\ r.ready = k.ready /\ r.failed
          BY <5>1, <4>1, RecordEndpointFields
        <5> QED BY <5>2, <5>3, <5>4, <5>5
      <4>3. /\ k.exists = cKC.exists /\ k.deleting = cKC.deleting
            /\ k.endpoint = cKC.endpoint /\ k.ready = cKC.ready /\ k.failed = cKC.failed
        BY <2>2
      <4> QED BY <4>2, <4>3, Zenon
    <3>2. Return(r, FALSE)
      BY <2>6
    <3> HIDE DEF r
    <3>3. /\ Decides /\ again' = FALSE /\ after' \in Clusters
          /\ after'.exists = r.exists /\ after'.deleting = r.deleting
          /\ after'.endpoint = r.endpoint
          /\ after'.ready = r.ready /\ after'.failed = r.failed
      BY <3>1, <3>2, ReturnDecides
    <3>4. Records
      BY <2>1, <2>6, <3>1, <3>3 DEF Records, Normal
    <3> QED BY <2>1, <3>1, <3>3, <3>4 DEF Starts
  <2> QED BY <2>1, <2>3, <2>4, <2>5, <2>6
<1> QED BY <1>2, <1>3, <1>4, <1>5 DEF Reconcile

-----------------------------------------------------------------------------
(* What the live calls do.                                                 *)

(* The count of faults stays within its bound.                             *)
LEMMA FaultType ==
  ASSUME TypeOK, NEW x, Fault(x)
  PROVE  faults' \in 0 .. MaxFaults
BY BoundAssumption DEF TypeOK, Fault

LEMMA OutcomeType ==
  ASSUME TypeOK, NEW o, Outcome(o)
  PROVE  faults' \in 0 .. MaxFaults
BY FaultType DEF Outcome, TypeOK

(* The Service is created where there is none, with a port and, unless it  *)
(* is a load balancer, an address; or the request will be retried.         *)
CreatesService ==
  /\ svc.owner = "none"
  /\ svc' \in Services /\ svc'.owner = "self" /\ Complete(svc)'

LEMMA CreateCases ==
  ASSUME TypeOK, TypeIsSet, createClusterService
  PROVE  /\ pc = "createService" /\ Decides /\ again' \in BOOLEAN
         /\ UNCHANGED <<kc, cKC, cSvc, owned, paused, before, queued>>
         /\ after' \in Clusters /\ after'.exists = after.exists /\ after'.deleting = after.deleting
         /\ after'.endpoint = after.endpoint
         /\ after'.ready = after.ready /\ after'.failed = after.failed
         /\ (UNCHANGED svc /\ again' = TRUE) \/ CreatesService
         /\ faults' \in 0 .. MaxFaults
<1>1. after \in Clusters /\ svc \in Services /\ faults \in 0 .. MaxFaults
  BY DEF TypeOK
<1>2. pc = "createService" /\ UNCHANGED <<kc, cKC, cSvc, owned, paused, before, queued>>
  BY DEF createClusterService
<1>3. CASE Return(after, TRUE) /\ UNCHANGED <<svc, faults>>
  <2>1. /\ Decides /\ again' = TRUE
        /\ after' \in Clusters /\ after'.exists = after.exists /\ after'.deleting = after.deleting
        /\ after'.endpoint = after.endpoint
        /\ after'.ready = after.ready /\ after'.failed = after.failed
    BY <1>1, <1>3, ReturnDecides
  <2> QED BY <1>1, <1>2, <1>3, <2>1
<1>4. ASSUME NEW o \in Outcomes, NEW h \in Hosts, Outcome(o),
             svc' = IF o # "refused" /\ svc.owner = "none"
                      THEN [owner |-> "self", type |-> after.type,
                            host |-> IF after.type = "ClusterIP" THEN h ELSE NoHost,
                            port |-> IF after.endpoint.port # 0 THEN after.endpoint.port
                                     ELSE defaultClusterLoadBalancerPort]
                      ELSE svc,
             Return(after, o # "ok" \/ svc.owner # "none")
      PROVE  /\ Decides /\ again' \in BOOLEAN
             /\ after' \in Clusters /\ after'.exists = after.exists /\ after'.deleting = after.deleting
             /\ after'.endpoint = after.endpoint
             /\ after'.ready = after.ready /\ after'.failed = after.failed
             /\ (UNCHANGED svc /\ again' = TRUE) \/ CreatesService
             /\ faults' \in 0 .. MaxFaults
  <2>1. /\ Decides /\ again' = (o # "ok" \/ svc.owner # "none")
        /\ after' \in Clusters /\ after'.exists = after.exists /\ after'.deleting = after.deleting
        /\ after'.endpoint = after.endpoint
        /\ after'.ready = after.ready /\ after'.failed = after.failed
    BY <1>1, <1>4, ReturnDecides
  <2>2. faults' \in 0 .. MaxFaults
    BY <1>4, OutcomeType
  <2>3. CASE o = "refused" \/ svc.owner # "none"
    BY <1>4, <2>1, <2>2, <2>3
  <2>4. CASE o # "refused" /\ svc.owner = "none"
    <3> DEFINE t == after.type
               p == IF after.endpoint.port # 0 THEN after.endpoint.port
                    ELSE defaultClusterLoadBalancerPort
               a == IF t = "ClusterIP" THEN h ELSE NoHost
    <3>1. t \in ServiceTypes
      BY <1>1, <1>2 DEF TypeIsSet, Clusters
    <3>2. p \in Ports \cup {0} /\ p # 0
      <4>1. after.endpoint.port \in Ports \cup {0}
        BY <1>1, ClusterFields, EndpointFields
      <4>2. defaultClusterLoadBalancerPort \in Ports /\ 0 \notin Ports
        BY EndpointsAssumption
      <4> QED BY <4>1, <4>2
    <3>3. a \in Hosts \cup {NoHost} /\ (t = "ClusterIP" => a # NoHost)
      BY EndpointsAssumption
    <3>4. svc' = [owner |-> "self", type |-> t, host |-> a, port |-> p]
      BY <1>4, <2>4
    <3> HIDE DEF t, p, a
    <3>5. svc' \in Services /\ svc'.owner = "self"
      BY <3>1, <3>2, <3>3, <3>4 DEF Services
    <3>6. Complete(svc)'
      BY <3>2, <3>3, <3>4 DEF Complete
    <3> QED BY <2>1, <2>2, <2>4, <3>5, <3>6 DEF CreatesService
  <2> QED BY <2>3, <2>4
<1>5. CASE \E o \in Outcomes, h \in Hosts :
             /\ Outcome(o)
             /\ svc' = IF o # "refused" /\ svc.owner = "none"
                         THEN [owner |-> "self", type |-> after.type,
                               host |-> IF after.type = "ClusterIP" THEN h ELSE NoHost,
                               port |-> IF after.endpoint.port # 0 THEN after.endpoint.port
                                        ELSE defaultClusterLoadBalancerPort]
                         ELSE svc
             /\ Return(after, o # "ok" \/ svc.owner # "none")
  BY <1>2, <1>4, <1>5
<1> QED BY <1>3, <1>5 DEF createClusterService

(* The fields of a cluster that a patch has been merged into.              *)
LEMMA MergeFields ==
  ASSUME TypeOK
  PROVE  /\ MergeSpec(kc) \in Clusters
         /\ MergeSpec(kc).exists = kc.exists /\ MergeSpec(kc).deleting = kc.deleting
         /\ MergeSpec(kc).fins = Sent(after.fins, before.fins, kc.fins)
         /\ MergeSpec(kc).type = Sent(after.type, before.type, kc.type)
         /\ MergeSpec(kc).endpoint.host
              = Sent(after.endpoint.host, before.endpoint.host, kc.endpoint.host)
         /\ MergeSpec(kc).endpoint.port
              = Sent(after.endpoint.port, before.endpoint.port, kc.endpoint.port)
         /\ MergeSpec(kc).ready = kc.ready /\ MergeSpec(kc).failed = kc.failed
         /\ MergeSpec(kc).phase = kc.phase
         /\ MergeStatus(kc) \in Clusters
         /\ MergeStatus(kc).exists = kc.exists /\ MergeStatus(kc).deleting = kc.deleting
         /\ MergeStatus(kc).fins = kc.fins /\ MergeStatus(kc).type = kc.type
         /\ MergeStatus(kc).endpoint = kc.endpoint
         /\ MergeStatus(kc).ready = Sent(after.ready, before.ready, kc.ready)
         /\ MergeStatus(kc).failed = Sent(after.failed, before.failed, kc.failed)
         /\ MergeStatus(kc).phase = Sent(after.phase, before.phase, kc.phase)
<1>1. kc \in Clusters /\ before \in Clusters /\ after \in Clusters
  BY DEF TypeOK
<1> DEFINE f == Sent(after.fins, before.fins, kc.fins)
           t == Sent(after.type, before.type, kc.type)
           h == Sent(after.endpoint.host, before.endpoint.host, kc.endpoint.host)
           p == Sent(after.endpoint.port, before.endpoint.port, kc.endpoint.port)
           r == Sent(after.ready, before.ready, kc.ready)
           x == Sent(after.failed, before.failed, kc.failed)
           y == Sent(after.phase, before.phase, kc.phase)
           e == [host |-> h, port |-> p]
<1>2. /\ f \subseteq Finalizers /\ t \in ServiceTypes \cup {""}
      /\ h \in Hosts \cup {NoHost} /\ p \in Ports \cup {0}
      /\ r \in BOOLEAN /\ x \in BOOLEAN /\ y \in Phases
  BY <1>1, ClusterFields, EndpointFields DEF Sent
<1>3. MergeSpec(kc) = [kc EXCEPT !.fins = f, !.type = t, !.endpoint = e]
  BY <1>1 DEF MergeSpec, Clusters
<1>4. MergeStatus(kc) = [kc EXCEPT !.ready = r, !.failed = x, !.phase = y]
  BY <1>1 DEF MergeStatus, Clusters
<1> HIDE DEF f, t, h, p, r, x, y
<1>5. e \in Endpoints /\ e.host = h /\ e.port = p
  BY <1>2 DEF Endpoints
<1> HIDE DEF e
<1>6. /\ MergeSpec(kc) \in Clusters
      /\ MergeSpec(kc).exists = kc.exists /\ MergeSpec(kc).deleting = kc.deleting
      /\ MergeSpec(kc).fins = f /\ MergeSpec(kc).type = t
      /\ MergeSpec(kc).endpoint = e
      /\ MergeSpec(kc).ready = kc.ready /\ MergeSpec(kc).failed = kc.failed
      /\ MergeSpec(kc).phase = kc.phase
  <2>1. MergeSpec(kc) = [exists |-> kc.exists, deleting |-> kc.deleting, fins |-> f, type |-> t,
                         endpoint |-> e, ready |-> kc.ready, failed |-> kc.failed,
                         phase |-> kc.phase]
    BY <1>1, <1>3 DEF Clusters
  <2>2. MergeSpec(kc) \in Clusters
    <3>1. /\ kc.exists \in BOOLEAN /\ kc.deleting \in BOOLEAN /\ kc.ready \in BOOLEAN
          /\ kc.failed \in BOOLEAN /\ kc.phase \in Phases
      BY <1>1, ClusterFields
    <3>2. f \in SUBSET Finalizers /\ t \in ServiceTypes \cup {""} /\ e \in Endpoints
      BY <1>2, <1>5
    <3>3. [exists |-> kc.exists, deleting |-> kc.deleting, fins |-> f, type |-> t,
           endpoint |-> e, ready |-> kc.ready, failed |-> kc.failed,
           phase |-> kc.phase] \in Clusters
      BY <3>1, <3>2, ClusterRecord
    <3> QED BY <2>1, <3>3
  <2> QED BY <2>1, <2>2
<1>7. /\ MergeStatus(kc) \in Clusters
      /\ MergeStatus(kc).exists = kc.exists /\ MergeStatus(kc).deleting = kc.deleting
      /\ MergeStatus(kc).fins = kc.fins /\ MergeStatus(kc).type = kc.type
      /\ MergeStatus(kc).endpoint = kc.endpoint
      /\ MergeStatus(kc).ready = r /\ MergeStatus(kc).failed = x
      /\ MergeStatus(kc).phase = y
  BY <1>1, <1>2, <1>4 DEF Clusters
<1> QED BY <1>5, <1>6, <1>7 DEF f, t, h, p, r, x, y

(* The first patch is left out, fails and will be retried, or is merged;   *)
(* again stays set.                                                        *)
LEMMA PatchCases ==
  ASSUME TypeOK, Patch
  PROVE  /\ pc = "patch" /\ pc' = "patchStatus"
         /\ UNCHANGED <<svc, cKC, cSvc, owned, paused, before, after, queued>>
         /\ kc' \in Clusters /\ again' \in BOOLEAN /\ faults' \in 0 .. MaxFaults
         /\ again => again'
         /\ \/ ~SpecChanged /\ UNCHANGED kc
            \/ UNCHANGED kc /\ again'
            \/ SpecChanged /\ SpecAccepted /\ kc' = Settle(MergeSpec(kc))
<1>1. /\ pc = "patch" /\ pc' = "patchStatus"
      /\ UNCHANGED <<svc, cKC, cSvc, owned, paused, before, after, queued>>
      /\ \/ ~SpecChanged /\ UNCHANGED <<kc, again, faults>>
         \/ /\ SpecChanged
            /\ \E o \in Outcomes :
                 /\ Outcome(o)
                 /\ kc' = IF o # "refused" /\ SpecAccepted THEN Settle(MergeSpec(kc)) ELSE kc
                 /\ again' = (again \/ o # "ok" \/ ~SpecAccepted)
  BY DEF Patch
<1>2. kc \in Clusters /\ again \in BOOLEAN /\ faults \in 0 .. MaxFaults
  BY DEF TypeOK
<1>3. CASE ~SpecChanged /\ UNCHANGED <<kc, again, faults>>
  BY <1>1, <1>2, <1>3
<1>4. ASSUME SpecChanged, NEW o \in Outcomes, Outcome(o),
             kc' = IF o # "refused" /\ SpecAccepted THEN Settle(MergeSpec(kc)) ELSE kc,
             again' = (again \/ o # "ok" \/ ~SpecAccepted)
      PROVE  /\ kc' \in Clusters /\ again' \in BOOLEAN /\ faults' \in 0 .. MaxFaults
             /\ again => again'
             /\ \/ UNCHANGED kc /\ again'
                \/ SpecAccepted /\ kc' = Settle(MergeSpec(kc))
  <2>1. Settle(MergeSpec(kc)) \in Clusters
    BY MergeFields, SettleFields
  <2>2. faults' \in 0 .. MaxFaults
    BY <1>4, OutcomeType
  <2> QED BY <1>2, <1>4, <2>1, <2>2
<1> QED BY <1>1, <1>3, <1>4

(* The second patch, likewise: what fails, and what was to be tried again, *)
(* is queued.                                                              *)
LEMMA PatchStatusCases ==
  ASSUME TypeOK, PatchStatus
  PROVE  /\ pc = "patchStatus" /\ Forget
         /\ UNCHANGED <<svc, cKC, cSvc, owned, paused>>
         /\ kc' \in Clusters /\ queued' \in BOOLEAN /\ faults' \in 0 .. MaxFaults
         /\ queued \/ again => queued'
         /\ \/ ~StatusChanged /\ UNCHANGED kc
            \/ UNCHANGED kc /\ queued'
            \/ StatusChanged /\ kc.exists /\ kc' = MergeStatus(kc)
<1>1. /\ pc = "patchStatus" /\ Forget
      /\ UNCHANGED <<svc, cKC, cSvc, owned, paused>>
      /\ \/ ~StatusChanged /\ queued' = (queued \/ again) /\ UNCHANGED <<kc, faults>>
         \/ /\ StatusChanged
            /\ \E o \in Outcomes :
                 /\ Outcome(o)
                 /\ kc' = IF o # "refused" /\ kc.exists THEN MergeStatus(kc) ELSE kc
                 /\ queued' = (queued \/ again \/ o # "ok" \/ ~kc.exists)
  BY DEF PatchStatus
<1>2. kc \in Clusters /\ again \in BOOLEAN /\ queued \in BOOLEAN /\ faults \in 0 .. MaxFaults
  BY DEF TypeOK
<1>3. CASE ~StatusChanged /\ queued' = (queued \/ again) /\ UNCHANGED <<kc, faults>>
  BY <1>1, <1>2, <1>3
<1>4. ASSUME StatusChanged, NEW o \in Outcomes, Outcome(o),
             kc' = IF o # "refused" /\ kc.exists THEN MergeStatus(kc) ELSE kc,
             queued' = (queued \/ again \/ o # "ok" \/ ~kc.exists)
      PROVE  /\ kc' \in Clusters /\ queued' \in BOOLEAN /\ faults' \in 0 .. MaxFaults
             /\ queued \/ again => queued'
             /\ \/ UNCHANGED kc /\ queued'
                \/ kc.exists /\ kc' = MergeStatus(kc)
  <2>1. MergeStatus(kc) \in Clusters
    BY MergeFields
  <2>2. faults' \in 0 .. MaxFaults
    BY <1>4, OutcomeType
  <2> QED BY <1>2, <1>4, <2>1, <2>2
<1> QED BY <1>1, <1>3, <1>4

-----------------------------------------------------------------------------
(* What everybody else does.                                               *)

(* A deletion marks the cluster or removes it; garbage collection takes    *)
(* the finalizer it waited for.                                            *)
Marks ==
  /\ kc.exists /\ ~kc.deleting
  /\ kc' = GoneCluster
     \/ /\ kc'.exists /\ kc'.deleting /\ kc'.endpoint = kc.endpoint
        /\ kc'.ready = kc.ready /\ kc'.failed = kc.failed

Collects ==
  /\ kc.deleting /\ "foreground" \in kc.fins
  /\ kc' = GoneCluster
     \/ /\ kc'.exists = kc.exists /\ kc'.deleting /\ kc'.endpoint = kc.endpoint
        /\ kc'.fins = kc.fins \ {"foreground"}
        /\ kc'.ready = kc.ready /\ kc'.failed = kc.failed

Deletion ==
  /\ kc' \in Clusters
  /\ Marks \/ Collects
  /\ UNCHANGED <<svc, cKC, cSvc, owned, paused, local, queued, faults>>

LEMMA DeletionCases ==
  ASSUME TypeOK, CollectCluster \/ \E p \in Deletions : DeleteCluster(p)
  PROVE  Deletion
<1>0. kc \in Clusters
  BY DEF TypeOK
<1>1. CASE CollectCluster
  <2> DEFINE m == [kc EXCEPT !.fins = @ \ {"foreground"}]
  <2>1. /\ m \in Clusters /\ m.exists = kc.exists /\ m.deleting = kc.deleting
        /\ m.fins = kc.fins \ {"foreground"}
        /\ m.endpoint = kc.endpoint /\ m.ready = kc.ready /\ m.failed = kc.failed
    BY <1>0 DEF Clusters
  <2>2. /\ kc.deleting /\ "foreground" \in kc.fins /\ kc' = Settle(m)
        /\ UNCHANGED <<svc, cKC, cSvc, owned, paused, local, queued, faults>>
    BY <1>1 DEF CollectCluster
  <2> HIDE DEF m
  <2>3. kc' \in Clusters /\ (kc' = m \/ kc' = GoneCluster)
    BY <2>1, <2>2, SettleFields
  <2> QED BY <2>1, <2>2, <2>3 DEF Deletion, Collects
<1>2. ASSUME NEW p \in Deletions, DeleteCluster(p) PROVE Deletion
  <2> DEFINE f == IF p = "background" THEN kc.fins \ {"foreground"} ELSE kc.fins
             m == [kc EXCEPT !.deleting = TRUE, !.fins = f]
  <2>1. f \subseteq Finalizers
    BY <1>0, ClusterFields
  <2>2. kc' = Settle(m)
    BY <1>0, <1>2 DEF DeleteCluster, Clusters
  <2> HIDE DEF f
  <2>3. /\ m \in Clusters /\ m.exists = kc.exists /\ m.deleting = TRUE
        /\ m.endpoint = kc.endpoint /\ m.ready = kc.ready /\ m.failed = kc.failed
    BY <1>0, <2>1 DEF Clusters
  <2>4. /\ kc.exists /\ ~kc.deleting
        /\ UNCHANGED <<svc, cKC, cSvc, owned, paused, local, queued, faults>>
    BY <1>2 DEF DeleteCluster
  <2> HIDE DEF m
  <2>5. kc' \in Clusters /\ (kc' = m \/ kc' = GoneCluster)
    BY <2>2, <2>3, SettleFields
  <2> QED BY <2>3, <2>4, <2>5 DEF Deletion, Marks
<1> QED BY <1>1, <1>2

(* What happens to the Service behind the controller's back.               *)
Provides ==
  /\ svc.owner = "self" /\ svc.type = "LoadBalancer" /\ svc.host = NoHost
  /\ svc'.owner = "self" /\ svc'.type = svc.type /\ svc'.port = svc.port
  /\ svc'.host # NoHost

Drops ==
  /\ svc.owner = "self" /\ svc' = NoService /\ queued' = TRUE
  /\ "service" \in FaultKinds \/ ~Live

Edits == "service" \in FaultKinds /\ svc.owner = "self" /\ svc'.owner = "self"

Leaves == svc.owner = "other" /\ svc' = NoService

ServiceStep ==
  /\ svc' \in Services
  /\ Provides \/ Drops \/ Edits \/ Leaves
  /\ queued' = TRUE \/ UNCHANGED queued
  /\ faults' \in 0 .. MaxFaults
  /\ ServiceChanges

LEMMA ServiceCases ==
  ASSUME TypeOK,
         LoadBalancerProvisioned \/ ServiceLost \/ ServiceEdited \/ ForeignGoes \/ CollectService
  PROVE  ServiceStep
<1>0. svc \in Services /\ faults \in 0 .. MaxFaults
  BY DEF TypeOK
<1>1. CASE LoadBalancerProvisioned
  <2>1. PICK h \in Hosts : svc' = [svc EXCEPT !.host = h]
    BY <1>1 DEF LoadBalancerProvisioned
  <2>2. h # NoHost
    BY EndpointsAssumption
  <2>3. /\ svc' \in Services /\ svc'.host = h /\ svc'.owner = svc.owner
        /\ svc'.type = svc.type /\ svc'.port = svc.port
    BY <1>0, <2>1 DEF Services
  <2> QED BY <1>0, <1>1, <2>2, <2>3 DEF LoadBalancerProvisioned, ServiceStep, Provides
<1>2. CASE ServiceLost
  BY <1>2, FaultType, ObjectsType DEF ServiceLost, Fault, Enqueue, ServiceStep, Drops
<1>3. CASE ServiceEdited
  <2>1. \/ \E p \in Ports \cup {0} : svc' = [svc EXCEPT !.port = p]
        \/ \E h \in Hosts : svc' = [svc EXCEPT !.host = h]
    BY <1>3 DEF ServiceEdited
  <2>2. svc' \in Services /\ svc'.owner = svc.owner
    BY <1>0, <2>1 DEF Services
  <2> QED BY <1>3, <2>2, FaultType DEF ServiceEdited, Fault, ServiceStep, Edits
<1>4. CASE ForeignGoes
  BY <1>0, <1>4, ObjectsType DEF ForeignGoes, ServiceStep, Leaves
<1>5. CASE CollectService
  BY <1>0, <1>5, ObjectsType DEF CollectService, Collecting, Live, Enqueue, ServiceStep, Drops
<1> QED BY <1>1, <1>2, <1>3, <1>4, <1>5

(* Every step is one of these.                                             *)
LEMMA NextCases ==
  ASSUME TypeOK, Next
  PROVE  \/ Reconcile \/ createClusterService \/ Patch \/ PatchStatus
         \/ SyncKC \/ SyncService \/ SetOwner \/ Pause \/ Unpause \/ Crash
         \/ Deletion \/ ServiceStep
BY DeletionCases, ServiceCases DEF Next, Controller

-----------------------------------------------------------------------------
(* Type correctness.                                                       *)

TypeInv == TypeOK /\ TypeIsSet

(* The initial state is well-typed: the object that the user created, no   *)
(* copy of it yet, and a Service of nobody or of somebody else.            *)
LEMMA InitType == Init => TypeInv
<1> SUFFICES ASSUME Init PROVE TypeInv
  OBVIOUS
<1>1. kc \in Clusters /\ cKC \in Clusters /\ before \in Clusters /\ after \in Clusters
  BY NewClusterFields, ObjectsType DEF Init
<1>2. svc \in Services /\ cSvc \in Services
  BY ObjectsType DEF Init
<1>3. /\ owned = FALSE /\ paused = FALSE /\ again = FALSE /\ queued = TRUE
      /\ pc = "idle" /\ faults = 0
  BY DEF Init
<1>4. 0 \in 0 .. MaxFaults
  BY BoundAssumption
<1> QED BY <1>1, <1>2, <1>3, <1>4 DEF TypeInv, TypeOK, TypeIsSet

(* Every step keeps every variable well-typed.                             *)
LEMMA NextType == TypeInv /\ [Next]_vars => TypeInv'
<1> SUFFICES ASSUME TypeInv, [Next]_vars PROVE TypeInv'
  OBVIOUS
<1>0. TypeOK /\ TypeIsSet
  BY DEF TypeInv
<1> USE DEF TypeInv, TypeOK, TypeIsSet
<1>1. CASE Reconcile
  <2>1. Take /\ ((~cKC.exists /\ UNCHANGED local) \/ Starts)
    BY <1>0, <1>1, ReconcileCases
  <2>2. CASE UNCHANGED local
    BY <2>1, <2>2 DEF Take, local
  <2>3. CASE Starts
    BY <2>1, <2>3
    DEF Take, Starts, Waits, Releases, Creates, Fails, Retries, Records, Decides
  <2> QED BY <2>1, <2>2, <2>3
<1>2. CASE createClusterService
  BY <1>0, <1>2, CreateCases DEF CreatesService, Decides
<1>3. CASE Patch
  BY <1>0, <1>3, PatchCases
<1>4. CASE PatchStatus
  BY <1>0, <1>4, PatchStatusCases, ObjectsType DEF Forget
<1>5. CASE SyncKC \/ SyncService \/ SetOwner
  BY <1>5 DEF SyncKC, SyncService, SetOwner, ServiceToKubernetesCluster, Enqueue, local
<1>6. CASE Pause \/ Unpause
  BY <1>0, <1>6, FaultType DEF Pause, Unpause, Enqueue, local
<1>7. CASE Crash
  BY <1>0, <1>7, FaultType, ObjectsType DEF Crash, Forget, Enqueue
<1>8. CASE Deletion
  BY <1>8 DEF Deletion, local
<1>9. CASE ServiceStep
  BY <1>9 DEF ServiceStep, ServiceChanges, local
<1>10. CASE UNCHANGED vars
  BY <1>10 DEF vars, local
<1> QED
  BY <1>0, <1>1, <1>2, <1>3, <1>4, <1>5, <1>6, <1>7, <1>8, <1>9, <1>10, NextCases

(* Every reachable state is well-typed.  In particular a Service is never  *)
(* created without a type, although the type may have been left out.       *)
THEOREM TypeInvariant == Spec => []TypeOK
<1>1. TypeInv => TypeOK
  BY DEF TypeInv
<1> QED BY <1>1, InitType, NextType, PTL DEF Spec

(* The same with what it takes to prove it.                                *)
LEMMA TypeInvHolds == Spec => []TypeInv
BY InitType, NextType, PTL DEF Spec

-----------------------------------------------------------------------------
(* Copies of the cluster.                                                  *)

Inv == TypeInv /\ CopiesInv

LEMMA InitCopies == Init => CopiesInv
<1> SUFFICES ASSUME Init PROVE CopiesInv
  OBVIOUS
<1>1. kc.exists /\ ~kc.deleting /\ cKC = kc /\ pc = "idle"
  BY NewClusterFields DEF Init
<1> QED
  BY <1>1 DEF CopiesInv, TypeIsSet, CopiesAreOlder, Older, StepsKeepStatus, GoneIsBlank

(* How the cluster on the API server may change in a step: it stays, it    *)
(* goes, or it goes on with a deletion that is not taken back.             *)
Ages ==
  \/ UNCHANGED kc
  \/ kc.exists /\ kc' = GoneCluster
  \/ /\ kc.exists /\ kc'.exists
     /\ kc.deleting => kc'.deleting /\ kc'.fins \subseteq kc.fins

LEMMA NextAges ==
  ASSUME TypeInv, GoneIsBlank, Next
  PROVE  Ages
<1>0. TypeOK /\ TypeIsSet
  BY DEF TypeInv
<1>1. CASE Patch
  <2>1. kc.exists => kc.deleting \in BOOLEAN
    BY <1>0, ClusterFields DEF TypeOK
  <2>2. CASE UNCHANGED kc
    BY <2>2 DEF Ages
  <2>3. CASE SpecAccepted /\ kc' = Settle(MergeSpec(kc))
    <3>1. kc' = MergeSpec(kc) \/ kc' = GoneCluster
      BY <2>3, <1>0, MergeFields, SettleFields
    <3> QED BY <1>0, <2>3, <3>1, MergeFields DEF SpecAccepted, Ages
  <2> QED BY <1>0, <1>1, <2>2, <2>3, PatchCases
<1>2. CASE PatchStatus
  BY <1>0, <1>2, PatchStatusCases, MergeFields DEF Ages
<1>3. CASE Deletion
  <2>1. ~GoneCluster.deleting
    BY ObjectsType
  <2>2. CASE Marks
    BY <1>3, <2>2 DEF Marks, Ages
  <2>3. CASE Collects
    BY <1>3, <2>1, <2>3 DEF Collects, Ages, GoneIsBlank
  <2> QED BY <1>3, <2>2, <2>3 DEF Deletion
<1>4. CASE Reconcile
  BY <1>0, <1>4, ReconcileCases DEF Take, Ages
<1>5. CASE createClusterService
  BY <1>0, <1>5, CreateCases DEF Ages
<1>6. CASE SyncKC \/ SyncService \/ SetOwner \/ Pause \/ Unpause \/ Crash \/ ServiceStep
  BY <1>6 DEF SyncKC, SyncService, SetOwner, Pause, Unpause, Crash, ServiceStep,
              ServiceChanges, Ages
<1> QED BY <1>0, <1>1, <1>2, <1>3, <1>4, <1>5, <1>6, NextCases

(* An earlier copy stays one.                                              *)
LEMMA OlderStays ==
  ASSUME Ages, NEW c, Older(c)
  PROVE  kc'.exists => c.exists /\ (c.deleting => kc'.deleting /\ kc'.fins \subseteq c.fins)
<1>1. ~GoneCluster.exists
  BY ObjectsType
<1> QED BY <1>1 DEF Ages, Older

LEMMA NextCopies == Inv /\ [Next]_vars => CopiesInv'
<1> SUFFICES ASSUME Inv, [Next]_vars PROVE CopiesInv'
  OBVIOUS
<1>0. /\ TypeInv /\ TypeOK /\ TypeIsSet /\ CopiesAreOlder /\ StepsKeepStatus /\ GoneIsBlank
      /\ TypeIsSet'
  BY NextType DEF Inv, TypeInv, CopiesInv
<1>1. CASE UNCHANGED vars
  BY <1>0, <1>1
  DEF CopiesInv, CopiesAreOlder, Older, StepsKeepStatus, GoneIsBlank, vars, local
<1>2. CASE Next
  <2>1. Ages
    BY <1>0, <1>2, NextAges
  <2>2. GoneIsBlank'
    BY <1>0, <2>1 DEF GoneIsBlank, Ages
  <2>3. (UNCHANGED cKC \/ (cKC' = kc /\ UNCHANGED kc)) => Older(cKC)'
    <3>1. CASE UNCHANGED cKC
      BY <1>0, <2>1, <3>1, OlderStays DEF CopiesAreOlder, Older
    <3>2. CASE cKC' = kc /\ UNCHANGED kc
      BY <1>0, <3>2, ClusterFields DEF Older, TypeOK
    <3> QED BY <3>1, <3>2
  <2>4. pc # "idle" /\ UNCHANGED before => before'.exists /\ Older(before)'
    BY <1>0, <2>1, OlderStays DEF CopiesAreOlder, Older
  <2>5. CASE Reconcile
    <3>1. Take /\ ((~cKC.exists /\ UNCHANGED local) \/ Starts)
      BY <1>0, <2>5, ReconcileCases
    <3>2. CASE UNCHANGED local
      BY <1>0, <2>2, <2>3, <3>1, <3>2
      DEF CopiesInv, CopiesAreOlder, StepsKeepStatus, Take, local
    <3>3. CASE Starts
      <4>1. before' = cKC /\ cKC.exists /\ UNCHANGED <<kc, cKC>>
        BY <3>1, <3>3 DEF Starts, Take
      <4>2. before'.exists /\ Older(before)'
        BY <1>0, <4>1 DEF CopiesAreOlder, Older
      <4>3. StepsKeepStatus'
        <5>1. cKC \in Clusters /\ after' \in Clusters
          BY <1>0, <3>3 DEF TypeOK, Starts
        <5>2. /\ cKC.ready \in BOOLEAN /\ cKC.failed \in BOOLEAN
              /\ after'.ready \in BOOLEAN /\ after'.failed \in BOOLEAN
          BY <5>1, ClusterFields
        <5>3. /\ cKC.ready => after'.ready
              /\ cKC.failed => after'.failed
              /\ after'.failed = cKC.failed \/ after'.ready = cKC.ready
          BY <3>3, <5>2
          DEF Starts, Waits, Releases, Creates, Fails, Retries, Records, Keeps
        <5> QED BY <3>3, <4>1, <5>3 DEF Starts, StepsKeepStatus
      <4> QED BY <1>0, <2>2, <2>3, <4>1, <4>2, <4>3 DEF CopiesInv, CopiesAreOlder, Older
    <3> QED BY <3>1, <3>2, <3>3
  <2>6. CASE createClusterService
    <3>1. /\ pc # "idle" /\ UNCHANGED <<before, cKC>>
          /\ after'.exists = after.exists /\ after'.deleting = after.deleting
          /\ after'.ready = after.ready /\ after'.failed = after.failed
      BY <1>0, <2>6, CreateCases
    <3>2. StepsKeepStatus'
      BY <1>0, <3>1 DEF StepsKeepStatus
    <3> QED BY <1>0, <2>2, <2>3, <2>4, <3>1, <3>2 DEF CopiesInv, CopiesAreOlder, Older
  <2>7. CASE Patch
    <3>1. pc # "idle" /\ UNCHANGED <<before, after, cKC>>
      BY <1>0, <2>7, PatchCases
    <3> QED
      BY <1>0, <2>2, <2>3, <2>4, <3>1 DEF CopiesInv, CopiesAreOlder, Older, StepsKeepStatus
  <2>8. CASE PatchStatus \/ Crash
    <3>1. pc' = "idle" /\ (UNCHANGED cKC \/ (cKC' = kc /\ UNCHANGED kc))
      BY <1>0, <2>8, PatchStatusCases DEF Crash, Forget
    <3> QED BY <1>0, <2>2, <2>3, <3>1 DEF CopiesInv, CopiesAreOlder, Older, StepsKeepStatus
  <2>9. CASE SyncKC \/ SyncService \/ SetOwner \/ Pause \/ Unpause \/ Deletion \/ ServiceStep
    <3>1. /\ UNCHANGED <<pc, before, after>>
          /\ UNCHANGED cKC \/ (cKC' = kc /\ UNCHANGED kc)
      BY <2>9 DEF SyncKC, SyncService, SetOwner, Pause, Unpause, Deletion, ServiceStep,
                  ServiceChanges, local
    <3> QED
      BY <1>0, <2>2, <2>3, <2>4, <3>1 DEF CopiesInv, CopiesAreOlder, Older, StepsKeepStatus
  <2> QED BY <1>0, <1>2, <2>5, <2>6, <2>7, <2>8, <2>9, NextCases
<1> QED BY <1>1, <1>2

(* The copies a reconciliation works on are of an earlier moment; a        *)
(* deletion, Ready and a failure are not taken back in them; the object    *)
(* that has gone stays gone.                                               *)
THEOREM CopiesInvariant == Spec => []CopiesInv
<1>1. Init => Inv
  BY InitType, InitCopies DEF Inv
<1>2. Inv /\ [Next]_vars => Inv'
  BY NextType, NextCopies DEF Inv
<1>3. Inv => CopiesInv
  BY DEF Inv
<1> QED BY <1>1, <1>2, <1>3, PTL DEF Spec

-----------------------------------------------------------------------------
(* No wake-up is lost.                                                     *)

WInv == Inv /\ WakeupInv

LEMMA InitWakeup == Init => WakeupInv
<1> SUFFICES ASSUME Init PROVE WakeupInv
  OBVIOUS
<1>1. pc = "idle" /\ queued /\ cSvc = svc
  BY DEF Init
<1> QED
  BY <1>1
  DEF WakeupInv, UnqueuedIsCurrent, SpecIsSent, PhaseIsDecided, PhaseIsWritten,
      ForeignIsFirst, ClusterIsDecided

(* A patch that is merged shows: the cluster is not what was read.         *)
LEMMA MergeShows ==
  ASSUME TypeOK, before.exists, SpecChanged, NEW k, k = Settle(MergeSpec(kc))
  PROVE  k # before
<1>1. k = MergeSpec(kc) \/ k = GoneCluster
  BY MergeFields, SettleFields
<1>2. CASE k = GoneCluster
  BY <1>2, ObjectsType
<1>3. CASE k = MergeSpec(kc)
  <2>1. CASE after.fins # before.fins
    BY <1>3, <2>1, MergeFields DEF Sent
  <2>2. CASE after.type # before.type
    BY <1>3, <2>2, MergeFields DEF Sent
  <2>3. CASE after.endpoint # before.endpoint
    <3>1. after.endpoint.host # before.endpoint.host \/ after.endpoint.port # before.endpoint.port
      <4>1. after.endpoint \in Endpoints /\ before.endpoint \in Endpoints
        BY ClusterFields DEF TypeOK
      <4> QED BY <2>3, <4>1, EndpointFields
    <3> QED BY <1>3, <3>1, MergeFields DEF Sent
  <2> QED BY <2>1, <2>2, <2>3 DEF SpecChanged
<1> QED BY <1>1, <1>2, <1>3

(* A deletion shows in the same way.                                       *)
LEMMA DeletionShows ==
  ASSUME TypeOK, GoneIsBlank, Deletion, kc'.exists, NEW c, Older(c)
  PROVE  kc' # c
<1>1. ~GoneCluster.exists /\ ~GoneCluster.deleting
  BY ObjectsType
<1>2. CASE Marks
  BY <1>1, <1>2 DEF Marks, Older
<1>3. CASE Collects
  <2>1. kc.exists
    BY <1>1, <1>3 DEF Collects, GoneIsBlank
  <2>2. kc'.deleting /\ "foreground" \notin kc'.fins /\ "foreground" \in kc.fins
    BY <1>1, <1>3 DEF Collects
  <2> QED BY <2>1, <2>2 DEF Older
<1> QED BY <1>2, <1>3 DEF Deletion

(* When the reconciliation ends, nothing is queued and the cache shows the *)
(* cluster as it is, then the reconciliation had nothing to change.        *)
LEMMA NothingToChange ==
  ASSUME WInv, PatchStatus, ~queued', cKC = kc'
  PROVE  kc' = after /\ ~queued /\ ~again
<1>0. TypeOK /\ StepsKeepStatus /\ UnqueuedIsCurrent /\ SpecIsSent
  BY DEF WInv, Inv, TypeInv, CopiesInv, WakeupInv
<1>1. /\ pc = "patchStatus" /\ ~queued /\ ~again
      /\ \/ ~StatusChanged /\ UNCHANGED kc
         \/ StatusChanged /\ kc' = MergeStatus(kc)
  BY <1>0, PatchStatusCases
<1>2. before = kc'
  BY <1>0, <1>1 DEF UnqueuedIsCurrent
<1>3. ~StatusChanged /\ UNCHANGED kc
  <2>1. ASSUME StatusChanged, kc' = MergeStatus(kc) PROVE FALSE
    BY <1>0, <1>2, <2>1, MergeFields DEF StatusChanged, Sent
  <2> QED BY <1>1, <2>1
<1>4. ~SpecChanged
  BY <1>0, <1>1, <1>2, <1>3 DEF SpecIsSent
<1>5. after = before
  <2>1. after \in Clusters /\ before \in Clusters
    BY <1>0 DEF TypeOK
  <2>2. /\ after.exists = before.exists /\ after.deleting = before.deleting
        /\ after.fins = before.fins /\ after.type = before.type
        /\ after.endpoint = before.endpoint /\ after.ready = before.ready
        /\ after.failed = before.failed /\ after.phase = before.phase
    BY <1>0, <1>1, <1>3, <1>4 DEF StepsKeepStatus, SpecChanged, StatusChanged
  <2> QED BY <2>1, <2>2, ClusterExtensional
<1> QED BY <1>1, <1>2, <1>5

(* A reconciliation that starts works on the cached copy and decides       *)
(* about the cached Service.                                               *)
LEMMA ReconcileWakeup == ASSUME WInv, Reconcile PROVE WakeupInv'
<1>0. TypeOK /\ CopiesAreOlder /\ WakeupInv
  BY DEF WInv, Inv, TypeInv, CopiesInv
<1>1. Take /\ ((~cKC.exists /\ UNCHANGED local) \/ Starts)
  BY <1>0, ReconcileCases
<1>2. UNCHANGED <<kc, svc, cKC, cSvc, owned, paused>> /\ pc = "idle"
  BY <1>1 DEF Take
<1>3. ForeignIsFirst'
  BY <1>0, <1>2 DEF WakeupInv, ForeignIsFirst
<1>4. CASE ~cKC.exists /\ UNCHANGED local
  <2>1. pc' = "idle" /\ ~kc'.exists
    BY <1>0, <1>2, <1>4 DEF CopiesAreOlder, Older, local
  <2> QED
    BY <1>3, <2>1
    DEF WakeupInv, UnqueuedIsCurrent, SpecIsSent, PhaseIsDecided, PhaseIsWritten,
        ClusterIsDecided, Live
<1>5. CASE Starts
  <2>1. before' = cKC' /\ pc' # "idle" /\ pc' # "patchStatus"
    BY <1>2, <1>5
    DEF Starts, Waits, Releases, Creates, Fails, Retries, Records, Decides
  <2>2. PhaseIsDecided'
    BY <1>5
    DEF Starts, Waits, Releases, Creates, Fails, Retries, Records, Decides, PhaseIsDecided
  <2>3. ASSUME Live, owned, ~paused
        PROVE  \/ pc' = "createService" /\ cSvc.owner = "none"
               \/ pc' = "patch" /\ (again' \/ after'.failed \/ Agrees(after, cSvc)')
    <3>1. ~cKC.deleting
      BY <1>0, <2>3 DEF Live, CopiesAreOlder, Older
    <3>2. Creates \/ Fails \/ Retries \/ Records
      BY <1>5, <2>3, <3>1 DEF Starts, Waits, Releases
    <3>3. Records => pc' = "patch" /\ (after'.failed \/ Agrees(after, cSvc)')
      BY <1>2 DEF Records, Normal, Decides, Agrees, Serves
    <3> QED BY <3>2, <3>3 DEF Creates, Fails, Retries, Decides
  <2>4. ClusterIsDecided'
    BY <1>2, <2>1, <2>3 DEF ClusterIsDecided, Live
  <2> QED
    BY <1>3, <2>1, <2>2, <2>4
    DEF WakeupInv, UnqueuedIsCurrent, SpecIsSent, PhaseIsWritten
<1> QED BY <1>1, <1>4, <1>5

(* A Service that has been created is there and has not been seen, or the  *)
(* request goes back to the queue.                                         *)
LEMMA CreateWakeup == ASSUME WInv, createClusterService PROVE WakeupInv'
<1>0. TypeOK /\ TypeIsSet /\ WakeupInv
  BY DEF WInv, Inv, TypeInv
<1>1. /\ pc = "createService" /\ Decides
      /\ UNCHANGED <<kc, cKC, cSvc, owned, paused, before, queued>>
      /\ (UNCHANGED svc /\ again' = TRUE) \/ CreatesService
  BY <1>0, CreateCases
<1>2. pc' = "patch" /\ PhaseIsDecided'
  BY <1>1 DEF Decides, PhaseIsDecided
<1>3. ForeignIsFirst'
  BY <1>0, <1>1 DEF WakeupInv, ForeignIsFirst, CreatesService
<1>4. ClusterIsDecided'
  BY <1>0, <1>1, <1>2 DEF WakeupInv, ClusterIsDecided, CreatesService, CreatedUnseen, Live
<1> QED
  BY <1>0, <1>1, <1>2, <1>3, <1>4
  DEF WakeupInv, UnqueuedIsCurrent, SpecIsSent, PhaseIsWritten

(* A patch that is sent shows in the cluster or is tried again.            *)
LEMMA PatchWakeup == ASSUME WInv, Patch PROVE WakeupInv'
<1>0. TypeInv /\ TypeOK /\ CopiesAreOlder /\ GoneIsBlank /\ WakeupInv
  BY DEF WInv, Inv, TypeInv, CopiesInv
<1>1. /\ pc = "patch" /\ pc' = "patchStatus"
      /\ UNCHANGED <<svc, cKC, cSvc, owned, paused, before, after, queued>>
      /\ again => again'
      /\ \/ ~SpecChanged /\ UNCHANGED kc
         \/ UNCHANGED kc /\ again'
         \/ SpecChanged /\ SpecAccepted /\ kc' = Settle(MergeSpec(kc))
  BY <1>0, PatchCases
<1>2. SpecIsSent'
  <2>1. SpecChanged' = SpecChanged
    BY <1>1 DEF SpecChanged
  <2>2. before.exists
    BY <1>0, <1>1 DEF CopiesAreOlder
  <2>3. SpecChanged /\ kc' = Settle(MergeSpec(kc)) => kc' # before
    BY <1>0, <2>2, MergeShows
  <2> QED BY <1>1, <2>1, <2>3 DEF SpecIsSent
<1>3. Live' => Live
  <2>1. Ages
    BY <1>0, NextAges DEF Next, Controller
  <2> QED BY <2>1, ObjectsType DEF Ages, Live
<1>4. ClusterIsDecided'
  BY <1>0, <1>1, <1>3 DEF WakeupInv, ClusterIsDecided, Agrees, CreatedUnseen
<1>5. PhaseIsDecided'
  BY <1>0, <1>1 DEF WakeupInv, PhaseIsDecided, PhaseIsSaid
<1> QED
  BY <1>0, <1>1, <1>2, <1>4, <1>5
  DEF WakeupInv, UnqueuedIsCurrent, PhaseIsWritten, ForeignIsFirst

(* The reconciliation that ends leaves a cluster that is decided, a copy   *)
(* in the cache that is not, or a request in the queue.                    *)
LEMMA PatchStatusWakeup == ASSUME WInv, PatchStatus PROVE WakeupInv'
<1>0. TypeInv /\ TypeOK /\ GoneIsBlank /\ WakeupInv
  BY DEF WInv, Inv, TypeInv, CopiesInv
<1>1. pc = "patchStatus" /\ pc' = "idle" /\ UNCHANGED <<svc, cKC, cSvc, owned, paused>>
  BY <1>0, PatchStatusCases DEF Forget
<1>2. ASSUME ~queued', cKC' = kc'
      PROVE  kc' = after /\ ~queued /\ ~again
  BY <1>1, <1>2, NothingToChange
<1>3. Live' => Live
  <2>1. Ages
    BY <1>0, NextAges DEF Next, Controller
  <2> QED BY <2>1, ObjectsType DEF Ages, Live
<1>4. PhaseIsWritten'
  <2>1. ASSUME ~queued', cKC' = kc' PROVE PhaseIsSaid(kc)'
    <3>1. PhaseIsSaid(after)
      BY <1>0, <1>1 DEF WakeupInv, PhaseIsDecided
    <3> QED BY <1>2, <2>1, <3>1 DEF PhaseIsSaid
  <2> QED BY <2>1 DEF PhaseIsWritten
<1>5. ClusterIsDecided'
  <2>1. ASSUME Live', owned', ~paused', ~queued', cKC' = kc'
        PROVE  kc'.failed \/ Agrees(kc, cSvc)' \/ CreatedUnseen'
    <3>1. after.failed \/ Agrees(after, cSvc) \/ CreatedUnseen
      BY <1>0, <1>1, <1>2, <1>3, <2>1 DEF WakeupInv, ClusterIsDecided
    <3> QED BY <1>1, <1>2, <2>1, <3>1 DEF Agrees, CreatedUnseen
  <2> QED BY <1>1, <2>1 DEF ClusterIsDecided
<1> QED
  BY <1>0, <1>1, <1>4, <1>5
  DEF WakeupInv, UnqueuedIsCurrent, SpecIsSent, PhaseIsDecided, ForeignIsFirst

(* The steps that others take are noticed: they queue a request, leave a   *)
(* cache behind, or end the cluster.                                       *)
LEMMA OthersWakeup ==
  ASSUME WInv,
         \/ SyncKC \/ SyncService \/ SetOwner \/ Pause \/ Unpause \/ Crash
         \/ Deletion \/ ServiceStep \/ UNCHANGED vars
  PROVE  WakeupInv'
<1>0. /\ TypeOK /\ CopiesAreOlder /\ GoneIsBlank
      /\ UnqueuedIsCurrent /\ SpecIsSent /\ PhaseIsDecided /\ PhaseIsWritten
      /\ ForeignIsFirst /\ ClusterIsDecided
  BY DEF WInv, Inv, TypeInv, CopiesInv, WakeupInv
<1> USE DEF WakeupInv, UnqueuedIsCurrent, SpecIsSent, PhaseIsDecided, PhaseIsWritten,
            ForeignIsFirst, ClusterIsDecided, local
<1>1. ASSUME UNCHANGED <<kc, before, after, pc, again>>
      PROVE  SpecIsSent' /\ PhaseIsDecided'
  BY <1>0, <1>1 DEF SpecChanged, PhaseIsSaid
<1>2. CASE SyncKC
  BY <1>0, <1>1, <1>2 DEF SyncKC, Enqueue
<1>3. CASE SyncService
  <2>1. /\ UNCHANGED <<kc, svc, cKC, owned, paused, pc, before, after, again>>
        /\ cSvc' = svc
        /\ ~queued' => ~queued /\ cSvc.owner # "self" /\ svc.owner # "self"
    BY <1>3 DEF SyncService, ServiceToKubernetesCluster
  <2>2. svc.owner \in {"none", "self", "other"}
    BY <1>0 DEF TypeOK, Services
  <2>3. ClusterIsDecided'
    BY <1>0, <2>1, <2>2 DEF Agrees, CreatedUnseen, Live
  <2>4. UnqueuedIsCurrent' /\ PhaseIsWritten'
    BY <1>0, <2>1 DEF PhaseIsSaid
  <2> QED BY <1>0, <1>1, <2>1, <2>3, <2>4
<1>4. CASE SetOwner \/ Unpause
  <2>1. UNCHANGED <<kc, svc, cSvc, pc, before, after, again>> /\ queued'
    BY <1>4 DEF SetOwner, Unpause, Enqueue
  <2> QED BY <1>0, <1>1, <2>1
<1>5. CASE Pause
  <2>1. UNCHANGED <<kc, svc, cKC, cSvc, pc, before, after, again, queued>> /\ paused'
    BY <1>5 DEF Pause
  <2>2. PhaseIsWritten'
    BY <1>0, <2>1 DEF PhaseIsSaid
  <2> QED BY <1>0, <1>1, <2>1, <2>2
<1>6. CASE Crash
  BY <1>6 DEF Crash, Forget, Enqueue
<1>7. CASE Deletion
  <2>1. UNCHANGED <<svc, cKC, cSvc, owned, paused, pc, before, after, again, queued>>
    BY <1>7 DEF Deletion
  <2>2. ~Live'
    BY <1>7, ObjectsType DEF Deletion, Marks, Collects, Live
  <2>3. kc'.exists => cKC # kc'
    BY <1>0, <1>7, DeletionShows DEF CopiesAreOlder
  <2>4. pc # "idle" => before # kc'
    <3>1. CASE kc'.exists
      BY <1>0, <1>7, <3>1, DeletionShows DEF CopiesAreOlder
    <3>2. CASE ~kc'.exists
      BY <1>0, <3>2 DEF CopiesAreOlder
    <3> QED BY <3>1, <3>2
  <2>5. PhaseIsDecided'
    BY <1>0, <2>1 DEF PhaseIsSaid
  <2>6. SpecIsSent' /\ PhaseIsWritten'
    BY <2>1, <2>3, <2>4
  <2> QED BY <1>0, <2>1, <2>2, <2>5, <2>6
<1>8. CASE ServiceStep
  <2>1. /\ UNCHANGED <<kc, cKC, cSvc, owned, paused, pc, before, after, again>>
        /\ ~queued' => ~queued
        /\ svc'.owner # "other"
        /\ svc.owner = "self" /\ ~queued' => svc'.owner = "self"
    BY <1>8, ObjectsType DEF ServiceStep, ServiceChanges, Provides, Drops, Edits, Leaves
  <2>2. ClusterIsDecided'
    BY <1>0, <2>1 DEF Agrees, CreatedUnseen, Live
  <2>3. UnqueuedIsCurrent' /\ PhaseIsWritten'
    BY <1>0, <2>1 DEF PhaseIsSaid
  <2> QED BY <1>0, <1>1, <2>1, <2>2, <2>3
<1>9. CASE UNCHANGED vars
  <2>1. UNCHANGED <<kc, svc, cKC, cSvc, owned, paused, pc, before, after, again, queued>>
    BY <1>9 DEF vars
  <2>2. ClusterIsDecided' /\ PhaseIsWritten'
    BY <1>0, <2>1 DEF Agrees, CreatedUnseen, Live, PhaseIsSaid
  <2> QED BY <1>0, <1>1, <2>1, <2>2
<1> QED BY <1>2, <1>3, <1>4, <1>5, <1>6, <1>7, <1>8, <1>9

LEMMA NextWakeup == WInv /\ [Next]_vars => WInv'
<1> SUFFICES ASSUME WInv, [Next]_vars PROVE WInv'
  OBVIOUS
<1>1. Inv'
  BY NextType, NextCopies DEF WInv, Inv
<1>2. WakeupInv'
  <2>1. CASE Next
    <3>1. TypeOK
      BY DEF WInv, Inv, TypeInv
    <3> QED
      BY <2>1, <3>1, NextCases, ReconcileWakeup, CreateWakeup, PatchWakeup,
         PatchStatusWakeup, OthersWakeup
  <2>2. CASE UNCHANGED vars
    BY <2>2, OthersWakeup
  <2> QED BY <2>1, <2>2
<1> QED BY <1>1, <1>2 DEF WInv

(* At every moment, whatever fails, crashes, is paused or edited: what a   *)
(* reconciliation decided has been written and agrees with the Service it  *)
(* read, or a request is queued, or one will be because a cache is behind. *)
THEOREM WakeupInvariant == Spec => []WakeupInv
<1>1. Init => WInv
  BY InitType, InitCopies, InitWakeup DEF WInv, Inv
<1>2. WInv => WakeupInv
  BY DEF WInv
<1> QED BY <1>1, <1>2, NextWakeup, PTL DEF Spec

(* Nothing is left to do only when Status.Phase says what the rest of the  *)
(* object says: the phase that the two deferred patches write apart from   *)
(* the rest is never left behind.                                          *)
THEOREM PhaseIsSettled == Spec => []PhaseSettles
<1>1. WakeupInv => PhaseSettles
  BY DEF WakeupInv, PhaseIsWritten, PhaseIsSaid, PhaseSettles, Quiescent
<1> QED BY <1>1, WakeupInvariant, PTL

(* Nothing is left to do only when the endpoint is that of the cluster's   *)
(* own Service or a failure has been reported, even when the Service is    *)
(* taken, lost or edited and calls fail while the cluster is reconciled.   *)
THEOREM SettledOnService == Spec => []SettlesOnServiceEndpoint
<1>1. WakeupInv => SettlesOnServiceEndpoint
  BY DEF WakeupInv, ClusterIsDecided, Agrees, CreatedUnseen, Live,
         SettlesOnServiceEndpoint, Quiescent
<1> QED BY <1>1, WakeupInvariant, PTL

-----------------------------------------------------------------------------
(* The endpoint.                                                           *)

EInv == Inv /\ EndpointInv

LEMMA InitEndpoint == Init => EndpointInv
<1> SUFFICES ASSUME Init PROVE EndpointInv
  OBVIOUS
<1>1. cKC = kc /\ pc = "idle" /\ cSvc = svc
  BY DEF Init
<1>2. svc.owner # "self"
  BY ObjectsType DEF Init
<1> QED
  BY <1>1, <1>2
  DEF EndpointInv, ServiceIsSteady, Complete, EndpointsAreBehind, Behind, RecordsService

(* A Service that somebody is pointed to stays as it is while the cluster  *)
(* lives.                                                                  *)
LEMMA ServedStays ==
  ASSUME "service" \notin FaultKinds, TypeInv, GoneIsBlank, Next, Live', NEW e, Served(e)
  PROVE  svc'.owner = "self" /\ svc'.host = svc.host /\ svc'.port = svc.port
<1>0. TypeOK /\ TypeIsSet
  BY DEF TypeInv
<1>1. Live
  <2>1. Ages
    BY NextAges
  <2> QED BY <2>1, ObjectsType DEF Ages, Live
<1>2. svc.owner = "self" /\ svc.host # NoHost
  BY DEF Served
<1>3. CASE UNCHANGED svc
  BY <1>2, <1>3
<1>4. CASE createClusterService
  BY <1>0, <1>2, <1>3, <1>4, CreateCases DEF CreatesService
<1>5. CASE ServiceStep
  BY <1>1, <1>2, <1>5 DEF ServiceStep, Provides, Drops, Edits, Leaves
<1>6. CASE Reconcile
  BY <1>0, <1>3, <1>6, ReconcileCases DEF Take
<1>7. CASE Patch \/ PatchStatus
  BY <1>0, <1>3, <1>7, PatchCases, PatchStatusCases
<1>8. CASE SyncKC \/ SyncService \/ SetOwner \/ Pause \/ Unpause \/ Crash \/ Deletion
  BY <1>3, <1>8 DEF SyncKC, SyncService, SetOwner, Pause, Unpause, Crash, Deletion
<1> QED BY <1>0, <1>4, <1>5, <1>6, <1>7, <1>8, NextCases

(* The Service as the cache shows it is, but for an address that it has    *)
(* been given since, the Service there is.                                 *)
LEMMA NextSteady ==
  ASSUME "service" \notin FaultKinds, EInv, Next
  PROVE  ServiceIsSteady'
<1>0. TypeInv /\ TypeOK /\ TypeIsSet /\ GoneIsBlank /\ ServiceIsSteady
  BY DEF EInv, Inv, TypeInv, CopiesInv, EndpointInv
<1>1. Live' => Live
  <2>1. Ages
    BY <1>0, NextAges
  <2> QED BY <2>1, ObjectsType DEF Ages, Live
<1> USE DEF ServiceIsSteady, Complete
<1>2. ASSUME UNCHANGED <<svc, cSvc>> PROVE ServiceIsSteady'
  BY <1>0, <1>1, <1>2
<1>3. CASE createClusterService
  <2>1. UNCHANGED cSvc /\ (UNCHANGED svc \/ CreatesService)
    BY <1>0, <1>3, CreateCases
  <2>2. CASE CreatesService
    BY <1>0, <1>1, <2>1, <2>2 DEF CreatesService
  <2> QED BY <1>2, <2>1, <2>2
<1>4. CASE ServiceStep
  <2>1. UNCHANGED cSvc /\ (Provides \/ Drops \/ Leaves)
    BY <1>4 DEF ServiceStep, ServiceChanges, Edits
  <2>2. CASE Provides
    BY <1>0, <1>1, <2>1, <2>2 DEF Provides
  <2>3. CASE Drops \/ Leaves
    <3>1. svc'.owner = "none" /\ (Drops => ~Live')
      BY <1>1, <2>3, ObjectsType DEF Drops, Leaves
    <3>2. Leaves /\ Live' => cSvc.owner # "self"
      BY <1>0, <1>1 DEF Leaves
    <3> QED BY <1>0, <2>1, <2>3, <3>1, <3>2
  <2> QED BY <2>1, <2>2, <2>3
<1>5. CASE SyncService \/ Crash
  <2>1. UNCHANGED svc /\ cSvc' = svc
    BY <1>5 DEF SyncService, Crash
  <2> QED BY <1>0, <2>1
<1>6. CASE Reconcile
  BY <1>0, <1>2, <1>6, ReconcileCases DEF Take
<1>7. CASE Patch \/ PatchStatus
  BY <1>0, <1>2, <1>7, PatchCases, PatchStatusCases
<1>8. CASE SyncKC \/ SetOwner \/ Pause \/ Unpause \/ Deletion
  BY <1>2, <1>8 DEF SyncKC, SetOwner, Pause, Unpause, Deletion
<1> QED BY <1>0, <1>3, <1>4, <1>5, <1>6, <1>7, <1>8, NextCases

(* Host and port are patched one by one, into a cluster that may have got  *)
(* an endpoint since it was read: the result is the endpoint the cluster   *)
(* had, or a complete one where it had none; an endpoint that is sent      *)
(* leaves a complete one.                                                  *)
LEMMA MergeEndpoint ==
  ASSUME TypeOK, kc.exists, Behind(before), RecordsService, pc # "idle",
         NEW m, m = MergeSpec(kc).endpoint
  PROVE  /\ \/ m = kc.endpoint
            \/ /\ ~IsZero(m)
               /\ ~kc.deleting => IsZero(kc.endpoint) /\ Served(m)
         /\ after.endpoint # before.endpoint => ~IsZero(m)
<1>1. /\ kc.endpoint \in Endpoints /\ before.endpoint \in Endpoints
      /\ after.endpoint \in Endpoints /\ m \in Endpoints
  BY ClusterFields, MergeFields DEF TypeOK
<1>2. /\ m.host = Sent(after.endpoint.host, before.endpoint.host, kc.endpoint.host)
      /\ m.port = Sent(after.endpoint.port, before.endpoint.port, kc.endpoint.port)
  BY MergeFields
<1>3. ASSUME NEW e \in Endpoints, m.host = e.host, m.port = e.port PROVE m = e
  BY <1>1, <1>3, EndpointFields
<1>4. CASE after.endpoint = before.endpoint
  BY <1>1, <1>2, <1>3, <1>4 DEF Sent
<1>5. CASE /\ IsZero(before.endpoint) /\ ~IsZero(after.endpoint)
           /\ Live => Served(after.endpoint)
  <2>1. CASE kc.endpoint = before.endpoint
    <3>1. m = after.endpoint
      BY <1>1, <1>2, <1>3, <2>1 DEF Sent
    <3> QED BY <1>5, <2>1, <3>1 DEF Live
  <2>2. CASE /\ ~IsZero(kc.endpoint)
             /\ ~kc.deleting => IsZero(before.endpoint) /\ Served(kc.endpoint)
    <3>1. CASE kc.deleting
      BY <1>2, <1>5, <2>2, <3>1 DEF Sent, IsZero
    <3>2. CASE ~kc.deleting
      <4>1. after.endpoint = kc.endpoint
        BY <1>5, <2>2, <3>2 DEF Live, Served
      <4>2. m = kc.endpoint
        BY <1>1, <1>2, <1>3, <4>1 DEF Sent
      <4> QED BY <2>2, <4>2
    <3> QED BY <3>1, <3>2
  <2> QED BY <2>1, <2>2 DEF Behind
<1> QED BY <1>4, <1>5 DEF RecordsService

(* How the endpoint of a cluster may change in a step.                     *)
Moves ==
  \/ kc'.endpoint = kc.endpoint
  \/ /\ ~IsZero(kc'.endpoint)
     /\ ~kc.deleting => IsZero(kc.endpoint) /\ Served(kc'.endpoint)

LEMMA NextMoves ==
  ASSUME EInv, Next, kc'.exists
  PROVE  Moves
<1>0. TypeOK /\ TypeIsSet /\ EndpointsAreBehind /\ RecordsService
  BY DEF EInv, Inv, TypeInv, CopiesInv, EndpointInv
<1>1. CASE Patch
  <2>1. CASE UNCHANGED kc
    BY <2>1 DEF Moves
  <2>2. CASE SpecAccepted /\ kc' = Settle(MergeSpec(kc))
    <3>1. kc' = MergeSpec(kc)
      BY <1>0, <2>2, MergeFields, SettleFields, ObjectsType
    <3>2. kc.exists /\ pc # "idle" /\ Behind(before)
      BY <1>0, <1>1, <2>2, PatchCases DEF SpecAccepted, EndpointsAreBehind
    <3> QED BY <1>0, <3>1, <3>2, MergeEndpoint DEF Moves
  <2> QED BY <1>0, <1>1, <2>1, <2>2, PatchCases
<1>2. CASE PatchStatus
  BY <1>0, <1>2, PatchStatusCases, MergeFields DEF Moves
<1>3. CASE Deletion
  BY <1>3, ObjectsType DEF Deletion, Marks, Collects, Moves
<1>4. CASE Reconcile
  BY <1>0, <1>4, ReconcileCases DEF Take, Moves
<1>5. CASE createClusterService
  BY <1>0, <1>5, CreateCases DEF Moves
<1>6. CASE SyncKC \/ SyncService \/ SetOwner \/ Pause \/ Unpause \/ Crash \/ ServiceStep
  BY <1>6 DEF SyncKC, SyncService, SetOwner, Pause, Unpause, Crash, ServiceStep,
              ServiceChanges, Moves
<1> QED BY <1>0, <1>1, <1>2, <1>3, <1>4, <1>5, <1>6, NextCases

(* A copy that is behind stays behind.                                     *)
LEMMA BehindStays ==
  ASSUME "service" \notin FaultKinds, EInv, Next, NEW c, Behind(c), kc'.exists
  PROVE  \/ c.endpoint = kc'.endpoint
         \/ /\ ~IsZero(kc'.endpoint)
            /\ ~kc'.deleting => IsZero(c.endpoint) /\ Served(kc.endpoint)'
<1>0. TypeInv /\ GoneIsBlank
  BY DEF EInv, Inv, CopiesInv
<1>1. kc.exists /\ (Live' => Live)
  <2>1. Ages
    BY <1>0, NextAges
  <2> QED BY <2>1, ObjectsType DEF Ages, Live
<1>2. ASSUME ~kc'.deleting, NEW e, Served(e)
      PROVE  svc'.owner = "self" /\ svc'.host # NoHost /\ e = [host |-> svc'.host, port |-> svc'.port]
  <2>1. Live'
    BY <1>2 DEF Live
  <2> QED BY <1>0, <1>2, <2>1, ServedStays DEF Served
<1>3. CASE kc'.endpoint = kc.endpoint
  BY <1>1, <1>2, <1>3 DEF Behind, Served, Live
<1>4. CASE /\ ~IsZero(kc'.endpoint)
           /\ ~kc.deleting => IsZero(kc.endpoint) /\ Served(kc'.endpoint)
  BY <1>1, <1>2, <1>4 DEF Behind, Served, Live
<1> QED BY <1>3, <1>4, NextMoves DEF Moves

(* What a reconciliation records is what its own Service serves.           *)
LEMMA NextRecords ==
  ASSUME "service" \notin FaultKinds, EInv, Next
  PROVE  RecordsService'
<1>0. /\ TypeInv /\ TypeOK /\ TypeIsSet /\ GoneIsBlank /\ ServiceIsSteady /\ RecordsService
      /\ cSvc \in Services
  BY DEF EInv, Inv, TypeInv, TypeOK, CopiesInv, EndpointInv
<1>1. Live' => Live
  <2>1. Ages
    BY <1>0, NextAges
  <2> QED BY <2>1, ObjectsType DEF Ages, Live
<1>2. ASSUME pc # "idle", UNCHANGED before, after'.endpoint = after.endpoint
      PROVE  RecordsService'
  <2>1. ASSUME Live', Served(after.endpoint) PROVE Served(after.endpoint)'
    BY <1>0, <1>2, <2>1, ServedStays DEF Served
  <2> QED BY <1>0, <1>1, <1>2, <2>1 DEF RecordsService
<1>3. CASE Reconcile
  <2>1. Take /\ ((~cKC.exists /\ UNCHANGED local) \/ Starts)
    BY <1>0, <1>3, ReconcileCases
  <2>2. CASE UNCHANGED local
    BY <2>1, <2>2 DEF Take, local, RecordsService
  <2>3. CASE Starts
    <3>1. before' = cKC /\ UNCHANGED <<kc, svc, cSvc>>
      BY <2>1, <2>3 DEF Starts, Take
    <3>2. CASE Waits \/ Releases \/ Creates \/ Fails \/ Retries
      BY <3>1, <3>2 DEF Waits, Releases, Creates, Fails, Retries, Keeps, RecordsService
    <3>3. CASE Records
      <4>1. cSvc.owner = "self" /\ cSvc.host # NoHost /\ cSvc.port # 0
        BY <1>0, <3>3 DEF Records, HasAddress, ServiceIsSteady, Complete, Services, ServiceTypes
      <4>2. ~IsZero(Serves(cSvc))
        BY <4>1 DEF IsZero, Serves
      <4>3. Live' => Served(Serves(cSvc))
        BY <1>0, <1>1, <4>1 DEF ServiceIsSteady, Served, Serves
      <4>4. Served(Serves(cSvc)) /\ after'.endpoint = Serves(cSvc) => Served(after.endpoint)'
        BY <3>1 DEF Served
      <4>5. CASE IsZero(cKC.endpoint)
        BY <3>1, <3>3, <4>2, <4>3, <4>4, <4>5 DEF Records, RecordsService
      <4>6. CASE ~IsZero(cKC.endpoint)
        BY <3>1, <3>3, <4>6 DEF Records, RecordsService
      <4> QED BY <4>5, <4>6
    <3> QED BY <2>3, <3>2, <3>3 DEF Starts
  <2> QED BY <2>1, <2>2, <2>3
<1>4. CASE createClusterService
  BY <1>0, <1>2, <1>4, CreateCases
<1>5. CASE Patch
  BY <1>0, <1>2, <1>5, PatchCases
<1>6. CASE PatchStatus \/ Crash
  BY <1>0, <1>6, PatchStatusCases DEF Crash, Forget, RecordsService
<1>7. CASE SyncKC \/ SyncService \/ SetOwner \/ Pause \/ Unpause \/ Deletion \/ ServiceStep
  <2>1. UNCHANGED <<pc, before, after>>
    BY <1>7 DEF SyncKC, SyncService, SetOwner, Pause, Unpause, Deletion, ServiceStep,
                ServiceChanges, local
  <2> QED BY <1>2, <2>1 DEF RecordsService
<1> QED BY <1>0, <1>3, <1>4, <1>5, <1>6, <1>7, NextCases

(* The copies stay behind.                                                 *)
LEMMA NextBehind ==
  ASSUME "service" \notin FaultKinds, EInv, Next
  PROVE  EndpointsAreBehind'
<1>0. TypeOK /\ TypeIsSet /\ EndpointsAreBehind
  BY DEF EInv, Inv, TypeInv, CopiesInv, EndpointInv
<1>1. ASSUME UNCHANGED cKC PROVE Behind(cKC)'
  BY <1>0, <1>1, BehindStays DEF EndpointsAreBehind, Behind
<1>2. ASSUME UNCHANGED before, pc # "idle" PROVE Behind(before)'
  BY <1>0, <1>2, BehindStays DEF EndpointsAreBehind, Behind
<1>3. CASE Reconcile
  <2>1. Take /\ ((~cKC.exists /\ UNCHANGED local) \/ Starts)
    BY <1>0, <1>3, ReconcileCases
  <2>2. CASE UNCHANGED local
    BY <1>1, <2>1, <2>2 DEF Take, local, EndpointsAreBehind
  <2>3. CASE Starts
    <3>1. before' = cKC' /\ UNCHANGED cKC
      BY <2>1, <2>3 DEF Starts, Take
    <3> QED BY <1>1, <3>1 DEF EndpointsAreBehind, Behind
  <2> QED BY <2>1, <2>2, <2>3
<1>4. CASE createClusterService \/ Patch
  <2>1. UNCHANGED <<cKC, before>> /\ pc # "idle"
    BY <1>0, <1>4, CreateCases, PatchCases
  <2> QED BY <1>1, <1>2, <2>1 DEF EndpointsAreBehind
<1>5. CASE PatchStatus
  <2>1. UNCHANGED cKC /\ pc' = "idle"
    BY <1>0, <1>5, PatchStatusCases DEF Forget
  <2> QED BY <1>1, <2>1 DEF EndpointsAreBehind
<1>6. CASE Crash
  BY <1>6 DEF Crash, Forget, EndpointsAreBehind, Behind
<1>7. CASE SyncKC
  <2>1. cKC' = kc' /\ UNCHANGED <<pc, before>>
    BY <1>7 DEF SyncKC, local
  <2> QED BY <1>2, <2>1 DEF EndpointsAreBehind, Behind
<1>8. CASE SyncService \/ SetOwner \/ Pause \/ Unpause \/ Deletion \/ ServiceStep
  <2>1. UNCHANGED <<cKC, pc, before>>
    BY <1>8 DEF SyncService, SetOwner, Pause, Unpause, Deletion, ServiceStep,
                ServiceChanges, local
  <2> QED BY <1>1, <1>2, <2>1 DEF EndpointsAreBehind
<1> QED BY <1>0, <1>3, <1>4, <1>5, <1>6, <1>7, <1>8, NextCases

LEMMA NextEndpoint ==
  ASSUME "service" \notin FaultKinds
  PROVE  EInv /\ [Next]_vars => EInv'
<1> SUFFICES ASSUME EInv, [Next]_vars PROVE EInv'
  OBVIOUS
<1>1. Inv'
  BY NextType, NextCopies DEF EInv, Inv
<1>2. EndpointInv'
  <2>1. CASE Next
    BY <2>1, NextSteady, NextBehind, NextRecords DEF EndpointInv
  <2>2. CASE UNCHANGED vars
    BY <2>2
    DEF EInv, EndpointInv, ServiceIsSteady, Complete, EndpointsAreBehind, Behind,
        RecordsService, Served, Live, vars, local
  <2> QED BY <2>1, <2>2
<1> QED BY <1>1, <1>2 DEF EInv

(* As long as nobody else touches the Service, the Service keeps its       *)
(* address while the cluster lives, every copy of the cluster has its      *)
(* endpoint or none, and what is recorded is what the Service serves.      *)
THEOREM EndpointInvariant ==
  ASSUME "service" \notin FaultKinds
  PROVE  Spec => []EndpointInv
<1>1. Init => EInv
  BY InitType, InitCopies, InitEndpoint DEF EInv, Inv
<1>2. EInv => EndpointInv
  BY DEF EInv
<1> QED BY <1>1, <1>2, NextEndpoint, PTL DEF Spec

LEMMA EInvHolds == ASSUME "service" \notin FaultKinds PROVE Spec => []EInv
<1>1. Init => EInv
  BY InitType, InitCopies, InitEndpoint DEF EInv, Inv
<1> QED BY <1>1, NextEndpoint, PTL DEF Spec

(* As long as nobody else touches the Service, a complete endpoint does    *)
(* not change before the cluster is deleted, although two reconciliations  *)
(* may record it one after the other from copies that do not show it, and  *)
(* host and port are patched apart.                                        *)
THEOREM EndpointStays ==
  ASSUME "service" \notin FaultKinds
  PROVE  Spec => EndpointIsStable
<1>1. EInv /\ [Next]_vars =>
        [kc.exists /\ ~kc.deleting /\ ~IsZero(kc.endpoint) =>
           kc'.endpoint = kc.endpoint \/ ~kc'.exists]_vars
  BY NextMoves DEF Moves
<1> QED BY <1>1, EInvHolds, PTL DEF Spec, EndpointIsStable

-----------------------------------------------------------------------------
(* The refinement.                                                         *)

Published == IF IsZero(kc.endpoint) THEN NoEndpoint ELSE kc.endpoint

View == <<Published, kc.ready, kc.failed, kc.deleting, ~kc.exists>>

(* The cluster that has gone is the abstract one that has.                 *)
LEMMA GoneImplements ==
  ASSUME TypeOK, kc.exists, kc' = GoneCluster
  PROVE  Lifecycle!Remove
<1>1. /\ ~kc'.exists /\ ~kc'.deleting /\ ~kc'.ready /\ ~kc'.failed
      /\ Published' = NoEndpoint
  BY ObjectsType DEF Published
<1>2. kc' \in Clusters
  BY ObjectsType
<1> QED BY <1>1, <1>2, ClusterFields DEF Lifecycle!Remove, Published

(* Each step of the patch of the spec publishes an endpoint, removes the   *)
(* cluster or shows nothing.                                               *)
LEMMA PatchImplements ==
  ASSUME EInv, Patch
  PROVE  Lifecycle!Publish \/ Lifecycle!Remove \/ UNCHANGED View
<1>0. TypeOK
  BY DEF EInv, Inv, TypeInv
<1>1. CASE UNCHANGED kc
  BY <1>1 DEF View, Published
<1>2. CASE SpecAccepted /\ kc' = Settle(MergeSpec(kc))
  <2>1. kc' = MergeSpec(kc) \/ kc' = GoneCluster
    BY <1>0, <1>2, MergeFields, SettleFields
  <2>2. CASE kc' = GoneCluster
    BY <1>0, <1>2, <2>2, GoneImplements DEF SpecAccepted
  <2>3. CASE kc' = MergeSpec(kc)
    <3>1. /\ kc'.exists = kc.exists /\ kc'.deleting = kc.deleting
          /\ kc'.ready = kc.ready /\ kc'.failed = kc.failed /\ kc' \in Clusters /\ kc.exists
      BY <1>0, <1>2, <2>3, MergeFields DEF SpecAccepted
    <3>2. Moves
      BY <3>1, NextMoves DEF Next, Controller
    <3>3. CASE kc'.endpoint = kc.endpoint
      BY <3>1, <3>3 DEF View, Published
    <3>4. CASE ~IsZero(kc'.endpoint) /\ (~kc.deleting => IsZero(kc.endpoint))
      <4>1. Published' \in {e \in Endpoints : ~IsZero(e)}
        BY <3>1, <3>4, ClusterFields DEF Published
      <4>2. Published = NoEndpoint \/ kc.deleting
        BY <3>4 DEF Published
      <4> QED BY <3>1, <4>1, <4>2 DEF Lifecycle!Publish, Published
    <3> QED BY <3>2, <3>3, <3>4 DEF Moves
  <2> QED BY <2>1, <2>2, <2>3
<1> QED BY <1>0, <1>1, <1>2, PatchCases

(* The patch of the status reports Ready or a failure, one at a time.      *)
LEMMA PatchStatusImplements ==
  ASSUME EInv, PatchStatus
  PROVE  Lifecycle!BecomeReady \/ Lifecycle!Break \/ UNCHANGED View
<1>0. TypeOK /\ StepsKeepStatus
  BY DEF EInv, Inv, TypeInv, CopiesInv
<1>1. CASE UNCHANGED kc
  BY <1>1 DEF View, Published
<1>2. CASE kc.exists /\ kc' = MergeStatus(kc)
  <2>1. /\ kc'.exists = kc.exists /\ kc'.deleting = kc.deleting /\ kc'.endpoint = kc.endpoint
        /\ kc'.ready = Sent(after.ready, before.ready, kc.ready)
        /\ kc'.failed = Sent(after.failed, before.failed, kc.failed)
    BY <1>0, <1>2, MergeFields
  <2>2. /\ kc.ready \in BOOLEAN /\ kc.failed \in BOOLEAN
        /\ before.ready \in BOOLEAN /\ before.failed \in BOOLEAN
        /\ after.ready \in BOOLEAN /\ after.failed \in BOOLEAN
    BY <1>0, ClusterFields DEF TypeOK
  <2>3. /\ before.ready => after.ready
        /\ before.failed => after.failed
        /\ after.failed = before.failed \/ after.ready = before.ready
    BY <1>0, PatchStatusCases DEF StepsKeepStatus
  <2>4. \/ kc'.ready = kc.ready /\ kc'.failed = kc.failed
        \/ ~kc.ready /\ kc'.ready = TRUE /\ kc'.failed = kc.failed
        \/ ~kc.failed /\ kc'.failed = TRUE /\ kc'.ready = kc.ready
    BY <2>1, <2>2, <2>3 DEF Sent
  <2>5. Published' = Published
    BY <2>1 DEF Published
  <2> QED
    BY <1>2, <2>1, <2>4, <2>5 DEF Lifecycle!BecomeReady, Lifecycle!Break, View, Published
<1> QED BY <1>0, <1>1, <1>2, PatchStatusCases

LEMMA DeletionImplements ==
  ASSUME EInv, Deletion
  PROVE  Lifecycle!Terminate \/ Lifecycle!Remove \/ UNCHANGED View
<1>0. TypeOK /\ GoneIsBlank
  BY DEF EInv, Inv, TypeInv, CopiesInv
<1>1. kc.exists
  BY <1>0, ObjectsType DEF Deletion, Marks, Collects, GoneIsBlank
<1>2. CASE kc' = GoneCluster
  BY <1>0, <1>1, <1>2, GoneImplements
<1>3. CASE kc' # GoneCluster
  <2>1. /\ kc'.exists /\ kc'.deleting /\ kc'.endpoint = kc.endpoint
        /\ kc'.ready = kc.ready /\ kc'.failed = kc.failed
    BY <1>1, <1>3 DEF Deletion, Marks, Collects
  <2>2. kc.deleting \in BOOLEAN /\ kc'.deleting \in BOOLEAN /\ kc'.exists \in BOOLEAN
    BY <1>0, ClusterFields DEF TypeOK, Deletion
  <2>3. Published' = Published
    BY <2>1 DEF Published
  <2> QED BY <1>1, <2>1, <2>2, <2>3 DEF Lifecycle!Terminate, View, Published
<1> QED BY <1>2, <1>3

(* Every step is a step of ClusterLifecycle or shows nothing.              *)
LEMMA NextImplements ==
  ASSUME EInv, [Next]_vars
  PROVE  Lifecycle!Next \/ UNCHANGED View
<1>0. TypeOK /\ TypeIsSet
  BY DEF EInv, Inv, TypeInv
<1>1. ASSUME UNCHANGED kc PROVE UNCHANGED View
  BY <1>1 DEF View, Published
<1>2. CASE Patch
  BY <1>2, PatchImplements DEF Lifecycle!Next
<1>3. CASE PatchStatus
  BY <1>3, PatchStatusImplements DEF Lifecycle!Next
<1>4. CASE Deletion
  BY <1>4, DeletionImplements DEF Lifecycle!Next
<1>5. CASE Reconcile
  BY <1>0, <1>1, <1>5, ReconcileCases DEF Take
<1>6. CASE createClusterService
  BY <1>0, <1>1, <1>6, CreateCases
<1>7. CASE \/ SyncKC \/ SyncService \/ SetOwner \/ Pause \/ Unpause \/ Crash \/ ServiceStep
           \/ UNCHANGED vars
  BY <1>1, <1>7 DEF SyncKC, SyncService, SetOwner, Pause, Unpause, Crash, ServiceStep,
                    ServiceChanges, vars
<1> QED BY <1>0, <1>2, <1>3, <1>4, <1>5, <1>6, <1>7, NextCases

(* As long as nobody else touches the Service, the Cluster controller sees *)
(* a cluster that follows ClusterLifecycle, whatever the endpoints, the    *)
(* number of faults and the order of everything else.                      *)
THEOREM Refinement ==
  ASSUME "service" \notin FaultKinds
  PROVE  Spec => ImplementsLifecycle
<1>1. Init => Lifecycle!Init
  <2> SUFFICES ASSUME Init PROVE Lifecycle!Init
    OBVIOUS
  <2>1. PICK t \in Types, e \in Requested : kc = NewCluster(t, e)
    BY DEF Init
  <2>2. kc \in Clusters /\ kc.exists /\ ~kc.deleting /\ ~kc.ready /\ ~kc.failed
    BY <2>1, NewClusterFields
  <2>3. /\ kc.endpoint \in Endpoints /\ kc.exists = TRUE /\ kc.deleting = FALSE
        /\ kc.ready = FALSE /\ kc.failed = FALSE
    BY <2>2, ClusterFields
  <2> QED BY <2>3 DEF Lifecycle!Init
<1>2. EInv /\ [Next]_vars => [Lifecycle!Next]_(Lifecycle!vars)
  BY NextImplements DEF View, Published, Lifecycle!vars
<1> QED
  BY <1>1, <1>2, EInvHolds, PTL DEF Spec, ImplementsLifecycle, Lifecycle!Spec

-----------------------------------------------------------------------------
(* Ready and the endpoint.                                                 *)

RInv == EInv /\ ReadyInv

(* The cache shows the cluster's Service with its address.                 *)
Shown == cSvc.owner = "self" /\ cSvc.host # NoHost

LEMMA InitReady == Init => ReadyInv
<1> SUFFICES ASSUME Init PROVE ReadyInv
  OBVIOUS
<1>1. pc = "idle" /\ queued /\ ~kc.ready /\ ~cKC.ready /\ ~after.ready
  BY NewClusterFields, ObjectsType DEF Init
<1> QED BY <1>1 DEF ReadyInv, ReadyIsServed, ReadyIsRecorded, EndpointWillBeSent

(* An endpoint that is sent arrives or will be sent again.                 *)
LEMMA PatchRecords ==
  ASSUME EInv, Patch, kc'.exists, after.endpoint # before.endpoint
  PROVE  again' \/ ~IsZero(kc'.endpoint)
<1>0. TypeOK /\ EndpointsAreBehind /\ RecordsService
  BY DEF EInv, Inv, TypeInv, EndpointInv
<1>1. SpecChanged
  BY DEF SpecChanged
<1>2. CASE SpecAccepted /\ kc' = Settle(MergeSpec(kc))
  <2>1. kc' = MergeSpec(kc)
    BY <1>0, <1>2, MergeFields, SettleFields, ObjectsType
  <2>2. kc.exists /\ pc # "idle" /\ Behind(before)
    BY <1>0, <1>2, PatchCases DEF SpecAccepted, EndpointsAreBehind
  <2> QED BY <1>0, <2>1, <2>2, MergeEndpoint
<1> QED BY <1>0, <1>1, <1>2, PatchCases

(* A decision that reports Ready for the first time comes with a complete  *)
(* endpoint, from a Service that the cache shows.                          *)
LEMMA StartsReady ==
  ASSUME EInv, Starts, after'.ready, ~cKC.ready
  PROVE  owned /\ Shown /\ ~IsZero(after'.endpoint)
<1>0. TypeOK /\ ServiceIsSteady /\ cSvc \in Services
  BY DEF EInv, Inv, TypeInv, TypeOK, EndpointInv
<1>1. Records /\ after'.endpoint = Serves(cSvc)
  BY DEF Starts, Waits, Releases, Creates, Fails, Retries, Records, Keeps
<1>2. Shown /\ cSvc.port # 0
  BY <1>0, <1>1
  DEF Records, HasAddress, ServiceIsSteady, Complete, Services, ServiceTypes, Shown
<1> QED BY <1>1, <1>2 DEF Records, Normal, Shown, Serves, IsZero

(* Ready is reported only by an owned cluster whose Service is shown.      *)
LEMMA NextServed ==
  ASSUME "service" \notin FaultKinds, RInv, Next
  PROVE  ReadyIsServed'
<1> DEFINE Reported == kc.ready \/ cKC.ready \/ (pc # "idle" /\ after.ready)
<1>0. /\ EInv /\ TypeInv /\ TypeOK /\ TypeIsSet /\ GoneIsBlank /\ ServiceIsSteady
      /\ Reported => owned /\ (Live => Shown)
  BY DEF RInv, EInv, Inv, TypeInv, CopiesInv, EndpointInv, ReadyInv, ReadyIsServed, Shown
<1>1. Live' => Live
  <2>1. Ages
    BY <1>0, NextAges
  <2> QED BY <2>1, ObjectsType DEF Ages, Live
<1>2. ASSUME owned, Live => Shown,
             owned' = owned \/ owned' = TRUE, UNCHANGED cSvc \/ cSvc' = svc
      PROVE  owned' /\ (Live' => Shown')
  BY <1>0, <1>1, <1>2 DEF Shown, ServiceIsSteady
<1>3. ASSUME Reported' => Reported,
             owned' = owned \/ owned' = TRUE, UNCHANGED cSvc \/ cSvc' = svc
      PROVE  ReadyIsServed'
  BY <1>0, <1>2, <1>3 DEF ReadyIsServed, Shown
<1>4. CASE Reconcile
  <2>1. Take /\ ((~cKC.exists /\ UNCHANGED local) \/ Starts)
    BY <1>0, <1>4, ReconcileCases
  <2>2. UNCHANGED <<kc, cKC, cSvc, owned>>
    BY <2>1 DEF Take
  <2>3. CASE UNCHANGED local
    BY <1>3, <2>2, <2>3 DEF local
  <2>4. CASE Starts
    <3>1. CASE after'.ready => cKC.ready
      BY <1>3, <2>2, <3>1
    <3>2. CASE after'.ready /\ ~cKC.ready
      BY <1>0, <1>2, <2>2, <2>4, <3>2, StartsReady DEF ReadyIsServed, Shown
    <3> QED BY <3>1, <3>2
  <2> QED BY <2>1, <2>3, <2>4
<1>5. CASE createClusterService
  <2>1. pc # "idle" /\ UNCHANGED <<kc, cKC, cSvc, owned>> /\ after'.ready = after.ready
    BY <1>0, <1>5, CreateCases
  <2> QED BY <1>3, <2>1
<1>6. CASE Patch
  <2>1. pc # "idle" /\ UNCHANGED <<cKC, cSvc, owned, after>>
    BY <1>0, <1>6, PatchCases
  <2>2. kc'.ready => kc.ready
    BY <1>0, <1>6, PatchCases, MergeFields, SettleFields, ObjectsType
  <2> QED BY <1>3, <2>1, <2>2
<1>7. CASE PatchStatus
  <2>1. pc # "idle" /\ pc' = "idle" /\ UNCHANGED <<cKC, cSvc, owned>>
    BY <1>0, <1>7, PatchStatusCases DEF Forget
  <2>2. kc'.ready => kc.ready \/ after.ready
    BY <1>0, <1>7, PatchStatusCases, MergeFields DEF Sent
  <2> QED BY <1>3, <2>1, <2>2
<1>8. CASE SyncKC \/ Crash
  <2>1. /\ UNCHANGED <<kc, owned>> /\ cKC' = kc /\ (UNCHANGED cSvc \/ cSvc' = svc)
        /\ UNCHANGED <<pc, after>> \/ pc' = "idle"
    BY <1>8 DEF SyncKC, Crash, Forget, local
  <2> QED BY <1>3, <2>1
<1>9. CASE Deletion
  <2>1. UNCHANGED <<cKC, cSvc, owned, pc, after>> /\ (kc'.ready => kc.ready)
    BY <1>9, ObjectsType DEF Deletion, Marks, Collects, local
  <2> QED BY <1>3, <2>1
<1>10. CASE SyncService \/ SetOwner \/ Pause \/ Unpause \/ ServiceStep
  <2>1. /\ UNCHANGED <<kc, cKC, pc, after>>
        /\ owned' = owned \/ owned' = TRUE
        /\ UNCHANGED cSvc \/ cSvc' = svc
    BY <1>10 DEF SyncService, SetOwner, Pause, Unpause, ServiceStep, ServiceChanges, local
  <2> QED BY <1>3, <2>1
<1> QED BY <1>0, <1>4, <1>5, <1>6, <1>7, <1>8, <1>9, <1>10, NextCases

(* Where Ready is about to be reported, the endpoint is complete, has      *)
(* arrived or will be sent again.                                          *)
LEMMA NextReadyRecorded ==
  ASSUME RInv, Next
  PROVE  ReadyIsRecorded'
<1>0. /\ EInv /\ TypeInv /\ TypeOK /\ TypeIsSet /\ GoneIsBlank
      /\ EndpointsAreBehind /\ RecordsService /\ ReadyIsRecorded
  BY DEF RInv, EInv, Inv, TypeInv, CopiesInv, EndpointInv, ReadyInv
<1>1. Live' => Live
  <2>1. Ages
    BY <1>0, NextAges
  <2> QED BY <2>1, ObjectsType DEF Ages, Live
<1>2. ASSUME UNCHANGED <<kc, pc, before, after, again>> PROVE ReadyIsRecorded'
  BY <1>0, <1>2 DEF ReadyIsRecorded, Live
<1>3. CASE Reconcile
  <2>1. Take /\ ((~cKC.exists /\ UNCHANGED local) \/ Starts)
    BY <1>0, <1>3, ReconcileCases
  <2>2. CASE UNCHANGED local
    BY <1>2, <2>1, <2>2 DEF local, Take
  <2>3. CASE Starts
    <3>1. before' = cKC /\ pc' # "patchStatus"
      BY <2>3 DEF Starts, Waits, Releases, Creates, Fails, Retries, Records, Decides
    <3>2. after'.ready /\ ~cKC.ready => ~IsZero(after'.endpoint)
      BY <1>0, <2>3, StartsReady
    <3> QED BY <3>1, <3>2 DEF ReadyIsRecorded
  <2> QED BY <2>1, <2>2, <2>3
<1>4. CASE createClusterService
  <2>1. /\ pc = "createService" /\ pc' = "patch" /\ UNCHANGED <<kc, before>>
        /\ after'.ready = after.ready /\ after'.endpoint = after.endpoint
    BY <1>0, <1>4, CreateCases DEF Decides
  <2> QED BY <1>0, <2>1 DEF ReadyIsRecorded, Live
<1>5. CASE Patch
  <2>1. pc = "patch" /\ pc' = "patchStatus" /\ UNCHANGED <<before, after>>
    BY <1>0, <1>5, PatchCases
  <2> SUFFICES ASSUME Live', after.ready, ~before.ready PROVE again' \/ ~IsZero(kc'.endpoint)
    BY <2>1 DEF ReadyIsRecorded
  <2>2. kc'.exists /\ kc.exists /\ ~IsZero(after.endpoint)
    BY <1>0, <1>1, <2>1 DEF ReadyIsRecorded, Live
  <2>3. CASE after.endpoint # before.endpoint
    BY <1>0, <1>5, <2>2, <2>3, PatchRecords
  <2>4. CASE after.endpoint = before.endpoint
    <3>1. ~IsZero(kc.endpoint)
      BY <1>0, <2>1, <2>2, <2>4 DEF EndpointsAreBehind, Behind
    <3> QED BY <1>0, <2>2, <3>1, NextMoves DEF Moves
  <2> QED BY <2>3, <2>4
<1>6. CASE PatchStatus \/ Crash
  <2>1. after' = GoneCluster
    BY <1>0, <1>6, PatchStatusCases DEF Crash, Forget
  <2> QED BY <2>1, ObjectsType DEF ReadyIsRecorded
<1>7. CASE Deletion
  BY <1>7, ObjectsType DEF Deletion, Marks, Collects, ReadyIsRecorded, Live
<1>8. CASE SyncKC \/ SyncService \/ SetOwner \/ Pause \/ Unpause \/ ServiceStep
  BY <1>2, <1>8 DEF SyncKC, SyncService, SetOwner, Pause, Unpause, ServiceStep,
                    ServiceChanges, local
<1> QED BY <1>0, <1>3, <1>4, <1>5, <1>6, <1>7, <1>8, NextCases

(* A cluster that is ready without an endpoint is on its way to one.       *)
LEMMA NextSent ==
  ASSUME RInv, Next
  PROVE  EndpointWillBeSent'
<1>0. /\ EInv /\ TypeInv /\ TypeOK /\ TypeIsSet /\ GoneIsBlank /\ CopiesAreOlder
      /\ ServiceIsSteady /\ EndpointsAreBehind
      /\ ReadyIsServed /\ ReadyIsRecorded /\ EndpointWillBeSent
  BY DEF RInv, EInv, Inv, TypeInv, CopiesInv, EndpointInv, ReadyInv
<1> SUFFICES ASSUME Live', kc'.ready, IsZero(kc'.endpoint), ~paused', ~queued'
             PROVE  \/ pc' = "patch" /\ after'.endpoint # before'.endpoint
                    \/ pc' = "patchStatus" /\ again'
  BY DEF EndpointWillBeSent
<1>1. Live
  <2>1. Ages
    BY <1>0, NextAges
  <2> QED BY <2>1, ObjectsType DEF Ages, Live
<1>2. IsZero(kc.endpoint)
  BY <1>0, NextMoves DEF Moves, Live
<1>3. CASE Reconcile
  <2>1. Take /\ ((~cKC.exists /\ UNCHANGED local) \/ Starts)
    BY <1>0, <1>3, ReconcileCases
  <2>2. UNCHANGED <<kc, paused>>
    BY <2>1 DEF Take
  <2>3. owned /\ cSvc.owner = "self" /\ cSvc.host # NoHost /\ ~paused
    BY <1>0, <1>1, <2>2 DEF ReadyIsServed
  <2>4. cKC.exists /\ ~cKC.deleting /\ IsZero(cKC.endpoint)
    BY <1>0, <1>1, <1>2 DEF Live, CopiesAreOlder, Older, EndpointsAreBehind, Behind
  <2>5. Records /\ before' = cKC
    BY <2>1, <2>3, <2>4
    DEF Starts, Waits, Releases, Creates, Fails, Retries, HasAddress
  <2>6. pc' = "patch" /\ after'.endpoint = Serves(cSvc)
    BY <2>4, <2>5 DEF Records, Decides
  <2>7. ~IsZero(Serves(cSvc))
    BY <1>0, <2>3 DEF ServiceIsSteady, Complete, Serves, IsZero
  <2> QED BY <2>4, <2>5, <2>6, <2>7
<1>4. CASE createClusterService
  <2>1. pc = "createService" /\ UNCHANGED <<kc, paused, queued>>
    BY <1>0, <1>4, CreateCases
  <2> QED BY <1>0, <1>1, <1>2, <2>1 DEF EndpointWillBeSent
<1>5. CASE Patch
  <2>1. pc = "patch" /\ pc' = "patchStatus" /\ UNCHANGED <<paused, queued>>
    BY <1>0, <1>5, PatchCases
  <2>2. kc.ready
    BY <1>0, <1>5, PatchCases, MergeFields, SettleFields, ObjectsType
  <2>3. after.endpoint # before.endpoint
    BY <1>0, <1>1, <1>2, <2>1, <2>2 DEF EndpointWillBeSent
  <2> QED BY <1>0, <1>5, <2>1, <2>3, PatchRecords DEF Live
<1>6. CASE PatchStatus
  <2>1. pc = "patchStatus" /\ UNCHANGED paused /\ ~queued /\ ~again
    BY <1>0, <1>6, PatchStatusCases
  <2>2. ~kc.ready
    BY <1>0, <1>1, <1>2, <2>1 DEF EndpointWillBeSent
  <2>3. after.ready /\ ~before.ready
    <3>1. kc' = MergeStatus(kc)
      BY <1>0, <1>6, <2>2, PatchStatusCases
    <3>2. before.ready \in BOOLEAN /\ after.ready \in BOOLEAN
      BY <1>0, ClusterFields DEF TypeOK
    <3> QED BY <1>0, <2>2, <3>1, <3>2, MergeFields DEF Sent
  <2> QED BY <1>0, <1>1, <1>2, <2>1, <2>3 DEF ReadyIsRecorded
<1>7. CASE Deletion
  BY <1>7, ObjectsType DEF Deletion, Marks, Collects, Live
<1>8. CASE SyncKC \/ SetOwner \/ Unpause \/ Pause \/ Crash
  BY <1>8 DEF SyncKC, SetOwner, Unpause, Pause, Crash, Enqueue
<1>9. CASE SyncService \/ ServiceStep
  <2>1. UNCHANGED <<kc, paused, pc, before, after, again>> /\ ~queued
    BY <1>0, <1>9
    DEF SyncService, ServiceToKubernetesCluster, ServiceStep, ServiceChanges, local, TypeOK
  <2> QED BY <1>0, <1>1, <1>2, <2>1 DEF EndpointWillBeSent
<1> QED BY <1>0, <1>3, <1>4, <1>5, <1>6, <1>7, <1>8, <1>9, NextCases

(* As long as nobody else touches the Service: a cluster is reported ready *)
(* only when the cache shows its Service with an address, and where the    *)
(* endpoint has not arrived it will be sent again.                         *)
THEOREM ReadyInvariant ==
  ASSUME "service" \notin FaultKinds
  PROVE  Spec => [](Inv /\ ReadyInv)
<1>1. Init => RInv
  BY InitType, InitCopies, InitEndpoint, InitReady DEF RInv, EInv, Inv
<1>2. RInv /\ [Next]_vars => RInv'
  <2> SUFFICES ASSUME RInv, [Next]_vars PROVE RInv'
    OBVIOUS
  <2>1. EInv'
    BY NextEndpoint DEF RInv
  <2>2. CASE Next
    BY <2>1, <2>2, NextServed, NextReadyRecorded, NextSent DEF RInv, ReadyInv
  <2>3. CASE UNCHANGED vars
    <3>1. UNCHANGED <<kc, cKC, cSvc, owned, paused, pc, before, after, again, queued>>
      BY <2>3 DEF vars, local
    <3>2. ReadyInv'
      BY <3>1
      DEF RInv, ReadyInv, ReadyIsServed, ReadyIsRecorded, EndpointWillBeSent, Live
    <3> QED BY <2>1, <3>2 DEF RInv
  <2> QED BY <2>2, <2>3
<1>3. RInv => Inv /\ ReadyInv
  BY DEF RInv, EInv
<1> QED BY <1>1, <1>2, <1>3, PTL DEF Spec

(* As long as nobody else touches the Service: a client of v1alpha2 finds  *)
(* the endpoint of a cluster that is ready, settled and not paused in the  *)
(* list of the status, however often the patch of the endpoint failed      *)
(* while that of Ready succeeded; and it can write back any cluster it has *)
(* read.                                                                   *)
THEOREM V1alpha2ClientsAgree ==
  ASSUME "service" \notin FaultKinds
  PROVE  Spec => []V1alpha2Agrees
<1>1. Inv /\ ReadyInv => V1alpha2Agrees
  <2> SUFFICES ASSUME Inv, ReadyInv PROVE V1alpha2Agrees
    OBVIOUS
  <2> DEFINE view == ClusterConvertFrom(Object(kc), IsZero(kc.endpoint))
  <2>1. ClusterConvertTo(view) = Object(kc)
    BY DEF ClusterConvertTo, ClusterConvertFrom, Object
  <2>2. ASSUME Quiescent, ~paused, kc.ready, ~kc.deleting PROVE ~IsZero(kc.endpoint)
    <3>1. kc.exists
      BY <2>2, ObjectsType DEF Inv, CopiesInv, GoneIsBlank
    <3> QED BY <2>2, <3>1 DEF ReadyInv, EndpointWillBeSent, Live, Quiescent
  <2>3. ~IsZero(kc.endpoint) => view.apiEndpoints = {kc.endpoint}
    BY DEF ClusterConvertFrom, Object
  <2> QED BY <2>1, <2>2, <2>3 DEF V1alpha2Agrees
<1> QED BY <1>1, ReadyInvariant, PTL
=============================================================================
