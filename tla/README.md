# A TLA+ model of cluster-api-provider-kubernetes

The provider implements the Cluster API infrastructure contract with Pods: a
`KubernetesCluster` becomes a Service in front of the control plane, a
`KubernetesMachine` becomes a Pod that runs a kind node image. This directory
holds TLA+ modules that model its two controllers and the pure code they use,
TLC configurations that check them, and TLAPS proofs. `PROJECT.json` lists the
components, the runs, the source lines behind each definition (`map`), the
hazards of the code, and the findings.

Run a configuration with `tlc -config X.cfg MC...` (the module is the run's
`module` in `PROJECT.json`), and check the proofs of a module with
`tlapm M.tla`, where `M` is one of the eight proof modules below.

## The system

| Part | State it keeps | Operations | What can go wrong |
|---|---|---|---|
| KubernetesMachine controller (`controllers/kubernetesmachine_controller.go`, `kubernetesmachine_utils.go`) | the object's spec (provider ID), finalizers and status; the Pod, the cloud-init Secret and the claims it owns | `Reconcile`, `reconcileNormal`, `reconcileDelete`, the create, delete and exec calls, the deferred patch, five watches | reads come from caches that lag, writes go to the API server, exec and delete go by name, while somebody else's Pod may have it; two patches; what is read too early and not watched; Pod lost at any moment; garbage collection in parallel with deletion |
| KubernetesCluster controller (`controllers/kubernetescluster_controller.go`) | spec (endpoint, Service type), finalizers, status; the Service | `Reconcile`, `reconcileNormal`, `reconcileDelete`, `createClusterService`, the deferred patch, three watches | endpoint in the spec and Ready in the status are patched apart; Service lost, edited or owned by others |
| Machine Pod builder (`createControlPlaneMachinePod`, `createWorkerMachinePod`, `getMachinePodBase`, `setKindContainerBase`, `updateStorage`, `setVolumeMount`, `generatateCloudInitSecret`) | none | merges the user's PodSpec, claim templates and defaults | three sources of volumes and mounts with one name space; index of the kind container |
| QoS class (`pkg/utils/qos.go`) | none | `GetPodQOS` | compares sums over containers |
| cloud-init adapter (`pkg/cloudinit`) | none | `GenerateScript`, `getActions`, two modules and `unknown` | scanner splits YAML by lines, of bounded length; decoding; quoting for Go read by bash; items of other types; an empty command |
| Pod status helpers, exec client (`pkg/utils/pod.go`, `pkg/pod/exec.go`) | none | status of a container; run a command in a container | exec has no deadline |
| API types, conversions, webhooks (`api/`) | stored fields | v1alpha2 to v1alpha3 and back; defaulting | a field that is forgotten is lost on the way; what v1alpha2 shows is derived from fields that are patched apart; a template passes no webhook |
| Manager (`main.go`) | - | starts the controllers or the webhooks | restart at any moment |
| End-to-end tests, generated code, manifests | - | - | - |

How they interact. Everything goes through the API server. The work queue of a
controller holds an object's name; watches on the object, on what it owns and
on Cluster, Machine and KubernetesCluster put it there. A reconciliation reads
the informer caches once, computes, makes live calls, and patches the
difference between what it read and what it computed. In parallel the garbage
collector, the kubelet, the kubeadm inside the machine, the cloud provider, the
other Cluster API controllers and users change the same objects. Machines meet
each other in two places: the controller has one worker for all of them, and
the Node of each is patched through the Pod of some control plane. A machine
meets its KubernetesCluster in the readiness of the infrastructure, in an
informer, and when both are deleted.

What makes each part correct:

- machine: Ready is backed by a provider ID on the Node; one that was ready is
  never silently rebuilt; a failure is final; an etcd member is not abandoned;
  other people's Pods are left alone as far as the cache tells them; no return leaves it waiting for an event
  that never comes, but for the three objects that are not watched; provisioning and deletion end and leave nothing behind;
- cluster: a recorded endpoint does not change; the endpoint is the Service's or
  the cluster has failed; deletion ends and leaves no Service;
- Pod builder: the Pod is accepted, persistent where asked, and never best effort,
  it finds the keys of its Secret, and it has the user's volumes and mounts;
- cloud-init: the script does what the cloud-config says, except for a list of
  things that it mishandles; only an empty command panics;
- conversions and webhooks: what a user writes arrives, in either version, and a
  client of v1alpha2 neither loses nor misreads what the controllers record;
- together: machines come up as long as a control plane serves, and whatever is
  deleted goes, unless a part is in a state from which the code has no way out
  (these are named by the properties).

## The modules

| Module | Models | Extended by |
|---|---|---|
| `MachineLifecycle` | what a machine promises to the Machine controller (abstract) | instantiated by `KubernetesMachine`, `Fleet` |
| `ClusterLifecycle` | what a cluster promises to the Cluster controller (abstract) | instantiated by `KubernetesCluster`, `Provider` |
| `Conversion` | the conversions and the defaulting webhook of `api/` | `KubernetesMachine`, `KubernetesCluster`, `MachinePod` |
| `KubernetesMachine` | one KubernetesMachine, its controller and everybody who touches its objects | `MCKubernetesMachine`, `Provider`, the three `KubernetesMachine...` proof modules |
| `KubernetesCluster` | one KubernetesCluster, its controller and its Service | `MCKubernetesCluster`, `KubernetesClusterProofs` |
| `Provider` | a machine in full detail with the lifecycle of its KubernetesCluster | `MCProvider`, `ProviderProofs` |
| `Fleet` | several machines that share the worker and the control plane Pods | `MCFleet`, `FleetProofs` |
| `PodQOS` | `GetPodQOS` | `MachinePod` |
| `MachinePod` | a user's KubernetesMachine on its way into the API server and the Pod made of it | `MCMachinePod`, `MachinePodProofs` |
| `CloudInit` | scanner, actions, script, and what running it does | `MCCloudInit`, `CloudInitProofs` |

An operator `X_Y` next to `X` is a faulty variant of `X`, of the kind a mistake
in the code would produce; `mutants` in `PROJECT.json` names, for each checked
property, a variant under which TLC finds it violated.

### KubernetesMachine

State. `km`, `pod`, `secret`, `pvcs` are what the API server stores; `node` is
the Node in the workload cluster; `boot` and `reset` say what has been executed
in the current Pod; `cKM` and `cPod` are the informer caches; `given` are the
facts about Machine, Cluster and KubernetesCluster; `pc`, `before`, `after`,
`seen`, `rerr` are the local variables of the reconciliation in progress
(there is one worker); `queued` is the work queue's entry for this machine.
`known` is what the last reconciliation read of `given`; only properties look at it.

Actions. `Reconcile` is the part of the code from the work queue to the first
live call: it touches only caches, so it is one step, with one disjunct per
return (`AwaitOwner` ... `reconcileNormal`, `reconcileDelete`). Each live call is an action of
its own: `createMachinePod`, `createPersistentVolumeClaims`, `createSecret`,
`deletePod`, `enableBoostrapProcess`, `setNodeProviderID`, `kubeadmReset`. Each
ends `ok`, `refused`, or `lost` (performed, answer lost), and includes what the
code does with the answer up to the next live call. `Patch` and `PatchStatus`
are the deferred `patchHelper.Patch`: it first sends the fields of spec and
metadata, then those of the status, that differ from what was read, and tries
the second even if the first fails. The API server refuses new finalizers on an
object being deleted and removes it with the last finalizer (`Settle`).
`SyncKM` and `SyncPod` are the informers, with the map functions of
`SetupWithManager` deciding whether a request is queued; `Provide(x)` is an
informer that shows what the other Cluster API controllers have done, each at its own
time, so in any order; `Collect...` the garbage collector with foreground and
background deletion, `Kubelet...` and `NodeJoins` the machine, `Crash` a restart
of the manager.

A command in a container may hang (`ExecHangs`): `exec.Stream` has no deadline,
so the worker waits until the container goes (`ExecEnds`). In `machine_lifecycle`
it always goes, because foreground deletion takes the Pod away; with
background deletion, or without any, the worker would wait for ever. The kubectl of
`setNodeProviderID` runs in the Pod of some control plane. There may be none
(`NoControllerPod`), and it may hang in the Pod of another machine (`KubectlHangs`),
of which nothing here says that it goes (`KubectlEnds` may never come).

Delete and exec name the Pod, and nothing else. Somebody else's Pod may take the name
whenever it is free (`ForeignComes`), hence also between the loss of the machine's own
Pod and the moment the cache shows it, and leave again (`ForeignGoes`).

Abstractions. A cache catches up in one step, except that a Pod replaced under
the same name shows its deletion first. Somebody else's Secret exists only at
the start and may go. The Machine has a version. Creating claims is one step
with any subset created. Timers (the manager's retry delay, `RequeueAfter`) are a
request in the queue.

### KubernetesCluster

The same structure, with one live call (`createClusterService`). The endpoint is
a host and a port, either may be missing (`IsZero`), and a merge patch sends
them one by one. The API server does not take every Service (`Refused`): a ClusterIP
may be out of range or allocated, a host that is asked for may be no IP, a port may be
out of range. `LoadBalancerProvisioned` is the cloud provider, which need not
give the address asked for; `ServiceEdited` changes or removes the port, or the
address.

### The lifecycles

`MachineLifecycle` has no cache, no call and no controller: a machine is
pending, provisioned, running or gone, may have failed, may be terminating, and
Pods are built for it. `Stage` maps the stored object to it. What has to be shown
is that no interleaving of stale copies, partial patches and retries makes a
step that the abstract machine cannot make, for instance a provider ID without a
Pod, Ready taken back without `allowRecreation`, a Pod built for a failed
machine. `ClusterLifecycle` does the same for the endpoint, of which host and port
are patched one by one, Ready and failure. Both refinements are checked as a
`PROPERTY` (`ImplementsLifecycle`); a terminating cluster may record another
endpoint, because its Service may be collected and created again.

### Provider

All actions of `KubernetesMachine`, with `ClusterLifecycle` in place of the
KubernetesCluster's controller (that it may stand for it is what
`cluster_lifecycle` shows). `Provide("infraReady")` needs a cluster that is ready, the
informer of the machine controller loses a KubernetesCluster that has gone, and
the Cluster is torn down either by the Cluster controller, machines first, or by
the namespace controller, in any order. Its fairness for the abstract cluster is what
`Provisioned` and `DeletionCompletes` of `cluster_lifecycle` show of the detailed
one, for an address that the API server does not refuse. The user creates the objects
at once; from then on the informers show the infrastructure and the kubeadm data in
any order. `ClusterComesUp` has an exception (`Missed`): the controller has read the
readiness of the infrastructure, the bootstrap data or the KubernetesCluster before it
arrived, returned without an error, and no event follows. `WaitsForCluster` relates the two: nothing is built for the machine, and no
finalizer holds it, before its KubernetesCluster has been ready.

### Fleet

The same controller once more, cut down to what crosses from one machine to
another: the queue, the single worker, the commands, and the choice of the
control plane Pod through which a Node is patched. Caches, patches, claims and
failing API calls are in `KubernetesMachine`; here a reconciliation up to its
first command is one step. `podList.Items[0]` is any control plane Pod, because
the cache lists a map. Each machine implements `MachineLifecycle` too
(`ImplementsLifecycles`; the machines that are ready at the start begin in the
middle of it).

### Conversion

Records in, records out. Metadata is one field; reason and message of a failure
are one. `KubernetesMachine` and `KubernetesCluster` apply the round trip to every
state that they reach, `MachinePod` to every object that a user may write:
directly in either version or through a template of v1alpha2, perhaps edited
there once more, that the Machine controller clones.

### MachinePod and PodQOS

`Admit` is the way into the API server: conversion and defaulting, in either
version. A list of containers that is left out would be encoded as null, which
the schema rejects; the webhook prevents it.
A container is its name, mounts, ports and compute resources; a volume is a name
and where it comes from (user, default, Secret, claim). `Valid` is the part of
the API server's validation that concerns these. Image, TTY, security
context, probe and restart policy are left out. In `PodQOS` an amount 0 stands
for zero and for absent, which the code treats alike; the keys of the code's two
maps are the resources of which some container has a positive amount, and the
sums are added up over the list as the loop does.

### CloudInit

A cloud-config is a sequence of sections, a top level key with its items. The
constants `Files`, `Commands` and `Others` are the items there are, `Configs` the
cloud-configs; `ItemsAssumption` and `ConfigsAssumption` only say what shape they
have. The scanner handles one line per step, as `getActions` does, and knows as keys
only what its regular expression matches (not `ca-certs`). A block of lines that it
hands to an action is read as YAML reads it, an item under the key above it (`Read`).
An item may be a file, a command (a list, a string or null), or something of another
type, and a line may be longer than the scanner takes (`Long`).
The result is a sequence of statements. `Execute` says what bash does with a
statement and `Configure` what an item of the cloud-config asks for;
`ScriptDoesWhatConfigSays` compares the world after all the statements (`Run`) with
the world after all the items (`Configured`): the files with contents, permissions and
owners, the commands in their order with the files each found, and whether it has
stopped (errexit, nounset). A text has layers of encoding, and it says what becomes of it where the
code puts it: quoted by `%q`, where bash expands `$` and backquotes and where a line
break is a backslash and an n, and in a here-document, which a line `END` closes. What is run
of the lines after that is left out: the script counts as stopped there. A shell script also says
whether it runs `kubeadm init` or `join` as its last command, which is the one that the flag
reaches. A final newline is ignored. `Mishandled` lists what the adapter does not get
right; the property is about all other items.

## The runs

Passing runs:

| Run | Instance | Shows |
|---|---|---|
| `machine_default` | no recreation, control plane and worker, both deletion policies, 2 faults among failed or lost calls, crashes, Pod loss; a worker whose data cannot be parsed | `TypeOK`; `MemberNotAbandoned`: the finalizer stays while an etcd member runs unreset; `ReadyIsBacked`; `NoReplacementOnceReady`; `ImplementsLifecycle`, a failure that is final included; `SurvivesV1alpha2`: a v1alpha2 client that reads and writes back takes nothing; `NoLostWakeup`, while it is deleted, too |
| `machine_recreation` | fair, `allowRecreation`, 3 faults, up to 3 Pods with a lagging cache | `NoLostWakeup`: the queue is empty only when the controller has nothing to do; `PhaseSettles`; `ImplementsLifecycle`; `Heals`: it ends up ready on a Pod that was told to bootstrap |
| `machine_startup` | recreation; nothing given at the start, and what is given appears in any order; the name of the Secret taken at the start, that of the Pod at any time; a pause or a lost Pod, a deletion | `NoLostWakeup`: when no event is on its way, the machine can only have overlooked what the code does not watch; `ForeignPodUntouched`: somebody else's Pod is deleted or entered only by a reconciliation that read a Pod of the machine in its place |
| `machine_lifecycle` | fair, one failed or lost call or hanging command, in the machine's Pod or another's, deletion of machine and Cluster | `Provisioned`, `DeletionCompletesWithoutReset`, `NothingLeftBehind` |
| `cluster_lifecycle` | fair, every combination of given and missing endpoint, ClusterIP by default or load balancer, an address or a port that is refused, the Service's name free or taken, one failed or lost call or crash, both deletion policies; nobody touches the Service | `TypeOK`, `EndpointIsStable`, `ImplementsLifecycle`, `V1alpha2Agrees`, `Provisioned` (unless the address asked for is refused), `DeletionCompletes`, `NothingLeftBehind` |
| `cluster_service` | Service name taken, two faults among a Service lost or edited, pauses and failed or lost calls | `SettlesOnServiceEndpoint`, `PhaseSettles` |
| `provider_lifecycle` | fair, one control plane machine and its cluster, infrastructure and kubeadm data seen in any order, either teardown at any moment | `WaitsForCluster`, `ClusterComesUp` (or it is `Missed`), `TeardownCompletes` |
| `fleet_lifecycle` | fair, two control planes (one ready at the start) and a worker, one control plane and the worker may be deleted, one container terminates, one command hangs | `MachinesComeUp`, `DeletionsComplete`, `ImplementsLifecycles` |
| `pod_defaults` | either version or a template; PodSpecs, volumes and claims that collide with the defaults; every pair of requests and limits from 0 to 2 | accepted (`SoundSpecIsCreated`), complete (`UserStorageKept`), persistent (`EtcdOnItsClaim`), `NeverBestEffort`, `ClassAsDocumented`, startable (`ProjectedKeysExist`) |
| `cloudinit_script` | one section of three items or two of one, with every kind of text, type and line; two of two or three of one with those that are handled; valid YAML or not | `ScriptDoesWhatConfigSays`, `OnlyEmptyCommandPanics`, `KnownModulesAccepted` |

Runs that show the code to disagree with its comments (`findings` quotes them):

| Run | What happens |
|---|---|
| `machine_reset` | foreground deletion removes the Pod before `kubeadm reset` has run in it |
| `machine_foreign_secret` | the ownership test of the Secret looks at the object in memory and never fails: a machine boots with somebody else's Secret |

Further things the models show, for which no run is kept:

- `IsZero` is asked of the cached KubernetesCluster (`kubernetescluster_controller.go:231`):
  a Service lost and created again while the cache lags changes a recorded
  endpoint. `EndpointIsStable` therefore needs a Service that nobody touches;
  with `FaultKinds` of `cluster_service` it is violated.
- The loop of `setKindContainerBase` shadows its index
  (`kubernetesmachine_controller.go:971`): in a PodSpec with a sidecar and no
  kind container the sidecar is turned into the kind container, the appended
  container stays empty, and the API server refuses the Pod for ever.
  `SoundSpecIsCreated` therefore speaks of PodSpecs with a kind container, or
  without any container. In the second case no init container may be called
  `kind` either: the name is the controller's, and the Pod would have it twice.
- When a namespace is deleted and the KubernetesCluster goes first, `Reconcile`
  returns at `kubernetesmachine_controller.go:205` before it looks at the
  deletion, and the machine keeps its finalizer (`Stranded`, the exception in
  `TeardownCompletes`).
- A command that hangs in the Pod of a machine that stays stops all machines of
  the manager (the exception in `DeletionsComplete`).
- With one control plane that has been reported failed but whose Pod is still
  listed, and another that serves, machines come up only because the list is in
  no fixed order: with a sorted list `MachinesComeUp` is violated.
- The owner references are compared with the group version of v1alpha3 as text,
  so what an earlier release owned does not wake its machine; no such object is
  modelled.
- A Pod lost before the provider ID is recorded is replaced although
  recreation is not allowed; `NoReplacementOnceReady` therefore speaks of
  machines that have been ready.
- `r.Delete` and exec go by name: with recreation and a cache that lags behind
  two Pods, a healthy Pod is deleted in place of a terminated one, and Ready may
  be reported for a Pod that was not told to bootstrap yet. Three faults suffice,
  and `Heals` shows that the machine recovers.
- A KubernetesCluster queues the Machine's name instead of the
  KubernetesMachine's, so unless the names agree its arrival wakes nobody
  (`machine_startup`, with `SameName = FALSE`).
- Three things arrive without an event: the readiness of the infrastructure, the
  bootstrap data Secret, and, unless the names agree, the KubernetesCluster. A
  reconciliation that reads the cache before they are in it returns nil
  (`kubernetesmachine_controller.go:205`, `:222-225`, `:484-487`), and if they
  arrive last the machine waits for the resync (`Overlooked` in `NoLostWakeup`, `Missed`
  in `ClusterComesUp`). Any later event, of the Machine or of the KubernetesMachine,
  ends the wait.
- Somebody else's Pod that takes the name of a lost one is deleted, or a command runs in
  it, while the cache still shows the machine's own (`kubernetesmachine_controller.go:518`,
  `:533`, `:581`). The ownership tests of lines 446 and 578 do not prevent it, because
  delete and exec carry no UID. `ForeignPodUntouched` says that nothing else does.
- A ClusterIP or a port that the API server refuses makes `createClusterService` return
  an error for ever (`kubernetescluster_controller.go:335-339`), neither ready nor failed
  (`Refused`, the exception in `Provisioned`).
- kubectl that hangs in the Pod of one control plane holds up the machine whose Node it
  patches, and the deletion of that machine does not end it (`KubectlHangs`).
- A control plane whose Pod cannot be entered retries `kubeadm reset` until the
  Cluster is deleted; hence `DeletionCompletesWithoutReset`.
- The cluster's failure is neither consulted nor cleared, so a failed cluster
  may become ready; and the status patch may succeed without the spec patch, so
  that a cluster is ready for a while without an endpoint.
- In cloud-init (`Mishandled` in `CloudInit`): `gz+base64` content is not decompressed;
  bash expands `$` and backquotes in the words of a command, in paths and in the
  contents of files; a line break in a command becomes a backslash and an n; a line `END`
  in a content ends the file there and runs the rest; `kubeadm init` before the end of a
  shell script does not get its flag; permissions 0644 and owner `root:root` are not
  set, which matters for a file that exists already. An unknown module fails the whole
  script, and a command that is null or an empty list panics (`runcmd.go:46`).
- Somebody else's Secret on which a machine relies may go without an event.

Bounds. `MaxFaults` counts crashes, failed calls, lost Pods, lost or edited
Services and pauses together; two suffice for the races that involve a fault
and its recovery, since a fault only matters to the reconciliations in flight
and there is one at a time, with one stale copy; with recreation it takes a
third, two Pods lost behind a cache and one more. The other fair runs take one,
because fairness is about what happens after the last fault. `machine_startup`
takes one, since its nondeterminism is the order of arrivals and the comings and goings of
somebody else's Pod, which are not counted. In `Fleet` three machines
are one to break, one that serves and one that needs them; `MaxHangs` and
`MaxBroken` are 1 since a second hang cannot begin before the first ends.
`Provider` takes no faults: those of each part are in its own runs. `MaxPods` bounds
the staleness of `cKM`, not the number of Pods: beyond it a reconciliation
starts only once the machine's cache is up to date. One claim distinguishes
none, some (failed) and all. Two hosts and two ports distinguish same and
different. Deadlock is not checked, because the system rests when nothing is
left to do; `NoLostWakeup` and `SettlesOnServiceEndpoint` say in which states it may.

Fairness. Weak fairness for the controller (the work queue hands out each
request and retries errors), for each informer, for the garbage collector, the
kubelet, the kubeadm in the machine, the cloud provider, and the other Cluster
API controllers. In `Fleet` the work queue is served in turn, which is strong
fairness of each machine's reconciliation, and every control plane Pod comes
first in the list now and then, since a Go map is listed in random order. In
`Provider` the Cluster controller goes through with a deletion; that a namespace
deletion takes the KubernetesCluster first may happen but is not relied upon. Nothing is assumed of users and faults, of a kubectl that hangs in the Pod of another
machine, or of `Resync`: the periodic resync (ten hours by default) would hide a lost
wake-up.

## The proofs

The theorems hold for every value of the constants: any set of claims, hosts,
ports, inputs, PodSpecs and machines, any initial situation, any kinds and number
of faults, any `MaxPods`. The constants have the named assumptions of their
modules, which are types; where a theorem needs more it says so in an `ASSUME` of
its own. Every invariant, action property and refinement that a passing run checks is
stated by a theorem.

| Module | Theorem | States |
|---|---|---|
| `KubernetesMachineProofs` | `TypeCorrect`, `ReadyInvariant`, `ReadyIsBackedAlways`, `NoReplacement` | `TypeOK`, the inductive `ReadyInv`, `ReadyIsBacked`, `NoReplacementOnceReady` |
| `KubernetesMachineRefinement` | `PodsInvariant`, `ForeignPodIsUntouched` | the inductive `PodsInv`, `ForeignPodUntouched` |
| | `LifecycleInvariant`, `Refinement` | the inductive `LifecycleInv`, `ImplementsLifecycle`, where `"pod" \notin Foreign` |
| | `RoundTripKeepsMachine` | `SurvivesV1alpha2` |
| | `MemberInvariant`, `MemberIsNotAbandoned` | the inductive `MemberInv`, `MemberNotAbandoned`, where `"secret" \notin Foreign` |
| `KubernetesMachineWakeup` | `PhaseInvariant`, `PhaseIsSettled` | the inductive `PhaseInv`, `PhaseSettles` |
| | `WakeupInvariant`, `NoWakeupIsLost` | the inductive `WakeupInv`, `NoLostWakeup` |
| `KubernetesClusterProofs` | `TypeInvariant`, `CopiesInvariant` | `TypeOK`, the inductive `CopiesInv` |
| | `WakeupInvariant`, `PhaseIsSettled`, `SettledOnService` | the inductive `WakeupInv`, `PhaseSettles`, `SettlesOnServiceEndpoint` |
| | `EndpointInvariant`, `EndpointStays`, `Refinement`, `ReadyInvariant`, `V1alpha2ClientsAgree` | the inductive `EndpointInv`, `EndpointIsStable`, `ImplementsLifecycle`, the inductive `ReadyInv`, `V1alpha2Agrees`, where `"service" \notin FaultKinds` |
| `ProviderProofs` | `ReadyInProvider` | in the composition the machine keeps `ReadyIsBacked` and `NoReplacementOnceReady` |
| | `RefinementInProvider`, `MemberInProvider` | in the composition, too, `ImplementsLifecycle`, where `"pod" \notin Foreign`, and `MemberNotAbandoned`, where `"secret" \notin Foreign` |
| | `MachineWaitsForCluster` | `WaitsForCluster`, where `"infraReady" \notin InitiallyGiven` |
| `FleetProofs` | `FleetInvariant`, `Refinement` | `TypeOK /\ FleetInv`, inductive, and `ImplementsLifecycles` |
| `MachinePodProofs` | `BuildInvariant` | the inductive `BuildInv` |
| | `SoundSpecsAreCreated`, `StorageIsKept`, `EtcdKeepsItsClaim`, `MachinesAreNotBestEffort`, `ClassIsDocumented`, `ProjectedKeysAreWritten` | the six properties of `pod_defaults` |
| `CloudInitProofs` | `ConfigSafety` | the inductive `ConfigInv` |
| | `ScriptIsFaithful`, `PanicNeedsEmptyCommand`, `KnownModulesGiveScript` | `ScriptDoesWhatConfigSays`, `OnlyEmptyCommandPanics`, `KnownModulesAccepted`, of cloud-configs with any number of sections and items |

`ReadyInvariant`, `PodsInvariant`, `LifecycleInvariant` and `MemberInvariant` are stated
of `OpenSpec`, the machine among others that are less orderly than in `Spec`: at any
step they may take away a prerequisite that they have provided (`Withdraw`), or delete
the machine in either way. `Spec` implies it (`SpecIsOpen`), and so does `Provider`
(`MachineInProvider`), so one proof serves both. `PhaseInv` and `WakeupInv` need `Spec`:
they depend on which event of the others queues the machine.

### What the hypotheses exclude

All but `"infraReady" \notin InitiallyGiven` were found by a proof that did not go
through and confirmed by a counterexample of TLC on a small instance.

- `"pod" \notin Foreign` (`Refinement` of the machine): when somebody else's Pod
  takes the machine's name, the controller reports a failure; a
  cached machine that does not show it yet, together with that Pod going, makes
  the controller build a Pod for a machine that has failed.
- `"secret" \notin Foreign` (`MemberIsNotAbandoned`): the Secret is created after
  the finalizer and the provider ID were read, and a Pod cannot start without it.
  With somebody else's Secret under the name (see `machine_foreign_secret`) a
  Pod starts earlier, and a lost Pod may be replaced while a stale copy is acted
  upon.
- `"service" \notin FaultKinds` (the endpoint): a Service that is lost and created
  again, or edited, has another address, and a port that was removed is recorded
  as 0. `SettledOnService` and `PhaseIsSettled` do not need it.
- `"infraReady" \notin InitiallyGiven` (`MachineWaitsForCluster`): the infrastructure is
  not reported ready at the start, when the modelled KubernetesCluster is not.
- `V1alpha2Agrees` speaks of a cluster that is not paused: a pause that comes
  between the patches of Ready and of the endpoint keeps the second from being
  tried again until it ends.

### The arguments

The inductive invariants are defined in the proof modules, next to their proofs.

`ReadyIsBacked` is not inductive: `PatchStatus` sets `ready` from
a copy, so the copy must be known to carry the provider ID, and the spec on the
API server must still carry it although it was sent by an earlier
reconciliation. `NoReplacementOnceReady` needs the converse: a reconciliation
about to create a Pod has read an object without provider ID, hence from a time
before Ready, and Ready cannot have been patched meanwhile since it is patched
by the same single worker. `ReadyInv` puts this together: the provider ID is
never withdrawn, so each of API server, cache and in-memory copy has it if the
next, staler one has it (`ProviderIDIsStable`); Ready appears only after the
cache has shown the provider ID and the Node was patched
(`ReadyFollowsProviderID`); which live call is next tells whether the provider
ID was read (`StepsFollowProviderID`); and the cache and the copies trail the
object's existence (`CacheTrailsExistence`). The proof reduces `Next` to a few
effects: what `Reconcile` decides (`ReconcileDecides`), what live calls do
(`CallsEffect`), the two patches, a cache catching up, deletion, and steps that
touch none of the variables involved (`FrameLinks`).

`LifecycleInv` adds to `ReadyInv` and `PodsInv` (a Pod in the API server, in the
cache or in a reconciliation's hands has been built, and the last was seen to be
the machine's own) what a reconciliation may change in its copy (`CopyIsSober`)
and that a failure is decided only from a copy that rules out another Pod, as do
all later copies: a stale cache may miss the failure, but not what led to it
(`FailureIsFinal`). The refinement then goes action by action: all but the
creation of a Pod and the two patches stutter in `MachineLifecycle`.

`MemberInv` is about an order: the finalizer arrives no later than the provider
ID, the Secret is created only after the provider ID has been read, and no Pod
starts without the Secret (`FinalizerIsKept`, `StartedIsLast`). So once a Pod has
started no copy in use lacks the provider ID, without recreation no other Pod
follows it, and the cache does not lose sight of the one that was told to
bootstrap (`CacheShowsMember`). A reconciliation that releases the finalizer has
read the deletion, and the Pod it looked at, or did not find, is the member's
(`MemberIsHeld`).

What is proved of the machine alone holds in `Provider` because each of its steps is,
for the machine, a step of `OpenNext` (`MachineSteps`), and for the cluster, whose
steps are those of `ClusterLifecycle`, one of these or none (`ClusterSteps`). That the machine waits for the cluster is
a fact about stale copies: a finalizer or a Pod may be on its way in the cached
machine, in a reconciliation's copy or as its next call. `Begun` names all these
places, and `WaitsInv` says that the infrastructure has been reported ready if any of
them holds something; only `reconcileNormal` begins (`NextBegins`), and nobody
withdraws what was reported (`MachineSteps`).

`PhaseInv` and `WakeupInv` say of any moment what `PhaseSettles` and
`NoLostWakeup` say of a quiet one. As long as no request is queued, the copy that
a reconciliation works on is the cached one (`UnqueuedIsCurrent`): every event
that could make it stale queues a request. So what it decides is right for the
cache, and what it writes comes back as an event unless it changes nothing. Of what
others provide, a reconciliation that was not interrupted by an event has read
everything but, perhaps, what is not watched (`ArrivalsQueue`); what was decided on
such an incomplete reading is excluded where `Overlooked = {}` (`Undisturbed`). The
cluster's `WakeupInv` has the same form.

`EndpointInv`: while the Service keeps its address (`ServiceIsSteady`), an earlier
copy has the recorded endpoint, or had none where the one that is served is
recorded now (`EndpointsAreBehind`), so that patches from stale copies write the
same endpoint again.

`FleetInv`: a Pod is built once for each machine, a call is under way only for a
machine that is entitled to it, and what is reported comes in order. It is
quantified over the machines, so the instance of the refinement for one machine
has to show that the steps of all others stutter.

`MachinePod` has few steps and much data. `BuildInv` says that all ways into the
API server lead to the same stored machine and that the Pod is the function of it
that the actions compute; the rest are lemmas about that function: which
container becomes the kind container, that it is found again at the same place
(`FoundAgain`), what is mounted there, what the volumes are called and where they
come from (`BuiltVolumes`), and that the changes keep a Pod valid (`StaysValid`).
What `GetPodQOS` computes for a list of any length needs induction. The library's
induction theorems cannot be instantiated by the provers, but the existence of a
minimum in a set of numbers can (`LeastNumber`, from `WFMin`), and with it
induction over a set (`SetInduction`). It gives that the sums exist and add up
(`SumAddsUp`), and that sums are equal only if the amounts are, as long as no
request exceeds its limit (`EqualSums`): the reason why comparing sums is enough
for a Pod that the API server takes, and only for such a Pod.

`CloudInitProofs` reasons the same way about lists. `FlattenSeq`, `Read`, `Run` and
`Configured` are recursive functions within an operator; for lists of any length it is
shown that the recursion has a solution, that the solution is unique (`SameTrace`), and
from both what one more element does to the result. `ConfigInv` then splits the
cloud-config into the lines scanned and `rest`. The lines scanned end below some key
(`Position`), which is that of the current action unless the scanner missed it
(`ca-certs`); the lines kept since the action's key hold no items but those that the
cloud-config has below that key (`OpenBlock`); the script of the actions found so far,
the open one included, does what the items read so far ask for (`DoneSoFar`); and a
file that cannot be decoded is one of the cloud-config's (`DecodedSoFar`). A line
scanned adds at most one item to both sides, so it is enough to compare one item's
statements with what the item asks for.

### Only model-checked

- Liveness, which is out of the prover's reach: `Heals`, `Provisioned`,
  `DeletionCompletesWithoutReset`, `NothingLeftBehind` of the machine;
  `Provisioned`, `DeletionCompletes`, `NothingLeftBehind` of the cluster;
  `ClusterComesUp`, `TeardownCompletes`; `MachinesComeUp`, `DeletionsComplete`.
- The two runs that show the code to disagree with its comments.

## Not modelled

- Objects that an earlier release has created.
- Flags and leader election in `main.go`; logging and recorded events; what
  flows through the streams of an exec.
- Faults of a machine and of its KubernetesCluster at the same time, and
  recreation together with deletion and three faults: too many states.
- End-to-end tests, generated deep copies, manifests.

## What is left

The parts that carry the logic are modelled, and every safety property, action
property and refinement that a run checks is proved. Not covered:

1. Recreation together with a deletion: `MemberNotAbandoned` and the proof of
   `MemberInv` concern machines that are not recreated. With recreation, a cache that
   lags behind two Pods of one name may show none while a third runs a member.
2. Objects that an earlier release has created, whose owner references name another
   API version.
3. A proof that fairness gives what the liveness properties say.
