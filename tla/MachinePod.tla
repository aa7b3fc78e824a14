----------------------------- MODULE MachinePod -----------------------------
(***************************************************************************)
(* What becomes of a KubernetesMachine that a user writes: the webhook and *)
(* the conversion of src/api on its way into the API server, and then what *)
(* createMachinePod makes of it, the Pod that is sent to the API server,   *)
(* from the PodSpec, the volume claim templates and the defaults of        *)
(* src/controllers/kubernetesmachine_controller.go.                        *)
(*                                                                         *)
(* A Pod is a sequence of containers and a set of volumes.  Only names,    *)
(* mounts, ports, labels and compute resources are kept: image, TTY,       *)
(* security context, probe and restart policy are set without a condition  *)
(* that matters to the rest.                                               *)
(***************************************************************************)
EXTENDS PodQOS, Conversion

CONSTANTS
  Specs,          \* the PodSpecs users may write: [listed, containers, initContainers,
                  \* volumes]; one that lists no containers at all is not listed
  ClaimTemplates  \* the sets of volume claim templates they may add

(* What the schema says of the parts kept here; a volume that the user     *)
(* writes is neither a claim nor one of the defaults.                      *)
Mounts == [volume : STRING, path : STRING]
Containers ==
  [name : STRING, mounts : SUBSET Mounts, ports : SUBSET STRING, resources : Quantities(Nat)]
PodSpecs ==
  [listed : BOOLEAN, containers : Seq(Containers), initContainers : Seq(Containers),
   volumes : SUBSET [name : STRING, source : {"user"}]]

ASSUME PodSpecsAssumption == Specs \subseteq PodSpecs
ASSUME ClaimTemplatesAssumption == \A claims \in ClaimTemplates : claims \subseteq STRING

VARIABLES
  machine,     \* the user's KubernetesMachine: [spec, claims, controlPlane]
  stored,      \* the same as the controller reads it
  machinePod,  \* the Pod that was built
  answer       \* the API server's: "none" yet; to the machine "rejected" or
               \* "admitted", and then to its Pod "created" or "refused"

vars == <<machine, stored, machinePod, answer>>

-----------------------------------------------------------------------------
(* The objects.                                                            *)

Volume(n, s) == [name |-> n, source |-> s]
Mount(n, p) == [volume |-> n, path |-> p]
Container(n, ms, ps, rs) == [name |-> n, mounts |-> ms, ports |-> ps, resources |-> rs]

NoResources == [requests |-> [r \in Resources |-> 0], limits |-> [r \in Resources |-> 0]]
EmptyContainer == Container("", {}, {}, NoResources)
NoPod == [labels |-> {}, containers |-> <<>>, initContainers |-> <<>>, volumes |-> {}]
NoMachine ==
  [spec |-> [listed |-> FALSE, containers |-> <<>>, initContainers |-> <<>>, volumes |-> {}],
   claims |-> {}, controlPlane |-> FALSE]

kindContainerName == "kind"
apiServerPortName == "kube-apiserver"
varLibEtcdVolumeName == "var-lib-etcd"
varLibEtcdVolumeMountPath == "/var/lib/etcd"

Names(objects) == {o.name : o \in objects}
KindIn(containers) == {i \in DOMAIN containers : containers[i].name = kindContainerName}

(* The API server's validation, as far as it concerns the parts kept here. *)
Valid(pod) ==
  LET all == pod.containers \o pod.initContainers
  IN /\ \A i, j \in DOMAIN all : all[i].name = all[j].name => i = j
     /\ \A i \in DOMAIN all :
          /\ all[i].name # ""
          /\ \A m \in all[i].mounts :
               /\ m.volume \in Names(pod.volumes)
               /\ \A n \in all[i].mounts : n.path = m.path => n = m
          /\ \A r \in Resources :
               all[i].resources.limits[r] > 0
                 => all[i].resources.requests[r] <= all[i].resources.limits[r]
     /\ \A v, w \in pod.volumes : v.name = w.name => v = w
     /\ pod.containers # <<>>

-----------------------------------------------------------------------------
(* Into the API server.                                                    *)

machineSpec(m) ==
  [providerID |-> FALSE, allowRecreation |-> FALSE,
   podSpec |-> m.spec, volumeClaimTemplates |-> m.claims]

Defaulted(s) == [s EXCEPT !.podSpec = Default(@)]

NewV1alpha2Machine(s) ==
  [meta |-> "new", spec |-> s, version |-> FALSE, error |-> FALSE, phase |-> "", ready |-> FALSE]

NewTemplate(s) == [meta |-> "new", spec |-> s]

(* The user writes a KubernetesMachine in either version, or a template    *)
(* (of v1alpha2, perhaps edited there once more) from which the Machine    *)
(* controller clones one.                                                  *)
Arrivals(m) ==
  LET s == machineSpec(m)
      template == TemplateConvertTo(NewTemplate(s))
      edited == TemplateConvertTo(TemplateConvertFrom(template))
  IN {Defaulted(s), MachineConvertTo(NewV1alpha2Machine(Defaulted(s))).spec,
      Defaulted(template.spec), Defaulted(edited.spec)}

(* The webhook decodes the machine and encodes it again: a list that is    *)
(* still left out becomes null, which the schema does not take for a list. *)
Admit ==
  /\ answer = "none"
  /\ \E s \in Arrivals(machine) :
       /\ answer' = IF s.podSpec.listed THEN "admitted" ELSE "rejected"
       /\ stored' = [machine EXCEPT !.spec = s.podSpec, !.claims = s.volumeClaimTemplates]
  /\ UNCHANGED <<machine, machinePod>>

-----------------------------------------------------------------------------
(* The volumes.                                                            *)

(* The defaults that need nothing of the machine, and those that project   *)
(* keys of its cloud-init Secret.                                          *)
PlainVolumes == {"tmp", "run", "lib-modules", "var-lib-containerd", "var-log"}

SecretItems ==
  [name \in {"cloud-init-scripts", "cloud-init-systemd-units",
             "etc-systemd-system-kubelet-service-d"} |->
     CASE name = "cloud-init-scripts" -> {"bootstrap.sh", "install.sh"}
       [] name = "cloud-init-systemd-units" -> {"cloud-init.service", "cloud-init.path"}
       [] OTHER -> {"20-capk.conf"}]

generatateCloudInitSecret_NoDropin ==
  {"bootstrap.sh", "install.sh", "cloud-init.service", "cloud-init.path"}

generatateCloudInitSecret ==
  {"bootstrap.sh", "install.sh", "cloud-init.service", "cloud-init.path", "20-capk.conf"}

(* A default volume is added only under a name the user left free.         *)
AddMissing(volumes, names, source) ==
  volumes \cup {Volume(n, source) : n \in names \ Names(volumes)}

getMachinePodBase(spec) ==
  [labels |-> {"cluster"},
   containers |-> spec.containers,
   initContainers |-> spec.initContainers,
   volumes |-> AddMissing(AddMissing(spec.volumes, PlainVolumes, "default"),
                          DOMAIN SecretItems, "secret")]

updateStorage_YieldsToVolumes(pod, claims) ==
  [pod EXCEPT !.volumes = AddMissing(@, claims, "claim")]

(* A claim replaces a volume of the same name, default or not.             *)
updateStorage(pod, claims) ==
  [pod EXCEPT !.volumes = {Volume(c, "claim") : c \in claims}
                            \cup {v \in @ : v.name \notin claims}]

-----------------------------------------------------------------------------
(* The kind container.                                                     *)

(* Only a path that is not mounted yet is mounted.  The mounts have        *)
(* different paths, so that their order does not matter.                   *)
setVolumeMount(container, mounts) ==
  [container EXCEPT !.mounts = @ \cup {m \in mounts : \A n \in @ : n.path # m.path}]

kindMounts ==
  {Mount("tmp", "/tmp"), Mount("run", "/run"), Mount("lib-modules", "/lib/modules"),
   Mount("var-lib-containerd", "/var/lib/containerd"), Mount("var-log", "/var/log"),
   Mount("cloud-init-scripts", "/opt/cloud-init"),
   Mount("cloud-init-systemd-units", "/etc/systemd/system/cloud-init.service"),
   Mount("cloud-init-systemd-units", "/etc/systemd/system/cloud-init.path"),
   Mount("etc-systemd-system-kubelet-service-d",
         "/etc/systemd/system/kubelet.service.d/20-capk.conf")}

(* Where the kind container is found, the last of that name, or else       *)
(* created: the loop's index shadows the one used after it, which is still *)
(* -1, so it is always the first container that becomes the kind           *)
(* container.                                                              *)
kindIndex(containers) ==
  IF KindIn(containers) # {}
    THEN CHOOSE i \in KindIn(containers) : \A j \in KindIn(containers) : j <= i
    ELSE 1

EnsureNotBestEffort_Inverted(container, all) ==
  IF GetPodQOS([i \in DOMAIN all |-> all[i].resources]) = "BestEffort"
    THEN container
    ELSE [container EXCEPT !.resources = [NoResources EXCEPT !.requests["cpu"] = 1]]

EnsureNotBestEffort(container, all) ==
  IF GetPodQOS([i \in DOMAIN all |-> all[i].resources]) = "BestEffort"
    THEN [container EXCEPT !.resources = [NoResources EXCEPT !.requests["cpu"] = 1]]
    ELSE container

setKindContainerBase(pod) ==
  LET found == IF KindIn(pod.containers) # {} THEN pod.containers
                                              ELSE Append(pod.containers, EmptyContainer)
      i == kindIndex(pod.containers)
      named == [found EXCEPT ![i].name = kindContainerName]
      kind == EnsureNotBestEffort(named[i], named \o pod.initContainers)
  IN [pod EXCEPT !.containers = [named EXCEPT ![i] = setVolumeMount(kind, kindMounts)]]

-----------------------------------------------------------------------------
(* The two kinds of machine.                                               *)

workerMachinePod(m) ==
  setKindContainerBase(updateStorage(getMachinePodBase(m.spec), m.claims))

controlPlaneMachinePod(m) ==
  LET base == [getMachinePodBase(m.spec) EXCEPT !.labels = @ \cup {"control-plane"}]
      pod == setKindContainerBase(updateStorage(base, m.claims))
      i == kindIndex(pod.containers)
      kind == setVolumeMount(pod.containers[i],
                             {Mount(varLibEtcdVolumeName, varLibEtcdVolumeMountPath)})
  IN [pod EXCEPT
        !.volumes = AddMissing(@, {varLibEtcdVolumeName}, "default"),
        !.containers[i] = [kind EXCEPT !.ports = @ \cup {apiServerPortName}]]

(* r.Create: the API server stores the Pod or refuses it; the reconciler   *)
(* tries again, with the same result.                                      *)
Create(pod) ==
  /\ machinePod' = pod
  /\ answer' = IF Valid(pod) THEN "created" ELSE "refused"
  /\ UNCHANGED <<machine, stored>>

createControlPlaneMachinePod ==
  /\ answer \in {"admitted", "refused"} /\ stored.controlPlane
  /\ Create(controlPlaneMachinePod(stored))

createWorkerMachinePod ==
  /\ answer \in {"admitted", "refused"} /\ ~stored.controlPlane
  /\ Create(workerMachinePod(stored))

Init ==
  /\ machine \in [spec : Specs, claims : ClaimTemplates, controlPlane : BOOLEAN]
  /\ stored = NoMachine /\ machinePod = NoPod
  /\ answer = "none"

Next == Admit \/ createControlPlaneMachinePod \/ createWorkerMachinePod

Spec == Init /\ [][Next]_vars

-----------------------------------------------------------------------------
(* Properties.                                                             *)

Built == answer \in {"created", "refused"}
kindContainer == machinePod.containers[kindIndex(machinePod.containers)]

(* What the user mounts in the container that becomes the kind container.  *)
ownMounts ==
  LET containers == machine.spec.containers
  IN UNION {containers[i].mounts : i \in {kindIndex(containers)} \cap DOMAIN containers}

(* The machine's own PodSpec is sound: with the kind container, the        *)
(* default volumes and the claims, which the controller adds, the API      *)
(* server would take it.  The name of the kind container is the            *)
(* controller's, so that no init container may have it.                    *)
SoundSpec ==
  Valid([machine.spec EXCEPT
           !.containers = IF @ = <<>> THEN <<Container(kindContainerName, {}, {}, NoResources)>>
                                      ELSE @,
           !.volumes = AddMissing(@, PlainVolumes \cup DOMAIN SecretItems \cup machine.claims
                                       \cup (IF machine.controlPlane THEN {varLibEtcdVolumeName}
                                                                     ELSE {}), "added")])

(* A sound PodSpec that names its kind container, or leaves all containers *)
(* out, is stored and becomes a Pod that the API server takes: no default  *)
(* collides with what the user wrote, and every mount has its volume.      *)
SoundSpecIsCreated ==
  SoundSpec /\ (machine.spec.containers = <<>> \/ KindIn(machine.spec.containers) # {})
    => answer \notin {"rejected", "refused"}

(* Whichever version the user writes, and through a template or not, the   *)
(* Pod has every claim the user asks for and every volume that no claim    *)
(* replaces, and its kind container every mount.                           *)
UserStorageKept ==
  Built =>
    /\ \A c \in machine.claims : Volume(c, "claim") \in machinePod.volumes
    /\ \A v \in machine.spec.volumes : v.name \notin machine.claims => v \in machinePod.volumes
    /\ ownMounts \subseteq kindContainer.mounts

(* docs/persistence.md: with a claim named var-lib-etcd a control plane    *)
(* keeps its etcd data on that claim, unless the user mounts another       *)
(* volume there; never on a volume that goes with the Pod.                 *)
EtcdOnItsClaim ==
  Built /\ machine.controlPlane /\ varLibEtcdVolumeName \in machine.claims =>
    \A m \in kindContainer.mounts :
      m.path = varLibEtcdVolumeMountPath =>
        m \in ownMounts \/ Volume(m.volume, "claim") \in machinePod.volumes

(* The comment on the resources: the machine Pod is never best effort,     *)
(* whatever requests its containers and init containers have.              *)
NeverBestEffort ==
  Built =>
    LET all == machinePod.containers \o machinePod.initContainers
    IN GetPodQOS([i \in DOMAIN all |-> all[i].resources]) # "BestEffort"

(* The comment on GetPodQOS, container by container: best effort when no   *)
(* container asks for or limits anything, guaranteed when every container  *)
(* asks for exactly its limit of every resource.  The code, which compares *)
(* sums over the containers, is not taken in by amounts that cancel.       *)
ClassAsDocumented ==
  answer = "created" =>
    LET all == machinePod.containers \o machinePod.initContainers
        rs == [i \in DOMAIN all |-> all[i].resources]
        none == \A i \in DOMAIN rs, r \in Resources :
                  rs[i].requests[r] = 0 /\ rs[i].limits[r] = 0
        exact == \A i \in DOMAIN rs, r \in Resources :
                   rs[i].limits[r] > 0 /\ rs[i].requests[r] = rs[i].limits[r]
    IN /\ (GetPodQOS(rs) = "BestEffort") = none
       /\ (GetPodQOS(rs) = "Guaranteed") = exact

(* Each key of the cloud-init Secret that a Pod projects is one that the   *)
(* controller writes into the Secret: the kubelet can start the Pod.       *)
ProjectedKeysExist ==
  Built => \A v \in machinePod.volumes :
             v.source = "secret" => SecretItems[v.name] \subseteq generatateCloudInitSecret
=============================================================================
