-------------------------------- MODULE Fleet --------------------------------
(***************************************************************************)
(* The machines of one cluster and what they do to each other.  The        *)
(* KubernetesMachine controller has one worker for all machines            *)
(* (MaxConcurrentReconciles is left at 1), its commands run in Pods        *)
(* without a deadline, and the Node of every machine is patched through    *)
(* the Pod of some control plane machine.  A reconciliation is cut down to *)
(* what crosses from one machine to another: caches, patches, claims and   *)
(* failing API calls are those of KubernetesMachine and are left out.      *)
(* Recreation is not allowed, deletion is in the foreground, and the       *)
(* Cluster stays.                                                          *)
(***************************************************************************)
EXTENDS Naturals

CONSTANTS
  Machines,
  ControlPlanes,  \* the control plane machines
  Established,    \* the machines that are ready at the start
  Deletable,      \* the machines that may be deleted
  MaxHangs,       \* bound on the commands that hang
  MaxBroken       \* bound on the kind containers that terminate

ASSUME FleetMachinesAssumption ==
  ControlPlanes \cup Established \cup Deletable \subseteq Machines
ASSUME FleetBoundsAssumption == MaxHangs \in Nat /\ MaxBroken \in Nat

VARIABLES
  pod,       \* each machine's Pod
  made,      \* the machines whose Pod has been created
  provided,  \* the machines with a provider ID
  ready,     \* the machines that are reported ready
  failed,    \* the machines that are reported failed
  booted,    \* the machines whose bootstrap process has been enabled
  deleting,  \* the machines being deleted
  released,  \* the machines without the controller's finalizer
  gone,      \* the machines that have been removed
  queue,     \* the work queue
  worker,    \* what the worker does
  hangs,     \* number of commands that have hung
  broken     \* number of containers that have terminated

progress == <<made, provided, ready, failed, booted>>
deletion == <<deleting, released, gone>>
vars == <<pod, progress, deletion, queue, worker, hangs, broken>>

PodStates == {"none", "starting", "running", "ready", "terminated"}
Up == {"running", "ready"}

Idle == [step |-> "idle"]

(* The next call for machine m, a command in the Pod of machine p; seen is *)
(* m's Pod as the reconciliation has read it.                              *)
Calling(s, m, p, seen) == [step |-> s, machine |-> m, at |-> p, seen |-> seen]

(* The reconciliation ends with an error, which queues it again, or        *)
(* without.                                                                *)
Retry(m) == worker' = Idle /\ queue' = queue \cup {m}
Done == worker' = Idle /\ UNCHANGED queue

-----------------------------------------------------------------------------
(* A reconciliation up to its first command.                               *)

Take(m) ==
  /\ worker = Idle /\ m \in queue
  /\ UNCHANGED <<hangs, broken>>

Alright(m) == Take(m) /\ m \notin deleting \cup gone \cup failed

(* The object is gone, has failed, or waits for its Pod.                   *)
ReconcileNothing(m) ==
  /\ Take(m)
  /\ \/ m \in gone \cup (failed \ deleting)
     \/ Alright(m) /\ m \in provided /\ pod[m] = "starting"
  /\ queue' = queue \ {m}
  /\ UNCHANGED <<pod, progress, deletion, worker>>

CreatePod(m) ==
  /\ Alright(m)
  /\ m \notin provided /\ pod[m] = "none"
  /\ pod' = [pod EXCEPT ![m] = "starting"] /\ made' = made \cup {m}
  /\ UNCHANGED <<provided, ready, failed, booted, deletion, queue, worker>>

(* The patch is an event of the machine, which queues it again.            *)
SetProviderID(m) ==
  /\ Alright(m)
  /\ m \notin provided /\ pod[m] # "none"
  /\ provided' = provided \cup {m}
  /\ UNCHANGED <<pod, made, ready, failed, booted, deletion, queue, worker>>

FailMachine_Rebuilds(m) ==
  /\ Alright(m)
  /\ m \in provided /\ pod[m] \in {"none", "terminated"}
  /\ pod' = [pod EXCEPT ![m] = "starting"] /\ ready' = ready \ {m}
  /\ UNCHANGED <<made, provided, failed, booted, deletion, queue, worker>>

(* A Pod that is lost or has terminated is not replaced.                   *)
FailMachine(m) ==
  /\ Alright(m)
  /\ m \in provided /\ pod[m] \in {"none", "terminated"}
  /\ failed' = failed \cup {m}
  /\ UNCHANGED <<pod, made, provided, ready, booted, deletion, queue, worker>>

BootMachine(m) ==
  /\ Alright(m)
  /\ m \in provided /\ pod[m] \in Up
  /\ worker' = Calling("enable", m, m, pod[m])
  /\ queue' = queue \ {m}
  /\ UNCHANGED <<pod, progress, deletion>>

DeleteMachine_InsistsOnReset(m) ==
  /\ Take(m) /\ m \in deleting \ gone
  /\ IF m \in ControlPlanes
       THEN worker' = Calling("reset", m, m, pod[m]) /\ UNCHANGED released
       ELSE released' = released \cup {m} /\ UNCHANGED worker
  /\ queue' = queue \ {m}
  /\ UNCHANGED <<pod, progress, deleting, gone>>

(* Only a control plane machine that still has a Pod is reset.             *)
DeleteMachine(m) ==
  /\ Take(m)
  /\ m \in deleting \ gone
  /\ IF m \in ControlPlanes /\ pod[m] # "none"
       THEN worker' = Calling("reset", m, m, pod[m]) /\ UNCHANGED released
       ELSE released' = released \cup {m} /\ UNCHANGED worker
  /\ queue' = queue \ {m}
  /\ UNCHANGED <<pod, progress, deleting, gone>>

Reconcile(m) ==
  \/ ReconcileNothing(m) \/ CreatePod(m) \/ SetProviderID(m) \/ FailMachine(m)
  \/ BootMachine(m) \/ DeleteMachine(m)

-----------------------------------------------------------------------------
(* The commands, each in a Pod that must be up.                            *)

Calls(s) == worker.step = s /\ UNCHANGED <<pod, deletion, broken>>

(* The command starts its machine's bootstrap; a container that was not    *)
(* ready when it was read ends the reconciliation.                         *)
Enable ==
  /\ Calls("enable")
  /\ LET m == worker.machine
     IN \/ pod[m] \notin Up /\ Retry(m) /\ UNCHANGED booted
        \/ pod[m] \in Up /\ booted' = booted \cup {m}
             /\ IF worker.seen = "ready"
                  THEN worker' = [worker EXCEPT !.step = "find"] /\ UNCHANGED queue
                  ELSE Done
  /\ UNCHANGED <<made, provided, ready, failed, hangs>>

ControllerPods == {c \in ControlPlanes : pod[c] # "none"}

Choices_Sorted ==
  IF ControllerPods = {} THEN {} ELSE {CHOOSE c \in ControllerPods : TRUE}

(* podList.Items[0] of a list that comes from a map, in no fixed order.    *)
Choices == ControllerPods

(* The Pod through which the Node will be patched: any control plane Pod,  *)
(* whatever its state.                                                     *)
FindControllerPod(c) ==
  /\ Calls("find")
  /\ c \in Choices
  /\ worker' = [worker EXCEPT !.step = "patchNode", !.at = c]
  /\ UNCHANGED <<progress, queue, hangs>>

NoControllerPod ==
  /\ Calls("find")
  /\ Choices = {}
  /\ Retry(worker.machine)
  /\ UNCHANGED <<progress, hangs>>

(* kubectl needs a control plane that has bootstrapped.  The machine's     *)
(* Node is there: it joins with the bootstrap.                             *)
PatchNode ==
  /\ Calls("patchNode")
  /\ LET m == worker.machine
     IN IF pod[worker.at] \in Up /\ worker.at \in booted
          THEN ready' = ready \cup {m} /\ Done
          ELSE Retry(m) /\ UNCHANGED ready
  /\ UNCHANGED <<made, provided, failed, booted, hangs>>

Reset ==
  /\ worker.step = "reset"
  /\ LET m == worker.machine
     IN IF pod[m] \in Up THEN released' = released \cup {m} /\ Done
                         ELSE Retry(m) /\ UNCHANGED released
  /\ UNCHANGED <<pod, progress, deleting, gone, hangs, broken>>

(* exec.Stream waits without a deadline, until the container goes.         *)
Hang ==
  /\ worker.step \in {"enable", "patchNode", "reset"} /\ pod[worker.at] \in Up
  /\ hangs < MaxHangs /\ hangs' = hangs + 1
  /\ worker' = [worker EXCEPT !.step = "hung"]
  /\ UNCHANGED <<pod, progress, deletion, queue, broken>>

HangEnds ==
  /\ Calls("hung")
  /\ pod[worker.at] \notin Up
  /\ Retry(worker.machine)
  /\ UNCHANGED <<progress, hangs>>

Command == Enable \/ NoControllerPod \/ PatchNode \/ Reset \/ HangEnds

-----------------------------------------------------------------------------
(* The kubelet, the garbage collector and the users.                       *)

(* A Pod's state changes, which queues its machine.                        *)
PodBecomes(m, s) ==
  /\ pod' = [pod EXCEPT ![m] = s]
  /\ queue' = queue \cup {m}
  /\ UNCHANGED <<progress, worker, hangs>>

(* A control plane is ready when its API server answers.                   *)
PodStarts(m) ==
  /\ \/ pod[m] = "starting" /\ m \in provided /\ PodBecomes(m, "running")
     \/ pod[m] = "running" /\ (m \in ControlPlanes => m \in booted) /\ PodBecomes(m, "ready")
  /\ UNCHANGED <<deletion, broken>>

KindTerminates(m) ==
  /\ pod[m] \in Up
  /\ broken < MaxBroken /\ broken' = broken + 1
  /\ PodBecomes(m, "terminated")
  /\ UNCHANGED deletion

CollectPod(m) ==
  /\ m \in deleting /\ pod[m] # "none"
  /\ PodBecomes(m, "none")
  /\ UNCHANGED <<deletion, broken>>

CollectMachine(m) ==
  /\ m \in released \ gone /\ pod[m] = "none"
  /\ gone' = gone \cup {m}
  /\ UNCHANGED <<pod, progress, deleting, released, queue, worker, hangs, broken>>

Delete(m) ==
  /\ m \in Deletable \ deleting
  /\ deleting' = deleting \cup {m}
  /\ queue' = queue \cup {m}
  /\ UNCHANGED <<pod, progress, released, gone, worker, hangs, broken>>

-----------------------------------------------------------------------------
Init ==
  /\ pod = [m \in Machines |-> IF m \in Established THEN "ready" ELSE "none"]
  /\ made = Established /\ provided = Established /\ ready = Established
  /\ booted = Established /\ failed = {}
  /\ deleting = {} /\ released = {} /\ gone = {}
  /\ queue = Machines \ Established /\ worker = Idle
  /\ hangs = 0 /\ broken = 0

Kubelet == \E m \in Machines : PodStarts(m)
GarbageCollector == \E m \in Machines : CollectPod(m) \/ CollectMachine(m)

Next ==
  \/ \E m \in Machines : Reconcile(m) \/ KindTerminates(m) \/ Delete(m)
  \/ Kubelet \/ GarbageCollector
  \/ Command \/ Hang \/ \E c \in ControlPlanes : FindControllerPod(c)

Spec == Init /\ [][Next]_vars

(* The work queue is served in turn and a command that does not hang ends; *)
(* every control plane Pod is the first of the list now and then, because  *)
(* the cache lists its Pods in random order; kubelet and garbage collector *)
(* go on.                                                                  *)
Fairness ==
  /\ \A m \in Machines : SF_vars(Reconcile(m))
  /\ WF_vars(Command)
  /\ WF_vars(Kubelet) /\ WF_vars(GarbageCollector)
  /\ \A c \in ControlPlanes : SF_vars(FindControllerPod(c))

FairSpec == Spec /\ Fairness

-----------------------------------------------------------------------------
(* Properties.                                                             *)

Hung == worker.step = "hung"

(* A control plane that can serve: bootstrapped, up, and not on its way    *)
(* out.                                                                    *)
Serving(c) == c \in booted \ deleting /\ pod[c] \in Up

(* As long as some control plane serves and no command hangs for ever,     *)
(* every machine becomes ready, is reported as failed or is deleted,       *)
(* although its Node may be patched through a control plane that has       *)
(* broken, has not bootstrapped yet or is going.                           *)
MachinesComeUp ==
  <>[]((\E c \in ControlPlanes : Serving(c)) /\ ~Hung)
    => <>[](Machines \subseteq ready \cup failed \cup deleting)

(* The machines that are deleted go.  Their own Pods cannot hold the       *)
(* worker: they are taken from under a command that hangs in them.  Only a *)
(* command that hangs in the Pod of a machine that stays can keep them,    *)
(* and then it keeps all of them.                                          *)
DeletionsComplete ==
  <>[](deleting \subseteq gone) \/ <>[](Hung /\ worker.at \notin deleting)

(* Every machine keeps to the contract of MachineLifecycle whatever the    *)
(* others do to the worker and to the control planes.                      *)
Stage(m) ==
  CASE m \in gone -> "gone"
    [] m \in ready \ gone -> "running"
    [] m \in provided \ (ready \cup gone) -> "provisioned"
    [] OTHER -> "pending"

Lifecycle(m) ==
  INSTANCE MachineLifecycle
    WITH stage <- Stage(m), failed <- m \in failed \ gone,
         terminating <- m \in deleting \ gone,
         builds <- IF m \in made THEN 1 ELSE 0, rebuildable <- FALSE

ImplementsLifecycles ==
  /\ \A m \in Machines \ Established : Lifecycle(m)!Init
  /\ [][\A m \in Machines : [Lifecycle(m)!Next]_(Lifecycle(m)!vars)]_vars

-----------------------------------------------------------------------------
(* The types, for the proofs.                                              *)

Steps == {"enable", "find", "patchNode", "reset", "hung"}

TypeOK ==
  /\ pod \in [Machines -> PodStates]
  /\ made \subseteq Machines /\ provided \subseteq Machines /\ ready \subseteq Machines
  /\ failed \subseteq Machines /\ booted \subseteq Machines
  /\ deleting \subseteq Machines /\ released \subseteq Machines /\ gone \subseteq Machines
  /\ queue \subseteq Machines
  /\ worker \in {Idle} \cup [step : Steps, machine : Machines, at : Machines, seen : PodStates]
  /\ hangs \in 0 .. MaxHangs /\ broken \in 0 .. MaxBroken
=============================================================================
