--------------------------- MODULE MachineLifecycle ---------------------------
(***************************************************************************)
(* What a KubernetesMachine promises to whoever watches it, the Machine    *)
(* controller of Cluster API above all: the fields that others act upon    *)
(* (spec.providerID, status.ready, status.failureReason, the deletion) and *)
(* the Pods built for it.  No cache, no call and no controller appears     *)
(* here; KubernetesMachine implements this specification.                  *)
(***************************************************************************)
EXTENDS Naturals

VARIABLES
  stage,        \* how far the machine has come
  failed,       \* a terminal problem has been reported
  terminating,  \* the machine is being deleted
  builds,       \* number of Pods built for the machine
  rebuildable   \* the user allows a lost Pod to be rebuilt, never changed

vars == <<stage, failed, terminating, builds, rebuildable>>

Stages == {"pending", "provisioned", "running", "gone"}

Init ==
  /\ stage = "pending" /\ failed = FALSE /\ terminating = FALSE
  /\ builds = 0 /\ rebuildable \in BOOLEAN

(* A machine that runs is not replaced behind its user's back, and one     *)
(* that has failed is not tried again.                                     *)
Build ==
  /\ ~failed
  /\ stage = "running" => rebuildable
  /\ builds' = builds + 1
  /\ UNCHANGED <<stage, failed, terminating, rebuildable>>

(* The provider ID names a Pod that has been built.                        *)
Provision ==
  /\ stage = "pending" /\ builds > 0
  /\ stage' = "provisioned"
  /\ UNCHANGED <<failed, terminating, builds, rebuildable>>

Run ==
  /\ stage = "provisioned"
  /\ stage' = "running"
  /\ UNCHANGED <<failed, terminating, builds, rebuildable>>

(* Only the loss of a Pod that may be rebuilt takes Ready back.            *)
Interrupt ==
  /\ stage = "running" /\ rebuildable
  /\ stage' = "provisioned"
  /\ UNCHANGED <<failed, terminating, builds, rebuildable>>

Fail ==
  /\ stage # "gone" /\ ~failed
  /\ failed' = TRUE
  /\ UNCHANGED <<stage, terminating, builds, rebuildable>>

Terminate ==
  /\ stage # "gone" /\ ~terminating
  /\ terminating' = TRUE
  /\ UNCHANGED <<stage, failed, builds, rebuildable>>

(* Nothing of the object is left, and it does not come back.               *)
Remove ==
  /\ stage # "gone"
  /\ stage' = "gone" /\ failed' = FALSE /\ terminating' = FALSE
  /\ UNCHANGED <<builds, rebuildable>>

Next == Build \/ Provision \/ Run \/ Interrupt \/ Fail \/ Terminate \/ Remove

Spec == Init /\ [][Next]_vars
=============================================================================
