------------------------- MODULE MCKubernetesMachine -------------------------
(* Small instances of KubernetesMachine for TLC.                           *)
EXTENDS KubernetesMachine

Input(a, c, v) == [allowRecreation |-> a, controlPlane |-> c, validData |-> v]

NoRecreation == {Input(FALSE, c, TRUE) : c \in BOOLEAN}
Recreation == {Input(TRUE, c, TRUE) : c \in BOOLEAN}
DefaultInputs == NoRecreation \cup {Input(FALSE, FALSE, FALSE)}
StartupInputs == {Input(TRUE, TRUE, TRUE)}
ControlPlanes == {Input(a, TRUE, TRUE) : a \in BOOLEAN}
=============================================================================
