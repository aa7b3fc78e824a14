----------------------------- MODULE FleetProofs -----------------------------
(***************************************************************************)
(* Proofs about Fleet: for any number of machines, whatever they do to the *)
(* worker and to each other's Pods, every one of them keeps to the         *)
(* contract of MachineLifecycle.                                           *)
(***************************************************************************)
EXTENDS Fleet, TLAPS

-----------------------------------------------------------------------------
(* The inductive invariant behind ImplementsLifecycles.                    *)

(* A Pod is built once: a machine without a provider ID keeps its Pod, and *)
(* one that is being deleted gets no other.                                *)
BuiltOnce ==
  \A m \in Machines :
    /\ pod[m] # "none" => m \in made
    /\ m \in made \ (provided \cup deleting) => pod[m] # "none"

(* The worker calls for machines that had come so far when it took them    *)
(* up; the provider ID and the deletion stay.                              *)
WorkerIsEntitled ==
  /\ worker.step \in {"enable", "find", "patchNode"} => worker.machine \in provided
  /\ worker.step = "reset" => worker.machine \in deleting

(* What is reported, and how a machine goes, in this order.                *)
InOrder == ready \subseteq provided /\ gone \subseteq released /\ released \subseteq deleting

FleetInv == BuiltOnce /\ WorkerIsEntitled /\ InOrder

-----------------------------------------------------------------------------
(* What the worker may be doing when it is not idle.                       *)
Jobs == [step : Steps, machine : Machines, at : Machines, seen : PodStates]

LEMMA BusyWorker ==
  ASSUME TypeOK, worker.step # "idle"
  PROVE  /\ worker \in Jobs
         /\ worker.step \in Steps /\ worker.machine \in Machines /\ worker.at \in Machines
BY DEF TypeOK, Idle, Jobs

LEMMA IdleWorker == Idle.step = "idle" /\ Idle.step \notin Steps
BY DEF Idle, Steps

(* The call that follows another in the same reconciliation.               *)
LEMMA NextCall ==
  ASSUME NEW w \in Jobs, NEW s \in Steps, NEW c \in Machines
  PROVE  /\ [w EXCEPT !.step = s] \in Jobs
         /\ [w EXCEPT !.step = s].step = s
         /\ [w EXCEPT !.step = s].machine = w.machine
         /\ [w EXCEPT !.step = s, !.at = c] \in Jobs
         /\ [w EXCEPT !.step = s, !.at = c].step = s
         /\ [w EXCEPT !.step = s, !.at = c].machine = w.machine
BY DEF Jobs

LEMMA FirstCall ==
  ASSUME NEW s \in Steps, NEW m \in Machines, NEW q \in PodStates
  PROVE  /\ Calling(s, m, m, q) \in Jobs
         /\ Calling(s, m, m, q).step = s /\ Calling(s, m, m, q).machine = m
BY DEF Calling, Jobs

-----------------------------------------------------------------------------
(* What the steps do, without the details that no proof below looks at.    *)

(* How the Pods change: one changes, is built, or is collected.            *)
PodMoves(m) ==
  \/ UNCHANGED <<pod, made>>
  \/ /\ m \notin provided \cup deleting \cup gone \cup failed /\ pod[m] = "none"
     /\ pod' = [pod EXCEPT ![m] = "starting"] /\ made' = made \cup {m}
  \/ /\ pod[m] # "none" /\ UNCHANGED made
     /\ \E s \in PodStates : (s = "none" => m \in deleting) /\ pod' = [pod EXCEPT ![m] = s]

(* The worker stays, ends, goes on, or starts a call it is entitled to.    *)
WorkerMoves(m) ==
  \/ worker' = worker \/ worker' = Idle
  \/ /\ worker.step # "idle" /\ worker' \in Jobs /\ worker'.machine = worker.machine
     /\ \/ worker'.step = "hung"
        \/ worker.step \in {"enable", "find"} /\ worker'.step \in {"find", "patchNode"}
  \/ /\ worker' \in Jobs /\ worker'.machine = m
     /\ \/ worker'.step = "enable" /\ m \in provided
        \/ worker'.step = "reset" /\ m \in deleting

(* What is recorded of a machine, with the condition on which it is.       *)
Records(m) ==
  \/ UNCHANGED <<provided, ready, failed, deleting, released, gone>>
  \/ /\ m \notin provided \cup deleting \cup gone \cup failed /\ pod[m] # "none"
     /\ provided' = provided \cup {m}
     /\ UNCHANGED <<made, ready, failed, deleting, released, gone>>
  \/ /\ m \in provided \ (deleting \cup gone \cup failed)
     /\ failed' = failed \cup {m}
     /\ UNCHANGED <<made, provided, ready, deleting, released, gone>>
  \/ /\ worker.step = "patchNode" /\ m = worker.machine
     /\ ready' = ready \cup {m}
     /\ UNCHANGED <<made, provided, failed, deleting, released, gone>>
  \/ /\ m \in deleting \/ (worker.step = "reset" /\ m = worker.machine)
     /\ released' = released \cup {m}
     /\ UNCHANGED <<made, provided, ready, failed, deleting, gone>>
  \/ /\ m \in released \ gone
     /\ gone' = gone \cup {m}
     /\ UNCHANGED <<made, provided, ready, failed, deleting, released>>
  \/ /\ m \notin deleting
     /\ deleting' = deleting \cup {m}
     /\ UNCHANGED <<made, provided, ready, failed, released, gone>>

(* One of the two: what is recorded changes in no step that builds a Pod.  *)
Moves(m) ==
  /\ PodMoves(m) /\ WorkerMoves(m) /\ Records(m)
  /\ queue' \subseteq queue \cup {m}
  /\ booted' \subseteq booted \cup {m}
  /\ hangs' \in 0 .. MaxHangs /\ broken' \in 0 .. MaxBroken

LEMMA ReconcileMoves ==
  ASSUME TypeOK, NEW m \in Machines, Reconcile(m)
  PROVE  Moves(m)
<1>0. pod[m] \in PodStates /\ hangs \in 0 .. MaxHangs /\ broken \in 0 .. MaxBroken
  BY DEF TypeOK
<1>1. CASE ReconcileNothing(m)
  BY <1>0, <1>1 DEF ReconcileNothing, Take, progress, deletion, Moves, PodMoves, WorkerMoves, Records
<1>2. CASE CreatePod(m)
  BY <1>0, <1>2 DEF CreatePod, Alright, Take, deletion, Moves, PodMoves, WorkerMoves, Records
<1>3. CASE SetProviderID(m)
  BY <1>0, <1>3 DEF SetProviderID, Alright, Take, deletion, Moves, PodMoves, WorkerMoves, Records
<1>4. CASE FailMachine(m)
  BY <1>0, <1>4 DEF FailMachine, Alright, Take, deletion, Moves, PodMoves, WorkerMoves, Records
<1>5. CASE BootMachine(m)
  <2>1. worker' = Calling("enable", m, m, pod[m]) /\ m \in provided
    BY <1>5 DEF BootMachine
  <2>2. WorkerMoves(m)
    BY <1>0, <2>1, FirstCall DEF WorkerMoves, Steps
  <2> QED
    BY <1>0, <1>5, <2>2
    DEF BootMachine, Alright, Take, progress, deletion, Moves, PodMoves, Records
<1>6. CASE DeleteMachine(m)
  <2>1. m \in deleting /\ (worker' = worker \/ worker' = Calling("reset", m, m, pod[m]))
    BY <1>6 DEF DeleteMachine
  <2>2. WorkerMoves(m)
    BY <1>0, <2>1, FirstCall DEF WorkerMoves, Steps
  <2>3. Records(m)
    BY <1>6 DEF DeleteMachine, progress, Records
  <2> QED
    BY <1>0, <1>6, <2>2, <2>3 DEF DeleteMachine, Take, progress, Moves, PodMoves
<1> QED
  BY <1>1, <1>2, <1>3, <1>4, <1>5, <1>6 DEF Reconcile

LEMMA CommandMoves ==
  ASSUME TypeOK, Command \/ Hang \/ \E c \in ControlPlanes : FindControllerPod(c)
  PROVE  worker.machine \in Machines /\ Moves(worker.machine)
<1> DEFINE m == worker.machine
<1>1. worker.step \in Steps
  BY DEF Command, Enable, NoControllerPod, PatchNode, Reset, HangEnds, Hang, FindControllerPod,
         Calls, Steps
<1>2. worker \in Jobs /\ m \in Machines /\ worker.step # "idle"
  BY <1>1, BusyWorker DEF Steps
<1>0. pod[m] \in PodStates /\ hangs \in 0 .. MaxHangs /\ broken \in 0 .. MaxBroken
  BY <1>2 DEF TypeOK
<1> HIDE DEF m
<1>3. CASE Enable
  <2>1. WorkerMoves(m)
    <3>1. \/ worker' = Idle
          \/ worker.step = "enable" /\ worker' = [worker EXCEPT !.step = "find"]
      BY <1>3 DEF Enable, Calls, Retry, Done
    <3>2. CASE worker.step = "enable" /\ worker' = [worker EXCEPT !.step = "find"]
      <4>1. "find" \in Steps
        BY DEF Steps
      <4>2. worker' \in Jobs /\ worker'.step = "find" /\ worker'.machine = worker.machine
        BY <1>2, <3>2, <4>1 DEF Jobs
      <4> QED BY <1>2, <3>2, <4>2 DEF WorkerMoves
    <3> QED BY <3>1, <3>2 DEF WorkerMoves
  <2>2. queue' \subseteq queue \cup {m} /\ booted' \subseteq booted \cup {m}
    BY <1>3 DEF Enable, Retry, Done, m
  <2> QED
    BY <1>0, <1>2, <1>3, <2>1, <2>2 DEF Enable, Calls, deletion, Moves, PodMoves, Records, m
<1>4. CASE NoControllerPod
  BY <1>0, <1>2, <1>4
  DEF NoControllerPod, Calls, Retry, progress, deletion, Moves, PodMoves, WorkerMoves, Records, m
<1>5. CASE PatchNode
  <2>1. worker' = Idle /\ queue' \subseteq queue \cup {m}
    BY <1>5 DEF PatchNode, Retry, Done, m
  <2>2. Records(m)
    BY <1>5 DEF PatchNode, Calls, deletion, Records, m
  <2> QED
    BY <1>0, <1>2, <1>5, <2>1, <2>2 DEF PatchNode, Calls, Moves, PodMoves, WorkerMoves, m
<1>6. CASE Reset
  <2>1. worker' = Idle /\ queue' \subseteq queue \cup {m}
    BY <1>6 DEF Reset, Retry, Done, m
  <2>2. Records(m)
    BY <1>6 DEF Reset, progress, Records, m
  <2> QED
    BY <1>0, <1>2, <1>6, <2>1, <2>2 DEF Reset, progress, Moves, PodMoves, WorkerMoves, m
<1>7. CASE HangEnds
  BY <1>0, <1>2, <1>7
  DEF HangEnds, Calls, Retry, progress, deletion, Moves, PodMoves, WorkerMoves, Records, m
<1>8. CASE Hang
  <2>1. WorkerMoves(m)
    BY <1>2, <1>8, NextCall DEF Hang, WorkerMoves, Steps, m
  <2>2. hangs' \in 0 .. MaxHangs
    BY <1>0, <1>8, FleetBoundsAssumption DEF Hang
  <2> QED
    BY <1>0, <1>2, <1>8, <2>1, <2>2 DEF Hang, progress, deletion, Moves, PodMoves, Records, m
<1>9. CASE \E c \in ControlPlanes : FindControllerPod(c)
  <2>1. PICK c \in ControlPlanes : FindControllerPod(c)
    BY <1>9
  <2>2. c \in Machines
    BY FleetMachinesAssumption
  <2>3. WorkerMoves(m)
    <3>1. worker.step = "find" /\ worker' = [worker EXCEPT !.step = "patchNode", !.at = c]
      BY <2>1 DEF FindControllerPod, Calls
    <3>2. "patchNode" \in Steps
      BY DEF Steps
    <3>3. worker' \in Jobs /\ worker'.step = "patchNode" /\ worker'.machine = worker.machine
      BY <1>2, <2>2, <3>1, <3>2 DEF Jobs
    <3> QED BY <1>2, <3>1, <3>3 DEF WorkerMoves
  <2> QED
    BY <1>0, <1>2, <2>1, <2>3
    DEF FindControllerPod, Calls, progress, deletion, Moves, PodMoves, Records, m
<1> QED
  BY <1>2, <1>3, <1>4, <1>5, <1>6, <1>7, <1>8, <1>9 DEF Command, m

LEMMA WorldMoves ==
  ASSUME TypeOK, NEW m \in Machines,
         \/ KindTerminates(m) \/ Delete(m) \/ PodStarts(m) \/ CollectPod(m) \/ CollectMachine(m)
  PROVE  Moves(m)
<1>0. pod[m] \in PodStates /\ hangs \in 0 .. MaxHangs /\ broken \in 0 .. MaxBroken
  BY DEF TypeOK
<1>1. CASE KindTerminates(m)
  <2>1. broken' \in 0 .. MaxBroken
    BY <1>0, <1>1, FleetBoundsAssumption DEF KindTerminates
  <2> QED
    BY <1>0, <1>1, <2>1
    DEF KindTerminates, PodBecomes, Up, progress, deletion, Moves, PodMoves, WorkerMoves, Records,
        PodStates
<1>2. CASE Delete(m)
  BY <1>0, <1>2 DEF Delete, progress, Moves, PodMoves, WorkerMoves, Records
<1>3. CASE PodStarts(m)
  <2>1. PICK s \in {"running", "ready"} : pod[m] # "none" /\ PodBecomes(m, s)
    BY <1>3 DEF PodStarts
  <2> QED
    BY <1>0, <1>3, <2>1
    DEF PodStarts, PodBecomes, progress, deletion, Moves, PodMoves, WorkerMoves, Records, PodStates
<1>4. CASE CollectPod(m)
  BY <1>0, <1>4
  DEF CollectPod, PodBecomes, progress, deletion, Moves, PodMoves, WorkerMoves, Records, PodStates
<1>5. CASE CollectMachine(m)
  BY <1>0, <1>5 DEF CollectMachine, progress, Moves, PodMoves, WorkerMoves, Records
<1> QED
  BY <1>1, <1>2, <1>3, <1>4, <1>5

(* Every step is a move of one machine.                                    *)
LEMMA NextMoves ==
  ASSUME TypeOK, Next
  PROVE  \E m \in Machines : Moves(m)
<1>1. CASE \E m \in Machines : Reconcile(m)
  BY <1>1, ReconcileMoves
<1>2. CASE \E m \in Machines : KindTerminates(m) \/ Delete(m)
  BY <1>2, WorldMoves
<1>3. CASE Kubelet \/ GarbageCollector
  BY <1>3, WorldMoves DEF Kubelet, GarbageCollector
<1>4. CASE Command \/ Hang \/ \E c \in ControlPlanes : FindControllerPod(c)
  BY <1>4, CommandMoves
<1> QED
  BY <1>1, <1>2, <1>3, <1>4 DEF Next

-----------------------------------------------------------------------------
(* The inductive invariant.                                                *)

Inv == TypeOK /\ FleetInv

LEMMA InitInv == Init => Inv
<1> SUFFICES ASSUME Init PROVE Inv
  OBVIOUS
<1>1. TypeOK
  BY FleetMachinesAssumption, FleetBoundsAssumption DEF Init, TypeOK, PodStates
<1>2. FleetInv
  BY FleetMachinesAssumption, IdleWorker
  DEF Init, FleetInv, BuiltOnce, WorkerIsEntitled, InOrder, Steps
<1> QED
  BY <1>1, <1>2 DEF Inv

LEMMA MoveKeepsInv ==
  ASSUME Inv, NEW m \in Machines, Moves(m)
  PROVE  Inv'
<1>0. TypeOK /\ BuiltOnce /\ WorkerIsEntitled /\ InOrder
  BY DEF Inv, FleetInv
<1>1. /\ PodMoves(m) /\ WorkerMoves(m) /\ Records(m)
      /\ queue' \subseteq queue \cup {m} /\ booted' \subseteq booted \cup {m}
      /\ hangs' \in 0 .. MaxHangs /\ broken' \in 0 .. MaxBroken
  BY DEF Moves
<1>2. /\ provided \subseteq provided' /\ deleting \subseteq deleting'
      /\ made \subseteq made'
  BY <1>1 DEF PodMoves, Records
<1>3. TypeOK'
  <2>1. pod' \in [Machines -> PodStates] /\ made' \subseteq Machines
    BY <1>0, <1>1 DEF TypeOK, PodMoves, PodStates
  <2>2. /\ provided' \subseteq Machines /\ ready' \subseteq Machines /\ failed' \subseteq Machines
        /\ deleting' \subseteq Machines /\ released' \subseteq Machines /\ gone' \subseteq Machines
    BY <1>0, <1>1 DEF TypeOK, Records
  <2>3. worker' \in {Idle} \cup Jobs
    BY <1>0, <1>1 DEF TypeOK, WorkerMoves, Jobs
  <2> QED
    BY <1>0, <1>1, <2>1, <2>2, <2>3 DEF TypeOK, Jobs
<1>4. BuiltOnce'
  <2> SUFFICES ASSUME NEW n \in Machines
               PROVE  /\ pod'[n] # "none" => n \in made'
                      /\ n \in made' \ (provided' \cup deleting') => pod'[n] # "none"
    BY DEF BuiltOnce
  <2>1. CASE pod'[n] = pod[n] /\ (n \in made' => n \in made)
    BY <1>0, <1>2, <2>1 DEF BuiltOnce
  <2>2. CASE ~(pod'[n] = pod[n] /\ (n \in made' => n \in made))
    <3>1. n = m
      BY <1>0, <1>1, <2>2 DEF PodMoves, TypeOK
    <3>2. CASE pod[m] = "none"
      <4>1. pod'[m] = "starting" /\ m \in made'
        BY <1>0, <1>1, <2>2, <3>1, <3>2 DEF PodMoves, TypeOK
      <4> QED BY <3>1, <4>1
    <3>3. CASE pod[m] # "none"
      <4>1. m \in made /\ (pod'[m] = "none" => m \in deleting)
        BY <1>0, <1>1, <2>2, <3>1, <3>3 DEF PodMoves, BuiltOnce, TypeOK
      <4> QED BY <1>2, <3>1, <4>1
    <3> QED BY <3>2, <3>3
  <2> QED BY <2>1, <2>2
<1>5. WorkerIsEntitled'
  <2>1. CASE worker' = worker
    BY <1>0, <1>2, <2>1 DEF WorkerIsEntitled
  <2>2. CASE worker' = Idle
    BY <2>2, IdleWorker DEF WorkerIsEntitled, Steps
  <2>3. CASE worker' # worker /\ worker' # Idle
    BY <1>0, <1>1, <1>2, <2>3 DEF WorkerIsEntitled, WorkerMoves
  <2> QED BY <2>1, <2>2, <2>3
<1>6. InOrder'
  BY <1>0, <1>1 DEF InOrder, WorkerIsEntitled, Records
<1> QED
  BY <1>3, <1>4, <1>5, <1>6 DEF Inv, FleetInv

(* For any number of machines: a Pod is built once for each, the worker    *)
(* calls only for machines with a provider ID or, to reset them, for those *)
(* being deleted, and what is reported comes in order.                     *)
THEOREM FleetInvariant == Spec => [](TypeOK /\ FleetInv)
<1>1. Inv /\ [Next]_vars => Inv'
  <2> SUFFICES ASSUME Inv, [Next]_vars PROVE Inv'
    OBVIOUS
  <2>1. CASE Next
    BY <2>1, NextMoves, MoveKeepsInv DEF Inv
  <2>2. CASE UNCHANGED vars
    BY <2>2
    DEF Inv, TypeOK, FleetInv, BuiltOnce, WorkerIsEntitled, InOrder, vars, progress, deletion
  <2> QED BY <2>1, <2>2
<1> QED
  BY <1>1, InitInv, PTL DEF Spec, Inv

-----------------------------------------------------------------------------
(* The contract of every machine.                                          *)

(* The four stages exclude each other.                                     *)
LEMMA StageValue ==
  ASSUME NEW m
  PROVE  /\ m \in gone => Stage(m) = "gone"
         /\ m \in ready /\ m \notin gone => Stage(m) = "running"
         /\ m \in provided /\ m \notin ready /\ m \notin gone => Stage(m) = "provisioned"
         /\ m \notin provided /\ m \notin ready /\ m \notin gone => Stage(m) = "pending"
BY DEF Stage

LEMMA InitImplements ==
  Init => \A m \in Machines \ Established : Lifecycle(m)!Init
<1> SUFFICES ASSUME Init, NEW m \in Machines \ Established PROVE Lifecycle(m)!Init
  OBVIOUS
<1>1. /\ m \notin gone /\ m \notin ready /\ m \notin provided /\ m \notin made
      /\ m \notin failed \ gone /\ m \notin deleting \ gone
  BY DEF Init
<1>2. Stage(m) = "pending"
  BY <1>1, StageValue
<1> QED
  BY <1>1, <1>2 DEF Lifecycle!Init

(* A machine that a step is not about keeps what is seen of it.            *)
LEMMA OthersStay ==
  ASSUME Inv, NEW m \in Machines, Moves(m), NEW n \in Machines, n # m
  PROVE  UNCHANGED Lifecycle(n)!vars
<1>1. /\ n \in made' <=> n \in made
      /\ n \in provided' <=> n \in provided
      /\ n \in ready' <=> n \in ready
      /\ n \in failed' <=> n \in failed
      /\ n \in deleting' <=> n \in deleting
      /\ n \in gone' <=> n \in gone
  BY DEF Moves, PodMoves, Records
<1> QED
  BY <1>1 DEF Stage, Lifecycle!vars

(* The same predicates after a step.                                       *)
LEMMA StageAfter ==
  ASSUME NEW m
  PROVE  /\ m \in gone' => Stage(m)' = "gone"
         /\ m \in ready' /\ m \notin gone' => Stage(m)' = "running"
         /\ m \in provided' /\ m \notin ready' /\ m \notin gone' => Stage(m)' = "provisioned"
         /\ m \notin provided' /\ m \notin ready' /\ m \notin gone' => Stage(m)' = "pending"
BY DEF Stage

(* The machine that a step is about moves as its contract allows.          *)
LEMMA MoveImplements ==
  ASSUME Inv, NEW m \in Machines, Moves(m)
  PROVE  [Lifecycle(m)!Next]_(Lifecycle(m)!vars)
<1>0. /\ pod[m] # "none" => m \in made
      /\ m \in made /\ m \notin provided /\ m \notin deleting => pod[m] # "none"
      /\ m \in ready => m \in provided
      /\ m \in gone => m \in released
      /\ m \in released => m \in deleting
      /\ worker.step = "patchNode" => worker.machine \in provided
      /\ worker.step = "reset" => worker.machine \in deleting
  BY DEF Inv, FleetInv, BuiltOnce, WorkerIsEntitled, InOrder
<1>1. PodMoves(m) /\ Records(m)
  BY DEF Moves
<1>2. CASE ~(made' = made)
  <2>1. /\ m \notin provided /\ m \notin deleting /\ m \notin gone /\ m \notin failed
        /\ pod[m] = "none" /\ made' = made \cup {m}
    BY <1>1, <1>2 DEF PodMoves
  <2>2. m \notin made /\ m \in made' /\ m \notin ready
    BY <1>0, <2>1
  <2>3. UNCHANGED <<provided, ready, failed, deleting, gone>>
    BY <1>1, <1>2 DEF Records
  <2>4. Stage(m) = "pending" /\ Stage(m)' = "pending"
    BY <2>1, <2>2, <2>3, StageValue, StageAfter
  <2>5. Lifecycle(m)!Build
    BY <2>1, <2>2, <2>3, <2>4 DEF Lifecycle!Build
  <2> QED BY <2>5 DEF Lifecycle!Next
<1>3. CASE made' = made /\ UNCHANGED <<provided, ready, failed, deleting, gone>>
  BY <1>3 DEF Stage, Lifecycle!vars
<1>4. CASE /\ m \notin provided \cup deleting \cup gone \cup failed /\ pod[m] # "none"
           /\ provided' = provided \cup {m}
           /\ UNCHANGED <<made, ready, failed, deleting, released, gone>>
  <2>1. Stage(m) = "pending" /\ Stage(m)' = "provisioned" /\ m \in made
    BY <1>0, <1>4, StageValue, StageAfter
  <2>2. Lifecycle(m)!Provision
    BY <1>4, <2>1 DEF Lifecycle!Provision
  <2> QED BY <2>2 DEF Lifecycle!Next
<1>5. CASE /\ m \in provided \ (deleting \cup gone \cup failed)
           /\ failed' = failed \cup {m}
           /\ UNCHANGED <<made, provided, ready, deleting, released, gone>>
  <2>1. Stage(m)' = Stage(m) /\ Stage(m) # "gone"
    BY <1>5, StageValue, StageAfter
  <2>2. Lifecycle(m)!Fail
    BY <1>5, <2>1 DEF Lifecycle!Fail
  <2> QED BY <2>2 DEF Lifecycle!Next
<1>6. CASE /\ worker.step = "patchNode" /\ m = worker.machine
           /\ ready' = ready \cup {m}
           /\ UNCHANGED <<made, provided, failed, deleting, released, gone>>
  <2>1. CASE m \in gone \cup ready
    <3>1. Stage(m)' = Stage(m)
      BY <1>6, <2>1, StageValue, StageAfter
    <3> QED BY <1>6, <3>1 DEF Lifecycle!vars
  <2>2. CASE m \notin gone \cup ready
    <3>1. Stage(m) = "provisioned" /\ Stage(m)' = "running"
      BY <1>0, <1>6, <2>2, StageValue, StageAfter
    <3>2. Lifecycle(m)!Run
      BY <1>6, <3>1 DEF Lifecycle!Run
    <3> QED BY <3>2 DEF Lifecycle!Next
  <2> QED BY <2>1, <2>2
<1>7. CASE /\ m \in released \ gone
           /\ gone' = gone \cup {m}
           /\ UNCHANGED <<made, provided, ready, failed, deleting, released>>
  <2>1. Stage(m) # "gone" /\ Stage(m)' = "gone"
    BY <1>7, StageValue, StageAfter
  <2>2. Lifecycle(m)!Remove
    BY <1>7, <2>1 DEF Lifecycle!Remove
  <2> QED BY <2>2 DEF Lifecycle!Next
<1>8. CASE /\ m \notin deleting
           /\ deleting' = deleting \cup {m}
           /\ UNCHANGED <<made, provided, ready, failed, released, gone>>
  <2>1. m \notin gone /\ Stage(m)' = Stage(m) /\ Stage(m) # "gone"
    BY <1>0, <1>8, StageValue, StageAfter
  <2>2. Lifecycle(m)!Terminate
    BY <1>8, <2>1 DEF Lifecycle!Terminate
  <2> QED BY <2>2 DEF Lifecycle!Next
<1> QED
  BY <1>1, <1>2, <1>3, <1>4, <1>5, <1>6, <1>7, <1>8 DEF Records

(* Any number of machines share one worker and patch their Nodes through   *)
(* each other's Pods, commands hang and control planes break or go, and    *)
(* still every machine keeps to its contract: no Pod is built for one that *)
(* is ready or has failed, the provider ID comes after the Pod and Ready   *)
(* after the provider ID, and neither Ready nor a failure is taken back    *)
(* until the machine is removed.                                           *)
THEOREM Refinement == Spec => ImplementsLifecycles
<1>1. Inv /\ [Next]_vars
        => [\A m \in Machines : [Lifecycle(m)!Next]_(Lifecycle(m)!vars)]_vars
  <2>1. ASSUME Inv, Next, NEW n \in Machines
        PROVE  [Lifecycle(n)!Next]_(Lifecycle(n)!vars)
    <3>1. PICK m \in Machines : Moves(m)
      BY <2>1, NextMoves DEF Inv
    <3>2. CASE n = m
      BY <2>1, <3>1, <3>2, MoveImplements
    <3>3. CASE n # m
      BY <2>1, <3>1, <3>3, OthersStay
    <3> QED BY <3>2, <3>3
  <2> QED BY <2>1
<1>2. Spec => []Inv
  BY FleetInvariant, PTL DEF Inv
<1> QED
  BY <1>1, <1>2, InitImplements, PTL DEF Spec, ImplementsLifecycles
=============================================================================
