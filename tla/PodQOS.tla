------------------------------- MODULE PodQOS -------------------------------
(***************************************************************************)
(* GetPodQOS of src/pkg/utils/qos.go: the quality of service class of a    *)
(* list of containers, init containers included.  A container here is its  *)
(* requests and limits of the supported resources; 0 stands for a quantity *)
(* that is zero or not given, which the code treats alike.                 *)
(***************************************************************************)
EXTENDS Naturals, FiniteSets, Sequences

Resources == {"cpu", "memory"}

Quantities(Amounts) ==
  [requests : [Resources -> Amounts], limits : [Resources -> Amounts]]

(* The sum that a loop over a sequence of amounts adds up.                 *)
Sum(amounts) ==
  LET upTo[n \in 0 .. Len(amounts)] == IF n = 0 THEN 0 ELSE upTo[n - 1] + amounts[n]
  IN upTo[Len(amounts)]

TotalRequests(containers, r) == Sum([i \in DOMAIN containers |-> containers[i].requests[r]])
TotalLimits(containers, r) == Sum([i \in DOMAIN containers |-> containers[i].limits[r]])

GetPodQOS_SumsOnly(containers) ==
  CASE \A r \in Resources : TotalRequests(containers, r) = 0 /\ TotalLimits(containers, r) = 0
         -> "BestEffort"
    [] \A r \in Resources : TotalRequests(containers, r) = TotalLimits(containers, r) -> "Guaranteed"
    [] OTHER -> "Burstable"

(* A resource is a key of the sums when some container has a positive      *)
(* amount of it.  Only the sums are compared, and only the limits are      *)
(* looked at container by container.                                       *)
GetPodQOS(containers) ==
  LET requested == {r \in Resources : \E i \in DOMAIN containers : containers[i].requests[r] > 0}
      limited == {r \in Resources : \E i \in DOMAIN containers : containers[i].limits[r] > 0}
      allLimited == \A i \in DOMAIN containers, r \in Resources : containers[i].limits[r] > 0
      sumsMatch == \A r \in requested :
                     r \in limited /\ TotalLimits(containers, r) = TotalRequests(containers, r)
      guaranteed == /\ allLimited /\ sumsMatch
                    /\ Cardinality(requested) = Cardinality(limited)
  IN IF requested = {} /\ limited = {} THEN "BestEffort"
     ELSE IF guaranteed THEN "Guaranteed" ELSE "Burstable"
=============================================================================
