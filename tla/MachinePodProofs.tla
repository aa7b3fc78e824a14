--------------------------- MODULE MachinePodProofs ---------------------------
(***************************************************************************)
(* Proofs about MachinePod and PodQOS: what the controller makes of any    *)
(* PodSpec, with any number of containers, volumes and claims.             *)
(***************************************************************************)
EXTENDS MachinePod, FiniteSetTheorems, WellFoundedInduction, TLAPS

-----------------------------------------------------------------------------
(* The inductive invariant.                                                *)

(* Every way into the API server leads to the same machine, the user's     *)
(* with its list of containers in place.                                   *)
AsDefaulted == [machine EXCEPT !.spec = Default(@)]

PodFor(m) == IF m.controlPlane THEN controlPlaneMachinePod(m) ELSE workerMachinePod(m)

BuildInv ==
  /\ machine \in [spec : Specs, claims : ClaimTemplates, controlPlane : BOOLEAN]
  /\ answer \in {"none", "admitted", "created", "refused"}
  /\ answer # "none" => stored = AsDefaulted
  /\ Built => machinePod = PodFor(stored)
  /\ answer = "created" => Valid(machinePod)
  /\ answer = "refused" => ~Valid(machinePod)

-----------------------------------------------------------------------------
(* Numbers.  Induction is over the set of the numbers of which the claim   *)
(* holds, by its least counterexample.                                     *)

LEMMA LeastNumber ==
  ASSUME NEW T \in SUBSET Nat, T # {}
  PROVE  \E n \in T : \A m \in T : n <= m
<1> DEFINE R == OpToRel(<, Nat)
<1>1. IsWellFoundedOn(R, Nat)
  BY NatLessThanWellFounded
<1>2. \A x, y \in Nat : <<y, x>> \in R <=> y < x
  BY DEF OpToRel
<1> HIDE DEF R
<1>3. PICK n \in T : \A m \in T : ~(<<m, n>> \in R)
  BY <1>1, WFMin
<1>4. ASSUME NEW m \in T PROVE n <= m
  <2>1. m \in Nat /\ n \in Nat
    OBVIOUS
  <2>2. ~(m < n)
    BY <1>2, <1>3, <2>1
  <2> QED BY <2>1, <2>2
<1> QED
  BY <1>4

LEMMA SetInduction ==
  ASSUME NEW N \in Nat, NEW G, 0 \in G,
         \A n \in 1 .. N : n - 1 \in G => n \in G
  PROVE  \A n \in 0 .. N : n \in G
<1> DEFINE T == {n \in 0 .. N : n \notin G}
<1>1. T \in SUBSET Nat
  OBVIOUS
<1>2. \A n \in T : n \in 0 .. N /\ n \notin G
  OBVIOUS
<1>3. \A n \in 0 .. N : n \notin T => n \in G
  OBVIOUS
<1> HIDE DEF T
<1>4. CASE T # {}
  <2>1. PICK n \in T : \A m \in T : n <= m
    BY <1>1, <1>4, LeastNumber
  <2>2. n \in 1 .. N /\ n - 1 \in 0 .. N /\ ~(n <= n - 1)
    BY <1>2, <2>1
  <2>3. n - 1 \in G
    BY <1>3, <2>1, <2>2
  <2> QED BY <1>2, <2>2, <2>3
<1> QED
  BY <1>3, <1>4

LEMMA GreatestNumber ==
  ASSUME NEW N \in Nat, NEW T \in SUBSET (1 .. N), T # {}
  PROVE  \E n \in T : \A m \in T : m <= n
<1> DEFINE U == {k \in Nat : \E n \in T : k = N - n}
<1>1. U \in SUBSET Nat
  OBVIOUS
<1>2. \A n \in T : n \in Nat /\ N - n \in U
  OBVIOUS
<1>3. \A k \in U : k \in Nat /\ \E n \in T : k = N - n
  OBVIOUS
<1> HIDE DEF U
<1>4. PICK u \in U : \A v \in U : u <= v
  BY <1>1, <1>2, LeastNumber
<1>5. PICK n \in T : u = N - n
  BY <1>3
<1>6. ASSUME NEW m \in T PROVE m <= n
  <2>1. N - n <= N - m
    BY <1>2, <1>4, <1>5
  <2> QED BY <1>2, <2>1
<1> QED
  BY <1>6

-----------------------------------------------------------------------------
(* Sums.                                                                   *)

(* What the loop has added up after each of its rounds.                    *)
AddsUp(f, a, n) ==
  /\ f \in [0 .. n -> Nat]
  /\ f[0] = 0
  /\ \A k \in 1 .. n : f[k] = f[k - 1] + a[k]

LEMMA SumsExist ==
  ASSUME NEW a \in Seq(Nat)
  PROVE  \E f : AddsUp(f, a, Len(a))
<1> DEFINE G == {n \in Nat : \E f : AddsUp(f, a, n)}
<1>1. Len(a) \in Nat /\ \A k \in 1 .. Len(a) : a[k] \in Nat
  OBVIOUS
<1>2. 0 \in G
  <2>1. AddsUp([k \in 0 .. 0 |-> 0], a, 0)
    BY DEF AddsUp
  <2> QED BY <2>1
<1>3. ASSUME NEW n \in 1 .. Len(a), n - 1 \in G PROVE n \in G
  <2>1. PICK f : AddsUp(f, a, n - 1)
    BY <1>3
  <2> DEFINE g == [k \in 0 .. n |-> IF k = n THEN f[n - 1] + a[n] ELSE f[k]]
  <2>2. n \in Nat /\ n # 0 /\ n - 1 \in 0 .. n - 1 /\ a[n] \in Nat
    BY <1>1
  <2>3. g \in [0 .. n -> Nat]
    BY <2>1, <2>2 DEF AddsUp
  <2>4. g[0] = 0
    BY <2>1, <2>2 DEF AddsUp
  <2>5. ASSUME NEW k \in 1 .. n PROVE g[k] = g[k - 1] + a[k]
    <3>1. CASE k = n
      BY <2>2, <3>1
    <3>2. CASE k # n
      BY <2>1, <2>2, <3>2 DEF AddsUp
    <3> QED BY <3>1, <3>2
  <2>6. AddsUp(g, a, n)
    BY <2>3, <2>4, <2>5 DEF AddsUp
  <2> QED BY <2>2, <2>6
<1>4. \A n \in G : \E f : AddsUp(f, a, n)
  OBVIOUS
<1> HIDE DEF G
<1>5. \A n \in 0 .. Len(a) : n \in G
  BY <1>1, <1>2, <1>3, SetInduction
<1> QED
  BY <1>1, <1>4, <1>5

LEMMA SumAddsUp ==
  ASSUME NEW a \in Seq(Nat)
  PROVE  \E f : AddsUp(f, a, Len(a)) /\ Sum(a) = f[Len(a)]
<1> DEFINE Body(f) == [n \in 0 .. Len(a) |-> IF n = 0 THEN 0 ELSE f[n - 1] + a[n]]
           s == CHOOSE f : f = Body(f)
<1>1. Sum(a) = s[Len(a)]
  BY DEF Sum
<1>2. \E f : f = Body(f)
  <2>1. PICK f : AddsUp(f, a, Len(a))
    BY SumsExist
  <2>2. f = Body(f)
    BY <2>1 DEF AddsUp
  <2> QED BY <2>2
<1>3. s = Body(s)
  BY <1>2
<1> HIDE DEF s
<1>4. Len(a) \in Nat /\ \A k \in 1 .. Len(a) : a[k] \in Nat
  OBVIOUS
<1>5. /\ DOMAIN s = 0 .. Len(a) /\ s = [n \in 0 .. Len(a) |-> s[n]]
      /\ s[0] = 0
      /\ \A k \in 1 .. Len(a) : s[k] = s[k - 1] + a[k]
  BY <1>3, <1>4
<1>6. AddsUp(s, a, Len(a))
  <2> DEFINE G == {n \in Nat : s[n] \in Nat}
  <2>1. \A n \in Nat : n \in G <=> s[n] \in Nat
    OBVIOUS
  <2> HIDE DEF G
  <2>2. 0 \in G
    BY <1>5, <2>1
  <2>3. ASSUME NEW n \in 1 .. Len(a), n - 1 \in G PROVE n \in G
    <3>1. n \in Nat /\ n - 1 \in Nat
      BY <1>4
    <3>2. s[n - 1] \in Nat
      BY <2>1, <2>3, <3>1
    <3>3. a[n] \in Nat /\ s[n] = s[n - 1] + a[n]
      BY <1>4, <1>5
    <3> QED BY <2>1, <3>1, <3>2, <3>3
  <2>4. \A n \in 0 .. Len(a) : n \in G
    BY <1>4, <2>2, <2>3, SetInduction
  <2>5. \A n \in 0 .. Len(a) : s[n] \in Nat
    BY <2>1, <2>4
  <2> QED BY <1>5, <2>5 DEF AddsUp
<1> QED
  BY <1>1, <1>6

(* Amounts that are at most others, one by one, are equal to them when the *)
(* sums are.                                                               *)
LEMMA EqualSums ==
  ASSUME NEW a \in Seq(Nat), NEW b \in Seq(Nat), Len(a) = Len(b),
         \A i \in 1 .. Len(a) : a[i] <= b[i],
         Sum(a) = Sum(b)
  PROVE  \A i \in 1 .. Len(a) : a[i] = b[i]
<1>0. Len(a) \in Nat /\ \A i \in 1 .. Len(a) : a[i] \in Nat /\ b[i] \in Nat
  OBVIOUS
<1>1. PICK f : AddsUp(f, a, Len(a)) /\ Sum(a) = f[Len(a)]
  BY SumAddsUp
<1>2. PICK g : AddsUp(g, b, Len(a)) /\ Sum(b) = g[Len(a)]
  BY SumAddsUp
<1> DEFINE Good(n) == f[n] <= g[n] /\ (f[n] = g[n] => \A i \in 1 .. n : a[i] = b[i])
           G == {n \in Nat : Good(n)}
<1>3. \A n \in Nat : n \in G <=> Good(n)
  OBVIOUS
<1> HIDE DEF G
<1>4. 0 \in G
  BY <1>1, <1>2, <1>3 DEF AddsUp
<1>5. ASSUME NEW n \in 1 .. Len(a), n - 1 \in G PROVE n \in G
  <2>1. n \in Nat /\ n - 1 \in 0 .. Len(a) /\ Good(n - 1)
    BY <1>0, <1>3, <1>5
  <2>2. /\ f[n] = f[n - 1] + a[n] /\ g[n] = g[n - 1] + b[n]
        /\ f[n - 1] \in Nat /\ g[n - 1] \in Nat
    BY <1>0, <1>1, <1>2, <2>1 DEF AddsUp
  <2>3. a[n] <= b[n] /\ a[n] \in Nat /\ b[n] \in Nat
    BY <1>0
  <2>4. f[n - 1] <= g[n - 1]
    BY <2>1
  <2>5. f[n] <= g[n] /\ (f[n] = g[n] => f[n - 1] = g[n - 1] /\ a[n] = b[n])
    BY <2>2, <2>3, <2>4
  <2>6. ASSUME f[n] = g[n], NEW i \in 1 .. n PROVE a[i] = b[i]
    <3>1. CASE i = n
      BY <2>5, <2>6, <3>1
    <3>2. CASE i # n
      <4>1. i \in 1 .. n - 1
        BY <2>1, <3>2
      <4> QED BY <2>1, <2>5, <2>6, <4>1
    <3> QED BY <3>1, <3>2
  <2>7. Good(n)
    BY <2>5, <2>6
  <2> QED BY <1>3, <2>1, <2>7
<1>6. \A n \in 0 .. Len(a) : n \in G
  BY <1>0, <1>4, <1>5, SetInduction
<1>7. Good(Len(a))
  BY <1>0, <1>3, <1>6
<1> QED
  BY <1>1, <1>2, <1>7

-----------------------------------------------------------------------------
(* The quality of service class.                                           *)

LEMMA AmountsType ==
  ASSUME NEW cs \in Seq(Quantities(Nat))
  PROVE  \A i \in DOMAIN cs, r \in Resources :
           cs[i].requests[r] \in Nat /\ cs[i].limits[r] \in Nat
<1> SUFFICES ASSUME NEW i \in DOMAIN cs, NEW r \in Resources
             PROVE  cs[i].requests[r] \in Nat /\ cs[i].limits[r] \in Nat
  OBVIOUS
<1>1. cs[i] \in Quantities(Nat)
  OBVIOUS
<1>2. cs[i].requests \in [Resources -> Nat] /\ cs[i].limits \in [Resources -> Nat]
  BY <1>1 DEF Quantities
<1> QED
  BY <1>2

(* One resource that every container limits: equal sums are equal amounts. *)
LEMMA SumsMatch ==
  ASSUME NEW cs \in Seq(Quantities(Nat)), NEW r \in Resources,
         \A i \in DOMAIN cs : cs[i].requests[r] <= cs[i].limits[r]
  PROVE  TotalLimits(cs, r) = TotalRequests(cs, r)
           <=> \A i \in DOMAIN cs : cs[i].requests[r] = cs[i].limits[r]
<1> DEFINE a == [i \in DOMAIN cs |-> cs[i].requests[r]]
           b == [i \in DOMAIN cs |-> cs[i].limits[r]]
<1>1. /\ Len(cs) \in Nat /\ DOMAIN cs = 1 .. Len(cs)
      /\ \A i \in DOMAIN cs : cs[i].requests[r] \in Nat /\ cs[i].limits[r] \in Nat
  BY AmountsType
<1>2. a \in Seq(Nat) /\ b \in Seq(Nat) /\ Len(a) = Len(cs) /\ Len(b) = Len(cs)
  BY <1>1
<1>3. \A i \in DOMAIN cs : a[i] = cs[i].requests[r] /\ b[i] = cs[i].limits[r]
  OBVIOUS
<1>4. TotalRequests(cs, r) = Sum(a) /\ TotalLimits(cs, r) = Sum(b)
  BY DEF TotalRequests, TotalLimits
<1>5. ASSUME \A i \in DOMAIN cs : cs[i].requests[r] = cs[i].limits[r] PROVE a = b
  BY <1>5
<1> HIDE DEF a, b
<1>6. ASSUME Sum(a) = Sum(b) PROVE \A i \in DOMAIN cs : cs[i].requests[r] = cs[i].limits[r]
  <2>1. \A i \in 1 .. Len(a) : a[i] <= b[i]
    BY <1>1, <1>2, <1>3
  <2>2. \A i \in 1 .. Len(a) : a[i] = b[i]
    BY <1>2, <1>6, <2>1, EqualSums
  <2> QED BY <1>1, <1>2, <1>3, <2>2
<1> QED
  BY <1>4, <1>5, <1>6

Requested(cs) == {r \in Resources : \E i \in DOMAIN cs : cs[i].requests[r] > 0}
Limited(cs) == {r \in Resources : \E i \in DOMAIN cs : cs[i].limits[r] > 0}

Nothing(cs) ==
  \A i \in DOMAIN cs, r \in Resources : cs[i].requests[r] = 0 /\ cs[i].limits[r] = 0
Exact(cs) ==
  \A i \in DOMAIN cs, r \in Resources :
    cs[i].limits[r] > 0 /\ cs[i].requests[r] = cs[i].limits[r]

LEMMA ClassValue ==
  ASSUME NEW cs
  PROVE  GetPodQOS(cs) =
           IF Requested(cs) = {} /\ Limited(cs) = {} THEN "BestEffort"
           ELSE IF /\ \A i \in DOMAIN cs, r \in Resources : cs[i].limits[r] > 0
                   /\ \A r \in Requested(cs) :
                        r \in Limited(cs) /\ TotalLimits(cs, r) = TotalRequests(cs, r)
                   /\ Cardinality(Requested(cs)) = Cardinality(Limited(cs))
                THEN "Guaranteed" ELSE "Burstable"
BY DEF GetPodQOS, Requested, Limited

LEMMA BestEffortMeansNothing ==
  ASSUME NEW cs \in Seq(Quantities(Nat))
  PROVE  GetPodQOS(cs) = "BestEffort" <=> Nothing(cs)
<1>1. \A i \in DOMAIN cs, r \in Resources : cs[i].requests[r] \in Nat /\ cs[i].limits[r] \in Nat
  BY AmountsType
<1>2. (Requested(cs) = {} /\ Limited(cs) = {}) <=> Nothing(cs)
  BY <1>1 DEF Requested, Limited, Nothing
<1> QED
  BY <1>2, ClassValue

LEMMA GuaranteedMeansExact ==
  ASSUME NEW cs \in Seq(Quantities(Nat)), cs # <<>>,
         \A i \in DOMAIN cs, r \in Resources :
           cs[i].limits[r] > 0 => cs[i].requests[r] <= cs[i].limits[r]
  PROVE  GetPodQOS(cs) = "Guaranteed" <=> Exact(cs)
<1>1. \A i \in DOMAIN cs, r \in Resources : cs[i].requests[r] \in Nat /\ cs[i].limits[r] \in Nat
  BY AmountsType
<1>2. 1 \in DOMAIN cs
  OBVIOUS
<1>3. Requested(cs) \subseteq Resources /\ Limited(cs) \subseteq Resources
  BY DEF Requested, Limited
<1>4. ASSUME Exact(cs) PROVE GetPodQOS(cs) = "Guaranteed"
  <2>1. Requested(cs) = Resources /\ Limited(cs) = Resources
    BY <1>1, <1>2, <1>4 DEF Exact, Requested, Limited
  <2>2. Resources # {}
    BY DEF Resources
  <2>3. ASSUME NEW r \in Resources PROVE TotalLimits(cs, r) = TotalRequests(cs, r)
    BY <1>1, <1>4, SumsMatch DEF Exact
  <2> QED BY <1>4, <2>1, <2>2, <2>3, ClassValue DEF Exact
<1>5. ASSUME GetPodQOS(cs) = "Guaranteed" PROVE Exact(cs)
  <2>1. /\ \A i \in DOMAIN cs, r \in Resources : cs[i].limits[r] > 0
        /\ \A r \in Requested(cs) : TotalLimits(cs, r) = TotalRequests(cs, r)
        /\ Cardinality(Requested(cs)) = Cardinality(Limited(cs))
    BY <1>5, ClassValue
  <2>2. Limited(cs) = Resources
    BY <1>2, <2>1 DEF Limited
  <2>3. IsFiniteSet(Resources)
    <3>1. IsFiniteSet({} \cup {"cpu"})
      BY FS_EmptySet, FS_AddElement
    <3>2. IsFiniteSet(({} \cup {"cpu"}) \cup {"memory"})
      BY <3>1, FS_AddElement
    <3>3. Resources = ({} \cup {"cpu"}) \cup {"memory"}
      BY DEF Resources
    <3> QED BY <3>2, <3>3
  <2>4. Requested(cs) = Resources
    BY <1>3, <2>1, <2>2, <2>3, FS_Subset
  <2>5. ASSUME NEW r \in Resources PROVE \A i \in DOMAIN cs : cs[i].requests[r] = cs[i].limits[r]
    BY <2>1, <2>4, SumsMatch
  <2> QED BY <2>1, <2>5 DEF Exact
<1> QED
  BY <1>4, <1>5

-----------------------------------------------------------------------------
(* The kind container.                                                     *)

(* The containers of a Pod that is built: those of the user and what the   *)
(* controller adds.  Its strings are strings, which the provers are not    *)
(* told otherwise.                                                         *)
EtcdMount == Mount(varLibEtcdVolumeName, varLibEtcdVolumeMountPath)
Text == STRING \cup {"", kindContainerName}
Ports == STRING \cup {apiServerPortName}
PodMounts == Mounts \cup kindMounts \cup {EtcdMount}
PodContainers ==
  [name : Text, mounts : SUBSET PodMounts, ports : SUBSET Ports, resources : Quantities(Nat)]

LEMMA UserContainers == Seq(Containers) \subseteq Seq(PodContainers)
<1>1. STRING \subseteq Text /\ SUBSET STRING \subseteq SUBSET Ports
  BY DEF Text, Ports
<1>2. SUBSET Mounts \subseteq SUBSET PodMounts
  BY DEF PodMounts
<1>3. Containers \subseteq PodContainers
  BY <1>1, <1>2 DEF Containers, PodContainers
<1> QED
  BY <1>3

LEMMA Joined ==
  ASSUME NEW a \in Seq(PodContainers), NEW b \in Seq(PodContainers)
  PROVE  /\ a \o b \in Seq(PodContainers) /\ Len(a \o b) = Len(a) + Len(b)
         /\ DOMAIN a = 1 .. Len(a) /\ DOMAIN b = 1 .. Len(b) /\ Len(a) \in Nat /\ Len(b) \in Nat
         /\ DOMAIN (a \o b) = 1 .. Len(a) + Len(b)
         /\ \A j \in 1 .. Len(a) : (a \o b)[j] = a[j]
         /\ \A j \in Len(a) + 1 .. Len(a) + Len(b) : (a \o b)[j] = b[j - Len(a)]
OBVIOUS

LEMMA KindIndexValue ==
  ASSUME NEW cs \in Seq(PodContainers)
  PROVE  /\ KindIn(cs) = {} => kindIndex(cs) = 1
         /\ KindIn(cs) # {} => /\ kindIndex(cs) \in KindIn(cs)
                               /\ \A j \in KindIn(cs) : j <= kindIndex(cs)
<1>1. CASE KindIn(cs) = {}
  BY <1>1 DEF kindIndex
<1>2. CASE KindIn(cs) # {}
  <2>1. Len(cs) \in Nat /\ KindIn(cs) \in SUBSET (1 .. Len(cs))
    BY DEF KindIn
  <2>2. \E i \in KindIn(cs) : \A j \in KindIn(cs) : j <= i
    BY <1>2, <2>1, GreatestNumber
  <2>3. kindIndex(cs) = CHOOSE i \in KindIn(cs) : \A j \in KindIn(cs) : j <= i
    BY <1>2 DEF kindIndex
  <2> QED BY <1>2, <2>2, <2>3
<1> QED BY <1>1, <1>2

(* The containers with the one that becomes the kind container, and that   *)
(* one's name.                                                             *)
Found(cs) == IF KindIn(cs) # {} THEN cs ELSE Append(cs, EmptyContainer)
Named(cs) == [Found(cs) EXCEPT ![kindIndex(cs)].name = kindContainerName]

LEMMA EmptyContainerType ==
  /\ EmptyContainer \in PodContainers
  /\ EmptyContainer.mounts = {} /\ EmptyContainer.ports = {} /\ EmptyContainer.name = ""
  /\ EmptyContainer.resources = NoResources
  /\ NoResources \in Quantities(Nat)
<1>1. NoResources \in Quantities(Nat)
  BY DEF NoResources, Quantities
<1>2. EmptyContainer = [name |-> "", mounts |-> {}, ports |-> {}, resources |-> NoResources]
  BY DEF EmptyContainer, Container
<1>3. "" \in Text
  BY DEF Text
<1> QED
  BY <1>1, <1>2, <1>3 DEF PodContainers

(* The result of EnsureNotBestEffort for a Pod without any resources.      *)
LittleCPU == [NoResources EXCEPT !.requests["cpu"] = 1]

LEMMA LittleCPUType ==
  /\ LittleCPU \in Quantities(Nat)
  /\ LittleCPU.requests["cpu"] = 1
  /\ \A r \in Resources : LittleCPU.limits[r] = 0
BY DEF LittleCPU, NoResources, Quantities, Resources

LEMMA FoundContainers ==
  ASSUME NEW cs \in Seq(PodContainers)
  PROVE  /\ Found(cs) \in Seq(PodContainers)
         /\ kindIndex(cs) \in DOMAIN Found(cs)
         /\ Len(Found(cs)) = IF KindIn(cs) # {} THEN Len(cs) ELSE Len(cs) + 1
         /\ \A j \in DOMAIN cs : j \in DOMAIN Found(cs) /\ Found(cs)[j] = cs[j]
         /\ \A j \in DOMAIN Found(cs) : j \notin DOMAIN cs =>
              Found(cs)[j] = EmptyContainer /\ j = Len(cs) + 1 /\ KindIn(cs) = {}
<1>1. CASE KindIn(cs) # {}
  <2>1. kindIndex(cs) \in DOMAIN cs
    BY <1>1, KindIndexValue DEF KindIn
  <2> QED BY <1>1, <2>1 DEF Found
<1>2. CASE KindIn(cs) = {}
  <2>1. Found(cs) = Append(cs, EmptyContainer) /\ kindIndex(cs) = 1
    BY <1>2, KindIndexValue DEF Found
  <2>2. EmptyContainer \in PodContainers
    BY EmptyContainerType
  <2>3. /\ Found(cs) \in Seq(PodContainers) /\ Len(Found(cs)) = Len(cs) + 1
        /\ DOMAIN Found(cs) = 1 .. Len(cs) + 1 /\ DOMAIN cs = 1 .. Len(cs) /\ Len(cs) \in Nat
        /\ \A j \in 1 .. Len(cs) : Found(cs)[j] = cs[j]
        /\ Found(cs)[Len(cs) + 1] = EmptyContainer
    BY <2>1, <2>2
  <2> QED BY <1>2, <2>1, <2>3
<1> QED BY <1>1, <1>2

LEMMA Renamed ==
  ASSUME NEW c \in PodContainers
  PROVE  /\ [c EXCEPT !.name = kindContainerName] \in PodContainers
         /\ [c EXCEPT !.name = kindContainerName].name = kindContainerName
         /\ [c EXCEPT !.name = kindContainerName].mounts = c.mounts
         /\ [c EXCEPT !.name = kindContainerName].ports = c.ports
         /\ [c EXCEPT !.name = kindContainerName].resources = c.resources
<1>1. kindContainerName \in Text
  BY DEF Text
<1> QED
  BY <1>1 DEF PodContainers

LEMMA NamedContainers ==
  ASSUME NEW cs \in Seq(PodContainers)
  PROVE  /\ Named(cs) \in Seq(PodContainers)
         /\ Len(Named(cs)) = Len(Found(cs))
         /\ \A j \in DOMAIN Found(cs) :
              j # kindIndex(cs) => Named(cs)[j] = Found(cs)[j]
         /\ Named(cs)[kindIndex(cs)] = [Found(cs)[kindIndex(cs)] EXCEPT !.name = kindContainerName]
         /\ \A j \in DOMAIN Found(cs) : Named(cs)[j].resources = Found(cs)[j].resources
<1> DEFINE f == Found(cs)
           i == kindIndex(cs)
           k == [f[i] EXCEPT !.name = kindContainerName]
<1>1. f \in Seq(PodContainers) /\ i \in DOMAIN f
  BY FoundContainers
<1>2. Named(cs) = [f EXCEPT ![i] = k]
  BY DEF Named
<1> HIDE DEF f, i
<1>3. f[i] \in PodContainers
  BY <1>1
<1>4. k \in PodContainers /\ k.resources = f[i].resources
  BY <1>3, Renamed
<1> HIDE DEF k
<1>5. /\ Named(cs) \in Seq(PodContainers) /\ Len(Named(cs)) = Len(f)
      /\ \A j \in DOMAIN f : Named(cs)[j] = IF j = i THEN k ELSE f[j]
  BY <1>1, <1>2, <1>4
<1> QED
  BY <1>1, <1>4, <1>5 DEF f, i, k

LEMMA Mounted ==
  ASSUME NEW c \in PodContainers, NEW ms \in SUBSET PodMounts
  PROVE  /\ setVolumeMount(c, ms) \in PodContainers
         /\ setVolumeMount(c, ms).name = c.name
         /\ setVolumeMount(c, ms).ports = c.ports
         /\ setVolumeMount(c, ms).resources = c.resources
         /\ setVolumeMount(c, ms).mounts
              = c.mounts \cup {m \in ms : \A n \in c.mounts : n.path # m.path}
<1> DEFINE d == c.mounts \cup {m \in ms : \A n \in c.mounts : n.path # m.path}
<1>1. setVolumeMount(c, ms) = [c EXCEPT !.mounts = d]
  BY DEF setVolumeMount
<1>2. d \in SUBSET PodMounts
  BY DEF PodContainers
<1> HIDE DEF d
<1>3. /\ [c EXCEPT !.mounts = d] \in PodContainers
      /\ [c EXCEPT !.mounts = d].name = c.name /\ [c EXCEPT !.mounts = d].ports = c.ports
      /\ [c EXCEPT !.mounts = d].resources = c.resources /\ [c EXCEPT !.mounts = d].mounts = d
  BY <1>2 DEF PodContainers
<1> QED
  BY <1>1, <1>3 DEF d

LEMMA Resourced ==
  ASSUME NEW c \in PodContainers, NEW all
  PROVE  LET d == EnsureNotBestEffort(c, all)
         IN /\ d \in PodContainers
            /\ d.name = c.name /\ d.ports = c.ports /\ d.mounts = c.mounts
            /\ d.resources =
                 IF GetPodQOS([i \in DOMAIN all |-> all[i].resources]) = "BestEffort"
                   THEN LittleCPU ELSE c.resources
<1> DEFINE b == GetPodQOS([i \in DOMAIN all |-> all[i].resources]) = "BestEffort"
           l == [c EXCEPT !.resources = LittleCPU]
<1>1. EnsureNotBestEffort(c, all) = IF b THEN l ELSE c
  BY DEF EnsureNotBestEffort, LittleCPU
<1>2. /\ l \in PodContainers /\ l.name = c.name /\ l.ports = c.ports /\ l.mounts = c.mounts
      /\ l.resources = LittleCPU
  BY LittleCPUType DEF PodContainers
<1> HIDE DEF l, b
<1>3. CASE b
  BY <1>1, <1>2, <1>3 DEF b
<1>4. CASE ~b
  BY <1>1, <1>4 DEF b
<1> QED BY <1>3, <1>4

LEMMA KindMountsType ==
  kindMounts \in SUBSET PodMounts /\ {EtcdMount} \in SUBSET PodMounts
BY DEF PodMounts

(* The kind container of setKindContainerBase, and all containers with it. *)
KindOf(cs, ini) ==
  setVolumeMount(EnsureNotBestEffort(Named(cs)[kindIndex(cs)], Named(cs) \o ini), kindMounts)
WithKind(cs, ini) == [Named(cs) EXCEPT ![kindIndex(cs)] = KindOf(cs, ini)]

(* The resources before the kind container gets its own.                   *)
Before(cs, ini) ==
  LET all == Found(cs) \o ini IN [i \in DOMAIN all |-> all[i].resources]

LEMMA KindFields ==
  ASSUME NEW cs \in Seq(PodContainers), NEW ini \in Seq(PodContainers)
  PROVE  LET k == KindOf(cs, ini)
             found == Found(cs)[kindIndex(cs)]
         IN /\ k \in PodContainers /\ found \in PodContainers
            /\ k.name = kindContainerName /\ k.ports = found.ports
            /\ k.mounts = found.mounts
                 \cup {m \in kindMounts : \A n \in found.mounts : n.path # m.path}
            /\ k.resources = IF GetPodQOS(Before(cs, ini)) = "BestEffort"
                               THEN LittleCPU ELSE found.resources
<1> DEFINE i == kindIndex(cs)
           found == Found(cs)[i]
           n == Named(cs)[i]
           all == Named(cs) \o ini
           e == EnsureNotBestEffort(n, all)
<1>1. found \in PodContainers
  BY FoundContainers
<1>2. n = [found EXCEPT !.name = kindContainerName]
  BY NamedContainers
<1>3. /\ n \in PodContainers /\ n.name = kindContainerName /\ n.mounts = found.mounts
      /\ n.ports = found.ports /\ n.resources = found.resources
  BY <1>1, <1>2, Renamed
<1>4. [j \in DOMAIN all |-> all[j].resources] = Before(cs, ini)
  <2> DEFINE f == Found(cs) \o ini
  <2>1. /\ Found(cs) \in Seq(PodContainers) /\ Named(cs) \in Seq(PodContainers)
        /\ Len(Named(cs)) = Len(Found(cs))
        /\ \A j \in DOMAIN Found(cs) : Named(cs)[j].resources = Found(cs)[j].resources
    BY FoundContainers, NamedContainers
  <2>2. DOMAIN all = DOMAIN f
    <3>1. DOMAIN all = 1 .. Len(Named(cs)) + Len(ini)
      BY <2>1, Joined
    <3>2. DOMAIN f = 1 .. Len(Found(cs)) + Len(ini)
      BY <2>1, Joined
    <3> QED BY <2>1, <3>1, <3>2
  <2>3. ASSUME NEW j \in DOMAIN f PROVE all[j].resources = f[j].resources
    <3>1. CASE j \in 1 .. Len(Found(cs))
      BY <2>1, <3>1, Joined
    <3>2. CASE j \notin 1 .. Len(Found(cs))
      <4>1. j \in Len(Found(cs)) + 1 .. Len(Found(cs)) + Len(ini)
        BY <2>1, <3>2, Joined
      <4> QED BY <2>1, <4>1, Joined
    <3> QED BY <3>1, <3>2
  <2> QED BY <2>2, <2>3 DEF Before
<1> HIDE DEF found, n, all
<1>5. /\ e \in PodContainers /\ e.name = n.name /\ e.ports = n.ports /\ e.mounts = n.mounts
      /\ e.resources = IF GetPodQOS(Before(cs, ini)) = "BestEffort"
                         THEN LittleCPU ELSE n.resources
  BY <1>3, <1>4, Resourced
<1>6. KindOf(cs, ini) = setVolumeMount(e, kindMounts)
  BY DEF KindOf, n, all
<1> HIDE DEF e
<1>7. /\ KindOf(cs, ini) \in PodContainers /\ KindOf(cs, ini).name = e.name
      /\ KindOf(cs, ini).ports = e.ports /\ KindOf(cs, ini).resources = e.resources
      /\ KindOf(cs, ini).mounts
           = e.mounts \cup {m \in kindMounts : \A x \in e.mounts : x.path # m.path}
  BY <1>5, <1>6, Mounted, KindMountsType
<1> QED
  BY <1>1, <1>3, <1>5, <1>7 DEF found

LEMMA WithKindContainers ==
  ASSUME NEW cs \in Seq(PodContainers), NEW ini \in Seq(PodContainers)
  PROVE  /\ WithKind(cs, ini) \in Seq(PodContainers)
         /\ Len(WithKind(cs, ini)) = Len(Found(cs))
         /\ \A j \in DOMAIN Found(cs) :
              WithKind(cs, ini)[j] = IF j = kindIndex(cs) THEN KindOf(cs, ini) ELSE Found(cs)[j]
<1> DEFINE i == kindIndex(cs)
           k == KindOf(cs, ini)
           f == Found(cs)
<1>1. f \in Seq(PodContainers) /\ i \in DOMAIN f
  BY FoundContainers
<1>2. /\ Named(cs) \in Seq(PodContainers) /\ Len(Named(cs)) = Len(f)
      /\ \A j \in DOMAIN f : j # i => Named(cs)[j] = f[j]
  BY NamedContainers
<1>3. k \in PodContainers
  BY KindFields
<1>4. WithKind(cs, ini) = [Named(cs) EXCEPT ![i] = k]
  BY DEF WithKind
<1> HIDE DEF i, k, f
<1>5. /\ WithKind(cs, ini) \in Seq(PodContainers) /\ Len(WithKind(cs, ini)) = Len(f)
      /\ \A j \in DOMAIN f : WithKind(cs, ini)[j] = IF j = i THEN k ELSE f[j]
  BY <1>1, <1>2, <1>3, <1>4
<1> QED
  BY <1>5 DEF i, k, f

(* The kind container is found again where it was put, whatever is done to *)
(* its other fields.                                                       *)
LEMMA FoundAgain ==
  ASSUME NEW cs \in Seq(PodContainers), NEW ds \in Seq(PodContainers),
         Len(ds) = Len(Found(cs)), ds[kindIndex(cs)].name = kindContainerName,
         \A j \in DOMAIN Found(cs) : j # kindIndex(cs) => ds[j] = Found(cs)[j]
  PROVE  kindIndex(ds) = kindIndex(cs)
<1> DEFINE i == kindIndex(cs)
<1>1. /\ i \in DOMAIN ds /\ DOMAIN ds = DOMAIN Found(cs) /\ DOMAIN ds \subseteq Nat
      /\ DOMAIN ds = 1 .. Len(ds)
  BY FoundContainers
<1>2. i \in KindIn(ds)
  BY <1>1 DEF KindIn
<1>3. ASSUME NEW j \in KindIn(ds) PROVE j <= i
  <2>1. j \in DOMAIN ds /\ ds[j].name = kindContainerName /\ j \in Nat /\ i \in Nat
    BY <1>1 DEF KindIn
  <2>2. CASE j # i
    <3>1. Found(cs)[j].name = kindContainerName
      BY <1>1, <2>1, <2>2
    <3>2. j \in DOMAIN cs
      <4>1. EmptyContainer.name # kindContainerName
        BY EmptyContainerType DEF kindContainerName
      <4> QED BY <1>1, <2>1, <3>1, <4>1, FoundContainers
    <3>3. j \in KindIn(cs)
      BY <3>1, <3>2, FoundContainers DEF KindIn
    <3> QED BY <3>3, KindIndexValue
  <2> QED BY <2>1, <2>2
<1>4. kindIndex(ds) \in KindIn(ds) /\ i <= kindIndex(ds)
  BY <1>2, KindIndexValue
<1>5. kindIndex(ds) <= i /\ kindIndex(ds) \in Nat /\ i \in Nat
  BY <1>1, <1>3, <1>4 DEF KindIn
<1> QED
  BY <1>4, <1>5

-----------------------------------------------------------------------------
(* The Pods.                                                               *)

Pod(l, cs, ini, vs) == [labels |-> l, containers |-> cs, initContainers |-> ini, volumes |-> vs]

LEMMA PodFields ==
  ASSUME NEW l, NEW cs, NEW ini, NEW vs
  PROVE  /\ Pod(l, cs, ini, vs).labels = l
         /\ Pod(l, cs, ini, vs).containers = cs
         /\ Pod(l, cs, ini, vs).initContainers = ini
         /\ Pod(l, cs, ini, vs).volumes = vs
BY DEF Pod

(* The volumes of every machine Pod, and of a control plane's.             *)
BaseVolumes(m) ==
  AddMissing(AddMissing(m.spec.volumes, PlainVolumes, "default"), DOMAIN SecretItems, "secret")
PodVolumes(m) ==
  {Volume(c, "claim") : c \in m.claims} \cup {v \in BaseVolumes(m) : v.name \notin m.claims}
ControlPlaneVolumes(m) == AddMissing(PodVolumes(m), {varLibEtcdVolumeName}, "default")

LEMMA StorageUpdated ==
  ASSUME NEW l, NEW cs, NEW ini, NEW m
  PROVE  updateStorage(Pod(l, cs, ini, BaseVolumes(m)), m.claims) = Pod(l, cs, ini, PodVolumes(m))
<1> DEFINE old == BaseVolumes(m)
           new == PodVolumes(m)
<1>1. updateStorage(Pod(l, cs, ini, old), m.claims) = [Pod(l, cs, ini, old) EXCEPT !.volumes = new]
  BY DEF updateStorage, PodVolumes, Pod
<1> HIDE DEF old, new
<1>2. [Pod(l, cs, ini, old) EXCEPT !.volumes = new] = Pod(l, cs, ini, new)
  BY DEF Pod
<1> QED
  BY <1>1, <1>2 DEF old, new

LEMMA KindContainerSet ==
  ASSUME NEW l, NEW cs, NEW ini, NEW vs
  PROVE  setKindContainerBase(Pod(l, cs, ini, vs)) = Pod(l, WithKind(cs, ini), ini, vs)
<1> DEFINE p == Pod(l, cs, ini, vs)
           w == WithKind(cs, ini)
<1>1. p.containers = cs /\ p.initContainers = ini
  BY DEF Pod
<1>2. setKindContainerBase(p) = [p EXCEPT !.containers = w]
  BY <1>1 DEF setKindContainerBase, WithKind, KindOf, Named, Found
<1> HIDE DEF w
<1>3. [p EXCEPT !.containers = w] = Pod(l, w, ini, vs)
  BY DEF Pod
<1> QED
  BY <1>2, <1>3 DEF w

(* The kind container of a control plane.                                  *)
Published(c) == [c EXCEPT !.ports = @ \cup {apiServerPortName}]
ControlPlaneContainers(cs, ini) ==
  [WithKind(cs, ini) EXCEPT
     ![kindIndex(cs)] = Published(setVolumeMount(WithKind(cs, ini)[kindIndex(cs)], {EtcdMount}))]

LEMMA WorkerPod ==
  ASSUME NEW m
  PROVE  workerMachinePod(m)
           = Pod({"cluster"}, WithKind(m.spec.containers, m.spec.initContainers),
                 m.spec.initContainers, PodVolumes(m))
<1>1. getMachinePodBase(m.spec)
        = Pod({"cluster"}, m.spec.containers, m.spec.initContainers, BaseVolumes(m))
  BY DEF getMachinePodBase, Pod, BaseVolumes
<1> QED
  BY <1>1, StorageUpdated, KindContainerSet DEF workerMachinePod

LEMMA ControlPlanePod ==
  ASSUME NEW m, m.spec.containers \in Seq(PodContainers), m.spec.initContainers \in Seq(PodContainers)
  PROVE  controlPlaneMachinePod(m)
           = Pod({"cluster", "control-plane"},
                 ControlPlaneContainers(m.spec.containers, m.spec.initContainers),
                 m.spec.initContainers, ControlPlaneVolumes(m))
<1> DEFINE cs == m.spec.containers
           ini == m.spec.initContainers
           w == WithKind(cs, ini)
           l == {"cluster", "control-plane"}
           pod == Pod(l, w, ini, PodVolumes(m))
           i == kindIndex(cs)
<1>1. getMachinePodBase(m.spec) = Pod({"cluster"}, cs, ini, BaseVolumes(m))
  BY DEF getMachinePodBase, Pod, BaseVolumes
<1>2. [getMachinePodBase(m.spec) EXCEPT !.labels = @ \cup {"control-plane"}]
        = Pod(l, cs, ini, BaseVolumes(m))
  <2> DEFINE p == Pod({"cluster"}, cs, ini, BaseVolumes(m))
  <2>1. p.labels \cup {"control-plane"} = l
    BY PodFields
  <2> HIDE DEF l, cs, ini
  <2>2. [p EXCEPT !.labels = l] = Pod(l, cs, ini, BaseVolumes(m))
    BY DEF Pod
  <2> QED BY <1>1, <2>1, <2>2
<1>3. setKindContainerBase(updateStorage(Pod(l, cs, ini, BaseVolumes(m)), m.claims)) = pod
  BY StorageUpdated, KindContainerSet
<1>4. kindIndex(w) = i
  <2>1. /\ w \in Seq(PodContainers) /\ Len(w) = Len(Found(cs))
        /\ \A j \in DOMAIN Found(cs) : w[j] = IF j = i THEN KindOf(cs, ini) ELSE Found(cs)[j]
    BY WithKindContainers
  <2>2. i \in DOMAIN Found(cs)
    BY FoundContainers
  <2>3. KindOf(cs, ini).name = kindContainerName
    BY KindFields
  <2> HIDE DEF w, i, l, pod
  <2>4. w[i].name = kindContainerName
    BY <2>1, <2>2, <2>3
  <2> QED BY <2>1, <2>4, FoundAgain DEF i
<1>5. pod.containers = w /\ pod.volumes = PodVolumes(m)
  BY DEF Pod
<1> DEFINE k == Published(setVolumeMount(w[i], {EtcdMount}))
<1>6. controlPlaneMachinePod(m)
        = [pod EXCEPT !.volumes = ControlPlaneVolumes(m), !.containers = [w EXCEPT ![i] = k]]
  BY <1>2, <1>3, <1>4, <1>5
  DEF controlPlaneMachinePod, Published, EtcdMount, ControlPlaneVolumes
<1> DEFINE ds == [w EXCEPT ![i] = k]
<1>7. ds = ControlPlaneContainers(cs, ini)
  BY DEF ControlPlaneContainers
<1> DEFINE vs == PodVolumes(m)
           vs2 == ControlPlaneVolumes(m)
<1> HIDE DEF ds, l, w, cs, ini, vs, vs2
<1>8. [Pod(l, w, ini, vs) EXCEPT !.volumes = vs2, !.containers = ds] = Pod(l, ds, ini, vs2)
  <2>1. [Pod(l, w, ini, vs) EXCEPT !.volumes = vs2] = Pod(l, w, ini, vs2)
    BY DEF Pod
  <2>2. [Pod(l, w, ini, vs2) EXCEPT !.containers = ds] = Pod(l, ds, ini, vs2)
    BY DEF Pod
  <2> QED BY <2>1, <2>2
<1> QED
  BY <1>6, <1>7, <1>8 DEF ds, l, w, cs, ini, vs, vs2

(* The paths that the controller mounts are different, and none of those   *)
(* that every machine has is etcd's.                                       *)
LEMMA KindPaths ==
  /\ \A m, n \in kindMounts : m.path = n.path => m = n
  /\ \A m \in kindMounts : m.path # EtcdMount.path
  /\ EtcdMount.path = varLibEtcdVolumeMountPath /\ EtcdMount.volume = varLibEtcdVolumeName
BY DEF kindMounts, Mount, EtcdMount, varLibEtcdVolumeMountPath, varLibEtcdVolumeName

LEMMA PublishedFields ==
  ASSUME NEW c \in PodContainers
  PROVE  /\ Published(c) \in PodContainers
         /\ Published(c).name = c.name /\ Published(c).mounts = c.mounts
         /\ Published(c).resources = c.resources
         /\ Published(c).ports = c.ports \cup {apiServerPortName}
<1> DEFINE ps == c.ports \cup {apiServerPortName}
<1>1. ps \in SUBSET Ports
  BY DEF PodContainers, Ports
<1>2. Published(c) = [c EXCEPT !.ports = ps]
  BY DEF Published
<1> HIDE DEF ps
<1>3. /\ [c EXCEPT !.ports = ps] \in PodContainers
      /\ [c EXCEPT !.ports = ps].name = c.name /\ [c EXCEPT !.ports = ps].mounts = c.mounts
      /\ [c EXCEPT !.ports = ps].resources = c.resources /\ [c EXCEPT !.ports = ps].ports = ps
  BY <1>1 DEF PodContainers
<1> QED
  BY <1>2, <1>3 DEF ps

(* What the controller mounts in the kind container of either machine.     *)
AddedMounts(cp) == kindMounts \cup (IF cp THEN {EtcdMount} ELSE {})
Missing(ms, old) == {m \in ms : \A n \in old : n.path # m.path}

(* The containers that are built for cs and ini.                           *)
BuiltContainers(ds, cs, ini, cp) ==
  LET i == kindIndex(cs)
      found == Found(cs)[i]
  IN /\ ds \in Seq(PodContainers) /\ Len(ds) = Len(Found(cs))
     /\ \A j \in DOMAIN Found(cs) : j # i => ds[j] = Found(cs)[j]
     /\ ds[i].name = kindContainerName
     /\ ds[i].mounts = found.mounts \cup Missing(AddedMounts(cp), found.mounts)
     /\ ds[i].resources = IF GetPodQOS(Before(cs, ini)) = "BestEffort"
                            THEN LittleCPU ELSE found.resources
     /\ cp => apiServerPortName \in ds[i].ports

LEMMA WorkerContainersBuilt ==
  ASSUME NEW cs \in Seq(PodContainers), NEW ini \in Seq(PodContainers)
  PROVE  BuiltContainers(WithKind(cs, ini), cs, ini, FALSE)
<1>1. kindIndex(cs) \in DOMAIN Found(cs)
  BY FoundContainers
<1>2. AddedMounts(FALSE) = kindMounts
  BY DEF AddedMounts
<1>3. WithKind(cs, ini)[kindIndex(cs)] = KindOf(cs, ini)
  BY <1>1, WithKindContainers
<1>4. /\ WithKind(cs, ini) \in Seq(PodContainers)
      /\ Len(WithKind(cs, ini)) = Len(Found(cs))
      /\ \A j \in DOMAIN Found(cs) : j # kindIndex(cs) => WithKind(cs, ini)[j] = Found(cs)[j]
  BY WithKindContainers
<1>5. /\ KindOf(cs, ini).name = kindContainerName
      /\ KindOf(cs, ini).mounts = Found(cs)[kindIndex(cs)].mounts
           \cup Missing(kindMounts, Found(cs)[kindIndex(cs)].mounts)
      /\ KindOf(cs, ini).resources = IF GetPodQOS(Before(cs, ini)) = "BestEffort"
                                       THEN LittleCPU ELSE Found(cs)[kindIndex(cs)].resources
  BY KindFields DEF Missing
<1> QED
  BY <1>2, <1>3, <1>4, <1>5 DEF BuiltContainers

LEMMA ControlPlaneContainersBuilt ==
  ASSUME NEW cs \in Seq(PodContainers), NEW ini \in Seq(PodContainers)
  PROVE  BuiltContainers(ControlPlaneContainers(cs, ini), cs, ini, TRUE)
<1> DEFINE w == WithKind(cs, ini)
           i == kindIndex(cs)
           f == Found(cs)
           e == setVolumeMount(w[i], {EtcdMount})
           k == Published(e)
           ds == ControlPlaneContainers(cs, ini)
<1>1. BuiltContainers(w, cs, ini, FALSE)
  BY WorkerContainersBuilt
<1>2. f \in Seq(PodContainers) /\ i \in DOMAIN f
  BY FoundContainers
<1>3. /\ w \in Seq(PodContainers) /\ Len(w) = Len(f)
      /\ \A j \in DOMAIN f : j # i => w[j] = f[j]
      /\ w[i].name = kindContainerName
      /\ w[i].mounts = f[i].mounts \cup Missing(kindMounts, f[i].mounts)
      /\ w[i].resources = IF GetPodQOS(Before(cs, ini)) = "BestEffort"
                            THEN LittleCPU ELSE f[i].resources
  <2>1. AddedMounts(FALSE) = kindMounts
    BY DEF AddedMounts
  <2> QED BY <1>1, <2>1 DEF BuiltContainers
<1>4. ds = [w EXCEPT ![i] = k]
  BY DEF ControlPlaneContainers
<1> HIDE DEF w, i, f, ds
<1>5. w[i] \in PodContainers
  BY <1>2, <1>3
<1>6. /\ e \in PodContainers /\ e.name = w[i].name /\ e.resources = w[i].resources
      /\ e.mounts = w[i].mounts \cup Missing({EtcdMount}, w[i].mounts)
  BY <1>5, Mounted, KindMountsType DEF Missing
<1> HIDE DEF e
<1>7. /\ k \in PodContainers /\ k.name = e.name /\ k.resources = e.resources
      /\ k.mounts = e.mounts /\ apiServerPortName \in k.ports
  BY <1>6, PublishedFields
<1>8. e.mounts = f[i].mounts \cup Missing(AddedMounts(TRUE), f[i].mounts)
  BY <1>3, <1>6, KindPaths DEF Missing, AddedMounts
<1> HIDE DEF k
<1>9. /\ ds \in Seq(PodContainers) /\ Len(ds) = Len(f)
      /\ \A j \in DOMAIN f : j # i => ds[j] = f[j]
      /\ ds[i] = k
  BY <1>2, <1>3, <1>4, <1>7
<1> QED
  BY <1>3, <1>6, <1>7, <1>8, <1>9 DEF BuiltContainers, i, f, ds

(* The Pod that is built for a machine.                                    *)
LEMMA BuiltPod ==
  ASSUME NEW m, m.controlPlane \in BOOLEAN,
         m.spec.containers \in Seq(PodContainers), m.spec.initContainers \in Seq(PodContainers)
  PROVE  LET p == PodFor(m)
             cs == m.spec.containers
         IN /\ BuiltContainers(p.containers, cs, m.spec.initContainers, m.controlPlane)
            /\ kindIndex(p.containers) = kindIndex(cs)
            /\ p.initContainers = m.spec.initContainers
            /\ p.volumes = IF m.controlPlane THEN ControlPlaneVolumes(m) ELSE PodVolumes(m)
<1> DEFINE cs == m.spec.containers
           ini == m.spec.initContainers
<1>1. ASSUME NEW ds, NEW cp, BuiltContainers(ds, cs, ini, cp) PROVE kindIndex(ds) = kindIndex(cs)
  BY <1>1, FoundAgain DEF BuiltContainers
<1>2. CASE m.controlPlane
  <2>1. PodFor(m) = Pod({"cluster", "control-plane"}, ControlPlaneContainers(cs, ini), ini,
                        ControlPlaneVolumes(m))
    BY <1>2, ControlPlanePod DEF PodFor
  <2>2. /\ PodFor(m).containers = ControlPlaneContainers(cs, ini)
        /\ PodFor(m).initContainers = ini /\ PodFor(m).volumes = ControlPlaneVolumes(m)
    BY <2>1, PodFields
  <2>3. BuiltContainers(ControlPlaneContainers(cs, ini), cs, ini, m.controlPlane)
    BY <1>2, ControlPlaneContainersBuilt
  <2> QED BY <1>1, <1>2, <2>2, <2>3
<1>3. CASE ~m.controlPlane
  <2>1. PodFor(m) = Pod({"cluster"}, WithKind(cs, ini), ini, PodVolumes(m))
    BY <1>3, WorkerPod DEF PodFor
  <2>2. /\ PodFor(m).containers = WithKind(cs, ini)
        /\ PodFor(m).initContainers = ini /\ PodFor(m).volumes = PodVolumes(m)
    BY <2>1, PodFields
  <2>3. BuiltContainers(WithKind(cs, ini), cs, ini, m.controlPlane)
    BY <1>3, WorkerContainersBuilt
  <2> QED BY <1>1, <1>3, <2>2, <2>3
<1> QED BY <1>2, <1>3

-----------------------------------------------------------------------------
(* The volumes.                                                            *)

LEMMA VolumeFields ==
  ASSUME NEW n, NEW s
  PROVE  Volume(n, s).name = n /\ Volume(n, s).source = s
BY DEF Volume

OneEach(vs) == \A v, w \in vs : v.name = w.name => v = w

(* The defaults add their names and do not repeat one.                     *)
LEMMA AddedNames ==
  ASSUME NEW vs, NEW ns, NEW s
  PROVE  /\ vs \subseteq AddMissing(vs, ns, s)
         /\ Names(AddMissing(vs, ns, s)) = Names(vs) \cup ns
         /\ OneEach(vs) => OneEach(AddMissing(vs, ns, s))
         /\ \A v \in AddMissing(vs, ns, s) : v \in vs \/ (v.source = s /\ v.name \in ns)
<1> DEFINE new == {Volume(n, s) : n \in ns \ Names(vs)}
<1>1. AddMissing(vs, ns, s) = vs \cup new
  BY DEF AddMissing
<1>2. \A v \in new : v.name \in ns /\ v.name \notin Names(vs) /\ v = Volume(v.name, s)
  BY VolumeFields
<1>3. \A n \in ns : n \notin Names(vs) => \E v \in new : v.name = n
  BY VolumeFields
<1> HIDE DEF new
<1>4. \A v \in vs : v.name \in Names(vs)
  BY DEF Names
<1>5. Names(AddMissing(vs, ns, s)) = Names(vs) \cup ns
  BY <1>1, <1>2, <1>3 DEF Names
<1>6. ASSUME OneEach(vs) PROVE OneEach(AddMissing(vs, ns, s))
  BY <1>1, <1>2, <1>4, <1>6 DEF OneEach
<1>7. \A v \in new : v.source = s
  BY <1>2, VolumeFields
<1> QED
  BY <1>1, <1>2, <1>5, <1>6, <1>7

(* The claims replace the volumes of their names.                          *)
LEMMA ClaimedVolumes ==
  ASSUME NEW m
  PROVE  /\ \A c \in m.claims : Volume(c, "claim") \in PodVolumes(m)
         /\ \A v \in BaseVolumes(m) : v.name \notin m.claims => v \in PodVolumes(m)
         /\ Names(PodVolumes(m)) = Names(BaseVolumes(m)) \cup m.claims
         /\ OneEach(BaseVolumes(m)) => OneEach(PodVolumes(m))
         /\ \A v \in PodVolumes(m) : v \in BaseVolumes(m) \/ v.source = "claim"
<1> DEFINE claims == {Volume(c, "claim") : c \in m.claims}
           rest == {v \in BaseVolumes(m) : v.name \notin m.claims}
<1>1. PodVolumes(m) = claims \cup rest
  BY DEF PodVolumes
<1>2. /\ \A v \in claims : v.name \in m.claims /\ v = Volume(v.name, "claim") /\ v.source = "claim"
      /\ \A c \in m.claims : Volume(c, "claim") \in claims /\ Volume(c, "claim").name = c
  BY VolumeFields
<1>3. \A v : v \in rest <=> v \in BaseVolumes(m) /\ v.name \notin m.claims
  OBVIOUS
<1> HIDE DEF claims, rest
<1>4. Names(PodVolumes(m)) = Names(BaseVolumes(m)) \cup m.claims
  BY <1>1, <1>2, <1>3 DEF Names
<1>5. ASSUME OneEach(BaseVolumes(m)) PROVE OneEach(PodVolumes(m))
  BY <1>1, <1>2, <1>3, <1>5 DEF OneEach
<1> QED
  BY <1>1, <1>2, <1>3, <1>4, <1>5

(* What a machine Pod's volumes are called, and where they come from.      *)
AddedVolumes(m) ==
  PlainVolumes \cup DOMAIN SecretItems \cup m.claims
    \cup (IF m.controlPlane THEN {varLibEtcdVolumeName} ELSE {})

LEMMA BuiltVolumes ==
  ASSUME NEW m, NEW vs, vs = IF m.controlPlane THEN ControlPlaneVolumes(m) ELSE PodVolumes(m)
  PROVE  /\ \A c \in m.claims : Volume(c, "claim") \in vs
         /\ \A v \in m.spec.volumes : v.name \notin m.claims => v \in vs
         /\ Names(vs) = Names(m.spec.volumes) \cup AddedVolumes(m)
         /\ OneEach(m.spec.volumes) => OneEach(vs)
         /\ \A v \in vs : \/ v \in m.spec.volumes
                          \/ v.source \in {"default", "claim"}
                          \/ v.source = "secret" /\ v.name \in DOMAIN SecretItems
<1> DEFINE plain == AddMissing(m.spec.volumes, PlainVolumes, "default")
<1>1. BaseVolumes(m) = AddMissing(plain, DOMAIN SecretItems, "secret")
  BY DEF BaseVolumes
<1>2. /\ m.spec.volumes \subseteq plain /\ Names(plain) = Names(m.spec.volumes) \cup PlainVolumes
      /\ OneEach(m.spec.volumes) => OneEach(plain)
      /\ \A v \in plain : v \in m.spec.volumes \/ v.source = "default"
  BY AddedNames
<1> HIDE DEF plain
<1>3. /\ plain \subseteq BaseVolumes(m)
      /\ Names(BaseVolumes(m)) = Names(plain) \cup DOMAIN SecretItems
      /\ OneEach(plain) => OneEach(BaseVolumes(m))
      /\ \A v \in BaseVolumes(m) :
           v \in plain \/ (v.source = "secret" /\ v.name \in DOMAIN SecretItems)
  BY <1>1, AddedNames
<1>4. /\ PodVolumes(m) \subseteq ControlPlaneVolumes(m)
      /\ Names(ControlPlaneVolumes(m)) = Names(PodVolumes(m)) \cup {varLibEtcdVolumeName}
      /\ OneEach(PodVolumes(m)) => OneEach(ControlPlaneVolumes(m))
      /\ \A v \in ControlPlaneVolumes(m) : v \in PodVolumes(m) \/ v.source = "default"
  BY AddedNames DEF ControlPlaneVolumes
<1>5. /\ PodVolumes(m) \subseteq vs
      /\ OneEach(PodVolumes(m)) => OneEach(vs)
      /\ \A v \in vs : v \in PodVolumes(m) \/ v.source = "default"
  BY <1>4
<1>6. Names(vs) = Names(PodVolumes(m))
                    \cup (IF m.controlPlane THEN {varLibEtcdVolumeName} ELSE {})
  BY <1>4
<1>7. Names(vs) = Names(m.spec.volumes) \cup AddedVolumes(m)
  BY <1>2, <1>3, <1>6, ClaimedVolumes DEF AddedVolumes
<1> QED
  BY <1>2, <1>3, <1>5, <1>7, ClaimedVolumes

-----------------------------------------------------------------------------
(* Into the API server.                                                    *)

UserMachines == [spec : Specs, claims : ClaimTemplates, controlPlane : BOOLEAN]

LEMMA UserMachineFields ==
  ASSUME NEW m \in UserMachines
  PROVE  /\ m.spec \in PodSpecs /\ m.controlPlane \in BOOLEAN
         /\ m.spec.containers \in Seq(PodContainers)
         /\ m.spec.initContainers \in Seq(PodContainers)
         /\ \A v \in m.spec.volumes : v.source = "user"
<1>1. m.spec \in PodSpecs /\ m.controlPlane \in BOOLEAN
  BY PodSpecsAssumption DEF UserMachines
<1>2. m.spec.containers \in Seq(Containers) /\ m.spec.initContainers \in Seq(Containers)
  BY <1>1 DEF PodSpecs
<1>3. \A v \in m.spec.volumes : v.source = "user"
  BY <1>1 DEF PodSpecs
<1> QED
  BY <1>1, <1>2, <1>3, UserContainers

LEMMA DefaultFields ==
  ASSUME NEW s \in PodSpecs
  PROVE  /\ Default(s).listed = TRUE
         /\ Default(s).containers = s.containers /\ Default(s).initContainers = s.initContainers
         /\ Default(s).volumes = s.volumes
         /\ Default(Default(s)) = Default(s)
BY DEF Default, PodSpecs

(* The conversions keep the spec: every arrival is the machine defaulted.  *)
LEMMA ArrivalsAgree ==
  ASSUME NEW m \in UserMachines, NEW s \in Arrivals(m)
  PROVE  s.podSpec = Default(m.spec) /\ s.volumeClaimTemplates = m.claims
<1> DEFINE p == machineSpec(m)
           d == Defaulted(p)
<1>1. p = [providerID |-> FALSE, allowRecreation |-> FALSE,
           podSpec |-> m.spec, volumeClaimTemplates |-> m.claims]
  BY DEF machineSpec
<1>2. d = [providerID |-> FALSE, allowRecreation |-> FALSE,
           podSpec |-> Default(m.spec), volumeClaimTemplates |-> m.claims]
  <2> DEFINE no == FALSE
             spec == m.spec
             claims == m.claims
             q == Default(spec)
  <2>1. p = [providerID |-> no, allowRecreation |-> no,
             podSpec |-> spec, volumeClaimTemplates |-> claims]
    BY <1>1
  <2> HIDE DEF no, spec, claims, q, p
  <2>2. p.podSpec = spec
    BY <2>1
  <2>3. [[providerID |-> no, allowRecreation |-> no,
          podSpec |-> spec, volumeClaimTemplates |-> claims] EXCEPT !.podSpec = q]
          = [providerID |-> no, allowRecreation |-> no,
             podSpec |-> q, volumeClaimTemplates |-> claims]
    OBVIOUS
  <2>4. d = [p EXCEPT !.podSpec = q]
    BY <2>2 DEF Defaulted, q
  <2> QED BY <2>1, <2>3, <2>4 DEF no, spec, claims, q
<1>3. MachineConvertTo(NewV1alpha2Machine(d)).spec = d
  BY <1>2 DEF MachineConvertTo, NewV1alpha2Machine, SpecConvertTo
<1>4. TemplateConvertTo(NewTemplate(p)) = NewTemplate(p) /\ NewTemplate(p).spec = p
  BY <1>1 DEF TemplateConvertTo, NewTemplate, SpecConvertTo
<1>5. TemplateConvertTo(TemplateConvertFrom(NewTemplate(p))) = NewTemplate(p)
  BY <1>1 DEF TemplateConvertTo, TemplateConvertFrom, NewTemplate, SpecConvertTo, SpecConvertFrom
<1>6. s = d
  BY <1>3, <1>4, <1>5 DEF Arrivals
<1> QED
  BY <1>2, <1>6

LEMMA DefaultedMachine ==
  ASSUME machine \in UserMachines
  PROVE  /\ AsDefaulted.spec = Default(machine.spec)
         /\ AsDefaulted.claims = machine.claims
         /\ AsDefaulted.controlPlane = machine.controlPlane
BY DEF AsDefaulted, UserMachines

LEMMA InitBuild == Init => BuildInv
BY DEF Init, BuildInv, Built

LEMMA NextBuild ==
  ASSUME BuildInv, [Next]_vars
  PROVE  BuildInv'
<1>0. machine \in UserMachines
  BY DEF BuildInv, UserMachines
<1>1. CASE Admit
  <2>1. PICK s \in Arrivals(machine) :
          /\ answer' = IF s.podSpec.listed THEN "admitted" ELSE "rejected"
          /\ stored' = [machine EXCEPT !.spec = s.podSpec, !.claims = s.volumeClaimTemplates]
    BY <1>1 DEF Admit
  <2>2. s.podSpec = Default(machine.spec) /\ s.volumeClaimTemplates = machine.claims
    BY <1>0, ArrivalsAgree
  <2>3. answer' = "admitted"
    BY <1>0, <2>1, <2>2, UserMachineFields, DefaultFields
  <2>4. stored' = AsDefaulted
    BY <1>0, <2>1, <2>2 DEF AsDefaulted, UserMachines
  <2>5. machine' = machine /\ AsDefaulted' = AsDefaulted
    BY <1>1 DEF Admit, AsDefaulted
  <2> QED BY <2>3, <2>4, <2>5 DEF BuildInv, Built
<1>2. ASSUME NEW pod, Create(pod), answer # "none", pod = PodFor(stored) PROVE BuildInv'
  <2>1. machine' = machine /\ stored' = stored /\ machinePod' = pod
        /\ answer' = IF Valid(pod) THEN "created" ELSE "refused"
    BY <1>2 DEF Create
  <2>2. stored' = AsDefaulted'
    BY <1>2, <2>1 DEF BuildInv, AsDefaulted
  <2>3. machinePod' = PodFor(stored)'
    BY <1>2, <2>1
  <2>4. Valid(machinePod)' <=> Valid(pod)
    BY <2>1
  <2> QED BY <2>1, <2>2, <2>3, <2>4 DEF BuildInv, Built
<1>3. CASE createControlPlaneMachinePod
  BY <1>2, <1>3 DEF createControlPlaneMachinePod, PodFor
<1>4. CASE createWorkerMachinePod
  BY <1>2, <1>4 DEF createWorkerMachinePod, PodFor
<1>5. CASE UNCHANGED vars
  BY <1>5 DEF vars, BuildInv, Built, AsDefaulted
<1> QED
  BY <1>1, <1>3, <1>4, <1>5 DEF Next

(* The controller builds each machine's Pod from what the user wrote, in   *)
(* whichever version and through a template or not, and no machine is      *)
(* rejected.                                                               *)
THEOREM BuildInvariant == Spec => []BuildInv
BY InitBuild, NextBuild, PTL DEF Spec

(* What the properties below look at.                                      *)
LEMMA BuiltMachine ==
  ASSUME BuildInv, Built
  PROVE  LET cs == machine.spec.containers
             ini == machine.spec.initContainers
         IN /\ machine \in UserMachines
            /\ BuiltContainers(machinePod.containers, cs, ini, machine.controlPlane)
            /\ kindContainer = machinePod.containers[kindIndex(cs)]
            /\ machinePod.initContainers = ini
            /\ \A c \in machine.claims : Volume(c, "claim") \in machinePod.volumes
            /\ \A v \in machine.spec.volumes : v.name \notin machine.claims => v \in machinePod.volumes
            /\ Names(machinePod.volumes) = Names(machine.spec.volumes) \cup AddedVolumes(machine)
            /\ OneEach(machine.spec.volumes) => OneEach(machinePod.volumes)
            /\ \A v \in machinePod.volumes :
                 \/ v \in machine.spec.volumes
                 \/ v.source \in {"default", "claim"}
                 \/ v.source = "secret" /\ v.name \in DOMAIN SecretItems
<1>1. machine \in UserMachines
  BY DEF BuildInv, UserMachines
<1>2. stored = AsDefaulted /\ machinePod = PodFor(stored)
  BY DEF BuildInv, Built
<1>3. /\ stored.spec.containers = machine.spec.containers
      /\ stored.spec.initContainers = machine.spec.initContainers
      /\ stored.spec.volumes = machine.spec.volumes
      /\ stored.claims = machine.claims /\ stored.controlPlane = machine.controlPlane
  BY <1>1, <1>2, DefaultedMachine, UserMachineFields, DefaultFields
<1>4. /\ BuiltContainers(machinePod.containers, machine.spec.containers,
                         machine.spec.initContainers, machine.controlPlane)
      /\ kindIndex(machinePod.containers) = kindIndex(machine.spec.containers)
      /\ machinePod.initContainers = machine.spec.initContainers
      /\ machinePod.volumes = IF stored.controlPlane THEN ControlPlaneVolumes(stored)
                                                     ELSE PodVolumes(stored)
  BY <1>1, <1>2, <1>3, UserMachineFields, BuiltPod
<1>5. AddedVolumes(stored) = AddedVolumes(machine)
  BY <1>3 DEF AddedVolumes
<1>6. /\ \A c \in stored.claims : Volume(c, "claim") \in machinePod.volumes
      /\ \A v \in stored.spec.volumes : v.name \notin stored.claims => v \in machinePod.volumes
      /\ Names(machinePod.volumes) = Names(stored.spec.volumes) \cup AddedVolumes(stored)
      /\ OneEach(stored.spec.volumes) => OneEach(machinePod.volumes)
      /\ \A v \in machinePod.volumes :
           \/ v \in stored.spec.volumes
           \/ v.source \in {"default", "claim"}
           \/ v.source = "secret" /\ v.name \in DOMAIN SecretItems
  <2> DEFINE m == stored
             vs == machinePod.volumes
  <2>1. vs = IF m.controlPlane THEN ControlPlaneVolumes(m) ELSE PodVolumes(m)
    BY <1>4
  <2> HIDE DEF m, vs
  <2>2. /\ \A c \in m.claims : Volume(c, "claim") \in vs
        /\ \A v \in m.spec.volumes : v.name \notin m.claims => v \in vs
        /\ Names(vs) = Names(m.spec.volumes) \cup AddedVolumes(m)
        /\ OneEach(m.spec.volumes) => OneEach(vs)
        /\ \A v \in vs : \/ v \in m.spec.volumes
                         \/ v.source \in {"default", "claim"}
                         \/ v.source = "secret" /\ v.name \in DOMAIN SecretItems
    BY <2>1, BuiltVolumes
  <2> QED BY <2>2 DEF m, vs
<1> QED
  BY <1>1, <1>3, <1>4, <1>5, <1>6 DEF kindContainer

-----------------------------------------------------------------------------
(* What the properties say of any state in which the invariant holds.      *)

LEMMA OwnMounts ==
  ASSUME machine \in UserMachines
  PROVE  ownMounts = Found(machine.spec.containers)[kindIndex(machine.spec.containers)].mounts
<1> DEFINE cs == machine.spec.containers
           i == kindIndex(cs)
<1>1. cs \in Seq(PodContainers)
  BY UserMachineFields
<1>2. ownMounts = UNION {cs[j].mounts : j \in {i} \cap DOMAIN cs}
  BY DEF ownMounts
<1> HIDE DEF cs
<1>3. i \in DOMAIN Found(cs)
  BY <1>1, FoundContainers
<1>4. CASE i \in DOMAIN cs
  <2>1. Found(cs)[i] = cs[i]
    BY <1>1, <1>4, FoundContainers
  <2> QED BY <1>2, <1>4, <2>1 DEF cs
<1>5. CASE i \notin DOMAIN cs
  <2>1. Found(cs)[i].mounts = {}
    BY <1>1, <1>3, <1>5, FoundContainers, EmptyContainerType
  <2> QED BY <1>2, <1>5, <2>1 DEF cs
<1> QED BY <1>4, <1>5

LEMMA KindContainerBuilt ==
  ASSUME BuildInv, Built
  PROVE  /\ kindContainer.mounts = ownMounts \cup Missing(AddedMounts(machine.controlPlane), ownMounts)
         /\ machine.controlPlane => apiServerPortName \in kindContainer.ports
<1> DEFINE cs == machine.spec.containers
           ini == machine.spec.initContainers
           cp == machine.controlPlane
           ds == machinePod.containers
<1>1. /\ machine \in UserMachines /\ kindContainer = ds[kindIndex(cs)]
      /\ BuiltContainers(ds, cs, ini, cp)
  BY BuiltMachine
<1>2. ownMounts = Found(cs)[kindIndex(cs)].mounts
  BY <1>1, OwnMounts
<1> HIDE DEF cs, ini, cp, ds
<1>3. /\ ds[kindIndex(cs)].mounts = Found(cs)[kindIndex(cs)].mounts
           \cup Missing(AddedMounts(cp), Found(cs)[kindIndex(cs)].mounts)
      /\ cp => apiServerPortName \in ds[kindIndex(cs)].ports
  BY <1>1 DEF BuiltContainers
<1> QED
  BY <1>1, <1>2, <1>3 DEF cp

LEMMA StorageKept == BuildInv => UserStorageKept
<1> SUFFICES ASSUME BuildInv, Built PROVE UserStorageKept
  BY DEF UserStorageKept
<1>1. ownMounts \subseteq kindContainer.mounts
  BY KindContainerBuilt
<1> QED
  BY <1>1, BuiltMachine DEF UserStorageKept

LEMMA EtcdOnClaim == BuildInv => EtcdOnItsClaim
<1> SUFFICES ASSUME BuildInv, Built, machine.controlPlane, varLibEtcdVolumeName \in machine.claims,
                    NEW m \in kindContainer.mounts, m.path = varLibEtcdVolumeMountPath,
                    m \notin ownMounts
             PROVE  Volume(m.volume, "claim") \in machinePod.volumes
  BY DEF EtcdOnItsClaim
<1>1. m \in AddedMounts(TRUE)
  BY KindContainerBuilt DEF Missing
<1>2. m = EtcdMount
  BY <1>1, KindPaths DEF AddedMounts
<1> QED
  BY <1>2, KindPaths, BuiltMachine

LEMMA KeysExist == BuildInv => ProjectedKeysExist
<1> SUFFICES ASSUME BuildInv, Built, NEW v \in machinePod.volumes, v.source = "secret"
             PROVE  SecretItems[v.name] \subseteq generatateCloudInitSecret
  BY DEF ProjectedKeysExist
<1>1. v \notin machine.spec.volumes
  BY BuiltMachine, UserMachineFields
<1>2. v.name \in DOMAIN SecretItems
  BY <1>1, BuiltMachine
<1>3. ASSUME NEW n \in DOMAIN SecretItems PROVE SecretItems[n] \subseteq generatateCloudInitSecret
  BY <1>3 DEF SecretItems, generatateCloudInitSecret
<1> QED
  BY <1>2, <1>3

-----------------------------------------------------------------------------
(* The class of the Pod that is built.                                     *)

ResourcesOf(all) == [i \in DOMAIN all |-> all[i].resources]

LEMMA ResourcesType ==
  ASSUME NEW all \in Seq(PodContainers)
  PROVE  /\ ResourcesOf(all) \in Seq(Quantities(Nat)) /\ DOMAIN ResourcesOf(all) = DOMAIN all
         /\ \A i \in DOMAIN all : ResourcesOf(all)[i] = all[i].resources
<1>1. ASSUME NEW i \in DOMAIN all PROVE all[i].resources \in Quantities(Nat)
  <2>1. all[i] \in PodContainers
    OBVIOUS
  <2> QED BY <2>1 DEF PodContainers
<1>2. Len(all) \in Nat /\ DOMAIN all = 1 .. Len(all)
  OBVIOUS
<1> QED
  BY <1>1, <1>2 DEF ResourcesOf

(* The kind container gets its little CPU exactly when the Pod would be    *)
(* best effort without it.                                                 *)
LEMMA BuiltClass ==
  ASSUME NEW cs \in Seq(PodContainers), NEW ini \in Seq(PodContainers), NEW ds, NEW cp,
         BuiltContainers(ds, cs, ini, cp)
  PROVE  ds \o ini \in Seq(PodContainers) /\ GetPodQOS(ResourcesOf(ds \o ini)) # "BestEffort"
<1> DEFINE i == kindIndex(cs)
           all == ds \o ini
           old == Found(cs) \o ini
<1>1. /\ ds \in Seq(PodContainers) /\ Len(ds) = Len(Found(cs))
      /\ Found(cs) \in Seq(PodContainers) /\ i \in DOMAIN Found(cs)
      /\ \A j \in DOMAIN Found(cs) : j # i => ds[j] = Found(cs)[j]
      /\ ds[i].resources = IF GetPodQOS(Before(cs, ini)) = "BestEffort"
                             THEN LittleCPU ELSE Found(cs)[i].resources
  BY FoundContainers DEF BuiltContainers
<1>2. /\ all \in Seq(PodContainers) /\ i \in DOMAIN all /\ all[i] = ds[i]
  BY <1>1, Joined
<1>3. CASE GetPodQOS(Before(cs, ini)) = "BestEffort"
  <2>1. ResourcesOf(all)[i].requests["cpu"] = 1 /\ "cpu" \in Resources
    BY <1>1, <1>2, <1>3, ResourcesType, LittleCPUType DEF Resources
  <2>2. ASSUME Nothing(ResourcesOf(all)) PROVE FALSE
    <3>1. i \in DOMAIN ResourcesOf(all)
      BY <1>2, ResourcesType
    <3>2. ResourcesOf(all)[i].requests["cpu"] = 0
      BY <2>1, <2>2, <3>1 DEF Nothing
    <3> QED BY <2>1, <3>2
  <2> QED BY <1>2, <2>2, ResourcesType, BestEffortMeansNothing
<1>4. CASE GetPodQOS(Before(cs, ini)) # "BestEffort"
  <2>1. DOMAIN all = DOMAIN old
    <3>1. DOMAIN all = 1 .. Len(ds) + Len(ini)
      BY <1>1, Joined
    <3>2. DOMAIN old = 1 .. Len(Found(cs)) + Len(ini)
      BY <1>1, Joined
    <3> QED BY <1>1, <3>1, <3>2
  <2>2. ASSUME NEW j \in DOMAIN old PROVE all[j].resources = old[j].resources
    <3>1. CASE j \in 1 .. Len(Found(cs))
      <4>1. all[j] = ds[j] /\ old[j] = Found(cs)[j]
        BY <1>1, <3>1, Joined
      <4> QED BY <1>1, <1>4, <3>1, <4>1
    <3>2. CASE j \notin 1 .. Len(Found(cs))
      <4>1. j \in Len(Found(cs)) + 1 .. Len(Found(cs)) + Len(ini)
        BY <1>1, <3>2, Joined
      <4> QED BY <1>1, <4>1, Joined
    <3> QED BY <3>1, <3>2
  <2>3. ResourcesOf(all) = Before(cs, ini)
    BY <2>1, <2>2 DEF ResourcesOf, Before
  <2> QED BY <1>2, <1>4, <2>3
<1> QED BY <1>3, <1>4

LEMMA PodClass ==
  ASSUME BuildInv, Built
  PROVE  LET all == machinePod.containers \o machinePod.initContainers
         IN /\ all \in Seq(PodContainers)
            /\ GetPodQOS(ResourcesOf(all)) # "BestEffort"
<1> DEFINE cs == machine.spec.containers
           ini == machine.spec.initContainers
           cp == machine.controlPlane
           ds == machinePod.containers
<1>1. /\ machine \in UserMachines /\ BuiltContainers(ds, cs, ini, cp)
      /\ machinePod.initContainers = ini
  BY BuiltMachine
<1>2. cs \in Seq(PodContainers) /\ ini \in Seq(PodContainers)
  BY <1>1, UserMachineFields
<1> HIDE DEF cs, ini, cp, ds
<1>3. ds \o ini \in Seq(PodContainers) /\ GetPodQOS(ResourcesOf(ds \o ini)) # "BestEffort"
  BY <1>1, <1>2, BuiltClass
<1> QED
  BY <1>1, <1>3 DEF ds

LEMMA NotBestEffort == BuildInv => NeverBestEffort
BY PodClass DEF NeverBestEffort, ResourcesOf

LEMMA Documented == BuildInv => ClassAsDocumented
<1> SUFFICES ASSUME BuildInv, answer = "created" PROVE ClassAsDocumented
  BY DEF ClassAsDocumented
<1> DEFINE all == machinePod.containers \o machinePod.initContainers
           rs == ResourcesOf(all)
<1>1. Built /\ Valid(machinePod)
  BY DEF BuildInv, Built
<1>2. all \in Seq(PodContainers) /\ rs # <<>>
  <2>1. all \in Seq(PodContainers) /\ GetPodQOS(rs) # "BestEffort"
    BY <1>1, PodClass
  <2>2. ASSUME rs = <<>> PROVE FALSE
    <3>1. <<>> \in Seq(Quantities(Nat)) /\ Nothing(<<>>)
      BY DEF Nothing
    <3> QED BY <2>1, <2>2, <3>1, BestEffortMeansNothing
  <2> QED BY <2>1, <2>2
<1>3. \A i \in DOMAIN all, r \in Resources :
        all[i].resources.limits[r] > 0
          => all[i].resources.requests[r] <= all[i].resources.limits[r]
  BY <1>1 DEF Valid
<1>4. ClassAsDocumented <=>
        /\ (GetPodQOS(rs) = "BestEffort") = Nothing(rs)
        /\ (GetPodQOS(rs) = "Guaranteed") = Exact(rs)
  BY DEF ClassAsDocumented, ResourcesOf, Nothing, Exact
<1> HIDE DEF all
<1>5. /\ rs \in Seq(Quantities(Nat)) /\ DOMAIN rs = DOMAIN all
      /\ \A i \in DOMAIN all : rs[i] = all[i].resources
  BY <1>2, ResourcesType
<1> HIDE DEF rs
<1>6. GetPodQOS(rs) = "BestEffort" <=> Nothing(rs)
  BY <1>5, BestEffortMeansNothing
<1>7. GetPodQOS(rs) = "Guaranteed" <=> Exact(rs)
  BY <1>2, <1>3, <1>5, GuaranteedMeansExact
<1>8. Nothing(rs) \in BOOLEAN /\ Exact(rs) \in BOOLEAN
  BY DEF Nothing, Exact
<1> QED
  BY <1>4, <1>6, <1>7, <1>8

-----------------------------------------------------------------------------
(* A sound PodSpec is created.                                             *)

ValidParts(cs, ini, vs) ==
  LET all == cs \o ini
  IN /\ \A i, j \in DOMAIN all : all[i].name = all[j].name => i = j
     /\ \A i \in DOMAIN all :
          /\ all[i].name # ""
          /\ \A m \in all[i].mounts :
               /\ m.volume \in Names(vs)
               /\ \A n \in all[i].mounts : n.path = m.path => n = m
          /\ \A r \in Resources :
               all[i].resources.limits[r] > 0
                 => all[i].resources.requests[r] <= all[i].resources.limits[r]
     /\ OneEach(vs)
     /\ cs # <<>>

LEMMA ValidByParts ==
  ASSUME NEW pod
  PROVE  Valid(pod) <=> ValidParts(pod.containers, pod.initContainers, pod.volumes)
BY DEF Valid, ValidParts, OneEach

(* The default mounts find their volumes.                                  *)
LEMMA AddedMountsFit ==
  ASSUME NEW m
  PROVE  /\ \A x \in AddedMounts(m.controlPlane) : x.volume \in AddedVolumes(m)
         /\ \A x, y \in AddedMounts(m.controlPlane) : x.path = y.path => x = y
<1>1. DOMAIN SecretItems = {"cloud-init-scripts", "cloud-init-systemd-units",
                            "etc-systemd-system-kubelet-service-d"}
  BY DEF SecretItems
<1>2. \A x \in kindMounts : x.volume \in PlainVolumes \cup DOMAIN SecretItems
  BY <1>1 DEF kindMounts, Mount, PlainVolumes
<1> QED
  BY <1>2, KindPaths DEF AddedMounts, AddedVolumes

(* The containers cs and ds are the same, but ds has in its container i    *)
(* the mounts that were missing, and perhaps a little CPU.                 *)
KindChanged(ds, cs, i, added) ==
  /\ cs \in Seq(PodContainers) /\ ds \in Seq(PodContainers)
  /\ i \in DOMAIN cs /\ Len(ds) = Len(cs)
  /\ \A j \in DOMAIN cs : j # i => ds[j] = cs[j]
  /\ ds[i].name = cs[i].name
  /\ ds[i].mounts = cs[i].mounts \cup Missing(added, cs[i].mounts)
  /\ ds[i].resources = LittleCPU \/ ds[i].resources = cs[i].resources

(* The mounts find their volumes, at different paths.                      *)
Fits(added, vs) ==
  /\ \A x \in added : x.volume \in Names(vs)
  /\ \A x, y \in added : x.path = y.path => x = y

LEMMA JoinedAlike ==
  ASSUME NEW cs \in Seq(PodContainers), NEW ds \in Seq(PodContainers), NEW ini \in Seq(PodContainers),
         NEW i \in DOMAIN cs, Len(ds) = Len(cs), \A j \in DOMAIN cs : j # i => ds[j] = cs[j]
  PROVE  /\ DOMAIN (ds \o ini) = DOMAIN (cs \o ini) /\ i \in DOMAIN (cs \o ini)
         /\ (ds \o ini)[i] = ds[i] /\ (cs \o ini)[i] = cs[i]
         /\ \A j \in DOMAIN (cs \o ini) : j # i => (ds \o ini)[j] = (cs \o ini)[j]
<1> DEFINE all == ds \o ini
           old == cs \o ini
<1>1. /\ DOMAIN cs = 1 .. Len(cs) /\ Len(cs) \in Nat /\ Len(ini) \in Nat
      /\ DOMAIN old = 1 .. Len(cs) + Len(ini)
      /\ \A j \in 1 .. Len(cs) : old[j] = cs[j]
      /\ \A j \in Len(cs) + 1 .. Len(cs) + Len(ini) : old[j] = ini[j - Len(cs)]
  BY Joined
<1>2. /\ DOMAIN all = 1 .. Len(ds) + Len(ini)
      /\ \A j \in 1 .. Len(ds) : all[j] = ds[j]
      /\ \A j \in Len(ds) + 1 .. Len(ds) + Len(ini) : all[j] = ini[j - Len(ds)]
  BY Joined
<1> HIDE DEF all, old
<1>3. DOMAIN all = DOMAIN old /\ i \in DOMAIN old /\ all[i] = ds[i] /\ old[i] = cs[i]
  BY <1>1, <1>2
<1>4. ASSUME NEW j \in DOMAIN old, j # i PROVE all[j] = old[j]
  <2>1. CASE j \in 1 .. Len(cs)
    BY <1>1, <1>2, <1>4, <2>1
  <2>2. CASE j \notin 1 .. Len(cs)
    <3>1. j \in Len(cs) + 1 .. Len(cs) + Len(ini)
      BY <1>1, <2>2
    <3> QED BY <1>1, <1>2, <3>1
  <2> QED BY <2>1, <2>2
<1> QED
  BY <1>3, <1>4 DEF all, old

(* Changing one container as setKindContainerBase does keeps a Pod valid.  *)
LEMMA StaysValid ==
  ASSUME NEW cs, NEW ds, NEW ini \in Seq(PodContainers), NEW vs, NEW ws, NEW added, NEW i,
         KindChanged(ds, cs, i, added), Fits(added, ws),
         Names(vs) = Names(ws), OneEach(ws), ValidParts(cs, ini, vs)
  PROVE  ValidParts(ds, ini, ws)
<1> DEFINE all == ds \o ini
           old == cs \o ini
<1>0. /\ cs \in Seq(PodContainers) /\ ds \in Seq(PodContainers)
      /\ i \in DOMAIN cs /\ Len(ds) = Len(cs)
      /\ \A j \in DOMAIN cs : j # i => ds[j] = cs[j]
      /\ ds[i].name = cs[i].name
      /\ ds[i].mounts = cs[i].mounts \cup Missing(added, cs[i].mounts)
      /\ ds[i].resources = LittleCPU \/ ds[i].resources = cs[i].resources
  BY DEF KindChanged
<1>1. /\ DOMAIN all = DOMAIN old /\ i \in DOMAIN old /\ all[i] = ds[i] /\ old[i] = cs[i]
      /\ \A j \in DOMAIN old : j # i => all[j] = old[j]
  BY <1>0, JoinedAlike
<1>2. /\ \A x, y \in DOMAIN old : old[x].name = old[y].name => x = y
      /\ \A x \in DOMAIN old :
           /\ old[x].name # ""
           /\ \A m \in old[x].mounts :
                /\ m.volume \in Names(vs)
                /\ \A n \in old[x].mounts : n.path = m.path => n = m
           /\ \A r \in Resources :
                old[x].resources.limits[r] > 0
                  => old[x].resources.requests[r] <= old[x].resources.limits[r]
      /\ cs # <<>>
  BY DEF ValidParts
<1> HIDE DEF all, old
<1>3. \A x \in DOMAIN old : all[x].name = old[x].name
  BY <1>0, <1>1
<1>4. ASSUME NEW m \in ds[i].mounts
      PROVE  m.volume \in Names(ws) /\ \A n \in ds[i].mounts : n.path = m.path => n = m
  <2>1. \A x \in cs[i].mounts :
          x.volume \in Names(ws) /\ \A n \in cs[i].mounts : n.path = x.path => n = x
    BY <1>1, <1>2
  <2> QED BY <1>0, <2>1 DEF Missing, Fits
<1>5. ASSUME NEW r \in Resources
      PROVE  ds[i].resources.limits[r] > 0
               => ds[i].resources.requests[r] <= ds[i].resources.limits[r]
  <2>1. CASE ds[i].resources = LittleCPU
    BY <2>1, LittleCPUType
  <2>2. CASE ds[i].resources = cs[i].resources
    BY <1>1, <1>2, <2>2
  <2> QED BY <1>0, <2>1, <2>2
<1>6. ASSUME NEW x \in DOMAIN old
      PROVE  /\ all[x].name # ""
             /\ \A m \in all[x].mounts :
                  /\ m.volume \in Names(ws)
                  /\ \A n \in all[x].mounts : n.path = m.path => n = m
             /\ \A r \in Resources :
                  all[x].resources.limits[r] > 0
                    => all[x].resources.requests[r] <= all[x].resources.limits[r]
  <2>1. CASE x = i
    BY <1>1, <1>2, <1>3, <1>4, <1>5, <2>1
  <2>2. CASE x # i
    BY <1>1, <1>2, <2>2
  <2> QED BY <2>1, <2>2
<1>7. ds # <<>>
  BY <1>0
<1>8. ASSUME NEW x \in DOMAIN all, NEW y \in DOMAIN all, all[x].name = all[y].name PROVE x = y
  BY <1>1, <1>2, <1>3, <1>8
<1>9. ValidParts(ds, ini, ws) <=>
        /\ \A x, y \in DOMAIN all : all[x].name = all[y].name => x = y
        /\ \A x \in DOMAIN all :
             /\ all[x].name # ""
             /\ \A m \in all[x].mounts :
                  /\ m.volume \in Names(ws)
                  /\ \A n \in all[x].mounts : n.path = m.path => n = m
             /\ \A r \in Resources :
                  all[x].resources.limits[r] > 0
                    => all[x].resources.requests[r] <= all[x].resources.limits[r]
        /\ OneEach(ws)
        /\ ds # <<>>
  BY DEF ValidParts, all
<1> QED
  BY <1>1, <1>6, <1>7, <1>8, <1>9

(* The containers that are validated for SoundSpec.                        *)
NewKind == Container(kindContainerName, {}, {}, NoResources)
OrKind(cs) == IF cs = <<>> THEN <<NewKind>> ELSE cs

LEMMA SoundParts ==
  ASSUME machine \in UserMachines
  PROVE  SoundSpec <=> ValidParts(OrKind(machine.spec.containers), machine.spec.initContainers,
                                  AddMissing(machine.spec.volumes, AddedVolumes(machine), "added"))
<1> DEFINE s == machine.spec
           cs == OrKind(s.containers)
           vs == AddMissing(s.volumes, AddedVolumes(machine), "added")
           pod == [s EXCEPT !.containers = cs, !.volumes = vs]
<1>1. SoundSpec <=> Valid(pod)
  BY DEF SoundSpec, OrKind, NewKind, AddedVolumes
<1>2. s \in PodSpecs
  BY UserMachineFields
<1> HIDE DEF s, cs, vs
<1>3. pod.containers = cs /\ pod.initContainers = s.initContainers /\ pod.volumes = vs
  BY <1>2 DEF PodSpecs
<1> QED
  BY <1>1, <1>3, ValidByParts DEF s, cs, vs

(* With its kind container named, or without any, a PodSpec's containers   *)
(* are the Pod's but for the kind container's new mounts and resources.    *)
LEMMA KindKept ==
  ASSUME NEW cs \in Seq(PodContainers), NEW ini \in Seq(PodContainers), NEW ds, NEW cp,
         BuiltContainers(ds, cs, ini, cp), cs = <<>> \/ KindIn(cs) # {}
  PROVE  KindChanged(ds, OrKind(cs), kindIndex(cs), AddedMounts(cp))
<1> DEFINE i == kindIndex(cs)
           f == Found(cs)
           k == OrKind(cs)
<1>1. /\ ds \in Seq(PodContainers) /\ Len(ds) = Len(f)
      /\ f \in Seq(PodContainers) /\ i \in DOMAIN f
      /\ \A j \in DOMAIN f : j # i => ds[j] = f[j]
      /\ ds[i].name = kindContainerName
      /\ ds[i].mounts = f[i].mounts \cup Missing(AddedMounts(cp), f[i].mounts)
      /\ ds[i].resources = LittleCPU \/ ds[i].resources = f[i].resources
  BY FoundContainers DEF BuiltContainers
<1>2. CASE KindIn(cs) # {}
  <2>1. f = cs /\ k = cs
    <3>1. DOMAIN cs # {}
      BY <1>2 DEF KindIn
    <3>2. cs # <<>>
      BY <3>1
    <3> QED BY <1>2, <3>2 DEF Found, OrKind
  <2>2. i \in KindIn(cs)
    BY <1>2, KindIndexValue
  <2>3. cs[i].name = kindContainerName
    BY <2>2 DEF KindIn
  <2> QED BY <1>1, <2>1, <2>3 DEF KindChanged
<1>3. CASE cs = <<>>
  <2>0. KindIn(cs) = {}
    BY <1>3 DEF KindIn
  <2>1. KindIn(cs) = {} /\ i = 1
    BY <2>0, KindIndexValue
  <2>2. f = <<EmptyContainer>>
    BY <1>3, <2>1 DEF Found
  <2>3. /\ NewKind \in PodContainers /\ NewKind.name = kindContainerName
        /\ NewKind.mounts = EmptyContainer.mounts /\ NewKind.resources = EmptyContainer.resources
    <3>1. kindContainerName \in Text
      BY DEF Text
    <3>2. NewKind = [name |-> kindContainerName, mounts |-> {}, ports |-> {},
                     resources |-> NoResources]
      BY DEF NewKind, Container
    <3> QED BY <3>1, <3>2, EmptyContainerType DEF PodContainers
  <2>4. k = <<NewKind>>
    BY <1>3 DEF OrKind
  <2>5. DOMAIN k = {1} /\ k[1] = NewKind /\ Len(k) = 1 /\ k \in Seq(PodContainers)
    BY <2>3, <2>4
  <2>6. Len(f) = 1 /\ f[1] = EmptyContainer
    BY <2>2
  <2> QED BY <1>1, <2>1, <2>3, <2>5, <2>6 DEF KindChanged
<1> QED BY <1>2, <1>3

LEMMA SoundIsCreated == BuildInv => SoundSpecIsCreated
<1> DEFINE cs == machine.spec.containers
           ini == machine.spec.initContainers
           ds == machinePod.containers
           user == machine.spec.volumes
           vs == AddMissing(user, AddedVolumes(machine), "added")
           ws == machinePod.volumes
<1> SUFFICES ASSUME BuildInv, SoundSpec, cs = <<>> \/ KindIn(cs) # {}, answer = "refused"
             PROVE  FALSE
  BY DEF SoundSpecIsCreated, BuildInv
<1>1. Built /\ ~Valid(machinePod)
  BY DEF BuildInv, Built
<1>2. /\ machine \in UserMachines
      /\ BuiltContainers(ds, cs, ini, machine.controlPlane)
      /\ machinePod.initContainers = ini
      /\ Names(ws) = Names(user) \cup AddedVolumes(machine)
      /\ OneEach(user) => OneEach(ws)
  BY <1>1, BuiltMachine
<1>3. cs \in Seq(PodContainers) /\ ini \in Seq(PodContainers)
  BY <1>2, UserMachineFields
<1>4. ValidParts(OrKind(cs), ini, vs)
  BY <1>2, SoundParts
<1>5. user \subseteq vs /\ Names(vs) = Names(user) \cup AddedVolumes(machine)
  BY AddedNames
<1>6. OneEach(ws)
  <2>1. OneEach(vs)
    BY <1>4 DEF ValidParts
  <2> QED BY <1>2, <1>5, <2>1 DEF OneEach
<1> DEFINE cp == machine.controlPlane
<1>7. Fits(AddedMounts(cp), ws)
  BY <1>2, AddedMountsFit DEF Fits
<1> HIDE DEF cs, ini, ds, vs, ws, cp
<1>8. KindChanged(ds, OrKind(cs), kindIndex(cs), AddedMounts(cp))
  BY <1>2, <1>3, KindKept DEF cp
<1>9. ValidParts(ds, ini, ws)
  BY <1>2, <1>3, <1>4, <1>5, <1>6, <1>7, <1>8, StaysValid
<1> QED
  BY <1>1, <1>2, <1>9, ValidByParts DEF ds, ws

-----------------------------------------------------------------------------
(* The properties, for any PodSpecs and claims.                            *)

(* No default collides with what the user wrote: a sound PodSpec that      *)
(* names its kind container, or leaves all containers out, is admitted and *)
(* its Pod created.                                                        *)
THEOREM SoundSpecsAreCreated == Spec => []SoundSpecIsCreated
BY BuildInvariant, SoundIsCreated, PTL

(* The Pod has every claim, volume and mount that the user wrote.          *)
THEOREM StorageIsKept == Spec => []UserStorageKept
BY BuildInvariant, StorageKept, PTL

(* A control plane with a claim for etcd keeps its data on it.             *)
THEOREM EtcdKeepsItsClaim == Spec => []EtcdOnItsClaim
BY BuildInvariant, EtcdOnClaim, PTL

(* No machine Pod is best effort.                                          *)
THEOREM MachinesAreNotBestEffort == Spec => []NeverBestEffort
BY BuildInvariant, NotBestEffort, PTL

(* For a Pod with any number of containers, the class that GetPodQOS       *)
(* computes from sums is the one its comment gives container by container. *)
THEOREM ClassIsDocumented == Spec => []ClassAsDocumented
BY BuildInvariant, Documented, PTL

(* The keys that a machine Pod projects are in the cloud-init Secret.      *)
THEOREM ProjectedKeysAreWritten == Spec => []ProjectedKeysExist
BY BuildInvariant, KeysExist, PTL
=============================================================================
