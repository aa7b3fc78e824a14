---------------------------- MODULE MCMachinePod ----------------------------
(* PodSpecs for TLC: a kind container, a sidecar and an init container     *)
(* that collide, or not, with the defaults and with the claims.            *)
EXTENDS MachinePod

Requests(q) == [NoResources EXCEPT !.requests["cpu"] = q]
Limited(q) == [requests |-> [r \in Resources |-> q], limits |-> [r \in Resources |-> q]]

UserMounts ==
  {{}, {Mount("data", "/data")}, {Mount("data", "/tmp")}, {Mount("data", "/var/lib/etcd")},
   {Mount("var-lib-etcd", "/var/lib/etcd")},
   {Mount("var-lib-etcd", "/var/lib/etcd"), Mount("tmp", "/data")}}

Kinds ==
  {Container("kind", ms, ps, rs) :
     ms \in UserMounts, ps \in {{}, {apiServerPortName}}, rs \in {NoResources, Requests(1)}}
Sidecars ==
  {Container("sidecar", ms, {}, rs) : ms \in {{}, {Mount("data", "/data")}},
                                      rs \in {NoResources, Limited(2)}}

WithKind ==
  {<<>>} \cup {<<k>> : k \in Kinds}
    \cup {<<k, s>> : k \in Kinds, s \in Sidecars} \cup {<<s, k>> : k \in Kinds, s \in Sidecars}

UserVolumes == {{Volume(n, "user") : n \in ns} : ns \in SUBSET {"data", "tmp", "var-lib-etcd"}}
InitContainers == {<<>>, <<Container("init", {}, {}, Requests(1))>>}

(* Every pair of requests and limits that the API server would accept.     *)
Amounts == {q \in Quantities(0 .. 2) :
              \A r \in Resources : q.limits[r] > 0 => q.requests[r] <= q.limits[r]}
Pairs == {<<Container("kind", {}, {}, p), Container("sidecar", {}, {}, q)>> : p, q \in Amounts}

SomeSpecs ==
  [listed : {TRUE}, containers : WithKind \cup {<<s>> : s \in Sidecars},
   initContainers : InitContainers, volumes : UserVolumes]
  \cup [listed : {FALSE}, containers : {<<>>}, initContainers : InitContainers,
        volumes : UserVolumes]
  \cup [listed : {TRUE}, containers : Pairs, initContainers : {<<>>}, volumes : {{}}]

SomeClaims == SUBSET {"data", "tmp", "var-lib-etcd"}
=============================================================================
