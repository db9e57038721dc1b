---------------------------- MODULE MCTenantScope ----------------------------
(* The cache alone with three tenants and two entries, so that a dead entry *)
(* can be overwritten while its report is still to come, and a live one     *)
(* evicted; and the calls of two tenants over it and two connections.      *)
EXTENDS TenantScope, TLC

CONSTANTS t1, t2, t3, c1, c2, o1, o2, o3, o4, i1, i2, i3, k1, k2

VARIABLE part       \* which of the two a behaviour is of

ThreeTenants == {t1, t2, t3}
TwoCallers == {c1, c2}
FourClients == {o1, o2, o3, o4}
ThreeIds   == {i1, i2, i3}
TwoConnections == {k1, k2}

MCInit == Init /\ part \in {"cache", "calls"}

\* The third tenant takes no part in the calls, no more than two clients are
\* alive at a time, no two accesses are in the same millisecond, and the calls
\* are over before the service is destroyed.
Calling ==
    /\ t3 \notin {asked[c] : c \in Callers} \cup {rows[i].tenant : i \in Ids}
    /\ live \subseteq {o1, o2}
    /\ Cardinality(Keys) = 2 => older # {}
    /\ ~destroyed

MCNext ==
    /\ \/ part = "cache" /\ ClientsNext /\ UNCHANGED <<asked, rowVars>>
       \/ part = "calls" /\ Next /\ Calling'
    /\ UNCHANGED part

MCSpec == MCInit /\ [][MCNext]_<<vars, part>>

Alike ==
    Permutations({t1, t2}) \cup Permutations(TwoCallers) \cup Permutations({o1, o2})
    \cup Permutations({o3, o4}) \cup Permutations(ThreeIds) \cup Permutations(TwoConnections)
=============================================================================
