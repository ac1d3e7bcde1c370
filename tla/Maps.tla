------------------------------- MODULE Maps -------------------------------
(***************************************************************************)
(* std::unordered_map as a function whose domain is the set of keys it     *)
(* holds: find/end is membership of the domain, at and operator[] of a     *)
(* present key are application.                                            *)
(***************************************************************************)

\* A map that holds no key.
EmptyMap == [k \in {} |-> k]

\* map[k] = v, which inserts k or overwrites what it held.
Put(map, k, v) == [x \in DOMAIN map \cup {k} |-> IF x = k THEN v ELSE map[x]]

\* map.erase(k), which does nothing when k is not held.
Erase(map, k) == [x \in DOMAIN map \ {k} |-> map[x]]

\* map is a map from some of the keys K to values in V.
IsMap(map, K, V) == DOMAIN map \subseteq K /\ map \in [DOMAIN map -> V]
=============================================================================
