------------------------------- MODULE LRUMap -------------------------------
(***************************************************************************)
(* The bounded map behind the session pins, the route cache and the        *)
(* fallback chains (internal/infrastructure/runtime_state.go).  A map is a *)
(* function whose domain is the set of keys it holds; every value is a     *)
(* record with a field "used", the time of its last use.                   *)
(*                                                                         *)
(* Go iterates over a map in any order, so among entries with the same     *)
(* "used" any one may be evicted: eviction yields a set of possible maps.  *)
(***************************************************************************)
EXTENDS Naturals, FiniteSets

EmptyMap == [k \in {} |-> 0]

\* m holds values of V under keys of K.
IsMap(m, K, V) == DOMAIN m \subseteq K /\ m \in [DOMAIN m -> V]

Put(m, k, e) == [x \in DOMAIN m \cup {k} |-> IF x = k THEN e ELSE m[x]]

Drop(m, k) == [x \in DOMAIN m \ {k} |-> m[x]]

\* Variant: a read that leaves the time of last use alone.
TouchNothing(m, k, t) == m

\* A read refreshes the time of last use.
Touch(m, k, t) == [m EXCEPT ![k] = [m[k] EXCEPT !.used = t]]

\* Variant: the comparison of evictLRU the wrong way round.
SurvivorsOldest(m, n) ==
  {K \in SUBSET DOMAIN m :
     /\ Cardinality(K) = n
     /\ \A k \in K, j \in DOMAIN m \ K : m[k].used <= m[j].used}

\* The key sets that n entries of m may survive in: nothing that goes was used
\* later than anything that stays.
Survivors(m, n) ==
  {K \in SUBSET DOMAIN m :
     /\ Cardinality(K) = n
     /\ \A k \in K, j \in DOMAIN m \ K : m[j].used <= m[k].used}

\* Variant: the loop of the writers with > for >=.
EvictToOneMore(m, max) ==
  IF Cardinality(DOMAIN m) <= max
  THEN {m}
  ELSE {[k \in K |-> m[k]] : K \in Survivors(m, max)}

\* Variant: if for the for of the writers.
EvictAtMostOne(m, max) ==
  IF Cardinality(DOMAIN m) < max
  THEN {m}
  ELSE {[k \in K |-> m[k]] : K \in Survivors(m, Cardinality(DOMAIN m) - 1)}

\* The maps the loop  for len(m) >= max { evictLRU(m) }  may leave.
EvictTo(m, max) ==
  IF Cardinality(DOMAIN m) < max
  THEN {m}
  ELSE {[k \in K |-> m[k]] : K \in Survivors(m, max - 1)}

\* Writing under a key the map holds evicts nothing; a new key first makes room.
Insert(m, k, e, max) ==
  IF k \in DOMAIN m THEN {Put(m, k, e)} ELSE {Put(n, k, e) : n \in EvictTo(m, max)}
=============================================================================
