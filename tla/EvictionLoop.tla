---------------------------- MODULE EvictionLoop ----------------------------
(***************************************************************************)
(* The loop  for len(m) >= max { evictLRU(m) }  that makes room in a       *)
(* bounded map, one call of evictLRU per step, run under the lock.  LRUMap *)
(* gives its results in closed form; EvictionLoopProofs shows that the two *)
(* agree and that the loop ends.                                           *)
(***************************************************************************)
EXTENDS LRUMap

CONSTANTS
  Keys,
  EmptyKey,   \* the empty string: evictLRU takes it for "nothing found"
  MaxEntries,
  Times       \* of last use

\* Every writer returns early on an empty key; Capacity and the constants of the
\* session and chain maps are positive.
LoopAssumption ==
  /\ IsFiniteSet(Keys)
  /\ EmptyKey \notin Keys
  /\ MaxEntries \in Nat \ {0}
  /\ Times \subseteq Nat

VARIABLES start, m

vars == <<start, m>>

Entries == [used : Times]

Init ==
  /\ \E S \in SUBSET Keys : start \in [S -> Entries]
  /\ m = start

Oldest == {k \in DOMAIN m : \A j \in DOMAIN m : m[k].used <= m[j].used}

\* Go's map order decides among equally old keys.
EvictLRU ==
  /\ \E k \in Oldest : m' = IF k = EmptyKey THEN m ELSE Drop(m, k)
  /\ UNCHANGED start

Full == Cardinality(DOMAIN m) >= MaxEntries

Next == Full /\ EvictLRU

Spec == Init /\ [][Next]_vars
----------------------------------------------------------------------------
\* When the loop exits, what is left is one of the maps EvictTo promises:
\* as many entries as needed are gone, and none of them younger than any
\* that stays (evictLRU and the loops that call it).
LoopMeetsEvictTo == ~Full => m \in EvictTo(start, MaxEntries)

\* The loop holds the mutex: each round takes one entry away, so it ends.
LoopShrinks == [][Cardinality(DOMAIN m') = Cardinality(DOMAIN m) - 1]_vars
=============================================================================
