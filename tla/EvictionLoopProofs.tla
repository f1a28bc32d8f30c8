------------------------- MODULE EvictionLoopProofs -------------------------
(***************************************************************************)
(* The loop of evictLRU ends, and ends in a map that EvictTo promises.     *)
(***************************************************************************)
EXTENDS EvictionLoop, FiniteSetTheorems, TLAPS

\* What is left is a part of the map the loop began with; what is gone is no
\* younger; and the loop takes no more than it must.
LoopInv ==
  /\ DOMAIN start \subseteq Keys /\ start \in [DOMAIN start -> Entries]
  /\ DOMAIN m \subseteq DOMAIN start /\ m = [k \in DOMAIN m |-> start[k]]
  /\ \A k \in DOMAIN m, j \in DOMAIN start \ DOMAIN m : start[j].used <= start[k].used
  /\ m # start => Cardinality(DOMAIN m) >= MaxEntries - 1

\* The loop works on finite maps.
LEMMA LoopFinite ==
  ASSUME LoopAssumption, LoopInv
  PROVE  /\ IsFiniteSet(DOMAIN start) /\ IsFiniteSet(DOMAIN m)
         /\ Cardinality(DOMAIN start) \in Nat /\ Cardinality(DOMAIN m) \in Nat
<1>1. IsFiniteSet(Keys) /\ DOMAIN start \in SUBSET Keys /\ DOMAIN m \in SUBSET Keys
  BY DEF LoopAssumption, LoopInv
<1>2. IsFiniteSet(DOMAIN start) /\ IsFiniteSet(DOMAIN m)
  BY <1>1, FS_Subset
<1>. QED BY <1>2, FS_CardinalityType

\* One round takes away one of the oldest entries and nothing else.
LEMMA RoundLemma ==
  ASSUME LoopAssumption, LoopInv, Next
  PROVE  \E k \in Oldest : m' = Drop(m, k) /\ DOMAIN m' = DOMAIN m \ {k}
                           /\ Cardinality(DOMAIN m') = Cardinality(DOMAIN m) - 1
<1>1. PICK k \in Oldest : m' = IF k = EmptyKey THEN m ELSE Drop(m, k)
  BY DEF Next, EvictLRU
<1>2. k \in DOMAIN m /\ k \in Keys
  BY <1>1 DEF Oldest, LoopInv
<1>3. m' = Drop(m, k)
  BY <1>1, <1>2 DEF LoopAssumption
<1>4. DOMAIN m' = DOMAIN m \ {k}
  BY <1>3 DEF Drop
<1>5. Cardinality(DOMAIN m \ {k}) = Cardinality(DOMAIN m) - 1
  BY <1>2, LoopFinite, FS_RemoveElement
<1>. QED BY <1>1, <1>3, <1>4, <1>5

\* The invariant holds throughout.
LEMMA LoopInvHolds == ASSUME LoopAssumption PROVE Spec => []LoopInv
<1>1. Init => LoopInv
  BY DEF Init, LoopInv
<1>2. LoopInv /\ [Next]_vars => LoopInv'
  <2>. SUFFICES ASSUME LoopInv, [Next]_vars PROVE LoopInv'
    OBVIOUS
  <2>1. CASE Next
    <3>1. PICK k \in Oldest : m' = Drop(m, k) /\ DOMAIN m' = DOMAIN m \ {k}
                              /\ Cardinality(DOMAIN m') = Cardinality(DOMAIN m) - 1
      BY <2>1, RoundLemma
    <3>2. start' = start /\ Cardinality(DOMAIN m) >= MaxEntries
      BY <2>1 DEF Next, EvictLRU, Full
    <3>3. k \in DOMAIN m /\ \A j \in DOMAIN m : start[k].used <= start[j].used
      BY <3>1 DEF Oldest, LoopInv
    <3>4. (DOMAIN m \subseteq DOMAIN start /\ m = [x \in DOMAIN m |-> start[x]])'
      BY <3>1, <3>2 DEF LoopInv, Drop
    <3>5. (\A x \in DOMAIN m, j \in DOMAIN start \ DOMAIN m : start[j].used <= start[x].used)'
      BY <3>1, <3>2, <3>3 DEF LoopInv
    <3>6. Cardinality(DOMAIN m') >= MaxEntries - 1
      BY <3>1, <3>2, LoopFinite DEF LoopAssumption
    <3>. QED BY <3>2, <3>4, <3>5, <3>6 DEF LoopInv
  <2>2. CASE UNCHANGED vars
    BY <2>2 DEF LoopInv, vars
  <2>. QED BY <2>1, <2>2
<1>. QED BY <1>1, <1>2, PTL DEF Spec

\* Whatever the map, its bound and the order in which Go ranges over it, the loop
\* leaves a map that the closed form promises.
THEOREM LoopLeavesEvictTo == ASSUME LoopAssumption PROVE Spec => []LoopMeetsEvictTo
<1>1. LoopInv => LoopMeetsEvictTo
  <2>. SUFFICES ASSUME LoopInv, ~Full PROVE m \in EvictTo(start, MaxEntries)
    BY DEF LoopMeetsEvictTo
  <2>1. Cardinality(DOMAIN m) < MaxEntries
    BY LoopFinite DEF Full, LoopAssumption
  <2>2. CASE m = start
    BY <2>1, <2>2 DEF EvictTo
  <2>3. CASE m # start
    <3>1. Cardinality(DOMAIN m) = MaxEntries - 1
      BY <2>1, <2>3, LoopFinite DEF LoopInv, LoopAssumption
    <3>2. DOMAIN m \in SUBSET DOMAIN start /\ DOMAIN m # DOMAIN start
      BY <2>3 DEF LoopInv
    <3>3. Cardinality(DOMAIN m) < Cardinality(DOMAIN start)
      BY <3>2, LoopFinite, FS_Subset
    <3>4. ~(Cardinality(DOMAIN start) < MaxEntries)
      BY <3>1, <3>3, LoopFinite DEF LoopAssumption
    <3>5. \A k \in DOMAIN m, j \in DOMAIN start \ DOMAIN m : start[j].used <= start[k].used
      BY DEF LoopInv
    <3>6. DOMAIN m \in Survivors(start, MaxEntries - 1)
      BY <3>1, <3>2, <3>5 DEF Survivors
    <3>7. m = [k \in DOMAIN m |-> start[k]]
      BY DEF LoopInv
    <3>. QED BY <3>4, <3>6, <3>7 DEF EvictTo
  <2>. QED BY <2>2, <2>3
<1>. QED BY <1>1, LoopInvHolds, PTL

\* The loop ends: every round takes one entry away, and there are finitely many.
THEOREM LoopAlwaysShrinks == ASSUME LoopAssumption PROVE Spec => LoopShrinks
<1>1. LoopInv /\ [Next]_vars => [Cardinality(DOMAIN m') = Cardinality(DOMAIN m) - 1]_vars
  BY RoundLemma DEF vars
<1>. QED BY <1>1, LoopInvHolds, PTL DEF Spec, LoopShrinks
=============================================================================
