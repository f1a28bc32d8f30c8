--------------------------- MODULE LifecycleProofs ---------------------------
(***************************************************************************)
(* What Lifecycle promises, for every set of configurations, of names      *)
(* asked for and of threads: the executor is registered where it is        *)
(* needed, what is announced is found, and refreshes keep their distance.  *)
(***************************************************************************)
EXTENDS Lifecycle, FiniteSetTheorems, WellFoundedInduction, TLAPS

(***************************************************************************)
(* Least numbers.                                                          *)
(***************************************************************************)
LEMMA LessThan ==
  \E R : /\ IsWellFoundedOn(R, Nat)
         /\ \A x, y \in Nat : x < y => <<x, y>> \in R
<1>. WITNESS OpToRel(<, Nat)
<1>1. IsWellFoundedOn(OpToRel(<, Nat), Nat)
  BY NatLessThanWellFounded
<1>2. \A x, y \in Nat : x < y => <<x, y>> \in OpToRel(<, Nat)
  BY DEF OpToRel
<1>. QED BY <1>1, <1>2

LEMMA LeastExists ==
  ASSUME NEW S \in SUBSET Nat, S # {}
  PROVE  \E n \in S : \A k \in S : n <= k
<1>1. PICK R : /\ IsWellFoundedOn(R, Nat)
               /\ \A x, y \in Nat : x < y => <<x, y>> \in R
  BY LessThan
<1>2. PICK n \in S : \A y \in S : <<y, n>> \notin R
  <2>1. IsWellFoundedOn(R, Nat)
    BY <1>1
  <2>2. S \subseteq Nat
    OBVIOUS
  <2>. QED BY <2>1, <2>2, WFMin, Zenon
<1>3. \A k \in S : n <= k
  <2>. TAKE k \in S
  <2>1. n \in Nat /\ k \in Nat
    OBVIOUS
  <2>2. ~ (k < n)
    BY <1>1, <1>2, <2>1
  <2>. QED BY <2>1, <2>2
<1>. QED BY <1>3

(***************************************************************************)
(* Collecting the elements at some positions of a sequence.                *)
(***************************************************************************)
Rank(K, k) == Cardinality({j \in K : j <= k})

LEMMA RankType ==
  ASSUME NEW L \in Nat, NEW K \in SUBSET (1 .. L), NEW k
  PROVE  /\ IsFiniteSet({j \in K : j <= k})
         /\ Rank(K, k) \in Nat
         /\ Cardinality(K) \in Nat
         /\ \A j \in K : j \in Nat /\ 1 <= j /\ j <= L
<1>1. IsFiniteSet(1 .. L)
  BY FS_Interval
<1>2. {j \in K : j <= k} \in SUBSET (1 .. L)
  OBVIOUS
<1>3. IsFiniteSet({j \in K : j <= k}) /\ IsFiniteSet(K)
  BY <1>1, <1>2, FS_Subset
<1>4. \A j \in K : j \in 1 .. L
  OBVIOUS
<1>. QED BY <1>3, <1>4, FS_CardinalityType DEF Rank

\* Every place of what is collected is that of one of the positions.
LEMMA RankReached ==
  ASSUME NEW L \in Nat, NEW K \in SUBSET (1 .. L), NEW n \in 1 .. Cardinality(K)
  PROVE  \E k \in K : Rank(K, k) = n
<1>. DEFINE T == {k \in 0 .. L : Rank(K, k) >= n}
<1>0. n \in Nat /\ n >= 1 /\ n <= Cardinality(K)
  <2>1. Cardinality(K) \in Nat
    BY RankType
  <2>. QED BY <2>1
<1>a. \A j \in K : j \in Nat /\ 1 <= j /\ j <= L
  BY RankType
<1>1. L \in T
  <2>1. {j \in K : j <= L} = K
    BY <1>a
  <2>2. Rank(K, L) = Cardinality(K)
    BY <2>1 DEF Rank
  <2>3. Rank(K, L) >= n
    BY <1>0, <2>2
  <2>4. L \in 0 .. L
    OBVIOUS
  <2>. QED BY <2>3, <2>4
<1>2. PICK k \in T : \A x \in T : k <= x
  <2>1. T \in SUBSET Nat /\ T # {}
    BY <1>1
  <2>. QED BY <2>1, LeastExists
<1>3. k # 0
  <2>0. \A j \in K : ~ (j <= 0)
    BY <1>a
  <2>1. {j \in K : j <= 0} = {}
    BY <2>0
  <2>2. Rank(K, 0) = 0
    BY <2>1, FS_EmptySet DEF Rank
  <2>. QED BY <1>0, <1>2, <2>2
<1>4. k \in Nat /\ k - 1 \in 0 .. L /\ k - 1 \notin T
  <2>1. k \in 0 .. L /\ k - 1 \in 0 .. L
    BY <1>3
  <2>2. ~ (k <= k - 1)
    BY <2>1
  <2>3. k - 1 \in T => k <= k - 1
    BY <1>2, Zenon
  <2>. QED BY <2>1, <2>2, <2>3
<1>b. Rank(K, k) \in Nat /\ Rank(K, k - 1) \in Nat
  BY RankType
<1>5. Rank(K, k - 1) < n /\ Rank(K, k) >= n
  BY <1>0, <1>b, <1>4
<1>6. CASE k \in K
  <2>0. \A j \in K : j <= k <=> j <= k - 1 \/ j = k
    BY <1>4, <1>a
  <2>1. {j \in K : j <= k} = {j \in K : j <= k - 1} \cup {k}
    <3>1. k <= k
      BY <1>4
    <3>2. \A j : j \in {i \in K : i <= k} <=> j \in {i \in K : i <= k - 1} \cup {k}
      BY <2>0, <1>6, <3>1, Zenon
    <3>. QED BY <3>2, Zenon
  <2>2. k \notin {j \in K : j <= k - 1}
    BY <1>4
  <2>3. IsFiniteSet({j \in K : j <= k - 1})
    BY RankType
  <2>4. Rank(K, k) = Rank(K, k - 1) + 1
    BY <2>1, <2>2, <2>3, FS_AddElement DEF Rank
  <2>5. Rank(K, k) = n
    BY <1>0, <1>b, <1>5, <2>4
  <2>. QED BY <1>6, <2>5
<1>7. CASE k \notin K
  <2>0. \A j \in K : j <= k <=> j <= k - 1
    BY <1>4, <1>7, <1>a
  <2>1. {j \in K : j <= k} = {j \in K : j <= k - 1}
    BY <2>0
  <2>2. Rank(K, k) = Rank(K, k - 1)
    BY <2>1 DEF Rank
  <2>. QED BY <1>0, <1>b, <1>5, <2>2
<1>. QED BY <1>6, <1>7

LEMMA KeepLemma ==
  ASSUME NEW S, NEW s \in Seq(S), NEW K \in SUBSET DOMAIN s
  PROVE  /\ Keep(s, K) \in Seq(S)
         /\ \A n \in DOMAIN Keep(s, K) : \E k \in K : Keep(s, K)[n] = s[k]
<1>0. Len(s) \in Nat /\ DOMAIN s = 1 .. Len(s) /\ K \in SUBSET (1 .. Len(s))
  OBVIOUS
<1>1. Cardinality(K) \in Nat
  BY <1>0, RankType
<1>2. DOMAIN Keep(s, K) = 1 .. Cardinality(K)
  BY DEF Keep
<1>3. ASSUME NEW n \in 1 .. Cardinality(K)
      PROVE  \E k \in K : Keep(s, K)[n] = s[k]
  <2>1. \E k \in K : Rank(K, k) = n
    BY <1>0, RankReached
  <2>2. (CHOOSE k \in K : Rank(K, k) = n) \in K
    BY <2>1
  <2>3. Keep(s, K)[n] = s[CHOOSE k \in K : Rank(K, k) = n]
    BY DEF Keep, Rank
  <2>. QED BY <2>2, <2>3
<1>4. \A n \in 1 .. Cardinality(K) : Keep(s, K)[n] \in S
  BY <1>0, <1>3
<1>5. Keep(s, K) \in [1 .. Cardinality(K) -> S]
  BY <1>4 DEF Keep
<1>. QED BY <1>1, <1>2, <1>3, <1>5

\* Collecting everything changes nothing.
LEMMA KeepAll ==
  ASSUME NEW S, NEW s \in Seq(S)
  PROVE  Keep(s, DOMAIN s) = s
<1>. DEFINE L == Len(s)
<1>0. L \in Nat /\ DOMAIN s = 1 .. L /\ s = [n \in 1 .. L |-> s[n]]
  OBVIOUS
<1>1. \A k \in 1 .. L : Rank(1 .. L, k) = k
  <2>. TAKE k \in 1 .. L
  <2>1. {j \in 1 .. L : j <= k} = 1 .. k
    BY <1>0
  <2>2. Cardinality(1 .. k) = k
    BY FS_Interval
  <2>. QED BY <2>1, <2>2 DEF Rank
<1>2. Cardinality(1 .. L) = L
  BY <1>0, FS_Interval
<1>3. \A n \in 1 .. L : (CHOOSE k \in 1 .. L : Rank(1 .. L, k) = n) = n
  BY <1>1
<1>4. Keep(s, 1 .. L) = [n \in 1 .. L |-> s[CHOOSE k \in 1 .. L : Rank(1 .. L, k) = n]]
  BY <1>2 DEF Keep, Rank
<1>. QED BY <1>0, <1>3, <1>4
----------------------------------------------------------------------------
(***************************************************************************)
(* Normalizing a configuration.                                            *)
(***************************************************************************)
LEMMA ModelsKept ==
  ASSUME NEW s \in Seq(Texts)
  PROVE  LET models == Keep(s, {n \in DOMAIN s : s[n] # ""})
         IN  /\ models \in Seq(Texts)
             /\ Keep(models, {n \in DOMAIN models : models[n] # ""}) = models
<1>. DEFINE K == {n \in DOMAIN s : s[n] # ""}
            models == Keep(s, K)
<1>1. models \in Seq(Texts) /\ \A n \in DOMAIN models : \E k \in K : models[n] = s[k]
  <2>1. K \in SUBSET DOMAIN s
    OBVIOUS
  <2>. HIDE DEF K
  <2>. QED BY <2>1, KeepLemma
<1>2. {n \in DOMAIN models : models[n] # ""} = DOMAIN models
  <2>1. \A n \in DOMAIN models : models[n] # ""
    BY <1>1
  <2>. HIDE DEF models
  <2>. QED BY <2>1
<1>. HIDE DEF models
<1>3. Keep(models, DOMAIN models) = models
  BY <1>1, KeepAll
<1>4. Keep(models, {n \in DOMAIN models : models[n] # ""}) = models
  BY <1>2, <1>3
<1>. QED BY <1>1, <1>4 DEF models

\* A block that Normalize has been over.
Normalized(b) == b \in Blocks /\ NormalizeBlock(b) = b
LEMMA DefaultTexts ==
  DefaultBlock.strategy = "capability" /\ DefaultBlock.preference = "balanced"
BY DEF DefaultBlock

LEMMA Defaults ==
  /\ DefaultBlock.cache.max_entries = 1024
  /\ DefaultBlock.executor_fallback.max_attempts = 3
  /\ DefaultBlock.classifier.max_tokens = 500
BY DEF DefaultBlock

LEMMA OrDefaultType ==
  ASSUME NEW n \in Int, NEW d \in Nat \ {0}
  PROVE  OrDefault(n, d) \in Int /\ OrDefault(OrDefault(n, d), d) = OrDefault(n, d)
BY DEF OrDefault

LEMMA CacheNormalized ==
  ASSUME NEW c \in Caches
  PROVE  normalizeCache(c) \in Caches /\ normalizeCache(normalizeCache(c)) = normalizeCache(c)
<1>. DEFINE Set(d) == [d EXCEPT !.max_entries = OrDefault(d.max_entries, 1024)]
<1>1. \A d : normalizeCache(d) = Set(d)
  BY Defaults DEF normalizeCache
<1>2. \A d \in Caches : /\ Set(d) \in Caches
                         /\ Set(d).max_entries = OrDefault(d.max_entries, 1024)
                         /\ Set(d).enabled = d.enabled
  BY OrDefaultType DEF Caches
<1>3. \A d, e \in Caches : d.max_entries = e.max_entries /\ d.enabled = e.enabled => d = e
  BY DEF Caches
<1>4. c.max_entries \in Int
  BY DEF Caches
<1>. HIDE DEF Set
<1>5. Set(Set(c)) = Set(c)
  BY <1>2, <1>3, <1>4, OrDefaultType
<1>. QED BY <1>1, <1>2, <1>5

LEMMA FallbackNormalized ==
  ASSUME NEW f \in Fallbacks
  PROVE  /\ normalizeExecutorFallback(f) \in Fallbacks
         /\ normalizeExecutorFallback(normalizeExecutorFallback(f)) = normalizeExecutorFallback(f)
         /\ normalizeExecutorFallback(f).enabled = f.enabled
<1>. DEFINE Set(d) == [d EXCEPT !.max_attempts = OrDefault(d.max_attempts, 3)]
<1>1. \A d : normalizeExecutorFallback(d) = Set(d)
  BY Defaults DEF normalizeExecutorFallback
<1>2. \A d \in Fallbacks : /\ Set(d) \in Fallbacks
                            /\ Set(d).max_attempts = OrDefault(d.max_attempts, 3)
                            /\ Set(d).enabled = d.enabled
  BY OrDefaultType DEF Fallbacks
<1>3. \A d, e \in Fallbacks : d.max_attempts = e.max_attempts /\ d.enabled = e.enabled => d = e
  BY DEF Fallbacks
<1>4. f.max_attempts \in Int
  BY DEF Fallbacks
<1>. HIDE DEF Set
<1>5. Set(Set(f)) = Set(f)
  BY <1>2, <1>3, <1>4, OrDefaultType
<1>. QED BY <1>1, <1>2, <1>5

LEMMA ClassifierNormalized ==
  ASSUME NEW c \in Classifiers
  PROVE  /\ normalizeClassifier(c) \in Classifiers
         /\ normalizeClassifier(normalizeClassifier(c)) = normalizeClassifier(c)
<1>. DEFINE Filled(s) == Keep(s, {n \in DOMAIN s : s[n] # ""})
<1>1. c.models \in Seq(Texts)
  BY DEF Classifiers
<1>2. Filled(c.models) \in Seq(Texts) /\ Filled(Filled(c.models)) = Filled(c.models)
  BY <1>1, ModelsKept
<1>. DEFINE Set(e) == [e EXCEPT !.max_tokens = OrDefault(e.max_tokens, 500),
                               !.models = Filled(e.models)]
<1>3. \A e : normalizeClassifier(e) = Set(e)
  BY Defaults DEF normalizeClassifier
<1>. HIDE DEF Filled
<1>4. \A e \in Classifiers :
        /\ Set(e).enabled = e.enabled
        /\ Set(e).models = Filled(e.models)
        /\ Set(e).max_tokens = OrDefault(e.max_tokens, 500)
        /\ Filled(e.models) \in Seq(Texts) => Set(e) \in Classifiers
  <2>. TAKE e \in Classifiers
  <2>1. OrDefault(e.max_tokens, 500) \in Int
    BY OrDefaultType DEF Classifiers
  <2>. QED BY <2>1 DEF Classifiers
<1>5. \A e, g \in Classifiers :
        e.enabled = g.enabled /\ e.models = g.models /\ e.max_tokens = g.max_tokens => e = g
  BY DEF Classifiers
<1>6. c.max_tokens \in Int
  BY DEF Classifiers
<1>. HIDE DEF Set
<1>7. Set(c) \in Classifiers
  BY <1>2, <1>4
<1>8. Filled(Set(c).models) = Set(c).models /\ Filled(Set(c).models) \in Seq(Texts)
  BY <1>2, <1>4
<1>9. Set(Set(c)) \in Classifiers
  BY <1>4, <1>7, <1>8
<1>10. Set(Set(c)) = Set(c)
  <2>1. Set(c).max_tokens = OrDefault(c.max_tokens, 500)
    BY <1>4
  <2>2. OrDefault(Set(c).max_tokens, 500) = Set(c).max_tokens
    BY <1>6, <2>1, OrDefaultType
  <2>3. /\ Set(Set(c)).enabled = Set(c).enabled
        /\ Set(Set(c)).models = Set(c).models
        /\ Set(Set(c)).max_tokens = Set(c).max_tokens
    BY <1>4, <1>7, <1>8, <2>2
  <2>. QED BY <1>5, <1>7, <1>9, <2>3
<1>. QED BY <1>3, <1>7, <1>10

\* What Normalize makes of each field of a block.
LEMMA NormalFields ==
  ASSUME NEW b \in Blocks
  PROVE  /\ NormalizeBlock(b) \in Blocks
         /\ NormalizeBlock(b).name = TrimSpace(b.name)
         /\ NormalizeBlock(b).strategy =
              IF b.strategy = "" THEN DefaultBlock.strategy ELSE b.strategy
         /\ NormalizeBlock(b).preference = normalizePreference(b.preference)
         /\ NormalizeBlock(b).cache = normalizeCache(b.cache)
         /\ NormalizeBlock(b).executor_fallback = normalizeExecutorFallback(b.executor_fallback)
         /\ NormalizeBlock(b).classifier = normalizeClassifier(b.classifier)
         /\ NormalizeBlock(b).models = b.models
<1>1. /\ normalizeCache(b.cache) \in Caches
      /\ normalizeExecutorFallback(b.executor_fallback) \in Fallbacks
      /\ normalizeClassifier(b.classifier) \in Classifiers
  BY CacheNormalized, FallbackNormalized, ClassifierNormalized DEF Blocks
<1>2. TrimSpace(b.name) \in Names
  BY DEF Blocks, Names, TrimSpace
<1>3. /\ normalizePreference(b.preference) \in Texts
      /\ (IF b.strategy = "" THEN DefaultBlock.strategy ELSE b.strategy) \in Texts
  <2>1. b.preference \in Texts /\ b.strategy \in Texts
    BY DEF Blocks
  <2>2. "capability" \in Texts /\ "balanced" \in Texts
    BY TextsAssumption
  <2>3. normalizePreference(b.preference) \in Texts
    BY <2>1, <2>2, DefaultTexts DEF normalizePreference
  <2>4. (IF b.strategy = "" THEN DefaultBlock.strategy ELSE b.strategy) \in Texts
    BY <2>1, <2>2, DefaultTexts
  <2>. QED BY <2>3, <2>4
<1>. QED BY <1>1, <1>2, <1>3 DEF Blocks, NormalizeBlock

LEMMA BlockNormalized ==
  ASSUME NEW b \in Blocks
  PROVE  /\ Normalized(NormalizeBlock(b))
         /\ Blank(NormalizeBlock(b).name) <=> Blank(b.name)
         /\ NormalizeBlock(b).name.padded = FALSE
<1>1. PICK n \in Blocks :
        /\ n = NormalizeBlock(b)
        /\ n.name = TrimSpace(b.name)
        /\ n.strategy = IF b.strategy = "" THEN DefaultBlock.strategy ELSE b.strategy
        /\ n.preference = normalizePreference(b.preference)
        /\ n.cache = normalizeCache(b.cache)
        /\ n.executor_fallback = normalizeExecutorFallback(b.executor_fallback)
        /\ n.classifier = normalizeClassifier(b.classifier)
  BY NormalFields
<1>2. PICK m \in Blocks :
        /\ m = NormalizeBlock(n)
        /\ m.name = TrimSpace(n.name)
        /\ m.strategy = IF n.strategy = "" THEN DefaultBlock.strategy ELSE n.strategy
        /\ m.preference = normalizePreference(n.preference)
        /\ m.cache = normalizeCache(n.cache)
        /\ m.executor_fallback = normalizeExecutorFallback(n.executor_fallback)
        /\ m.classifier = normalizeClassifier(n.classifier)
        /\ m.models = n.models
  BY NormalFields
<1>3. /\ b.name \in Names /\ b.cache \in Caches /\ b.executor_fallback \in Fallbacks
      /\ b.classifier \in Classifiers
  BY DEF Blocks
<1>4. m.name = n.name /\ (Blank(n.name) <=> Blank(b.name)) /\ n.name.padded = FALSE
  <2>1. \A x \in Names : /\ TrimSpace(TrimSpace(x)) = TrimSpace(x)
                         /\ Blank(TrimSpace(x)) <=> Blank(x)
                         /\ TrimSpace(x).padded = FALSE
    BY DEF Names, TrimSpace, Blank
  <2>2. n.name = TrimSpace(b.name) /\ m.name = TrimSpace(n.name) /\ b.name \in Names
    BY <1>1, <1>2, <1>3
  <2>. QED BY <2>1, <2>2
<1>5. m.strategy = n.strategy
  <2>1. /\ n.strategy = IF b.strategy = "" THEN "capability" ELSE b.strategy
        /\ m.strategy = IF n.strategy = "" THEN "capability" ELSE n.strategy
    BY <1>1, <1>2, DefaultTexts
  <2>. QED BY <2>1
<1>6. m.preference = n.preference
  BY <1>1, <1>2 DEF normalizePreference
<1>7. m.cache = n.cache /\ m.executor_fallback = n.executor_fallback /\ m.classifier = n.classifier
  BY <1>1, <1>2, <1>3, CacheNormalized, FallbackNormalized, ClassifierNormalized
<1>8. m = n
  <2>1. m.models = n.models
    BY <1>2
  <2>. QED BY <2>1, <1>4, <1>5, <1>6, <1>7 DEF Blocks
<1>. QED BY <1>1, <1>2, <1>4, <1>8 DEF Normalized

(***************************************************************************)
(* A configuration that Normalize has been over: it is left as it is, and  *)
(* so are its entries.                                                     *)
(***************************************************************************)
Settled(b) == Normalized(b) /\ ~Blank(b.name) /\ b.name.padded = FALSE

IsNormal(c) ==
  /\ c \in ConfigRecords
  /\ Settled(c.top)
  /\ \A n \in DOMAIN c.entries : Settled(c.entries[n])

LEMMA ConfigNormalized ==
  ASSUME NEW c \in ConfigRecords
  PROVE  IsNormal(Normalize(c)) /\ Normalize(c).catalog = c.catalog
<1>. DEFINE normal == [n \in DOMAIN c.entries |-> NormalizeBlock(c.entries[n])]
            K == {n \in DOMAIN normal : ~Blank(normal[n].name)}
            entries == Keep(normal, K)
            named == [c.top EXCEPT !.name = IF Blank(c.top.name) THEN DefaultVirtualModel ELSE c.top.name]
            top == NormalizeBlock(named)
<1>1. c.top \in Blocks /\ c.entries \in Seq(Blocks)
  BY DEF ConfigRecords
<1>2. normal \in Seq(Blocks) /\ \A n \in DOMAIN normal : Normalized(normal[n]) /\ normal[n].name.padded = FALSE
  <2>1. \A n \in DOMAIN c.entries : c.entries[n] \in Blocks
    BY <1>1
  <2>2. \A n \in DOMAIN c.entries :
          /\ NormalizeBlock(c.entries[n]) \in Blocks
          /\ Normalized(NormalizeBlock(c.entries[n]))
          /\ NormalizeBlock(c.entries[n]).name.padded = FALSE
    BY <2>1, BlockNormalized DEF Normalized
  <2>3. Len(c.entries) \in Nat /\ DOMAIN c.entries = 1 .. Len(c.entries)
    BY <1>1
  <2>. QED BY <2>2, <2>3
<1>3. entries \in Seq(Blocks) /\ \A n \in DOMAIN entries : Settled(entries[n])
  <2>1. K \in SUBSET DOMAIN normal
    OBVIOUS
  <2>2. \A k \in K : Settled(normal[k])
    BY <1>2 DEF Settled
  <2>. HIDE DEF K, normal
  <2>3. entries \in Seq(Blocks) /\ \A n \in DOMAIN entries : \E k \in K : entries[n] = normal[k]
    BY <1>2, <2>1, KeepLemma
  <2>. QED BY <2>2, <2>3
<1>4. Settled(top)
  <2>0. "router:auto" \in Texts
    BY TextsAssumption
  <2>1. DefaultVirtualModel \in Names /\ ~Blank(DefaultVirtualModel)
    BY <2>0 DEF DefaultVirtualModel, PlainName, Names, Blank
  <2>2. named \in Blocks /\ ~Blank(named.name)
    BY <1>1, <2>1 DEF Blocks
  <2>. QED BY <2>2, BlockNormalized DEF Settled
<1>5. Normalize(c) = [c EXCEPT !.top = top, !.entries = entries]
  BY DEF Normalize
<1>. HIDE DEF entries, top
<1>6. /\ Normalize(c).top = top /\ Normalize(c).entries = entries
      /\ Normalize(c).catalog = c.catalog
      /\ Normalize(c) \in ConfigRecords
  BY <1>3, <1>4, <1>5 DEF ConfigRecords, Settled, Normalized
<1>. QED BY <1>3, <1>4, <1>6 DEF IsNormal

LEMMA NormalStays ==
  ASSUME NEW c, IsNormal(c)
  PROVE  Normalize(c) = c
<1>. DEFINE normal == [n \in DOMAIN c.entries |-> NormalizeBlock(c.entries[n])]
            K == {n \in DOMAIN normal : ~Blank(normal[n].name)}
<1>1. c.top \in Blocks /\ c.entries \in Seq(Blocks) /\ c \in ConfigRecords
  BY DEF IsNormal, ConfigRecords
<1>2. normal = c.entries
  BY <1>1 DEF IsNormal, Settled, Normalized
<1>3. K = DOMAIN c.entries
  BY <1>2 DEF IsNormal, Settled
<1>4. Keep(normal, K) = c.entries
  BY <1>1, <1>2, <1>3, KeepAll
<1>5. [c.top EXCEPT !.name = IF Blank(c.top.name) THEN DefaultVirtualModel ELSE c.top.name] = c.top
  BY <1>1 DEF IsNormal, Settled, Blocks
<1>6. NormalizeBlock(c.top) = c.top
  BY DEF IsNormal, Settled, Normalized
<1>7. Normalize(c) = [c EXCEPT !.top = c.top, !.entries = c.entries]
  BY <1>4, <1>5, <1>6 DEF Normalize
<1>. QED BY <1>1, <1>7 DEF ConfigRecords

\* There is always an entry, and each of them is settled.
LEMMA EntriesResolved ==
  ASSUME NEW c, IsNormal(c)
  PROVE  /\ ResolveEntries(c) \in Seq(Blocks)
         /\ \A n \in DOMAIN ResolveEntries(c) :
              /\ Settled(ResolveEntries(c)[n])
              /\ \/ ResolveEntries(c)[n] = c.top
                 \/ \E k \in DOMAIN c.entries : ResolveEntries(c)[n] = c.entries[k]
<1>. DEFINE K == {n \in DOMAIN c.entries : \A k \in 1 .. n - 1 : c.entries[k].name # c.entries[n].name}
<1>1. ResolveEntries(c) = IF c.entries = <<>> THEN <<c.top>> ELSE Keep(c.entries, K)
  BY NormalStays DEF ResolveEntries
<1>2. c.entries \in Seq(Blocks) /\ c.top \in Blocks
  BY DEF IsNormal, ConfigRecords
<1>3. CASE c.entries = <<>>
  <2>1. ResolveEntries(c) = <<c.top>>
    BY <1>1, <1>3
  <2>2. <<c.top>> \in Seq(Blocks) /\ DOMAIN <<c.top>> = {1} /\ <<c.top>>[1] = c.top
    BY <1>2
  <2>. QED BY <2>1, <2>2 DEF IsNormal
<1>4. CASE c.entries # <<>>
  <2>1. K \in SUBSET DOMAIN c.entries
    OBVIOUS
  <2>2. ResolveEntries(c) = Keep(c.entries, K)
    BY <1>1, <1>4
  <2>. HIDE DEF K
  <2>3. /\ Keep(c.entries, K) \in Seq(Blocks)
        /\ \A n \in DOMAIN Keep(c.entries, K) : \E k \in K : Keep(c.entries, K)[n] = c.entries[k]
    BY <1>2, <2>1, KeepLemma
  <2>. QED BY <2>1, <2>2, <2>3 DEF IsNormal
<1>. QED BY <1>3, <1>4

\* A name that is looked up is that of the entry found.
LEMMA LookupLemma ==
  ASSUME NEW c, IsNormal(c), NEW name
  PROVE  LET wanted == stripThinkingSuffix(TrimSpace(name))
             entries == ResolveEntries(c)
         IN  /\ Found(c, name) =>
                  /\ LookupEntry(c, name) \in DOMAIN entries
                  /\ entries[LookupEntry(c, name)].name = wanted
             /\ ~Blank(wanted) /\ (\E n \in DOMAIN entries : entries[n].name = wanted) => Found(c, name)
<1>. DEFINE wanted == stripThinkingSuffix(TrimSpace(name))
            entries == ResolveEntries(c)
            named == {n \in DOMAIN entries : entries[n].name = wanted}
<1>1. LookupEntry(c, name) = IF Blank(wanted) \/ named = {} THEN 0 ELSE Min(named)
  BY DEF LookupEntry
<1>2. DOMAIN entries \subseteq Nat \ {0}
  BY EntriesResolved
<1>3. ASSUME named # {} PROVE Min(named) \in named
  <2>1. named \in SUBSET Nat
    BY <1>2
  <2>. HIDE DEF named
  <2>2. \E n \in named : \A k \in named : n <= k
    BY <1>3, <2>1, LeastExists
  <2>. QED BY <2>2 DEF Min
<1>. QED BY <1>1, <1>2, <1>3 DEF Found

\* What a configuration is scoped to is normal, and has the same entries.
LEMMA ScopedLemma ==
  ASSUME NEW c, IsNormal(c), NEW name, Found(c, name)
  PROVE  /\ IsNormal(WithEntry(c, name))
         /\ WithEntry(c, name).top = ResolveEntries(c)[LookupEntry(c, name)]
         /\ WithEntry(c, name) = [c EXCEPT !.top = ResolveEntries(c)[LookupEntry(c, name)]]
         /\ ResolveEntries(WithEntry(c, name)) = ResolveEntries(c)
<1>. DEFINE e == ResolveEntries(c)[LookupEntry(c, name)]
            scoped == WithEntry(c, name)
<1>1. scoped = [c EXCEPT !.top = e]
  BY NormalStays DEF WithEntry
<1>2. LookupEntry(c, name) \in DOMAIN ResolveEntries(c)
  BY LookupLemma
<1>3. Settled(e) /\ e \in Blocks
  BY <1>2, EntriesResolved
<1>4. c \in ConfigRecords
  BY DEF IsNormal
<1>5. IsNormal(scoped) /\ scoped.top = e /\ scoped.entries = c.entries
  <2>. HIDE DEF e
  <2>1. scoped \in ConfigRecords /\ scoped.top = e /\ scoped.entries = c.entries
    BY <1>1, <1>3, <1>4 DEF ConfigRecords
  <2>. HIDE DEF scoped
  <2>. QED BY <1>3, <2>1 DEF IsNormal
<1>6. ResolveEntries(scoped) = ResolveEntries(c)
  <2>1. CASE c.entries = <<>>
    <3>1. ResolveEntries(c) = <<c.top>> /\ ResolveEntries(scoped) = <<e>>
      BY <1>5, <2>1, NormalStays DEF ResolveEntries
    <3>2. LookupEntry(c, name) = 1
      BY <1>2, <3>1
    <3>3. e = c.top
      BY <3>1, <3>2
    <3>. QED BY <3>1, <3>3
  <2>2. CASE c.entries # <<>>
    BY <1>5, <2>2, NormalStays DEF ResolveEntries
  <2>. QED BY <2>1, <2>2
<1>. QED BY <1>1, <1>5, <1>6

\* How long a sequence is, and what is left of it without its last element.
LEMMA Lengths ==
  ASSUME NEW S, NEW s \in Seq(S)
  PROVE  /\ Len(s) \in Nat
         /\ Len(s) = 0 <=> s = <<>>
         /\ s # <<>> => Front(s) \in Seq(S) /\ Len(Front(s)) = Len(s) - 1
<1>1. Len(s) \in Nat /\ (Len(s) = 0 <=> s = <<>>)
  OBVIOUS
<1>2. ASSUME s # <<>> PROVE Front(s) \in Seq(S) /\ Len(Front(s)) = Len(s) - 1
  <2>. DEFINE n == Len(s) - 1
  <2>1. n \in Nat /\ n <= Len(s)
    BY <1>1, <1>2
  <2>2. Front(s) = SubSeq(s, 1, n)
    BY DEF Front
  <2>3. \A i \in 1 .. n : s[i] \in S
    BY <1>1, <2>1
  <2>4. SubSeq(s, 1, n) = [i \in 1 .. n |-> s[i]]
    BY <2>1
  <2>5. SubSeq(s, 1, n) \in Seq(S) /\ Len(SubSeq(s, 1, n)) = n
    <3>. DEFINE f == [i \in 1 .. n |-> s[i]]
    <3>1. f \in [1 .. n -> S]
      BY <2>3
    <3>2. f \in Seq(S) /\ Len(f) = n
      <4>. HIDE DEF f, n
      <4>. QED BY <2>1, <3>1
    <3>. QED BY <2>4, <3>2
  <2>. QED BY <2>2, <2>5
<1>. QED BY <1>1, <1>2

\* Every spelling of a name is read as that name.
LEMMA SpelledAlike ==
  ASSUME NEW name \in Names, ~Blank(name), name.padded = FALSE, NEW asked \in Spellings(name)
  PROVE  stripThinkingSuffix(TrimSpace(asked)) = name
<1>. DEFINE longer == Append(name.suffixes, "high")
            suffixed == [name EXCEPT !.suffixes = longer]
<1>1. PICK s \in Endings(name), padded \in BOOLEAN :
        asked = [name EXCEPT !.suffixes = s, !.padded = padded]
  BY DEF Spellings, Names
<1>2. TrimSpace(asked) = [name EXCEPT !.suffixes = s]
  BY <1>1 DEF TrimSpace, Names
<1>3. CASE s = longer
  <2>1. name.suffixes \in Seq(Texts)
    BY DEF Names
  <2>2. Len(longer) = Len(name.suffixes) + 1 /\ longer[Len(longer)] = "high" /\ longer # <<>>
    BY <2>1
  <2>3. Last(longer) = "high"
    BY <2>2 DEF Last
  <2>4. Front(longer) = name.suffixes
    BY <2>1 DEF Front
  <2>5. ~(name.base = "" /\ Len(longer) = 1)
    <3>1. Len(name.suffixes) \in Nat /\ (Len(name.suffixes) = 0 <=> name.suffixes = <<>>)
      BY <2>1, Lengths
    <3>2. Len(longer) = 1 => name.suffixes = <<>>
      <4>. HIDE DEF longer
      <4>. QED BY <2>2, <3>1
    <3>3. name.base = "" => name.suffixes # <<>>
      BY DEF Blank
    <3>. HIDE DEF longer
    <3>. QED BY <3>2, <3>3
  <2>6. suffixed.suffixes = longer /\ suffixed.base = name.base
    BY DEF Names
  <2>7. "high" # ""
    OBVIOUS
  <2>8. [suffixed EXCEPT !.suffixes = name.suffixes] = name
    BY DEF Names
  <2>. HIDE DEF longer
  <2>9. stripThinkingSuffix(suffixed) = [suffixed EXCEPT !.suffixes = Front(longer)]
    BY <2>2, <2>3, <2>5, <2>6, <2>7 DEF stripThinkingSuffix
  <2>. QED BY <1>2, <1>3, <2>4, <2>8, <2>9
<1>4. CASE s # longer
  <2>1. EndsPlain(name) /\ s = name.suffixes
    BY <1>4 DEF Endings
  <2>2. [name EXCEPT !.suffixes = name.suffixes] = name
    BY DEF Names
  <2>3. stripThinkingSuffix(name) = name
    BY <2>1 DEF EndsPlain, stripThinkingSuffix
  <2>. QED BY <1>2, <2>1, <2>2, <2>3
<1>. QED BY <1>3, <1>4

\* What is listed is found, alike for both readers.
LEMMA ListedIsFound ==
  ASSUME NEW c, IsNormal(c), NEW name \in VirtualModelNames(c)
  PROVE  FoundAlike(c, name)
<1>1. PICK n \in DOMAIN ResolveEntries(c) : ResolveEntries(c)[n].name = name
  BY DEF VirtualModelNames
<1>2. name \in Names /\ ~Blank(name) /\ name.padded = FALSE
  BY <1>1, EntriesResolved DEF Settled, Normalized, Blocks
<1>3. ASSUME NEW asked \in Spellings(name)
      PROVE  /\ Found(c, asked)
             /\ WithEntry(c, asked).top.name = name
             /\ WithEntry(WithEntry(c, asked), asked) = WithEntry(c, asked)
  <2>1. stripThinkingSuffix(TrimSpace(asked)) = name
    BY <1>2, SpelledAlike
  <2>2. Found(c, asked)
    BY <1>1, <1>2, <2>1, LookupLemma
  <2>3. ResolveEntries(c)[LookupEntry(c, asked)].name = name
    BY <2>1, <2>2, LookupLemma
  <2>. DEFINE scoped == WithEntry(c, asked)
              e == ResolveEntries(c)[LookupEntry(c, asked)]
  <2>4. /\ IsNormal(scoped) /\ scoped.top = e /\ scoped = [c EXCEPT !.top = e]
        /\ ResolveEntries(scoped) = ResolveEntries(c)
    BY <2>2, ScopedLemma
  <2>5. LookupEntry(scoped, asked) = LookupEntry(c, asked)
    BY <2>4 DEF LookupEntry
  <2>6. WithEntry(scoped, asked) = [Normalize(scoped) EXCEPT !.top = e]
    BY <2>4, <2>5 DEF WithEntry
  <2>. HIDE DEF scoped, e
  <2>7. [scoped EXCEPT !.top = e] = scoped
    BY <2>4 DEF IsNormal, ConfigRecords
  <2>8. WithEntry(scoped, asked) = scoped
    BY <2>4, <2>6, <2>7, NormalStays
  <2>. QED BY <2>2, <2>3, <2>4, <2>8 DEF scoped, e
<1>. QED BY <1>3 DEF FoundAlike

\* What is not listed is not found.
LEMMA UnlistedIsNotFound ==
  ASSUME NEW c, IsNormal(c), NEW name \in Names, ~Blank(name), name.padded = FALSE,
         name \notin VirtualModelNames(c)
  PROVE  NeverFound(c, name)
<1>. SUFFICES ASSUME NEW asked \in Spellings(name), Found(c, asked) PROVE FALSE
  BY DEF NeverFound
<1>1. stripThinkingSuffix(TrimSpace(asked)) = name
  BY SpelledAlike
<1>2. /\ LookupEntry(c, asked) \in DOMAIN ResolveEntries(c)
      /\ ResolveEntries(c)[LookupEntry(c, asked)].name = name
  BY <1>1, LookupLemma
<1>. QED BY <1>2 DEF VirtualModelNames

\* A fallback that a name is scoped to is one that the executor is registered for.
LEMMA FallbackNeedsExecutor ==
  ASSUME NEW c, IsNormal(c), NEW name, Found(c, name),
         WithEntry(c, name).top.executor_fallback.enabled
  PROVE  NeedsExecutor(c)
<1>1. WithEntry(c, name).top = ResolveEntries(c)[LookupEntry(c, name)]
  BY ScopedLemma
<1>2. LookupEntry(c, name) \in DOMAIN ResolveEntries(c)
  BY LookupLemma
<1>. QED BY <1>1, <1>2 DEF NeedsExecutor, anyEntryExecutorFallback

LEMMA EveryNormal ==
  ASSUME NEW c \in DOMAIN Configs
  PROVE  IsNormal(Normal[c])
BY ConfigsAssumption, ConfigNormalized DEF Normal

LEMMA KnownNames ==
  ASSUME NEW name \in Known
  PROVE  name \in Names /\ ~Blank(name) /\ name.padded = FALSE
<1>1. ASSUME NEW n \in AllVirtual PROVE n \in Names /\ ~Blank(n) /\ n.padded = FALSE
  <2>1. PICK c \in DOMAIN Configs : n \in VirtualModelNames(Normal[c])
    BY DEF AllVirtual, Virtual
  <2>2. IsNormal(Normal[c])
    BY EveryNormal
  <2>3. PICK k \in DOMAIN ResolveEntries(Normal[c]) : ResolveEntries(Normal[c])[k].name = n
    BY <2>1 DEF VirtualModelNames
  <2>. QED BY <2>2, <2>3, EntriesResolved DEF Settled, Normalized, Blocks
<1>2. CASE name \in AllVirtual
  BY <1>1, <1>2
<1>3. CASE name \notin AllVirtual
  <2>1. PICK n \in AllVirtual : ~EndsPlain(n) /\ name = [n EXCEPT !.suffixes = Front(n.suffixes)]
    BY <1>3 DEF Known
  <2>2. n \in Names /\ n.padded = FALSE /\ n.suffixes \in Seq(Texts) /\ n.suffixes # <<>>
        /\ ~(n.base = "" /\ Len(n.suffixes) = 1)
    BY <1>1, <2>1 DEF EndsPlain, Names
  <2>3. Front(n.suffixes) \in Seq(Texts) /\ Len(Front(n.suffixes)) = Len(n.suffixes) - 1
    BY <2>2, Lengths
  <2>. DEFINE rest == Front(n.suffixes)
  <2>4. rest = <<>> => n.base # ""
    <3>1. Len(n.suffixes) \in Nat
      BY <2>2, Lengths
    <3>2. rest = <<>> => Len(rest) = 0
      BY <2>3, Lengths
    <3>3. Len(rest) = Len(n.suffixes) - 1
      BY <2>3
    <3>. HIDE DEF rest
    <3>4. rest = <<>> => Len(n.suffixes) = 1
      BY <3>1, <3>2, <3>3
    <3>. QED BY <2>2, <3>4
  <2>. HIDE DEF rest
  <2>5. name = [n EXCEPT !.suffixes = rest] /\ rest \in Seq(Texts)
    BY <2>1, <2>3 DEF rest
  <2>6. name.base = n.base /\ name.suffixes = rest /\ name.padded = n.padded /\ name \in Names
    BY <2>2, <2>5 DEF Names
  <2>. QED BY <2>2, <2>4, <2>6 DEF Blank
<1>. QED BY <1>2, <1>3

\* DefaultConfig needs no executor.
LEMMA DefaultNeedsNone == ~Executor[Initial]
<1>. DEFINE default == Configs[Initial]
            c == Normalize(default)
            named == [default.top EXCEPT
                        !.name = IF Blank(default.top.name) THEN DefaultVirtualModel ELSE default.top.name]
            normal == [n \in DOMAIN default.entries |-> NormalizeBlock(default.entries[n])]
            K == {n \in DOMAIN normal : ~Blank(normal[n].name)}
<1>1. default \in ConfigRecords /\ default.top = DefaultBlock /\ default.entries = <<>>
  BY ConfigsAssumption
<1>2. IsNormal(c)
  BY <1>1, ConfigNormalized
<1>3. c = [default EXCEPT !.top = NormalizeBlock(named), !.entries = Keep(normal, K)]
  BY DEF Normalize
<1>4. c.top = NormalizeBlock(named) /\ c.entries = Keep(normal, K)
  <2>. HIDE DEF K, normal, named, c
  <2>. QED BY <1>1, <1>3 DEF ConfigRecords, c
<1>5. ~c.top.executor_fallback.enabled
  <2>1. named \in Blocks /\ named.executor_fallback.enabled = FALSE
    <3>0. "router:auto" \in Texts
      BY TextsAssumption
    <3>1. DefaultVirtualModel \in Names
      BY <3>0 DEF DefaultVirtualModel, PlainName, Names
    <3>2. default.top \in Blocks /\ default.top.executor_fallback.enabled = FALSE
      BY <1>1 DEF ConfigRecords, DefaultBlock
    <3>. QED BY <3>1, <3>2 DEF Blocks
  <2>2. NormalizeBlock(named).executor_fallback = normalizeExecutorFallback(named.executor_fallback)
    BY <2>1, NormalFields
  <2>3. named.executor_fallback \in Fallbacks
    BY <2>1 DEF Blocks
  <2>. QED BY <1>4, <2>1, <2>2, <2>3, FallbackNormalized
<1>6. c.entries = <<>>
  <2>1. K = {} /\ Cardinality({}) = 0
    BY <1>1, FS_EmptySet
  <2>2. Keep(normal, {}) = <<>>
    BY <2>1 DEF Keep
  <2>. QED BY <1>4, <2>1, <2>2
<1>. HIDE DEF c
<1>7. ResolveEntries(c) = <<c.top>>
  BY <1>2, <1>6, NormalStays DEF ResolveEntries
<1>8. ~anyEntryExecutorFallback(c)
  <2>1. \A n \in DOMAIN <<c.top>> : <<c.top>>[n] = c.top
    OBVIOUS
  <2>. QED BY <1>5, <1>7, <2>1 DEF anyEntryExecutorFallback
<1>9. Executor[Initial] = NeedsExecutor(c)
  BY ConfigsAssumption DEF Executor, Normal, c
<1>. QED BY <1>5, <1>8, <1>9 DEF NeedsExecutor
----------------------------------------------------------------------------
(***************************************************************************)
(* The calls and the host.                                                 *)
(***************************************************************************)
Labels == {"idle", "refresh", "catalog", "pricing", "answer", "self", "provider", "unhandled",
           "load", "register", "announce"}

\* What the host has been told it was told under the configuration in force,
\* except while a new one is on its way.
HostTold ==
  /\ proc[Host].pc \in {"idle", "announce"} => host.executor = Executor[config]
  /\ proc[Host].pc = "idle" /\ config # Initial => host.models = Virtual[config]

\* Only a configuration that falls back has calls answered "self".
SelfEarned(r) ==
  /\ proc[r].self => FallsBack[proc[r].cfg] # {}
  /\ proc[r].pc = "self" => proc[r].self

\* The time of a fetch that has ended is the one the next refresh looks at.
FetchesKnown ==
  /\ ended.catalog # Never => external.catalog.at = ended.catalog
  /\ ended.pricing # Never => external.pricing.at = ended.pricing

\* What had ended when p took its snapshot is what the snapshot says.
SnapshotKnown(p) == proc[p].seen # Never => proc[p].last = proc[p].seen

Times == Nat \cup {Never}
Externals ==
  [catalog : [models : SUBSET (Upstream \cup AllVirtual), at : Times], pricing : [at : Times]]

LifecycleTypeOK ==
  /\ config \in DOMAIN Configs
  /\ external \in Externals
  /\ file \in Externals \cup {NoFile}
  /\ now \in Nat
  /\ proc \in [Procs -> [pc : Labels, cfg : DOMAIN Configs, self : BOOLEAN, last : Times, seen : Times]]
  /\ host \in [executor : BOOLEAN, models : SUBSET AllVirtual]
  /\ ended \in [catalog : Times, pricing : Times]

LifecycleInv ==
  /\ LifecycleTypeOK
  /\ HostTold
  /\ \A r \in Threads : SelfEarned(r)
  /\ FetchesKnown
  /\ \A p \in Procs : SnapshotKnown(p)

LEMMA ConfigFacts ==
  ASSUME NEW c \in DOMAIN Configs
  PROVE  /\ Executor[c] \in BOOLEAN
         /\ Virtual[c] \subseteq AllVirtual
         /\ FallsBack[c] # {} => Executor[c]
<1>1. Executor[c] \in BOOLEAN /\ Virtual[c] \subseteq AllVirtual
  BY DEF Executor, NeedsExecutor, AllVirtual
<1>2. ASSUME FallsBack[c] # {} PROVE Executor[c]
  <2>1. PICK name \in Answered[c] : WithEntry(Normal[c], name).top.executor_fallback.enabled
    BY <1>2 DEF FallsBack
  <2>2. Found(Normal[c], name)
    BY <2>1 DEF Answered
  <2>3. NeedsExecutor(Normal[c])
    BY <2>1, <2>2, EveryNormal, FallbackNeedsExecutor
  <2>. QED BY <2>3 DEF Executor
<1>. QED BY <1>1, <1>2

LEMMA InitLifecycle == Init => LifecycleInv
<1>. SUFFICES ASSUME Init PROVE LifecycleInv
  OBVIOUS
<1>1. Initial \in DOMAIN Configs /\ ~Executor[Initial]
  BY ConfigsAssumption, DefaultNeedsNone
<1>2. LifecycleTypeOK
  BY <1>1 DEF Init, LifecycleTypeOK, Externals, Times, Labels, NothingEnded
<1>3. HostTold
  BY <1>1, ConfigFacts DEF Init, HostTold, Procs
<1>4. \A r \in Threads : SelfEarned(r)
  BY DEF Init, SelfEarned, Procs
<1>5. FetchesKnown
  BY DEF Init, FetchesKnown, NothingEnded
<1>6. \A p \in Procs : SnapshotKnown(p)
  BY DEF Init, SnapshotKnown
<1>. QED BY <1>2, <1>3, <1>4, <1>5, <1>6 DEF LifecycleInv

\* A process goes on within its refresh: nothing it has been answered changes.
LEMMA GoesOn ==
  ASSUME LifecycleInv, NEW p \in Procs, proc[p].pc \in {"refresh", "catalog", "pricing"},
         NEW where \in {"catalog", "pricing", "answer", "register"},
         NEW last \in Times, NEW seen \in Times, seen # Never => last = seen,
         proc' = [proc EXCEPT ![p] = [@ EXCEPT !.pc = where, !.last = last, !.seen = seen]],
         UNCHANGED <<config, host>>
  PROVE  /\ HostTold' /\ \A r \in Threads : SelfEarned(r)'
         /\ \A q \in Procs : SnapshotKnown(q)'
<1>. USE DEF LifecycleInv, LifecycleTypeOK, Procs
<1>1. /\ \A q \in Procs \ {p} : proc'[q] = proc[q]
      /\ proc'[p].pc = where /\ proc'[p].self = proc[p].self /\ proc'[p].cfg = proc[p].cfg
      /\ proc'[p].last = last /\ proc'[p].seen = seen
  OBVIOUS
<1>2. HostTold'
  BY <1>1 DEF HostTold
<1>3. \A r \in Threads : SelfEarned(r)'
  BY <1>1 DEF SelfEarned
<1>4. \A q \in Procs : SnapshotKnown(q)'
  BY <1>1 DEF SnapshotKnown
<1>. QED BY <1>2, <1>3, <1>4

LEMMA RefreshStep ==
  ASSUME LifecycleInv, NEW p \in Procs, Refresh(p)
  PROVE  LifecycleInv'
<1>1. PICK where \in {"catalog", "pricing", "answer", "register"}, last \in Times, seen \in Times :
        /\ proc' = [proc EXCEPT ![p] = [@ EXCEPT !.pc = where, !.last = last, !.seen = seen]]
        /\ seen # Never => last = seen
  <2>1. /\ proc[p].last \in Times /\ Fetched("pricing") \in Times
        /\ proc[p].seen \in Times /\ ended.pricing \in Times
    BY DEF LifecycleInv, LifecycleTypeOK, Externals, Fetched
  <2>2. Onward(p) \in {"answer", "register"}
    BY DEF Onward
  <2>3. proc[p].seen # Never => proc[p].last = proc[p].seen
    BY DEF LifecycleInv, SnapshotKnown
  <2>4. \A w : [proc[p] EXCEPT !.pc = w, !.last = proc[p].last, !.seen = proc[p].seen]
                 = [proc[p] EXCEPT !.pc = w]
    BY DEF LifecycleInv, LifecycleTypeOK
  <2>5. CASE Due(proc[p].cfg, "catalog", Fetched("catalog"))
    <3>1. ended.pricing # Never => Fetched("pricing") = ended.pricing
      BY DEF LifecycleInv, FetchesKnown, Fetched
    <3>2. proc' = [proc EXCEPT ![p] = [@ EXCEPT !.pc = "catalog", !.last = Fetched("pricing"),
                                               !.seen = ended.pricing]]
      BY <2>5 DEF Refresh, LifecycleInv, LifecycleTypeOK
    <3>. QED BY <2>1, <3>1, <3>2
  <2>6. CASE ~Due(proc[p].cfg, "catalog", Fetched("catalog"))
    <3>. DEFINE w == IF Due(proc[p].cfg, "pricing", Fetched("pricing")) THEN "pricing" ELSE Onward(p)
    <3>1. proc' = [proc EXCEPT ![p] = [@ EXCEPT !.pc = w]]
      BY <2>6 DEF Refresh, LifecycleInv, LifecycleTypeOK
    <3>2. w \in {"pricing", "answer", "register"}
      BY <2>2
    <3>3. proc' = [proc EXCEPT ![p] = [@ EXCEPT !.pc = w, !.last = proc[p].last, !.seen = proc[p].seen]]
      <4>. HIDE DEF w
      <4>. QED BY <2>4, <3>1
    <3>. HIDE DEF w
    <3>4. w \in {"catalog", "pricing", "answer", "register"}
      BY <3>2
    <3>. QED BY <2>1, <2>3, <3>3, <3>4
  <2>. QED BY <2>5, <2>6
<1>2. /\ proc[p].pc = "refresh"
      /\ UNCHANGED <<config, external, file, now, host, ended>>
  BY DEF Refresh, At
<1>3. /\ HostTold' /\ \A r \in Threads : SelfEarned(r)'
      /\ \A q \in Procs : SnapshotKnown(q)'
  BY <1>1, <1>2, GoesOn
<1>4. LifecycleTypeOK'
  BY <1>1, <1>2 DEF LifecycleInv, LifecycleTypeOK, Labels
<1>. QED BY <1>2, <1>3, <1>4 DEF LifecycleInv, FetchesKnown

LEMMA CatalogFetched ==
  ASSUME LifecycleTypeOK, NEW cfg \in DOMAIN Configs, NEW ok \in BOOLEAN, SetCatalog(cfg, ok)
  PROVE  external' \in Externals /\ external'.catalog.at = now /\ external'.pricing = external.pricing
<1>1. fetchModelCatalog(cfg) \subseteq Upstream \cup AllVirtual
  BY DEF fetchModelCatalog, LifecycleTypeOK
<1>2. (IF ok THEN fetchModelCatalog(cfg) ELSE {}) \in SUBSET (Upstream \cup AllVirtual)
  BY <1>1
<1>. DEFINE m == IF ok THEN fetchModelCatalog(cfg) ELSE {}
<1>3. external' = [external EXCEPT !.catalog = [models |-> m, at |-> now]]
  BY DEF SetCatalog
<1>. HIDE DEF m
<1>4. m \in SUBSET (Upstream \cup AllVirtual)
  BY <1>2 DEF m
<1>. QED BY <1>3, <1>4 DEF LifecycleTypeOK, Externals, Times

LEMMA FetchCatalogStep ==
  ASSUME LifecycleInv, NEW p \in Procs, FetchCatalog(p)
  PROVE  LifecycleInv'
<1>1. PICK where \in {"pricing", "answer", "register"} :
        proc' = [proc EXCEPT ![p] = [@ EXCEPT !.pc = where, !.last = Never, !.seen = Never]]
  <2>. DEFINE w == IF Due(proc[p].cfg, "pricing", proc[p].last) THEN "pricing" ELSE Onward(p)
  <2>1. w \in {"pricing", "answer", "register"}
    BY DEF Onward
  <2>2. proc' = [proc EXCEPT ![p].last = Never, ![p].seen = Never, ![p].pc = w]
    BY DEF FetchCatalog
  <2>. HIDE DEF w
  <2>3. proc' = [proc EXCEPT ![p] = [@ EXCEPT !.pc = w, !.last = Never, !.seen = Never]]
    BY <2>2 DEF LifecycleInv, LifecycleTypeOK
  <2>. QED BY <2>1, <2>3
<1>2. /\ proc[p].pc = "catalog" /\ Never \in Times
      /\ ended' = [ended EXCEPT !.catalog = now]
      /\ UNCHANGED <<config, file, now, host>>
  BY DEF FetchCatalog, At, Times
<1>3. /\ external' \in Externals /\ external'.catalog.at = now
      /\ external'.pricing = external.pricing
  BY CatalogFetched DEF FetchCatalog, LifecycleInv, LifecycleTypeOK
<1>4. /\ HostTold' /\ \A r \in Threads : SelfEarned(r)'
      /\ \A q \in Procs : SnapshotKnown(q)'
  BY <1>1, <1>2, GoesOn
<1>5. LifecycleTypeOK'
  <2>1. proc' \in [Procs -> [pc : Labels, cfg : DOMAIN Configs, self : BOOLEAN, last : Times, seen : Times]]
    BY <1>1, <1>2 DEF LifecycleInv, LifecycleTypeOK, Labels
  <2>2. ended' \in [catalog : Times, pricing : Times]
    BY <1>2 DEF LifecycleInv, LifecycleTypeOK, Times
  <2>3. (config \in DOMAIN Configs)' /\ (file \in Externals \cup {NoFile})' /\ (now \in Nat)'
        /\ (host \in [executor : BOOLEAN, models : SUBSET AllVirtual])'
    BY <1>2 DEF LifecycleInv, LifecycleTypeOK
  <2>. QED BY <1>3, <2>1, <2>2, <2>3 DEF LifecycleTypeOK
<1>6. FetchesKnown'
  BY <1>2, <1>3 DEF LifecycleInv, LifecycleTypeOK, FetchesKnown
<1>. QED BY <1>4, <1>5, <1>6 DEF LifecycleInv

LEMMA FetchPricingStep ==
  ASSUME LifecycleInv, NEW p \in Procs, FetchPricing(p)
  PROVE  LifecycleInv'
<1>1. PICK where \in {"answer", "register"} :
        proc' = [proc EXCEPT ![p] = [@ EXCEPT !.pc = where, !.last = proc[p].last,
                                             !.seen = proc[p].seen]]
  <2>1. Onward(p) \in {"answer", "register"}
    BY DEF Onward
  <2>2. \A w : [proc[p] EXCEPT !.pc = w, !.last = proc[p].last, !.seen = proc[p].seen]
                 = [proc[p] EXCEPT !.pc = w]
    BY DEF LifecycleInv, LifecycleTypeOK
  <2>3. proc' = [proc EXCEPT ![p] = [@ EXCEPT !.pc = Onward(p)]]
    BY DEF FetchPricing, Go, LifecycleInv, LifecycleTypeOK
  <2>. QED BY <2>1, <2>2, <2>3
<1>2. /\ proc[p].pc = "pricing" /\ proc[p].last \in Times /\ proc[p].seen \in Times
      /\ proc[p].seen # Never => proc[p].last = proc[p].seen
      /\ external' = [external EXCEPT !.pricing.at = now]
      /\ ended' = [ended EXCEPT !.pricing = now]
      /\ UNCHANGED <<config, file, now, host>>
  BY DEF FetchPricing, At, LifecycleInv, LifecycleTypeOK, SnapshotKnown
<1>3. /\ external' \in Externals /\ external'.pricing.at = now
      /\ external'.catalog = external.catalog
  BY <1>2 DEF LifecycleInv, LifecycleTypeOK, Externals, Times
<1>4. /\ HostTold' /\ \A r \in Threads : SelfEarned(r)'
      /\ \A q \in Procs : SnapshotKnown(q)'
  BY <1>1, <1>2, GoesOn
<1>5. LifecycleTypeOK'
  <2>1. proc' \in [Procs -> [pc : Labels, cfg : DOMAIN Configs, self : BOOLEAN, last : Times, seen : Times]]
    <3>1. proc \in [Procs -> [pc : Labels, cfg : DOMAIN Configs, self : BOOLEAN, last : Times, seen : Times]]
      BY DEF LifecycleInv, LifecycleTypeOK
    <3>2. where \in Labels
      BY DEF Labels
    <3>3. proc' = [proc EXCEPT ![p] = [@ EXCEPT !.pc = where, !.last = proc[p].last,
                                               !.seen = proc[p].seen]]
      BY <1>1
    <3>4. [proc[p] EXCEPT !.pc = where, !.last = proc[p].last, !.seen = proc[p].seen]
            \in [pc : Labels, cfg : DOMAIN Configs, self : BOOLEAN, last : Times, seen : Times]
      BY <3>1, <3>2
    <3>. QED BY <3>1, <3>3, <3>4
  <2>2. ended' \in [catalog : Times, pricing : Times]
    BY <1>2 DEF LifecycleInv, LifecycleTypeOK, Times
  <2>3. (config \in DOMAIN Configs)' /\ (file \in Externals \cup {NoFile})' /\ (now \in Nat)'
        /\ (host \in [executor : BOOLEAN, models : SUBSET AllVirtual])'
    BY <1>2 DEF LifecycleInv, LifecycleTypeOK
  <2>. QED BY <1>3, <2>1, <2>2, <2>3 DEF LifecycleTypeOK
<1>6. FetchesKnown'
  BY <1>2, <1>3 DEF LifecycleInv, LifecycleTypeOK, FetchesKnown
<1>. QED BY <1>4, <1>5, <1>6 DEF LifecycleInv

\* The host's thread is none of those that serve calls.
LEMMA HostApart ==
  ASSUME LifecycleInv, NEW new, proc' = [proc EXCEPT ![Host] = new]
  PROVE  /\ proc'[Host] = new
         /\ \A r \in Threads : proc'[r] = proc[r] /\ SelfEarned(r)' /\ SnapshotKnown(r)'
<1>1. \A r \in Threads : proc'[r] = proc[r]
  BY LifecycleAssumption DEF LifecycleInv, LifecycleTypeOK, Procs
<1>2. proc'[Host] = new
  BY DEF LifecycleInv, LifecycleTypeOK, Procs
<1>. QED BY <1>1, <1>2 DEF LifecycleInv, SelfEarned, SnapshotKnown, Procs

LEMMA ConfigureStep ==
  ASSUME LifecycleInv, Configure
  PROVE  LifecycleInv'
<1>1. PICK c \in DOMAIN Configs :
        config' = c /\ proc' = [proc EXCEPT ![Host].pc = "load", ![Host].cfg = c]
  BY DEF Configure
<1>2. proc' = [proc EXCEPT ![Host] = [proc[Host] EXCEPT !.pc = "load", !.cfg = c]]
  BY <1>1 DEF LifecycleInv, LifecycleTypeOK, Procs
<1>3. /\ proc'[Host] = [proc[Host] EXCEPT !.pc = "load", !.cfg = c]
      /\ \A r \in Threads : SelfEarned(r)' /\ SnapshotKnown(r)'
  BY <1>2, HostApart
<1>4. /\ proc'[Host].pc = "load" /\ proc'[Host].seen = proc[Host].seen
      /\ proc'[Host].last = proc[Host].last
  BY <1>3 DEF LifecycleInv, LifecycleTypeOK, Procs
<1>7. \A p \in Procs : SnapshotKnown(p)'
  BY <1>3, <1>4 DEF LifecycleInv, SnapshotKnown, Procs
<1>5. LifecycleTypeOK'
  BY <1>1, <1>2 DEF Configure, LifecycleInv, LifecycleTypeOK, Labels, Procs
<1>6. HostTold'
  BY <1>4 DEF HostTold
<1>. QED BY <1>3, <1>5, <1>6, <1>7 DEF LifecycleInv, FetchesKnown, Configure

\* The three other accesses of a configuration, each leaving it somewhere else.
LEMMA HostStepInv ==
  ASSUME LifecycleInv, LoadState \/ Register \/ Announce
  PROVE  LifecycleInv'
<1>. USE DEF LifecycleInv, LifecycleTypeOK, Procs, At, Go
<1>1. PICK where \in {"refresh", "announce", "idle"} :
        proc' = [proc EXCEPT ![Host] = [proc[Host] EXCEPT !.pc = where]]
  BY DEF LoadState, Register, Announce
<1>2. /\ proc'[Host].pc = where /\ \A r \in Threads : SelfEarned(r)'
      /\ \A p \in Procs : SnapshotKnown(p)'
  <2>1. /\ proc'[Host] = [proc[Host] EXCEPT !.pc = where]
        /\ \A r \in Threads : SelfEarned(r)' /\ SnapshotKnown(r)'
    BY <1>1, HostApart
  <2>2. SnapshotKnown(Host)'
    BY <2>1 DEF SnapshotKnown
  <2>. QED BY <2>1, <2>2
<1>3. proc' \in [Procs -> [pc : Labels, cfg : DOMAIN Configs, self : BOOLEAN, last : Times, seen : Times]]
  BY <1>1 DEF Labels
<1>4. CASE LoadState
  <2>1. external' \in Externals /\ ended' = NothingEnded /\ UNCHANGED <<config, file, now, host>>
    BY <1>4 DEF LoadState
  <2>2. proc'[Host].pc = "refresh"
    BY <1>4 DEF LoadState
  <2>3. ended' \in [catalog : Times, pricing : Times] /\ FetchesKnown'
    BY <2>1 DEF NothingEnded, FetchesKnown, Times
  <2>. QED BY <1>2, <1>3, <2>1, <2>2, <2>3 DEF HostTold
<1>5. CASE Register
  <2>1. /\ host' = [host EXCEPT !.executor = Executor[config]] /\ proc'[Host].pc = "announce"
        /\ UNCHANGED <<config, external, file, now, ended>>
    BY <1>5 DEF Register
  <2>2. host' \in [executor : BOOLEAN, models : SUBSET AllVirtual] /\ host'.executor = Executor[config]
    BY <2>1, ConfigFacts
  <2>. QED BY <1>2, <1>3, <2>1, <2>2 DEF HostTold, FetchesKnown
<1>6. CASE Announce
  <2>1. /\ host' = [host EXCEPT !.models = Virtual[config]]
        /\ proc[Host].pc = "announce"
        /\ UNCHANGED <<config, external, file, now, ended>>
    BY <1>6 DEF Announce
  <2>2. /\ host' \in [executor : BOOLEAN, models : SUBSET AllVirtual]
        /\ host'.models = Virtual[config] /\ host'.executor = host.executor
    BY <2>1, ConfigFacts
  <2>. QED BY <1>2, <1>3, <2>1, <2>2 DEF HostTold, FetchesKnown
<1>. QED BY <1>4, <1>5, <1>6

\* A call is answered, or loads the configuration in force.
LEMMA CallStepInv ==
  ASSUME LifecycleInv, NEW r \in Threads, Load(r) \/ Answer(r)
  PROVE  LifecycleInv'
<1>. USE DEF LifecycleInv, LifecycleTypeOK
<1>0. r \in Procs /\ r # Host /\ Host \in Procs /\ Threads \subseteq Procs
  BY LifecycleAssumption DEF Procs
<1>1. UNCHANGED <<config, external, file, now, host, ended>>
  BY DEF Load, Answer
<1>2. PICK new \in [pc : Labels, cfg : DOMAIN Configs, self : BOOLEAN, last : Times, seen : Times] :
        /\ proc' = [proc EXCEPT ![r] = new]
        /\ new.self => FallsBack[new.cfg] # {}
        /\ new.pc = "self" => new.self
        /\ new.last = proc[r].last /\ new.seen = proc[r].seen
  <2>1. CASE Answer(r)
    <3>1. PICK where \in {IF proc[r].self THEN "self" ELSE "provider", "unhandled"} : Go(r, where)
      BY <2>1 DEF Answer
    <3>. DEFINE new == [proc[r] EXCEPT !.pc = where]
    <3>2. where \in {"self", "provider", "unhandled"} /\ (where = "self" => proc[r].self)
      OBVIOUS
    <3>3. new \in [pc : Labels, cfg : DOMAIN Configs, self : BOOLEAN, last : Times, seen : Times]
      BY <1>0, <3>2 DEF Labels
    <3>4. proc' = [proc EXCEPT ![r] = new] /\ new.self = proc[r].self /\ new.cfg = proc[r].cfg /\ new.pc = where
          /\ new.last = proc[r].last /\ new.seen = proc[r].seen
      BY <1>0, <3>1 DEF Go
    <3>5. proc[r].self => FallsBack[proc[r].cfg] # {}
      BY DEF SelfEarned
    <3>. HIDE DEF new
    <3>. QED BY <3>2, <3>3, <3>4, <3>5
  <2>2. CASE Load(r)
    <3>1. PICK name \in Requested, stream \in BOOLEAN :
            proc' = [proc EXCEPT ![r] =
                       IF name \in Answered[config]
                       THEN [@ EXCEPT !.pc = "refresh", !.cfg = config,
                               !.self = ~stream /\ name \in FallsBack[config]]
                       ELSE [@ EXCEPT !.pc = "unhandled"]]
      BY <2>2 DEF Load
    <3>2. CASE name \in Answered[config]
      <4>. DEFINE new == [proc[r] EXCEPT !.pc = "refresh", !.cfg = config,
                                        !.self = ~stream /\ name \in FallsBack[config]]
      <4>1. proc' = [proc EXCEPT ![r] = new]
        BY <1>0, <3>1, <3>2
      <4>2. /\ new \in [pc : Labels, cfg : DOMAIN Configs, self : BOOLEAN, last : Times, seen : Times]
            /\ new.pc = "refresh" /\ new.cfg = config
            /\ new.last = proc[r].last /\ new.seen = proc[r].seen
            /\ new.self => name \in FallsBack[config]
        BY <1>0 DEF Labels
      <4>. HIDE DEF new
      <4>. QED BY <4>1, <4>2
    <3>3. CASE name \notin Answered[config]
      <4>. DEFINE new == [proc[r] EXCEPT !.pc = "unhandled"]
      <4>1. proc' = [proc EXCEPT ![r] = new]
        BY <1>0, <3>1, <3>3
      <4>2. /\ new \in [pc : Labels, cfg : DOMAIN Configs, self : BOOLEAN, last : Times, seen : Times]
            /\ new.pc = "unhandled" /\ new.cfg = proc[r].cfg /\ new.self = proc[r].self
            /\ new.last = proc[r].last /\ new.seen = proc[r].seen
        BY <1>0 DEF Labels
      <4>3. proc[r].self => FallsBack[proc[r].cfg] # {}
        BY DEF SelfEarned
      <4>. HIDE DEF new
      <4>. QED BY <4>1, <4>2, <4>3
    <3>. QED BY <3>2, <3>3
  <2>. QED BY <2>1, <2>2
<1>3. proc'[r] = new /\ \A q \in Procs \ {r} : proc'[q] = proc[q]
  BY <1>0, <1>2
<1>4. LifecycleTypeOK'
  BY <1>0, <1>1, <1>2
<1>5. HostTold'
  BY <1>0, <1>1, <1>3 DEF HostTold
<1>6. \A q \in Threads : SelfEarned(q)'
  <2>1. SelfEarned(r)'
    BY <1>2, <1>3 DEF SelfEarned
  <2>2. \A q \in Threads \ {r} : SelfEarned(q)'
    BY <1>0, <1>3 DEF SelfEarned
  <2>. QED BY <2>1, <2>2
<1>7. \A q \in Procs : SnapshotKnown(q)'
  BY <1>0, <1>2, <1>3 DEF SnapshotKnown
<1>. QED BY <1>1, <1>4, <1>5, <1>6, <1>7 DEF FetchesKnown

LEMMA LifecycleStep ==
  ASSUME LifecycleInv, [Next]_vars
  PROVE  LifecycleInv'
<1>1. ASSUME NEW p \in Procs, ProcStep(p) PROVE LifecycleInv'
  BY <1>1, RefreshStep, FetchCatalogStep, FetchPricingStep DEF ProcStep
<1>2. CASE Save \/ Tick \/ UNCHANGED vars
  <2>1. /\ UNCHANGED <<config, external, proc, host, ended>>
        /\ file' \in {file, external} /\ now' \in {now, now + 1}
    BY <1>2 DEF Save, Tick, vars
  <2>2. LifecycleTypeOK'
    BY <2>1 DEF LifecycleInv, LifecycleTypeOK
  <2>3. HostTold' /\ FetchesKnown'
    BY <2>1 DEF LifecycleInv, HostTold, FetchesKnown
  <2>4. (\A r \in Threads : SelfEarned(r)') /\ \A p \in Procs : SnapshotKnown(p)'
    BY <2>1 DEF LifecycleInv, SelfEarned, SnapshotKnown
  <2>. QED BY <2>2, <2>3, <2>4 DEF LifecycleInv
<1>3. Host \in Procs /\ Threads \subseteq Procs
  BY DEF Procs
<1>. QED
  BY <1>1, <1>2, <1>3, ConfigureStep, HostStepInv, CallStepInv DEF Next, HostStep, CallStep

THEOREM LifecycleInvariant == Spec => []LifecycleInv
BY InitLifecycle, LifecycleStep, PTL DEF Spec

\* A call answered "self" under the configuration in force finds the executor
\* registered, whatever configurations came before and whatever calls run beside
\* (pluginRegistration and routeResponse in cmd/plugin/main.go).
THEOREM SelfFindsExecutor == Spec => []SelfHasExecutor
<1>1. LifecycleInv => SelfHasExecutor
  <2>. SUFFICES ASSUME LifecycleInv, NEW r \in Threads,
                       At(r, "self"), At(Host, "idle"), proc[r].cfg = config
                PROVE  host.executor
    BY DEF SelfHasExecutor
  <2>1. FallsBack[config] # {}
    BY DEF LifecycleInv, SelfEarned, At
  <2>2. Executor[config]
    BY <2>1, ConfigFacts DEF LifecycleInv, LifecycleTypeOK
  <2>. QED BY <2>2 DEF LifecycleInv, HostTold, At
<1>. QED BY LifecycleInvariant, <1>1, PTL

\* A call is answered exactly if it asks, in whatever spelling, for a name that the
\* host was told of, whatever the configurations hold, earlier ones included, and
\* however often they change; both readers find the same entry.  What ends in a suffix
\* asks for the name without, even if it was announced itself
\* (Registrar.Register, ResolveEntries, stripThinkingSuffix and WithEntry).
THEOREM AnnouncedIsFound == Spec => []AnnouncedIsRoutable
<1>1. LifecycleInv => AnnouncedIsRoutable
  <2>. SUFFICES ASSUME LifecycleInv, At(Host, "idle"), config # Initial, NEW name \in Known
                PROVE  name \in (IF name \in host.models THEN AllAlike ELSE AllUnknown)[config]
    BY DEF AnnouncedIsRoutable
  <2>1. config \in DOMAIN Configs /\ host.models = Virtual[config]
    BY DEF LifecycleInv, LifecycleTypeOK, HostTold, At
  <2>2. IsNormal(Normal[config]) /\ host.models = VirtualModelNames(Normal[config])
    BY <2>1, EveryNormal DEF Virtual
  <2>3. CASE name \in host.models
    <3>1. FoundAlike(Normal[config], name)
      BY <2>2, <2>3, ListedIsFound
    <3>. QED BY <2>1, <2>3, <3>1 DEF AllAlike
  <2>4. CASE name \notin host.models
    <3>1. NeverFound(Normal[config], name)
      BY <2>2, <2>4, KnownNames, UnlistedIsNotFound
    <3>. QED BY <2>1, <2>4, <3>1 DEF AllUnknown
  <2>. QED BY <2>3, <2>4
<1>. QED BY LifecycleInvariant, <1>1, PTL

\* Only a refresh begins a fetch.
LEMMA FetchIsDue ==
  ASSUME LifecycleInv, [Next]_vars, NEW p \in Procs, At(p, "refresh"),
         NEW kind \in {"catalog", "pricing"}, proc'[p].pc = kind
  PROVE  Due(proc[p].cfg, kind, Fetched(kind))
<1>. USE DEF LifecycleInv, LifecycleTypeOK, At
<1>1. Refresh(p)
  <2>1. proc' # proc
    OBVIOUS
  <2>2. ~Configure /\ ~LoadState /\ ~Register /\ ~Announce /\ ~Save /\ ~Tick /\ ~UNCHANGED vars
    BY <2>1 DEF Configure, LoadState, Register, Announce, Save, Tick, vars, Go, Procs
  <2>3. \A r \in Threads : ~Load(r) /\ ~Answer(r)
    BY <2>1 DEF Load, Answer, Go, Finished, Procs
  <2>4. \A q \in Procs : ~FetchCatalog(q) /\ ~FetchPricing(q)
    BY <2>1 DEF FetchCatalog, FetchPricing, Go
  <2>5. \A q \in Procs \ {p} : ~Refresh(q)
    BY <2>1 DEF Refresh
  <2>. QED BY <2>2, <2>3, <2>4, <2>5 DEF Next, HostStep, CallStep, ProcStep, Procs
<1>2. CASE Due(proc[p].cfg, "catalog", Fetched("catalog"))
  <2>1. proc' = [proc EXCEPT ![p] = [@ EXCEPT !.pc = "catalog", !.last = Fetched("pricing"),
                                             !.seen = ended.pricing]]
    BY <1>1, <1>2 DEF Refresh
  <2>2. proc'[p].pc = "catalog"
    BY <2>1
  <2>. QED BY <1>2, <2>2
<1>3. CASE ~Due(proc[p].cfg, "catalog", Fetched("catalog"))
  <2>. DEFINE w == IF Due(proc[p].cfg, "pricing", Fetched("pricing")) THEN "pricing" ELSE Onward(p)
  <2>1. proc' = [proc EXCEPT ![p] = [@ EXCEPT !.pc = w]]
    BY <1>1, <1>3 DEF Refresh
  <2>2. proc'[p].pc = w
    <3>. HIDE DEF w
    <3>. QED BY <2>1
  <2>3. Onward(p) \notin {"catalog", "pricing"}
    BY DEF Onward
  <2>. QED BY <2>2, <2>3
<1>. QED BY <1>2, <1>3

\* The prices that follow a catalog are due by the snapshot.
LEMMA PricesAreDue ==
  ASSUME LifecycleInv, [Next]_vars, NEW p \in Procs, At(p, "catalog"), proc'[p].pc = "pricing"
  PROVE  Due(proc[p].cfg, "pricing", proc[p].last)
<1>. USE DEF LifecycleInv, LifecycleTypeOK, At
<1>1. FetchCatalog(p)
  <2>1. proc' # proc
    OBVIOUS
  <2>2. ~Configure /\ ~LoadState /\ ~Register /\ ~Announce /\ ~Save /\ ~Tick /\ ~UNCHANGED vars
    BY <2>1 DEF Configure, LoadState, Register, Announce, Save, Tick, vars, Go, Procs
  <2>3. \A r \in Threads : ~Load(r) /\ ~Answer(r)
    BY <2>1 DEF Load, Answer, Go, Finished, Procs
  <2>4. \A q \in Procs : ~FetchPricing(q) /\ ~Refresh(q)
    BY <2>1 DEF FetchPricing, Refresh, Go
  <2>5. \A q \in Procs \ {p} : ~FetchCatalog(q)
    BY <2>1 DEF FetchCatalog
  <2>. QED BY <2>2, <2>3, <2>4, <2>5 DEF Next, HostStep, CallStep, ProcStep, Procs
<1>. DEFINE w == IF Due(proc[p].cfg, "pricing", proc[p].last) THEN "pricing" ELSE Onward(p)
<1>2. proc' = [proc EXCEPT ![p].last = Never, ![p].seen = Never, ![p].pc = w]
  BY <1>1 DEF FetchCatalog
<1>3. proc'[p].pc = w
  <2>. HIDE DEF w
  <2>. QED BY <1>2
<1>4. Onward(p) # "pricing"
  BY DEF Onward
<1>. QED BY <1>3, <1>4

\* A fetch that begins after one has ended waits for the interval, whatever the
\* configurations, the intervals, the number of threads and the clock: a failed fetch
\* counts, and only overlapping refreshes or a reload fetch again within it; prices
\* that follow a catalog keep their distance from all that had ended when the snapshot
\* was taken (refreshExternalState).
THEOREM RefreshSpaced == Spec => RefreshSpacing
<1>1. ASSUME LifecycleInv, [Next]_vars, NEW p \in Procs, NEW kind \in {"catalog", "pricing"},
             At(p, "refresh"), proc'[p].pc = kind
      PROVE  Spaced(p, kind, ended[kind])
  <2>1. shouldRefresh(Fetched(kind), Interval(proc[p].cfg, kind))
    BY <1>1, FetchIsDue DEF Due
  <2>2. ended[kind] # Never => Fetched(kind) = ended[kind]
    BY <1>1 DEF LifecycleInv, FetchesKnown, Fetched
  <2>. QED BY <2>1, <2>2 DEF shouldRefresh, Spaced
<1>2. ASSUME LifecycleInv, [Next]_vars, NEW p \in Procs, At(p, "catalog"), proc'[p].pc = "pricing"
      PROVE  Spaced(p, "pricing", proc[p].seen)
  <2>1. shouldRefresh(proc[p].last, Interval(proc[p].cfg, "pricing"))
    BY <1>2, PricesAreDue DEF Due
  <2>2. proc[p].seen # Never => proc[p].last = proc[p].seen
    BY <1>2 DEF LifecycleInv, SnapshotKnown
  <2>. QED BY <2>1, <2>2 DEF shouldRefresh, Spaced
<1>. DEFINE Body ==
       \A p \in Procs :
         /\ At(p, "refresh") /\ proc'[p].pc = "catalog" => Spaced(p, "catalog", ended.catalog)
         /\ At(p, "refresh") /\ proc'[p].pc = "pricing" => Spaced(p, "pricing", ended.pricing)
         /\ At(p, "catalog") /\ proc'[p].pc = "pricing" => Spaced(p, "pricing", proc[p].seen)
<1>3. LifecycleInv /\ [Next]_vars => Body
  <2>. SUFFICES ASSUME LifecycleInv, [Next]_vars PROVE Body
    OBVIOUS
  <2>. QED BY <1>1, <1>2
<1>4. LifecycleInv /\ [Next]_vars => [Body]_vars
  BY <1>3
<1>. QED BY LifecycleInvariant, <1>4, PTL DEF Spec, RefreshSpacing
==============================================================================
