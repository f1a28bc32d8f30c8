-------------------------- MODULE StrategiesProofs --------------------------
(***************************************************************************)
(* The decision of one call, for every set of calls: what its engine does  *)
(* is what PolicyEngine promises (RunsTheEngine); CallInv says where a     *)
(* decision comes from at every stage, and what is offered and decided     *)
(* follows from it.  The operators the decision is computed with are       *)
(* proved about apart: the scan of a classifier's answer, the language of  *)
(* the files, the key of the cache, the complexity score.                  *)
(***************************************************************************)
EXTENDS Strategies, PolicyEngineProofs

(*************************** least and greatest ***************************)
LEMMA Least ==
  ASSUME NEW S \in SUBSET Nat, S # {}
  PROVE  \E n \in S : \A k \in S : n <= k
<1>1. PICK R : /\ IsWellFoundedOn(R, Nat)
               /\ \A x, y \in Nat : x < y => <<x, y>> \in R
  BY LessThan
<1>2. PICK n \in S : \A y \in S : <<y, n>> \notin R
  <2>1. IsWellFoundedOn(R, Nat)
    BY <1>1
  <2>2. S \subseteq Nat
    OBVIOUS
  <2>. QED BY <2>1, <2>2, WFMin, Zenon
<1>3. \A k \in S : n <= k
  <2>. TAKE k \in S
  <2>1. n \in Nat /\ k \in Nat
    OBVIOUS
  <2>2. ~ (k < n)
    BY <1>1, <1>2, <2>1
  <2>. QED BY <2>1, <2>2
<1>. QED BY <1>3

\* The first of those for which f is least.
LEMMA LeastBy ==
  ASSUME NEW S \in SUBSET Nat, S # {}, NEW f \in [S -> Nat]
  PROVE  \E n \in S : \A k \in S : f[n] < f[k] \/ (f[n] = f[k] /\ n <= k)
<1>. DEFINE V == {f[n] : n \in S}
<1>1. V \in SUBSET Nat /\ V # {}
  OBVIOUS
<1>. HIDE DEF V
<1>2. PICK v \in V : \A w \in V : v <= w
  BY <1>1, Least
<1>. DEFINE M == {n \in S : f[n] = v}
<1>3. M \in SUBSET Nat /\ M # {}
  BY DEF V
<1>. HIDE DEF M
<1>4. PICK n \in M : \A k \in M : n <= k
  BY <1>3, Least
<1>5. ASSUME NEW k \in S PROVE f[n] < f[k] \/ (f[n] = f[k] /\ n <= k)
  <2>1. f[k] \in V /\ f[n] = v /\ n \in S
    BY <1>4 DEF V, M
  <2>2. v <= f[k] /\ v \in Nat /\ f[k] \in Nat
    BY <1>1, <1>2, <2>1
  <2>3. f[k] = v => k \in M
    BY DEF M
  <2>. QED BY <1>4, <2>1, <2>2, <2>3
<1>6. n \in S
  BY DEF M
<1>. QED BY <1>5, <1>6

LEMMA Greatest ==
  ASSUME NEW b \in Nat, NEW S \in SUBSET (1 .. b), S # {}
  PROVE  \E n \in S : \A k \in S : k <= n
<1>1. S \in SUBSET Nat /\ [n \in S |-> b - n] \in [S -> Nat]
  OBVIOUS
<1>2. PICK n \in S : \A k \in S :
        \/ [j \in S |-> b - j][n] < [j \in S |-> b - j][k]
        \/ ([j \in S |-> b - j][n] = [j \in S |-> b - j][k] /\ n <= k)
  BY <1>1, LeastBy
<1>3. \A k \in S : k <= n
  BY <1>2
<1>. QED BY <1>3

(******************************** lists ***********************************)
LEMMA Lists ==
  ASSUME NEW S
  PROVE  /\ <<>> \in Seq(S)
         /\ \A x \in S : <<x>> \in Seq(S)
OBVIOUS

LEMMA ListIsSequence ==
  ASSUME NEW s, IsList(s)
  PROVE  /\ DOMAIN s = 1 .. Len(s) /\ Len(s) \in Nat
         /\ \A S : (\A n \in DOMAIN s : s[n] \in S) => s \in Seq(S)
BY DEF IsList

(*************************** the local choice *****************************)
LEMMA Ranks ==
  ASSUME NEW tier
  PROVE  CostRank(tier) \in 0 .. 3 /\ QualityRank(tier) \in 0 .. 3
BY DEF CostRank, QualityRank, costRank, qualityRank

\* The order of scores is that of the preferred dimension, then of the other, then
\* of the configuration.
LEMMA LeadsMeans ==
  ASSUME NEW models, NEW preference, NEW n \in Nat, NEW k \in Nat
  PROVE  Leads(models, preference, n, k) <=>
           LET c == CostRank(models[n].cost)
              d == CostRank(models[k].cost)
              q == QualityRank(models[n].quality)
              p == QualityRank(models[k].quality)
           IN  IF preference = "quality"
               THEN q > p \/ (q = p /\ (c < d \/ (c = d /\ n <= k)))
               ELSE c < d \/ (c = d /\ (q > p \/ (q = p /\ n <= k)))
<1>1. /\ CostRank(models[n].cost) \in 0 .. 3 /\ CostRank(models[k].cost) \in 0 .. 3
      /\ QualityRank(models[n].quality) \in 0 .. 3 /\ QualityRank(models[k].quality) \in 0 .. 3
  BY Ranks
<1>2. CASE preference = "quality"
  BY <1>1, <1>2 DEF Leads, TierScore
<1>3. CASE preference # "quality"
  BY <1>1, <1>3 DEF Leads, TierScore
<1>. QED BY <1>2, <1>3

LEMMA LeaderExists ==
  ASSUME NEW S \in SUBSET Nat, S # {}, NEW models, NEW preference
  PROVE  \E n \in S : \A k \in S : Leads(models, preference, n, k)
<1>. DEFINE s(n) == TierScore(models[n], preference)
            f == [n \in S |-> 100 - s(n)]
<1>1. \A n \in S : s(n) \in -3 .. 33
  BY Ranks DEF TierScore
<1>. HIDE DEF s
<1>2. f \in [S -> Nat]
  BY <1>1
<1>. HIDE DEF f
<1>3. PICK n \in S : \A k \in S : f[n] < f[k] \/ (f[n] = f[k] /\ n <= k)
  BY <1>2, LeastBy
<1>4. \A k \in S : s(n) > s(k) \/ (s(n) = s(k) /\ n <= k)
  BY <1>1, <1>3 DEF f
<1>. QED BY <1>4 DEF Leads, s

\* The chosen model is gated and leads all that are.
LEMMA SelectedLeads ==
  ASSUME NEW models, DOMAIN models \subseteq Nat, NEW offer, NEW words, NEW preference,
         Gated(models, offer, words) # {}
  PROVE  LET n == SelectCandidate(models, offer, words, preference)
         IN  /\ n \in Gated(models, offer, words)
             /\ \A k \in Gated(models, offer, words) : Leads(models, preference, n, k)
<1>1. Gated(models, offer, words) \in SUBSET Nat
  BY DEF Gated, Pool, Usable
<1>. QED BY <1>1, LeaderExists DEF SelectCandidate

\* Two leaders of one set are one.
LEMMA OneLeader ==
  ASSUME NEW models, NEW preference, NEW n \in Nat, NEW k \in Nat,
         Leads(models, preference, n, k), Leads(models, preference, k, n)
  PROVE  n = k
BY Ranks DEF Leads, TierScore

LEMMA GatedIsUsable ==
  ASSUME NEW models, NEW offer, NEW words
  PROVE  /\ Gated(models, offer, words) \subseteq Pool(models, offer, words)
         /\ Pool(models, offer, words) \subseteq Usable(models, offer)
         /\ Usable(models, offer) \subseteq DOMAIN models
         /\ Gated(models, offer, words) = {} <=> Pool(models, offer, words) = {}
BY DEF Gated, Pool, Usable

\* Only what is enabled has a local choice, and it is the leader of what is gated.
LEMMA LocalLeads ==
  ASSUME DOMAIN candidates \subseteq Nat \ {0}
  PROVE  /\ LocalChoice # 0 =>
              /\ LocalChoice \in Gated(Models, call.offer, Prompt)
              /\ LocalChoice \in Usable(Models, call.offer)
              /\ LocalChoice = SelectCandidate(Models, call.offer, Prompt, call.preference)
              /\ \A k \in Gated(Models, call.offer, Prompt) :
                   Leads(Models, call.preference, LocalChoice, k)
         /\ LocalChoice = 0 /\ call.enabled => Pool(Models, call.offer, Prompt) = {}
<1>1. DOMAIN Models = DOMAIN candidates
  BY DEF Models
<1>. DEFINE gated == Gated(Models, call.offer, Prompt)
            chosen == SelectCandidate(Models, call.offer, Prompt, call.preference)
<1>2. gated # {} => chosen \in gated /\ \A k \in gated : Leads(Models, call.preference, chosen, k)
  BY <1>1, SelectedLeads
<1>3. gated \subseteq Usable(Models, call.offer) /\ Usable(Models, call.offer) \subseteq DOMAIN candidates
  BY <1>1, GatedIsUsable
<1>4. gated = {} => chosen = 0 /\ Pool(Models, call.offer, Prompt) = {}
  BY GatedIsUsable DEF SelectCandidate
<1>5. gated # {} => chosen # 0
  BY <1>2, <1>3
<1>6. LocalChoice = IF call.enabled THEN chosen ELSE 0
  BY DEF LocalChoice
<1>. HIDE DEF gated, chosen
<1>7. LocalChoice # 0 => /\ LocalChoice = chosen /\ gated # {}
  BY <1>4, <1>6
<1>8. LocalChoice # 0 => LocalChoice \in gated /\ LocalChoice \in Usable(Models, call.offer)
                         /\ \A k \in gated : Leads(Models, call.preference, LocalChoice, k)
  BY <1>2, <1>3, <1>7
<1>9. LocalChoice = 0 /\ call.enabled => Pool(Models, call.offer, Prompt) = {}
  BY <1>4, <1>5, <1>6
<1>. QED BY <1>7, <1>8, <1>9 DEF gated, chosen

(***************************** the verdicts *******************************)
\* The texts of a reply have lengths.
Readable(reply) ==
  /\ IsList(reply.fields) /\ IsList(reply.raw)
  /\ \A k \in DOMAIN reply.fields : IsList(reply.fields[k])

LEMMA SourcesAreLists ==
  ASSUME NEW reply, Readable(reply)
  PROVE  /\ DOMAIN Sources(reply) \subseteq Nat
         /\ \A s \in DOMAIN Sources(reply) : Len(Sources(reply)[s]) \in Nat
<1>1. DOMAIN reply.fields \subseteq Nat /\ Len(reply.raw) \in Nat
  BY DEF Readable, IsList
<1>2. \A k \in DOMAIN reply.fields : Len(reply.fields[k]) \in Nat
  BY DEF Readable, IsList
<1>. DEFINE held == {n \in DOMAIN reply.fields : reply.fields[n] # <<>>}
<1>3. CASE held # {}
  <2>1. Sources(reply) = [n \in held |-> reply.fields[n]]
    BY <1>3 DEF Sources
  <2>. QED BY <1>1, <1>2, <2>1
<1>4. CASE held = {}
  <2>1. Sources(reply) = <<reply.raw>>
    BY <1>4 DEF Sources
  <2>. QED BY <1>1, <2>1
<1>. QED BY <1>3, <1>4

LEMMA VerdictPlaces ==
  ASSUME NEW reply, Readable(reply), NEW v \in Verdicts(reply)
  PROVE  v[1] \in Nat /\ v[2] \in Nat
<1>1. PICK s \in DOMAIN Sources(reply) :
        v \in {<<s, object[1], Selected(Sources(reply)[s], object)>> :
                 object \in Objects(Sources(reply)[s])}
  BY DEF Verdicts
<1>2. PICK object \in Objects(Sources(reply)[s]) :
        v = <<s, object[1], Selected(Sources(reply)[s], object)>>
  BY <1>1
<1>3. object \in (1 .. Len(Sources(reply)[s])) \X (1 .. Len(Sources(reply)[s]))
  BY <1>2 DEF Objects
<1>4. s \in Nat /\ object[1] \in Nat
  BY <1>3, SourcesAreLists
<1>. QED BY <1>2, <1>4

\* There is a first verdict among those accepted.
LEMMA FirstVerdict ==
  ASSUME NEW reply, Readable(reply), NEW A \in SUBSET Verdicts(reply), A # {}
  PROVE  \E v \in A : \A w \in A : v[1] < w[1] \/ (v[1] = w[1] /\ v[2] <= w[2])
<1>1. \A v \in A : v[1] \in Nat /\ v[2] \in Nat
  BY VerdictPlaces
<1>. DEFINE S == {v[1] : v \in A}
<1>2. S \in SUBSET Nat /\ S # {}
  BY <1>1
<1>. HIDE DEF S
<1>3. PICK s \in S : \A t \in S : s <= t
  BY <1>2, Least
<1>. DEFINE B == {v \in A : v[1] = s}
            P == {v[2] : v \in B}
<1>4. P \in SUBSET Nat /\ P # {}
  BY <1>1 DEF S
<1>. HIDE DEF P
<1>5. PICK p \in P : \A q \in P : p <= q
  BY <1>4, Least
<1>6. PICK v \in B : v[2] = p
  BY DEF P
<1>7. ASSUME NEW w \in A PROVE v[1] < w[1] \/ (v[1] = w[1] /\ v[2] <= w[2])
  <2>1. w[1] \in S /\ w[1] \in Nat /\ s \in Nat /\ v[1] = s
    BY <1>1, <1>2, <1>6 DEF S
  <2>2. s <= w[1]
    BY <1>3, <2>1
  <2>3. w[1] = s => p <= w[2]
    BY <1>5 DEF P
  <2>. QED BY <1>6, <2>1, <2>2, <2>3
<1>. QED BY <1>6, <1>7

\* The model a reply names is the last complete one of its name, and usable.
LEMMA ParsedIsUsable ==
  ASSUME NEW reply, Readable(reply), NEW models, NEW offer,
         NEW b \in Nat, DOMAIN models = 1 .. b, ParseVerdict(reply, models, offer) # 0
  PROVE  ParseVerdict(reply, models, offer) \in Usable(models, offer)
<1>. DEFINE A == Accepted(reply, models, offer)
            first == CHOOSE v \in A : \A w \in A : v[1] < w[1] \/ (v[1] = w[1] /\ v[2] <= w[2])
            n == LastConfigured(models, first[3])
<1>1. A # {} /\ ParseVerdict(reply, models, offer) = n
  BY DEF ParseVerdict
<1>2. A \in SUBSET Verdicts(reply)
  BY DEF Accepted
<1>3. \E v \in A : \A w \in A : v[1] < w[1] \/ (v[1] = w[1] /\ v[2] <= w[2])
  BY <1>1, <1>2, FirstVerdict
<1>4. first \in A
  BY <1>3
<1>. HIDE DEF first
<1>5. /\ Configured(models, first[3]) # {}
      /\ ProviderAvailable(models[n].provider, offer)
  BY <1>4 DEF Accepted
<1>6. Configured(models, first[3]) \in SUBSET (1 .. b)
  BY DEF Configured
<1>7. \E k \in Configured(models, first[3]) : \A j \in Configured(models, first[3]) : j <= k
  BY <1>5, <1>6, Greatest
<1>8. n \in Configured(models, first[3])
  BY <1>7 DEF LastConfigured
<1>. HIDE DEF n
<1>9. n \in DOMAIN models /\ Complete(models[n])
  BY <1>8 DEF Configured
<1>10. Reachable(models[n].provider, offer)
  BY <1>5 DEF ProviderAvailable, Reachable, AvailableSet
<1>. QED BY <1>1, <1>9, <1>10 DEF Usable

\* What the preference puts in the place of a pick is a usable rival, or the pick.
LEMMA TiebreakPicks ==
  ASSUME NEW models, DOMAIN models \subseteq Nat, NEW offer, NEW preference, NEW chosen
  PROVE  LET n == PreferenceTiebreak(chosen, models, offer, preference)
         IN  n = chosen \/ (n \in Usable(models, offer) /\ Rival(models[n], models[chosen], preference))
<1>. DEFINE rivals == {n \in Usable(models, offer) : Rival(models[n], models[chosen], preference)}
            Beats(n, k) == Rival(models[n], models[k], preference)
<1>1. rivals \in SUBSET Nat
  BY DEF Usable
<1>2. \A n \in rivals : /\ CostRank(models[n].cost) \in 0 .. 3
                        /\ QualityRank(models[n].quality) \in 0 .. 3
  BY Ranks
<1>3. ASSUME rivals # {}
      PROVE  \E n \in rivals : \A k \in rivals : ~ Beats(k, n) /\ (Beats(n, k) \/ n <= k)
  <2>1. CASE preference = "quality"
    <3>1. [n \in rivals |-> 3 - QualityRank(models[n].quality)] \in [rivals -> Nat]
      BY <1>2
    <3>2. \A n, k \in rivals : Beats(n, k) <=>
            QualityRank(models[n].quality) > QualityRank(models[k].quality)
      BY <2>1 DEF Rival
    <3>. HIDE DEF rivals, Beats
    <3>3. PICK f \in [rivals -> Nat] : \A n \in rivals : f[n] = 3 - QualityRank(models[n].quality)
      BY <3>1
    <3>4. PICK n \in rivals : \A k \in rivals : f[n] < f[k] \/ (f[n] = f[k] /\ n <= k)
      BY <1>1, <1>3, LeastBy
    <3>5. ASSUME NEW k \in rivals PROVE ~ Beats(k, n) /\ (Beats(n, k) \/ n <= k)
      BY <1>2, <3>2, <3>3, <3>4
    <3>. QED BY <3>5
  <2>2. CASE preference # "quality"
    <3>1. [n \in rivals |-> CostRank(models[n].cost)] \in [rivals -> Nat]
      BY <1>2
    <3>2. \A n, k \in rivals : Beats(n, k) <=>
            CostRank(models[n].cost) < CostRank(models[k].cost)
      BY <2>2 DEF Rival
    <3>. HIDE DEF rivals, Beats
    <3>3. PICK f \in [rivals -> Nat] : \A n \in rivals : f[n] = CostRank(models[n].cost)
      BY <3>1
    <3>4. PICK n \in rivals : \A k \in rivals : f[n] < f[k] \/ (f[n] = f[k] /\ n <= k)
      BY <1>1, <1>3, LeastBy
    <3>5. ASSUME NEW k \in rivals PROVE ~ Beats(k, n) /\ (Beats(n, k) \/ n <= k)
      BY <1>2, <3>2, <3>3, <3>4
    <3>. QED BY <3>5
  <2>. QED BY <2>1, <2>2
<1>4. CASE rivals = {}
  BY <1>4 DEF PreferenceTiebreak
<1>5. CASE rivals # {}
  <2>1. PreferenceTiebreak(chosen, models, offer, preference) \in rivals
    BY <1>3, <1>5 DEF PreferenceTiebreak
  <2>. QED BY <2>1
<1>. QED BY <1>4, <1>5

LEMMA PromotedPicks ==
  ASSUME NEW models, DOMAIN models \subseteq Nat, NEW offer, NEW preference, NEW chosen
  PROVE  LET n == Promoted(chosen, models, offer, preference)
         IN  n = chosen \/ (n \in Usable(models, offer) /\ Rival(models[n], models[chosen], preference))
BY TiebreakPicks DEF Promoted

\* The scan is what its recursive definition says.
LEMMA ScanSteps ==
  ASSUME NEW text, Len(text) \in Nat, NEW start \in 1 .. Len(text)
  PROVE  /\ Scan(text, start)[start - 1] = Outside
         /\ \A k \in start .. Len(text) :
              Scan(text, start)[k] = Advance(Scan(text, start)[k - 1], text[k])
<1>. DEFINE E(g, k) == IF k < start THEN Outside ELSE Advance(g[k - 1], text[k])
            Scans(g, m) == g = [k \in start - 1 .. m |-> E(g, k)]
            bad == {m \in Nat : m >= start - 1 /\ ~ \E g : Scans(g, m)}
<1>1. bad = {}
  <2>. SUFFICES ASSUME bad # {} PROVE FALSE
    OBVIOUS
  <2>1. bad \in SUBSET Nat
    OBVIOUS
  <2>2. PICK m \in bad : \A n \in bad : m <= n
    <3>. HIDE DEF bad
    <3>. QED BY <2>1, Least
  <2>3. m \in Nat /\ m >= start - 1 /\ ~ \E g : Scans(g, m)
    OBVIOUS
  <2>4. CASE m = start - 1
    <3>. DEFINE g == [k \in start - 1 .. m |-> Outside]
    <3>1. \A k \in start - 1 .. m : E(g, k) = Outside
      BY <2>3, <2>4
    <3>2. Scans(g, m)
      BY <3>1
    <3>. QED BY <2>3, <3>2
  <2>5. CASE m # start - 1
    <3>1. m - 1 \in Nat /\ m - 1 >= start - 1 /\ ~ (m <= m - 1)
      BY <2>3, <2>5
    <3>2. PICK g : Scans(g, m - 1)
      <4>1. m - 1 \notin bad
        <5>. HIDE DEF bad
        <5>. QED BY <2>2, <3>1
      <4>. HIDE DEF Scans
      <4>. QED BY <3>1, <4>1
    <3>. DEFINE h == [k \in start - 1 .. m |-> IF k < m THEN g[k] ELSE Advance(g[m - 1], text[m])]
    <3>3. ASSUME NEW k \in start - 1 .. m PROVE h[k] = E(h, k)
      <4>1. CASE k = m
        <5>1. m - 1 \in start - 1 .. m /\ ~ (m < start) /\ m - 1 < m
          BY <2>3, <2>5
        <5>2. h[m - 1] = g[m - 1]
          BY <5>1
        <5>. QED BY <4>1, <5>1, <5>2
      <4>2. CASE k # m
        <5>1. k \in start - 1 .. m - 1 /\ k < m
          BY <2>3, <4>2
        <5>2. h[k] = g[k]
          BY <5>1
        <5>3. g[k] = E(g, k)
          BY <3>2, <5>1
        <5>4. CASE k < start
          BY <5>2, <5>3, <5>4
        <5>5. CASE ~ (k < start)
          <6>1. k - 1 \in start - 1 .. m /\ k - 1 < m
            BY <2>3, <5>1, <5>5
          <6>2. h[k - 1] = g[k - 1]
            BY <6>1
          <6>. QED BY <5>2, <5>3, <5>5, <6>2
        <5>. QED BY <5>4, <5>5
      <4>. QED BY <4>1, <4>2
    <3>4. Scans(h, m)
      <4>. DEFINE e == [k \in start - 1 .. m |-> E(h, k)]
      <4>1. \A k \in start - 1 .. m : h[k] = e[k]
        BY <3>3
      <4>2. h = e
        BY <4>1
      <4>. QED BY <4>2
    <3>. QED BY <2>3, <3>4
  <2>. QED BY <2>4, <2>5
<1>2. PICK g : Scans(g, Len(text))
  BY <1>1
<1>3. Scan(text, start) = [k \in start - 1 .. Len(text) |-> E(Scan(text, start), k)]
  BY <1>2 DEF Scan
<1>4. \A k \in start - 1 .. Len(text) : Scan(text, start)[k] = E(Scan(text, start), k)
  BY <1>3
<1>5. Scan(text, start)[start - 1] = Outside
  BY <1>4
<1>6. ASSUME NEW k \in start .. Len(text)
      PROVE  Scan(text, start)[k] = Advance(Scan(text, start)[k - 1], text[k])
  <2>1. k \in start - 1 .. Len(text) /\ ~ (k < start)
    OBVIOUS
  <2>. QED BY <1>4, <2>1
<1>. QED BY <1>5, <1>6

Opened == [Outside EXCEPT !.depth = 1]

LEMMA Braces ==
  /\ Opened.depth = 1 /\ Opened.quoted = FALSE /\ Opened.escaped = FALSE
  /\ Advance(Outside, "open") = Opened
  /\ Advance(Opened, "close").depth = 0
<1>1. /\ Outside.escaped = FALSE /\ Outside.quoted = FALSE /\ Outside.depth = 0
      /\ Opened.escaped = FALSE /\ Opened.quoted = FALSE /\ Opened.depth = 1
  BY DEF Outside, Opened
<1>2. Advance(Outside, "open") = Opened
  <2>1. Advance(Outside, "open") = [Outside EXCEPT !.depth = @ + 1]
    BY <1>1, SMT DEF Advance
  <2>2. Outside.depth + 1 = 1
    BY <1>1
  <2>. QED BY <2>1, <2>2 DEF Opened
<1>3. Advance(Opened, "close").depth = 0
  <2>1. Advance(Opened, "close") = [Opened EXCEPT !.depth = @ - 1]
    BY <1>1, SMT DEF Advance
  <2>2. [Opened EXCEPT !.depth = @ - 1].depth = Opened.depth - 1
    BY DEF Opened, Outside
  <2>3. Opened.depth - 1 = 0
    BY <1>1
  <2>. QED BY <2>1, <2>2, <2>3, Zenon
<1>. QED BY <1>1, <1>2, <1>3

\* A complete object that names a model stands for it, whatever stands around it.
LEMMA CompleteVerdict ==
  ASSUME NEW text, Len(text) \in Nat, NEW n \in Nat, n >= 1, n + 2 <= Len(text),
         text[n] = "open", text[n + 2] = "close", text[n + 1] \notin Punctuation
  PROVE  <<n, n + 2>> \in Objects(text) /\ Selected(text, <<n, n + 2>>) = text[n + 1]
<1>. DEFINE scan == Scan(text, n)
<1>1. /\ n \in 1 .. Len(text) /\ n + 1 \in n .. Len(text) /\ n + 2 \in n .. Len(text)
      /\ n \in n .. Len(text) /\ (n + 1) - 1 = n /\ (n + 2) - 1 = n + 1
  OBVIOUS
<1>2. /\ scan[n - 1] = Outside
      /\ \A k \in n .. Len(text) : scan[k] = Advance(scan[k - 1], text[k])
  BY <1>1, ScanSteps
<1>. HIDE DEF scan
<1>3. scan[n] = Opened
  <2>1. scan[n] = Advance(Outside, "open")
    BY <1>1, <1>2
  <2>. QED BY <2>1, Braces
<1>4. scan[n + 1] = Opened
  <2>1. scan[n + 1] = Advance(Opened, text[n + 1])
    BY <1>1, <1>2, <1>3
  <2>2. text[n + 1] \notin {"open", "close", "quote", "escape"}
    BY DEF Punctuation
  <2>. QED BY <2>1, <2>2, Braces DEF Advance
<1>5. scan[n + 2].depth = 0
  <2>1. scan[n + 2] = Advance(Opened, "close")
    BY <1>1, <1>2, <1>4
  <2>. QED BY <2>1, Braces
<1>. DEFINE object == <<n, n + 2>>
<1>6. object[1] = n /\ object[2] = n + 2 /\ object \in (1 .. Len(text)) \X (1 .. Len(text))
  BY <1>1
<1>. HIDE DEF object
<1>7. object \in Objects(text)
  <2>1. \A k \in n .. (n + 2) - 1 : k = n \/ k = n + 1
    OBVIOUS
  <2>2. \A k \in n .. (n + 2) - 1 : scan[k].depth > 0
    BY <1>3, <1>4, <2>1, Braces
  <2>. QED BY <1>5, <1>6, <2>2 DEF Objects, scan
<1>8. Selected(text, object) = text[n + 1]
  <2>. DEFINE bare == {k \in object[1] .. object[2] : ~scan[k].quoted /\ text[k] # "quote"}
              named == {k \in bare : scan[k].depth = 1 /\ text[k] \notin Punctuation}
  <2>1. \A k \in object[1] .. object[2] : k = n \/ k = n + 1 \/ k = n + 2
    BY <1>6
  <2>2. n + 1 \in object[1] .. object[2]
    BY <1>6
  <2>3. n + 1 \in named
    BY <1>4, <2>2, Braces DEF Punctuation
  <2>4. \A k \in named : k = n + 1
    BY <2>1 DEF Punctuation
  <2>5. \A k \in bare : text[k] \notin {"prose", "escape"}
    BY <2>1 DEF Punctuation
  <2>6. named = {n + 1}
    BY <2>3, <2>4
  <2>7. Selected(text, object) =
          IF named = {} \/ (\E k \in bare : text[k] \in {"prose", "escape"}) THEN ""
          ELSE text[CHOOSE k \in named : \A j \in named : j <= k]
    BY <1>6 DEF Selected, scan
  <2>. HIDE DEF named, bare
  <2>8. (CHOOSE k \in named : \A j \in named : j <= k) = n + 1
    BY <2>6
  <2>. QED BY <2>5, <2>6, <2>7, <2>8
<1>. QED BY <1>7, <1>8 DEF object

\* What is accepted once is found.
LEMMA AcceptedIsParsed ==
  ASSUME NEW reply, Readable(reply), NEW models, NEW offer,
         NEW b \in Nat, DOMAIN models = 1 .. b, Accepted(reply, models, offer) # {}
  PROVE  ParseVerdict(reply, models, offer) # 0
<1>. DEFINE A == Accepted(reply, models, offer)
            first == CHOOSE v \in A : \A w \in A : v[1] < w[1] \/ (v[1] = w[1] /\ v[2] <= w[2])
            n == LastConfigured(models, first[3])
<1>1. ParseVerdict(reply, models, offer) = n
  BY DEF ParseVerdict
<1>2. A \in SUBSET Verdicts(reply)
  BY DEF Accepted
<1>3. \E v \in A : \A w \in A : v[1] < w[1] \/ (v[1] = w[1] /\ v[2] <= w[2])
  BY <1>2, FirstVerdict
<1>4. first \in A
  BY <1>3
<1>. HIDE DEF first
<1>5. Configured(models, first[3]) # {} /\ Configured(models, first[3]) \in SUBSET (1 .. b)
  BY <1>4 DEF Accepted, Configured
<1>6. \E k \in Configured(models, first[3]) : \A j \in Configured(models, first[3]) : j <= k
  BY <1>5, Greatest
<1>7. n \in Configured(models, first[3])
  BY <1>6 DEF LastConfigured
<1>. HIDE DEF n
<1>. QED BY <1>1, <1>5, <1>7

(************************ the state of a decision *************************)
\* What is given to a call, and stays.
Given ==
  /\ rules \in Seq(Rules) /\ candidates \in Seq(Candidates)
  /\ available = AvailableSet(call.offer)
  /\ call.attempts \in Nat
  /\ IsList(call.classifiers) /\ IsList(call.replies) /\ Len(call.classifiers) <= Len(call.replies)
  /\ \A n \in 1 .. Len(call.replies) : Readable(call.replies[n])

Fails(n) == call.replies[n].failed \/ ParseVerdict(call.replies[n], Models, call.offer) = 0

\* Why nobody but the local choice is left to decide.
NobodyElse ==
  \/ call.strategy = "capability"
  \/ call.strategy = "decision_engine" /\ phase = "done" /\ forwarded = NoTarget
  \/ call.strategy \in {"llm", "hybrid"} /\ \A n \in 1 .. MaxAttempts : Fails(n)

\* Who decided, on what.
Decider ==
  CASE entry.by = "local_confident" -> LocalChoice # 0 /\ entry.target = candidates[LocalChoice]
    [] entry.by = "classifier" ->
         /\ attempt \in 1 .. Len(call.replies)
         /\ ~ Fails(attempt)
         /\ entry.target = candidates[Promoted(ParseVerdict(call.replies[attempt], Models, call.offer),
                                               Models, call.offer, call.preference)]
    [] entry.by = "engine" -> phase = "done" /\ forwarded # NoTarget /\ entry.target = forwarded
    [] entry.by = "local" -> LocalChoice # 0 /\ entry.target = candidates[LocalChoice]
    [] entry.by = "nobody" -> LocalChoice = 0 /\ entry.target = NoTarget /\ NobodyElse
    [] OTHER -> FALSE

CallInv ==
  /\ Given
  /\ stage \in {"start", "classify", "engine", "local", "done"}
  /\ attempt \in 0 .. MaxAttempts
  /\ stage = "start" => attempt = 0
  /\ stage = "classify" => /\ call.strategy \in {"llm", "hybrid"}
                           /\ \A n \in 1 .. attempt : Fails(n)
  /\ stage = "engine" => call.strategy = "decision_engine"
  /\ stage = "local" => NobodyElse
  /\ IF stage = "done" THEN Decider ELSE entry = Undecided

LEMMA AttemptsBounded ==
  ASSUME Given
  PROVE  /\ MaxAttempts \in Nat /\ MaxAttempts <= Len(call.replies)
         /\ Len(call.replies) \in Nat /\ DOMAIN call.replies = 1 .. Len(call.replies)
<1>1. Len(call.classifiers) \in Nat /\ Len(call.replies) \in Nat
      /\ DOMAIN call.replies = 1 .. Len(call.replies)
  BY ListIsSequence DEF Given
<1>. QED BY <1>1 DEF Given, MaxAttempts

\* What is computed from what is given stays too.
LEMMA SameCall ==
  ASSUME rules' = rules, candidates' = candidates, available' = available, call' = call
  PROVE  /\ Given' <=> Given
         /\ Models' = Models /\ LocalChoice' = LocalChoice /\ MaxAttempts' = MaxAttempts
         /\ \A n : Fails(n)' <=> Fails(n)
<1>1. Given' <=> Given
  BY DEF Given
<1>2. Models' = Models
  BY DEF Models
<1>3. Prompt' = Prompt
  BY DEF Prompt
<1>4. LocalChoice' = LocalChoice
  BY <1>2, <1>3 DEF LocalChoice
<1>5. MaxAttempts' = MaxAttempts
  BY DEF MaxAttempts
<1>6. \A n : Fails(n)' <=> Fails(n)
  BY <1>2 DEF Fails
<1>. QED BY <1>1, <1>2, <1>4, <1>5, <1>6

(********************** it runs the decision engine ***********************)
LEMMA InitEngine == CallInit => Init /\ CallInv
<1>. SUFFICES ASSUME CallInit PROVE Init /\ CallInv
  OBVIOUS
<1>1. PICK c \in Calls :
        /\ call \in [enabled : c.enabled, strategy : c.strategies, preference : c.preferences,
                     traits : c.traits, request : c.requests, cached : c.cached, offer : c.offers,
                     classifiers : c.classifiers, attempts : c.attempts, replies : c.replies]
        /\ \E l \in Languages(Context(call.request)) : facts = FactsOf(call.request, l)
        /\ candidates \in c.candidates
        /\ rules \in c.rules
  BY DEF CallInit
<1>2. rules \in ListsUpTo(Rules, MaxRules) /\ candidates \in ListsUpTo(Candidates, MaxCandidates)
  BY <1>1, CallsAssumption
<1>3. call.offer \in c.offers /\ call.classifiers \in c.classifiers /\ call.replies \in c.replies
      /\ call.attempts \in c.attempts
  BY <1>1
<1>4. available \in AvailSets /\ available = AvailableSet(call.offer)
  BY <1>1, <1>3, CallsAssumption DEF CallInit
<1>5. facts \in SUBSET Conditions
  BY <1>1 DEF FactsOf
<1>6. Init
  BY <1>2, <1>4, <1>5 DEF CallInit, Init
<1>7. rules \in Seq(Rules) /\ candidates \in Seq(Candidates)
  BY <1>2, PolicyAssumption DEF ListsUpTo
<1>8. /\ call.attempts \in Nat /\ IsList(call.classifiers) /\ IsList(call.replies)
      /\ Len(call.classifiers) <= Len(call.replies)
      /\ \A n \in 1 .. Len(call.replies) : Readable(call.replies[n])
  BY <1>1, <1>3, CallsAssumption DEF Readable
<1>9. Given
  BY <1>4, <1>7, <1>8 DEF Given
<1>10. CallInv
  BY <1>9, AttemptsBounded DEF CallInit, CallInv
<1>. QED BY <1>6, <1>10

\* Every step of a decision is a step of the engine or none.
LEMMA StepEngine == [CallNext]_callVars => [Next]_vars
BY DEF CallNext, callVars, Capability, Confident, Consult, ConsultEngine, Attempting,
       ClassifierFails, ClassifierDecides, Exhausted, Engine, EngineDecides, EngineAbstains,
       Local, Enter

\* A decision changes nothing that is given to it.
LEMMA StepGiven ==
  ASSUME [CallNext]_callVars
  PROVE  rules' = rules /\ candidates' = candidates /\ available' = available /\ call' = call
<1>1. [Next]_vars => UNCHANGED given
  BY DEF Next, Skip, Collect, Sort, Dedup, Forward, vars
<1>2. UNCHANGED given
  BY <1>1, StepEngine
<1>3. call' = call
  BY DEF CallNext, callVars, Capability, Confident, Consult, ConsultEngine, Attempting,
       ClassifierFails, ClassifierDecides, Exhausted, Engine, EngineDecides, EngineAbstains,
       Local, Enter
<1>. QED BY <1>2, <1>3 DEF given

LEMMA StepCallInv == CallInv /\ [CallNext]_callVars => CallInv'
<1>. SUFFICES ASSUME CallInv, [CallNext]_callVars PROVE CallInv'
  OBVIOUS
<1>1. rules' = rules /\ candidates' = candidates /\ available' = available /\ call' = call
  BY StepGiven
<1>2. /\ Given' /\ Given
      /\ Models' = Models /\ LocalChoice' = LocalChoice /\ MaxAttempts' = MaxAttempts
      /\ \A n : Fails(n)' <=> Fails(n)
  BY <1>1, SameCall DEF CallInv
<1>3. MaxAttempts \in Nat /\ MaxAttempts <= Len(call.replies)
  BY <1>2, AttemptsBounded
<1>4. CASE Capability
  BY <1>1, <1>2, <1>3, <1>4 DEF Capability, Enter, CallInv, NobodyElse, Undecided
<1>5. CASE Confident
  <2>1. LocalChoice # 0
    BY <1>5 DEF Confident, LocalConfident
  <2>2. /\ entry' = [target |-> candidates[LocalChoice], by |-> "local_confident"] /\ stage' = "done"
        /\ attempt' = attempt
    BY <1>5 DEF Confident, AnswerModel, Answer
  <2>3. Decider'
    BY <1>1, <1>2, <2>1, <2>2 DEF Decider
  <2>. QED BY <1>1, <1>2, <2>2, <2>3 DEF CallInv
<1>6. CASE Consult
  <2>1. /\ stage = "start" /\ stage' = "classify" /\ attempt' = attempt /\ entry' = entry
        /\ call.strategy \in {"llm", "hybrid"}
    BY <1>6 DEF Consult, Enter
  <2>2. \A n \in 1 .. attempt : Fails(n)
    BY <2>1 DEF CallInv
  <2>. QED BY <1>1, <1>2, <2>1, <2>2 DEF CallInv, Undecided
<1>7. CASE ConsultEngine
  BY <1>1, <1>2, <1>3, <1>7 DEF ConsultEngine, Enter, CallInv, Undecided
<1>8. CASE ClassifierFails
  <2>1. /\ stage = "classify" /\ stage' = "classify" /\ entry' = entry /\ attempt' = attempt + 1
        /\ attempt < MaxAttempts
    BY <1>8 DEF ClassifierFails, Attempting
  <2>2. Fails(attempt + 1)
    BY <1>8 DEF ClassifierFails, ReplyVerdict, Fails
  <2>3. attempt' \in 0 .. MaxAttempts
    BY <1>3, <2>1 DEF CallInv
  <2>4. \A n \in 1 .. attempt' : Fails(n)
    BY <1>3, <2>1, <2>2 DEF CallInv
  <2>. QED BY <1>1, <1>2, <2>1, <2>3, <2>4 DEF CallInv, Undecided
<1>9. CASE ClassifierDecides
  <2>. DEFINE v == ParseVerdict(call.replies[attempt + 1], Models, call.offer)
  <2>1. /\ stage = "classify" /\ stage' = "done" /\ attempt' = attempt + 1
        /\ attempt < MaxAttempts
    BY <1>9 DEF ClassifierDecides, Attempting, AnswerModel, Answer
  <2>2. /\ ~ Fails(attempt + 1) /\ ReplyVerdict = v
    BY <1>9 DEF ClassifierDecides, ReplyVerdict, Fails
  <2>3. entry' = [target |-> candidates[Promoted(v, Models, call.offer, call.preference)],
                  by |-> "classifier"]
    BY <1>9, <2>2 DEF ClassifierDecides, AnswerModel, Answer
  <2>4. attempt' \in 1 .. MaxAttempts
    BY <1>3, <2>1 DEF CallInv
  <2>5. attempt' \in 1 .. Len(call.replies)
    BY <1>2, <1>3, <2>4 DEF Given
  <2>6. Decider'
    BY <1>1, <1>2, <2>1, <2>2, <2>3, <2>5 DEF Decider
  <2>. QED BY <1>1, <1>2, <2>1, <2>4, <2>6 DEF CallInv
<1>10. CASE Exhausted
  BY <1>1, <1>2, <1>3, <1>10 DEF Exhausted, Enter, CallInv, NobodyElse, Undecided
<1>11. CASE Engine
  BY <1>1, <1>2, <1>3, <1>11 DEF Engine, steps, CallInv, Undecided
<1>12. CASE EngineDecides
  <2>1. /\ entry' = [target |-> forwarded, by |-> "engine"] /\ stage' = "done"
        /\ attempt' = attempt /\ phase = "done" /\ forwarded # NoTarget
        /\ phase' = phase /\ forwarded' = forwarded
    BY <1>12 DEF EngineDecides, Answer, vars
  <2>2. Decider'
    BY <1>1, <2>1 DEF Decider
  <2>. QED BY <1>1, <1>2, <2>1, <2>2 DEF CallInv
<1>13. CASE EngineAbstains
  BY <1>1, <1>2, <1>3, <1>13 DEF EngineAbstains, Enter, vars, CallInv, NobodyElse, Undecided
<1>14. CASE Local
  <2>1. stage = "local" /\ stage' = "done" /\ attempt' = attempt
        /\ phase' = phase /\ forwarded' = forwarded
    BY <1>14 DEF Local, AnswerModel, Answer, vars
  <2>2. NobodyElse
    BY <2>1 DEF CallInv
  <2>3. NobodyElse'
    BY <1>1, <1>2, <2>1, <2>2 DEF NobodyElse
  <2>4. CASE LocalChoice = 0
    <3>1. entry' = [target |-> NoTarget, by |-> "nobody"]
      BY <1>14, <2>4 DEF Local, Answer
    <3>2. Decider'
      BY <1>1, <1>2, <2>3, <2>4, <3>1 DEF Decider
    <3>. QED BY <1>1, <1>2, <2>1, <3>2 DEF CallInv
  <2>5. CASE LocalChoice # 0
    <3>1. entry' = [target |-> candidates[LocalChoice], by |-> "local"]
      BY <1>14, <2>5 DEF Local, AnswerModel, Answer
    <3>2. Decider'
      BY <1>1, <1>2, <2>5, <3>1 DEF Decider
    <3>. QED BY <1>1, <1>2, <2>1, <3>2 DEF CallInv
  <2>. QED BY <2>4, <2>5
<1>15. CASE UNCHANGED callVars
  <2>1. /\ stage' = stage /\ attempt' = attempt /\ entry' = entry
        /\ phase' = phase /\ forwarded' = forwarded
    BY <1>15 DEF callVars, steps, vars
  <2>2. NobodyElse' <=> NobodyElse
    BY <1>1, <1>2, <2>1 DEF NobodyElse
  <2>3. Decider' <=> Decider
    BY <1>1, <1>2, <2>1, <2>2 DEF Decider
  <2>. QED BY <1>1, <1>2, <2>1, <2>2, <2>3 DEF CallInv, Undecided
<1>. QED BY <1>4, <1>5, <1>6, <1>7, <1>8, <1>9, <1>10, <1>11, <1>12, <1>13, <1>14, <1>15 DEF CallNext

LEMMA CallInvariant == CallSpec => [](CallInv /\ IInv)
<1>1. CallInit => CallInv /\ IInv
  BY InitEngine, InitIInv
<1>2. CallInv /\ IInv /\ [CallNext]_callVars => (CallInv /\ IInv)'
  BY StepCallInv, StepEngine, StepIInv
<1>. QED BY <1>1, <1>2, PTL DEF CallSpec

(******************************* theorems **********************************)
\* However a decision comes about, it runs the rules as PolicyEngine does: what holds
\* of every evaluation holds of the one inside a call (decisionEngineRoute).
THEOREM RunsTheEngine == CallSpec => Spec
<1>1. CallInit => Init
  BY InitEngine
<1>. QED BY <1>1, StepEngine, PTL DEF CallSpec, Spec

\* The candidates and the models are the same, in what a target is.
LEMMA CandidatesOfGiven ==
  ASSUME Given
  PROVE  /\ DOMAIN candidates = 1 .. Len(candidates) /\ Len(candidates) \in Nat
         /\ DOMAIN Models = 1 .. Len(candidates) /\ DOMAIN candidates \subseteq Nat \ {0}
         /\ \A n \in DOMAIN candidates : candidates[n] \in Candidates
         /\ \A n \in DOMAIN Models : Complete(Models[n]) <=> Valid(candidates[n])
         /\ \A n \in DOMAIN Models : Reachable(Models[n].provider, call.offer) <=> Offered(candidates[n])
<1>1. DOMAIN candidates = 1 .. Len(candidates) /\ Len(candidates) \in Nat
      /\ \A n \in DOMAIN candidates : candidates[n] \in Candidates
  BY DEF Given
<1>2. DOMAIN Models = DOMAIN candidates
      /\ \A n \in DOMAIN candidates : Models[n].provider = candidates[n].provider
                                      /\ Models[n].model = candidates[n].model
  BY DEF Models
<1>3. \A n \in DOMAIN Models : Complete(Models[n]) <=> Valid(candidates[n])
  BY <1>2, CallsAssumption DEF Complete, Valid
<1>4. \A n \in DOMAIN Models : Reachable(Models[n].provider, call.offer) <=> Offered(candidates[n])
  BY <1>2 DEF Reachable, Offered, Given
<1>. QED BY <1>1, <1>2, <1>3, <1>4

\* The pick of a classifier, and what the preference makes of it.
LEMMA PickUsable ==
  ASSUME CallInv, entry.by = "classifier", stage = "done"
  PROVE  LET v == ParseVerdict(call.replies[attempt], Models, call.offer)
             n == Promoted(v, Models, call.offer, call.preference)
         IN  /\ entry.target = candidates[n]
             /\ v \in Usable(Models, call.offer) /\ n \in Usable(Models, call.offer)
             /\ n = v \/ Rival(Models[n], Models[v], call.preference)
<1>. DEFINE v == ParseVerdict(call.replies[attempt], Models, call.offer)
            n == Promoted(v, Models, call.offer, call.preference)
<1>1. attempt \in 1 .. Len(call.replies) /\ ~ Fails(attempt) /\ entry.target = candidates[n]
  BY DEF CallInv, Decider
<1>2. Readable(call.replies[attempt]) /\ v # 0
  BY <1>1 DEF Fails, CallInv, Given
<1>3. DOMAIN Models = 1 .. Len(candidates) /\ Len(candidates) \in Nat
  BY CandidatesOfGiven DEF CallInv
<1>4. v \in Usable(Models, call.offer)
  BY <1>2, <1>3, ParsedIsUsable
<1>. HIDE DEF v
<1>5. n = v \/ (n \in Usable(Models, call.offer) /\ Rival(Models[n], Models[v], call.preference))
  BY <1>3, PromotedPicks
<1>. QED BY <1>1, <1>4, <1>5 DEF v

\* For every configuration, request, offer and reply, whatever answers a call names a
\* configured, complete model at a provider the host offers (routeModel, classifyRoute,
\* decisionEngineRoute).
THEOREM DecisionsAmongOffered == CallSpec => []DecidesAmongOffered
<1>1. CallInv /\ IInv => DecidesAmongOffered
  <2>. SUFFICES ASSUME CallInv, IInv, stage = "done", entry.target # NoTarget
                PROVE  \E n \in Usable(Models, call.offer) : candidates[n] = entry.target
    BY DEF DecidesAmongOffered, Answered
  <2>1. Given /\ Decider
    BY DEF CallInv
  <2>2. CASE entry.by \in {"local_confident", "local"}
    <3>1. LocalChoice # 0 /\ entry.target = candidates[LocalChoice]
      BY <2>1, <2>2 DEF Decider
    <3>2. LocalChoice \in Usable(Models, call.offer)
      BY <2>1, <3>1, CandidatesOfGiven, LocalLeads
    <3>. QED BY <3>1, <3>2
  <2>3. CASE entry.by = "classifier"
    BY <2>3, PickUsable
  <2>4. CASE entry.by = "engine"
    <3>1. phase = "done" /\ forwarded # NoTarget /\ entry.target = forwarded
      BY <2>1, <2>4 DEF Decider
    <3>2. chain # <<>> /\ forwarded = chain[1].target /\ chain \in Seq(Decisions)
      BY <3>1 DEF IInv, Done, Ended, TypeOK
    <3>3. Found(chain[1])
      BY <3>2 DEF IInv
    <3>4. PICK k \in DOMAIN candidates : candidates[k] = entry.target /\ Valid(candidates[k]) /\ Offered(candidates[k])
      BY <3>1, <3>2, <3>3 DEF Found, Allowed
    <3>5. k \in Usable(Models, call.offer)
      BY <2>1, <3>4, CandidatesOfGiven DEF Usable
    <3>. QED BY <3>4, <3>5
  <2>5. entry.by \in {"local_confident", "local", "classifier", "engine"}
    BY <2>1 DEF Decider
  <2>. QED BY <2>2, <2>3, <2>4, <2>5
<1>. QED BY <1>1, CallInvariant, PTL

\* No call goes unhandled while somebody could have decided it: not while a usable
\* model is dear enough, a rule applies, or a classifier named a model it may use.
THEOREM NobodyElseCould == CallSpec => []UnhandledOnlyWithoutCandidate
<1>1. CallInv /\ IInv /\ ChainIsExact => UnhandledOnlyWithoutCandidate
  <2>. SUFFICES ASSUME CallInv, IInv, ChainIsExact, stage = "done", entry.target = NoTarget
                PROVE  /\ call.enabled => Pool(Models, call.offer, Prompt) = {}
                       /\ call.strategy = "decision_engine" => \A n \in DOMAIN rules : ~Applies(rules[n])
                       /\ call.strategy \in {"llm", "hybrid"} => \A n \in 1 .. MaxAttempts : Fails(n)
    BY DEF UnhandledOnlyWithoutCandidate, Answered, Fails
  <2>1. Given /\ Decider
    BY DEF CallInv
  <2>2. \A n \in DOMAIN candidates : candidates[n] # NoTarget
    BY <2>1, CandidatesOfGiven, PolicyAssumption
  <2>3. Usable(Models, call.offer) \subseteq DOMAIN candidates
    BY <2>1, CandidatesOfGiven, GatedIsUsable
  <2>4. entry.by \notin {"local_confident", "local"}
    BY <2>1, <2>2, <2>3, CandidatesOfGiven, LocalLeads DEF Decider
  <2>5. entry.by # "classifier"
    BY <2>2, <2>3, PickUsable
  <2>6. LocalChoice = 0 /\ NobodyElse
    BY <2>1, <2>4, <2>5 DEF Decider
  <2>7. call.enabled => Pool(Models, call.offer, Prompt) = {}
    BY <2>1, <2>6, CandidatesOfGiven, LocalLeads
  <2>8. ASSUME call.strategy = "decision_engine" PROVE \A n \in DOMAIN rules : ~Applies(rules[n])
    <3>1. phase = "done" /\ forwarded = NoTarget
      BY <2>6, <2>8 DEF NobodyElse
    <3>2. chain = <<>>
      <4>. SUFFICES ASSUME chain # <<>> PROVE FALSE
        OBVIOUS
      <4>1. forwarded = chain[1].target /\ chain \in Seq(Decisions) /\ Found(chain[1])
        BY <3>1 DEF IInv, Done, Ended, TypeOK
      <4>. QED BY <3>1, <4>1, PolicyAssumption DEF Found, Allowed
    <3>. QED BY <3>1, <3>2 DEF ChainIsExact, Done
  <2>9. call.strategy \in {"llm", "hybrid"} => \A n \in 1 .. MaxAttempts : Fails(n)
    BY <2>6 DEF NobodyElse
  <2>. QED BY <2>7, <2>8, <2>9
<1>2. CallSpec => []ChainIsExact
  BY RunsTheEngine, ChainExact, PTL
<1>. QED BY <1>1, <1>2, CallInvariant, PTL

\* The local choice is the best of those the gate lets through, in the order of the
\* preference (ScoreCandidates).
THEOREM PreferenceOrders == CallSpec => []PreferenceOrdersGate
<1>1. CallInv => PreferenceOrdersGate
  <2>. SUFFICES ASSUME CallInv, LocalChoice # 0, NEW n \in Pool(Models, call.offer, Prompt)
                PROVE  LET chosen == Models[LocalChoice]
                           other == Models[n]
                           Cheaper == CostRank(chosen.cost) < CostRank(other.cost)
                           AsCheap == CostRank(chosen.cost) = CostRank(other.cost)
                           Finer == QualityRank(chosen.quality) > QualityRank(other.quality)
                           AsFine == QualityRank(chosen.quality) = QualityRank(other.quality)
                       IN  \/ ~Declares(other, Prompt) /\ Declares(chosen, Prompt)
                           \/ /\ Declares(other, Prompt) => Declares(chosen, Prompt)
                              /\ IF call.preference = "quality"
                                 THEN Finer \/ (AsFine /\ (Cheaper \/ (AsCheap /\ LocalChoice <= n)))
                                 ELSE Cheaper \/ (AsCheap /\ (Finer \/ (AsFine /\ LocalChoice <= n)))
    BY DEF PreferenceOrdersGate
  <2>. DEFINE gated == Gated(Models, call.offer, Prompt)
  <2>1. DOMAIN candidates \subseteq Nat \ {0} /\ DOMAIN Models \subseteq Nat
    BY CandidatesOfGiven DEF CallInv
  <2>2. LocalChoice \in gated /\ \A k \in gated : Leads(Models, call.preference, LocalChoice, k)
    BY <2>1, LocalLeads
  <2>3. n \in Nat /\ LocalChoice \in Nat
    BY <2>1, <2>2, GatedIsUsable
  <2>4. \/ n \in gated /\ (Declares(Models[n], Prompt) => Declares(Models[LocalChoice], Prompt))
        \/ ~Declares(Models[n], Prompt) /\ Declares(Models[LocalChoice], Prompt)
    BY <2>2 DEF Gated
  <2>. HIDE DEF gated
  <2>5. CASE n \in gated /\ (Declares(Models[n], Prompt) => Declares(Models[LocalChoice], Prompt))
    <3>1. Leads(Models, call.preference, LocalChoice, n)
      BY <2>2, <2>5
    <3>. QED BY <2>3, <2>5, <3>1, LeadsMeans
  <2>. QED BY <2>4, <2>5
<1>. QED BY <1>1, CallInvariant, PTL

\* Withdrawing providers that lose anyway never moves the local choice
\* (ScoreCandidates, AvailableSet).
THEOREM LosersAloneMove == CallSpec => []OnlyLosersMove
<1>1. CallInv => OnlyLosersMove
  <2>. SUFFICES ASSUME CallInv, LocalChoice # 0, NEW offer,
                       Models[LocalChoice].provider \in offer \ {""},
                       AvailableSet(call.offer) = {} \/ offer \subseteq call.offer
                PROVE  SelectCandidate(Models, offer, Prompt, call.preference) = LocalChoice
    BY DEF OnlyLosersMove
  <2>. DEFINE gated == Gated(Models, call.offer, Prompt)
              left == Gated(Models, offer, Prompt)
              before == Pool(Models, call.offer, Prompt)
              after == Pool(Models, offer, Prompt)
              other == SelectCandidate(Models, offer, Prompt, call.preference)
  <2>1. DOMAIN candidates \subseteq Nat \ {0} /\ DOMAIN Models \subseteq Nat
    BY CandidatesOfGiven DEF CallInv
  <2>2. LocalChoice \in gated /\ \A k \in gated : Leads(Models, call.preference, LocalChoice, k)
    BY <2>1, LocalLeads
  <2>3. LocalChoice \in before
    BY <2>2, GatedIsUsable
  <2>4. AvailableSet(offer) # {}
    BY DEF AvailableSet
  <2>5. \A p : Reachable(p, offer) => Reachable(p, call.offer)
    BY <2>4 DEF Reachable, AvailableSet
  <2>6. after \subseteq before
    BY <2>5 DEF Pool, Usable
  <2>7. LocalChoice \in after
    BY <2>3 DEF Pool, Usable, Reachable, AvailableSet
  <2>8. left \subseteq gated /\ LocalChoice \in left
    <3>1. CASE Declares(Models[LocalChoice], Prompt)
      BY <2>3, <2>6, <2>7, <3>1 DEF Gated
    <3>2. CASE ~ Declares(Models[LocalChoice], Prompt)
      <4>1. \A k \in before : ~ Declares(Models[k], Prompt)
        BY <2>2, <3>2 DEF Gated
      <4>. QED BY <2>6, <2>7, <4>1 DEF Gated
    <3>. QED BY <3>1, <3>2
  <2>9. other \in left /\ \A k \in left : Leads(Models, call.preference, other, k)
    BY <2>1, <2>8, SelectedLeads
  <2>10. other \in Nat /\ LocalChoice \in Nat
    BY <2>1, <2>2, <2>9, GatedIsUsable
  <2>. HIDE DEF gated, left, other
  <2>11. /\ Leads(Models, call.preference, other, LocalChoice)
         /\ Leads(Models, call.preference, LocalChoice, other)
    BY <2>2, <2>8, <2>9
  <2>12. other = LocalChoice
    BY <2>10, <2>11, OneLeader
  <2>. QED BY <2>12 DEF other
<1>. QED BY <1>1, CallInvariant, PTL

\* The preference moves a classifier's pick only to a model that costs no more, does
\* no less, and is level with it in one of the two (ApplyPreferenceTiebreak).
THEOREM TiebreakStays == CallSpec => []TiebreakStaysInTier
<1>1. CallInv => TiebreakStaysInTier
  <2>. SUFFICES ASSUME CallInv, entry.by = "classifier" PROVE TiebreakStaysInTier
    BY DEF TiebreakStaysInTier
  <2>. DEFINE v == ParseVerdict(call.replies[attempt], Models, call.offer)
              n == Promoted(v, Models, call.offer, call.preference)
  <2>1. stage = "done"
    <3>1. stage # "done" => entry = Undecided
      BY DEF CallInv
    <3>2. Undecided.by # "classifier"
      BY DEF Undecided
    <3>. QED BY <3>1, <3>2
  <2>2. /\ entry.target = candidates[n] /\ n \in Usable(Models, call.offer)
        /\ n = v \/ Rival(Models[n], Models[v], call.preference)
    BY <2>1, PickUsable
  <2>3. n \in DOMAIN Models
    BY <2>2 DEF Usable
  <2>. HIDE DEF v, n
  <2>4. /\ CostRank(Models[n].cost) <= CostRank(Models[v].cost)
        /\ QualityRank(Models[n].quality) >= QualityRank(Models[v].quality)
        /\ \/ CostRank(Models[n].cost) = CostRank(Models[v].cost)
           \/ QualityRank(Models[n].quality) = QualityRank(Models[v].quality)
    <3>1. /\ CostRank(Models[n].cost) \in 0 .. 3 /\ QualityRank(Models[n].quality) \in 0 .. 3
          /\ CostRank(Models[v].cost) \in 0 .. 3 /\ QualityRank(Models[v].quality) \in 0 .. 3
      BY Ranks
    <3>2. CASE n = v
      BY <3>1, <3>2
    <3>3. CASE Rival(Models[n], Models[v], call.preference)
      BY <3>1, <3>3 DEF Rival
    <3>. QED BY <2>2, <3>2, <3>3
  <2>. QED BY <2>2, <2>3, <2>4 DEF TiebreakStaysInTier, v
<1>. QED BY <1>1, CallInvariant, PTL

(***************************** the cache's key ****************************)
LEMMA PromptIsSaid ==
  ASSUME NEW request, IsList(request.messages), IsList(request.contents)
  PROVE  /\ ExtractUserPrompt(request)[1] \in TextsIn(request)
         /\ DOMAIN ExtractUserPrompt(request) = 1 .. Len(ExtractUserPrompt(request))
         /\ Len(ExtractUserPrompt(request)) \in Nat
         /\ \A n \in DOMAIN ExtractUserPrompt(request) :
              ExtractUserPrompt(request)[n] \in TextsIn(request)
         /\ ExtractUserPrompt(request) = [n \in DOMAIN ExtractUserPrompt(request) |-> ExtractUserPrompt(request)[n]]
<1>. DEFINE said == {n \in DOMAIN request.messages :
                       /\ request.messages[n].role \in {"", "user"}
                       /\ request.messages[n].text.id # ""}
            last == CHOOSE n \in said : \A k \in said : k <= n
            lead == IF said = {} THEN <<>> ELSE <<request.messages[last].text>>
            parts == lead \o request.contents
<1>1. DOMAIN request.messages = 1 .. Len(request.messages) /\ Len(request.messages) \in Nat
  BY ListIsSequence
<1>2. said # {} => last \in said
  <2>1. said \in SUBSET (1 .. Len(request.messages))
    BY <1>1
  <2>. HIDE DEF said
  <2>. QED BY <1>1, <2>1, Greatest
<1>3. lead \in Seq(TextsIn(request))
  <2>1. CASE said = {}
    <3>1. lead = <<>>
      BY <2>1
    <3>. QED BY <3>1, Lists
  <2>2. CASE said # {}
    <3>1. last \in DOMAIN request.messages
      BY <1>2, <2>2
    <3>2. lead = <<request.messages[last].text>>
      BY <2>2
    <3>. HIDE DEF last, lead
    <3>3. request.messages[last].text \in TextsIn(request)
      BY <3>1 DEF TextsIn
    <3>. QED BY <3>2, <3>3, Lists
  <2>. QED BY <2>1, <2>2
<1>4. request.contents \in Seq(TextsIn(request))
  <2>1. \A n \in DOMAIN request.contents : request.contents[n] \in TextsIn(request)
    BY DEF TextsIn
  <2>. QED BY <2>1, ListIsSequence
<1>. HIDE DEF lead
<1>5. parts \in Seq(TextsIn(request))
  BY <1>3, <1>4
<1>6. <<request.body>> \in Seq(TextsIn(request))
  BY DEF TextsIn
<1>7. ExtractUserPrompt(request) \in {parts, <<request.body>>}
  BY DEF ExtractUserPrompt, lead
<1>8. ExtractUserPrompt(request) \in Seq(TextsIn(request))
  BY <1>5, <1>6, <1>7
<1>9. ExtractUserPrompt(request) # <<>>
  <2>1. parts = <<>> => ExtractUserPrompt(request) = <<request.body>>
    <3>1. ASSUME parts = <<>> PROVE \A n \in DOMAIN parts : parts[n].id = ""
      <4>1. DOMAIN parts = {}
        <5>. HIDE DEF parts
        <5>. QED BY <3>1
      <4>. QED BY <4>1
    <3>2. ExtractUserPrompt(request) =
            IF \A n \in DOMAIN parts : parts[n].id = "" THEN <<request.body>> ELSE parts
      BY DEF ExtractUserPrompt, lead
    <3>. HIDE DEF parts
    <3>. QED BY <3>1, <3>2
  <2>2. <<request.body>> # <<>>
    OBVIOUS
  <2>. HIDE DEF parts
  <2>. QED BY <1>7, <2>1, <2>2
<1>. QED BY <1>8, <1>9

LEMMA TwoParts ==
  ASSUME NEW U, NEW h \in Seq(U), NEW s \in Seq(U)
  PROVE  /\ h \o s \in Seq(U) /\ Len(h \o s) = Len(h) + Len(s)
         /\ Len(h) \in Nat /\ Len(s) \in Nat
         /\ \A n \in 1 .. Len(h) : (h \o s)[n] = h[n]
         /\ \A n \in 1 .. Len(s) : (h \o s)[n + Len(h)] = s[n]
OBVIOUS

LEMMA ThreeParts ==
  ASSUME NEW U, NEW h \in Seq(U), NEW s \in Seq(U), NEW e \in Seq(U)
  PROVE  /\ Len(h) \in Nat /\ Len(s) \in Nat /\ Len(e) \in Nat
         /\ Len(h \o s \o e) = Len(h) + Len(s) + Len(e)
         /\ \A n \in 1 .. Len(s) : (h \o s \o e)[n + Len(h)] = s[n]
         /\ \A n \in 1 .. Len(e) : (h \o s \o e)[n + Len(h) + Len(s)] = e[n]
<1>. DEFINE c == h \o s
            f == c \o e
<1>1. /\ c \in Seq(U) /\ Len(c) = Len(h) + Len(s) /\ Len(h) \in Nat /\ Len(s) \in Nat
      /\ \A n \in 1 .. Len(s) : c[n + Len(h)] = s[n]
  BY TwoParts
<1>0. c \in Seq(U)
  BY TwoParts
<1>. HIDE DEF c
<1>2. /\ Len(f) = Len(c) + Len(e) /\ Len(e) \in Nat
      /\ \A n \in 1 .. Len(c) : f[n] = c[n]
      /\ \A n \in 1 .. Len(e) : f[n + Len(c)] = e[n]
  BY <1>0, TwoParts
<1>. HIDE DEF f
<1>3. \A n \in 1 .. Len(s) : f[n + Len(h)] = s[n]
  <2>1. \A n \in 1 .. Len(s) : n + Len(h) \in 1 .. Len(c)
    BY <1>1
  <2>. QED BY <1>1, <1>2, <2>1
<1>4. \A n \in 1 .. Len(e) : f[n + Len(h) + Len(s)] = e[n]
  <2>1. \A n \in 1 .. Len(e) : n + Len(c) = n + Len(h) + Len(s)
    BY <1>1, <1>2
  <2>. QED BY <1>2, <2>1
<1>5. Len(f) = Len(h) + Len(s) + Len(e)
  BY <1>1, <1>2
<1>. QED BY <1>1, <1>2, <1>3, <1>4, <1>5 DEF c, f

\* f is a key of the texts s and the task part d.
IsKeyOf(f, s, d) ==
  /\ Len(s) \in Nat /\ Len(d) \in {0, 2} /\ Len(f) = 2 + Len(s) + Len(d)
  /\ \A n \in 1 .. Len(s) : f[n + 2] = s[n] /\ s[n] # NUL
  /\ \A n \in 1 .. Len(d) : f[n + 2 + Len(s)] = d[n]
  /\ Len(d) = 2 => d[1] = NUL

LEMMA KeyHasParts ==
  ASSUME NEW U, NEW h \in Seq(U), NEW s \in Seq(U), NEW d \in Seq(U)
  PROVE  /\ Len(h) = 2
         /\ Len(d) \in {0, 2} /\ (Len(d) = 2 => d[1] = NUL)
         /\ \A n \in 1 .. Len(s) : s[n] # NUL
         => IsKeyOf(h \o s \o d, s, d)
<1>. DEFINE f == h \o s \o d
<1>1. /\ Len(f) = Len(h) + Len(s) + Len(d) /\ Len(s) \in Nat
      /\ \A n \in 1 .. Len(s) : f[n + Len(h)] = s[n]
      /\ \A n \in 1 .. Len(d) : f[n + Len(h) + Len(s)] = d[n]
  BY ThreeParts
<1>. HIDE DEF f
<1>2. /\ Len(h) = 2
      /\ Len(d) \in {0, 2} /\ (Len(d) = 2 => d[1] = NUL)
      /\ \A n \in 1 .. Len(s) : s[n] # NUL
      => IsKeyOf(f, s, d)
  BY <1>1 DEF IsKeyOf
<1>. QED BY <1>2 DEF f

\* Where no text is NUL, the parts of a key can be told apart: a key with a task is
\* longer by two than one without and has NUL where that one has a text.
LEMMA PartsOfKey ==
  ASSUME NEW U, NEW s \in Seq(U), NEW t \in Seq(U), NEW d, NEW e, NEW f, NEW g,
         IsKeyOf(f, s, d), IsKeyOf(g, t, e), f = g
  PROVE  s = t /\ Len(d) = Len(e) /\ (Len(d) = 2 => d[2] = e[2])
<1>1. /\ Len(f) = 2 + Len(s) + Len(d) /\ Len(g) = 2 + Len(t) + Len(e)
      /\ Len(s) \in Nat /\ Len(t) \in Nat /\ Len(d) \in {0, 2} /\ Len(e) \in {0, 2}
      /\ \A n \in 1 .. Len(s) : f[n + 2] = s[n] /\ s[n] # NUL
      /\ \A n \in 1 .. Len(t) : g[n + 2] = t[n] /\ t[n] # NUL
      /\ \A n \in 1 .. Len(d) : f[n + 2 + Len(s)] = d[n]
      /\ \A n \in 1 .. Len(e) : g[n + 2 + Len(t)] = e[n]
      /\ Len(d) = 2 => d[1] = NUL
      /\ Len(e) = 2 => e[1] = NUL
  BY DEF IsKeyOf
<1>2. f = g
  OBVIOUS
<1>3. ASSUME Len(d) = 2, Len(e) = 0 PROVE FALSE
  <2>1. Len(t) = Len(s) + 2
    BY <1>1, <1>2, <1>3
  <2>3. Len(s) + 1 + 2 = 1 + 2 + Len(s) /\ Len(s) + 1 \in 1 .. Len(t)
    BY <1>1, <2>1
  <2>2. g[Len(s) + 1 + 2] = t[Len(s) + 1] /\ t[Len(s) + 1] # NUL /\ f[1 + 2 + Len(s)] = NUL
    BY <1>1, <1>3, <2>3
  <2>. QED BY <1>2, <2>2, <2>3
<1>4. ASSUME Len(d) = 0, Len(e) = 2 PROVE FALSE
  <2>1. Len(s) = Len(t) + 2
    BY <1>1, <1>2, <1>4
  <2>3. Len(t) + 1 + 2 = 1 + 2 + Len(t) /\ Len(t) + 1 \in 1 .. Len(s)
    BY <1>1, <2>1
  <2>2. f[Len(t) + 1 + 2] = s[Len(t) + 1] /\ s[Len(t) + 1] # NUL /\ g[1 + 2 + Len(t)] = NUL
    BY <1>1, <1>4, <2>3
  <2>. QED BY <1>2, <2>2, <2>3
<1>5. Len(d) = Len(e)
  BY <1>1, <1>3, <1>4
<1>6. Len(s) = Len(t)
  BY <1>1, <1>2, <1>5
<1>7. \A n \in 1 .. Len(s) : s[n] = t[n]
  BY <1>1, <1>2, <1>6
<1>8. s = t
  BY <1>6, <1>7
<1>9. Len(d) = 2 => d[2] = e[2]
  BY <1>1, <1>2, <1>5, <1>6
<1>. QED BY <1>5, <1>8, <1>9

\* Two requests under one key have one prompt: they differ in nothing a hit could get
\* wrong, for all requests whose texts are told apart by their ids and hold no NUL.
LEMMA OneKeyOnePrompt ==
  ASSUME NEW q, NEW p, IsList(q.messages), IsList(q.contents),
         IsList(p.messages), IsList(p.contents),
         \A a \in TextsIn(q), b \in TextsIn(p) : a.id = b.id => a = b,
         NulFree(ExtractUserPrompt(q)), NulFree(ExtractUserPrompt(p)),
         routeCacheKey(q) = routeCacheKey(p)
  PROVE  ExtractUserPrompt(q) = ExtractUserPrompt(p) /\ routingTask(q) = routingTask(p)
<1>. DEFINE x == ExtractUserPrompt(q)
            y == ExtractUserPrompt(p)
<1>2. /\ \A n \in DOMAIN x : x[n] \in TextsIn(q)
      /\ \A n \in DOMAIN y : y[n] \in TextsIn(p)
      /\ x = [n \in DOMAIN x |-> x[n]] /\ y = [n \in DOMAIN y |-> y[n]]
  BY PromptIsSaid
<1>0. DOMAIN x = 1 .. Len(x) /\ Len(x) \in Nat /\ DOMAIN y = 1 .. Len(y) /\ Len(y) \in Nat
  BY PromptIsSaid
<1>1. Ids(x) = Ids(y) /\ routingTaskOverride(q) = routingTaskOverride(p)
  <2>. DEFINE v == routingTaskOverride(q)
              w == routingTaskOverride(p)
              d == IF v = Unknown THEN <<>> ELSE <<NUL, v>>
              e == IF w = Unknown THEN <<>> ELSE <<NUL, w>>
              h == <<q.name, NUL>>
              k == <<p.name, NUL>>
              U == {x[n].id : n \in DOMAIN x} \cup {y[n].id : n \in DOMAIN y}
                     \cup {q.name, p.name, NUL, v, w}
  <2>1. h \o Ids(x) \o d = k \o Ids(y) \o e
    BY DEF routeCacheKey
  <2>2. (\A n \in DOMAIN x : x[n].id # NUL) /\ (\A n \in DOMAIN y : y[n].id # NUL)
    BY DEF NulFree
  <2>. HIDE DEF x, y, v, w
  <2>3. Ids(x) \in Seq(U) /\ Ids(y) \in Seq(U)
    BY <1>0 DEF Ids
  <2>3a. Len(Ids(x)) = Len(x) /\ Len(Ids(y)) = Len(y)
    BY <1>0, <2>3 DEF Ids
  <2>4. /\ \A n \in 1 .. Len(Ids(x)) : Ids(x)[n] # NUL
        /\ \A n \in 1 .. Len(Ids(y)) : Ids(y)[n] # NUL
    BY <1>0, <2>2, <2>3, <2>3a DEF Ids
  <2>5. h \in Seq(U) /\ k \in Seq(U) /\ d \in Seq(U) /\ e \in Seq(U)
    <3>1. {q.name, p.name, NUL, v, w} \subseteq U
      OBVIOUS
    <3>. HIDE DEF U
    <3>. QED BY <3>1
  <2>6. /\ Len(h) = 2 /\ Len(k) = 2
        /\ Len(d) \in {0, 2} /\ (Len(d) = 2 => d[1] = NUL)
        /\ Len(e) \in {0, 2} /\ (Len(e) = 2 => e[1] = NUL)
    OBVIOUS
  <2>7. Len(d) = Len(e) /\ (Len(d) = 2 => d[2] = e[2]) => v = w
    OBVIOUS
  <2>. DEFINE a == Ids(x)
              b == Ids(y)
              f == h \o a \o d
              g == k \o b \o e
  <2>8. a \in Seq(U) /\ b \in Seq(U)
    BY <2>3
  <2>9. f = g
    BY <2>1
  <2>. HIDE DEF d, e, h, k, U, a, b
  <2>10. IsKeyOf(f, a, d)
    BY <2>4, <2>5, <2>6, <2>8, KeyHasParts DEF a
  <2>11. IsKeyOf(g, b, e)
    BY <2>4, <2>5, <2>6, <2>8, KeyHasParts DEF b
  <2>. HIDE DEF f, g
  <2>13. a = b /\ Len(d) = Len(e) /\ (Len(d) = 2 => d[2] = e[2])
    BY <2>8, <2>9, <2>10, <2>11, PartsOfKey
  <2>. QED BY <2>7, <2>13 DEF v, w, a, b
<1>. HIDE DEF x, y
<1>3. DOMAIN x = DOMAIN y /\ \A n \in DOMAIN x : x[n].id = y[n].id
  <2>1. DOMAIN Ids(x) = DOMAIN x /\ DOMAIN Ids(y) = DOMAIN y
    BY DEF Ids
  <2>2. /\ \A n \in DOMAIN x : Ids(x)[n] = x[n].id
        /\ \A n \in DOMAIN y : Ids(y)[n] = y[n].id
    BY DEF Ids
  <2>. QED BY <1>1, <2>1, <2>2
<1>4. \A n \in DOMAIN x : x[n] = y[n]
  BY <1>2, <1>3
<1>5. x = y
  BY <1>2, <1>3, <1>4
<1>6. routingTask(q) = routingTask(p)
  BY <1>1, <1>5 DEF routingTask, x, y
<1>. QED BY <1>5, <1>6 DEF x, y

LEMMA StaysStarted ==
  ASSUME [CallNext]_callVars
  PROVE  stage' = "start" => stage = "start"
BY DEF CallNext, callVars, steps, Capability, Confident, Consult, ConsultEngine, Attempting,
       ClassifierFails, ClassifierDecides, Exhausted, Engine, EngineDecides, EngineAbstains,
       Local, Enter, AnswerModel, Answer

LEMMA Cached ==
  ASSUME CallInit
  PROVE  SameKeySameTask
<1>1. PICK c \in Calls : call.request \in c.requests /\ call.cached \in c.cached
  BY DEF CallInit
<1>2. /\ IsList(call.request.messages) /\ IsList(call.request.contents)
      /\ IsList(call.cached.messages) /\ IsList(call.cached.contents)
      /\ \A a \in TextsIn(call.request), b \in TextsIn(call.cached) : a.id = b.id => a = b
  BY <1>1, RequestsAssumption
<1>3. ASSUME NulFree(ExtractUserPrompt(call.request)), NulFree(ExtractUserPrompt(call.cached)),
             routeCacheKey(call.request) = routeCacheKey(call.cached)
      PROVE  /\ ExtractUserPrompt(call.request) = ExtractUserPrompt(call.cached)
             /\ routingTask(call.request) = routingTask(call.cached)
  BY <1>2, <1>3, OneKeyOnePrompt
<1>. QED BY <1>3 DEF SameKeySameTask

\* For all requests whose prompts hold no NUL, a hit answers a call of the same task,
\* template and keywords as the call that filled the entry: the parts of the key can be
\* told apart wherever they end (routeCacheKey; its hash is taken to be injective).
THEOREM KeysTellTasks == CallSpec => []SameKeySameTask
<1>1. CallInit => SameKeySameTask
  BY Cached
<1>2. SameKeySameTask /\ [CallNext]_callVars => SameKeySameTask'
  <2>. SUFFICES ASSUME SameKeySameTask, [CallNext]_callVars PROVE SameKeySameTask'
    OBVIOUS
  <2>1. call' = call
    BY StepGiven
  <2>2. stage' = "start" => stage = "start"
    BY StaysStarted
  <2>. QED BY <2>1, <2>2 DEF SameKeySameTask
<1>. QED BY <1>1, <1>2, PTL DEF CallSpec

\* For replies of every length: a complete verdict on a model the call may use is never
\* lost in what stands before, around or after it (extractJSONObjects).
THEOREM VerdictsSurvive == CallSpec => []VerdictSurvivesNoise
<1>1. CallInv => VerdictSurvivesNoise
  <2>. SUFFICES ASSUME CallInv, NEW k \in DOMAIN call.replies,
                       NEW s \in DOMAIN Sources(call.replies[k]),
                       NEW n \in 1 .. Len(Sources(call.replies[k])[s]) - 2,
                       Sources(call.replies[k])[s][n] = "open",
                       Sources(call.replies[k])[s][n + 2] = "close",
                       Configured(Models, Sources(call.replies[k])[s][n + 1]) # {},
                       ProviderAvailable(Models[LastConfigured(Models, Sources(call.replies[k])[s][n + 1])].provider,
                                         call.offer)
                PROVE  ParseVerdict(call.replies[k], Models, call.offer) # 0
    BY DEF VerdictSurvivesNoise
  <2>. DEFINE reply == call.replies[k]
              text == Sources(reply)[s]
              id == text[n + 1]
  <2>1. Given /\ DOMAIN Models = 1 .. Len(candidates) /\ Len(candidates) \in Nat
    BY CandidatesOfGiven DEF CallInv
  <2>2. Readable(reply)
    <3>1. k \in 1 .. Len(call.replies)
      BY <2>1, AttemptsBounded
    <3>. QED BY <2>1, <3>1 DEF Given
  <2>3. Len(text) \in Nat
    BY <2>2, SourcesAreLists
  <2>4. id \notin Punctuation
    <3>1. PICK m \in DOMAIN Models : Models[m].model = id
      BY DEF Configured
    <3>2. candidates[m] \in Candidates /\ candidates[m].model = id
      BY <2>1, <3>1, CandidatesOfGiven DEF Models
    <3>. QED BY <3>2, CallsAssumption, PolicyAssumption
  <2>5. <<n, n + 2>> \in Objects(text) /\ Selected(text, <<n, n + 2>>) = id
    <3>. HIDE DEF text
    <3>1. n \in Nat /\ n >= 1 /\ n + 2 <= Len(text)
      BY <2>3 DEF text
    <3>2. text[n] = "open" /\ text[n + 2] = "close"
      BY DEF text
    <3>. QED BY <2>3, <2>4, <3>1, <3>2, CompleteVerdict
  <2>6. <<s, n, id>> \in Verdicts(reply)
    <3>1. <<n, n + 2>>[1] = n
      OBVIOUS
    <3>. HIDE DEF id
    <3>2. <<s, n, id>> \in {<<s, object[1], Selected(Sources(reply)[s], object)>> :
                              object \in Objects(Sources(reply)[s])}
      BY <2>5, <3>1
    <3>. QED BY <3>2 DEF Verdicts
  <2>7. <<s, n, id>> \in Accepted(reply, Models, call.offer)
    <3>. HIDE DEF reply
    <3>1. Configured(Models, id) # {} /\ ProviderAvailable(Models[LastConfigured(Models, id)].provider, call.offer)
      BY DEF reply
    <3>. HIDE DEF id
    <3>2. <<s, n, id>>[3] = id
      OBVIOUS
    <3>. QED BY <2>6, <3>1, <3>2 DEF Accepted
  <2>. HIDE DEF reply
  <2>8. ParseVerdict(reply, Models, call.offer) # 0
    BY <2>1, <2>2, <2>7, AcceptedIsParsed
  <2>. QED BY <2>8 DEF reply
<1>. QED BY <1>1, CallInvariant, PTL

(****************************** the language *******************************)
\* The fold of topLanguage, over the positions taken so far.
Nothing == [language |-> Unknown, count |-> 0]
Folded(counts, order, fold, s) ==
  IF s = {} THEN Nothing ELSE Taken(counts, fold[s \ {Max(s)}], order[Max(s)])

LEMMA MaxOf ==
  ASSUME NEW m \in Nat, NEW s \in SUBSET (1 .. m), s # {}
  PROVE  Max(s) \in s /\ (m \in s => Max(s) = m)
<1>1. PICK n \in s : \A k \in s : k <= n
  BY Greatest
<1>2. Max(s) \in s /\ \A k \in s : Max(s) >= k
  BY <1>1 DEF Max
<1>3. PICK x : x = Max(s)
  OBVIOUS
<1>4. x \in s /\ \A k \in s : x >= k
  BY <1>2, <1>3
<1>5. m \in s => x = m
  BY <1>4
<1>. QED BY <1>3, <1>4, <1>5

LEMMA FoldExists ==
  ASSUME NEW counts, NEW order, NEW b \in Nat
  PROVE  \E fold : fold = [s \in SUBSET (1 .. b) |-> Folded(counts, order, fold, s)]
<1>. DEFINE Folds(fold, m) == fold = [s \in SUBSET (1 .. m) |-> Folded(counts, order, fold, s)]
            bad == {m \in Nat : ~ \E fold : Folds(fold, m)}
<1>1. bad = {}
  <2>. SUFFICES ASSUME bad # {} PROVE FALSE
    OBVIOUS
  <2>1. bad \in SUBSET Nat
    OBVIOUS
  <2>2. PICK m \in bad : \A n \in bad : m <= n
    <3>. HIDE DEF bad
    <3>. QED BY <2>1, Least
  <2>3. m \in Nat /\ ~ \E fold : Folds(fold, m)
    OBVIOUS
  <2>4. CASE m = 0
    <3>. DEFINE g == [s \in SUBSET (1 .. m) |-> Nothing]
    <3>1. \A s \in SUBSET (1 .. m) : s = {}
      BY <2>4
    <3>2. \A s \in SUBSET (1 .. m) : Folded(counts, order, g, s) = Nothing
      BY <3>1 DEF Folded
    <3>3. Folds(g, m)
      BY <3>2
    <3>. QED BY <2>3, <3>3
  <2>5. CASE m # 0
    <3>1. m - 1 \in Nat /\ ~ (m <= m - 1)
      BY <2>3, <2>5
    <3>2. PICK g : Folds(g, m - 1)
      <4>1. m - 1 \notin bad
        <5>. HIDE DEF bad
        <5>. QED BY <2>2, <3>1
      <4>. HIDE DEF Folds
      <4>. QED BY <3>1, <4>1
    <3>. DEFINE h == [s \in SUBSET (1 .. m) |->
                        IF m \in s THEN Taken(counts, g[s \ {m}], order[m]) ELSE g[s]]
    <3>3. \A s \in SUBSET (1 .. m) : m \notin s => s \in SUBSET (1 .. m - 1) /\ h[s] = g[s]
      BY <2>3
    <3>4. ASSUME NEW s \in SUBSET (1 .. m) PROVE h[s] = Folded(counts, order, h, s)
      <4>1. CASE m \in s
        <5>1. Max(s) = m /\ s # {}
          BY <2>3, <4>1, MaxOf
        <5>2. h[s] = Taken(counts, g[s \ {m}], order[m])
          BY <4>1
        <5>3. h[s \ {m}] = g[s \ {m}]
          BY <3>3
        <5>. HIDE DEF h
        <5>. QED BY <5>1, <5>2, <5>3 DEF Folded
      <4>2. CASE m \notin s
        <5>1. h[s] = g[s] /\ s \in SUBSET (1 .. m - 1)
          BY <3>3, <4>2
        <5>2. g[s] = Folded(counts, order, g, s)
          BY <3>2, <5>1
        <5>3. CASE s = {}
          BY <5>1, <5>2, <5>3 DEF Folded
        <5>4. CASE s # {}
          <6>1. m \notin s \ {Max(s)} /\ s \ {Max(s)} \in SUBSET (1 .. m)
            BY <4>2
          <6>2. h[s \ {Max(s)}] = g[s \ {Max(s)}]
            BY <3>3, <6>1
          <6>. HIDE DEF h
          <6>. QED BY <5>1, <5>2, <5>4, <6>2 DEF Folded
        <5>. QED BY <5>3, <5>4
      <4>. QED BY <4>1, <4>2
    <3>5. Folds(h, m)
      <4>. DEFINE e == [s \in SUBSET (1 .. m) |-> Folded(counts, order, h, s)]
      <4>1. \A s \in SUBSET (1 .. m) : h[s] = e[s]
        BY <3>4
      <4>2. h = e
        BY <4>1
      <4>. QED BY <4>2
    <3>. QED BY <2>3, <3>5
  <2>. QED BY <2>4, <2>5
<1>. QED BY <1>1

LEMMA Interval == \A m \in Nat : m \in 1 .. m => (1 .. m) \ {m} = 1 .. m - 1 /\ 1 .. m # {}
OBVIOUS

\* order lists b languages.
Ordered(order, b) == b \in Nat /\ DOMAIN order = 1 .. b

\* fold takes the languages one after the other, as TopLanguage does.
Folding(fold, counts, order, b) ==
  /\ fold[{}] = Nothing
  /\ \A m \in 1 .. b : fold[1 .. m] = Taken(counts, fold[1 .. m - 1], order[m])
  /\ TopLanguage(counts, order) = fold[1 .. b].language

LEMMA TopLanguageFolds ==
  ASSUME NEW counts, NEW order, NEW b, Ordered(order, b)
  PROVE  \E fold : Folding(fold, counts, order, b)
<1>0. b \in Nat /\ DOMAIN order = 1 .. b
  BY DEF Ordered
<1>1. \E fold : fold = [s \in SUBSET (DOMAIN order) |-> Folded(counts, order, fold, s)]
  <2>1. \E fold : fold = [s \in SUBSET (1 .. b) |-> Folded(counts, order, fold, s)]
    BY <1>0, FoldExists
  <2>. QED BY <1>0, <2>1, Zenon
<1>2. PICK fold : /\ fold = [s \in SUBSET (DOMAIN order) |-> Folded(counts, order, fold, s)]
                  /\ TopLanguage(counts, order) = fold[DOMAIN order].language
  BY <1>1 DEF TopLanguage, FoldLeft, MapThenFoldSet, Folded, Nothing
<1>3. \A s \in SUBSET (1 .. b) : fold[s] = Folded(counts, order, fold, s)
  BY <1>0, <1>2
<1>4. fold[{}] = Nothing
  BY <1>3 DEF Folded
<1>5. ASSUME NEW m \in 1 .. b
      PROVE  fold[1 .. m] = Taken(counts, fold[1 .. m - 1], order[m])
  <2>1. (1 .. m) \in SUBSET (1 .. b) /\ m \in Nat /\ m \in 1 .. m
    BY <1>0
  <2>2. (1 .. m) \ {m} = 1 .. m - 1 /\ 1 .. m # {}
    BY <2>1, Interval
  <2>3. Max(1 .. m) = m
    BY <2>1, <2>2, MaxOf
  <2>. QED BY <1>3, <2>1, <2>2, <2>3 DEF Folded
<1>6. Folding(fold, counts, order, b)
  BY <1>0, <1>2, <1>4, <1>5 DEF Folding
<1>. QED BY <1>6

\* Counts of languages that the alphabet has.
Countable(counts) ==
  /\ IsFiniteSet(DOMAIN counts) /\ Unknown \notin DOMAIN counts
  /\ \A l \in DOMAIN counts : counts[l] \in Nat /\ counts[l] > 0
  /\ \A l \in DOMAIN counts : \E n \in DOMAIN Alphabet : Alphabet[n] = l

LEMMA AlphabetOrders ==
  ASSUME IsList(Alphabet), NEW counts, Countable(counts)
  PROVE  /\ \A l \in DOMAIN counts : Alphabetical(l) \in Nat
         /\ \A l, k \in DOMAIN counts : Alphabetical(l) = Alphabetical(k) => l = k
<1>1. \A l \in DOMAIN counts : Alphabetical(l) \in DOMAIN Alphabet /\ Alphabet[Alphabetical(l)] = l
  BY Zenon DEF Countable, Alphabetical
<1>2. DOMAIN Alphabet \subseteq Nat
  BY ListIsSequence
<1>. QED BY <1>1, <1>2

\* l has the most files, and comes first among those that have as many.
Leading(counts, l, S) ==
  \A k \in S : counts[k] < counts[l] \/ (counts[k] = counts[l] /\ Alphabetical(l) <= Alphabetical(k))

Precedes(counts, l, k) ==
  counts[l] > counts[k] \/ (counts[l] = counts[k] /\ Alphabetical(l) < Alphabetical(k))

LEMMA LeadingOn ==
  ASSUME NEW counts, NEW l, NEW k, NEW S, Leading(counts, k, S),
         counts[l] \in Nat, counts[k] \in Nat, Alphabetical(l) \in Nat, Alphabetical(k) \in Nat,
         \A j \in S : counts[j] \in Nat /\ Alphabetical(j) \in Nat
  PROVE  IF Precedes(counts, l, k) THEN Leading(counts, l, S \cup {l})
         ELSE Leading(counts, k, S \cup {l})
<1>1. ASSUME Precedes(counts, l, k), NEW j \in S \cup {l}
      PROVE  counts[j] < counts[l] \/ (counts[j] = counts[l] /\ Alphabetical(l) <= Alphabetical(j))
  <2>1. CASE j = l
    BY <2>1
  <2>2. CASE j \in S
    BY <1>1, <2>2 DEF Precedes, Leading
  <2>. QED BY <2>1, <2>2
<1>2. ASSUME ~ Precedes(counts, l, k), NEW j \in S \cup {l}
      PROVE  counts[j] < counts[k] \/ (counts[j] = counts[k] /\ Alphabetical(k) <= Alphabetical(j))
  <2>1. CASE j = l
    BY <1>2, <2>1 DEF Precedes
  <2>2. CASE j \in S
    BY <2>2 DEF Leading
  <2>. QED BY <2>1, <2>2
<1>. QED BY <1>1, <1>2 DEF Leading

\* order lists the languages counted, b of them.
Listing(order, b, counts) ==
  /\ Ordered(order, b)
  /\ \A n \in 1 .. b : order[n] \in DOMAIN counts
  /\ \A l \in DOMAIN counts : \E n \in 1 .. b : order[n] = l

LEMMA TopLanguageLeads ==
  ASSUME IsList(Alphabet), NEW counts, Countable(counts),
         NEW order, NEW b, Listing(order, b, counts)
  PROVE  /\ b = 0 => TopLanguage(counts, order) = Unknown
         /\ b # 0 => /\ TopLanguage(counts, order) \in DOMAIN counts
                     /\ Leading(counts, TopLanguage(counts, order), DOMAIN counts)
<1>0. PICK fold : Folding(fold, counts, order, b)
  <2>1. Ordered(order, b)
    BY DEF Listing
  <2>. QED BY <2>1, TopLanguageFolds, Zenon
<1>1. /\ fold[{}] = Nothing
      /\ \A m \in 1 .. b : fold[1 .. m] = Taken(counts, fold[1 .. m - 1], order[m])
      /\ TopLanguage(counts, order) = fold[1 .. b].language
  BY <1>0, Zenon DEF Folding
<1>8. /\ b \in Nat
      /\ \A n \in 1 .. b : order[n] \in DOMAIN counts
      /\ \A l \in DOMAIN counts : \E n \in 1 .. b : order[n] = l
  BY DEF Listing, Ordered
<1>. b \in Nat
  BY <1>8
<1>7. Countable(counts) /\ IsList(Alphabet)
  OBVIOUS
<1>2. /\ \A l \in DOMAIN counts : Alphabetical(l) \in Nat /\ counts[l] \in Nat /\ counts[l] > 0 /\ l # Unknown
      /\ \A l, k \in DOMAIN counts : Alphabetical(l) = Alphabetical(k) => l = k
  <2>1. /\ \A l \in DOMAIN counts : Alphabetical(l) \in Nat
        /\ \A l, k \in DOMAIN counts : Alphabetical(l) = Alphabetical(k) => l = k
    BY <1>7, AlphabetOrders, Zenon
  <2>2. \A l \in DOMAIN counts : counts[l] \in Nat /\ counts[l] > 0 /\ l # Unknown
    BY <1>7 DEF Countable
  <2>. QED BY <2>1, <2>2
<1>. DEFINE Best(m) == /\ fold[1 .. m].language \in DOMAIN counts
                       /\ fold[1 .. m].count = counts[fold[1 .. m].language]
                       /\ Leading(counts, fold[1 .. m].language, {order[n] : n \in 1 .. m})
            bad == {m \in 1 .. b : ~ Best(m)}
<1>3. fold[1 .. 0] = Nothing
  <2>1. 1 .. 0 = {}
    OBVIOUS
  <2>. QED BY <1>1, <2>1
<1>4. bad = {}
  <2>. SUFFICES ASSUME bad # {} PROVE FALSE
    OBVIOUS
  <2>1. PICK m \in bad : \A n \in bad : m <= n
    <3>1. bad \in SUBSET Nat
      OBVIOUS
    <3>. HIDE DEF bad
    <3>. QED BY <3>1, Least
  <2>2. m \in 1 .. b /\ ~ Best(m)
    OBVIOUS
  <2>. DEFINE l == order[m]
              before == fold[1 .. m - 1]
              after == fold[1 .. m]
  <2>3. after = Taken(counts, before, l) /\ l \in DOMAIN counts
    BY <1>1, <1>8, <2>2
  <2>4. {order[n] : n \in 1 .. m} = {order[n] : n \in 1 .. m - 1} \cup {l}
    BY <2>2
  <2>5. CASE m = 1
    <3>1. before = Nothing /\ {order[n] : n \in 1 .. m} = {l}
      BY <1>3, <2>5
    <3>. HIDE DEF before, l
    <3>2. before.count = 0
      <4>1. Nothing.count = 0
        BY DEF Nothing
      <4>. QED BY <3>1, <4>1, Zenon
    <3>3. Replaces(before, l, counts[l])
      BY <1>2, <2>3, <3>2 DEF Replaces
    <3>4. after = [language |-> l, count |-> counts[l]]
      BY <2>3, <3>3 DEF Taken
    <3>. HIDE DEF after
    <3>5. after.language = l /\ after.count = counts[l]
      BY <3>4
    <3>6. Leading(counts, l, {l})
      <4>1. Alphabetical(l) \in Nat
        BY <1>2, <2>3
      <4>. QED BY <4>1 DEF Leading
    <3>7. Best(m)
      BY <2>3, <3>1, <3>5, <3>6 DEF after
    <3>. QED BY <2>2, <3>7
  <2>6. CASE m # 1
    <3>1. Best(m - 1)
      <4>1. m - 1 \in 1 .. b /\ ~ (m <= m - 1)
        BY <2>2, <2>6
      <4>2. m - 1 \notin bad
        <5>. HIDE DEF bad
        <5>. QED BY <2>1, <4>1
      <4>. HIDE DEF Best
      <4>. QED BY <4>1, <4>2
    <3>2. /\ before.language \in DOMAIN counts /\ before.count = counts[before.language]
          /\ Leading(counts, before.language, {order[n] : n \in 1 .. m - 1})
      BY <3>1
    <3>3. \A n \in 1 .. m - 1 : order[n] \in DOMAIN counts
      BY <1>8, <2>2
    <3>. DEFINE k == before.language
                seen == {order[n] : n \in 1 .. m - 1}
    <3>4. seen \subseteq DOMAIN counts
      BY <3>3
    <3>. HIDE DEF before, l, after, seen
    <3>5. k \in DOMAIN counts /\ Leading(counts, k, seen) /\ before.count = counts[k]
      BY <3>2 DEF before, seen
    <3>. HIDE DEF k
    <3>9. /\ Alphabetical(k) \in Nat /\ counts[k] \in Nat /\ k # Unknown
          /\ Alphabetical(l) \in Nat /\ counts[l] \in Nat
          /\ \A j \in seen : Alphabetical(j) \in Nat /\ counts[j] \in Nat
      BY <1>2, <2>3, <3>4, <3>5
    <3>6. CASE Replaces(before, l, counts[l])
      <4>1. after = [language |-> l, count |-> counts[l]]
        BY <2>3, <3>6 DEF Taken
      <4>2. after.language = l /\ after.count = counts[l]
        BY <4>1
      <4>3. Precedes(counts, l, k)
        BY <3>5, <3>6, <3>9, Zenon DEF Replaces, Precedes, k
      <4>5. Leading(counts, l, seen \cup {l})
        BY <3>5, <3>9, <4>3, LeadingOn
      <4>6. Best(m)
        BY <2>3, <2>4, <4>2, <4>5 DEF after, seen
      <4>. QED BY <2>2, <4>6
    <3>7. CASE ~ Replaces(before, l, counts[l])
      <4>1. after = before
        BY <2>3, <3>7 DEF Taken
      <4>2. ~ Precedes(counts, l, k)
        BY <3>5, <3>7, <3>9, Zenon DEF Replaces, Precedes, k
      <4>3. Leading(counts, k, seen \cup {l})
        BY <3>5, <3>9, <4>2, LeadingOn
      <4>4. Best(m)
        BY <2>4, <3>5, <4>1, <4>3 DEF after, seen, k
      <4>. QED BY <2>2, <4>4
    <3>. QED BY <3>6, <3>7
  <2>. QED BY <2>5, <2>6
<1>5. CASE b = 0
  <2>1. TopLanguage(counts, order) = Nothing.language
    BY <1>1, <1>3, <1>5, Zenon
  <2>2. Nothing.language = Unknown
    BY DEF Nothing
  <2>. QED BY <1>5, <2>1, <2>2
<1>6. CASE b # 0
  <2>1. Best(b)
    <3>1. b \in 1 .. b
      BY <1>6
    <3>. HIDE DEF Best
    <3>. QED BY <1>4, <3>1
  <2>2. {order[n] : n \in 1 .. b} = DOMAIN counts
    BY <1>8
  <2>. QED BY <1>1, <1>6, <2>1, <2>2
<1>. HIDE DEF Best, bad
<1>. QED BY <1>5, <1>6, Zenon

\* Whatever the order, it is the same language.
LEMMA OneTopLanguage ==
  ASSUME IsList(Alphabet), NEW counts, Countable(counts)
  PROVE  \E l : TopLanguages(counts) = {l}
<1>. DEFINE L == DOMAIN counts
            b == Cardinality(L)
<1>1. b \in Nat /\ IsFiniteSet(L) /\ Bijection(1 .. b, L) # {}
  BY FS_CardinalityType DEF Countable, ExistsBijection
<1>2. PICK f : f \in Bijection(1 .. b, L)
  BY <1>1
<1>3. f \in SetToSeqs(L)
  <2>1. f \in [1 .. b -> L] /\ \A n, m \in 1 .. b : f[n] = f[m] => n = m
    BY <1>2 DEF Bijection, Injection, IsInjective
  <2>. QED BY <2>1 DEF SetToSeqs
<1>4. ASSUME NEW g \in SetToSeqs(L)
      PROVE  g \in [1 .. b -> L] /\ \A l \in L : \E n \in 1 .. b : g[n] = l
  <2>1. g \in Injection(1 .. b, L) /\ g \in [1 .. b -> L]
    BY DEF SetToSeqs, Injection, IsInjective
  <2>2. Cardinality(1 .. b) = b
    <3>. HIDE DEF b
    <3>. QED BY <1>1, FS_Interval
  <2>3. g \in Surjection(1 .. b, L)
    BY <1>1, <2>1, <2>2, FS_Injection
  <2>. QED BY <2>1, <2>3 DEF Surjection
<1>. HIDE DEF b
<1>5. \A g \in SetToSeqs(L) :
        IF b = 0 THEN TopLanguage(counts, g) = Unknown
        ELSE TopLanguage(counts, g) \in L /\ Leading(counts, TopLanguage(counts, g), L)
  <2>. SUFFICES ASSUME NEW g \in SetToSeqs(L)
                PROVE  IF b = 0 THEN TopLanguage(counts, g) = Unknown
                       ELSE TopLanguage(counts, g) \in L /\ Leading(counts, TopLanguage(counts, g), L)
    OBVIOUS
  <2>1. Listing(g, b, counts)
    BY <1>1, <1>4 DEF Ordered, Listing
  <2>. QED BY <2>1, TopLanguageLeads, Zenon
<1>6. ASSUME NEW l \in L, NEW k \in L, Leading(counts, l, L), Leading(counts, k, L) PROVE l = k
  <2>1. /\ counts[k] < counts[l] \/ (counts[k] = counts[l] /\ Alphabetical(l) <= Alphabetical(k))
        /\ counts[l] < counts[k] \/ (counts[l] = counts[k] /\ Alphabetical(k) <= Alphabetical(l))
    BY <1>6 DEF Leading
  <2>2. /\ counts[k] \in Nat /\ counts[l] \in Nat
        /\ Alphabetical(l) \in Nat /\ Alphabetical(k) \in Nat
    BY AlphabetOrders DEF Countable
  <2>3. Alphabetical(l) = Alphabetical(k)
    BY <2>1, <2>2
  <2>. QED BY <2>3, AlphabetOrders
<1>7. \A g, h \in SetToSeqs(L) : TopLanguage(counts, g) = TopLanguage(counts, h)
  BY <1>5, <1>6
<1>8. TopLanguages(counts) = {TopLanguage(counts, f)}
  BY <1>3, <1>7 DEF TopLanguages
<1>. QED BY <1>8

LEMMA Positive == \A n \in Nat : n # 0 => n > 0
OBVIOUS

LEMMA FilesAreCountable ==
  ASSUME NEW text, IsFiniteSet(text.files),
         \A f \in text.files : f.language \in {Unknown} \cup {Alphabet[n] : n \in DOMAIN Alphabet}
  PROVE  Countable(LanguageCounts(text))
<1>. DEFINE of == [f \in text.files |-> f.language]
            names == {f.language : f \in text.files}
            counts == LanguageCounts(text)
<1>1. of \in Surjection(text.files, names)
  BY DEF Surjection
<1>2. IsFiniteSet(names)
  BY <1>1, FS_Surjection
<1>3. DOMAIN counts = names \ {Unknown}
  BY DEF LanguageCounts
<1>4. IsFiniteSet(DOMAIN counts)
  BY <1>2, <1>3, FS_Subset
<1>5. ASSUME NEW l \in DOMAIN counts PROVE counts[l] \in Nat /\ counts[l] > 0
  <2>. DEFINE those == {f \in text.files : f.language = l}
  <2>1. counts[l] = Cardinality(those)
    BY DEF LanguageCounts
  <2>2. those # {} /\ IsFiniteSet(those)
    BY <1>3, FS_Subset
  <2>. HIDE DEF those
  <2>3. Cardinality(those) \in Nat /\ Cardinality(those) # 0
    BY <2>2, FS_CardinalityType, FS_EmptySet
  <2>4. Cardinality(those) > 0
    <3>1. PICK n : n = Cardinality(those)
      OBVIOUS
    <3>2. n \in Nat /\ n # 0
      BY <2>3, <3>1
    <3>3. n > 0
      BY <3>2, Positive
    <3>. QED BY <3>1, <3>3
  <2>. QED BY <2>1, <2>3, <2>4, Zenon
<1>6. \A l \in DOMAIN counts : \E n \in DOMAIN Alphabet : Alphabet[n] = l
  BY <1>3
<1>. QED BY <1>3, <1>4, <1>5, <1>6 DEF Countable

LEMMA OneLanguage ==
  ASSUME CallInit
  PROVE  Cardinality(Languages(Context(call.request))) = 1
<1>. DEFINE text == Context(call.request)
<1>1. PICK c \in Calls : call.request \in c.requests
  BY DEF CallInit
<1>2. IsList(call.request.messages) /\ IsList(call.request.contents) /\ IsList(Alphabet)
  BY <1>1, RequestsAssumption
<1>3. text \in TextsIn(call.request)
  <2>1. call.request.body \in TextsIn(call.request)
    BY DEF TextsIn
  <2>2. ExtractUserPrompt(call.request)[1] \in TextsIn(call.request)
    BY <1>2, PromptIsSaid
  <2>. QED BY <2>1, <2>2, Zenon DEF Context
<1>4. /\ IsFiniteSet(text.files)
      /\ \A f \in text.files : f.language \in {Unknown} \cup {Alphabet[n] : n \in DOMAIN Alphabet}
  BY <1>1, <1>3, RequestsAssumption
<1>. HIDE DEF text
<1>5. PICK l : TopLanguages(LanguageCounts(text)) = {l}
  BY <1>2, <1>4, FilesAreCountable, OneTopLanguage
<1>6. Languages(text) = {IF l = Unknown THEN text.code ELSE l}
  BY <1>5 DEF Languages
<1>. QED BY <1>6, FS_Singleton DEF text

\* For every set of files: the language of a request does not depend on the order in
\* which the counts of its files are ranged over (topLanguage).
THEOREM LanguageIsDeterminate == CallSpec => []LanguageDeterminate
<1>1. CallInit => LanguageDeterminate
  BY OneLanguage DEF LanguageDeterminate
<1>2. LanguageDeterminate /\ [CallNext]_callVars => LanguageDeterminate'
  <2>. SUFFICES ASSUME LanguageDeterminate, [CallNext]_callVars PROVE LanguageDeterminate'
    OBVIOUS
  <2>1. call' = call
    BY StepGiven
  <2>2. stage' = "start" => stage = "start"
    BY StaysStarted
  <2>. QED BY <2>1, <2>2 DEF LanguageDeterminate
<1>. QED BY <1>1, <1>2, PTL DEF CallSpec

(******************************* complexity *******************************)
\* The factors in figures.
LEMMA Shares ==
  ASSUME NEW v \in Int
  PROVE  /\ Share("context", v) = IF v <= 0 THEN 0 ELSE IF v >= 16000 THEN 960000 ELSE 60 * v
         /\ Share("tokens", v) = IF v <= 0 THEN 0 ELSE IF v >= 6000 THEN 864000 ELSE 144 * v
         /\ Share("files", v) = IF v <= 0 THEN 0 ELSE IF v >= 12 THEN 720000 ELSE 60000 * v
         /\ Share("diff", v) = IF v <= 0 THEN 0 ELSE IF v >= 4000 THEN 576000 ELSE 144 * v
         /\ Share("prompt", v) = IF v <= 0 THEN 0 ELSE IF v >= 1200 THEN 480000 ELSE 400 * v
         /\ Share("turns", v) = IF v <= 0 THEN 0 ELSE IF v >= 20 THEN 480000 ELSE 24000 * v
         /\ Share("dirs", v) = IF v <= 0 THEN 0 ELSE IF v >= 8 THEN 384000 ELSE 48000 * v
         /\ Share("tools", v) = IF v <= 0 THEN 0 ELSE IF v >= 10 THEN 336000 ELSE 33600 * v
<1>1. Share("context", v) = IF v <= 0 THEN 0 ELSE IF v >= 16000 THEN 960000 ELSE 60 * v
  BY SMT DEF Share, weight, saturateAt, Unit
<1>2. Share("tokens", v) = IF v <= 0 THEN 0 ELSE IF v >= 6000 THEN 864000 ELSE 144 * v
  BY SMT DEF Share, weight, saturateAt, Unit
<1>3. Share("files", v) = IF v <= 0 THEN 0 ELSE IF v >= 12 THEN 720000 ELSE 60000 * v
  BY SMT DEF Share, weight, saturateAt, Unit
<1>4. Share("diff", v) = IF v <= 0 THEN 0 ELSE IF v >= 4000 THEN 576000 ELSE 144 * v
  BY SMT DEF Share, weight, saturateAt, Unit
<1>5. Share("prompt", v) = IF v <= 0 THEN 0 ELSE IF v >= 1200 THEN 480000 ELSE 400 * v
  BY SMT DEF Share, weight, saturateAt, Unit
<1>6. Share("turns", v) = IF v <= 0 THEN 0 ELSE IF v >= 20 THEN 480000 ELSE 24000 * v
  BY SMT DEF Share, weight, saturateAt, Unit
<1>7. Share("dirs", v) = IF v <= 0 THEN 0 ELSE IF v >= 8 THEN 384000 ELSE 48000 * v
  BY SMT DEF Share, weight, saturateAt, Unit
<1>8. Share("tools", v) = IF v <= 0 THEN 0 ELSE IF v >= 10 THEN 336000 ELSE 33600 * v
  BY SMT DEF Share, weight, saturateAt, Unit
<1>. QED BY <1>1, <1>2, <1>3, <1>4, <1>5, <1>6, <1>7, <1>8

\* Each factor adds something between nothing and its weight in points.
LEMMA ShareBounds ==
  ASSUME NEW f \in Factor, NEW v \in Int
  PROVE  Share(f, v) \in Int /\ 0 <= Share(f, v) /\ Share(f, v) <= weight[f] * Unit
<1>1. CASE f = "context"
  BY <1>1, Shares, SMT DEF weight, Unit
<1>2. CASE f = "tokens"
  BY <1>2, Shares, SMT DEF weight, Unit
<1>3. CASE f = "files"
  BY <1>3, Shares, SMT DEF weight, Unit
<1>4. CASE f = "diff"
  BY <1>4, Shares, SMT DEF weight, Unit
<1>5. CASE f = "prompt"
  BY <1>5, Shares, SMT DEF weight, Unit
<1>6. CASE f = "turns"
  BY <1>6, Shares, SMT DEF weight, Unit
<1>7. CASE f = "dirs"
  BY <1>7, Shares, SMT DEF weight, Unit
<1>8. CASE f = "tools"
  BY <1>8, Shares, SMT DEF weight, Unit
<1>. QED BY <1>1, <1>2, <1>3, <1>4, <1>5, <1>6, <1>7, <1>8, Zenon DEF Factor

\* A larger factor adds no less.
LEMMA ShareMonotone ==
  ASSUME NEW v \in Int, NEW w \in Int, v <= w, NEW f \in Factor
  PROVE  Share(f, v) <= Share(f, w)
<1>1. Share("context", v) <= Share("context", w)
  BY Shares, SMT
<1>2. Share("tokens", v) <= Share("tokens", w)
  BY Shares, SMT
<1>3. Share("files", v) <= Share("files", w)
  BY Shares, SMT
<1>4. Share("diff", v) <= Share("diff", w)
  BY Shares, SMT
<1>5. Share("prompt", v) <= Share("prompt", w)
  BY Shares, SMT
<1>6. Share("turns", v) <= Share("turns", w)
  BY Shares, SMT
<1>7. Share("dirs", v) <= Share("dirs", w)
  BY Shares, SMT
<1>8. Share("tools", v) <= Share("tools", w)
  BY Shares, SMT
<1>. QED BY <1>1, <1>2, <1>3, <1>4, <1>5, <1>6, <1>7, <1>8, Zenon DEF Factor

\* Of the total the weights make 100 points.
LEMMA TotalBounds ==
  ASSUME NEW sizes \in Sizes
  PROVE  Total(sizes) \in Int /\ 0 <= Total(sizes) /\ Total(sizes) <= 4800000
<1>1. \A f \in Factor : sizes[f] \in Int
  BY Zenon DEF Sizes
<1>2. \A f \in Factor : /\ Share(f, sizes[f]) \in Int /\ 0 <= Share(f, sizes[f])
                        /\ Share(f, sizes[f]) <= weight[f] * Unit
  BY <1>1, ShareBounds, Zenon
<1>3. Share("context", sizes["context"]) \in Int /\ 0 <= Share("context", sizes["context"]) /\ Share("context", sizes["context"]) <= 960000
  <2>1. "context" \in Factor
    BY SMT DEF Factor
  <2>2. Share("context", sizes["context"]) \in Int /\ 0 <= Share("context", sizes["context"]) /\ Share("context", sizes["context"]) <= weight["context"] * Unit
    BY <1>2, <2>1, Zenon
  <2>. QED BY <2>2, SMT DEF weight, Unit
<1>4. Share("tokens", sizes["tokens"]) \in Int /\ 0 <= Share("tokens", sizes["tokens"]) /\ Share("tokens", sizes["tokens"]) <= 864000
  <2>1. "tokens" \in Factor
    BY SMT DEF Factor
  <2>2. Share("tokens", sizes["tokens"]) \in Int /\ 0 <= Share("tokens", sizes["tokens"]) /\ Share("tokens", sizes["tokens"]) <= weight["tokens"] * Unit
    BY <1>2, <2>1, Zenon
  <2>. QED BY <2>2, SMT DEF weight, Unit
<1>5. Share("files", sizes["files"]) \in Int /\ 0 <= Share("files", sizes["files"]) /\ Share("files", sizes["files"]) <= 720000
  <2>1. "files" \in Factor
    BY SMT DEF Factor
  <2>2. Share("files", sizes["files"]) \in Int /\ 0 <= Share("files", sizes["files"]) /\ Share("files", sizes["files"]) <= weight["files"] * Unit
    BY <1>2, <2>1, Zenon
  <2>. QED BY <2>2, SMT DEF weight, Unit
<1>6. Share("diff", sizes["diff"]) \in Int /\ 0 <= Share("diff", sizes["diff"]) /\ Share("diff", sizes["diff"]) <= 576000
  <2>1. "diff" \in Factor
    BY SMT DEF Factor
  <2>2. Share("diff", sizes["diff"]) \in Int /\ 0 <= Share("diff", sizes["diff"]) /\ Share("diff", sizes["diff"]) <= weight["diff"] * Unit
    BY <1>2, <2>1, Zenon
  <2>. QED BY <2>2, SMT DEF weight, Unit
<1>7. Share("prompt", sizes["prompt"]) \in Int /\ 0 <= Share("prompt", sizes["prompt"]) /\ Share("prompt", sizes["prompt"]) <= 480000
  <2>1. "prompt" \in Factor
    BY SMT DEF Factor
  <2>2. Share("prompt", sizes["prompt"]) \in Int /\ 0 <= Share("prompt", sizes["prompt"]) /\ Share("prompt", sizes["prompt"]) <= weight["prompt"] * Unit
    BY <1>2, <2>1, Zenon
  <2>. QED BY <2>2, SMT DEF weight, Unit
<1>8. Share("turns", sizes["turns"]) \in Int /\ 0 <= Share("turns", sizes["turns"]) /\ Share("turns", sizes["turns"]) <= 480000
  <2>1. "turns" \in Factor
    BY SMT DEF Factor
  <2>2. Share("turns", sizes["turns"]) \in Int /\ 0 <= Share("turns", sizes["turns"]) /\ Share("turns", sizes["turns"]) <= weight["turns"] * Unit
    BY <1>2, <2>1, Zenon
  <2>. QED BY <2>2, SMT DEF weight, Unit
<1>9. Share("dirs", sizes["dirs"]) \in Int /\ 0 <= Share("dirs", sizes["dirs"]) /\ Share("dirs", sizes["dirs"]) <= 384000
  <2>1. "dirs" \in Factor
    BY SMT DEF Factor
  <2>2. Share("dirs", sizes["dirs"]) \in Int /\ 0 <= Share("dirs", sizes["dirs"]) /\ Share("dirs", sizes["dirs"]) <= weight["dirs"] * Unit
    BY <1>2, <2>1, Zenon
  <2>. QED BY <2>2, SMT DEF weight, Unit
<1>10. Share("tools", sizes["tools"]) \in Int /\ 0 <= Share("tools", sizes["tools"]) /\ Share("tools", sizes["tools"]) <= 336000
  <2>1. "tools" \in Factor
    BY SMT DEF Factor
  <2>2. Share("tools", sizes["tools"]) \in Int /\ 0 <= Share("tools", sizes["tools"]) /\ Share("tools", sizes["tools"]) <= weight["tools"] * Unit
    BY <1>2, <2>1, Zenon
  <2>. QED BY <2>2, SMT DEF weight, Unit
<1>. QED BY <1>3, <1>4, <1>5, <1>6, <1>7, <1>8, <1>9, <1>10, SMT DEF Total

\* The score needs no clamping: it is a number from 0 to 100 (AssessComplexity).
THEOREM ScoreBounded == \A sizes \in Sizes : Score(sizes) \in 0 .. 100
<1>. SUFFICES ASSUME NEW sizes \in Sizes PROVE Score(sizes) \in 0 .. 100
  OBVIOUS
<1>. DEFINE t == Total(sizes)
<1>1. t \in Int /\ 0 <= t /\ t <= 4800000
  BY TotalBounds
<1>. HIDE DEF t
<1>2. 2 * t + 48000 \in Int /\ 0 <= 2 * t + 48000 /\ 2 * t + 48000 <= 9648000
  BY <1>1, SMT
<1>3. (2 * t + 48000) \div 96000 >= 0 /\ (2 * t + 48000) \div 96000 <= 100
  BY <1>2, SMT
<1>4. Score(sizes) = (2 * t + 48000) \div 96000
  BY SMT DEF Score, Unit, t
<1>. QED BY <1>2, <1>3, <1>4, SMT

\* Where the score is what the total rounds to.
LEMMA Rounding ==
  ASSUME NEW sizes \in Sizes
  PROVE  /\ Score(sizes) \in Int
         /\ 2 * Unit * Score(sizes) <= 2 * Total(sizes) + Unit
         /\ 2 * Total(sizes) + Unit < 2 * Unit * (Score(sizes) + 1)
<1>. DEFINE t == Total(sizes)
<1>1. t \in Int
  BY TotalBounds, SMT
<1>2. Score(sizes) = (2 * t + 48000) \div 96000
  BY SMT DEF Score, Unit, t
<1>. HIDE DEF t
<1>3. 2 * t + 48000 \in Int
  BY <1>1, SMT
<1>4. \A n \in Int : /\ n \div 96000 \in Int /\ 96000 * (n \div 96000) <= n
                     /\ n < 96000 * ((n \div 96000) + 1)
  BY SMT
<1>5. /\ Score(sizes) \in Int /\ 96000 * Score(sizes) <= 2 * t + 48000
      /\ 2 * t + 48000 < 96000 * (Score(sizes) + 1)
  BY <1>2, <1>3, <1>4, SMT
<1>. QED BY <1>5, SMT DEF t, Unit

\* A request that is larger in every respect never gets a lower score, nor a lower
\* tier: rules on complexity_min and complexity order requests as their sizes do.
THEOREM ScoreMonotone ==
  \A a, b \in Sizes : (\A f \in Factor : a[f] <= b[f]) =>
    Score(a) <= Score(b) /\ tierForScore(Score(a)) <= tierForScore(Score(b))
<1>. SUFFICES ASSUME NEW a \in Sizes, NEW b \in Sizes, \A f \in Factor : a[f] <= b[f]
              PROVE  Score(a) <= Score(b) /\ tierForScore(Score(a)) <= tierForScore(Score(b))
  BY Zenon
<1>1. \A f \in Factor : a[f] \in Int /\ b[f] \in Int
  BY Zenon DEF Sizes
<1>2. \A f \in Factor : /\ Share(f, a[f]) <= Share(f, b[f])
                        /\ Share(f, a[f]) \in Int /\ Share(f, b[f]) \in Int
  BY <1>1, ShareMonotone, ShareBounds, Zenon
<1>3. /\ Share("context", a["context"]) <= Share("context", b["context"])
       /\ Share("context", a["context"]) \in Int /\ Share("context", b["context"]) \in Int
  BY <1>2, Zenon DEF Factor
<1>4. /\ Share("tokens", a["tokens"]) <= Share("tokens", b["tokens"])
       /\ Share("tokens", a["tokens"]) \in Int /\ Share("tokens", b["tokens"]) \in Int
  BY <1>2, Zenon DEF Factor
<1>5. /\ Share("files", a["files"]) <= Share("files", b["files"])
       /\ Share("files", a["files"]) \in Int /\ Share("files", b["files"]) \in Int
  BY <1>2, Zenon DEF Factor
<1>6. /\ Share("diff", a["diff"]) <= Share("diff", b["diff"])
       /\ Share("diff", a["diff"]) \in Int /\ Share("diff", b["diff"]) \in Int
  BY <1>2, Zenon DEF Factor
<1>7. /\ Share("prompt", a["prompt"]) <= Share("prompt", b["prompt"])
       /\ Share("prompt", a["prompt"]) \in Int /\ Share("prompt", b["prompt"]) \in Int
  BY <1>2, Zenon DEF Factor
<1>8. /\ Share("turns", a["turns"]) <= Share("turns", b["turns"])
       /\ Share("turns", a["turns"]) \in Int /\ Share("turns", b["turns"]) \in Int
  BY <1>2, Zenon DEF Factor
<1>9. /\ Share("dirs", a["dirs"]) <= Share("dirs", b["dirs"])
       /\ Share("dirs", a["dirs"]) \in Int /\ Share("dirs", b["dirs"]) \in Int
  BY <1>2, Zenon DEF Factor
<1>10. /\ Share("tools", a["tools"]) <= Share("tools", b["tools"])
       /\ Share("tools", a["tools"]) \in Int /\ Share("tools", b["tools"]) \in Int
  BY <1>2, Zenon DEF Factor
<1>11. Total(a) <= Total(b)
  BY <1>3, <1>4, <1>5, <1>6, <1>7, <1>8, <1>9, <1>10, SMT DEF Total
<1>12. Total(a) \in Int /\ Total(b) \in Int
  BY TotalBounds, SMT
<1>13. Score(a) \in Int /\ Score(b) \in Int
  BY Rounding, Zenon
<1>14. /\ 2 * Unit * Score(a) <= 2 * Total(a) + Unit
       /\ 2 * Total(b) + Unit < 2 * Unit * (Score(b) + 1)
  BY Rounding, Zenon
<1>15. Score(a) <= Score(b)
  BY <1>11, <1>12, <1>13, <1>14, SMT DEF Unit
<1>. QED BY <1>13, <1>15, SMT DEF tierForScore

\* What buildRouteFacts counts never reaches more than 75 points, and a rule on
\* complexity "very_high" waits for all of it at once: a dozen files, and a diff,
\* a prompt and a context each close to or past where it stops counting.
THEOREM VeryHighTakesEverything ==
  \A prompt, context, files, diff \in Nat :
    LET score == Score(ComplexityInput(prompt, context, files, diff))
    IN  /\ 0 <= score /\ score <= 75
        /\ tierForScore(score) = 3 =>
             files >= 12 /\ diff >= 3834 /\ prompt >= 1140 /\ context >= 23336
<1>. SUFFICES ASSUME NEW prompt \in Nat, NEW context \in Nat, NEW files \in Nat, NEW diff \in Nat
              PROVE  LET score == Score(ComplexityInput(prompt, context, files, diff))
                     IN  /\ 0 <= score /\ score <= 75
                         /\ tierForScore(score) = 3 =>
                              files >= 12 /\ diff >= 3834 /\ prompt >= 1140 /\ context >= 23336
  BY SMT
<1>. DEFINE sizes == ComplexityInput(prompt, context, files, diff)
            tokens == estimateTokens(context)
<1>1. tokens \in Int /\ 0 <= tokens /\ 4 * tokens <= context
  BY SMT DEF estimateTokens
<1>2. sizes \in Sizes
  BY <1>1, SMT DEF ComplexityInput, Sizes, Factor
<1>3. /\ Share("context", context) \in Int /\ 0 <= Share("context", context) /\ Share("context", context) <= 960000
      /\ Share("tokens", tokens) \in Int /\ 0 <= Share("tokens", tokens) /\ Share("tokens", tokens) <= 864000
      /\ Share("files", files) \in Int /\ 0 <= Share("files", files) /\ Share("files", files) <= 720000
      /\ Share("diff", diff) \in Int /\ 0 <= Share("diff", diff) /\ Share("diff", diff) <= 576000
      /\ Share("prompt", prompt) \in Int /\ 0 <= Share("prompt", prompt) /\ Share("prompt", prompt) <= 480000
  <2>1. Share("context", context) \in Int /\ 0 <= Share("context", context) /\ Share("context", context) <= 960000
    <3>1. context \in Int /\ "context" \in Factor
      BY <1>1, SMT DEF Factor
    <3>. HIDE DEF tokens
    <3>2. Share("context", context) \in Int /\ 0 <= Share("context", context) /\ Share("context", context) <= weight["context"] * Unit
      BY <3>1, ShareBounds, Zenon
    <3>. QED BY <3>2, SMT DEF weight, Unit
  <2>2. Share("tokens", tokens) \in Int /\ 0 <= Share("tokens", tokens) /\ Share("tokens", tokens) <= 864000
    <3>1. tokens \in Int /\ "tokens" \in Factor
      BY <1>1, SMT DEF Factor
    <3>. HIDE DEF tokens
    <3>2. Share("tokens", tokens) \in Int /\ 0 <= Share("tokens", tokens) /\ Share("tokens", tokens) <= weight["tokens"] * Unit
      BY <3>1, ShareBounds, Zenon
    <3>. QED BY <3>2, SMT DEF weight, Unit
  <2>3. Share("files", files) \in Int /\ 0 <= Share("files", files) /\ Share("files", files) <= 720000
    <3>1. files \in Int /\ "files" \in Factor
      BY <1>1, SMT DEF Factor
    <3>. HIDE DEF tokens
    <3>2. Share("files", files) \in Int /\ 0 <= Share("files", files) /\ Share("files", files) <= weight["files"] * Unit
      BY <3>1, ShareBounds, Zenon
    <3>. QED BY <3>2, SMT DEF weight, Unit
  <2>4. Share("diff", diff) \in Int /\ 0 <= Share("diff", diff) /\ Share("diff", diff) <= 576000
    <3>1. diff \in Int /\ "diff" \in Factor
      BY <1>1, SMT DEF Factor
    <3>. HIDE DEF tokens
    <3>2. Share("diff", diff) \in Int /\ 0 <= Share("diff", diff) /\ Share("diff", diff) <= weight["diff"] * Unit
      BY <3>1, ShareBounds, Zenon
    <3>. QED BY <3>2, SMT DEF weight, Unit
  <2>5. Share("prompt", prompt) \in Int /\ 0 <= Share("prompt", prompt) /\ Share("prompt", prompt) <= 480000
    <3>1. prompt \in Int /\ "prompt" \in Factor
      BY <1>1, SMT DEF Factor
    <3>. HIDE DEF tokens
    <3>2. Share("prompt", prompt) \in Int /\ 0 <= Share("prompt", prompt) /\ Share("prompt", prompt) <= weight["prompt"] * Unit
      BY <3>1, ShareBounds, Zenon
    <3>. QED BY <3>2, SMT DEF weight, Unit
  <2>. QED BY <2>1, <2>2, <2>3, <2>4, <2>5, SMT
<1>4. Total(sizes) = Share("context", context) + Share("tokens", tokens) + Share("files", files)
                     + Share("diff", diff) + Share("prompt", prompt)
  <2>1. /\ sizes["context"] = context /\ sizes["tokens"] = tokens /\ sizes["files"] = files
        /\ sizes["diff"] = diff /\ sizes["prompt"] = prompt
        /\ sizes["turns"] = 0 /\ sizes["dirs"] = 0 /\ sizes["tools"] = 0
    BY SMT DEF ComplexityInput
  <2>2. Share("turns", 0) = 0 /\ Share("dirs", 0) = 0 /\ Share("tools", 0) = 0
    BY SMT DEF Share
  <2>. HIDE DEF sizes, tokens
  <2>. QED BY <1>3, <2>1, <2>2, SMT DEF Total
<1>. HIDE DEF sizes, tokens
<1>5. Total(sizes) \in Int /\ 0 <= Total(sizes) /\ Total(sizes) <= 3600000
  BY <1>3, <1>4, SMT
<1>6. /\ Score(sizes) \in Int /\ 96000 * Score(sizes) <= 2 * Total(sizes) + 48000
      /\ 2 * Total(sizes) + 48000 < 96000 * (Score(sizes) + 1)
  <2>1. /\ Score(sizes) \in Int /\ 2 * Unit * Score(sizes) <= 2 * Total(sizes) + Unit
        /\ 2 * Total(sizes) + Unit < 2 * Unit * (Score(sizes) + 1)
    BY <1>2, Rounding, Zenon
  <2>. QED BY <2>1, SMT DEF Unit
<1>7. 0 <= Score(sizes) /\ Score(sizes) <= 75
  BY <1>5, <1>6, SMT
<1>8. ASSUME tierForScore(Score(sizes)) = 3
      PROVE  files >= 12 /\ diff >= 3834 /\ prompt >= 1140 /\ context >= 23336
  <2>1. Score(sizes) >= 75
    BY <1>6, <1>8, SMT DEF tierForScore
  <2>2. Total(sizes) >= 3576000
    BY <1>5, <1>6, <2>1, SMT
  <2>3. /\ Share("tokens", tokens) >= 840000 /\ Share("files", files) >= 696000
        /\ Share("diff", diff) >= 552000 /\ Share("prompt", prompt) >= 456000
    BY <1>3, <1>4, <2>2, SMT
  <2>4. files >= 12
    BY <2>3, Shares, SMT
  <2>5. diff >= 3834
    BY <2>3, Shares, SMT
  <2>6. prompt >= 1140
    BY <2>3, Shares, SMT
  <2>7. tokens >= 5834
    BY <1>1, <2>3, Shares, SMT
  <2>. QED BY <1>1, <2>4, <2>5, <2>6, <2>7, SMT
<1>. QED BY <1>7, <1>8, SMT DEF sizes
=============================================================================
