------------------------------ MODULE Selection ------------------------------
(***************************************************************************)
(* The local choice of a model (internal/domain/policy.go, capability.go,  *)
(* model.go): which configured models may serve a prompt, which of them    *)
(* leads, and which one a preference puts in the place of a classifier's   *)
(* pick.  Pure operators over                                              *)
(*   models   the configured models, in order:                             *)
(*            [provider, model, capabilities, cost, quality]               *)
(*   offer    the providers the host lists; a blank name is ""             *)
(*   words    the keywords of the tables below that the prompt contains,   *)
(*            and "(long)" if it is longer than longPromptThreshold.       *)
(* The tables keep one keyword, or a few, for each outcome they have.      *)
(***************************************************************************)
EXTENDS Integers, Sequences, FiniteSets

costRank == [low |-> 0, medium |-> 1, high |-> 2, very_high |-> 3]
qualityRank == [low |-> 0, medium |-> 1, high |-> 2, highest |-> 3]

CostRank(tier) == IF tier \in DOMAIN costRank THEN costRank[tier] ELSE 1
QualityRank(tier) == IF tier \in DOMAIN qualityRank THEN qualityRank[tier] ELSE 1

\* capabilitySignals
CapabilitySignals ==
  [bug |-> {"coding", "review"}, stacktrace |-> {"coding", "review"},
   refactor |-> {"refactor", "coding"}, architecture |-> {"architecture", "planning"},
   plan |-> {"planning"}, explain |-> {"reasoning", "analysis"},
   summarize |-> {"summarize"}, translate |-> {"translate"}, classify |-> {"classify"},
   coverage |-> {"tests", "coding"}, agent |-> {"agents", "tools"}, tool |-> {"tools"},
   code |-> {"coding"}, documentation |-> {"documentation", "writing"},
   write |-> {"writing"}, review |-> {"review"}]

InferCapabilities(words) ==
  (UNION {CapabilitySignals[w] : w \in words \cap DOMAIN CapabilitySignals})
    \cup (IF "(long)" \in words THEN {"long_context"} ELSE {})

\* minimumCostForPrompt
CostWords ==
  [very_high |-> {"architecture", "security", "production"},
   high |-> {"explain", "code", "refactor", "bug", "test", "review", "planning"},
   medium |-> {"query", "documentation"}]

MinimumCost(words) ==
  LET Named == {tier \in DOMAIN CostWords : CostWords[tier] \cap words # {}}
  IN  IF Named = {} THEN 0
      ELSE CHOOSE n \in {CostRank(tier) : tier \in Named} :
             \A tier \in Named : CostRank(tier) <= n
-----------------------------------------------------------------------------
Complete(m) == m.provider # "" /\ m.model # ""

\* AvailableSet: without a name that is not blank, everything is reachable.
AvailableSet(offer) == offer \ {""}
Reachable(provider, offer) == AvailableSet(offer) = {} \/ provider \in AvailableSet(offer)

\* The verdict's own test takes a list of blank names for a restriction.
ProviderAvailable(provider, offer) == offer = {} \/ provider \in AvailableSet(offer)

Usable(models, offer) ==
  {n \in DOMAIN models : Complete(models[n]) /\ Reachable(models[n].provider, offer)}

\* The models dear enough for the prompt.
Pool(models, offer, words) ==
  {n \in Usable(models, offer) : CostRank(models[n].cost) >= MinimumCost(words)}

\* The model declares a capability the prompt asks for.
Declares(m, words) == m.capabilities \cap InferCapabilities(words) # {}

\* Variant: a single declared capability does not close the gate.
GatedByTwo(models, offer, words) ==
  LET pool == Pool(models, offer, words)
      declared == {n \in pool : Declares(models[n], words)}
  IN  IF Cardinality(declared) > 1 THEN declared ELSE pool

\* ScoreCandidates: the models left once one that declares is preferred to any that does not.
Gated(models, offer, words) ==
  LET pool == Pool(models, offer, words)
      declared == {n \in pool : Declares(models[n], words)}
  IN  IF declared # {} THEN declared ELSE pool

\* Variant: the first dimension does not dominate the second.
TierScoreFlat(m, preference) ==
  IF preference = "quality" THEN QualityRank(m.quality) * 2 - CostRank(m.cost)
  ELSE (3 - CostRank(m.cost)) * 2 + QualityRank(m.quality)

TierScore(m, preference) ==
  IF preference = "quality" THEN QualityRank(m.quality) * 10 - CostRank(m.cost)
  ELSE (3 - CostRank(m.cost)) * 10 + QualityRank(m.quality)

\* The order of scores; configuration order breaks ties (a stable sort).
Leads(models, preference, n, k) ==
  LET s == TierScore(models[n], preference)
      t == TierScore(models[k], preference)
  IN  s > t \/ (s = t /\ n <= k)

\* SelectCandidateWithConfidence: the head of the ranking, 0 if there is none.
SelectCandidate(models, offer, words, preference) ==
  LET gated == Gated(models, offer, words)
  IN  IF gated = {} THEN 0
      ELSE CHOOSE n \in gated : \A k \in gated : Leads(models, preference, n, k)

LocalConfident(models, n, words) == n # 0 /\ Declares(models[n], words)
-----------------------------------------------------------------------------
\* configuredCandidateSet: the last complete model of that name.
Configured(models, id) == {n \in DOMAIN models : Complete(models[n]) /\ models[n].model = id}
LastConfigured(models, id) ==
  CHOOSE n \in Configured(models, id) : \A k \in Configured(models, id) : k <= n

\* Variant: any model of a higher quality, or of a lower cost, takes its place.
RivalAnyTier(m, chosen, preference) ==
  \/ preference = "quality" /\ QualityRank(m.quality) > QualityRank(chosen.quality)
  \/ preference = "cost" /\ CostRank(m.cost) < CostRank(chosen.cost)

\* ApplyPreferenceTiebreak: m is better than the chosen one in what is preferred
\* and level with it in the other.
Rival(m, chosen, preference) ==
  \/ /\ preference = "quality"
     /\ CostRank(m.cost) = CostRank(chosen.cost)
     /\ QualityRank(m.quality) > QualityRank(chosen.quality)
  \/ /\ preference = "cost"
     /\ QualityRank(m.quality) = QualityRank(chosen.quality)
     /\ CostRank(m.cost) < CostRank(chosen.cost)

\* The first of the best rivals, or the chosen one.
PreferenceTiebreak(chosen, models, offer, preference) ==
  LET rivals == {n \in Usable(models, offer) : Rival(models[n], models[chosen], preference)}
      Beats(n, k) == Rival(models[n], models[k], preference)
  IN  IF rivals = {} THEN chosen
      ELSE CHOOSE n \in rivals : \A k \in rivals : ~Beats(k, n) /\ (Beats(n, k) \/ n <= k)

\* applyPreferenceTiebreak (main.go) compares the names of the models only.
Promoted(chosen, models, offer, preference) ==
  LET n == PreferenceTiebreak(chosen, models, offer, preference)
  IN  IF models[n].model = models[chosen].model THEN chosen ELSE n
=============================================================================
