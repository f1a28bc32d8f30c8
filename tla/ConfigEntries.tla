---------------------------- MODULE ConfigEntries ----------------------------
(***************************************************************************)
(* The configuration and its virtual models (internal/domain/config.go).   *)
(*   name    [base, suffixes, padded]: "m(high)" has the base "m" and the  *)
(*           suffixes <<"high">>; a blank text is "".                      *)
(*   block   the routing fields that the top level and every entry have:   *)
(*           [name, strategy, preference, cache, executor_fallback,        *)
(*            classifier, models]                                          *)
(*   config  [top, entries, catalog, pricing], top a block and entries a   *)
(*           sequence of blocks.                                           *)
(* The case and the padding of other texts than names are left out, and so *)
(* are rules, headers and the weights of routing, which are only copied.   *)
(***************************************************************************)
EXTENDS Integers, SequencesExt, FiniteSetsExt

CONSTANT Texts  \* what a text of a configuration may be

ASSUME TextsAssumption == {"capability", "balanced", "router:auto"} \subseteq Texts

PlainName(base) == [base |-> base, suffixes |-> <<>>, padded |-> FALSE]
Names == [base : Texts, suffixes : Seq(Texts), padded : BOOLEAN]
Caches == [enabled : BOOLEAN, max_entries : Int]
Fallbacks == [enabled : BOOLEAN, max_attempts : Int]
Classifiers == [enabled : BOOLEAN, models : Seq(Texts), max_tokens : Int]
Blocks ==
  [name : Names, strategy : Texts, preference : Texts, cache : Caches,
   executor_fallback : Fallbacks, classifier : Classifiers, models : Seq(Texts)]
ConfigRecords ==
  [top : Blocks, entries : Seq(Blocks),
   catalog : [base_url : BOOLEAN, refresh_interval : Int, include_router_model : BOOLEAN],
   pricing : [enabled : BOOLEAN, refresh_interval : Int]]

DefaultVirtualModel == PlainName("router:auto")

Preferences == {"cost", "balanced", "quality"}

\* DefaultConfig, and what an entry holds before it is decoded, but for a name
\* (UnmarshalYAML).
DefaultBlock ==
  [name |-> DefaultVirtualModel, strategy |-> "capability", preference |-> "balanced",
   cache |-> [enabled |-> TRUE, max_entries |-> 1024],
   executor_fallback |-> [enabled |-> FALSE, max_attempts |-> 3],
   classifier |-> [enabled |-> FALSE, models |-> <<>>, max_tokens |-> 500],
   models |-> <<>>]

\* The elements of s at the positions K, in their order: what a loop that skips
\* the others collects.
Keep(s, K) ==
  LET Rank(k) == Cardinality({j \in K : j <= k})
  IN  [n \in 1 .. Cardinality(K) |-> s[CHOOSE k \in K : Rank(k) = n]]

Blank(name) == name.base = "" /\ name.suffixes = <<>>
TrimSpace(name) == [name EXCEPT !.padded = FALSE]

OrDefault(n, default) == IF n <= 0 THEN default ELSE n

normalizePreference(preference) ==
  IF preference \in Preferences THEN preference ELSE DefaultBlock.preference

normalizeCache(cache) ==
  [cache EXCEPT !.max_entries = OrDefault(@, DefaultBlock.cache.max_entries)]

normalizeExecutorFallback(fallback) ==
  [fallback EXCEPT !.max_attempts = OrDefault(@, DefaultBlock.executor_fallback.max_attempts)]

normalizeClassifier(classifier) ==
  [classifier EXCEPT !.max_tokens = OrDefault(@, DefaultBlock.classifier.max_tokens),
                     !.models = Keep(@, {n \in DOMAIN @ : @[n] # ""})]

\* Normalize on one block.
NormalizeBlock(b) ==
  [b EXCEPT !.name = TrimSpace(@),
            !.strategy = IF @ = "" THEN DefaultBlock.strategy ELSE @,
            !.preference = normalizePreference(@),
            !.cache = normalizeCache(@),
            !.executor_fallback = normalizeExecutorFallback(@),
            !.classifier = normalizeClassifier(@)]

\* The top level always has a name; an entry without one is dropped.
Normalize(c) ==
  LET top == [c.top EXCEPT !.name = IF Blank(@) THEN DefaultVirtualModel ELSE @]
      normal == [n \in DOMAIN c.entries |-> NormalizeBlock(c.entries[n])]
      named == {n \in DOMAIN normal : ~Blank(normal[n].name)}
  IN  [c EXCEPT !.top = NormalizeBlock(top), !.entries = Keep(normal, named)]

\* ResolveEntries: the first entry of each name, or the top level as the only one.
ResolveEntries(c) ==
  LET cfg == Normalize(c)
      New(n) == \A k \in 1 .. n - 1 : cfg.entries[k].name # cfg.entries[n].name
  IN  IF cfg.entries = <<>> THEN <<cfg.top>>
      ELSE Keep(cfg.entries, {n \in DOMAIN cfg.entries : New(n)})

\* Variant: the host is trusted to have stripped the suffix.
StripNothing(name) == name

\* "m(high)" is "m", but "(high)" and "m()" are themselves.
stripThinkingSuffix(name) ==
  IF \/ name.suffixes = <<>> \/ Last(name.suffixes) = ""
     \/ name.base = "" /\ Len(name.suffixes) = 1
  THEN name
  ELSE [name EXCEPT !.suffixes = Front(@)]

\* Which of the resolved entries answers to a name, 0 if none does.
LookupEntry(c, name) ==
  LET wanted == stripThinkingSuffix(TrimSpace(name))
      entries == ResolveEntries(c)
      named == {n \in DOMAIN entries : entries[n].name = wanted}
  IN  IF Blank(wanted) \/ named = {} THEN 0 ELSE Min(named)

Found(c, name) == LookupEntry(c, name) # 0

\* WithEntry: the routing fields of the entry beside the plugin-wide ones.
WithEntry(c, name) ==
  [Normalize(c) EXCEPT !.top = ResolveEntries(c)[LookupEntry(c, name)]]

VirtualModelNames(c) == {ResolveEntries(c)[n].name : n \in DOMAIN ResolveEntries(c)}

\* anyEntryExecutorFallback (main.go)
anyEntryExecutorFallback(c) ==
  \E n \in DOMAIN ResolveEntries(c) : ResolveEntries(c)[n].executor_fallback.enabled
=============================================================================
