------------------------------ MODULE MCRouter ------------------------------
(***************************************************************************)
(* Small instances of Execution, and of Routing with it.  Two virtual      *)
(* models, "fast" and "deep", with disjoint candidates of two providers.   *)
(***************************************************************************)
EXTENDS Execution, TLC

T(p, m) == [provider |-> p, model |-> m]
f1 == T("acme", "f1")
f2 == T("bolt", "f2")
d1 == T("acme", "d1")
blank == T("bolt", "")

MCTargets == {f1, f2, d1, blank}
MCCounters == {"requests", "cache_hits", "local_confident", "decision_engine",
               "classifier_calls", "classifier_failures"}

\* One prompt suits f1, another f2; nothing configured is good enough for a third.
MCScore ==
  [p \in Prompts |->
     [t \in Targets |->
        CASE p = "p3" \/ t = blank -> 0
          [] t = f1 -> IF p = "p1" THEN 3 ELSE 1
          [] t = f2 -> 2
          [] OTHER -> 4]]

\* An entry that keeps sessions and is neither cached nor sent back.
EntryOf(strategy, order) ==
  [strategy |-> strategy, order |-> order, models |-> {order[i] : i \in DOMAIN order},
   keepSame |-> TRUE, cacheOn |-> FALSE, ttl |-> 0, maxEntries |-> 1, attempts |-> 1,
   executor |-> FALSE, tries |-> 2]

Cached(e) == [e EXCEPT !.cacheOn = TRUE]
Unpinned(e) == [e EXCEPT !.keepSame = FALSE]
SelfServed(e) == [e EXCEPT !.executor = TRUE]

\* The top level names a virtual model too, which "virtual_models" hides.
ConfigOf(entries, persist) ==
  [enabled |-> TRUE, persist |-> persist, entries |-> entries,
   main |-> "deep", order |-> <<blank, d1>>, tries |-> 3]

Two(fast, deep) == [v \in {"fast", "deep"} |-> IF v = "fast" THEN fast ELSE deep]
One(fast) == [v \in {"fast"} |-> fast]

Call(v, s, p, avail) ==
  [vm |-> v, session |-> s, prompt |-> p, avail |-> avail, stream |-> FALSE]
Streamed(c) == [c EXCEPT !.stream = TRUE]

BareFile(t) ==
  Holding([NoFile.data EXCEPT !.sessions =
             [k \in {BareKey(s) : s \in SessionIds} |->
                [target |-> t, created |-> 1, used |-> 1]]])

EmptyFiles == {NoFile}
LegacyFiles == {BareFile(f1)}

Anyone == Permutations(Requests)

(***************************************************************************)
(* Lanes: every kind of store, and configurations that trade candidates.   *)
(***************************************************************************)
LanesConfigs ==
  {ConfigOf(Two(SelfServed(Cached(EntryOf("decision_engine", <<f1>>))),
                SelfServed(Unpinned(Cached(EntryOf("local", <<d1>>))))), TRUE),
   ConfigOf(One(EntryOf("local", <<f2>>)), FALSE)}
LanesInputs == {Call(v, "s1", "p1", {}) : v \in {"fast", "deep"}}

(***************************************************************************)
(* Sessions: calls of one client that overlap, a cache, no eviction.       *)
(***************************************************************************)
StickyConfigs ==
  {ConfigOf(Two(SelfServed(Cached(EntryOf("decision_engine", <<f1, f2>>))),
                EntryOf("local", <<f2, d1>>)), TRUE)}
StickyInputs ==
  {Call(v, "s1", "p1", {}) : v \in {"fast", "deep"}} \cup
  {Streamed(Call("fast", NoSession, "p1", {"acme"}))}

(***************************************************************************)
(* Progress: a loop of classifier attempts beside a walk of the executor.  *)
(***************************************************************************)
LiveConfigs ==
  {ConfigOf(Two([EntryOf("hybrid", <<f1>>) EXCEPT !.attempts = 2],
                [SelfServed(Cached(EntryOf("decision_engine", <<d1>>))) EXCEPT !.ttl = 1]), FALSE)}
LiveInputs == {Call("fast", "s1", "p1", {}), Call("deep", "s1", "p3", {})}

(***************************************************************************)
(* Instances in which the code departs from its documentation.             *)
(***************************************************************************)
FastLocal == EntryOf("local", <<f1, f2>>)

PickyConfigs == {ConfigOf(One(FastLocal), FALSE)}
PickyInputs == {Call("fast", "s1", "p1", {p}) : p \in {"acme", "bolt"}}

CachingConfigs == {ConfigOf(One(Cached(FastLocal)), FALSE)}
CachingInputs == {Call("fast", s, p, {}) : s \in {"s1", NoSession}, p \in Prompts}

ChainConfigs ==
  {ConfigOf(One(SelfServed(Unpinned(EntryOf("decision_engine", <<f1, f2>>)))), FALSE)}
PromptInputs == {Call("fast", "s1", p, {}) : p \in Prompts}
=============================================================================
