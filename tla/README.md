# Verification of smart-model-router

`smart-model-router` (cli-smart-router) is a plugin, one shared library in Go,
that a proxy (CLIProxyAPI, "the host") loads. A client asks for a *virtual
model*; the plugin answers each call with a concrete provider and model, or
takes the call back and walks over several of them itself. This directory holds
a TLA+ model of that plugin, the TLC runs that check it on small instances and
the TLAPS proofs that hold for every instance.

Paths below are relative to the repository; `main.go` is `cmd/plugin/main.go`,
`runtime_state.go` is `internal/infrastructure/runtime_state.go`.

    tlc -workers 2 -config MCRouterSticky.cfg MCAffinity.tla   # any run of the table below
    tlapm RoutingProofs.tla                                    # any *Proofs module

## 1. The system

### Components

| Component | Source | State | Operations | Model |
|---|---|---|---|---|
| Runtime state | `runtime_state.go` | three bounded maps (session pins, route cache, fallback chains), counters, last decision, the state file, the time of the last throttled save | get, set, delete, expire, evict, count, load, save, throttled save; each under one mutex, but for the marshalling of a save | `LRUMap`, `EvictionLoop`, `RuntimeState`, `StatePersistence`; catalog and prices in `Lifecycle` |
| Routing pipeline | `main.go`, `application/router.go`, `infrastructure/state.go` | the configuration in force; per call: what it loaded, what it has found, how many attempts it made | `model.route`: pin, migration of old pins, cache, one of four strategies, classifier loop, write back, save; `plugin.register` / `reconfigure`; `usage.handle` | `Routing`, with `Affinity` for sessions; the decision itself in `Strategies` |
| Executor fallback | `main.go` (1009-1105), `domain/fallback.go` | per call: the targets it walks over | `executor.execute` | `Execution` |
| Policy engine | `domain/policy_engine.go`, `application/policy_router.go` | none: a function of rules, facts, candidates and offer | evaluate, rank, forward | `PolicyEngine`, run by `Strategies` |
| Candidate selection | `domain/policy.go`, `capability.go`, `model.go` | none | cost floor, capability gate, score, preference tiebreak | `Selection`, run by `Strategies` |
| Configuration, virtual models | `domain/config.go`, `infrastructure/yaml_config.go` | none | normalize, resolve entries, strip thinking suffixes, scope | `ConfigEntries`, run by `Lifecycle` |
| Prompt, context, intent, complexity | `domain/prompt_shape.go`, `context.go`, `intent*.go`, `complexity.go`, `infrastructure/prompt.go` | none | text to facts | `RequestFacts`, `Complexity`, run by `Strategies` |
| Classifier verdicts | `main.go` (695-982) | per call: the attempt | ask one classifier after another, find the verdict in the answer, prefer a rival | `Verdict`, run by `Strategies` |
| External refresh | `main.go` (500-588) | catalog, prices, when they were fetched | refresh when due | `Lifecycle` |
| Registration, management | `main.go` (189-197, 1107-1231), `application/registrar.go` | what the host has been told | register, announce the models; render a page | `Lifecycle`, but for the page |
| Usage learning | `application/usage.go` | sums per model | record | not modelled: nothing reads them back |
| Host transport, ABI | `main.go` (1233-1291), `cliproxy.go`, `rpc.go` | none | JSON envelopes | a host call is one choice of outcome |
| Scripts | `scripts/*.py` | none | benchmark, smoke test | not modelled |

### How they interact

The host calls the plugin through one entry point (`handleMethod`), on any number
of threads at once. All calls share one configuration (an atomic pointer) and one
runtime state (a struct behind a mutex). A call is atomic only from one access of
these, or of the host, to the next. There is no other synchronisation: no call
waits for another, and no lock is held across two accesses. The plugin calls back
into the host to ask a classifier or to execute a target; these callbacks are
synchronous and cannot be cancelled. A call that is answered "self" comes back as
`executor.execute`, with its session and virtual model but without the route it
was given: what links the two is the runtime state.

Within a call, configuration comes first: the requested name picks an entry, and the
entry's routing fields replace those of the top level (`WithEntry`), once in
`routeModel` and once more in `Router.Route`. Then the catalog and the prices are
refreshed if they are due, on the call's own thread. What decides sees the request
through the analysers (prompt, task, language, complexity), and every strategy ends in
the local choice when it has no answer of its own. In the other direction the plugin
tells the host which names it answers to and whether it can execute, on registration
and reconfiguration only.

### What is hard

- *Interleaving*: pin lookup, decision and pin write are separate critical
  sections; the migration of an old pin is three of them.
- *Stale state*: pins and cached routes outlive the configuration and the provider
  offer they were made under; the executor reloads the configuration; a
  reconfiguration makes the new configuration visible before the state file is
  read back, in the middle of other calls.
- *Order of eviction*: by timestamps that hits, writes, reloads and equal clock
  readings all set; the code iterates over Go maps, in any order.
- *Persistence*: a save copies a struct whose maps are shared with the original,
  and writes the file in place.
- *Failure*: five ways in which a classifier attempt can fail, any number of failing
  targets, failing saves that nobody looks at, failing fetches, crashes.
- *Agreement between parts*: the same question (is this provider offered, which entry
  has this name, which rule wins, which model is meant) is answered in two or three
  places by different code.

### What makes each part correct

*Runtime state*: no map exceeds its bound, unless the file brought in more,
and then the next new key trims it; the least recently used key goes, and only to make room; a key never yields what was stored under another; an entry
older than the TTL is never served, however often it is hit; a save that nothing
interferes with survives a crash. *Routing*: no answer crosses virtual models; a
session keeps its target, but for calls that overlap; only calls that overlap move
an old pin, and to one target; every call ends. *Execution*: it walks targets of its own
virtual model, beginning with the one routed to, and ends. *Policy engine*: its two
evaluations agree, its ranking is complete, ordered and free of repetition, and
the head is found again when it is forwarded. *Decision*: whatever the strategy, the
answer is a configured model the host offers; none goes unanswered that another part
could have answered; the local choice depends on nothing that loses; a preference
never moves a classifier's pick to a dearer or a lesser model; a verdict is found
whatever surrounds it; requests under one cache key have one task. *Lifecycle*: "self"
is only answered when the host knows the plugin can execute; what was announced is
found, in every spelling and at every lookup; refreshes keep their distance, fail
harmlessly and block nothing.

## 2. Modules

    LRUMap ----- EvictionLoop ---- EvictionLoopProofs
      |
    RuntimeState ----- LossyStore              refinement: pins and cache implement it
      |   |   \
      |   |    CacheHistory ------ RuntimeStateProofs
      |   |          \----------- MCRuntimeState
    Routing ---------- RoutingProofs ---\      also extends RuntimeStateProofs
      |                                 ExecutionProofs
    Execution ------ Affinity --------- /
      \--------------- MCRouter ---- MCAffinity      also extends Affinity
    StatePersistence - MCStatePersistence, StatePersistenceProofs

    PolicyEngine ----- PolicyEngineProofs --\
      |                                      StrategiesProofs
    Strategies ---------------------------- /  also extends Verdict (which extends Selection)
      \--------------- MCStrategies            and RequestFacts (which extends Complexity)
    ConfigEntries ---- Lifecycle ---- MCLifecycle, LifecycleProofs

**LRUMap**: operators on one bounded map. `EvictTo` is a *set* of maps, one for each
way of breaking ties between equal timestamps. `EvictionLoop` is the loop of the code
(`for len(m) >= max { evictLRU(m) }`, 344-359), iteration by iteration, with the
empty key as the mark for "nothing found yet"; it has proofs and no run of its own.

**RuntimeState**: one operator per method of the Go type (`GetSessionRoute`,
`SetCachedRoute`, `LoadFromFile`, ...). An operator constrains the variables its
method writes and no others, so handlers are composed of them. Its own `Spec` lets any
caller do anything. A save copies the struct under the mutex (`CopyData`), marshals maps that
the copy shares with the original after it has let go (`Marshal`: some keys are found as
they are later), and writes the file (`WriteFile`, which may fail); `draft` is what it has so
far, and a reload gives the state new maps and leaves it the old ones (`Detached`). `encoding/json` sizes its
list of a map's entries when it begins, so a save finds no more than that. One save is under
way at a time here. An entry holds its target, the time of the decision and that of
its last use; reasons and scores of entries are left out. A pin key is a pair
`<<virtual model, session>>`, the code's two strings joined by a NUL; a bare pin, of
a version without virtual models, has `Bare` in the place of the model.

**CacheHistory**: the route cache beside its history, that is, when each key was last hit or
written and when the decision it holds was taken. What eviction and expiry promise is
stated of the history, never of the timestamps that the code goes by.

**LossyStore**: what a caller may rely on. Reading a key yields what was last
written under that very key, or nothing; a save collects what the
keys hold, each at a time of its own, and a reload puts that back.

**Routing**: `routeModel` for several calls at once. `pc[r]` is the next access to
shared state, and each action stands for the code from that access to the next:

| Action | Code |
|---|---|
| `Load` | load the configuration, pick the entry, count the call (222-235) |
| `Session`, `Legacy`, `Migrate`, `Forget` | `sessionRoute` (613-636), one action per critical section |
| `Cache` | `cachedRoute` (638-643): hit, expiry, miss or cache off |
| `Decide`, `Record` | the switch over the strategies (245-287); the engine stores its chain, then counts and records |
| `Classify`, `HostSelects`, `HostFails` | `classifyRoute` (695-769): the next attempt, a usable verdict, any failure |
| `Local` | the deterministic decision, or "not handled" (288-293) |
| `StoreCache`, `StorePin`, `Save` | `storeRoute` (645-659) |
| `Reconfigure`, `LoadState` | `handleMethod` (189-197) |
| `HandleUsage` | `handleUsage` (996-1007), which saves without asking the throttle |

The engine's ranking, a classifier's verdict and its tiebreak are any choice among
the eligible candidates; the local decision is a function of the prompt (`Score`).
`Strategies` shows that the real ones make such a choice (`DecidesAmongOffered`). A save is one
step here: what others write while it marshals is in `RuntimeState`.

**Execution**: `executeWithFallback`, per call `Execute` (load the configuration
again), `ReadChain` (the stored chain, else the configured models, capped, of the entry or, for
a virtual model that is gone, of the top level), `Skip` (a blank model), `Attempt` and `Exhausted`. A call whose answer is to be streamed does not come back.

**Affinity**: `Execution` between two reconfigurations, with a history: `before[r]` is the
calls that were over, answered and executed, when `r` was let in, so that `Overlap` tells calls
that overlap from calls that follow. Its properties say that a session's answers, its pin, its
chain and its walk come apart in one way only: two calls overlapped, the one pinned the session
and the other had found something else for it (`Rival`, `Rivals`).

**StatePersistence**: a save taken apart into throttle (the test, and the note of the time, under
one lock), snapshot under the lock,
marshalling key by key without it, truncation, write; a load into reading the file and
replacing the maps; writers that hold the lock for two steps; failing writes,
crashes, restarts. What the data race does is left to the Go runtime: it ends the
process, or the reader finds the old entry, the new one, or a torn one. `letThrough`,
`alone`, `lastWrite` and `kept` are history variables that the properties need.

**PolicyEngine**: both evaluations rule by rule, the sort (any permutation that is
in order), the removal of repeated targets, the forwarding of the head. A condition
with its parameter is an atom, and the facts of a call are the atoms it satisfies. The
code compares targets as the string `provider/model`; the model compares pairs, which
is the same as long as no provider's name contains a slash.

**Selection**, **Verdict**, **Complexity**, **RequestFacts**: pure operators, one for each
function of the code they are named after. A text is what the analysers find in it
(keywords, markers, file names, the student model's opinion), never characters. A
classifier's reply is a sequence of tokens, because the search for JSON objects in it
is about brackets (`open`, `close`) and quotes. The complexity score is exact, in units of 1/48000 of a
point, where the code adds floating-point numbers.

**Strategies**: one call from its request to its answer. It extends `PolicyEngine`, whose
scan, sort and forwarding are the steps of its `Engine` action.

| Action | Code |
|---|---|
| `Capability`, `Confident`, `Consult`, `ConsultEngine` | the switch over the strategies (`main.go` 245-287) |
| `ClassifierFails`, `ClassifierDecides`, `Exhausted` | the loop of `classifyRoute`: the next reply gives no verdict, or one, or none is left |
| `Engine`, `EngineDecides`, `EngineAbstains` | `decisionEngineRoute` |
| `Local` | `Router.Route`, or "not handled" |

**ConfigEntries**: a configuration is a top-level block and a list of entries. A name is a
base, a list of parenthesised suffixes, and whether blanks surround it.

**Lifecycle**: the host sends configurations one at a time, while threads serve calls:

| Action | Code |
|---|---|
| `Configure`, `LoadState`, `Register`, `Announce` | `plugin.register` and `plugin.reconfigure` access by access, then `model.register` |
| `Load`, `Answer` | the beginning and the end of `routeModel`, with "self", a provider or nothing as the answer |
| `Refresh`, `FetchCatalog`, `FetchPricing` | `refreshExternalState`: the snapshot and the tests, then one host call each |
| `Save`, `Tick` | the state file as far as it holds catalog and prices; the clock |

`ended`, when fetches last ended, is a history variable.

Operators under a comment that begins "Variant:" are deliberate deviations, of
the kind a slip in the code would cause. No specification uses them. Each belongs to
one property: with the variant in the place of the definition below it, TLC finds that
property violated, which shows that the property and the instance are sensitive to it.

## 3. Runs

All runs take from seconds to a few minutes with two workers.

| Run | Module, configuration | What it shows |
|---|---|---|
| `state` | `MCRuntimeState` | Type, bounds, order of eviction, expiry, and refinement of `LossyStore` by pins and cache. Three virtual models, room for two entries (or one, when the caller says so), clock to 4; starting files with an old pin, with more pins than there is room for, and with a cache larger than any limit. `NewKeyTrims`: the next new key brings such a map down. |
| `lanes` | `MCRouter`, `MCRouterLanes.cfg` | Two concurrent calls through two virtual models, routed and executed beside reconfiguration, reload, usage reports and eviction: `LanesApart`, `ExecutesInLane`. |
| `sticky` | `MCAffinity`, `MCRouterSticky.cfg` | Three calls of one session, two at a time, through two virtual models, one of them with a cache, and an old pin in the file: `SessionAffinity`, `LegacyOnce`, `PinHeadsChain`, `WalkLeadsWithRoute`, `PinsStable` (what overlapping calls may do to a session and what they may not). |
| `progress` | `MCRouter`, `MCRouterProgress.cfg` | Every call is answered and every execution ends, under the fairness of section 4; `CountersAgree`. |
| `persistence` | `MCStatePersistence` | Two calls write, save and reload step by step, with failures, a crash and a restart: `QuietSaveSurvives`, `ThrottleHolds`. The throttle's test and its note of the time are two steps under one lock. |
| `decision` | `MCStrategies` | Calls from request to answer under every strategy: every list of up to 3 rules over every list of up to 3 candidates, rankings of three models of seven kinds, replies of up to nine tokens. The engine's agreement, exactness, forwarding and availability; and the properties of the decision named above. |
| `lifecycle` | `MCLifecycle` | Calls beside reconfiguration, registration, saves, reload and failing fetches: `SelfHasExecutor`, `AnnouncedIsRoutable`, `RefreshSpacing`, and `RefreshNeverBlocks` under fairness. |
| `unpinned_hit` | `MCUnpinnedHit.cfg` | *violated*: a session answered from the cache is not pinned. |
| `stale_provider` | `MCStaleProvider.cfg` | *violated*: a pin is answered although the host no longer offers its provider. |
| `other_chain` | `MCOtherChain.cfg` | *violated*: a call the engine abstains on is answered by the local choice and executed on the chain an earlier call of its session left. |
| `fatal_save` | `MCFatalSave.cfg` | *violated*: a pin is written while another call marshals the same map. |
| `torn_file` | `MCTornFile.cfg` | *violated*: two successful saves leave a file that does not parse. |

### Bounds, and why they are enough

- *Calls*: every race in this code is between two accesses of one call and one access
  of another, so two calls show it; `sticky` needs a third for "two overlap, and the
  third follows". `AtOnce` bounds how many calls of one session are under way together:
  two there, any number in the proofs. Background actors (reconfiguration, load,
  usage, clock) come on top.
- *Map bounds*: with room for one or two entries and three or four keys, eviction
  happens, including the choice between equal timestamps. The proofs lift the bounds.
- *Clock* (`MaxTime`): the code compares ages with a TTL or an interval. With a TTL of
  one and a clock to three or four, entries are fresh, at the limit, and expired.
  `MaxTime`, `MaxCount` (counters of `RuntimeState` on its own), `MaxStarts`
  (restarts of `StatePersistence`), `AtOnce` and `SavesFail` (`sticky`: every save fails; the
  file is read once, before any call, so nothing saved is ever read) are the only bounds that cut behaviours off;
  calls are finite in number because each member of `Requests` is made once.
- `decision` is a union of families (`MCCalls`), each of which varies what one part
  looks at and fixes the rest: rules and candidates for the engine; every kind of
  condition, in lists of up to two rules; all ordered pairs of requests for the cache
  key; three models, of seven kinds each, against six prompts and six offers for the
  local choice; two classifiers with every pair of five replies; and some 2500 replies
  to one classifier: all four-token texts that name the model, and verdicts between all
  pairs of nine kinds of noise. Three candidates are what a tie, a repeated name and a
  loser need. Every outcome of each keyword table has a keyword.
- `lifecycle`: a refresh has at most three accesses, and all its races are between one
  of them and one other refresh, which the host's thread makes beside the one thread of
  calls. The clock goes to two, with intervals of two (catalog) and one (prices): due,
  not due and due again. Its three configurations have no entry, one under a padded
  legacy name, and five with repeated, blank, padded and suffixed names, of which only
  some fall back.
- `MCRuntimeState` exercises one map at a time (`focus`), either with the clock and a reload of
  the starting file, or with a save that marshals while others write. The maps share nothing
  but the file, and a load replaces pins and cache together. `CacheHistory` goes without save
  and reload: what a reload does to the order of eviction is left to `PinsEvictOldest`,
  which goes by the times in the file.
- *Symmetry*: calls are alike; so are virtual models in `MCRuntimeState`, and threads
  and keys in `MCStatePersistence`. No run with symmetry checks a liveness property.
- `CHECK_DEADLOCK FALSE` is set where the system comes to rest: all calls answered, an
  evaluation done, the restarts used up.

### Assumptions of single runs

The run `sticky` is between two reconfigurations (a reload in the middle of calls loses pins,
see section 6), and has room for every pin; calls overlap and the cache is on. An answer from
the cache pins nothing, so `SessionAffinity` speaks of the calls after one that did not come
from the cache; the run `unpinned_hit` shows that this cannot be dropped.

## 4. Fairness

`FairExec` has weak fairness for the steps of each call, routing and execution, and
for nothing else: not for new calls, reconfiguration, load, usage reports or the clock.
Each call runs on an operating-system thread of the host's that the scheduler does
not starve. A step is an access under a mutex that every holder gives up after a
finite computation, or a call of the host. The latter is the one assumption about the
outside (in `FairSpec` of `Lifecycle` too): the host answers every call it gets, well or badly (`callHost` is
synchronous, and a host that never answers would block that thread for good;
`docs/configuration.md:536` says as much).

`FairSpec` of `Lifecycle` has weak fairness for the host's thread once it has sent a
configuration, and for each call that was let in; not for new calls, new configurations,
saves or the clock. That the host sends one configuration at a time, and announces the
models before it sends the next, is an assumption about the host.

## 5. Proofs

| Theorem | Module | Statement |
|---|---|---|
| `TypeCorrect` | `RuntimeStateProofs` | `Spec => []TypeOK` |
| `StateBounded` | `RuntimeStateProofs` | `Spec => []Bounded` |
| `NewKeysTrim` | `RuntimeStateProofs` | `Spec => NewKeyTrims` |
| `OldestPinsGo` | `RuntimeStateProofs` | `Spec => PinsEvictOldest` |
| `PinsImplementStore` | `RuntimeStateProofs` | `Spec => PinsAreLossyStore` (refinement) |
| `CacheImplementsStore` | `RuntimeStateProofs` | `Spec => CacheIsLossyStore` (refinement) |
| `LeastUsedGoes` | `RuntimeStateProofs` | `HistorySpec => LeastRecentlyUsedGoes` |
| `NothingStaleServed` | `RuntimeStateProofs` | `HistorySpec => NoStaleHit` |
| `LoopLeavesEvictTo` | `EvictionLoopProofs` | `LoopAssumption` entails `Spec => []LoopMeetsEvictTo` |
| `LoopAlwaysShrinks` | `EvictionLoopProofs` | `LoopAssumption` entails `Spec => LoopShrinks` |
| `PersistenceTypeCorrect` | `StatePersistenceProofs` | `Spec => []TypeOK` |
| `ThrottleKept` | `StatePersistenceProofs` | `Spec => ThrottleHolds` |
| `QuietSaveKept` | `StatePersistenceProofs` | `Spec => QuietSaveSurvives` |
| `RoutingTypeCorrect` | `RoutingProofs` | `RoutingSpec => []RoutingTypeOK` |
| `LanesStayApart` | `RoutingProofs` | `RoutingSpec => []LanesApart` |
| `ExecTypeCorrect` | `ExecutionProofs` | `ExecSpec => []ExecTypeOK` |
| `ExecutionKeepsLane` | `ExecutionProofs` | `ExecSpec => []ExecutesInLane` |
| `CountersExact` | `ExecutionProofs` | `CountsFromZero` entails `ExecSteadySpec => []CountersAgree` |
| `SessionsStick` | `ExecutionProofs` | `RoomForPins` entails `AffinitySpec => []SessionAffinity` |
| `LegacyMovesOnce` | `ExecutionProofs` | `RoomForPins` entails `AffinitySpec => []LegacyOnce` |
| `PinsHeadChains` | `ExecutionProofs` | `RoomForPins` entails `AffinitySpec => []PinHeadsChain` |
| `ChainStartsWithRoute` | `ExecutionProofs` | `RoomForPins` entails `AffinitySpec => []WalkLeadsWithRoute` |
| `PinsStayStable` | `ExecutionProofs` | `RoomForPins` entails `AffinitySpec => PinsStable` |
| `PolicyTypeCorrect` | `PolicyEngineProofs` | `Spec => []TypeOK` |
| `EvaluationsAgree` | `PolicyEngineProofs` | `Spec => []BestHeadsChain` |
| `ChainExact` | `PolicyEngineProofs` | `Spec => []ChainIsExact` |
| `ForwardFindsHead` | `PolicyEngineProofs` | `Spec => []ForwardsHead` |
| `ChainAllowed` | `PolicyEngineProofs` | `Spec => []ChainIsAllowed` |
| `RunsTheEngine` | `StrategiesProofs` | `CallSpec => Spec` of `PolicyEngine` (refinement) |
| `DecisionsAmongOffered` | `StrategiesProofs` | `CallSpec => []DecidesAmongOffered` |
| `NobodyElseCould` | `StrategiesProofs` | `CallSpec => []UnhandledOnlyWithoutCandidate` |
| `PreferenceOrders` | `StrategiesProofs` | `CallSpec => []PreferenceOrdersGate` |
| `LosersAloneMove` | `StrategiesProofs` | `CallSpec => []OnlyLosersMove` |
| `TiebreakStays` | `StrategiesProofs` | `CallSpec => []TiebreakStaysInTier` |
| `KeysTellTasks` | `StrategiesProofs` | `CallSpec => []SameKeySameTask` |
| `VerdictsSurvive` | `StrategiesProofs` | `CallSpec => []VerdictSurvivesNoise` |
| `LanguageIsDeterminate` | `StrategiesProofs` | `CallSpec => []LanguageDeterminate` |
| `ScoreBounded` | `StrategiesProofs` | the complexity score is in `0 .. 100`, for all sizes |
| `ScoreMonotone` | `StrategiesProofs` | a request larger in all respects has no lower score or tier |
| `VeryHighTakesEverything` | `StrategiesProofs` | as the plugin calls it, the score is at most 75, and the highest tier takes all four factors near their limits |
| `SelfFindsExecutor` | `LifecycleProofs` | `Spec => []SelfHasExecutor` |
| `AnnouncedIsFound` | `LifecycleProofs` | `Spec => []AnnouncedIsRoutable` |
| `RefreshSpaced` | `LifecycleProofs` | `Spec => RefreshSpacing` |

So every safety property of the passing runs is proved for all values of the constants that
satisfy the assumptions and hypotheses below; those about sessions and counters, between two
reconfigurations.

### From which assumptions

The named assumptions about constants, each of which TLC evaluates on every run of its
module, and for nine theorems a hypothesis besides:

- `InitFilesAssumption`: the file the plugin starts with is absent, or holds finitely many pins
  and cache entries of the right types; how many, and under which limits they were made, is
  left open.
- `NulFree` (hypothesis within `SameKeySameTask`): no prompt holds the byte that joins the parts of
  a cache key, with which two requests may have one key. The hash over the key is taken to
  be injective.
- `PersistenceAssumption`, `LifecycleAssumption`: finitely many keys; the marks for "no
  entry", "torn", "never" and the host's thread are none of the things they stand beside.
- `ConfigsAssumption`, `TextsAssumption`: a configuration is any record that the YAML types
  allow, over any texts that include the three defaults; the plugin starts with
  `DefaultConfig`.
- `CallsAssumption`, `RequestsAssumption` (`Strategies`): lists are finite, there are as many
  replies as classifiers that may be asked, no model is named like a token of punctuation, a
  file's language is one of `Alphabet`, and the identity of a text tells two texts apart
  (the code compares the texts themselves).
- `LoopAssumption` (hypothesis of `EvictionLoopProofs`): finitely many keys, of which none
  is the empty string (every writer returns early on one), and a bound of at least one.
- `CountsFromZero` (hypothesis of `CountersExact`): finitely many calls, and a state file
  that counts nothing; counters of an older file would only be added to.
- `RoomForPins` (hypothesis of the five theorems about sessions): there are no more pin keys
  than `MaxEntries`. A pin that is evicted is decided anew, and nothing could be said of it.
  `AffinitySpec` leaves out reconfiguration, and with it the reload that loses pins. Nothing is
  assumed of clients, caches, strategies or entries.

### Along which argument

*The maps* (`RuntimeStateProofs`): what `Touch`, `Drop`, `Put`, `EvictTo` and `Insert`
return: the type, the domain, and the entries left alone; that `Insert` keeps a map
within its bound, and that what it loses was used no later than what it keeps. The
proofs about pins, cache, chains, routing and execution all cite these by name.

*Bounds* (`StateInv`): `Bounded` is not inductive, since a load replaces the
maps by those of the file. The invariant says of the file's maps and of the draft's what `Bounded`
says of those in memory, and that the domains are finite, without which `Cardinality` says
nothing. `NewKeysTrim` needs only the finite domains: `EvictTo` leaves fewer than the limit,
however many there were.

*Lossy store*: each operation on the map is a step of the store or a stutter: a
hit, which only renews, is a stutter; a deletion or an expiry forgets one key; a write
stores one key and forgets those evicted, or itself and nothing else when the key was
there; save and load are the store's own. Types are needed for this, since what is
forgotten must have been a target, so the step lemmas assume `StateInv`.

*Eviction and expiry* (`HistoryInv`): every entry carries the times that the history has
for its key. A hit renews the one and leaves the other, which is the point: expiry
looks at the time no hit renews.

*Eviction loop* (`EvictionLoopProofs`): what is left has a part of the original's entries,
none of them younger than one that is gone, and never fewer than the bound asks for;
at the exit this is the closed form `EvictTo` that everything else is built on.

*Saving and loading* (`PersistenceInv`): a save is "alone" from its snapshot on as long as
nobody writes, loads or saves. Of such a save the invariant says that what it has
marshalled so far is what memory holds, that nobody holds the lock, and that the file it has
opened is empty (`QuietOK`); and that what the last such save wrote is what the file
holds and parses (`KeptOK`). For the throttle the invariant says that at most one call holds the
lock, that between its test and its note of the time the throttle is still open
(`LockOK`), and that `letThrough = lastDiskSave`, which a crash resets on both sides.

*Lanes* (`RoutingProofs`): `LanesApart` speaks of answers; the invariant follows the
target through everything it passes. Under the key of a virtual model, each map, in
memory and in the file, holds targets of its lane (`StateOK`); a call that carries a
route carries one of its own lane (`CallOK`), also between reading the bare pin and
writing it back. It is proved for any number of calls, sessions, prompts, virtual models
and configurations, with reconfiguration and reload at any moment.

*Execution* (`ExecutionProofs`): calls and executions share the chains. The invariant says
of every stored chain that its targets belong to the virtual model in its key
(`ChainsOwn`), which only the engine's step can break, and of every walk that it belongs
to the call's own virtual model while that is configured (`WalkOK`). A call is executed
only after it is routed, so that no step of routing changes what its execution looks at.

*Counters* (`CountInv`): each counter is the size of a set of calls (those let in, those
answered by each source, those asking), and each step moves one call from one set to
another while it counts once. That takes: a call still searching has no source, and
nothing is counted before the file is read.

*Sessions* (`AffinityInv`): by place in the code. A call past the lookup that missed its pin
(`Missed`) may find a pin there later, but then another call that missed it as well has stored
it (`MissedOK`); of one that has found or stored its pin (`Settled`), the pin stays, with its
target or that of a rival (`SettledOK`). So a call let in after it was over finds the
pin (`FollowsOK`): that is `SessionAffinity`. Calls that move an old pin have its target while it is
there, and once one has deleted it no other begins (`BareOK`, `MovingOK`). Every stored chain is
that of a call the engine decided (`ChainsOK`), which went on to pin the session, and every
walk that of one that did not begin after the executed call (`ExecutedOK`). Two calls of one
session that disagree are therefore such that neither was over when the other was let in.

*Policy engine* (`PolicyEngineProofs`): during the scan, `best` is among the matches and
precedes all others (`BestIsFirst`), and every rule passed that applies has left its
decision there (`Collected`); after the sort the matches are in order, so `best` is the
first; while repetitions are removed, the chain consists of matches before `i`
(`ChainFromMatches`), in order and without repetition, and covers each of them by an entry
that names the same target and does not come later (`ChainCoversMatches`). Every
decision names an allowed target (`Found`), so looking it up again by its own names
finds a candidate equal to it (`TargetAgain`).

*Decision* (`CallInv`): for each stage, why it was reached (which classifiers have failed,
that the engine has abstained), and at the end who decided and on what (`Decider`). Each
step is a step of `PolicyEngine` or leaves its variables alone (`RunsTheEngine`), so
`ChainExact` and its like hold inside a call and are cited from there. What is left is about
operators. The local choice leads all that pass the gate (`LocalLeads`: a strict order
on cost, quality and position has one leader, found by induction on the naturals below a
bound, `Least`). A verdict parsed is usable, and one that is accepted is parsed
(`ParsedIsUsable`, `AcceptedIsParsed`). The scan of a text is a recursive function, unrolled
token by token (`ScanSteps`): before the first brace of a complete verdict nothing can
close it, so it balances at its own end (`CompleteVerdict`). The fold over
the counted languages is unrolled likewise (`TopLanguageFolds`), and leads what it has seen
so far (`Leading`) in an order that is total because the alphabet breaks ties.

*Complexity*: each factor's share is between zero and its weight and
grows with the size; the sums follow, and rounding keeps their order.

*Configurations and lifecycle* (`LifecycleProofs`): `Normalize` leaves a block normal
whatever it was given, and `ResolveEntries`, `WithEntry` and the collecting of names keep it
so; hence every name listed without a suffix is found by both lookups in every spelling
(`ListedIsFound`). The invariant of the lifecycle: what the host has been told is of
the configuration in force, unless one is on its way (`HostTold`); a call answered "self"
loaded a configuration that falls back (`SelfEarned`); the time a refresh looks at is that of
the last fetch that ended since the last reload (`FetchesKnown`).

### Only model-checked

`EveryCallAnswered`, `EveryExecutionEnds` and `RefreshNeverBlocks`: liveness under
fairness, which TLAPS cannot do. What the keyword tables, weights and analysers compute
for a given text is evaluated by TLC on the families of `MCStrategies`; the theorems
hold whatever they compute.

## 6. Where code and documentation differ

Five disagreements have a run of their own (`expect: violation`); each finding
quotes the sentence. Others were met while modelling; the models do what the
code does, so that none of the properties checked contradicts them:

- *First calls of a session that overlap.* Both find no pin and both decide; the later
  write wins, and the earlier call was answered with something else (main.go:613-657;
  `docs/configuration.md:609`). `SessionAffinity`, `PinsStable`, `PinHeadsChain` and
  `WalkLeadsWithRoute` say that this is all that can happen.
- *Reload loses pins.* A reconfiguration reads the last save over the maps in memory
  (main.go:195): pins made since are lost, and deleted ones come back.
- *Migration.* "exactly one legacy request" (comment at main.go:623-626) fails for two
  calls that both read the bare pin before either deletes it. `LegacyOnce` says what is
  left: all such calls overlap, and find the same target.
- *max_entries lowered.* The cache shrinks only when the next new key is stored
  (`docs/business-rules.md:246`).
- *Disabled plugin.* `enabled: false` stops the local decision only: pins, cache,
  engine and classifier still route (`docs/configuration.md:71`).
- *executor_fallback.max_attempts* caps the configured models, not a chain of the engine
  (`docs/configuration.md:470`).
- *Repeated candidates.* The map of failed targets is never read: a model listed twice is
  tried twice (`docs/business-rules.md:140`).

- *A failed refresh* stores an empty catalog over a good one and counts as a fetch
  (main.go:505), though the comments at runtime_state.go:63 and :70 speak of the last
  *successful* one. Whether prices are due is decided on a snapshot from before the
  catalog was fetched, and overlapping calls all fetch: `RefreshSpacing` speaks of
  refreshes that begin after a fetch has ended.
- *Catalog names* are excluded by the configuration of the call that fetches, so after a
  reconfiguration the catalog may list the plugin's own old or new names until the next one.
- *Between storing and registering*, a new configuration is already used by calls, and
  "self" may be answered before the host hears of the executor. `SelfHasExecutor`
  speaks of the time when no configuration is on its way.
- *Duplicate model names.* Of two models of one name, a verdict means the last
  (`configuredCandidateSet`); if its provider is not offered the verdict is refused,
  though the other one is (main.go:926-927; README.md:92). The preference tiebreak
  compares names without providers too, so a rival of the same name never takes over.
- *A list of blank providers* is a restriction for `ProviderAvailable` and none for
  `AvailableSet` (model.go:47). The verdict passes through the stricter of the two.
- *Exact match.* `docs/configuration.md:97` and `docs/business-rules.md:9` say that only a model
  that exactly matches `virtual_model` is handled (README.md:58: "matches"); the code trims
  what is asked for and strips a thinking suffix, so `" m "` and `m(high)` are handled as `m`
  (config.go:296-326). `AnnouncedIsRoutable` states what the code does.
- *Parenthesised names.* An entry that is itself named `m(high)` is announced and never
  found: the lookup strips the suffix from what is asked for first (config.go:315), and asks for
  `m`. `AnnouncedIsRoutable` includes such names, in exactly this way.
- *Chains of other calls.* Besides what the run `other_chain` shows, for a session that is not
  pinned, a call of a pinned session that is answered from the cache may be executed on the chain of
  a call that overlaps it (`WalkLeadsWithRoute`, `Rivals`).
- *Cache keys* join virtual model, prompt and declared task by a NUL that is not escaped
  (main.go:663-674): a prompt that holds one may share the key of another request.
- *Complexity* reaches 75, not 100 (`docs/configuration.md:700`): four of the eight factors are
  never given to it by `buildRouteFacts` (`VeryHighTakesEverything`).
- *Intent threshold.* "Negative restores the artifact default" (intent_model.go:64); only
  NaN does.

## 7. Not modelled

Regular expressions, tokenising and the weights of the trained intent model: a text
carries what they find in it. Of the keyword tables, one keyword or a few for each
outcome. The wording of classifier prompts, JSON, YAML and logs. What is only copied from
the configuration: rules, headers, the weights of `routing`. Usage sums and the management
page: they change no decision. Memory handling across the C ABI. The failure counters of
the executor and the reasons for a failed attempt. `SelectNext` (`domain/fallback.go`),
which the program does not call.

## 8. Plan

Done, in this order: `LRUMap`, `RuntimeState`, `Routing`, `Execution` with their runs and the
proofs of types, bounds and lanes; `StatePersistence`; `PolicyEngine` with its proofs;
`Selection`, `Verdict`, `RequestFacts`, `Complexity` and their composition with the engine,
`Strategies`; `ConfigEntries` and `Lifecycle`; the proofs of the eviction loop, of the
complexity score and of execution; then the refinement of `LossyStore`, eviction and expiry,
persistence, the lifecycle, counters and the decision; `Affinity`, sessions with calls that
overlap, and its proofs.

Next, most important first:

1. That `Routing` implements `RuntimeState`'s `Spec` step by step, so that bounds and store
   refinement hold inside calls without a proof of their own; likewise that the decisions
   `Strategies` computes are among those `Routing` leaves open.
2. `CacheHistory` across save and reload: the history of the entries in the file.
3. A property of what may be lost between two saves (throttle closed, write failed), should
   the code ever promise one.
4. The sums of usage learning, should a decision ever read them.
