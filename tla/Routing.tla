------------------------------ MODULE Routing ------------------------------
(***************************************************************************)
(* routeModel (cmd/plugin/main.go): the pipeline one model.route call runs *)
(* through, for several calls at once, beside reconfiguration and usage    *)
(* reports.  The host runs every call on a thread of its own; a call is    *)
(* atomic only from one access of the shared runtime state or of the host  *)
(* to the next, and each of its steps here is one such stretch.  Counters  *)
(* and the last decision are read by a save only: writing them is one step *)
(* with the access before it.  A save is one step as well: what others     *)
(* write while it marshals is the subject of RuntimeState.  The refresh of *)
(* catalog and prices touches nothing routing reads and is left out, as    *)
(* are usage statistics.                                                   *)
(*                                                                         *)
(* Rules and verdict parsing are pure but see the whole body: which member *)
(* of Eligible they name is left open.  The local decision sees the prompt *)
(* alone, so it is a function of it (Score).                               *)
(***************************************************************************)
EXTENDS RuntimeState

CONSTANTS
  Requests,    \* the calls, each made once
  Inputs,      \* what a call may carry: [vm, session, prompt, avail, stream]
  Configs,     \* what the plugin may be configured with
  NoSession,   \* a call without any session identity
  Score,       \* rank of each target for each prompt; 0 is "below the cost tier"
  AtOnce       \* bound on the calls of one session that are under way together

ASSUME ConfigAssumption ==
  \A c \in Configs :
     /\ c.enabled \in BOOLEAN
     /\ c.persist \in BOOLEAN
     /\ DOMAIN c.entries \subseteq VirtualModels
     /\ \A v \in DOMAIN c.entries :
          /\ c.entries[v].models \subseteq Targets
          /\ c.entries[v].attempts \in Nat
          /\ c.entries[v].maxEntries \in CacheLimits \ {0}
          /\ c.entries[v].ttl \in TTLs
ASSUME InputAssumption ==
  /\ Inputs # {}
  /\ \A in \in Inputs :
       /\ in.vm \in VirtualModels
       /\ in.session \in SessionIds \cup {NoSession}
       /\ in.prompt \in Prompts
       /\ in.stream \in BOOLEAN
ASSUME CounterAssumption ==
  Counters = {"requests", "cache_hits", "local_confident", "decision_engine",
              "classifier_calls", "classifier_failures"}
ASSUME AtOnceAssumption == AtOnce \in Nat

\* Configuration order breaks ties of the score, so no two ranks are equal.
ASSUME ScoreAssumption ==
  /\ Score \in [Prompts -> [Targets -> Nat]]
  /\ \A p \in Prompts, t, u \in Targets :
       Score[p][t] = Score[p][u] /\ Score[p][t] > 0 => t = u

VARIABLES
  config,      \* ConfigStore
  lifecycle,   \* "register", "ready", or "reload" between Store and LoadFromFile
  pc,          \* where each call is
  input,       \* what it carries
  full,        \* the configuration it loaded, once, when it began
  attempt,     \* classifier attempts it has used up
  route,       \* the route it found or decided
  source       \* where that route came from

calls == <<pc, input, full, attempt, route, source>>
allVars == <<vars, config, lifecycle, calls>>

\* The entry-scoped view of the call's own configuration (Config.WithEntry).
Entry(r) == full[r].entries[input[r].vm]

Pin(r) == PinKey(input[r].vm, input[r].session)
Key(r) == CacheKey(input[r].vm, input[r].prompt)

\* Variant: a call without a session identity is pinned all the same.
KeepsAnySession(r) == Entry(r).keepSame

KeepsSession(r) == Entry(r).keepSame /\ input[r].session # NoSession

Available(t, avail) == avail = {} \/ t.provider \in avail

\* Configured candidates whose provider the host offers to this call.
Eligible(r) == {t \in Entry(r).models : Available(t, input[r].avail)}

\* The shared cache is as large as the largest cache-enabled entry asks for.
CacheEnabled(c) == {v \in DOMAIN c.entries : c.entries[v].cacheOn}
EffectiveCacheMaxEntries(c) ==
  IF CacheEnabled(c) = {} THEN MaxEntries
  ELSE CHOOSE n \in {c.entries[v].maxEntries : v \in CacheEnabled(c)} :
         \A v \in CacheEnabled(c) : c.entries[v].maxEntries <= n

\* A decision made now; LastUsed is zero until it is stored.
Decided(t) == [target |-> t, created |-> now, used |-> 0]
NoRoute == [target |-> NoTarget, created |-> 0, used |-> 0]

Goto(r, label) == pc' = [pc EXCEPT ![r] = label]
Found(r, e) == route' = [route EXCEPT ![r] = e]
From(r, s) == source' = [source EXCEPT ![r] = s]

\* The call's own variables but pc.
Rest == <<input, full, attempt, route, source>>
Plugin == <<config, lifecycle, now, file, draft, lastDiskSave>>
----------------------------------------------------------------------------
RoutingInit ==
  /\ Init
  /\ config \in Configs
  /\ lifecycle = "register"
  /\ pc = [r \in Requests |-> "idle"]
  /\ input = [r \in Requests |-> CHOOSE in \in Inputs : TRUE]
  /\ full = [r \in Requests |-> config]
  /\ attempt = [r \in Requests |-> 0]
  /\ route = [r \in Requests |-> NoRoute]
  /\ source = [r \in Requests |-> "none"]

Active(r) == pc[r] \notin {"idle", "done"}

ClientMaySend(in) ==
  Cardinality({q \in Requests : Active(q) /\ input[q].session = in.session}) < AtOnce

(***************************************************************************)
(* The configuration is loaded once; a model that is not one of its        *)
(* virtual models is not handled.                                          *)
(***************************************************************************)
Load(r) ==
  /\ pc[r] = "idle"
  /\ lifecycle # "register"
  /\ \E in \in Inputs :
       /\ ClientMaySend(in)
       /\ input' = [input EXCEPT ![r] = in]
       /\ full' = [full EXCEPT ![r] = config]
       /\ IF in.vm \in DOMAIN config.entries
          THEN Inc("requests") /\ Goto(r, "session") /\ UNCHANGED source
          ELSE Goto(r, "done") /\ From(r, "unhandled") /\ UNCHANGED counters
  /\ UNCHANGED <<Plugin, sessions, routeCache, fallbackChains, lastDecision, attempt, route>>

(***************************************************************************)
(* sessionRoute: the pin of this virtual model and session, else a pin an  *)
(* older version left for the bare session, which is moved: three critical *)
(* sections.                                                               *)
(***************************************************************************)
\* Variant: the pin of the virtual model is never looked up.
SessionUnread(r) ==
  /\ pc[r] = "session"
  /\ Goto(r, IF KeepsSession(r) THEN "legacy" ELSE "cache")
  /\ UNCHANGED <<Plugin, sessions, routeCache, fallbackChains, counters, lastDecision, Rest>>

Session(r) ==
  /\ pc[r] = "session"
  /\ \/ /\ KeepsSession(r)
        /\ GetSessionRoute(Pin(r))
        /\ Found(r, sessions'[Pin(r)])
        /\ From(r, "session")
        /\ Goto(r, "done")
     \/ /\ KeepsSession(r)
        /\ Pin(r) \notin DOMAIN sessions
        /\ Goto(r, "legacy")
        /\ UNCHANGED <<sessions, route, source>>
     \/ /\ ~KeepsSession(r)
        /\ Goto(r, "cache")
        /\ UNCHANGED <<sessions, route, source>>
  /\ UNCHANGED <<Plugin, routeCache, fallbackChains, counters, lastDecision,
                 input, full, attempt>>

Legacy(r) ==
  /\ pc[r] = "legacy"
  /\ \/ /\ GetSessionRoute(BareKey(input[r].session))
        /\ Found(r, sessions'[BareKey(input[r].session)])
        /\ Goto(r, "migrate")
     \/ /\ BareKey(input[r].session) \notin DOMAIN sessions
        /\ Goto(r, "cache")
        /\ UNCHANGED <<sessions, route>>
  /\ UNCHANGED <<Plugin, routeCache, fallbackChains, counters, lastDecision,
                 input, full, attempt, source>>

Migrate(r) ==
  /\ pc[r] = "migrate"
  /\ SetSessionRoute(Pin(r), route[r])
  /\ Goto(r, "forget")
  /\ UNCHANGED <<Plugin, routeCache, fallbackChains, counters, lastDecision, Rest>>

\* Variant: the old pin is copied, not moved.
ForgetNothing(r) ==
  /\ pc[r] = "forget"
  /\ From(r, "legacy")
  /\ Goto(r, "done")
  /\ UNCHANGED <<Plugin, sessions, routeCache, fallbackChains, counters, lastDecision,
                 input, full, attempt, route>>

Forget(r) ==
  /\ pc[r] = "forget"
  /\ DeleteSessionRoute(BareKey(input[r].session))
  /\ From(r, "legacy")
  /\ Goto(r, "done")
  /\ UNCHANGED <<Plugin, routeCache, fallbackChains, counters, lastDecision,
                 input, full, attempt, route>>

(***************************************************************************)
(* cachedRoute.  A hit is answered at once: it is not pinned to a session. *)
(***************************************************************************)
Cache(r) ==
  /\ pc[r] = "cache"
  /\ \/ /\ Entry(r).cacheOn
        /\ GetCachedRoute(Key(r), Entry(r).ttl)
        /\ Found(r, routeCache'[Key(r)])
        /\ From(r, "cache")
        /\ Inc("cache_hits")
        /\ Goto(r, "done")
     \/ /\ Entry(r).cacheOn
        /\ ExpireCachedRoute(Key(r), Entry(r).ttl)
        /\ Goto(r, "decide")
        /\ UNCHANGED <<counters, route, source>>
     \/ /\ Entry(r).cacheOn => Key(r) \notin DOMAIN routeCache
        /\ Goto(r, "decide")
        /\ UNCHANGED <<routeCache, counters, route, source>>
  /\ UNCHANGED <<Plugin, sessions, fallbackChains, lastDecision, input, full, attempt>>

(***************************************************************************)
(* The strategies.  The local decision is the best-scoring eligible        *)
(* candidate, or none: no candidate may be in the cost tier the prompt     *)
(* asks for.  It alone looks at "enabled".                                 *)
(***************************************************************************)
LocalChoice(r) ==
  LET score == Score[input[r].prompt]
  IN  {t \in Eligible(r) : /\ full[r].enabled
                           /\ score[t] > 0
                           /\ \A u \in Eligible(r) : score[u] <= score[t]}

Select(r, t, origin) ==
  /\ Found(r, Decided(t))
  /\ From(r, origin)

\* A call without a session identity leaves no chain for the executor.
StoreFallbackChain(r, chain) ==
  IF input[r].session = NoSession
  THEN UNCHANGED fallbackChains
  ELSE SetFallbackChain(Pin(r), chain)

Decide(r) ==
  /\ pc[r] = "decide"
  /\ \/ /\ Entry(r).strategy = "local"
        /\ Goto(r, "local")
        /\ UNCHANGED <<fallbackChains, counters, lastDecision, route, source>>
     \/ /\ Entry(r).strategy \in {"llm", "hybrid"}
        /\ Goto(r, "classify")
        /\ UNCHANGED <<fallbackChains, counters, lastDecision, route, source>>
     \/ /\ Entry(r).strategy = "hybrid"
        /\ \E t \in LocalChoice(r) : Select(r, t, "local")
        /\ Inc("local_confident")
        /\ Goto(r, "storeCache")
        /\ UNCHANGED <<fallbackChains, lastDecision>>
     \/ /\ Entry(r).strategy = "decision_engine"
        /\ SetLastDecision(Abstained)
        /\ Goto(r, "local")
        /\ UNCHANGED <<fallbackChains, counters, route, source>>
     \/ /\ Entry(r).strategy = "decision_engine"
        /\ \E chain \in Rankings(Eligible(r)) :
             /\ Select(r, chain[1], "engine")
             /\ StoreFallbackChain(r, chain)
        /\ Goto(r, "record")
        /\ UNCHANGED <<counters, lastDecision>>
  /\ UNCHANGED <<Plugin, sessions, routeCache, input, full, attempt>>

\* The engine's decision is counted and recorded after its chain is stored.
Record(r) ==
  /\ pc[r] = "record"
  /\ Inc("decision_engine")
  /\ SetLastDecision(route[r].target)
  /\ Goto(r, "storeCache")
  /\ UNCHANGED <<Plugin, sessions, routeCache, fallbackChains, Rest>>

(***************************************************************************)
(* classifyRoute: one classifier after the other is asked through the host *)
(* until one names an eligible candidate (the tiebreak may move on to      *)
(* another) or the attempts are used up.                                   *)
(***************************************************************************)
Classify(r) ==
  /\ pc[r] = "classify"
  /\ \/ /\ attempt[r] < Entry(r).attempts
        /\ Inc("classifier_calls")
        /\ Goto(r, "host")
     \/ /\ attempt[r] >= Entry(r).attempts
        /\ Goto(r, "local")
        /\ UNCHANGED counters
  /\ UNCHANGED <<Plugin, sessions, routeCache, fallbackChains, lastDecision, Rest>>

HostSelects(r) ==
  /\ pc[r] = "host"
  /\ \E t \in Eligible(r) : Select(r, t, "classifier")
  /\ Goto(r, "storeCache")
  /\ UNCHANGED <<Plugin, sessions, routeCache, fallbackChains, counters, lastDecision,
                 input, full, attempt>>

\* Variant: a failed attempt goes uncounted.
HostFailsQuietly(r) ==
  /\ pc[r] = "host"
  /\ attempt' = [attempt EXCEPT ![r] = @ + 1]
  /\ Goto(r, "classify")
  /\ UNCHANGED <<Plugin, sessions, routeCache, fallbackChains, counters, lastDecision,
                 input, full, route, source>>

\* A transport error, an HTTP error and an unusable verdict are one to the loop.
HostFails(r) ==
  /\ pc[r] = "host"
  /\ Inc("classifier_failures")
  /\ attempt' = [attempt EXCEPT ![r] = @ + 1]
  /\ Goto(r, "classify")
  /\ UNCHANGED <<Plugin, sessions, routeCache, fallbackChains, lastDecision,
                 input, full, route, source>>

\* Variant: no answer when no candidate is good enough.
LocalOrNothing(r) ==
  /\ pc[r] = "local"
  /\ \E t \in LocalChoice(r) : Select(r, t, "local")
  /\ Goto(r, "storeCache")
  /\ UNCHANGED <<Plugin, sessions, routeCache, fallbackChains, counters, lastDecision,
                 input, full, attempt>>

Local(r) ==
  /\ pc[r] = "local"
  /\ \/ /\ \E t \in LocalChoice(r) : Select(r, t, "local")
        /\ Goto(r, "storeCache")
     \/ /\ LocalChoice(r) = {}
        /\ From(r, "unhandled")
        /\ Goto(r, "done")
        /\ UNCHANGED route
  /\ UNCHANGED <<Plugin, sessions, routeCache, fallbackChains, counters, lastDecision,
                 input, full, attempt>>

(***************************************************************************)
(* storeRoute: cache, pin, throttled save, then the answer.                *)
(***************************************************************************)
StoreCache(r) ==
  /\ pc[r] = "storeCache"
  /\ IF Entry(r).cacheOn
     THEN SetCachedRoute(Key(r), route[r], EffectiveCacheMaxEntries(full[r]))
     ELSE UNCHANGED routeCache
  /\ Goto(r, "storePin")
  /\ UNCHANGED <<Plugin, sessions, fallbackChains, counters, lastDecision, Rest>>

\* Variant: a decision of the engine is not pinned.
StorePinUnlessEngine(r) ==
  /\ pc[r] = "storePin"
  /\ IF KeepsSession(r) /\ source[r] # "engine"
     THEN SetSessionRoute(Pin(r), route[r])
     ELSE UNCHANGED sessions
  /\ Goto(r, "save")
  /\ UNCHANGED <<Plugin, routeCache, fallbackChains, counters, lastDecision, Rest>>

StorePin(r) ==
  /\ pc[r] = "storePin"
  /\ IF KeepsSession(r)
     THEN SetSessionRoute(Pin(r), route[r])
     ELSE UNCHANGED sessions
  /\ Goto(r, "save")
  /\ UNCHANGED <<Plugin, routeCache, fallbackChains, counters, lastDecision, Rest>>

Save(r) ==
  /\ pc[r] = "save"
  /\ IF full[r].persist THEN SaveThrottled ELSE UNCHANGED <<file, lastDiskSave>>
  /\ Goto(r, "done")
  /\ UNCHANGED <<config, lifecycle, now, draft, sessions, routeCache, fallbackChains,
                 counters, lastDecision, Rest>>

(***************************************************************************)
(* plugin.register and plugin.reconfigure: the new configuration is        *)
(* visible before the state file has been read.  usage.handle saves        *)
(* without a throttle.                                                     *)
(***************************************************************************)
Reconfigure ==
  /\ lifecycle = "ready"
  /\ config' \in Configs
  /\ lifecycle' = "reload"
  /\ UNCHANGED <<vars, calls>>

LoadState ==
  /\ lifecycle \in {"register", "reload"}
  /\ IF config.persist THEN LoadFromFile ELSE KeepData /\ UNCHANGED draft
  /\ lifecycle' = "ready"
  /\ UNCHANGED <<config, fallbackChains, file, lastDiskSave, now, calls>>

HandleUsage ==
  /\ lifecycle # "register"
  /\ config.persist
  /\ SaveToFile
  /\ KeepData
  /\ UNCHANGED <<config, lifecycle, fallbackChains, draft, lastDiskSave, now, calls>>

Clock == TickOp /\ UNCHANGED <<config, lifecycle, calls>>

Step(r) ==
  \/ Session(r) \/ Legacy(r) \/ Migrate(r) \/ Forget(r)
  \/ Cache(r) \/ Decide(r) \/ Record(r)
  \/ Classify(r) \/ HostSelects(r) \/ HostFails(r) \/ Local(r)
  \/ StoreCache(r) \/ StorePin(r) \/ Save(r)

\* Between two reconfigurations.
SteadyNext ==
  \/ \E r \in Requests : Load(r) \/ Step(r)
  \/ LoadState \/ HandleUsage \/ Clock

RoutingNext == SteadyNext \/ Reconfigure

RoutingSpec == RoutingInit /\ [][RoutingNext]_allVars
----------------------------------------------------------------------------
Labels == {"idle", "session", "legacy", "migrate", "forget", "cache", "decide", "record",
           "classify", "host", "local", "storeCache", "storePin", "save", "done"}

Sources == {"none", "session", "legacy", "cache", "local", "classifier", "engine", "unhandled"}

RoutingTypeOK ==
  /\ TypeOK
  /\ config \in Configs
  /\ lifecycle \in {"register", "ready", "reload"}
  /\ pc \in [Requests -> Labels]
  /\ input \in [Requests -> Inputs]
  /\ full \in [Requests -> Configs]
  /\ attempt \in [Requests -> Nat]
  /\ route \in [Requests -> Routes \cup {NoRoute}]
  /\ source \in [Requests -> Sources]

Handled(r) == pc[r] = "done" /\ source[r] # "unhandled"

\* What any configuration has ever offered under virtual model v.
OwnTargets(v) ==
  UNION {c.entries[v].models : c \in {d \in Configs : v \in DOMAIN d.entries}}

\* What a file the plugin may start with holds under v; an older version left
\* its pins under Bare.
FiledTargets(v) ==
  UNION {{f.data.sessions[k].target : k \in {j \in DOMAIN f.data.sessions : j[1] = v}} \cup
         {f.data.routeCache[k].target : k \in {j \in DOMAIN f.data.routeCache : j[1] = v}} :
           f \in InitFiles}

Lane(v) == OwnTargets(v) \cup FiledTargets(v) \cup FiledTargets(Bare)

\* Lanes of different virtual models never mix: through pins, cache, eviction,
\* reload and reconfiguration alike, a call is sent to a target configured or
\* filed under the virtual model it asked for, or to that of a pin an older
\* version left (sessionRoute, routeCacheKey; docs/configuration.md: "namespaced
\* per virtual model").
LanesApart ==
  \A r \in Requests :
    Handled(r) => route[r].target \in Lane(input[r].vm)

Began == {r \in Requests : pc[r] # "idle" /\ input[r].vm \in DOMAIN full[r].entries}
Asking == {r \in Requests : pc[r] = "host"}
AnsweredBy(s) == {r \in Requests : source[r] = s}

\* The counters account for every call and every classifier attempt.
CountersAgree ==
  /\ counters["requests"] = Cardinality(Began)
  /\ counters["cache_hits"] = Cardinality(AnsweredBy("cache"))
  /\ counters["classifier_calls"]
       = counters["classifier_failures"] + Cardinality(Asking) + Cardinality(AnsweredBy("classifier"))

\* Every call that was let in is answered (callHost is synchronous: a host that
\* never answers would block it).
EveryCallAnswered == \A r \in Requests : Active(r) ~> pc[r] = "done"

\* What the code does not keep; a run expects each to fail.
\* All answers given to one session by one virtual model name the same target
\* (README.md: "Session affinity for stable per-session routing").
SessionSticky ==
  \A q, r \in Requests :
    /\ Handled(q) /\ Handled(r)
    /\ KeepsSession(q) /\ KeepsSession(r)
    /\ Pin(q) = Pin(r)
    => route[q].target = route[r].target

\* docs/business-rules.md: "If CLIProxyAPI provides an available provider list,
\* the candidate provider must be present in that list."
AnswersAvailable ==
  \A r \in Requests : Handled(r) => Available(route[r].target, input[r].avail)
=============================================================================
