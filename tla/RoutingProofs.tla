--------------------------- MODULE RoutingProofs ---------------------------
(***************************************************************************)
(* The lanes of different virtual models stay apart, for every number of   *)
(* calls, sessions, prompts, virtual models and configurations.            *)
(***************************************************************************)
EXTENDS Routing, RuntimeStateProofs

(***************************************************************************)
(* What the maps hold, in memory and in the file: under the key of a       *)
(* virtual model a target of its lane, under a bare session id what a      *)
(* file the plugin may start with holds there.                             *)
(***************************************************************************)
KeyLane(k) == IF k[1] = Bare THEN FiledTargets(Bare) ELSE Lane(k[1])

InLane(m) == \A k \in DOMAIN m : m[k].target \in KeyLane(k)

StateOK ==
  /\ InLane(sessions) /\ InLane(file.data.sessions)
  /\ InLane(routeCache) /\ InLane(file.data.routeCache)

(***************************************************************************)
(* What a call holds.  Between finding a route and being answered it       *)
(* carries one of its own lane.                                            *)
(***************************************************************************)
Carrying == {"migrate", "forget", "record", "storeCache", "storePin", "save"}

CallOK(r) ==
  /\ Active(r) => input[r].vm \in DOMAIN full[r].entries
  /\ pc[r] \in {"legacy", "migrate", "forget"} => input[r].session \in SessionIds
  /\ pc[r] \in Carrying \/ Handled(r) =>
       route[r] \in Routes /\ route[r].target \in Lane(input[r].vm)

IInv == RoutingTypeOK /\ StateOK /\ \A r \in Requests : CallOK(r)

(*************************** the maps *************************************)
LEMMA TouchInLane ==
  ASSUME NEW K, NEW m, IsMap(m, K, Routes), InLane(m), NEW k \in DOMAIN m, NEW t \in Nat
  PROVE  /\ IsMap(Touch(m, k, t), K, Routes)
         /\ InLane(Touch(m, k, t))
         /\ Touch(m, k, t)[k] \in Routes
         /\ Touch(m, k, t)[k].target \in KeyLane(k)
<1>1. m[k] \in Routes
  BY DEF IsMap
<1>2. /\ [m[k] EXCEPT !.used = t] \in Routes
      /\ [m[k] EXCEPT !.used = t].target = m[k].target
  BY <1>1 DEF Routes
<1>3. /\ IsMap(Touch(m, k, t), K, Routes)
      /\ DOMAIN Touch(m, k, t) = DOMAIN m
      /\ \A j \in DOMAIN m \ {k} : Touch(m, k, t)[j] = m[j]
      /\ Touch(m, k, t)[k] = [m[k] EXCEPT !.used = t]
  BY <1>2, TouchLemma
<1>. QED BY <1>2, <1>3 DEF InLane

LEMMA DropInLane ==
  ASSUME NEW K, NEW m, IsMap(m, K, Routes), InLane(m), NEW k
  PROVE  IsMap(Drop(m, k), K, Routes) /\ InLane(Drop(m, k))
<1>1. /\ IsMap(Drop(m, k), K, Routes)
      /\ DOMAIN Drop(m, k) = DOMAIN m \ {k}
      /\ \A j \in DOMAIN m \ {k} : Drop(m, k)[j] = m[j]
  BY DropLemma
<1>. QED BY <1>1 DEF InLane

LEMMA InsertInLane ==
  ASSUME NEW K, NEW m, IsMap(m, K, Routes), InLane(m),
         NEW k \in K, NEW e \in Routes, e.target \in KeyLane(k), now \in Nat,
         NEW max, NEW n \in Insert(m, k, Stamped(e), max)
  PROVE  IsMap(n, K, Routes) /\ InLane(n)
<1>1. Stamped(e) \in Routes /\ Stamped(e).target = e.target
  BY DEF Stamped, Routes
<1>2. /\ IsMap(n, K, Routes)
      /\ n[k] = Stamped(e)
      /\ DOMAIN n \subseteq DOMAIN m \cup {k}
      /\ \A j \in DOMAIN n \ {k} : n[j] = m[j]
  BY <1>1, InsertLemma
<1>. QED BY <1>1, <1>2 DEF InLane

(*************************** the candidates *******************************)
\* Whatever is eligible for a call is of its lane.
LEMMA EligibleInLane ==
  ASSUME IInv, NEW r \in Requests, Active(r), NEW t \in Eligible(r)
  PROVE  t \in Targets /\ t \in Lane(input[r].vm)
<1>1. full[r] \in Configs /\ input[r].vm \in DOMAIN full[r].entries
  BY DEF IInv, RoutingTypeOK, CallOK
<1>2. t \in full[r].entries[input[r].vm].models
  BY DEF Eligible, Entry
<1>3. t \in OwnTargets(input[r].vm)
  BY <1>1, <1>2 DEF OwnTargets
<1>. QED BY <1>1, <1>2, <1>3, ConfigAssumption DEF Lane

\* The key of a call is a key of its lane.
LEMMA KeysOfLane ==
  ASSUME IInv, NEW r \in Requests
  PROVE  /\ Key(r) \in CacheKeys /\ KeyLane(Key(r)) = Lane(input[r].vm)
         /\ input[r].session \in SessionIds =>
              /\ Pin(r) \in PinKeys /\ KeyLane(Pin(r)) = Lane(input[r].vm)
              /\ BareKey(input[r].session) \in PinKeys
              /\ KeyLane(BareKey(input[r].session)) = FiledTargets(Bare)
<1>1. input[r] \in Inputs
  BY DEF IInv, RoutingTypeOK
<1>2. input[r].vm \in VirtualModels /\ input[r].prompt \in Prompts /\ input[r].vm # Bare
  BY <1>1, InputAssumption, BareAssumption
<1>. QED
  BY <1>2 DEF Key, CacheKey, CacheKeys, Pin, PinKey, PinKeys, BareKey, KeyLane

LEMMA SessionOfKeeper ==
  ASSUME IInv, NEW r \in Requests, KeepsSession(r)
  PROVE  input[r].session \in SessionIds
BY InputAssumption DEF IInv, RoutingTypeOK, KeepsSession

\* A fresh decision is a route of the lane.
LEMMA DecidedInLane ==
  ASSUME IInv, NEW r \in Requests, Active(r), NEW t \in Eligible(r)
  PROVE  Decided(t) \in Routes /\ Decided(t).target \in Lane(input[r].vm)
<1>1. t \in Targets /\ t \in Lane(input[r].vm)
  BY EligibleInLane
<1>. QED BY <1>1 DEF Decided, Routes, IInv, RoutingTypeOK, TypeOK

\* A step of one call leaves the others as they are.
LEMMA OthersOK ==
  ASSUME IInv, NEW r \in Requests, CallOK(r)',
         \A q \in Requests \ {r} :
           /\ pc'[q] = pc[q] /\ input'[q] = input[q] /\ full'[q] = full[q]
           /\ route'[q] = route[q] /\ source'[q] = source[q]
  PROVE  \A q \in Requests : CallOK(q)'
<1>. SUFFICES ASSUME NEW q \in Requests \ {r} PROVE CallOK(q)'
  OBVIOUS
<1>1. CallOK(q)
  BY DEF IInv
<1>. QED BY <1>1 DEF CallOK, Active, Handled

(*************************** steps ****************************************)
\* The state keeps its type when what a step writes does.
LEMMA StateTyped ==
  ASSUME TypeOK, UNCHANGED <<file, draft, lastDiskSave, now>>,
         IsMap(sessions', PinKeys, Routes), IsMap(routeCache', CacheKeys, Routes),
         IsMap(fallbackChains', PinKeys, ChainEntries),
         counters' \in [Counters -> Nat],
         lastDecision' \in Targets \cup {NoTarget, Abstained}
  PROVE  TypeOK'
BY DEF TypeOK, Data, IsData

LEMMA Typed ==
  ASSUME IInv
  PROVE  /\ IsMap(sessions, PinKeys, Routes) /\ InLane(sessions)
         /\ IsMap(routeCache, CacheKeys, Routes) /\ InLane(routeCache)
         /\ IsMap(fallbackChains, PinKeys, ChainEntries)
         /\ counters \in [Counters -> Nat]
         /\ lastDecision \in Targets \cup {NoTarget, Abstained}
         /\ now \in Nat \ {0}
BY DEF IInv, RoutingTypeOK, TypeOK, Data, IsData, StateOK

LEMMA IncTyped ==
  ASSUME IInv, NEW n \in Counters, Inc(n)
  PROVE  counters' \in [Counters -> Nat]
BY Typed DEF Inc

\* The step of a call that keeps the types and leaves it with a route of its
\* lane keeps the invariant.
LEMMA CallMoves ==
  ASSUME IInv, NEW r \in Requests, TypeOK', StateOK', CallOK(r)',
         UNCHANGED <<config, lifecycle>>,
         pc' \in [Requests -> Labels], input' \in [Requests -> Inputs],
         full' \in [Requests -> Configs], attempt' \in [Requests -> Nat],
         route' \in [Requests -> Routes \cup {NoRoute}],
         source' \in [Requests -> Sources],
         \A q \in Requests \ {r} :
           /\ pc'[q] = pc[q] /\ input'[q] = input[q] /\ full'[q] = full[q]
           /\ route'[q] = route[q] /\ source'[q] = source[q]
  PROVE  IInv'
<1>1. \A q \in Requests : CallOK(q)'
  BY OthersOK
<1>2. RoutingTypeOK'
  BY DEF RoutingTypeOK, IInv
<1>. QED BY <1>1, <1>2 DEF IInv

LEMMA LoadStep ==
  ASSUME IInv, NEW r \in Requests, Load(r)
  PROVE  IInv'
<1>1. PICK in \in Inputs :
        /\ input' = [input EXCEPT ![r] = in]
        /\ full' = [full EXCEPT ![r] = config]
        /\ IF in.vm \in DOMAIN config.entries
           THEN Inc("requests") /\ Goto(r, "session") /\ UNCHANGED source
           ELSE Goto(r, "done") /\ From(r, "unhandled") /\ UNCHANGED counters
  BY DEF Load
<1>2. UNCHANGED <<Plugin, sessions, routeCache, fallbackChains, lastDecision, attempt, route>>
  BY DEF Load
<1>3. counters' \in [Counters -> Nat]
  BY <1>1, IncTyped, Typed, CounterAssumption
<1>4. TypeOK' /\ StateOK'
  BY <1>2, <1>3, Typed, StateTyped DEF Plugin, StateOK, IInv, RoutingTypeOK
<1>5. /\ pc \in [Requests -> Labels] /\ source \in [Requests -> Sources]
      /\ input \in [Requests -> Inputs] /\ full \in [Requests -> Configs]
      /\ config \in Configs
  BY DEF IInv, RoutingTypeOK
<1>6. CASE in.vm \in DOMAIN config.entries
  <2>1. pc' = [pc EXCEPT ![r] = "session"] /\ source' = source
    BY <1>1, <1>6 DEF Goto
  <2>2. CallOK(r)'
    BY <1>1, <1>5, <1>6, <2>1 DEF CallOK, Active, Handled, Carrying
  <2>. QED
    BY <1>1, <1>2, <1>4, <1>5, <2>1, <2>2, CallMoves
    DEF Plugin, Labels, IInv, RoutingTypeOK
<1>7. CASE in.vm \notin DOMAIN config.entries
  <2>1. /\ pc' = [pc EXCEPT ![r] = "done"]
        /\ source' = [source EXCEPT ![r] = "unhandled"]
    BY <1>1, <1>7 DEF Goto, From
  <2>2. CallOK(r)'
    BY <1>1, <1>5, <2>1 DEF CallOK, Active, Handled, Carrying
  <2>. QED
    BY <1>1, <1>2, <1>4, <1>5, <2>1, <2>2, CallMoves
    DEF Plugin, Labels, Sources, IInv, RoutingTypeOK
<1>. QED BY <1>6, <1>7

LEMMA CallTyped ==
  ASSUME IInv
  PROVE  /\ pc \in [Requests -> Labels] /\ input \in [Requests -> Inputs]
         /\ full \in [Requests -> Configs] /\ attempt \in [Requests -> Nat]
         /\ route \in [Requests -> Routes \cup {NoRoute}]
         /\ source \in [Requests -> Sources]
BY DEF IInv, RoutingTypeOK

\* A call that goes on from where it is: one step of a call already let in.
LEMMA CallGoesOn ==
  ASSUME IInv, NEW r \in Requests, Active(r), TypeOK', StateOK',
         UNCHANGED <<config, lifecycle, input, full>>,
         NEW l \in Labels, pc' = [pc EXCEPT ![r] = l],
         attempt' \in [Requests -> Nat],
         route' \in [Requests -> Routes \cup {NoRoute}],
         source' \in [Requests -> Sources],
         \A q \in Requests \ {r} : route'[q] = route[q] /\ source'[q] = source[q],
         l \in {"legacy", "migrate", "forget"} => input[r].session \in SessionIds,
         l \in Carrying \/ (l = "done" /\ source'[r] # "unhandled") =>
           route'[r] \in Routes /\ route'[r].target \in Lane(input[r].vm)
  PROVE  IInv'
<1>1. /\ pc' \in [Requests -> Labels] /\ pc'[r] = l
      /\ \A q \in Requests \ {r} : pc'[q] = pc[q]
  BY CallTyped
<1>2. input[r].vm \in DOMAIN full[r].entries
  BY DEF IInv, CallOK
<1>3. CallOK(r)'
  BY <1>1, <1>2 DEF CallOK, Active, Handled
<1>. QED BY <1>1, <1>3, CallMoves, CallTyped

LEMMA SessionCallStep ==
  ASSUME IInv, NEW r \in Requests, Session(r)
  PROVE  IInv'
<1>1. Active(r)
  BY DEF Session, Active
<1>2. UNCHANGED <<Plugin, routeCache, fallbackChains, counters, lastDecision,
                  input, full, attempt>>
  BY DEF Session
<1>3. CASE /\ KeepsSession(r) /\ GetSessionRoute(Pin(r))
           /\ Found(r, sessions'[Pin(r)]) /\ From(r, "session") /\ Goto(r, "done")
  <2>1. /\ Pin(r) \in DOMAIN sessions /\ sessions' = Touch(sessions, Pin(r), now)
        /\ KeyLane(Pin(r)) = Lane(input[r].vm)
    BY <1>3, SessionOfKeeper, KeysOfLane DEF GetSessionRoute
  <2>2. /\ IsMap(sessions', PinKeys, Routes) /\ InLane(sessions')
        /\ sessions'[Pin(r)] \in Routes
        /\ sessions'[Pin(r)].target \in Lane(input[r].vm)
    BY <2>1, Typed, TouchInLane
  <2>3. TypeOK' /\ StateOK'
    BY <1>2, <2>2, Typed, StateTyped DEF Plugin, StateOK, IInv, RoutingTypeOK
  <2>4. /\ pc' = [pc EXCEPT ![r] = "done"]
        /\ route' = [route EXCEPT ![r] = sessions'[Pin(r)]]
        /\ source' = [source EXCEPT ![r] = "session"]
    BY <1>3 DEF Goto, Found, From
  <2>. QED
    BY <1>1, <1>2, <2>2, <2>3, <2>4, CallTyped, CallGoesOn
    DEF Plugin, Labels, Sources, Carrying
<1>4. CASE /\ KeepsSession(r) /\ Goto(r, "legacy")
           /\ UNCHANGED <<sessions, route, source>>
  <2>1. TypeOK' /\ StateOK'
    BY <1>2, <1>4, Typed, StateTyped DEF Plugin, StateOK, IInv, RoutingTypeOK
  <2>2. pc' = [pc EXCEPT ![r] = "legacy"] /\ input[r].session \in SessionIds
    BY <1>4, SessionOfKeeper DEF Goto
  <2>. QED
    BY <1>1, <1>2, <1>4, <2>1, <2>2, CallTyped, CallGoesOn DEF Plugin, Labels, Carrying
<1>5. CASE Goto(r, "cache") /\ UNCHANGED <<sessions, route, source>>
  <2>1. TypeOK' /\ StateOK'
    BY <1>2, <1>5, Typed, StateTyped DEF Plugin, StateOK, IInv, RoutingTypeOK
  <2>2. pc' = [pc EXCEPT ![r] = "cache"]
    BY <1>5 DEF Goto
  <2>. QED
    BY <1>1, <1>2, <1>5, <2>1, <2>2, CallTyped, CallGoesOn DEF Plugin, Labels, Carrying
<1>. QED BY <1>3, <1>4, <1>5 DEF Session

LEMMA LegacyCallStep ==
  ASSUME IInv, NEW r \in Requests, Legacy(r)
  PROVE  IInv'
<1>1. Active(r) /\ input[r].session \in SessionIds
  BY DEF Legacy, Active, IInv, CallOK
<1>2. UNCHANGED <<Plugin, routeCache, fallbackChains, counters, lastDecision,
                  input, full, attempt, source>>
  BY DEF Legacy
<1>. DEFINE k == BareKey(input[r].session)
<1>3. CASE GetSessionRoute(k) /\ Found(r, sessions'[k]) /\ Goto(r, "migrate")
  <2>1. /\ k \in DOMAIN sessions /\ sessions' = Touch(sessions, k, now)
        /\ KeyLane(k) = FiledTargets(Bare)
    BY <1>1, <1>3, KeysOfLane DEF GetSessionRoute
  <2>2. /\ IsMap(sessions', PinKeys, Routes) /\ InLane(sessions')
        /\ sessions'[k] \in Routes
        /\ sessions'[k].target \in Lane(input[r].vm)
    BY <2>1, Typed, TouchInLane DEF Lane
  <2>3. TypeOK' /\ StateOK'
    BY <1>2, <2>2, Typed, StateTyped DEF Plugin, StateOK, IInv, RoutingTypeOK
  <2>4. pc' = [pc EXCEPT ![r] = "migrate"] /\ route' = [route EXCEPT ![r] = sessions'[k]]
    BY <1>3 DEF Goto, Found
  <2>. QED
    BY <1>1, <1>2, <2>2, <2>3, <2>4, CallTyped, CallGoesOn DEF Plugin, Labels, Carrying
<1>4. CASE Goto(r, "cache") /\ UNCHANGED <<sessions, route>>
  <2>1. TypeOK' /\ StateOK'
    BY <1>2, <1>4, Typed, StateTyped DEF Plugin, StateOK, IInv, RoutingTypeOK
  <2>2. pc' = [pc EXCEPT ![r] = "cache"]
    BY <1>4 DEF Goto
  <2>. QED
    BY <1>1, <1>2, <1>4, <2>1, <2>2, CallTyped, CallGoesOn DEF Plugin, Labels, Carrying
<1>. QED BY <1>3, <1>4 DEF Legacy

LEMMA MigrateStep ==
  ASSUME IInv, NEW r \in Requests, Migrate(r)
  PROVE  IInv'
<1>1. /\ Active(r) /\ input[r].session \in SessionIds
      /\ route[r] \in Routes /\ route[r].target \in Lane(input[r].vm)
  BY DEF Migrate, Active, IInv, CallOK, Carrying
<1>2. /\ sessions' \in Insert(sessions, Pin(r), Stamped(route[r]), MaxEntries)
      /\ pc' = [pc EXCEPT ![r] = "forget"]
      /\ UNCHANGED <<Plugin, routeCache, fallbackChains, counters, lastDecision, Rest>>
  BY DEF Migrate, SetSessionRoute, Goto
<1>3. IsMap(sessions', PinKeys, Routes) /\ InLane(sessions')
  <2>1. Pin(r) \in PinKeys /\ route[r].target \in KeyLane(Pin(r))
    BY <1>1, KeysOfLane
  <2>. QED BY <1>1, <1>2, <2>1, Typed, InsertInLane
<1>4. TypeOK' /\ StateOK'
  BY <1>2, <1>3, Typed, StateTyped DEF Plugin, StateOK, IInv, RoutingTypeOK
<1>. QED
  BY <1>1, <1>2, <1>4, CallTyped, CallGoesOn DEF Plugin, Rest, Labels

LEMMA ForgetStep ==
  ASSUME IInv, NEW r \in Requests, Forget(r)
  PROVE  IInv'
<1>1. /\ Active(r)
      /\ route[r] \in Routes /\ route[r].target \in Lane(input[r].vm)
  BY DEF Forget, Active, IInv, CallOK, Carrying
<1>2. /\ sessions' = Drop(sessions, BareKey(input[r].session))
      /\ pc' = [pc EXCEPT ![r] = "done"]
      /\ source' = [source EXCEPT ![r] = "legacy"]
      /\ UNCHANGED <<Plugin, routeCache, fallbackChains, counters, lastDecision,
                     input, full, attempt, route>>
  BY DEF Forget, DeleteSessionRoute, Goto, From
<1>3. TypeOK' /\ StateOK'
  <2>1. IsMap(sessions', PinKeys, Routes) /\ InLane(sessions')
    BY <1>2, Typed, DropInLane
  <2>. QED BY <1>2, <2>1, Typed, StateTyped DEF Plugin, StateOK, IInv, RoutingTypeOK
<1>. QED
  BY <1>1, <1>2, <1>3, CallTyped, CallGoesOn DEF Plugin, Labels, Sources

LEMMA CacheCallStep ==
  ASSUME IInv, NEW r \in Requests, Cache(r)
  PROVE  IInv'
<1>1. Active(r)
  BY DEF Cache, Active
<1>2. UNCHANGED <<Plugin, sessions, fallbackChains, lastDecision, input, full, attempt>>
  BY DEF Cache
<1>3. KeyLane(Key(r)) = Lane(input[r].vm)
  BY KeysOfLane
<1>4. CASE /\ GetCachedRoute(Key(r), Entry(r).ttl)
           /\ Found(r, routeCache'[Key(r)]) /\ From(r, "cache")
           /\ Inc("cache_hits") /\ Goto(r, "done")
  <2>1. Key(r) \in DOMAIN routeCache /\ routeCache' = Touch(routeCache, Key(r), now)
    BY <1>4 DEF GetCachedRoute
  <2>2. /\ IsMap(routeCache', CacheKeys, Routes) /\ InLane(routeCache')
        /\ routeCache'[Key(r)] \in Routes
        /\ routeCache'[Key(r)].target \in Lane(input[r].vm)
    BY <1>3, <2>1, Typed, TouchInLane
  <2>3. counters' \in [Counters -> Nat]
    BY <1>4, IncTyped, CounterAssumption
  <2>4. TypeOK' /\ StateOK'
    BY <1>2, <2>2, <2>3, Typed, StateTyped DEF Plugin, StateOK, IInv, RoutingTypeOK
  <2>5. /\ pc' = [pc EXCEPT ![r] = "done"]
        /\ route' = [route EXCEPT ![r] = routeCache'[Key(r)]]
        /\ source' = [source EXCEPT ![r] = "cache"]
    BY <1>4 DEF Goto, Found, From
  <2>. QED
    BY <1>1, <1>2, <2>2, <2>4, <2>5, CallTyped, CallGoesOn
    DEF Plugin, Labels, Sources, Carrying
<1>5. CASE /\ routeCache' = routeCache \/ ExpireCachedRoute(Key(r), Entry(r).ttl)
           /\ Goto(r, "decide") /\ UNCHANGED <<counters, route, source>>
  <2>1. IsMap(routeCache', CacheKeys, Routes) /\ InLane(routeCache')
    BY <1>5, Typed, DropInLane DEF ExpireCachedRoute
  <2>2. TypeOK' /\ StateOK'
    BY <1>2, <1>5, <2>1, Typed, StateTyped DEF Plugin, StateOK, IInv, RoutingTypeOK
  <2>3. pc' = [pc EXCEPT ![r] = "decide"]
    BY <1>5 DEF Goto
  <2>. QED
    BY <1>1, <1>2, <1>5, <2>2, <2>3, CallTyped, CallGoesOn DEF Plugin, Labels, Carrying
<1>. QED BY <1>4, <1>5 DEF Cache

\* Selecting an eligible candidate: what Decide, HostSelects and Local share.
LEMMA SelectStep ==
  ASSUME IInv, NEW r \in Requests, Active(r), NEW t \in Eligible(r),
         NEW origin \in Sources, Select(r, t, origin),
         NEW l \in Labels \ {"legacy", "migrate", "forget"}, Goto(r, l),
         UNCHANGED <<Plugin, sessions, routeCache, input, full, attempt>>,
         IsMap(fallbackChains', PinKeys, ChainEntries),
         counters' \in [Counters -> Nat],
         lastDecision' \in Targets \cup {NoTarget, Abstained}
  PROVE  IInv'
<1>1. /\ pc' = [pc EXCEPT ![r] = l]
      /\ route' = [route EXCEPT ![r] = Decided(t)]
      /\ source' = [source EXCEPT ![r] = origin]
  BY DEF Goto, Select, Found, From
<1>2. Decided(t) \in Routes /\ Decided(t).target \in Lane(input[r].vm)
  BY DecidedInLane
<1>3. TypeOK' /\ StateOK'
  BY Typed, StateTyped DEF Plugin, StateOK, IInv, RoutingTypeOK
<1>. QED BY <1>1, <1>2, <1>3, CallTyped, CallGoesOn DEF Plugin

\* Moving on without a route, a pin or a cache entry.
LEMMA PlainStep ==
  ASSUME IInv, NEW r \in Requests, Active(r),
         NEW l \in Labels \ (Carrying \cup {"legacy"}), Goto(r, l),
         UNCHANGED <<Plugin, sessions, routeCache, fallbackChains, input, full, route>>,
         attempt' \in [Requests -> Nat],
         \/ source' = source /\ l # "done"
         \/ source' = [source EXCEPT ![r] = "unhandled"],
         counters' \in [Counters -> Nat],
         lastDecision' \in Targets \cup {NoTarget, Abstained}
  PROVE  IInv'
<1>1. pc' = [pc EXCEPT ![r] = l]
  BY DEF Goto
<1>2. TypeOK' /\ StateOK'
  BY Typed, StateTyped DEF Plugin, StateOK, IInv, RoutingTypeOK
<1>3. /\ source' \in [Requests -> Sources]
      /\ \A q \in Requests \ {r} : source'[q] = source[q]
      /\ l = "done" => source'[r] = "unhandled"
  BY CallTyped DEF Sources
<1>. QED BY <1>1, <1>2, <1>3, CallTyped, CallGoesOn DEF Plugin, Carrying

\* The engine ranks eligible targets only, and at least one.
LEMMA RankingSub ==
  ASSUME NEW S \in SUBSET Targets, NEW chain \in Rankings(S)
  PROVE  chain \in Rankings(Targets) /\ chain[1] \in S
<1>1. /\ IsFiniteSet(S) /\ Cardinality(S) <= Cardinality(Targets)
      /\ Cardinality(S) \in Nat /\ Cardinality(Targets) \in Nat
  BY TargetsAssumption, FS_Subset, FS_CardinalityType
<1>2. PICK n \in 1 .. Cardinality(S) : chain \in [1 .. n -> S]
  BY DEF Rankings
<1>3. n \in 1 .. Cardinality(Targets) /\ chain \in [1 .. n -> Targets] /\ 1 \in 1 .. n
  BY <1>1, <1>2
<1>. QED BY <1>2, <1>3 DEF Rankings

LEMMA LocalEligible ==
  ASSUME NEW r \in Requests, NEW t \in LocalChoice(r)
  PROVE  t \in Eligible(r)
BY DEF LocalChoice

LEMMA DecideStep ==
  ASSUME IInv, NEW r \in Requests, Decide(r)
  PROVE  IInv'
<1>1. Active(r)
  BY DEF Decide, Active
<1>2. UNCHANGED <<Plugin, sessions, routeCache, input, full, attempt>>
  BY DEF Decide
<1>3. CASE /\ Goto(r, "local") \/ Goto(r, "classify")
           /\ UNCHANGED <<fallbackChains, counters, route, source>>
           /\ lastDecision' \in {lastDecision, Abstained}
  BY <1>1, <1>2, <1>3, Typed, CallTyped, PlainStep DEF Labels, Carrying
<1>4. ASSUME NEW t \in LocalChoice(r), Select(r, t, "local"), Inc("local_confident"),
             Goto(r, "storeCache"), UNCHANGED <<fallbackChains, lastDecision>>
      PROVE  IInv'
  BY <1>1, <1>2, <1>4, LocalEligible, Typed, IncTyped, CounterAssumption, SelectStep
  DEF Labels, Sources
<1>5. ASSUME NEW chain \in Rankings(Eligible(r)), Select(r, chain[1], "engine"),
             Goto(r, "record"), UNCHANGED <<counters, lastDecision>>,
             StoreFallbackChain(r, chain)
      PROVE  IInv'
  <2>1. Eligible(r) \in SUBSET Targets
    BY <1>1, EligibleInLane
  <2>2. chain \in Rankings(Targets) /\ chain[1] \in Eligible(r)
    BY <2>1, RankingSub
  <2>3. IsMap(fallbackChains', PinKeys, ChainEntries)
    <3>1. CASE input[r].session = NoSession
      BY <1>5, <3>1, Typed DEF StoreFallbackChain
    <3>2. CASE input[r].session # NoSession
      <4>1. input[r].session \in SessionIds
        BY <3>2, CallTyped, InputAssumption
      <4>. DEFINE e == [chain |-> chain, used |-> now]
      <4>2. fallbackChains' \in Insert(fallbackChains, Pin(r), e, MaxEntries)
        BY <1>5, <3>2 DEF StoreFallbackChain, SetFallbackChain
      <4>3. e \in ChainEntries /\ Pin(r) \in PinKeys
        BY <2>2, <4>1, Typed, KeysOfLane DEF ChainEntries
      <4>. HIDE DEF e
      <4>. QED BY <4>2, <4>3, Typed, InsertLemma
    <3>. QED BY <3>1, <3>2
  <2>. QED
    BY <1>1, <1>2, <1>5, <2>2, <2>3, Typed, SelectStep DEF Labels, Sources
<1>. QED BY <1>3, <1>4, <1>5 DEF Decide, SetLastDecision

LEMMA RecordCallStep ==
  ASSUME IInv, NEW r \in Requests, Record(r)
  PROVE  IInv'
<1>1. /\ Active(r)
      /\ route[r] \in Routes /\ route[r].target \in Lane(input[r].vm)
  BY DEF Record, Active, IInv, CallOK, Carrying
<1>2. /\ counters' \in [Counters -> Nat]
      /\ lastDecision' \in Targets
      /\ pc' = [pc EXCEPT ![r] = "storeCache"]
      /\ UNCHANGED <<Plugin, sessions, routeCache, fallbackChains, Rest>>
  BY <1>1, IncTyped, CounterAssumption DEF Record, SetLastDecision, Goto, Routes
<1>3. TypeOK' /\ StateOK'
  BY <1>2, Typed, StateTyped DEF Plugin, StateOK, IInv, RoutingTypeOK
<1>. QED BY <1>1, <1>2, <1>3, CallTyped, CallGoesOn DEF Plugin, Rest, Labels

LEMMA ClassifyStep ==
  ASSUME IInv, NEW r \in Requests, Classify(r) \/ HostFails(r)
  PROVE  IInv'
<1>1. /\ Active(r)
      /\ UNCHANGED <<Plugin, sessions, routeCache, fallbackChains, input, full, route,
                     lastDecision, source>>
      /\ Goto(r, "host") \/ Goto(r, "local") \/ Goto(r, "classify")
  BY DEF Classify, HostFails, Active, Rest
<1>2. attempt' \in [Requests -> Nat]
  BY CallTyped DEF Classify, HostFails, Rest
<1>3. counters' \in [Counters -> Nat]
  BY Typed, IncTyped, CounterAssumption DEF Classify, HostFails
<1>. QED BY <1>1, <1>2, <1>3, Typed, PlainStep DEF Labels, Carrying

LEMMA HostSelectsStep ==
  ASSUME IInv, NEW r \in Requests, HostSelects(r)
  PROVE  IInv'
<1>1. Active(r)
  BY DEF HostSelects, Active
<1>2. PICK t \in Eligible(r) : Select(r, t, "classifier")
  BY DEF HostSelects
<1>. QED
  BY <1>1, <1>2, Typed, SelectStep DEF HostSelects, Labels, Sources

LEMMA LocalStep ==
  ASSUME IInv, NEW r \in Requests, Local(r)
  PROVE  IInv'
<1>1. Active(r)
  BY DEF Local, Active
<1>2. UNCHANGED <<Plugin, sessions, routeCache, fallbackChains, counters, lastDecision,
                  input, full, attempt>>
  BY DEF Local
<1>3. ASSUME NEW t \in LocalChoice(r), Select(r, t, "local"), Goto(r, "storeCache")
      PROVE  IInv'
  BY <1>1, <1>2, <1>3, LocalEligible, Typed, SelectStep DEF Labels, Sources
<1>4. CASE From(r, "unhandled") /\ Goto(r, "done") /\ UNCHANGED route
  BY <1>1, <1>2, <1>4, Typed, CallTyped, PlainStep DEF From, Labels, Carrying
<1>. QED BY <1>3, <1>4 DEF Local

LEMMA StoreCacheStep ==
  ASSUME IInv, NEW r \in Requests, StoreCache(r)
  PROVE  IInv'
<1>1. /\ Active(r)
      /\ route[r] \in Routes /\ route[r].target \in Lane(input[r].vm)
  BY DEF StoreCache, Active, IInv, CallOK, Carrying
<1>2. /\ pc' = [pc EXCEPT ![r] = "storePin"]
      /\ UNCHANGED <<Plugin, sessions, fallbackChains, counters, lastDecision, Rest>>
  BY DEF StoreCache, Goto
<1>3. IsMap(routeCache', CacheKeys, Routes) /\ InLane(routeCache')
  <2>1. CASE routeCache' = routeCache
    BY <2>1, Typed
  <2>2. ASSUME NEW max, routeCache' \in Insert(routeCache, Key(r), Stamped(route[r]), max)
        PROVE  IsMap(routeCache', CacheKeys, Routes) /\ InLane(routeCache')
    <3>1. Key(r) \in CacheKeys /\ route[r].target \in KeyLane(Key(r))
      BY <1>1, KeysOfLane
    <3>. QED BY <1>1, <2>2, <3>1, Typed, InsertInLane
  <2>. QED BY <2>1, <2>2 DEF StoreCache, SetCachedRoute
<1>4. TypeOK' /\ StateOK'
  BY <1>2, <1>3, Typed, StateTyped DEF Plugin, StateOK, IInv, RoutingTypeOK
<1>. QED BY <1>1, <1>2, <1>4, CallTyped, CallGoesOn DEF Plugin, Rest, Labels

LEMMA StorePinStep ==
  ASSUME IInv, NEW r \in Requests, StorePin(r)
  PROVE  IInv'
<1>1. /\ Active(r)
      /\ route[r] \in Routes /\ route[r].target \in Lane(input[r].vm)
  BY DEF StorePin, Active, IInv, CallOK, Carrying
<1>2. /\ pc' = [pc EXCEPT ![r] = "save"]
      /\ UNCHANGED <<Plugin, routeCache, fallbackChains, counters, lastDecision, Rest>>
  BY DEF StorePin, Goto
<1>3. IsMap(sessions', PinKeys, Routes) /\ InLane(sessions')
  <2>1. CASE sessions' = sessions
    BY <2>1, Typed
  <2>2. CASE /\ KeepsSession(r)
             /\ sessions' \in Insert(sessions, Pin(r), Stamped(route[r]), MaxEntries)
    <3>1. Pin(r) \in PinKeys /\ route[r].target \in KeyLane(Pin(r))
      BY <1>1, <2>2, SessionOfKeeper, KeysOfLane
    <3>. QED BY <1>1, <2>2, <3>1, Typed, InsertInLane
  <2>. QED BY <2>1, <2>2 DEF StorePin, SetSessionRoute
<1>4. TypeOK' /\ StateOK'
  BY <1>2, <1>3, Typed, StateTyped DEF Plugin, StateOK, IInv, RoutingTypeOK
<1>. QED BY <1>1, <1>2, <1>4, CallTyped, CallGoesOn DEF Plugin, Rest, Labels

(*************************** the state file *******************************)
\* A save writes what memory holds, of the same type and lanes.
LEMMA SaveKeeps ==
  ASSUME IInv, SaveToFile, KeepData, UNCHANGED <<fallbackChains, draft, now>>,
         lastDiskSave' \in {lastDiskSave, now}
  PROVE  TypeOK' /\ StateOK'
<1>1. TypeOK /\ StateOK
  BY DEF IInv, RoutingTypeOK
<1>2. CASE file' = file
  BY <1>1, <1>2 DEF KeepData, TypeOK, Data, IsData, StateOK
<1>3. CASE file' = Holding(Data)
  <2>1. /\ file'.data = Data /\ file' = Holding(file'.data)
        /\ Data.sessions = sessions /\ Data.routeCache = routeCache
        /\ Data' = Data
    BY <1>3 DEF Holding, Data, KeepData
  <2>2. TypeOK'
    BY <1>1, <2>1 DEF TypeOK
  <2>3. StateOK'
    BY <1>1, <2>1 DEF StateOK, KeepData
  <2>. QED BY <2>2, <2>3
<1>. QED BY <1>2, <1>3 DEF SaveToFile

LEMMA SaveStep ==
  ASSUME IInv, NEW r \in Requests, Save(r)
  PROVE  IInv'
<1>1. /\ Active(r)
      /\ route[r] \in Routes /\ route[r].target \in Lane(input[r].vm)
  BY DEF Save, Active, IInv, CallOK, Carrying
<1>2. /\ pc' = [pc EXCEPT ![r] = "done"]
      /\ KeepData
      /\ UNCHANGED <<config, lifecycle, now, draft, fallbackChains, Rest>>
  BY DEF Save, Goto, KeepData
<1>3. SaveToFile /\ lastDiskSave' \in {lastDiskSave, now}
  BY DEF Save, SaveThrottled, SaveToFile
<1>4. TypeOK' /\ StateOK'
  BY <1>2, <1>3, SaveKeeps
<1>. QED BY <1>1, <1>2, <1>4, CallTyped, CallGoesOn DEF Rest, Labels

\* What the plugin as a whole does leaves every call as it was.
LEMMA PluginStep ==
  ASSUME IInv, TypeOK', StateOK', UNCHANGED calls, config' \in Configs,
         lifecycle' \in {"register", "ready", "reload"}
  PROVE  IInv'
<1>1. RoutingTypeOK'
  BY DEF IInv, RoutingTypeOK, calls
<1>2. \A r \in Requests : CallOK(r)'
  BY DEF IInv, CallOK, Active, Handled, calls
<1>. QED BY <1>1, <1>2 DEF IInv

LEMMA LoadStateStep ==
  ASSUME IInv, LoadState
  PROVE  IInv'
<1>1. TypeOK /\ StateOK /\ config \in Configs
  BY DEF IInv, RoutingTypeOK
<1>2. /\ UNCHANGED <<config, fallbackChains, file, lastDiskSave, now>>
      /\ UNCHANGED calls
      /\ lifecycle' = "ready"
      /\ LoadFromFile \/ (KeepData /\ UNCHANGED draft)
  BY DEF LoadState
<1>3. TypeOK' /\ StateOK'
  <2>1. CASE KeepData /\ UNCHANGED draft
    BY <1>1, <1>2, <2>1 DEF KeepData, TypeOK, Data, IsData, StateOK
  <2>2. CASE /\ sessions' = file.data.sessions
             /\ routeCache' = file.data.routeCache
             /\ counters' = file.data.counters
             /\ lastDecision' = file.data.lastDecision
             /\ draft' = Detached
    <3>1. /\ draft'.stage \in Stages /\ DOMAIN draft' = {"stage", "data"}
          /\ draft'.data = draft.data
      BY <1>1, <2>2 DEF Detached, TypeOK, Stages
    <3>. QED BY <1>1, <1>2, <2>2, <3>1 DEF TypeOK, Data, IsData, StateOK
  <2>. QED BY <1>2, <2>1, <2>2 DEF LoadFromFile
<1>. QED BY <1>1, <1>2, <1>3, PluginStep

LEMMA OutsideStep ==
  ASSUME IInv, Reconfigure \/ HandleUsage \/ Clock \/ UNCHANGED allVars
  PROVE  IInv'
<1>1. /\ TypeOK /\ StateOK /\ config \in Configs
      /\ lifecycle \in {"register", "ready", "reload"}
  BY DEF IInv, RoutingTypeOK
<1>2. CASE Reconfigure \/ UNCHANGED allVars
  <2>1. UNCHANGED <<vars, calls>> /\ config' \in Configs
        /\ lifecycle' \in {lifecycle, "reload"}
    BY <1>1, <1>2 DEF Reconfigure, allVars
  <2>2. TypeOK' /\ StateOK'
    BY <1>1, <2>1 DEF vars, TypeOK, Data, IsData, StateOK
  <2>. QED BY <1>1, <2>1, <2>2, PluginStep
<1>3. CASE HandleUsage
  BY <1>1, <1>3, SaveKeeps, PluginStep DEF HandleUsage
<1>4. CASE Clock
  <2>1. TypeOK' /\ StateOK'
    BY <1>1, <1>4 DEF Clock, TickOp, Tick, KeepData, TypeOK, Data, IsData, StateOK
  <2>. QED BY <1>1, <1>4, <2>1, PluginStep DEF Clock
<1>. QED BY <1>2, <1>3, <1>4

(*************************** the theorems *********************************)
LEMMA RoutingInitIInv == RoutingInit => IInv
<1>. SUFFICES ASSUME RoutingInit PROVE IInv
  OBVIOUS
<1>1. DOMAIN EmptyMap = {}
  BY DEF EmptyMap
<1>2. /\ file \in InitFiles
      /\ file \in {NoFile} \cup {Holding(file.data)}
      /\ IsData(file.data)
  BY InitFilesAssumption DEF RoutingInit, Init
<1>3. TypeOK
  BY InitStateInv DEF RoutingInit, StateInv
<1>4. InLane(file.data.sessions) /\ InLane(file.data.routeCache)
  <2>1. \A k \in DOMAIN file.data.sessions :
          file.data.sessions[k].target \in FiledTargets(k[1])
    BY <1>2 DEF FiledTargets
  <2>2. \A k \in DOMAIN file.data.routeCache :
          file.data.routeCache[k].target \in FiledTargets(k[1])
    BY <1>2 DEF FiledTargets
  <2>. QED BY <2>1, <2>2 DEF InLane, KeyLane, Lane
<1>5. StateOK
  BY <1>1, <1>2, <1>4 DEF RoutingInit, Init, StateOK, InLane
<1>6. (CHOOSE in \in Inputs : TRUE) \in Inputs
  BY InputAssumption
<1>7. RoutingTypeOK
  BY <1>3, <1>6 DEF RoutingInit, RoutingTypeOK, Labels, Sources
<1>8. \A r \in Requests : CallOK(r)
  BY DEF RoutingInit, CallOK, Active, Handled, Carrying
<1>. QED BY <1>5, <1>7, <1>8 DEF IInv

\* Every step of a call and of the plugin keeps the invariant.
LEMMA RoutingNextIInv ==
  ASSUME IInv, [RoutingNext]_allVars
  PROVE  IInv'
<1>1. ASSUME NEW r \in Requests, Load(r) \/ Step(r) PROVE IInv'
  BY <1>1, LoadStep, SessionCallStep, LegacyCallStep, MigrateStep, ForgetStep,
     CacheCallStep, DecideStep, RecordCallStep, ClassifyStep, HostSelectsStep,
     LocalStep, StoreCacheStep, StorePinStep, SaveStep DEF Step
<1>2. CASE LoadState
  BY <1>2, LoadStateStep
<1>3. CASE Reconfigure \/ HandleUsage \/ Clock \/ UNCHANGED allVars
  BY <1>3, OutsideStep
<1>. QED BY <1>1, <1>2, <1>3 DEF RoutingNext, SteadyNext

\* What the maps hold under the keys of a virtual model, in memory and on disk,
\* and what calls carry, stays in its lane through every step of routeModel,
\* handleMethod and usage.handle.
THEOREM RoutingInvariant == RoutingSpec => []IInv
BY RoutingInitIInv, RoutingNextIInv, PTL DEF RoutingSpec

\* The state of the plugin and of its calls keeps its type.
THEOREM RoutingTypeCorrect == RoutingSpec => []RoutingTypeOK
<1>1. IInv => RoutingTypeOK
  BY DEF IInv
<1>. QED BY RoutingInvariant, <1>1, PTL

\* Whatever calls run at once and whatever is reconfigured or reloaded between
\* their steps, a call is answered with a target its virtual model has been
\* configured with, or that of a pin an older version left (routeModel).
THEOREM LanesStayApart == RoutingSpec => []LanesApart
<1>1. IInv => LanesApart
  BY DEF IInv, CallOK, LanesApart
<1>. QED BY RoutingInvariant, <1>1, PTL
=============================================================================
