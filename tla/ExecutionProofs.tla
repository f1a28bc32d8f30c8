-------------------------- MODULE ExecutionProofs --------------------------
(***************************************************************************)
(* A call that comes back to be executed stays in the lane of its virtual  *)
(* model, for every number of calls, sessions, virtual models and          *)
(* configurations.  While nobody reconfigures, the counters add up         *)
(* (CountInv), and a session's answers, its pin and its chain come apart   *)
(* only where calls overlap (AffinityInv).                                 *)
(***************************************************************************)
EXTENDS Affinity, RoutingProofs

(***************************************************************************)
(* A chain holds targets of the virtual model in its key: calls of         *)
(* different virtual models write under different keys.                    *)
(***************************************************************************)
ChainsOwn ==
  \A k \in DOMAIN fallbackChains :
    \A i \in DOMAIN fallbackChains[k].chain :
      fallbackChains[k].chain[i] \in OwnTargets(k[1])

\* A call is executed after it was routed; nothing is tried before the walk is
\* known, and a walk of a known virtual model is its own.
WalkOK(r) ==
  /\ epc[r] # "none" => pc[r] = "done"
  /\ epc[r] \in {"none", "chain"} => walk[r] = <<>> /\ tried[r] = 0
  /\ Known(r) =>
       \A i \in DOMAIN walk[r] : walk[r][i] \in OwnTargets(input[r].vm)

ExecInv == IInv /\ ExecTypeOK /\ ChainsOwn /\ \A r \in Requests : WalkOK(r)

(*************************** lists of targets *****************************)
LEMMA ListLemma ==
  ASSUME NEW S, IsFiniteSet(S), NEW s \in ListOf(S)
  PROVE  /\ s \in Seq(S) /\ DOMAIN s = 1 .. Len(s) /\ Len(s) \in Nat
         /\ Len(s) <= Cardinality(S) + 1
<1>1. Cardinality(S) \in Nat
  BY FS_CardinalityType
<1>2. PICK n \in 0 .. Cardinality(S) + 1 : s \in [1 .. n -> S]
  BY DEF ListOf
<1>. QED BY <1>1, <1>2

LEMMA ListIntro ==
  ASSUME NEW S, IsFiniteSet(S), NEW n \in Nat, n <= Cardinality(S) + 1,
         NEW s \in [1 .. n -> S]
  PROVE  s \in ListOf(S)
<1>1. Cardinality(S) \in Nat
  BY FS_CardinalityType
<1>. QED BY <1>1 DEF ListOf

\* A prefix of a list is a list.
LEMMA FirstLemma ==
  ASSUME NEW S \in SUBSET Targets, NEW s \in ListOf(S), NEW n \in Nat
  PROVE  /\ First(n, s) \in ListOf(Targets)
         /\ \A i \in DOMAIN First(n, s) : First(n, s)[i] \in S
<1>1. /\ IsFiniteSet(S) /\ Cardinality(S) <= Cardinality(Targets)
      /\ Cardinality(S) \in Nat /\ Cardinality(Targets) \in Nat
  BY TargetsAssumption, FS_Subset, FS_CardinalityType
<1>2. /\ s \in Seq(S) /\ DOMAIN s = 1 .. Len(s) /\ Len(s) \in Nat
      /\ Len(s) <= Cardinality(S) + 1
  BY <1>1, ListLemma
<1>. DEFINE m == IF n < Len(s) THEN n ELSE Len(s)
<1>3. m \in Nat /\ m <= Len(s)
  BY <1>2
<1>4. First(n, s) \in [1 .. m -> S]
  BY <1>2, <1>3 DEF First
<1>5. First(n, s) \in [1 .. m -> Targets] /\ m <= Cardinality(Targets) + 1
  BY <1>1, <1>2, <1>3, <1>4
<1>. HIDE DEF m
<1>. QED BY <1>3, <1>4, <1>5, TargetsAssumption, ListIntro

LEMMA RankingIsList ==
  ASSUME NEW s \in Rankings(Targets)
  PROVE  s \in ListOf(Targets)
<1>1. Cardinality(Targets) \in Nat
  BY TargetsAssumption, FS_CardinalityType
<1>2. PICK n \in 1 .. Cardinality(Targets) : s \in [1 .. n -> Targets]
  BY DEF Rankings
<1>. QED BY <1>1, <1>2, TargetsAssumption, ListIntro

(*************************** what is walked *******************************)
LEMMA ExecTyped ==
  ASSUME ExecInv
  PROVE  /\ epc \in [Requests -> {"none", "chain", "try", "served", "failed"}]
         /\ efull \in [Requests -> Configs]
         /\ walk \in [Requests -> ListOf(Targets)]
         /\ chained \in [Requests -> BOOLEAN]
         /\ tried \in [Requests -> Nat]
         /\ \A r \in Requests : tried[r] <= Len(walk[r])
BY DEF ExecInv, ExecTypeOK

\* The configured models are those of the call's virtual model, when there is
\* still one of that name.
LEMMA ConfiguredInLane ==
  ASSUME ExecInv, NEW r \in Requests
  PROVE  /\ ConfiguredOrder(r) \in ListOf(Targets)
         /\ Known(r) => \A i \in DOMAIN ConfiguredOrder(r) :
                          ConfiguredOrder(r)[i] \in OwnTargets(input[r].vm)
<1>. DEFINE c == efull[r]
            e == c.entries[input[r].vm]
<1>1. c \in Configs
  BY ExecTyped
<1>2. CASE ~Known(r)
  <2>1. c.order \in ListOf(Targets) /\ c.tries \in Nat
    BY <1>1, ExecutionConfigAssumption
  <2>2. ConfiguredOrder(r) = First(c.tries, c.order)
    BY <1>2 DEF ConfiguredOrder
  <2>. HIDE DEF c
  <2>. QED BY <1>2, <2>1, <2>2, FirstLemma
<1>3. CASE Known(r)
  <2>1. input[r].vm \in DOMAIN c.entries
    BY <1>3 DEF Known
  <2>2. /\ e.models \in SUBSET Targets /\ e.order \in ListOf(e.models)
        /\ e.tries \in Nat
    BY <1>1, <2>1, ConfigAssumption, ExecutionConfigAssumption
  <2>3. e.models \subseteq OwnTargets(input[r].vm)
    BY <1>1, <2>1 DEF OwnTargets
  <2>4. ConfiguredOrder(r) = First(e.tries, e.order)
    BY <1>3 DEF ConfiguredOrder, Scope
  <2>. HIDE DEF e
  <2>. QED BY <2>2, <2>3, <2>4, FirstLemma
<1>. QED BY <1>2, <1>3

\* So are those of a chain found under its key.
LEMMA ChainInLane ==
  ASSUME ExecInv, NEW r \in Requests, NEW k, k = PinKey(Scope(r), input[r].session),
         k \in DOMAIN fallbackChains
  PROVE  /\ fallbackChains[k].chain \in ListOf(Targets)
         /\ Known(r) => \A i \in DOMAIN fallbackChains[k].chain :
                          fallbackChains[k].chain[i] \in OwnTargets(input[r].vm)
<1>1. fallbackChains[k] \in ChainEntries
  BY Typed DEF ExecInv, IsMap
<1>2. fallbackChains[k].chain \in ListOf(Targets)
  BY <1>1, RankingIsList DEF ChainEntries
<1>3. Known(r) => k[1] = input[r].vm
  BY DEF PinKey, Scope
<1>. QED BY <1>2, <1>3 DEF ExecInv, ChainsOwn

(*************************** chains ***************************************)
\* Hits and writes keep what the chains hold in their lanes.
LEMMA TouchChain ==
  ASSUME ExecInv, NEW k, GetFallbackChain(k)
  PROVE  IsMap(fallbackChains', PinKeys, ChainEntries) /\ ChainsOwn'
<1>1. /\ k \in DOMAIN fallbackChains
      /\ fallbackChains' = Touch(fallbackChains, k, now)
      /\ IsMap(fallbackChains, PinKeys, ChainEntries) /\ now \in Nat
  BY Typed DEF ExecInv, GetFallbackChain
<1>2. fallbackChains[k] \in ChainEntries
  BY <1>1 DEF IsMap
<1>3. /\ [fallbackChains[k] EXCEPT !.used = now] \in ChainEntries
      /\ [fallbackChains[k] EXCEPT !.used = now].chain = fallbackChains[k].chain
  BY <1>1, <1>2 DEF ChainEntries
<1>4. /\ IsMap(fallbackChains', PinKeys, ChainEntries)
      /\ DOMAIN fallbackChains' = DOMAIN fallbackChains
      /\ \A j \in DOMAIN fallbackChains \ {k} : fallbackChains'[j] = fallbackChains[j]
      /\ fallbackChains'[k] = [fallbackChains[k] EXCEPT !.used = now]
  BY <1>1, <1>3, TouchLemma
<1>5. \A j \in DOMAIN fallbackChains : fallbackChains'[j].chain = fallbackChains[j].chain
  BY <1>3, <1>4
<1>. QED BY <1>4, <1>5 DEF ExecInv, ChainsOwn

LEMMA StoredChain ==
  ASSUME ExecInv, NEW r \in Requests, Active(r),
         NEW chain \in Rankings(Eligible(r)), StoreFallbackChain(r, chain)
  PROVE  ChainsOwn'
<1>1. CASE input[r].session = NoSession
  BY <1>1 DEF StoreFallbackChain, ExecInv, ChainsOwn
<1>2. CASE input[r].session # NoSession
  <2>1. IInv /\ input[r].session \in SessionIds /\ now \in Nat
    BY <1>2, CallTyped, Typed, InputAssumption DEF ExecInv
  <2>2. Eligible(r) \in SUBSET Targets
    BY <2>1, EligibleInLane
  <2>3. Eligible(r) \subseteq OwnTargets(input[r].vm)
    <3>1. full[r] \in Configs /\ input[r].vm \in DOMAIN full[r].entries
      BY <2>1 DEF IInv, RoutingTypeOK, CallOK
    <3>. QED BY <3>1 DEF OwnTargets, Eligible, Entry
  <2>4. chain \in Rankings(Targets)
    BY <2>2, RankingSub
  <2>5. \A i \in DOMAIN chain : chain[i] \in OwnTargets(input[r].vm)
    BY <2>3 DEF Rankings
  <2>. DEFINE e == [chain |-> chain, used |-> now]
  <2>6. fallbackChains' \in Insert(fallbackChains, Pin(r), e, MaxEntries)
    BY <1>2 DEF StoreFallbackChain, SetFallbackChain
  <2>7. e \in ChainEntries /\ e.chain = chain
    BY <2>1, <2>4 DEF ChainEntries
  <2>8. Pin(r) \in PinKeys /\ Pin(r)[1] = input[r].vm
    BY <2>1, KeysOfLane DEF Pin, PinKey
  <2>. HIDE DEF e
  <2>9. /\ fallbackChains'[Pin(r)] = e
        /\ DOMAIN fallbackChains' \subseteq DOMAIN fallbackChains \cup {Pin(r)}
        /\ \A j \in DOMAIN fallbackChains' \ {Pin(r)} :
             fallbackChains'[j] = fallbackChains[j]
    BY <2>1, <2>6, <2>7, <2>8, Typed, InsertLemma
  <2>. QED BY <2>5, <2>7, <2>8, <2>9 DEF ExecInv, ChainsOwn
<1>. QED BY <1>1, <1>2

(*************************** steps ****************************************)
\* Routing moves chains only when the engine decides, and leaves the calls it is
\* done with alone.
LEMMA RoutingKeepsChains ==
  ASSUME ExecInv, [RoutingNext]_allVars
  PROVE  ChainsOwn'
<1>1. ASSUME NEW r \in Requests, Decide(r) PROVE ChainsOwn'
  <2>1. Active(r)
    BY <1>1 DEF Decide, Active
  <2>2. CASE UNCHANGED fallbackChains
    BY <2>2 DEF ExecInv, ChainsOwn
  <2>3. ASSUME NEW chain \in Rankings(Eligible(r)), StoreFallbackChain(r, chain)
        PROVE  ChainsOwn'
    BY <2>1, <2>3, StoredChain
  <2>. QED BY <1>1, <2>2, <2>3 DEF Decide
<1>2. ASSUME NEW r \in Requests, Load(r) \/ Step(r), ~Decide(r) PROVE UNCHANGED fallbackChains
  <2>1. CASE Load(r) \/ Session(r) \/ Legacy(r) \/ Migrate(r) \/ Forget(r) \/ Cache(r)
    BY <2>1 DEF Load, Session, Legacy, Migrate, Forget, Cache
  <2>2. CASE Record(r) \/ Classify(r) \/ HostSelects(r) \/ HostFails(r) \/ Local(r)
    BY <2>2 DEF Record, Classify, HostSelects, HostFails, Local
  <2>3. CASE StoreCache(r) \/ StorePin(r) \/ Save(r)
    BY <2>3 DEF StoreCache, StorePin, Save
  <2>. QED BY <1>2, <2>1, <2>2, <2>3 DEF Step
<1>3. CASE LoadState \/ HandleUsage \/ Clock \/ Reconfigure \/ UNCHANGED allVars
  <2>1. UNCHANGED fallbackChains
    BY <1>3 DEF LoadState, HandleUsage, Clock, TickOp, KeepData, Reconfigure, vars, allVars
  <2>. QED BY <2>1 DEF ExecInv, ChainsOwn
<1>. QED BY <1>1, <1>2, <1>3 DEF RoutingNext, SteadyNext, ExecInv, ChainsOwn

LEMMA RoutingKeepsDone ==
  ASSUME ExecInv, [RoutingNext]_allVars, NEW r \in Requests, pc[r] = "done"
  PROVE  pc'[r] = "done" /\ input'[r] = input[r]
<1>1. ASSUME NEW q \in Requests, Load(q) \/ Step(q) PROVE q # r
  <2>1. CASE Load(q)
    BY <2>1 DEF Load
  <2>2. CASE Step(q)
    BY <2>2 DEF Step, Session, Legacy, Migrate, Forget, Cache, Decide, Record, Classify,
       HostSelects, HostFails, Local, StoreCache, StorePin, Save
  <2>. QED BY <1>1, <2>1, <2>2
<1>2. ASSUME NEW q \in Requests \ {r}, Load(q) \/ Step(q)
      PROVE  pc'[r] = pc[r] /\ input'[r] = input[r]
  <2>1. CASE Load(q) \/ Session(q) \/ Legacy(q) \/ Migrate(q) \/ Forget(q) \/ Cache(q)
    BY <2>1, CallTyped
    DEF ExecInv, Load, Session, Legacy, Migrate, Forget, Cache, Goto, Rest
  <2>2. CASE Decide(q) \/ Record(q) \/ Classify(q) \/ HostSelects(q) \/ HostFails(q)
    BY <2>2, CallTyped
    DEF ExecInv, Decide, Record, Classify, HostSelects, HostFails, Goto, Rest
  <2>3. CASE Local(q) \/ StoreCache(q) \/ StorePin(q) \/ Save(q)
    BY <2>3, CallTyped DEF ExecInv, Local, StoreCache, StorePin, Save, Goto, Rest
  <2>. QED BY <1>2, <2>1, <2>2, <2>3 DEF Step
<1>3. CASE LoadState \/ HandleUsage \/ Clock \/ Reconfigure \/ UNCHANGED allVars
  BY <1>3 DEF LoadState, HandleUsage, Clock, Reconfigure, calls, allVars
<1>. QED BY <1>1, <1>2, <1>3 DEF RoutingNext, SteadyNext

LEMMA RoutingStepExecInv ==
  ASSUME ExecInv, [RoutingNext]_allVars, UNCHANGED execVars
  PROVE  ExecInv'
<1>1. IInv'
  BY RoutingNextIInv DEF ExecInv
<1>2. ExecTypeOK'
  BY DEF ExecInv, ExecTypeOK, execVars
<1>3. ASSUME NEW r \in Requests PROVE WalkOK(r)'
  <2>1. WalkOK(r)
    BY DEF ExecInv
  <2>2. CASE epc[r] = "none"
    BY <2>1, <2>2 DEF WalkOK, execVars
  <2>3. CASE epc[r] # "none"
    <3>1. pc'[r] = "done" /\ input'[r] = input[r]
      BY <2>1, <2>3, RoutingKeepsDone DEF WalkOK
    <3>. QED BY <2>1, <3>1 DEF WalkOK, Known, execVars
  <2>. QED BY <2>2, <2>3
<1>. QED BY <1>1, <1>2, <1>3, RoutingKeepsChains DEF ExecInv

\* Reading a chain renews it and touches nothing else routing knows of.
LEMMA ReadKeepsIInv ==
  ASSUME IInv, IsMap(fallbackChains', PinKeys, ChainEntries),
         UNCHANGED <<Plugin, calls, sessions, routeCache, counters, lastDecision>>
  PROVE  IInv'
<1>1. TypeOK' /\ StateOK'
  BY Typed, StateTyped DEF Plugin, StateOK, IInv, RoutingTypeOK
<1>. QED BY <1>1, PluginStep DEF Plugin, IInv, RoutingTypeOK

\* A step of one execution leaves the others as they are.
LEMMA OtherWalks ==
  ASSUME ExecInv, NEW r \in Requests, UNCHANGED calls, WalkOK(r)',
         \A q \in Requests \ {r} :
           epc'[q] = epc[q] /\ efull'[q] = efull[q] /\ walk'[q] = walk[q] /\ tried'[q] = tried[q]
  PROVE  \A q \in Requests : WalkOK(q)'
<1>. SUFFICES ASSUME NEW q \in Requests \ {r} PROVE WalkOK(q)'
  OBVIOUS
<1>1. WalkOK(q)
  BY DEF ExecInv
<1>. QED BY <1>1 DEF WalkOK, Known, calls

LEMMA ExecuteStep ==
  ASSUME ExecInv, NEW r \in Requests, Execute(r)
  PROVE  ExecInv'
<1>1. /\ UNCHANGED <<allVars, walk, chained, tried>>
      /\ epc[r] = "none" /\ pc[r] = "done" /\ config \in Configs
      /\ epc' = [epc EXCEPT ![r] = "chain"] /\ efull' = [efull EXCEPT ![r] = config]
  BY DEF Execute, SentBack, Handled, ExecInv, IInv, RoutingTypeOK
<1>2. IInv' /\ ChainsOwn'
  BY <1>1, OutsideStep DEF ExecInv, ChainsOwn, allVars, vars
<1>3. ExecTypeOK'
  BY <1>1, ExecTyped DEF ExecTypeOK
<1>4. WalkOK(r)'
  <2>1. walk[r] = <<>> /\ tried[r] = 0 /\ DOMAIN walk[r] = {}
    BY <1>1 DEF ExecInv, WalkOK
  <2>. QED BY <1>1, <2>1, ExecTyped DEF WalkOK, allVars, calls
<1>5. \A q \in Requests : WalkOK(q)'
  BY <1>1, <1>4, ExecTyped, OtherWalks DEF allVars
<1>. QED BY <1>2, <1>3, <1>5 DEF ExecInv

LEMMA ReadChainStep ==
  ASSUME ExecInv, NEW r \in Requests, ReadChain(r)
  PROVE  ExecInv'
<1>. DEFINE k == PinKey(Scope(r), input[r].session)
<1>1. /\ epc[r] = "chain" /\ epc' = [epc EXCEPT ![r] = "try"]
      /\ UNCHANGED <<Plugin, calls, sessions, routeCache, counters, lastDecision, efull, tried>>
      /\ pc[r] = "done" /\ tried[r] = 0
  BY DEF ReadChain, ExecInv, WalkOK
<1>2. PICK w \in ListOf(Targets) :
        /\ walk' = [walk EXCEPT ![r] = w]
        /\ chained' \in [Requests -> BOOLEAN]
        /\ IsMap(fallbackChains', PinKeys, ChainEntries) /\ ChainsOwn'
        /\ Known(r) => \A i \in DOMAIN w : w[i] \in OwnTargets(input[r].vm)
  <2>1. CASE /\ GetFallbackChain(k)
             /\ walk' = [walk EXCEPT ![r] = fallbackChains[k].chain]
             /\ chained' = [chained EXCEPT ![r] = TRUE]
    BY <2>1, ChainInLane, TouchChain, ExecTyped DEF GetFallbackChain
  <2>2. CASE /\ walk' = [walk EXCEPT ![r] = ConfiguredOrder(r)]
             /\ UNCHANGED <<fallbackChains, chained>>
    <3>1. IsMap(fallbackChains', PinKeys, ChainEntries) /\ ChainsOwn'
      BY <2>2, Typed DEF ExecInv, ChainsOwn
    <3>. QED BY <2>2, <3>1, ConfiguredInLane, ExecTyped
  <2>. QED BY <2>1, <2>2 DEF ReadChain
<1>3. IInv'
  BY <1>1, <1>2, ReadKeepsIInv DEF ExecInv
<1>4. Len(w) \in Nat
  BY TargetsAssumption, ListLemma
<1>5. ExecTypeOK'
  BY <1>1, <1>2, <1>4, ExecTyped DEF ExecTypeOK
<1>6. WalkOK(r)'
  BY <1>1, <1>2, ExecTyped DEF WalkOK, Known, calls
<1>7. \A q \in Requests : WalkOK(q)'
  BY <1>1, <1>2, <1>6, ExecTyped, OtherWalks
<1>. QED BY <1>2, <1>3, <1>5, <1>7 DEF ExecInv

LEMMA AttemptStep ==
  ASSUME ExecInv, NEW r \in Requests, Skip(r) \/ Attempt(r) \/ Exhausted(r)
  PROVE  ExecInv'
<1>1. PICK end \in {"try", "served", "failed"} :
        /\ epc[r] = "try" /\ epc' = [epc EXCEPT ![r] = end]
        /\ UNCHANGED <<allVars, efull, walk, chained>>
  <2>1. CASE Skip(r)
    <3>1. epc' = epc /\ epc[r] = "try" /\ UNCHANGED <<allVars, efull, walk, chained>>
      BY <2>1 DEF Skip
    <3>2. epc' = [epc EXCEPT ![r] = "try"]
      BY <3>1, ExecTyped
    <3>. QED BY <3>1, <3>2
  <2>2. CASE Attempt(r) \/ Exhausted(r)
    BY <2>2 DEF Attempt, Exhausted
  <2>. QED BY <2>1, <2>2
<1>2. IInv' /\ ChainsOwn'
  BY <1>1, OutsideStep DEF ExecInv, ChainsOwn, allVars, vars
<1>3. walk[r] \in ListOf(Targets) /\ Len(walk[r]) \in Nat /\ tried[r] \in Nat /\ tried[r] <= Len(walk[r])
  BY ExecTyped, TargetsAssumption, ListLemma
<1>4. /\ tried' \in [Requests -> Nat]
      /\ \A q \in Requests \ {r} : tried'[q] = tried[q]
      /\ tried'[r] \in Nat /\ tried'[r] <= Len(walk[r])
  <2>1. CASE Skip(r)
    BY <1>3, <2>1, ExecTyped DEF Skip
  <2>2. CASE Attempt(r)
    BY <1>3, <2>2, ExecTyped DEF Attempt
  <2>3. CASE Exhausted(r)
    BY <1>3, <2>3, ExecTyped DEF Exhausted
  <2>. QED BY <2>1, <2>2, <2>3
<1>5. ExecTypeOK'
  BY <1>1, <1>4, ExecTyped DEF ExecTypeOK
<1>6. WalkOK(r)'
  BY <1>1, ExecTyped DEF ExecInv, WalkOK, Known, allVars, calls
<1>7. \A q \in Requests : WalkOK(q)'
  BY <1>1, <1>4, <1>6, ExecTyped, OtherWalks DEF allVars
<1>. QED BY <1>2, <1>5, <1>7 DEF ExecInv

(*************************** the theorems *********************************)
\* What an execution goes through, and the chains it may find, stay in the lane
\* of its virtual model through every step of routing and execution.
THEOREM ExecInvariant == ExecSpec => []ExecInv
<1>1. ExecInit => ExecInv
  <2>. SUFFICES ASSUME ExecInit PROVE ExecInv
    OBVIOUS
  <2>1. IInv /\ config \in Configs
    BY RoutingInitIInv DEF ExecInit, RoutingInit
  <2>2. <<>> \in ListOf(Targets) /\ Len(<<>>) = 0
    <3>1. Cardinality(Targets) \in Nat
      BY TargetsAssumption, FS_CardinalityType
    <3>2. <<>> \in [1 .. 0 -> Targets]
      OBVIOUS
    <3>3. <<>> \in ListOf(Targets)
      <4>. DEFINE none == <<>>
      <4>1. none \in [1 .. 0 -> Targets]
        BY <3>2
      <4>2. 0 \in Nat /\ 0 <= Cardinality(Targets) + 1
        BY <3>1
      <4>. HIDE DEF none
      <4>3. none \in ListOf(Targets)
        BY <4>1, <4>2, TargetsAssumption, ListIntro
      <4>. QED BY <4>3 DEF none
    <3>. QED BY <3>3
  <2>3. ExecTypeOK
    BY <2>1, <2>2 DEF ExecInit, ExecTypeOK
  <2>4. ChainsOwn
    BY DEF ExecInit, RoutingInit, Init, ChainsOwn, EmptyMap
  <2>5. \A r \in Requests : WalkOK(r)
    BY DEF ExecInit, WalkOK
  <2>. QED BY <2>1, <2>3, <2>4, <2>5 DEF ExecInv
<1>2. ExecInv /\ [ExecNext]_execAllVars => ExecInv'
  <2>. SUFFICES ASSUME ExecInv, [ExecNext]_execAllVars PROVE ExecInv'
    OBVIOUS
  <2>1. ASSUME NEW r \in Requests, ExecStep(r) PROVE ExecInv'
    BY <2>1, ExecuteStep, ReadChainStep, AttemptStep DEF ExecStep
  <2>2. CASE [RoutingNext]_allVars /\ UNCHANGED execVars
    BY <2>2, RoutingStepExecInv
  <2>. QED
    BY <2>1, <2>2 DEF ExecNext, ExecSteadyNext, ExecLoad, RoutingNext, SteadyNext, execAllVars
<1>. QED BY <1>1, <1>2, PTL DEF ExecSpec

\* The state of all executions keeps its type; in particular no walk is longer
\* than an entry can be, and none is left behind its own end.
THEOREM ExecTypeCorrect == ExecSpec => []ExecTypeOK
<1>1. ExecInv => ExecTypeOK
  BY DEF ExecInv
<1>. QED BY ExecInvariant, <1>1, PTL

\* Whatever other calls store and however often the plugin is reconfigured, a
\* call whose virtual model is still configured is executed on targets that
\* virtual model has offered, and on no others (executorCandidateChain).
THEOREM ExecutionKeepsLane == ExecSpec => []ExecutesInLane
<1>1. ExecInv => ExecutesInLane
  <2>. SUFFICES ASSUME ExecInv, NEW r \in Requests, Known(r), NEW i \in 1 .. tried[r]
                PROVE  walk[r][i] \in OwnTargets(input[r].vm)
    BY DEF ExecutesInLane
  <2>1. /\ DOMAIN walk[r] = 1 .. Len(walk[r]) /\ Len(walk[r]) \in Nat
        /\ tried[r] \in Nat /\ tried[r] <= Len(walk[r])
    BY ExecTyped, TargetsAssumption, ListLemma
  <2>2. i \in DOMAIN walk[r]
    BY <2>1
  <2>. QED BY <2>2 DEF ExecInv, WalkOK
<1>. QED BY ExecInvariant, <1>1, PTL

----------------------------------------------------------------------------
(***************************************************************************)
(* The counters, between two reconfigurations and from a file that counts  *)
(* nothing: each call is counted once, however the calls interleave.       *)
(***************************************************************************)
CountsFromZero ==
  /\ IsFiniteSet(Requests)
  /\ \A f \in InitFiles : \A n \in Counters : f.data.counters[n] = 0

\* Nothing has answered a call that still looks for its route.
Searching == {"idle", "session", "legacy", "migrate", "forget", "cache", "decide",
              "classify", "host", "local"}

\* Until the state file is read, no call is let in and nothing is counted; it is
\* read once.
Untouched ==
  /\ file \in InitFiles
  /\ \A r \in Requests : pc[r] = "idle"

CountInv ==
  /\ CountersAgree
  /\ lifecycle = "register" => Untouched
  /\ lifecycle # "reload"
  /\ \A r \in Requests : pc[r] \in Searching => source[r] = "none"

\* A call's step touches no other call.
LEMMA OwnStep ==
  ASSUME IInv, NEW r \in Requests, Load(r) \/ Step(r), NEW q \in Requests \ {r}
  PROVE  /\ pc'[q] = pc[q] /\ input'[q] = input[q] /\ full'[q] = full[q]
         /\ route'[q] = route[q] /\ source'[q] = source[q]
<1>. USE CallTyped DEF Goto, Rest, Found, From, Select
<1>1. CASE Load(r) \/ Session(r) \/ Legacy(r) \/ Migrate(r) \/ Forget(r) \/ Cache(r)
  BY <1>1 DEF Load, Session, Legacy, Migrate, Forget, Cache
<1>2. CASE Decide(r) \/ Record(r) \/ Classify(r) \/ HostSelects(r) \/ HostFails(r)
  BY <1>2 DEF Decide, Record, Classify, HostSelects, HostFails
<1>3. CASE Local(r) \/ StoreCache(r) \/ StorePin(r) \/ Save(r)
  BY <1>3 DEF Local, StoreCache, StorePin, Save
<1>. QED BY <1>1, <1>2, <1>3 DEF Step

\* Once let in, a call keeps what it carries, and no call changes the configuration.
LEMMA StepFrame ==
  ASSUME NEW r \in Requests, Step(r)
  PROVE  UNCHANGED <<input, full, config, lifecycle>>
<1>1. CASE Session(r) \/ Legacy(r) \/ Migrate(r) \/ Forget(r) \/ Cache(r)
  BY <1>1 DEF Session, Legacy, Migrate, Forget, Cache, Rest, Plugin
<1>2. CASE Decide(r) \/ Record(r) \/ Classify(r) \/ HostSelects(r) \/ HostFails(r)
  BY <1>2 DEF Decide, Record, Classify, HostSelects, HostFails, Rest, Plugin
<1>3. CASE Local(r) \/ StoreCache(r) \/ StorePin(r) \/ Save(r)
  BY <1>3 DEF Local, StoreCache, StorePin, Save, Rest, Plugin
<1>. QED BY <1>1, <1>2, <1>3 DEF Step

LEMMA Counting ==
  ASSUME NEW S, IsFiniteSet(S), NEW x
  PROVE  /\ Cardinality(S) \in Nat
         /\ x \notin S => Cardinality(S \cup {x}) = Cardinality(S) + 1
         /\ x \in S => Cardinality(S \ {x}) = Cardinality(S) - 1
BY FS_CardinalityType, FS_AddElement, FS_RemoveElement

LEMMA CountedSets ==
  ASSUME CountsFromZero
  PROVE  /\ IsFiniteSet(Began) /\ IsFiniteSet(Asking)
         /\ \A s : IsFiniteSet(AnsweredBy(s))
<1>1. Began \subseteq Requests /\ Asking \subseteq Requests /\ \A s : AnsweredBy(s) \subseteq Requests
  BY DEF Began, Asking, AnsweredBy
<1>. QED BY <1>1, FS_Subset DEF CountsFromZero

\* The sets counted differ in the one call that moves.
LEMMA CountMoves ==
  ASSUME IInv, NEW r \in Requests, Load(r) \/ Step(r)
  PROVE  /\ Began \ {r} = Began' \ {r}
         /\ Asking \ {r} = Asking' \ {r}
         /\ \A s : AnsweredBy(s) \ {r} = AnsweredBy(s)' \ {r}
BY OwnStep DEF Began, Asking, AnsweredBy

CounterNames == {"requests", "cache_hits", "classifier_calls", "classifier_failures"}

LEMMA LoadCounts ==
  ASSUME CountsFromZero, IInv, CountInv, NEW r \in Requests, Load(r)
  PROVE  CountInv'
<1>1. /\ pc[r] = "idle" /\ lifecycle # "register" /\ source[r] = "none"
      /\ UNCHANGED <<config, lifecycle>>
  BY DEF Load, Plugin, CountInv, Searching
<1>2. PICK in \in Inputs :
        /\ input' = [input EXCEPT ![r] = in]
        /\ full' = [full EXCEPT ![r] = config]
        /\ IF in.vm \in DOMAIN config.entries
           THEN Inc("requests") /\ Goto(r, "session") /\ UNCHANGED source
           ELSE Goto(r, "done") /\ From(r, "unhandled") /\ UNCHANGED counters
  BY DEF Load
<1>3. /\ pc'[r] \in {"session", "done"} /\ source'[r] \in {"none", "unhandled"}
      /\ pc'[r] = "session" => source'[r] = "none"
  BY <1>1, <1>2, CallTyped DEF Goto, From
<1>4. r \notin Began /\ r \notin Asking /\ r \notin Asking'
      /\ \A s \in {"cache", "classifier"} : r \notin AnsweredBy(s) /\ r \notin AnsweredBy(s)'
  BY <1>1, <1>3 DEF Began, Asking, AnsweredBy
<1>5. /\ Asking' = Asking
      /\ AnsweredBy("cache")' = AnsweredBy("cache")
      /\ AnsweredBy("classifier")' = AnsweredBy("classifier")
  BY <1>4, CountMoves
<1>6. CountersAgree'
  <2>1. CASE in.vm \in DOMAIN config.entries
    <3>1. r \in Began'
      BY <1>2, <2>1, CallTyped DEF Began, Goto
    <3>2. Began' = Began \cup {r}
      BY <1>4, <3>1, CountMoves
    <3>3. Cardinality(Began') = Cardinality(Began) + 1
      BY <1>4, <3>2, CountedSets, Counting
    <3>4. /\ counters'["requests"] = counters["requests"] + 1
          /\ \A n \in CounterNames \ {"requests"} : counters'[n] = counters[n]
      BY <1>2, <2>1, Typed, CounterAssumption DEF Inc, CounterNames
    <3>. QED BY <1>5, <3>3, <3>4 DEF CountInv, CountersAgree, CounterNames
  <2>2. CASE in.vm \notin DOMAIN config.entries
    <3>1. r \notin Began'
      BY <1>2, <2>2, CallTyped DEF Began
    <3>2. Began' = Began
      BY <1>4, <3>1, CountMoves
    <3>. QED BY <1>2, <1>5, <2>2, <3>2 DEF CountInv, CountersAgree
  <2>. QED BY <2>1, <2>2
<1>7. \A q \in Requests : pc'[q] \in Searching => source'[q] = "none"
  BY <1>3, OwnStep DEF CountInv, Searching
<1>. QED BY <1>1, <1>6, <1>7 DEF CountInv

\* A step that counts nothing and whose call neither was asking nor is, and is
\* answered by none of the two that count.
LEMMA PlainCounts ==
  ASSUME CountsFromZero, IInv, CountInv, NEW r \in Requests, Step(r), Active(r),
         pc'[r] # "idle", pc[r] # "host", pc'[r] # "host",
         source'[r] = source[r] \/ (source[r] = "none" /\ source'[r] \notin {"cache", "classifier"}),
         pc'[r] \in Searching => source'[r] = "none",
         \A n \in CounterNames : counters'[n] = counters[n]
  PROVE  CountInv'
<1>1. UNCHANGED <<input, full, lifecycle>>
  BY StepFrame
<1>2. r \in Began <=> r \in Began'
  BY <1>1 DEF Began, Active
<1>3. r \notin Asking /\ r \notin Asking'
      /\ \A s \in {"cache", "classifier"} : r \in AnsweredBy(s) <=> r \in AnsweredBy(s)'
  BY DEF Asking, AnsweredBy
<1>4. /\ Began' = Began /\ Asking' = Asking
      /\ AnsweredBy("cache")' = AnsweredBy("cache")
      /\ AnsweredBy("classifier")' = AnsweredBy("classifier")
  BY <1>2, <1>3, CountMoves
<1>5. CountersAgree'
  BY <1>4 DEF CountInv, CountersAgree, CounterNames
<1>6. \A q \in Requests : pc'[q] \in Searching => source'[q] = "none"
  BY OwnStep DEF CountInv
<1>7. lifecycle # "register"
  BY DEF CountInv, Untouched, Active
<1>. QED BY <1>1, <1>5, <1>6, <1>7 DEF CountInv
\* What is left after the sets that count are as they were or have lost or gained
\* the call.
LEMMA CountTogether ==
  ASSUME IInv, CountInv, NEW r \in Requests, Step(r), Active(r), pc'[r] # "idle",
         pc'[r] \in Searching => source'[r] = "none",
         CountersAgree'
  PROVE  CountInv'
<1>1. UNCHANGED <<input, full, lifecycle>>
  BY StepFrame
<1>2. \A q \in Requests : pc'[q] \in Searching => source'[q] = "none"
  BY OwnStep DEF CountInv
<1>3. lifecycle # "register"
  BY DEF CountInv, Untouched, Active
<1>. QED BY <1>1, <1>2, <1>3 DEF CountInv

LEMMA BeganKept ==
  ASSUME IInv, NEW r \in Requests, Step(r), Active(r), pc'[r] # "idle"
  PROVE  Began' = Began
<1>1. UNCHANGED <<input, full>>
  BY StepFrame
<1>2. r \in Began <=> r \in Began'
  BY <1>1 DEF Began, Active
<1>. QED BY <1>2, CountMoves

LEMMA CacheCounts ==
  ASSUME CountsFromZero, IInv, CountInv, NEW r \in Requests, Cache(r)
  PROVE  CountInv'
<1>1. Step(r) /\ Active(r) /\ pc[r] = "cache" /\ source[r] = "none"
  BY DEF Step, Active, Cache, CountInv, Searching
<1>2. CASE Goto(r, "decide") /\ UNCHANGED <<counters, source>>
  BY <1>1, <1>2, CallTyped, PlainCounts DEF Goto, CounterNames
<1>3. CASE From(r, "cache") /\ Inc("cache_hits") /\ Goto(r, "done")
  <2>1. source'[r] = "cache" /\ pc'[r] = "done"
    BY <1>3, CallTyped DEF From, Goto
  <2>2. /\ counters'["cache_hits"] = counters["cache_hits"] + 1
        /\ \A n \in CounterNames \ {"cache_hits"} : counters'[n] = counters[n]
    BY <1>3, Typed, CounterAssumption DEF Inc, CounterNames
  <2>3. Began' = Began
    BY <1>1, <2>1, BeganKept
  <2>4. /\ r \notin Asking /\ r \notin Asking' /\ r \notin AnsweredBy("classifier")
        /\ r \notin AnsweredBy("classifier")' /\ r \notin AnsweredBy("cache")
        /\ r \in AnsweredBy("cache")'
    BY <1>1, <2>1 DEF Asking, AnsweredBy
  <2>5. /\ Asking' = Asking /\ AnsweredBy("classifier")' = AnsweredBy("classifier")
        /\ AnsweredBy("cache")' = AnsweredBy("cache") \cup {r}
    BY <1>1, <2>4, CountMoves
  <2>6. Cardinality(AnsweredBy("cache")') = Cardinality(AnsweredBy("cache")) + 1
    BY <2>4, <2>5, CountedSets, Counting
  <2>7. CountersAgree'
    BY <2>2, <2>3, <2>5, <2>6 DEF CountInv, CountersAgree, CounterNames
  <2>. QED BY <1>1, <2>1, <2>7, CountTogether DEF Searching
<1>. QED BY <1>2, <1>3 DEF Cache

LEMMA ClassifyCounts ==
  ASSUME CountsFromZero, IInv, CountInv, NEW r \in Requests, Classify(r)
  PROVE  CountInv'
<1>1. Step(r) /\ Active(r) /\ pc[r] = "classify" /\ source[r] = "none" /\ UNCHANGED source
  BY DEF Step, Active, Classify, Rest, CountInv, Searching
<1>2. CASE Goto(r, "local") /\ UNCHANGED counters
  BY <1>1, <1>2, CallTyped, PlainCounts DEF Goto, CounterNames
<1>3. CASE Inc("classifier_calls") /\ Goto(r, "host")
  <2>1. pc'[r] = "host"
    BY <1>3, CallTyped DEF Goto
  <2>2. /\ counters'["classifier_calls"] = counters["classifier_calls"] + 1
        /\ \A n \in CounterNames \ {"classifier_calls"} : counters'[n] = counters[n]
        /\ \A n \in CounterNames : counters[n] \in Nat
    BY <1>3, Typed, CounterAssumption DEF Inc, CounterNames
  <2>3. Began' = Began /\ \A s : AnsweredBy(s)' = AnsweredBy(s)
    BY <1>1, <2>1, BeganKept DEF AnsweredBy
  <2>4. r \notin Asking /\ r \in Asking'
    BY <1>1, <2>1 DEF Asking
  <2>5. Asking' = Asking \cup {r}
    BY <1>1, <2>4, CountMoves
  <2>6. Cardinality(Asking') = Cardinality(Asking) + 1
    BY <2>4, <2>5, CountedSets, Counting
  <2>7. Cardinality(Asking) \in Nat /\ Cardinality(AnsweredBy("classifier")) \in Nat
    BY CountedSets, Counting
  <2>8. CountersAgree'
    BY <2>2, <2>3, <2>6, <2>7 DEF CountInv, CountersAgree, CounterNames
  <2>. QED BY <1>1, <2>1, <2>8, CountTogether
<1>. QED BY <1>2, <1>3 DEF Classify

LEMMA HostCounts ==
  ASSUME CountsFromZero, IInv, CountInv, NEW r \in Requests, HostSelects(r) \/ HostFails(r)
  PROVE  CountInv'
<1>1. Step(r) /\ Active(r) /\ pc[r] = "host" /\ source[r] = "none"
  BY DEF Step, Active, HostSelects, HostFails, CountInv, Searching
<1>2. pc'[r] \in {"storeCache", "classify"}
  BY CallTyped DEF HostSelects, HostFails, Goto
<1>3. Began' = Began
  BY <1>1, <1>2, BeganKept
<1>4. r \in Asking /\ r \notin Asking'
  BY <1>1, <1>2 DEF Asking
<1>5. Asking' = Asking \ {r}
  BY <1>1, <1>4, CountMoves
<1>6. Cardinality(Asking') = Cardinality(Asking) - 1
  BY <1>4, <1>5, CountedSets, Counting
<1>7. /\ Cardinality(Asking) \in Nat /\ Cardinality(AnsweredBy("classifier")) \in Nat
      /\ \A n \in CounterNames : counters[n] \in Nat
  BY CountedSets, Counting, Typed, CounterAssumption DEF CounterNames
<1>8. CASE HostSelects(r)
  <2>1. source' = [source EXCEPT ![r] = "classifier"] /\ pc'[r] = "storeCache"
        /\ counters' = counters
    BY <1>8, CallTyped DEF HostSelects, Select, From, Goto
  <2>2. source'[r] = "classifier"
    BY <2>1, CallTyped
  <2>3. /\ r \notin AnsweredBy("classifier") /\ r \in AnsweredBy("classifier")'
        /\ r \notin AnsweredBy("cache") /\ r \notin AnsweredBy("cache")'
    BY <1>1, <2>2 DEF AnsweredBy
  <2>4. /\ AnsweredBy("classifier")' = AnsweredBy("classifier") \cup {r}
        /\ AnsweredBy("cache")' = AnsweredBy("cache")
    BY <1>1, <2>3, CountMoves
  <2>5. Cardinality(AnsweredBy("classifier")') = Cardinality(AnsweredBy("classifier")) + 1
    BY <2>3, <2>4, CountedSets, Counting
  <2>6. CountersAgree'
    BY <1>3, <1>6, <1>7, <2>1, <2>4, <2>5 DEF CountInv, CountersAgree, CounterNames
  <2>. QED BY <1>1, <2>1, <2>6, CountTogether DEF Searching
<1>9. CASE HostFails(r)
  <2>1. UNCHANGED source /\ Inc("classifier_failures")
    BY <1>9 DEF HostFails
  <2>2. /\ counters'["classifier_failures"] = counters["classifier_failures"] + 1
        /\ \A n \in CounterNames \ {"classifier_failures"} : counters'[n] = counters[n]
    BY <2>1, Typed, CounterAssumption DEF Inc, CounterNames
  <2>3. \A s : AnsweredBy(s)' = AnsweredBy(s)
    BY <2>1 DEF AnsweredBy
  <2>4. CountersAgree'
    BY <1>3, <1>6, <1>7, <2>2, <2>3 DEF CountInv, CountersAgree, CounterNames
  <2>. QED BY <1>1, <1>2, <2>1, <2>4, CountTogether
<1>. QED BY <1>8, <1>9

\* The steps of a call that none of the counters in question counts.
LEMMA OtherCounts ==
  ASSUME CountsFromZero, IInv, CountInv, NEW r \in Requests, Step(r),
         ~Cache(r), ~Classify(r), ~HostSelects(r), ~HostFails(r)
  PROVE  CountInv'
<1>. USE CallTyped DEF Goto, From, Found, Select, Rest, CounterNames, Searching, CountInv, Active
<1>1. CASE Session(r) \/ Legacy(r) \/ Migrate(r) \/ Forget(r)
  <2>1. /\ pc[r] \in {"session", "legacy", "migrate", "forget"} /\ source[r] = "none"
        /\ pc'[r] \in {"legacy", "migrate", "forget", "cache", "done"}
        /\ source'[r] \in {"none", "session", "legacy"}
        /\ pc'[r] # "done" => source'[r] = "none"
        /\ UNCHANGED counters
    BY <1>1 DEF Session, Legacy, Migrate, Forget
  <2>. QED BY <2>1, PlainCounts
<1>2. CASE Local(r) \/ StoreCache(r) \/ StorePin(r) \/ Save(r)
  <2>1. /\ pc[r] \in {"local", "storeCache", "storePin", "save"}
        /\ pc'[r] \in {"storeCache", "storePin", "save", "done"}
        /\ source'[r] \in {source[r], "local", "unhandled"}
        /\ pc[r] # "local" => source'[r] = source[r]
        /\ UNCHANGED counters
    BY <1>2 DEF Local, StoreCache, StorePin, Save
  <2>. QED BY <2>1, PlainCounts
<1>3. CASE Decide(r) \/ Record(r)
  <2>1. /\ pc[r] \in {"decide", "record"}
        /\ pc'[r] \in {"local", "classify", "storeCache", "record"}
        /\ source'[r] \in {source[r], "local", "engine"}
        /\ pc[r] = "record" => source'[r] = source[r]
        /\ pc'[r] \in {"local", "classify"} => source'[r] = source[r] /\ pc[r] = "decide"
    BY <1>3 DEF Decide, Record
  <2>2. \A n \in CounterNames : counters'[n] = counters[n]
    <3>1. \/ UNCHANGED counters \/ Inc("local_confident") \/ Inc("decision_engine")
      BY <1>3 DEF Decide, Record
    <3>. QED BY <3>1, Typed, CounterAssumption DEF Inc
  <2>. QED BY <2>1, <2>2, PlainCounts
<1>. QED BY <1>1, <1>2, <1>3 DEF Step

\* The state file is read before anything is counted.
LEMMA PluginCounts ==
  ASSUME CountsFromZero, IInv, CountInv, LoadState \/ HandleUsage \/ Clock
  PROVE  CountInv'
<1>1. UNCHANGED calls
  BY DEF LoadState, HandleUsage, Clock
<1>2. /\ Began' = Began /\ Asking' = Asking /\ \A s : AnsweredBy(s)' = AnsweredBy(s)
      /\ \A q \in Requests : pc'[q] \in Searching => source'[q] = "none"
  BY <1>1 DEF calls, Began, Asking, AnsweredBy, CountInv
<1>3. CASE LoadState
  <2>1. lifecycle = "register" /\ lifecycle' = "ready" /\ Untouched
    BY <1>3 DEF LoadState, CountInv
  <2>2. CASE UNCHANGED counters
    BY <1>2, <2>1, <2>2 DEF CountInv, CountersAgree
  <2>3. CASE counters' = file.data.counters
    <3>1. Began = {} /\ Asking = {} /\ AnsweredBy("cache") = {} /\ AnsweredBy("classifier") = {}
      BY <2>1 DEF Untouched, Began, Asking, AnsweredBy, CountInv, Searching
    <3>2. \A n \in CounterNames : counters'[n] = 0
      BY <2>1, <2>3, CounterAssumption DEF Untouched, CountsFromZero, CounterNames
    <3>. QED BY <1>2, <2>1, <3>1, <3>2, FS_EmptySet DEF CountInv, CountersAgree, CounterNames
  <2>. QED BY <1>3, <2>2, <2>3 DEF LoadState, LoadFromFile, KeepData
<1>4. CASE HandleUsage
  BY <1>2, <1>4 DEF HandleUsage, KeepData, CountInv, CountersAgree
<1>5. CASE Clock
  BY <1>1, <1>2, <1>5 DEF Clock, TickOp, KeepData, CountInv, CountersAgree, Untouched, calls
<1>. QED BY <1>3, <1>4, <1>5

\* Every call is counted once and every attempt of a classifier has one outcome,
\* for any number of calls however they interleave, from a state file that counts
\* nothing (routeModel, classifyRoute).
THEOREM CountersExact ==
  ASSUME CountsFromZero
  PROVE  ExecSteadySpec => []CountersAgree
<1>1. ExecInit => CountInv
  <2>. SUFFICES ASSUME ExecInit PROVE CountInv
    OBVIOUS
  <2>1. Began = {} /\ Asking = {} /\ AnsweredBy("cache") = {} /\ AnsweredBy("classifier") = {}
    BY DEF ExecInit, RoutingInit, Began, Asking, AnsweredBy
  <2>2. CountersAgree
    <3>1. counters = [n \in Counters |-> 0]
      BY DEF ExecInit, RoutingInit, Init
    <3>2. \A n \in CounterNames : counters[n] = 0
      BY <3>1, CounterAssumption DEF CounterNames
    <3>. QED BY <2>1, <3>2, FS_EmptySet DEF CountersAgree, CounterNames
  <2>. QED BY <2>2 DEF ExecInit, RoutingInit, Init, CountInv, Untouched
<1>2. ExecInv /\ CountInv /\ [ExecSteadyNext]_execAllVars => CountInv'
  <2>. SUFFICES ASSUME ExecInv, CountInv, [ExecSteadyNext]_execAllVars PROVE CountInv'
    OBVIOUS
  <2>1. IInv
    BY DEF ExecInv
  <2>2. ASSUME NEW r \in Requests, Load(r) \/ Step(r) PROVE CountInv'
    BY <2>1, <2>2, LoadCounts, CacheCounts, ClassifyCounts, HostCounts, OtherCounts
  <2>3. CASE UNCHANGED <<calls, counters, lifecycle, file>>
    BY <2>3 DEF calls, CountInv, CountersAgree, Began, Asking, AnsweredBy, Untouched
  <2>4. CASE LoadState \/ HandleUsage \/ Clock
    BY <2>1, <2>4, PluginCounts
  <2>5. ASSUME NEW r \in Requests, ExecStep(r) PROVE UNCHANGED <<calls, counters, lifecycle, file>>
    BY <2>5 DEF ExecStep, Execute, ReadChain, Skip, Attempt, Exhausted, allVars, vars, Plugin
  <2>. QED
    BY <2>2, <2>3, <2>4, <2>5 DEF ExecSteadyNext, ExecLoad, execAllVars, allVars, vars
<1>3. CountInv => CountersAgree
  BY DEF CountInv
<1>4. ExecSteadySpec => []ExecInv
  <2>1. [ExecSteadyNext]_execAllVars => [ExecNext]_execAllVars
    BY DEF ExecNext
  <2>. QED BY <2>1, ExecInvariant, PTL DEF ExecSteadySpec, ExecSpec
<1>. QED BY <1>1, <1>2, <1>3, <1>4, PTL DEF ExecSteadySpec
----------------------------------------------------------------------------
(***************************************************************************)
(* Sessions, between two reconfigurations and with room for every pin: any *)
(* number of calls of any number of sessions may overlap.  AffinityInv     *)
(* says what a call has seen of its pin by what it has done so far.        *)
(***************************************************************************)
RoomForPins == IsFiniteSet(PinKeys) /\ Cardinality(PinKeys) <= MaxEntries

Choosers == {"legacy", "local", "classifier", "engine"}

\* A call of a session comes here only past a lookup that missed its pin.
Late == Labels \ {"idle", "session", "done"}

Missed(r) == Keeps(r) /\ (pc[r] \in Late \/ source[r] \in Choosers)

\* It has found its pin or stored it.
Settled(r) ==
  /\ Keeps(r)
  /\ \/ pc[r] \in {"forget", "save"}
     \/ pc[r] = "done" /\ source[r] \in Choosers \cup {"session"}

Moving(r) == pc[r] \in {"migrate", "forget"} \/ source[r] = "legacy"

PinnedBy(k, t) ==
  \E p \in Requests : Pinning(p) /\ Pin(p) = k /\ route[p].target = t

Finds(q, t) ==
  \E p \in Requests : (p = q \/ Rival(p, q)) /\ route[p].target = t

\* Where a call stands tells where its route came from.
SourceOK(r) ==
  /\ pc[r] \in Searching => source[r] = "none"
  /\ pc[r] \in {"record", "storeCache", "storePin", "save"} =>
       source[r] \in {"local", "classifier", "engine"}
  /\ pc[r] = "done" => source[r] # "none"
  /\ pc[r] \in {"legacy", "migrate", "forget"} \/ source[r] \in {"session", "legacy"} => Keeps(r)
  /\ pc[r] # "idle" /\ source[r] # "unhandled" => input[r].vm \in DOMAIN full[r].entries

BeforeOK(r) ==
  /\ pc[r] = "idle" => before[r] = {}
  /\ \A q \in before[r] : Over(q)

\* A pin that was not there when a call looked is one another call has stored.
MissedOK(r) ==
  Missed(r) /\ Pin(r) \in DOMAIN sessions => PinnedBy(Pin(r), sessions[Pin(r)].target)

\* A pin once found or stored stays; only overlapping calls replace its target.
SettledOK(r) ==
  Settled(r) => Pin(r) \in DOMAIN sessions /\ Finds(r, sessions[Pin(r)].target)

\* So a call that follows finds it.
FollowsOK(q, r) ==
  q \in before[r] /\ Settled(q) /\ Keeps(r) /\ Pin(q) = Pin(r) =>
    \/ pc[r] = "session"
    \/ pc[r] = "done" /\ source[r] = "session" /\ Finds(q, route[r].target)

\* One call missed a pin another found: a call had stored it in between.
ReadOK(r, w) ==
  source[r] = "session" /\ Missed(w) /\ Pin(r) = Pin(w) => PinnedBy(Pin(r), route[r].target)

\* The pin an older version left is not written, and goes for good.
BareOK(r) ==
  LET k == BareKey(input[r].session)
  IN  /\ Moving(r) /\ k \in DOMAIN sessions => route[r].target = sessions[k].target
      /\ source[r] = "legacy" => k \notin DOMAIN sessions

MovingOK(q, r) ==
  Moving(r) /\ input[q].session = input[r].session =>
    /\ Moving(q) => route[q].target = route[r].target
    /\ q \in before[r] => source[q] # "legacy"

CallsOK ==
  /\ \A r \in Requests : /\ SourceOK(r) /\ MissedOK(r) /\ SettledOK(r) /\ BareOK(r)
  /\ \A q, r \in Requests : FollowsOK(q, r) /\ ReadOK(q, r) /\ MovingOK(q, r)

\* A call the engine decided heads its chain.
HeadBy(w, k, t) ==
  /\ source[w] = "engine" /\ input[w].session # NoSession
  /\ Pin(w) = k /\ route[w].target = t

ChainsOK ==
  \A k \in DOMAIN fallbackChains :
    \E w \in Requests : HeadBy(w, k, fallbackChains[k].chain[1])

ExecutedOK(r) ==
  /\ epc[r] # "none" => SentBack(r) /\ efull[r] = config
  /\ epc[r] \in {"none", "chain"} => ~chained[r]
  /\ chained[r] => \E w \in Requests : HeadBy(w, Pin(r), walk[r][1]) /\ r \notin before[w]

SteadyOK ==
  /\ lifecycle # "reload"
  /\ lifecycle = "register" =>
       DOMAIN fallbackChains = {} /\ \A r \in Requests : pc[r] = "idle"
  /\ \A r \in Requests : pc[r] # "idle" => full[r] = config

AffinityInv ==
  /\ before \in [Requests -> SUBSET Requests]
  /\ SteadyOK /\ CallsOK /\ ChainsOK
  /\ \A r \in Requests : BeforeOK(r) /\ ExecutedOK(r)

(*************************** what a step does *****************************)
SameTargets(K) == \A k \in K : sessions'[k].target = sessions[k].target

PinsSame == DOMAIN sessions' = DOMAIN sessions /\ SameTargets(DOMAIN sessions)

Still(r) == source'[r] = source[r] /\ route'[r] = route[r]

Hits(r) ==
  /\ Keeps(r) /\ pc[r] = "session" /\ Pin(r) \in DOMAIN sessions /\ PinsSame
  /\ pc'[r] = "done" /\ source'[r] = "session"
  /\ route'[r].target = sessions[Pin(r)].target

Misses(r) ==
  /\ Keeps(r) /\ pc[r] = "session" /\ Pin(r) \notin DOMAIN sessions /\ PinsSame
  /\ pc'[r] = "legacy" /\ Still(r)

Takes(r) ==
  LET k == BareKey(input[r].session)
  IN  /\ pc[r] = "legacy" /\ k \in DOMAIN sessions /\ PinsSame
      /\ pc'[r] = "migrate" /\ source'[r] = source[r]
      /\ route'[r].target = sessions[k].target

Looks(r) ==
  /\ pc[r] \in {"session", "legacy", "cache", "decide", "classify", "host"} /\ PinsSame
  /\ pc[r] = "session" => ~Keeps(r)
  /\ pc'[r] \in {"cache", "decide", "classify", "host", "local"} /\ source'[r] = source[r]

Chooses(r) ==
  /\ pc[r] \in {"decide", "host", "local"} /\ PinsSame
  /\ pc'[r] \in {"record", "storeCache"}
  /\ source'[r] \in {"local", "classifier", "engine"}

\* It goes on with its route, without pinning it or after that.
Carries(r) ==
  /\ Still(r) /\ PinsSame
  /\ \/ pc[r] \in {"record", "storeCache"} /\ pc'[r] \in {"storeCache", "storePin"}
     \/ pc[r] = "storePin" /\ ~Keeps(r) /\ pc'[r] = "save"
     \/ pc[r] = "save" /\ pc'[r] = "done"

Writes(r) ==
  /\ Keeps(r) /\ Still(r)
  /\ \/ pc[r] = "migrate" /\ pc'[r] = "forget"
     \/ pc[r] = "storePin" /\ pc'[r] = "save"
  /\ DOMAIN sessions' = DOMAIN sessions \cup {Pin(r)}
  /\ SameTargets(DOMAIN sessions \ {Pin(r)})
  /\ sessions'[Pin(r)].target = route[r].target

Drops(r) ==
  /\ pc[r] = "forget" /\ pc'[r] = "done"
  /\ source'[r] = "legacy" /\ route'[r] = route[r]
  /\ DOMAIN sessions' = DOMAIN sessions \ {BareKey(input[r].session)}
  /\ SameTargets(DOMAIN sessions')

Ends(r) ==
  /\ pc[r] \in {"cache", "local"} /\ PinsSame
  /\ pc'[r] = "done" /\ source'[r] \in {"cache", "unhandled"}

Kind(r) ==
  \/ Hits(r) \/ Misses(r) \/ Takes(r) \/ Looks(r) \/ Chooses(r)
  \/ Carries(r) \/ Writes(r) \/ Drops(r) \/ Ends(r)

\* A call that is under way makes a step.
Moved(r) ==
  /\ UNCHANGED <<input, full, before>> /\ Kind(r)
  /\ \A q \in Requests \ {r} : pc'[q] = pc[q] /\ Still(q)

Enters(r) ==
  /\ pc[r] = "idle" /\ UNCHANGED sessions
  /\ full'[r] = config /\ before'[r] = {q \in Requests : Over(q)}
  /\ \/ pc'[r] = "session" /\ source'[r] = source[r] /\ input'[r].vm \in DOMAIN config.entries
     \/ pc'[r] = "done" /\ source'[r] = "unhandled" /\ input'[r].vm \notin DOMAIN config.entries
  /\ \A q \in Requests \ {r} :
       /\ pc'[q] = pc[q] /\ Still(q)
       /\ input'[q] = input[q] /\ full'[q] = full[q] /\ before'[q] = before[q]

(*************************** the steps of a call **************************)
LEMMA TouchKeepsPins ==
  ASSUME IInv, NEW k, GetSessionRoute(k)
  PROVE  /\ PinsSame /\ k \in DOMAIN sessions
         /\ sessions'[k].target = sessions[k].target
<1>1. /\ k \in DOMAIN sessions /\ sessions' = Touch(sessions, k, now)
      /\ IsMap(sessions, PinKeys, Routes) /\ now \in Nat
  BY Typed DEF GetSessionRoute
<1>2. sessions[k] \in Routes
  BY <1>1 DEF IsMap
<1>3. /\ [sessions[k] EXCEPT !.used = now] \in Routes
      /\ [sessions[k] EXCEPT !.used = now].target = sessions[k].target
  BY <1>1, <1>2 DEF Routes
<1>4. /\ DOMAIN sessions' = DOMAIN sessions
      /\ \A j \in DOMAIN sessions \ {k} : sessions'[j] = sessions[j]
      /\ sessions'[k] = [sessions[k] EXCEPT !.used = now]
  BY <1>1, <1>3, TouchLemma
<1>. QED BY <1>1, <1>3, <1>4 DEF PinsSame, SameTargets

\* With room for every pin, a new one evicts nothing.
LEMMA RoomForEvery ==
  ASSUME RoomForPins, IsMap(sessions, PinKeys, Routes), NEW k \in PinKeys,
         NEW e, NEW n \in Insert(sessions, k, e, MaxEntries)
  PROVE  n = Put(sessions, k, e)
<1>1. CASE k \in DOMAIN sessions
  BY <1>1 DEF Insert
<1>2. CASE k \notin DOMAIN sessions
  <2>1. IsFiniteSet(PinKeys \ {k}) /\ Cardinality(PinKeys \ {k}) = Cardinality(PinKeys) - 1
    BY FS_RemoveElement DEF RoomForPins
  <2>2. DOMAIN sessions \subseteq PinKeys \ {k}
    BY <1>2 DEF IsMap
  <2>3. /\ Cardinality(DOMAIN sessions) <= Cardinality(PinKeys) - 1
        /\ Cardinality(DOMAIN sessions) \in Nat /\ Cardinality(PinKeys) \in Nat
    BY <2>1, <2>2, FS_Subset, FS_CardinalityType DEF RoomForPins
  <2>4. Cardinality(DOMAIN sessions) < MaxEntries
    BY <2>3, MaxEntriesAssumption DEF RoomForPins
  <2>. QED BY <1>2, <2>4 DEF Insert, EvictTo
<1>. QED BY <1>1, <1>2

LEMMA BareApart ==
  ASSUME IInv, NEW r \in Requests
  PROVE  \A s : BareKey(s) # Pin(r)
<1>1. input[r].vm # Bare
  BY CallTyped, InputAssumption, BareAssumption
<1>. QED BY <1>1 DEF BareKey, Pin, PinKey

LEMMA ActiveKeeps ==
  ASSUME IInv, NEW r \in Requests, Active(r)
  PROVE  Keeps(r) <=> KeepsSession(r)
BY DEF IInv, CallOK, Active, Keeps

LEMMA SetWritesPin ==
  ASSUME RoomForPins, IInv, NEW r \in Requests, Keeps(r),
         SetSessionRoute(Pin(r), route[r]), Still(r),
         \/ pc[r] = "migrate" /\ pc'[r] = "forget"
         \/ pc[r] = "storePin" /\ pc'[r] = "save"
  PROVE  Writes(r)
<1>1. input[r].session \in SessionIds /\ route[r] \in Routes /\ now \in Nat
  BY SessionOfKeeper, Typed DEF Keeps, IInv, CallOK, Carrying
<1>2. Pin(r) \in PinKeys
  BY <1>1, KeysOfLane
<1>3. Stamped(route[r]).target = route[r].target
  BY <1>1 DEF Stamped, Routes
<1>4. sessions' = Put(sessions, Pin(r), Stamped(route[r]))
  BY <1>2, Typed, RoomForEvery DEF SetSessionRoute
<1>. QED BY <1>3, <1>4 DEF Put, Writes, SameTargets

LEMMA PinStepKinds ==
  ASSUME RoomForPins, IInv, NEW r \in Requests, CallsOK,
         Session(r) \/ Legacy(r) \/ Migrate(r) \/ Forget(r) \/ StorePin(r)
  PROVE  Kind(r)
<1>. USE CallTyped DEF Goto, Found, From
<1>1. SourceOK(r)
  BY DEF CallsOK
<1>2. CASE Session(r)
  <2>1. Active(r) /\ pc[r] = "session" /\ (Keeps(r) <=> KeepsSession(r))
    BY <1>2, ActiveKeeps DEF Session, Active
  <2>2. CASE /\ KeepsSession(r) /\ GetSessionRoute(Pin(r)) /\ Found(r, sessions'[Pin(r)])
             /\ From(r, "session") /\ Goto(r, "done")
    BY <2>1, <2>2, TouchKeepsPins DEF Hits, Kind
  <2>3. CASE /\ KeepsSession(r) /\ Pin(r) \notin DOMAIN sessions /\ Goto(r, "legacy")
             /\ UNCHANGED <<sessions, route, source>>
    BY <2>1, <2>3 DEF Misses, Kind, Still, PinsSame, SameTargets
  <2>4. CASE /\ ~KeepsSession(r) /\ Goto(r, "cache") /\ UNCHANGED <<sessions, route, source>>
    BY <2>1, <2>4 DEF Looks, Kind, PinsSame, SameTargets
  <2>. QED BY <1>2, <2>2, <2>3, <2>4 DEF Session
<1>3. CASE Legacy(r)
  <2>. DEFINE k == BareKey(input[r].session)
  <2>1. CASE GetSessionRoute(k) /\ Found(r, sessions'[k]) /\ Goto(r, "migrate")
    BY <1>3, <2>1, TouchKeepsPins DEF Legacy, Takes, Kind
  <2>2. CASE Goto(r, "cache") /\ UNCHANGED <<sessions, route>>
    BY <1>3, <2>2 DEF Legacy, Looks, Kind, PinsSame, SameTargets
  <2>. QED BY <1>3, <2>1, <2>2 DEF Legacy
<1>4. CASE Migrate(r)
  <2>1. Keeps(r) /\ pc[r] = "migrate" /\ pc'[r] = "forget" /\ Still(r)
        /\ SetSessionRoute(Pin(r), route[r])
    BY <1>1, <1>4 DEF Migrate, Rest, Still, SourceOK
  <2>. QED BY <2>1, SetWritesPin DEF Kind
<1>5. CASE Forget(r)
  <2>1. /\ pc[r] = "forget" /\ pc'[r] = "done" /\ source'[r] = "legacy" /\ route' = route
        /\ sessions' = Drop(sessions, BareKey(input[r].session))
    BY <1>5 DEF Forget, DeleteSessionRoute
  <2>. QED BY <2>1 DEF Drop, Drops, SameTargets, Kind
<1>6. CASE StorePin(r)
  <2>1. Active(r) /\ pc[r] = "storePin" /\ pc'[r] = "save" /\ Still(r)
    BY <1>6 DEF StorePin, Rest, Still, Active
  <2>2. CASE Keeps(r)
    <3>1. SetSessionRoute(Pin(r), route[r])
      BY <1>6, <2>1, <2>2, ActiveKeeps DEF StorePin
    <3>. QED BY <2>1, <2>2, <3>1, SetWritesPin DEF Kind
  <2>3. CASE ~Keeps(r)
    <3>1. UNCHANGED sessions
      BY <1>6, <2>1, <2>3, ActiveKeeps DEF StorePin
    <3>. QED BY <2>1, <2>3, <3>1 DEF Carries, PinsSame, SameTargets, Kind
  <2>. QED BY <2>2, <2>3
<1>. QED BY <1>2, <1>3, <1>4, <1>5, <1>6

LEMMA OtherStepKinds ==
  ASSUME IInv, NEW r \in Requests,
         \/ Cache(r) \/ Decide(r) \/ Record(r) \/ Classify(r) \/ HostSelects(r)
         \/ HostFails(r) \/ Local(r) \/ StoreCache(r) \/ Save(r)
  PROVE  Kind(r)
<1>. USE CallTyped DEF Goto, Found, From, Select
<1>1. PinsSame
  <2>1. UNCHANGED sessions
    BY DEF Cache, Decide, Record, Classify, HostSelects, HostFails, Local, StoreCache, Save
  <2>. QED BY <2>1 DEF PinsSame, SameTargets
<1>2. CASE Record(r) \/ StoreCache(r) \/ Save(r)
  BY <1>1, <1>2 DEF Record, StoreCache, Save, Rest, Still, Carries, Kind
<1>3. CASE HostSelects(r) \/ HostFails(r) \/ Classify(r)
  BY <1>1, <1>3 DEF HostSelects, HostFails, Classify, Rest, Chooses, Looks, Kind
<1>4. CASE Cache(r) \/ Local(r)
  BY <1>1, <1>4 DEF Cache, Local, Ends, Looks, Chooses, Kind
<1>5. CASE Decide(r)
  <2>1. /\ pc[r] = "decide"
        /\ \/ pc'[r] \in {"local", "classify"} /\ source'[r] = source[r]
           \/ pc'[r] \in {"record", "storeCache"} /\ source'[r] \in {"local", "engine"}
    BY <1>5 DEF Decide
  <2>. QED BY <1>1, <2>1 DEF Looks, Chooses, Kind
<1>. QED BY <1>2, <1>3, <1>4, <1>5

LEMMA StepMoves ==
  ASSUME RoomForPins, IInv, CallsOK, NEW r \in Requests, Step(r), UNCHANGED before
  PROVE  Moved(r)
<1>1. Kind(r)
  BY PinStepKinds, OtherStepKinds DEF Step
<1>. QED BY <1>1, StepFrame, OwnStep DEF Moved, Still

LEMMA LetInEnters ==
  ASSUME IInv, before \in [Requests -> SUBSET Requests], NEW r \in Requests, LetIn(r)
  PROVE  Enters(r) /\ before' \in [Requests -> SUBSET Requests]
<1>1. Load(r) /\ before' = [before EXCEPT ![r] = {q \in Requests : Over(q)}]
  BY DEF LetIn, ExecLoad
<1>2. pc[r] = "idle" /\ UNCHANGED sessions
  BY <1>1 DEF Load
<1>3. PICK in \in Inputs :
        /\ input' = [input EXCEPT ![r] = in]
        /\ full' = [full EXCEPT ![r] = config]
        /\ IF in.vm \in DOMAIN config.entries
           THEN Inc("requests") /\ Goto(r, "session") /\ UNCHANGED source
           ELSE Goto(r, "done") /\ From(r, "unhandled") /\ UNCHANGED counters
  BY <1>1 DEF Load
<1>4. /\ full'[r] = config
      /\ \/ pc'[r] = "session" /\ source'[r] = source[r] /\ input'[r].vm \in DOMAIN config.entries
         \/ /\ pc'[r] = "done" /\ source'[r] = "unhandled"
            /\ input'[r].vm \notin DOMAIN config.entries
  BY <1>3, CallTyped DEF Goto, From
<1>5. /\ before'[r] = {q \in Requests : Over(q)} /\ before' \in [Requests -> SUBSET Requests]
      /\ \A q \in Requests \ {r} : before'[q] = before[q]
  BY <1>1
<1>. QED BY <1>1, <1>2, <1>4, <1>5, OwnStep DEF Enters, Still

(*************************** what stays ***********************************)
Goes(r) == Moved(r) \/ Enters(r)

\* A call that has begun keeps what it carries, and one that has an answer, or is
\* about to pin one, its route.
GoneOn(q) ==
  /\ pc[q] # "idle" =>
       /\ pc'[q] # "idle" /\ input'[q] = input[q] /\ full'[q] = full[q]
       /\ before'[q] = before[q]
  /\ pc[q] = "done" \/ source[q] \in Choosers => Still(q)
  /\ pc[q] = "done" => pc'[q] = "done"
  /\ pc[q] \in {"migrate", "forget"} =>
       route'[q] = route[q] /\ (pc'[q] \in {"migrate", "forget"} \/ source'[q] = "legacy")

CallsGoOn == \A q \in Requests : GoneOn(q)

LEMMA GoesOn ==
  ASSUME CallsOK, NEW r \in Requests, Goes(r)
  PROVE  CallsGoOn
<1>1. SourceOK(r)
  BY DEF CallsOK
<1>2. ASSUME NEW q \in Requests \ {r} PROVE GoneOn(q)
  <2>1. /\ pc'[q] = pc[q] /\ Still(q) /\ before'[q] = before[q]
        /\ input'[q] = input[q] /\ full'[q] = full[q]
    BY <1>2 DEF Goes, Moved, Enters
  <2>. QED BY <2>1 DEF GoneOn, Still
<1>3. CASE Enters(r)
  <2>1. GoneOn(r)
    BY <1>1, <1>3 DEF Enters, SourceOK, Searching, Choosers, GoneOn
  <2>. QED BY <1>2, <2>1 DEF CallsGoOn
<1>4. CASE Moved(r)
  <2>1. /\ pc[r] \notin {"idle", "done"} /\ pc'[r] # "idle"
        /\ source[r] \in Choosers => Still(r)
        /\ pc[r] \in {"migrate", "forget"} =>
             route'[r] = route[r] /\ (pc'[r] = "forget" \/ source'[r] = "legacy")
    BY <1>1, <1>4
    DEF Moved, Kind, Hits, Misses, Takes, Looks, Chooses, Carries, Writes, Drops, Ends,
        SourceOK, Searching, Choosers, Still
  <2>2. UNCHANGED <<input, full, before>>
    BY <1>4 DEF Moved
  <2>3. GoneOn(r)
    BY <2>1, <2>2 DEF GoneOn
  <2>. QED BY <1>2, <2>3 DEF CallsGoOn
<1>. QED BY <1>3, <1>4 DEF Goes

LEMMA KeepsStay ==
  ASSUME CallsGoOn, NEW q \in Requests, Keeps(q)
  PROVE  Keeps(q)' /\ Pin(q)' = Pin(q) /\ before'[q] = before[q]
BY DEF CallsGoOn, GoneOn, Keeps, KeepsSession, Entry, Pin

LEMMA PinningStay ==
  ASSUME CallsGoOn, NEW q \in Requests, Pinning(q)
  PROVE  Pinning(q)' /\ Pin(q)' = Pin(q) /\ route'[q] = route[q]
<1>1. Keeps(q)' /\ Pin(q)' = Pin(q)
  BY KeepsStay DEF Pinning
<1>. QED BY <1>1 DEF CallsGoOn, GoneOn, Pinning, Still, Choosers

LEMMA RivalStay ==
  ASSUME CallsGoOn, NEW p \in Requests, NEW q \in Requests, Rival(p, q)
  PROVE  Rival(p, q)' /\ route'[p] = route[p]
<1>1. Keeps(p) /\ Pinning(p) /\ Keeps(q)
  BY DEF Rival, Pinning
<1>. QED BY <1>1, KeepsStay, PinningStay DEF Rival, Overlap

LEMMA PinnedByStay ==
  ASSUME CallsGoOn, NEW k, NEW t, PinnedBy(k, t)
  PROVE  PinnedBy(k, t)'
<1>1. PICK p \in Requests : Pinning(p) /\ Pin(p) = k /\ route[p].target = t
  BY DEF PinnedBy
<1>2. Pinning(p)' /\ Pin(p)' = k /\ route'[p].target = t
  BY <1>1, PinningStay
<1>. QED BY <1>2 DEF PinnedBy

LEMMA SettledStay ==
  ASSUME CallsOK, CallsGoOn, NEW q \in Requests, Settled(q)
  PROVE  route'[q] = route[q] /\ Keeps(q)' /\ Pin(q)' = Pin(q)
<1>1. SourceOK(q) /\ Keeps(q)
  BY DEF CallsOK, Settled
<1>2. Keeps(q)' /\ Pin(q)' = Pin(q)
  BY <1>1, KeepsStay
<1>3. CASE pc[q] = "forget" \/ pc[q] = "done"
  BY <1>2, <1>3 DEF CallsGoOn, GoneOn, Still
<1>4. CASE pc[q] = "save"
  BY <1>1, <1>2, <1>4 DEF CallsGoOn, GoneOn, Still, SourceOK, Choosers
<1>. QED BY <1>3, <1>4 DEF Settled

LEMMA FindsStay ==
  ASSUME CallsOK, CallsGoOn, NEW q \in Requests, Settled(q), NEW t, Finds(q, t)
  PROVE  Finds(q, t)'
<1>1. PICK p \in Requests : (p = q \/ Rival(p, q)) /\ route[p].target = t
  BY DEF Finds
<1>2. CASE p = q
  BY <1>1, <1>2, SettledStay DEF Finds
<1>3. CASE Rival(p, q)
  BY <1>1, <1>3, RivalStay DEF Finds
<1>. QED BY <1>1, <1>2, <1>3

(*************************** what is new **********************************)
LEMMA PinMoves ==
  ASSUME NEW r \in Requests, Goes(r), NEW k \in DOMAIN sessions'
  PROVE  \/ k \in DOMAIN sessions /\ sessions'[k].target = sessions[k].target
         \/ Writes(r) /\ k = Pin(r) /\ sessions'[k].target = route[r].target
<1>1. CASE Enters(r) \/ PinsSame
  BY <1>1 DEF Enters, PinsSame, SameTargets
<1>2. CASE Writes(r)
  BY <1>2 DEF Writes, SameTargets
<1>3. CASE Drops(r)
  BY <1>3 DEF Drops, SameTargets
<1>. QED
  BY <1>1, <1>2, <1>3 DEF Goes, Moved, Kind, Hits, Misses, Takes, Looks, Chooses, Carries, Ends

LEMMA PinsStay ==
  ASSUME NEW r \in Requests, Goes(r), NEW k \in DOMAIN sessions, k \notin DOMAIN sessions'
  PROVE  Drops(r) /\ k = BareKey(input[r].session)
<1>1. CASE Enters(r) \/ PinsSame
  BY <1>1 DEF Enters, PinsSame
<1>2. CASE Writes(r)
  BY <1>2 DEF Writes
<1>3. CASE Drops(r)
  BY <1>3 DEF Drops
<1>. QED
  BY <1>1, <1>2, <1>3 DEF Goes, Moved, Kind, Hits, Misses, Takes, Looks, Chooses, Carries, Ends

\* Nothing another call has not done already, and of this one only what its step
\* brings.
LEMMA OthersStay ==
  ASSUME NEW r \in Requests, Goes(r), NEW q \in Requests \ {r}
  PROVE  /\ SourceOK(q)' <=> SourceOK(q)
         /\ Keeps(q)' <=> Keeps(q)
         /\ Missed(q)' <=> Missed(q)
         /\ Settled(q)' <=> Settled(q)
         /\ Moving(q)' <=> Moving(q)
         /\ source'[q] = source[q] /\ pc'[q] = pc[q] /\ route'[q] = route[q]
         /\ input'[q] = input[q] /\ Pin(q)' = Pin(q) /\ before'[q] = before[q]
<1>1. /\ source'[q] = source[q] /\ pc'[q] = pc[q] /\ route'[q] = route[q]
      /\ input'[q] = input[q] /\ full'[q] = full[q] /\ before'[q] = before[q]
  BY DEF Goes, Moved, Enters, Still
<1>2. (Keeps(q)' <=> Keeps(q)) /\ Pin(q)' = Pin(q)
  BY <1>1 DEF Keeps, KeepsSession, Entry, Pin
<1>. QED BY <1>1, <1>2 DEF SourceOK, Missed, Settled, Moving

LEMMA OwnNews ==
  ASSUME CallsOK, NEW r \in Requests, Goes(r)
  PROVE  /\ SourceOK(r)'
         /\ Keeps(r)' => Keeps(r) \/ (Enters(r) /\ pc'[r] = "session")
         /\ Missed(r)' => Missed(r) \/ Misses(r)
         /\ Settled(r)' => Hits(r) \/ Writes(r) \/ Settled(r)
         /\ Moving(r)' => Moving(r) \/ Takes(r)
         /\ source'[r] = "session" => Hits(r)
         /\ source'[r] = "legacy" => Drops(r)
<1>1. SourceOK(r)
  BY DEF CallsOK
<1>2. CASE Enters(r)
  <2>1. /\ pc'[r] \in {"session", "done"} /\ source'[r] \in {"none", "unhandled"}
        /\ pc'[r] = "session" => source'[r] = "none" /\ input'[r].vm \in DOMAIN full'[r].entries
        /\ pc'[r] = "done" => source'[r] = "unhandled" /\ input'[r].vm \notin DOMAIN full'[r].entries
    BY <1>1, <1>2 DEF Enters, SourceOK, Searching
  <2>2. SourceOK(r)'
    BY <2>1 DEF SourceOK, Searching
  <2>3. Keeps(r)' => pc'[r] = "session"
    BY <2>1 DEF Keeps
  <2>4. ~Missed(r)' /\ ~Settled(r)' /\ ~Moving(r)'
    BY <2>1, <2>3 DEF Missed, Late, Settled, Moving, Choosers
  <2>. QED BY <1>2, <2>1, <2>2, <2>3, <2>4
<1>3. CASE Moved(r)
  <2>1. UNCHANGED <<input, full>>
    BY <1>3 DEF Moved
  <2>2. /\ pc[r] \notin {"idle", "done"} /\ pc'[r] # "idle"
        /\ Keeps(r)' <=> Keeps(r)
    BY <1>3, <2>1
    DEF Moved, Kind, Hits, Misses, Takes, Looks, Chooses, Carries, Writes, Drops, Ends,
        Keeps, KeepsSession, Entry
  <2>3. CASE Hits(r)
    BY <1>1, <2>1, <2>2, <2>3
    DEF Hits, SourceOK, Searching, Missed, Late, Settled, Moving, Choosers, Keeps
  <2>4. CASE Misses(r)
    BY <1>1, <2>1, <2>2, <2>4
    DEF Misses, Still, SourceOK, Searching, Missed, Late, Settled, Moving, Choosers
  <2>5. CASE Takes(r)
    BY <1>1, <2>1, <2>2, <2>5
    DEF Takes, SourceOK, Searching, Missed, Late, Labels, Settled, Moving, Choosers
  <2>6. CASE Looks(r)
    BY <1>1, <2>1, <2>2, <2>6
    DEF Looks, SourceOK, Searching, Missed, Late, Labels, Settled, Moving, Choosers
  <2>7. CASE Chooses(r)
    BY <1>1, <2>1, <2>2, <2>7
    DEF Chooses, SourceOK, Searching, Missed, Late, Labels, Settled, Moving, Choosers
  <2>8. CASE Carries(r) \/ Writes(r)
    BY <1>1, <2>1, <2>2, <2>8
    DEF Carries, Writes, Still, SourceOK, Searching, Missed, Late, Labels, Settled,
        Moving, Choosers
  <2>9. CASE Drops(r) \/ Ends(r)
    BY <1>1, <2>1, <2>2, <2>9
    DEF Drops, Ends, SourceOK, Searching, Missed, Late, Labels, Settled, Moving,
        Choosers
  <2>. QED BY <1>3, <2>3, <2>4, <2>5, <2>6, <2>7, <2>8, <2>9 DEF Moved, Kind
<1>. QED BY <1>2, <1>3 DEF Goes

(*************************** the pins *************************************)
\* Calls that pin one session overlap: had one followed the other, it would have
\* found its pin.
LEMMA PinningOverlaps ==
  ASSUME CallsOK, NEW p \in Requests, NEW q \in Requests, BeforeOK(q),
         Pinning(p), Pinning(q), Pin(p) = Pin(q)
  PROVE  p \notin before[q]
<1>. SUFFICES ASSUME p \in before[q] PROVE FALSE
  OBVIOUS
<1>1. pc[p] = "done" /\ Keeps(p) /\ Keeps(q)
  BY DEF BeforeOK, Over, Pinning
<1>2. Settled(p)
  BY <1>1 DEF Pinning, Settled, Choosers
<1>3. pc[q] = "session" \/ source[q] = "session"
  BY <1>1, <1>2 DEF CallsOK, FollowsOK
<1>4. pc[q] # "session"
  BY DEF CallsOK, SourceOK, Searching, Pinning
<1>. QED BY <1>3, <1>4 DEF CallsOK, SourceOK, Searching, Pinning

LEMMA PinningRivals ==
  ASSUME CallsOK, NEW p \in Requests, NEW q \in Requests, BeforeOK(p), BeforeOK(q),
         Pinning(p), Pinning(q), Pin(p) = Pin(q), p # q
  PROVE  Rival(p, q)
<1>1. p \notin before[q] /\ q \notin before[p]
  BY PinningOverlaps
<1>. QED BY <1>1 DEF Rival, Overlap, Pinning

\* A call that stores its pin is a rival of those that have found or stored it.
LEMMA WriterRivals ==
  ASSUME CallsOK, NEW r \in Requests, Writes(r), NEW q \in Requests \ {r}, BeforeOK(q),
         Settled(q), Pin(q) = Pin(r)
  PROVE  Rival(r, q)
<1>1. Pinning(r) /\ pc[r] \in {"migrate", "storePin"}
  <2>1. SourceOK(r)
    BY DEF CallsOK
  <2>. QED BY <2>1 DEF Writes, Pinning, SourceOK
<1>2. Keeps(r) /\ Keeps(q)
  BY DEF Writes, Settled
<1>3. r \notin before[q]
  BY <1>1 DEF BeforeOK, Over
<1>4. q \notin before[r]
  BY <1>1, <1>2 DEF CallsOK, FollowsOK
<1>. QED BY <1>1, <1>2, <1>3, <1>4 DEF Rival, Overlap

(*************************** calls ****************************************)
LEMMA SourcesStayOK ==
  ASSUME CallsOK, NEW r \in Requests, Goes(r), NEW q \in Requests
  PROVE  SourceOK(q)'
BY OwnNews, OthersStay DEF CallsOK

LEMMA MissedStaysOK ==
  ASSUME CallsOK, NEW r \in Requests, Goes(r), NEW q \in Requests
  PROVE  MissedOK(q)'
<1>. SUFFICES ASSUME Missed(q)', Pin(q)' \in DOMAIN sessions'
              PROVE  PinnedBy(Pin(q), sessions[Pin(q)].target)'
  BY DEF MissedOK
<1>1. CallsGoOn
  BY GoesOn
<1>2. Missed(q) \/ (q = r /\ Misses(r))
  BY OwnNews, OthersStay
<1>3. Keeps(q)
  BY <1>2 DEF Missed, Misses
<1>4. Pin(q)' = Pin(q)
  BY <1>1, <1>3, KeepsStay
<1>5. CASE Pin(q) \in DOMAIN sessions /\ sessions'[Pin(q)].target = sessions[Pin(q)].target
  <2>1. Missed(q)
    BY <1>2, <1>5 DEF Misses
  <2>2. PinnedBy(Pin(q), sessions[Pin(q)].target)
    BY <1>5, <2>1 DEF CallsOK, MissedOK
  <2>. QED BY <1>1, <1>4, <1>5, <2>2, PinnedByStay
<1>6. CASE Writes(r) /\ Pin(q) = Pin(r) /\ sessions'[Pin(q)].target = route[r].target
  <2>1. Pinning(r)
    <3>1. SourceOK(r)
      BY DEF CallsOK
    <3>. QED BY <1>6, <3>1 DEF Writes, Pinning, SourceOK
  <2>2. PinnedBy(Pin(q), route[r].target)
    BY <1>6, <2>1 DEF PinnedBy
  <2>. QED BY <1>1, <1>4, <1>6, <2>2, PinnedByStay
<1>. QED BY <1>4, <1>5, <1>6, PinMoves

LEMMA SettledStaysOK ==
  ASSUME CallsOK, IInv, NEW r \in Requests, Goes(r), NEW q \in Requests, BeforeOK(q)
  PROVE  SettledOK(q)'
<1>. SUFFICES ASSUME Settled(q)'
              PROVE  Pin(q)' \in DOMAIN sessions' /\ Finds(q, sessions[Pin(q)].target)'
  BY DEF SettledOK
<1>1. CallsGoOn
  BY GoesOn
<1>2. Settled(q) \/ (q = r /\ (Hits(r) \/ Writes(r)))
  BY OwnNews, OthersStay
<1>3. Keeps(q)
  BY <1>2 DEF Settled, Hits, Writes
<1>4. Pin(q)' = Pin(q)
  BY <1>1, <1>3, KeepsStay
<1>5. CASE q = r /\ Hits(r)
  BY <1>4, <1>5 DEF Hits, PinsSame, SameTargets, Finds
<1>6. CASE q = r /\ Writes(r)
  BY <1>4, <1>6 DEF Writes, Still, Finds
<1>7. CASE Settled(q) /\ ~(q = r /\ Writes(r))
  <2>1. Pin(q) \in DOMAIN sessions /\ Finds(q, sessions[Pin(q)].target)
    BY <1>7 DEF CallsOK, SettledOK
  <2>2. Pin(q) \in DOMAIN sessions'
    BY <2>1, PinsStay, BareApart
  <2>3. CASE sessions'[Pin(q)].target = sessions[Pin(q)].target
    BY <1>1, <1>4, <1>7, <2>1, <2>2, <2>3, FindsStay
  <2>4. CASE Writes(r) /\ Pin(q) = Pin(r) /\ sessions'[Pin(q)].target = route[r].target
    <3>1. Rival(r, q)
      BY <1>7, <2>4, WriterRivals
    <3>2. Finds(q, route[r].target)
      BY <3>1 DEF Finds
    <3>. QED BY <1>1, <1>4, <1>7, <2>2, <2>4, <3>2, FindsStay
  <2>. QED BY <2>2, <2>3, <2>4, PinMoves
<1>. QED BY <1>2, <1>5, <1>6, <1>7

LEMMA FollowsStayOK ==
  ASSUME CallsOK, IInv, NEW r \in Requests, Goes(r), NEW q \in Requests, NEW s \in Requests,
         BeforeOK(s)
  PROVE  FollowsOK(q, s)'
<1>. SUFFICES ASSUME q \in before'[s], Settled(q)', Keeps(s)', Pin(q)' = Pin(s)',
                     pc'[s] # "session"
              PROVE  pc'[s] = "done" /\ source'[s] = "session" /\ Finds(q, route[s].target)'
  BY DEF FollowsOK
<1>1. CallsGoOn
  BY GoesOn
<1>2. Keeps(s)
  BY OwnNews, OthersStay
<1>3. q \in before[s] /\ Pin(s)' = Pin(s)
  BY <1>1, <1>2, KeepsStay
<1>4. pc[q] = "done"
  BY <1>3 DEF BeforeOK, Over
<1>5. q # r
  BY <1>4
  DEF Goes, Enters, Moved, Kind, Hits, Misses, Takes, Looks, Chooses, Carries, Writes, Drops,
      Ends
<1>6. Settled(q) /\ Pin(q) = Pin(s)
  BY <1>3, <1>5, OthersStay
<1>7. \/ pc[s] = "session"
      \/ pc[s] = "done" /\ source[s] = "session" /\ Finds(q, route[s].target)
  BY <1>2, <1>3, <1>6 DEF CallsOK, FollowsOK
<1>8. CASE pc[s] = "session"
  <2>1. s = r
    BY <1>8, OthersStay
  <2>2. Pin(s) \in DOMAIN sessions /\ Finds(q, sessions[Pin(s)].target)
    BY <1>6 DEF CallsOK, SettledOK
  <2>3. Hits(r)
    BY <1>2, <1>8, <2>1, <2>2
    DEF Goes, Enters, Moved, Kind, Misses, Takes, Looks, Chooses, Carries, Writes, Drops, Ends
  <2>4. pc'[s] = "done" /\ source'[s] = "session" /\ route'[s].target = sessions[Pin(s)].target
    BY <2>1, <2>3 DEF Hits
  <2>. QED BY <1>1, <1>6, <2>2, <2>4, FindsStay
<1>9. CASE pc[s] = "done" /\ source[s] = "session" /\ Finds(q, route[s].target)
  <2>1. pc'[s] = "done" /\ source'[s] = "session" /\ route'[s] = route[s]
    BY <1>1, <1>9 DEF CallsGoOn, GoneOn, Still
  <2>. QED BY <1>1, <1>6, <1>9, <2>1, FindsStay
<1>. QED BY <1>7, <1>8, <1>9

LEMMA ReadsStayOK ==
  ASSUME CallsOK, IInv, NEW r \in Requests, Goes(r), NEW s \in Requests, NEW w \in Requests
  PROVE  ReadOK(s, w)'
<1>. SUFFICES ASSUME source'[s] = "session", Missed(w)', Pin(s)' = Pin(w)'
              PROVE  PinnedBy(Pin(s), route[s].target)'
  BY DEF ReadOK
<1>1. CallsGoOn
  BY GoesOn
<1>2. source[s] = "session" \/ (s = r /\ Hits(r))
  BY OwnNews, OthersStay
<1>3. Missed(w) \/ (w = r /\ Misses(r))
  BY OwnNews, OthersStay
<1>4. Keeps(s) /\ Keeps(w)
  BY <1>2, <1>3 DEF CallsOK, SourceOK, Hits, Missed, Misses
<1>5. Pin(s)' = Pin(s) /\ Pin(w)' = Pin(w) /\ Pin(s) = Pin(w)
  BY <1>1, <1>4, KeepsStay
<1>6. CASE s = r /\ Hits(r)
  <2>1. Missed(w)
    BY <1>3, <1>6 DEF Hits, Misses
  <2>2. PinnedBy(Pin(s), sessions[Pin(s)].target)
    BY <1>5, <1>6, <2>1 DEF CallsOK, MissedOK, Hits
  <2>3. route'[s].target = sessions[Pin(s)].target
    BY <1>6 DEF Hits
  <2>. QED BY <1>1, <1>5, <2>2, <2>3, PinnedByStay
<1>7. CASE source[s] = "session"
  <2>1. SourceOK(s) /\ SettledOK(s)
    BY DEF CallsOK
  <2>2. pc[s] = "done"
    BY <1>7, <2>1, CallTyped DEF SourceOK, Searching, Labels
  <2>3. Settled(s)
    BY <1>4, <1>7, <2>2 DEF Settled
  <2>4. Missed(w)
    BY <1>3, <1>5, <2>1, <2>3 DEF SettledOK, Misses
  <2>5. PinnedBy(Pin(s), route[s].target)
    BY <1>5, <1>7, <2>4 DEF CallsOK, ReadOK
  <2>6. route'[s] = route[s]
    BY <1>1, <2>2 DEF CallsGoOn, GoneOn, Still
  <2>. QED BY <1>1, <1>5, <2>5, <2>6, PinnedByStay
<1>. QED BY <1>2, <1>6, <1>7

LEMMA BareStaysOK ==
  ASSUME CallsOK, IInv, NEW r \in Requests, Goes(r), NEW q \in Requests
  PROVE  BareOK(q)'
<1>1. CallsGoOn
  BY GoesOn
<1>2. ASSUME Moving(q)', BareKey(input[q].session)' \in DOMAIN sessions'
      PROVE  route'[q].target = sessions'[BareKey(input[q].session)'].target
  <2>. DEFINE k == BareKey(input[q].session)
  <2>1. Moving(q) \/ (q = r /\ Takes(r))
    BY <1>2, OwnNews, OthersStay
  <2>2. pc[q] # "idle"
    BY <2>1 DEF Moving, Takes, CallsOK, SourceOK, Searching
  <2>3. BareKey(input[q].session)' = k
    BY <1>1, <2>2 DEF CallsGoOn, GoneOn, BareKey
  <2>4. k \in DOMAIN sessions /\ sessions'[k].target = sessions[k].target
    BY <1>2, <2>3, PinMoves, BareApart
  <2>5. CASE q = r /\ Takes(r)
    BY <2>3, <2>4, <2>5 DEF Takes
  <2>6. CASE Moving(q)
    <3>1. route[q].target = sessions[k].target
      BY <2>4, <2>6 DEF CallsOK, BareOK
    <3>2. route'[q] = route[q]
      BY <1>1, <2>6 DEF CallsGoOn, GoneOn, Still, Moving, Choosers
    <3>. QED BY <2>3, <2>4, <3>1, <3>2
  <2>. QED BY <2>1, <2>5, <2>6
<1>3. ASSUME source'[q] = "legacy" PROVE BareKey(input[q].session)' \notin DOMAIN sessions'
  <2>. DEFINE k == BareKey(input[q].session)
  <2>1. source[q] = "legacy" \/ (q = r /\ Drops(r))
    BY <1>3, OwnNews, OthersStay
  <2>2. pc[q] # "idle"
    BY <2>1 DEF Drops, CallsOK, SourceOK, Searching
  <2>3. BareKey(input[q].session)' = k
    BY <1>1, <2>2 DEF CallsGoOn, GoneOn, BareKey
  <2>4. CASE source[q] = "legacy"
    <3>1. k \notin DOMAIN sessions
      BY <2>4 DEF CallsOK, BareOK
    <3>. QED BY <2>3, <3>1, PinMoves, BareApart
  <2>5. CASE q = r /\ Drops(r)
    BY <2>3, <2>5 DEF Drops
  <2>. QED BY <2>1, <2>4, <2>5
<1>. QED BY <1>2, <1>3 DEF BareOK

LEMMA MovingStaysOK ==
  ASSUME CallsOK, NEW r \in Requests, Goes(r), NEW q \in Requests, NEW s \in Requests,
         BeforeOK(s)
  PROVE  MovingOK(q, s)'
<1>. SUFFICES ASSUME Moving(s)', input'[q].session = input'[s].session
              PROVE  /\ Moving(q)' => route'[q].target = route'[s].target
                     /\ q \in before'[s] => source'[q] # "legacy"
  BY DEF MovingOK
<1>1. CallsGoOn
  BY GoesOn
<1>2. ASSUME NEW p \in Requests, Moving(p)'
      PROVE  /\ Moving(p) \/ (p = r /\ Takes(r))
             /\ pc[p] # "idle" /\ input'[p] = input[p] /\ before'[p] = before[p]
             /\ Moving(p) => route'[p] = route[p]
  <2>1. Moving(p) \/ (p = r /\ Takes(r))
    BY <1>2, OwnNews, OthersStay
  <2>2. pc[p] # "idle"
    BY <2>1 DEF Moving, Takes, CallsOK, SourceOK, Searching
  <2>. QED BY <1>1, <2>1, <2>2 DEF CallsGoOn, GoneOn, Still, Moving, Choosers
<1>3. ASSUME Moving(q)' PROVE route'[q].target = route'[s].target
  <2>1. input[q].session = input[s].session
    BY <1>2, <1>3
  <2>2. CASE Moving(q) /\ Moving(s)
    BY <1>2, <1>3, <2>1, <2>2 DEF CallsOK, MovingOK
  <2>3. CASE Moving(q) /\ s = r /\ Takes(r)
    BY <1>2, <1>3, <2>1, <2>3 DEF CallsOK, BareOK, Takes
  <2>4. CASE Moving(s) /\ q = r /\ Takes(r)
    BY <1>2, <1>3, <2>1, <2>4 DEF CallsOK, BareOK, Takes
  <2>. QED BY <1>2, <1>3, <2>2, <2>3, <2>4
<1>4. ASSUME q \in before'[s], source'[q] = "legacy" PROVE FALSE
  <2>1. q \in before[s]
    BY <1>2, <1>4
  <2>2. pc[q] = "done" /\ source'[q] = source[q] /\ input'[q] = input[q]
    BY <1>1, <2>1 DEF BeforeOK, Over, CallsGoOn, GoneOn, Still
  <2>3. input[q].session = input[s].session /\ source[q] = "legacy"
    BY <1>2, <1>4, <2>2
  <2>4. ~Moving(s)
    BY <2>1, <2>3 DEF CallsOK, MovingOK
  <2>. QED BY <1>2, <2>3, <2>4 DEF Takes, CallsOK, BareOK
<1>. QED BY <1>3, <1>4

LEMMA CallsStayOK ==
  ASSUME CallsOK, IInv, NEW r \in Requests, Goes(r), \A q \in Requests : BeforeOK(q)
  PROVE  CallsOK' /\ CallsGoOn
BY SourcesStayOK, MissedStaysOK, SettledStaysOK, BareStaysOK, FollowsStayOK, ReadsStayOK,
   MovingStaysOK, GoesOn
DEF CallsOK

(*************************** chains and executions ************************)
ChainsSame ==
  /\ DOMAIN fallbackChains' \subseteq DOMAIN fallbackChains
  /\ \A k \in DOMAIN fallbackChains' : fallbackChains'[k].chain = fallbackChains[k].chain

ChainStored(r) ==
  /\ source'[r] = "engine" /\ UNCHANGED input /\ input[r].session # NoSession
  /\ DOMAIN fallbackChains' \subseteq DOMAIN fallbackChains \cup {Pin(r)}
  /\ \A k \in DOMAIN fallbackChains' \ {Pin(r)} : fallbackChains'[k] = fallbackChains[k]
  /\ route'[r].target = fallbackChains'[Pin(r)].chain[1]

LEMMA DecideChain ==
  ASSUME IInv, NEW r \in Requests, Decide(r)
  PROVE  ChainsSame \/ ChainStored(r)
<1>1. CASE UNCHANGED fallbackChains
  BY <1>1 DEF ChainsSame
<1>2. ASSUME NEW chain \in Rankings(Eligible(r)), Select(r, chain[1], "engine"),
             StoreFallbackChain(r, chain)
      PROVE  ChainsSame \/ ChainStored(r)
  <2>1. CASE input[r].session = NoSession
    BY <1>2, <2>1 DEF StoreFallbackChain, ChainsSame
  <2>2. CASE input[r].session # NoSession
    <3>. DEFINE e == [chain |-> chain, used |-> now]
    <3>1. fallbackChains' \in Insert(fallbackChains, Pin(r), e, MaxEntries)
      BY <1>2, <2>2 DEF StoreFallbackChain, SetFallbackChain
    <3>2. Active(r) /\ input[r].session \in SessionIds /\ now \in Nat
      BY <2>2, CallTyped, Typed, InputAssumption DEF Decide, Active
    <3>3. e \in ChainEntries /\ Pin(r) \in PinKeys
      <4>1. Eligible(r) \in SUBSET Targets
        BY <3>2, EligibleInLane
      <4>2. chain \in Rankings(Targets)
        BY <4>1, RankingSub
      <4>. QED BY <3>2, <4>2, KeysOfLane DEF ChainEntries
    <3>4. e.chain = chain
      OBVIOUS
    <3>. HIDE DEF e
    <3>5. /\ fallbackChains'[Pin(r)] = e
          /\ DOMAIN fallbackChains' \subseteq DOMAIN fallbackChains \cup {Pin(r)}
          /\ \A k \in DOMAIN fallbackChains' \ {Pin(r)} : fallbackChains'[k] = fallbackChains[k]
      BY <3>1, <3>3, Typed, InsertLemma
    <3>6. source'[r] = "engine" /\ UNCHANGED input /\ route'[r].target = chain[1]
      BY <1>2, CallTyped DEF Decide, Select, Found, From, Decided
    <3>. QED BY <2>2, <3>4, <3>5, <3>6 DEF ChainStored
  <2>. QED BY <2>1, <2>2
<1>. QED BY <1>1, <1>2 DEF Decide

LEMMA OwnChains ==
  ASSUME IInv, NEW r \in Requests, Load(r) \/ Step(r)
  PROVE  ChainsSame \/ ChainStored(r)
<1>1. CASE Decide(r)
  BY <1>1, DecideChain
<1>2. CASE ~Decide(r)
  <2>1. CASE Load(r) \/ Session(r) \/ Legacy(r) \/ Migrate(r) \/ Forget(r) \/ Cache(r)
    BY <2>1 DEF Load, Session, Legacy, Migrate, Forget, Cache, ChainsSame
  <2>2. CASE Record(r) \/ Classify(r) \/ HostSelects(r) \/ HostFails(r) \/ Local(r)
    BY <2>2 DEF Record, Classify, HostSelects, HostFails, Local, ChainsSame
  <2>3. CASE StoreCache(r) \/ StorePin(r) \/ Save(r)
    BY <2>3 DEF StoreCache, StorePin, Save, ChainsSame
  <2>. QED BY <1>2, <2>1, <2>2, <2>3 DEF Step
<1>. QED BY <1>1, <1>2

LEMMA HeadStays ==
  ASSUME CallsOK, CallsGoOn, NEW w \in Requests, NEW k, NEW t, HeadBy(w, k, t)
  PROVE  HeadBy(w, k, t)' /\ before'[w] = before[w]
<1>1. pc[w] # "idle" /\ source[w] \in Choosers
  BY DEF CallsOK, SourceOK, HeadBy, Searching, Choosers
<1>. QED BY <1>1 DEF CallsGoOn, GoneOn, Still, HeadBy, Pin

LEMMA ChainsStayOK ==
  ASSUME IInv, CallsOK, ChainsOK, CallsGoOn, NEW r \in Requests, Load(r) \/ Step(r)
  PROVE  ChainsOK'
<1>. SUFFICES ASSUME NEW k \in DOMAIN fallbackChains'
              PROVE  \E w \in Requests : HeadBy(w, k, fallbackChains[k].chain[1])'
  BY DEF ChainsOK
<1>1. CASE k \in DOMAIN fallbackChains /\ fallbackChains'[k].chain = fallbackChains[k].chain
  <2>1. PICK w \in Requests : HeadBy(w, k, fallbackChains[k].chain[1])
    BY <1>1 DEF ChainsOK
  <2>2. HeadBy(w, k, fallbackChains[k].chain[1])'
    BY <1>1, <2>1, HeadStays DEF HeadBy
  <2>. QED BY <2>2
<1>2. CASE ChainStored(r) /\ k = Pin(r)
  BY <1>2 DEF ChainStored, HeadBy, Pin
<1>. QED BY <1>1, <1>2, OwnChains DEF ChainsSame, ChainStored

\* What is over stays so, and nothing else is before a call.
LEMMA DoneStays ==
  ASSUME CallsGoOn, NEW p \in Requests, pc[p] = "done"
  PROVE  /\ pc'[p] = "done" /\ (SentBack(p)' <=> SentBack(p))
         /\ Pin(p)' = Pin(p)
BY DEF CallsGoOn, GoneOn, Still, SentBack, Handled, Entry, Pin

LEMMA OversStay ==
  ASSUME CallsGoOn, UNCHANGED execVars, NEW p \in Requests, Over(p)
  PROVE  Over(p)'
BY DoneStays DEF Over, Pending, execVars

LEMMA BeforeStaysOK ==
  ASSUME CallsGoOn, UNCHANGED execVars, NEW r \in Requests, Goes(r),
         \A p \in Requests : BeforeOK(p), before \in [Requests -> SUBSET Requests],
         NEW q \in Requests
  PROVE  BeforeOK(q)'
<1>1. CASE q = r /\ Enters(r)
  <2>1. pc'[q] # "idle" /\ before'[q] = {p \in Requests : Over(p)}
    BY <1>1 DEF Enters
  <2>. QED BY <2>1, OversStay DEF BeforeOK
<1>2. CASE ~(q = r /\ Enters(r))
  <2>1. before'[q] = before[q]
    BY <1>2 DEF Goes, Moved, Enters
  <2>2. \A p \in before[q] : Over(p)'
    BY OversStay DEF BeforeOK
  <2>3. pc'[q] = "idle" => pc[q] = "idle"
    BY DEF CallsGoOn, GoneOn
  <2>. QED BY <2>1, <2>2, <2>3 DEF BeforeOK
<1>. QED BY <1>1, <1>2

LEMMA ExecutedStaysOK ==
  ASSUME CallsOK, CallsGoOn, UNCHANGED <<execVars, config>>,
         NEW q \in Requests, ExecutedOK(q)
  PROVE  ExecutedOK(q)'
<1>1. /\ epc' = epc /\ efull' = efull /\ walk' = walk /\ chained' = chained
      /\ config' = config
  BY DEF execVars
<1>2. CASE epc[q] = "none"
  BY <1>1, <1>2 DEF ExecutedOK
<1>3. CASE epc[q] # "none"
  <2>1. SentBack(q) /\ pc[q] = "done"
    BY <1>3 DEF ExecutedOK, SentBack, Handled
  <2>2. SentBack(q)' /\ Pin(q)' = Pin(q)
    BY <2>1, DoneStays
  <2>3. ASSUME chained[q]
        PROVE  \E w \in Requests : HeadBy(w, Pin(q), walk[q][1])' /\ q \notin before'[w]
    <3>1. PICK w \in Requests : HeadBy(w, Pin(q), walk[q][1]) /\ q \notin before[w]
      BY <2>3 DEF ExecutedOK
    <3>2. HeadBy(w, Pin(q), walk[q][1])' /\ before'[w] = before[w]
      <4>. DEFINE t == walk[q][1]  k == Pin(q)
      <4>1. HeadBy(w, k, t)
        BY <3>1
      <4>2. pc[w] # "idle" /\ source[w] \in Choosers
        BY <4>1 DEF CallsOK, SourceOK, HeadBy, Searching, Choosers
      <4>. QED BY <1>1, <2>2, <4>1, <4>2 DEF CallsGoOn, GoneOn, Still, HeadBy, Pin
    <3>. QED BY <3>1, <3>2
  <2>. QED BY <1>1, <2>2, <2>3 DEF ExecutedOK
<1>. QED BY <1>2, <1>3

(*************************** the invariant ********************************)
\* A step of a call that is routed.
LEMMA RoutingKeepsAffinity ==
  ASSUME RoomForPins, IInv, AffinityInv, NEW r \in Requests,
         LetIn(r) \/ (Step(r) /\ UNCHANGED <<execVars, before>>)
  PROVE  AffinityInv'
<1>1. Load(r) \/ Step(r)
  BY DEF LetIn, ExecLoad
<1>2. Goes(r) /\ before' \in [Requests -> SUBSET Requests]
  BY LetInEnters, StepMoves DEF AffinityInv, Goes
<1>3. UNCHANGED <<execVars, config, lifecycle>>
  BY StepFrame DEF LetIn, ExecLoad, Load, Plugin
<1>4. CallsOK' /\ CallsGoOn
  BY <1>2, CallsStayOK DEF AffinityInv
<1>5. ChainsOK'
  BY <1>1, <1>4, ChainsStayOK DEF AffinityInv
<1>6. \A q \in Requests : BeforeOK(q)' /\ ExecutedOK(q)'
  <2>1. /\ CallsOK /\ before \in [Requests -> SUBSET Requests]
        /\ \A p \in Requests : BeforeOK(p) /\ ExecutedOK(p)
    BY DEF AffinityInv
  <2>2. UNCHANGED execVars /\ UNCHANGED <<execVars, config>>
    BY <1>3
  <2>3. \A q \in Requests : BeforeOK(q)'
    BY <1>2, <1>4, <2>1, <2>2, BeforeStaysOK
  <2>4. ASSUME NEW q \in Requests PROVE ExecutedOK(q)'
    <3>1. CallsGoOn /\ ExecutedOK(q)
      BY <1>4, <2>1
    <3>. QED BY <2>1, <2>2, <3>1, ExecutedStaysOK
  <2>. QED BY <2>3, <2>4
<1>7. SteadyOK'
  <2>2. pc[r] # "idle" \/ Load(r)
    BY <1>1
    DEF Step, Session, Legacy, Migrate, Forget, Cache, Decide, Record, Classify, HostSelects,
        HostFails, Local, StoreCache, StorePin, Save
  <2>3. lifecycle # "register" /\ lifecycle # "reload"
    BY <2>2 DEF AffinityInv, SteadyOK, Load
  <2>4. \A q \in Requests : pc[q] # "idle" => full'[q] = config
    BY <1>4 DEF AffinityInv, SteadyOK, CallsGoOn, GoneOn
  <2>5. \A q \in Requests : pc'[q] # "idle" => full'[q] = config
    <3>. SUFFICES ASSUME NEW q \in Requests, pc'[q] # "idle", pc[q] = "idle"
                  PROVE  full'[q] = config
      BY <2>4
    <3>1. Enters(r) /\ q = r
      BY <1>2 DEF Goes, Moved, Enters, Kind, Hits, Misses, Takes, Looks, Chooses, Carries,
         Writes, Drops, Ends
    <3>. QED BY <3>1 DEF Enters
  <2>. QED BY <1>3, <2>3, <2>5 DEF SteadyOK
<1>. QED BY <1>2, <1>4, <1>5, <1>6, <1>7 DEF AffinityInv

\* What is left alone stays as it is.
LEMMA CallsAsTheyWere ==
  ASSUME CallsOK, UNCHANGED <<calls, sessions, before>>
  PROVE  CallsOK'
<1>1. /\ pc' = pc /\ input' = input /\ full' = full /\ route' = route /\ source' = source
      /\ sessions' = sessions /\ before' = before
  BY DEF calls
<1>2. \A q \in Requests : Pin(q)' = Pin(q) /\ (Keeps(q)' <=> Keeps(q))
  BY <1>1 DEF Pin, Keeps, KeepsSession, Entry
<1>3. \A q \in Requests :
        /\ Missed(q)' <=> Missed(q)
        /\ Settled(q)' <=> Settled(q)
        /\ Moving(q)' <=> Moving(q)
        /\ Pinning(q)' <=> Pinning(q)
        /\ SourceOK(q)' <=> SourceOK(q)
  BY <1>1, <1>2 DEF Missed, Settled, Moving, Pinning, SourceOK
<1>4. \A p, q \in Requests : Rival(p, q)' <=> Rival(p, q)
  BY <1>1, <1>2, <1>3 DEF Rival, Overlap
<1>5. \A k, t : PinnedBy(k, t)' <=> PinnedBy(k, t)
  BY <1>1, <1>2, <1>3 DEF PinnedBy
<1>6. \A q \in Requests : \A t : Finds(q, t)' <=> Finds(q, t)
  BY <1>1, <1>4 DEF Finds
<1>7. \A q \in Requests : MissedOK(q)' /\ SettledOK(q)' /\ BareOK(q)'
  BY <1>1, <1>2, <1>3, <1>5, <1>6 DEF CallsOK, MissedOK, SettledOK, BareOK
<1>8. \A q, r \in Requests : FollowsOK(q, r)' /\ ReadOK(q, r)' /\ MovingOK(q, r)'
  BY <1>1, <1>2, <1>3, <1>5, <1>6 DEF CallsOK, FollowsOK, ReadOK, MovingOK
<1>. QED BY <1>3, <1>7, <1>8 DEF CallsOK

LEMMA ChainsAsTheyWere ==
  ASSUME ChainsOK, ChainsSame, UNCHANGED <<calls, before>>
  PROVE  ChainsOK'
<1>1. \A w \in Requests : \A k, t : HeadBy(w, k, t)' <=> HeadBy(w, k, t)
  BY DEF calls, HeadBy, Pin
<1>. QED BY <1>1 DEF ChainsOK, ChainsSame

\* Executing a call, which is not over yet, moves nothing but its execution.
LEMMA ExecutionFrame ==
  ASSUME ExecInv, NEW r \in Requests, ExecStep(r)
  PROVE  /\ UNCHANGED <<calls, sessions, config, lifecycle>> /\ ChainsSame
         /\ \A q \in Requests \ {r} : /\ epc'[q] = epc[q] /\ efull'[q] = efull[q]
                                      /\ walk'[q] = walk[q] /\ chained'[q] = chained[q]
<1>. USE ExecTyped
<1>1. CASE Execute(r) \/ Skip(r) \/ Attempt(r) \/ Exhausted(r)
  BY <1>1 DEF Execute, Skip, Attempt, Exhausted, allVars, vars, ChainsSame
<1>2. CASE ReadChain(r)
  <2>1. /\ UNCHANGED <<calls, sessions, config, lifecycle>>
        /\ \A q \in Requests \ {r} : /\ epc'[q] = epc[q] /\ efull'[q] = efull[q]
                                     /\ walk'[q] = walk[q] /\ chained'[q] = chained[q]
    BY <1>2 DEF ReadChain, Plugin
  <2>2. ASSUME NEW k, GetFallbackChain(k) PROVE ChainsSame
    <3>1. /\ k \in DOMAIN fallbackChains
          /\ fallbackChains' = Touch(fallbackChains, k, now)
          /\ IsMap(fallbackChains, PinKeys, ChainEntries) /\ now \in Nat
      BY <2>2, Typed DEF ExecInv, GetFallbackChain
    <3>2. fallbackChains[k] \in ChainEntries
      BY <3>1 DEF IsMap
    <3>3. /\ [fallbackChains[k] EXCEPT !.used = now] \in ChainEntries
          /\ [fallbackChains[k] EXCEPT !.used = now].chain = fallbackChains[k].chain
      BY <3>1, <3>2 DEF ChainEntries
    <3>4. /\ DOMAIN fallbackChains' = DOMAIN fallbackChains
          /\ \A j \in DOMAIN fallbackChains \ {k} : fallbackChains'[j] = fallbackChains[j]
          /\ fallbackChains'[k] = [fallbackChains[k] EXCEPT !.used = now]
      BY <3>1, <3>3, TouchLemma
    <3>. QED BY <3>3, <3>4 DEF ChainsSame
  <2>3. ChainsSame
    BY <1>2, <2>2 DEF ReadChain, ChainsSame
  <2>. QED BY <2>1, <2>3
<1>. QED BY <1>1, <1>2 DEF ExecStep

LEMMA ExecutionKeepsExecuted ==
  ASSUME ExecInv, AffinityInv, NEW r \in Requests, ExecStep(r), UNCHANGED before
  PROVE  /\ ~Over(r) /\ ExecutedOK(r)'
<1>. USE ExecTyped
<1>0. ExecutedOK(r)
  BY DEF AffinityInv
<1>1. /\ SentBack(r) /\ epc[r] \notin {"served", "failed"}
  BY <1>0 DEF ExecStep, Execute, ReadChain, Skip, Attempt, Exhausted, ExecutedOK
<1>2. ~Over(r)
  BY <1>1 DEF Over, Pending
<1>3. UNCHANGED <<calls, config>>
  BY ExecutionFrame
<1>4. /\ SentBack(r)' <=> SentBack(r)
      /\ UNCHANGED <<input, source, route, config, before>>
  BY <1>3 DEF calls, SentBack, Handled, Entry
<1>5. CASE Execute(r)
  <2>1. epc'[r] = "chain" /\ efull'[r] = config /\ ~chained'[r]
    BY <1>0, <1>5 DEF Execute, ExecutedOK
  <2>. QED BY <1>1, <1>2, <1>4, <2>1 DEF ExecutedOK
<1>6. CASE ReadChain(r)
  <2>. DEFINE k == PinKey(Scope(r), input[r].session)
  <2>1. epc[r] = "chain" /\ epc'[r] = "try" /\ efull' = efull /\ efull[r] = config /\ ~chained[r]
    BY <1>0, <1>6 DEF ReadChain, ExecutedOK
  <2>2. CASE /\ GetFallbackChain(k) /\ walk' = [walk EXCEPT ![r] = fallbackChains[k].chain]
             /\ chained' = [chained EXCEPT ![r] = TRUE]
    <3>1. full[r] = config /\ input[r].vm \in DOMAIN full[r].entries
      <4>1. pc[r] = "done" /\ source[r] # "unhandled"
        BY <1>1 DEF SentBack, Handled
      <4>. QED BY <4>1 DEF AffinityInv, SteadyOK, CallsOK, SourceOK
    <3>2. k = Pin(r)
      BY <2>1, <3>1 DEF Known, Scope, Pin
    <3>3. PICK w \in Requests : HeadBy(w, Pin(r), fallbackChains[k].chain[1])
      BY <2>2, <3>2 DEF GetFallbackChain, AffinityInv, ChainsOK
    <3>4. r \notin before[w]
      BY <1>2 DEF AffinityInv, BeforeOK
    <3>5. walk'[r] = fallbackChains[k].chain
      BY <2>2
    <3>. QED BY <1>1, <1>2, <1>4, <2>1, <3>2, <3>3, <3>4, <3>5 DEF ExecutedOK, HeadBy, Pin
  <2>3. CASE UNCHANGED chained
    BY <1>1, <1>2, <1>4, <2>1, <2>3 DEF ExecutedOK
  <2>. QED BY <1>6, <2>2, <2>3 DEF ReadChain
<1>7. CASE Skip(r) \/ Attempt(r) \/ Exhausted(r)
  <2>1. /\ epc[r] = "try" /\ epc'[r] \in {"try", "served", "failed"}
        /\ UNCHANGED <<efull, walk, chained>>
    BY <1>7 DEF Skip, Attempt, Exhausted
  <2>. QED BY <1>0, <1>1, <1>2, <1>4, <2>1 DEF ExecutedOK, HeadBy, Pin
<1>. QED BY <1>2, <1>5, <1>6, <1>7 DEF ExecStep

LEMMA ExecutionKeepsAffinity ==
  ASSUME ExecInv, AffinityInv, NEW r \in Requests, ExecStep(r), UNCHANGED before
  PROVE  AffinityInv'
<1>1. /\ UNCHANGED <<calls, sessions, config, lifecycle>> /\ ChainsSame
      /\ \A q \in Requests \ {r} : /\ epc'[q] = epc[q] /\ efull'[q] = efull[q]
                                   /\ walk'[q] = walk[q] /\ chained'[q] = chained[q]
  BY ExecutionFrame
<1>2. CallsOK' /\ ChainsOK'
  BY <1>1, CallsAsTheyWere, ChainsAsTheyWere DEF AffinityInv
<1>3. SteadyOK'
  BY <1>1 DEF AffinityInv, SteadyOK, calls, ChainsSame
<1>4. ASSUME NEW q \in Requests PROVE BeforeOK(q)'
  <2>1. ASSUME NEW p \in Requests, Over(p) PROVE Over(p)'
    <3>1. p # r
      BY <2>1, ExecutionKeepsExecuted
    <3>. QED BY <1>1, <2>1, <3>1 DEF Over, Pending, SentBack, Handled, Entry, calls
  <2>. QED BY <1>1, <2>1 DEF AffinityInv, BeforeOK, calls
<1>5. ASSUME NEW q \in Requests \ {r} PROVE ExecutedOK(q)'
  <2>1. ExecutedOK(q)
    BY DEF AffinityInv
  <2>2. /\ SentBack(q)' <=> SentBack(q)
        /\ Pin(q)' = Pin(q)
        /\ \A w \in Requests : \A k, t : HeadBy(w, k, t)' <=> HeadBy(w, k, t)
    BY <1>1 DEF calls, SentBack, Handled, Entry, Pin, HeadBy
  <2>. QED BY <1>1, <2>1, <2>2 DEF ExecutedOK
<1>. QED BY <1>2, <1>3, <1>4, <1>5, ExecutionKeepsExecuted DEF AffinityInv

LEMMA PluginKeepsAffinity ==
  ASSUME AffinityInv, LoadState \/ HandleUsage \/ Clock \/ UNCHANGED execAllVars,
         UNCHANGED <<execVars, before>>
  PROVE  AffinityInv'
<1>1. UNCHANGED <<calls, config, fallbackChains>> /\ (lifecycle' = lifecycle \/ LoadState)
  BY DEF LoadState, HandleUsage, Clock, TickOp, KeepData, execAllVars, allVars, vars
<1>2. CallsOK'
  <2>1. CASE UNCHANGED sessions
    BY <1>1, <2>1, CallsAsTheyWere DEF AffinityInv
  <2>2. CASE LoadState
    <3>1. lifecycle = "register"
      BY <2>2 DEF LoadState, AffinityInv, SteadyOK
    <3>2. \A r \in Requests : pc'[r] = "idle" /\ source'[r] = "none"
      BY <1>1, <3>1 DEF AffinityInv, SteadyOK, CallsOK, SourceOK, Searching, calls
    <3>3. \A r \in Requests : ~Keeps(r)' /\ ~Moving(r)'
      BY <3>2 DEF Keeps, Moving
    <3>4. \A r \in Requests : ~Missed(r)' /\ ~Settled(r)'
      BY <3>3 DEF Missed, Settled
    <3>. QED BY <3>2, <3>3, <3>4
         DEF CallsOK, SourceOK, MissedOK, SettledOK, BareOK, FollowsOK, ReadOK, MovingOK
  <2>. QED BY <2>1, <2>2 DEF HandleUsage, Clock, TickOp, KeepData, execAllVars, allVars, vars
<1>3. ChainsOK'
  BY <1>1, ChainsAsTheyWere DEF AffinityInv, ChainsSame
<1>4. SteadyOK'
  <2>1. lifecycle' = lifecycle \/ lifecycle' = "ready"
    BY <1>1 DEF LoadState
  <2>. QED BY <1>1, <2>1 DEF AffinityInv, SteadyOK, calls
<1>5. \A q \in Requests : BeforeOK(q)'
  BY <1>1 DEF AffinityInv, BeforeOK, Over, Pending, SentBack, Handled, Entry, calls, execVars
<1>6. ASSUME NEW q \in Requests PROVE ExecutedOK(q)'
  <2>1. ExecutedOK(q)
    BY DEF AffinityInv
  <2>2. /\ SentBack(q)' <=> SentBack(q)
        /\ Pin(q)' = Pin(q)
        /\ \A w \in Requests : \A k, t : HeadBy(w, k, t)' <=> HeadBy(w, k, t)
    BY <1>1 DEF calls, SentBack, Handled, Entry, Pin, HeadBy
  <2>. QED BY <1>1, <2>1, <2>2 DEF ExecutedOK, execVars
<1>. QED BY <1>2, <1>3, <1>4, <1>5, <1>6 DEF AffinityInv

\* With room for every pin and between two reconfigurations, what calls have seen
\* of their pins accounts for all that can come apart.
THEOREM AffinityInvariant ==
  ASSUME RoomForPins
  PROVE  AffinitySpec => [](ExecInv /\ AffinityInv)
<1>1. AffinitySpec => []ExecInv
  <2>1. AffinityInit => ExecInit
    BY DEF AffinityInit
  <2>2. [AffinityNext]_affVars => [ExecNext]_execAllVars
    BY DEF AffinityNext, LetIn, affVars, ExecNext, ExecSteadyNext
  <2>. QED BY <2>1, <2>2, ExecInvariant, PTL DEF AffinitySpec, ExecSpec
<1>2. AffinityInit => AffinityInv
  <2>. SUFFICES ASSUME AffinityInit PROVE AffinityInv
    OBVIOUS
  <2>1. /\ lifecycle = "register" /\ DOMAIN fallbackChains = {}
        /\ before \in [Requests -> SUBSET Requests]
        /\ \A r \in Requests : /\ pc[r] = "idle" /\ source[r] = "none" /\ before[r] = {}
                               /\ epc[r] = "none" /\ ~chained[r]
    BY DEF AffinityInit, ExecInit, RoutingInit, Init, EmptyMap
  <2>2. \A r \in Requests : ~Keeps(r) /\ ~Moving(r)
    BY <2>1 DEF Keeps, Moving
  <2>3. \A r \in Requests : ~Missed(r) /\ ~Settled(r)
    BY <2>2 DEF Missed, Settled
  <2>4. CallsOK
    BY <2>1, <2>2, <2>3
    DEF CallsOK, SourceOK, MissedOK, SettledOK, BareOK, FollowsOK, ReadOK, MovingOK
  <2>. QED BY <2>1, <2>4 DEF AffinityInv, SteadyOK, ChainsOK, BeforeOK, ExecutedOK
<1>3. ExecInv /\ AffinityInv /\ [AffinityNext]_affVars => AffinityInv'
  <2>. SUFFICES ASSUME ExecInv, AffinityInv, [AffinityNext]_affVars PROVE AffinityInv'
    OBVIOUS
  <2>. USE DEF ExecInv
  <2>1. ASSUME NEW r \in Requests, LetIn(r) PROVE AffinityInv'
    BY <2>1, RoutingKeepsAffinity
  <2>2. ASSUME NEW r \in Requests, Step(r) /\ UNCHANGED execVars, UNCHANGED before
        PROVE  AffinityInv'
    BY <2>2, RoutingKeepsAffinity
  <2>3. ASSUME NEW r \in Requests, ExecStep(r), UNCHANGED before PROVE AffinityInv'
    BY <2>3, ExecutionKeepsAffinity
  <2>4. CASE (LoadState \/ HandleUsage \/ Clock) /\ UNCHANGED execVars /\ UNCHANGED before
    BY <2>4, PluginKeepsAffinity
  <2>5. CASE UNCHANGED affVars
    BY <2>5, PluginKeepsAffinity DEF affVars, execAllVars
  <2>. QED BY <2>1, <2>2, <2>3, <2>4, <2>5 DEF AffinityNext
<1>. QED BY <1>1, <1>2, <1>3, PTL DEF AffinitySpec

(*************************** what it shows ********************************)
\* Whatever pins one session overlaps, and where the chain of a session starts
\* elsewhere than its pin, two such calls are to blame.
LEMMA PinnedRivals ==
  ASSUME AffinityInv, NEW p \in Requests, NEW q \in Requests,
         Pinning(p), Pinning(q), Pin(p) = Pin(q)
  PROVE  \/ route[p].target = route[q].target
         \/ Rivals(Pin(q), route[p].target, route[q].target)
<1>1. CallsOK /\ BeforeOK(p) /\ BeforeOK(q)
  BY DEF AffinityInv
<1>2. p = q \/ Rival(p, q)
  BY <1>1, PinningRivals
<1>. QED BY <1>2 DEF Rivals

\* The call that heads the chain of a session pins it, if it is one of those whose
\* virtual model keeps sessions; all calls of one pin are.
LEMMA HeadPins ==
  ASSUME AffinityInv, NEW r \in Requests, Keeps(r), NEW w \in Requests, NEW t,
         HeadBy(w, Pin(r), t)
  PROVE  Pinning(w) /\ Missed(w) /\ Pin(w) = Pin(r) /\ route[w].target = t
<1>1. SourceOK(w) /\ source[w] = "engine" /\ Pin(w) = Pin(r) /\ input[w].session # NoSession
      /\ route[w].target = t
  BY DEF AffinityInv, CallsOK, HeadBy
<1>2. pc[w] # "idle" /\ input[w].vm \in DOMAIN full[w].entries
  BY <1>1 DEF SourceOK, Searching
<1>3. full[w] = config /\ full[r] = config
  BY <1>2 DEF AffinityInv, SteadyOK, Keeps
<1>4. input[w].vm = input[r].vm
  BY <1>1 DEF Pin, PinKey
<1>5. Keeps(w)
  BY <1>1, <1>2, <1>3, <1>4 DEF Keeps, KeepsSession, Entry
<1>. QED BY <1>1, <1>5 DEF Pinning, Missed, Choosers

\* After an answer that did not come from the cache, every later call of the
\* session is answered from its pin, with that target or the one of a call that
\* overlapped the earlier: for any number of calls, between two reconfigurations
\* and with room for every pin (sessionRoute, storeRoute).
THEOREM SessionsStick ==
  ASSUME RoomForPins
  PROVE  AffinitySpec => []SessionAffinity
<1>1. ExecInv /\ AffinityInv => SessionAffinity
  <2>. SUFFICES ASSUME ExecInv, AffinityInv, NEW q \in Requests, NEW r \in Requests,
                       Keeps(q), Keeps(r), Pin(q) = Pin(r), q \in before[r],
                       Handled(q), source[q] # "cache", pc[r] = "done"
                PROVE  /\ source[r] = "session"
                       /\ \/ route[r].target = route[q].target
                          \/ \E p \in Requests : Rival(p, q) /\ route[p].target = route[r].target
    BY DEF SessionAffinity
  <2>1. source[q] \in Choosers \cup {"session"}
    BY CallTyped DEF Handled, ExecInv, AffinityInv, CallsOK, SourceOK, Choosers, Sources
  <2>2. Settled(q)
    BY <2>1 DEF Settled, Handled
  <2>3. source[r] = "session" /\ Finds(q, route[r].target)
    BY <2>2 DEF AffinityInv, CallsOK, FollowsOK
  <2>. QED BY <2>3 DEF Finds
<1>. QED BY <1>1, AffinityInvariant, PTL

\* Every call that moves the pin an older version left finds the same target in
\* it, and none begins after another has moved it: for any number of calls and
\* virtual models, between two reconfigurations and with room for every pin.
THEOREM LegacyMovesOnce ==
  ASSUME RoomForPins
  PROVE  AffinitySpec => []LegacyOnce
<1>1. AffinityInv => LegacyOnce
  BY DEF AffinityInv, CallsOK, MovingOK, Moving, LegacyOnce, Overlap
<1>. QED BY <1>1, AffinityInvariant, PTL

\* The pin of a session is the head of the chain the executor would walk for it,
\* or two overlapping calls found the one and the other: for any number of calls,
\* between two reconfigurations and with room for every pin.
THEOREM PinsHeadChains ==
  ASSUME RoomForPins
  PROVE  AffinitySpec => []PinHeadsChain
<1>1. AffinityInv => PinHeadsChain
  <2>. SUFFICES ASSUME AffinityInv, NEW r \in Requests, Keeps(r),
                       Pin(r) \in DOMAIN sessions, Pin(r) \in DOMAIN fallbackChains
                PROVE  LET pinned == sessions[Pin(r)].target
                           head == fallbackChains[Pin(r)].chain[1]
                       IN  pinned = head \/ Rivals(Pin(r), pinned, head)
    BY DEF PinHeadsChain
  <2>. DEFINE pinned == sessions[Pin(r)].target
              head == fallbackChains[Pin(r)].chain[1]
  <2>1. PICK w \in Requests : HeadBy(w, Pin(r), head)
    BY DEF AffinityInv, ChainsOK
  <2>2. Pinning(w) /\ Missed(w) /\ Pin(w) = Pin(r) /\ route[w].target = head
    BY <2>1, HeadPins
  <2>3. PICK p \in Requests : Pinning(p) /\ Pin(p) = Pin(r) /\ route[p].target = pinned
    BY <2>2 DEF AffinityInv, CallsOK, MissedOK, PinnedBy
  <2>. QED BY <2>2, <2>3, PinnedRivals
<1>. QED BY <1>1, AffinityInvariant, PTL

\* A walk over a chain starts with the target its call was routed to, or two
\* overlapping calls found the one and the other: for any number of calls,
\* between two reconfigurations and with room for every pin
\* (executorCandidateChain).
THEOREM ChainStartsWithRoute ==
  ASSUME RoomForPins
  PROVE  AffinitySpec => []WalkLeadsWithRoute
<1>1. ExecInv /\ AffinityInv => WalkLeadsWithRoute
  <2>. SUFFICES ASSUME ExecInv, AffinityInv, NEW r \in Requests, chained[r], Keeps(r)
                PROVE  \/ walk[r][1] = route[r].target
                       \/ Rivals(Pin(r), walk[r][1], route[r].target)
    BY DEF WalkLeadsWithRoute
  <2>1. PICK w \in Requests : HeadBy(w, Pin(r), walk[r][1]) /\ r \notin before[w]
    BY DEF AffinityInv, ExecutedOK
  <2>2. Pinning(w) /\ Missed(w) /\ Pin(w) = Pin(r) /\ route[w].target = walk[r][1]
    BY <2>1, HeadPins
  <2>3. pc[r] = "done" /\ source[r] \in Choosers \cup {"session", "cache"}
    <3>1. SentBack(r) /\ source[r] # "none"
      BY CallTyped DEF AffinityInv, ExecutedOK, ExecInv, CallsOK, SourceOK, SentBack, Handled
    <3>. QED BY <3>1, CallTyped DEF SentBack, Handled, ExecInv, Sources, Choosers
  <2>4. CASE source[r] \in Choosers
    <3>1. Pinning(r)
      BY <2>4 DEF Pinning, Choosers
    <3>. QED BY <2>2, <3>1, PinnedRivals
  <2>5. CASE source[r] = "session"
    <3>1. PICK p \in Requests : Pinning(p) /\ Pin(p) = Pin(r) /\ route[p].target = route[r].target
      BY <2>2, <2>5 DEF AffinityInv, CallsOK, ReadOK, PinnedBy
    <3>. QED BY <2>2, <3>1, PinnedRivals
  <2>6. CASE source[r] = "cache"
    <3>1. w \notin before[r]
      <4>. SUFFICES ASSUME w \in before[r] PROVE FALSE
        OBVIOUS
      <4>1. pc[w] = "done"
        BY DEF AffinityInv, BeforeOK, Over
      <4>2. Settled(w)
        BY <2>1, <2>2, <4>1 DEF Missed, Settled, Late, HeadBy, Choosers
      <4>. QED BY <2>2, <2>3, <2>6, <4>2 DEF AffinityInv, CallsOK, FollowsOK
    <3>2. w # r
      BY <2>1, <2>6 DEF HeadBy
    <3>3. Rival(w, r)
      BY <2>1, <2>2, <3>1, <3>2 DEF Rival, Overlap
    <3>. QED BY <2>2, <3>3 DEF Rivals
  <2>. QED BY <2>3, <2>4, <2>5, <2>6
<1>. QED BY <1>1, AffinityInvariant, PTL

\* A live pin passes only from the target of one call to that of another which
\* overlaps it: for any number of calls, between two reconfigurations and with
\* room for every pin (SetSessionRoute).
THEOREM PinsStayStable ==
  ASSUME RoomForPins
  PROVE  AffinitySpec => PinsStable
<1>1. ExecInv /\ AffinityInv /\ [AffinityNext]_affVars =>
        [~LoadState => \A k \in DOMAIN sessions \cap DOMAIN sessions' :
           \/ sessions'[k].target = sessions[k].target
           \/ Rivals(k, sessions[k].target, sessions'[k].target)]_affVars
  <2>. SUFFICES ASSUME ExecInv, AffinityInv, [AffinityNext]_affVars, ~LoadState,
                       NEW k \in DOMAIN sessions \cap DOMAIN sessions'
                PROVE  \/ sessions'[k].target = sessions[k].target
                       \/ Rivals(k, sessions[k].target, sessions'[k].target)
    OBVIOUS
  <2>. USE DEF ExecInv
  <2>1. ASSUME NEW r \in Requests, LetIn(r) \/ (Step(r) /\ UNCHANGED before)
        PROVE  \/ sessions'[k].target = sessions[k].target
               \/ Rivals(k, sessions[k].target, sessions'[k].target)
    <3>1. Goes(r)
      BY <2>1, LetInEnters, StepMoves DEF AffinityInv, Goes
    <3>2. CASE Writes(r) /\ k = Pin(r) /\ sessions'[k].target = route[r].target
      <4>1. SourceOK(r) /\ MissedOK(r)
        BY DEF AffinityInv, CallsOK
      <4>2. Missed(r) /\ Pinning(r)
        BY <3>2, <4>1 DEF Writes, Missed, Late, Labels, Pinning, SourceOK
      <4>3. PICK p \in Requests : Pinning(p) /\ Pin(p) = k /\ route[p].target = sessions[k].target
        BY <3>2, <4>1, <4>2 DEF MissedOK, PinnedBy
      <4>. QED BY <3>2, <4>2, <4>3, PinnedRivals
    <3>. QED BY <3>1, <3>2, PinMoves
  <2>2. ASSUME NEW r \in Requests, ExecStep(r) PROVE UNCHANGED sessions
    BY <2>2, ExecutionFrame
  <2>3. CASE HandleUsage \/ Clock \/ UNCHANGED affVars
    BY <2>3 DEF HandleUsage, Clock, TickOp, KeepData, affVars, execAllVars, allVars, vars
  <2>. QED BY <2>1, <2>2, <2>3 DEF AffinityNext
<1>. QED BY <1>1, AffinityInvariant, PTL DEF AffinitySpec, PinsStable
=============================================================================
