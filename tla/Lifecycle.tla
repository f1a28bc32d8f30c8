------------------------------ MODULE Lifecycle ------------------------------
(***************************************************************************)
(* What surrounds a decision: the host sends a configuration and is told   *)
(* what the plugin can do (handleMethod and pluginRegistration in          *)
(* cmd/plugin/main.go, application/registrar.go), while calls load the     *)
(* configuration, refresh catalog and prices on their way                  *)
(* (refreshExternalState) and may be answered "self".  One action for each *)
(* access to the configuration, to the runtime state or to the host.       *)
(***************************************************************************)
EXTENDS ConfigEntries

CONSTANTS
  Threads,   \* each serves one model.route after another
  Host,      \* the thread of plugin.register, plugin.reconfigure and model.register
  Configs,   \* configurations it sends, by a name: as they are before Normalize
  Initial,   \* the one of them that stands for DefaultConfig
  Requested, \* model names that calls ask for
  Upstream,  \* the host's own models
  Fallback,  \* per kind, the interval used instead of one that is none (10m and 6h)
  Never,     \* the zero time
  NoFile,
  MaxTime    \* bound on the clock

ASSUME LifecycleAssumption ==
  /\ Host \notin Threads
  /\ Never \notin Nat
  /\ Fallback \in [catalog : Nat \ {0}, pricing : Nat \ {0}]
  /\ MaxTime \in Nat
ASSUME ConfigsAssumption ==
  /\ \A c \in DOMAIN Configs : Configs[c] \in ConfigRecords
  /\ Initial \in DOMAIN Configs
  /\ Configs[Initial].top = DefaultBlock /\ Configs[Initial].entries = <<>>

VARIABLES
  config,   \* configStore: the name of a configuration
  external, \* the catalog and pricing fields of the runtime state
  file,     \* those of the state file, or NoFile
  now,
  proc,     \* per thread and for Host: [pc, cfg, self, last, seen], last the time of
            \* the prices in the snapshot it took; seen is history: ended.pricing then
  host,     \* what the host has been told: [executor, models]
  ended     \* history: when a fetch of each kind last ended since the last reload

vars == <<config, external, file, now, proc, host, ended>>

Procs == Threads \cup {Host}

\* What a thread sees under each name: ConfigStore stores what Normalize returns.
Normal == [c \in DOMAIN Configs |-> Normalize(Configs[c])]
Virtual == [c \in DOMAIN Configs |-> VirtualModelNames(Normal[c])]
AllVirtual == UNION {Virtual[c] : c \in DOMAIN Configs}

Fetched(kind) == external[kind].at
NothingEnded == [catalog |-> Never, pricing |-> Never]

Init ==
  /\ config = Initial
  /\ external = [catalog |-> [models |-> {}, at |-> Never], pricing |-> [at |-> Never]]
  /\ file = NoFile
  /\ now = 0
  /\ proc = [p \in Procs |-> [pc |-> "idle", cfg |-> Initial, self |-> FALSE, last |-> Never,
                               seen |-> Never]]
  /\ host = [executor |-> FALSE, models |-> {}]
  /\ ended = NothingEnded

At(p, where) == proc[p].pc = where
Go(p, where) == proc' = [proc EXCEPT ![p].pc = where]
-----------------------------------------------------------------------------
\* An interval that does not parse, or is not positive, is none.
Interval(cfg, kind) == OrDefault(Normal[cfg][kind].refresh_interval, Fallback[kind])

shouldRefresh(last, interval) == last = Never \/ now - last >= interval

Due(cfg, kind, last) ==
  /\ IF kind = "catalog" THEN Normal[cfg].catalog.base_url ELSE Normal[cfg].pricing.enabled
  /\ shouldRefresh(last, Interval(cfg, kind))

\* Where p goes on once it is done with its refresh.
Onward(p) == IF p = Host THEN "register" ELSE "answer"

\* One snapshot serves both tests, before and after the host's answer.
Refresh(p) ==
  /\ At(p, "refresh")
  /\ proc' = [proc EXCEPT ![p] =
                 IF Due(@.cfg, "catalog", Fetched("catalog"))
                 THEN [@ EXCEPT !.pc = "catalog", !.last = Fetched("pricing"),
                                !.seen = ended.pricing]
                 ELSE [@ EXCEPT !.pc = IF Due(proc[p].cfg, "pricing", Fetched("pricing"))
                                       THEN "pricing" ELSE Onward(p)]]
  /\ UNCHANGED <<config, external, file, now, host, ended>>

\* fetchModelCatalog: what the host lists, its own models and those it was told of.
fetchModelCatalog(cfg) ==
  (Upstream \cup host.models)
    \ (IF Normal[cfg].catalog.include_router_model THEN {} ELSE Virtual[cfg])

\* Variant: a failed fetch leaves the catalog as it was, its time included.
SetCatalogIfFetched(cfg, ok) ==
  external' = IF ok THEN [external EXCEPT !.catalog = [models |-> fetchModelCatalog(cfg), at |-> now]]
              ELSE external

\* A failed fetch leaves an empty catalog, and counts as one.
SetCatalog(cfg, ok) ==
  external' = [external EXCEPT !.catalog =
                 [models |-> IF ok THEN fetchModelCatalog(cfg) ELSE {}, at |-> now]]

\* Variant: a failed fetch leaves the catalog due, and the refresh begins anew.
FetchCatalogAgain(p) ==
  /\ At(p, "catalog")
  /\ \/ SetCatalog(proc[p].cfg, TRUE) /\ Go(p, Onward(p))
     \/ /\ external' = [external EXCEPT !.catalog.at = Never]
        /\ Go(p, "refresh")
  /\ ended' = [ended EXCEPT !.catalog = now]
  /\ UNCHANGED <<config, file, now, host>>

\* The host answers the fetch of the catalog, well or badly.
FetchCatalog(p) ==
  /\ At(p, "catalog")
  /\ \E ok \in BOOLEAN : SetCatalog(proc[p].cfg, ok)
  /\ proc' = [proc EXCEPT ![p].last = Never, ![p].seen = Never,
                          ![p].pc = IF Due(proc[p].cfg, "pricing", proc[p].last)
                                    THEN "pricing" ELSE Onward(p)]
  /\ ended' = [ended EXCEPT !.catalog = now]
  /\ UNCHANGED <<config, file, now, host>>

\* Of the prices only the length is kept, or the error.
FetchPricing(p) ==
  /\ At(p, "pricing")
  /\ external' = [external EXCEPT !.pricing.at = now]
  /\ ended' = [ended EXCEPT !.pricing = now]
  /\ Go(p, Onward(p))
  /\ UNCHANGED <<config, file, now, host>>
-----------------------------------------------------------------------------
\* plugin.register, plugin.reconfigure: one at a time, in three accesses and a refresh.
Configure ==
  /\ At(Host, "idle")
  /\ \E c \in DOMAIN Configs \ {Initial} :
       /\ config' = c
       /\ proc' = [proc EXCEPT ![Host].pc = "load", ![Host].cfg = c]
  /\ UNCHANGED <<external, file, now, host, ended>>

LoadState ==
  /\ At(Host, "load")
  /\ external' = IF file = NoFile THEN external ELSE file
  /\ ended' = NothingEnded
  /\ Go(Host, "refresh")
  /\ UNCHANGED <<config, file, now, host>>

\* Variant: the entries' own switches are not looked at.
TopLevelExecutor(c) == c.top.executor_fallback.enabled

NeedsExecutor(c) == c.top.executor_fallback.enabled \/ anyEntryExecutorFallback(c)

\* The flag of pluginRegistration.
Executor == [c \in DOMAIN Configs |-> NeedsExecutor(Normal[c])]

\* The configuration is loaded anew for the answer the host gets.
Register ==
  /\ At(Host, "register")
  /\ host' = [host EXCEPT !.executor = Executor[config]]
  /\ Go(Host, "announce")
  /\ UNCHANGED <<config, external, file, now, ended>>

\* model.register follows.
Announce ==
  /\ At(Host, "announce")
  /\ host' = [host EXCEPT !.models = Virtual[config]]
  /\ Go(Host, "idle")
  /\ UNCHANGED <<config, external, file, now, ended>>

\* Which requested names have an entry, and which of these entries fall back.
Answered == [c \in DOMAIN Configs |-> {name \in Requested : Found(Normal[c], name)}]
FallsBack == [c \in DOMAIN Configs |->
                {name \in Answered[c] : WithEntry(Normal[c], name).top.executor_fallback.enabled}]

Finished == {"self", "provider", "unhandled"}

\* routeModel: what it loads stays in force for the call.  Only a call that is not
\* streamed may be answered "self".
Load(r) ==
  /\ proc[r].pc \in Finished \cup {"idle"}
  /\ \E name \in Requested, stream \in BOOLEAN :
       proc' = [proc EXCEPT ![r] =
                  IF name \in Answered[config]
                  THEN [@ EXCEPT !.pc = "refresh", !.cfg = config,
                          !.self = ~stream /\ name \in FallsBack[config]]
                  ELSE [@ EXCEPT !.pc = "unhandled"]]
  /\ UNCHANGED <<config, external, file, now, host, ended>>

\* routeResponse; Routing has what lies between, which may also find no candidate.
Answer(r) ==
  /\ At(r, "answer")
  /\ \E where \in {IF proc[r].self THEN "self" ELSE "provider", "unhandled"} : Go(r, where)
  /\ UNCHANGED <<config, external, file, now, host, ended>>

\* usage.handle saves the whole state; StatePersistence takes that apart.
Save ==
  /\ file' = external
  /\ UNCHANGED <<config, external, now, proc, host, ended>>

Tick ==
  /\ now < MaxTime
  /\ now' = now + 1
  /\ UNCHANGED <<config, external, file, proc, host, ended>>

ProcStep(p) == Refresh(p) \/ FetchCatalog(p) \/ FetchPricing(p)
HostStep == LoadState \/ Register \/ Announce \/ ProcStep(Host)
CallStep(r) == Answer(r) \/ ProcStep(r)

Next ==
  \/ Configure \/ HostStep
  \/ \E r \in Threads : Load(r) \/ CallStep(r)
  \/ Save \/ Tick

Spec == Init /\ [][Next]_vars

\* Every call that has begun, and a configuration that was sent, goes on; the
\* host answers every fetch.
FairSpec == Spec /\ WF_vars(HostStep) /\ \A r \in Threads : WF_vars(CallStep(r))
-----------------------------------------------------------------------------
\* A call answered "self" under the configuration in force finds the executor
\* registered, once no configuration is on its way: otherwise the host would
\* reject it (pluginRegistration, "would be rejected by the host because no
\* executor was registered").
SelfHasExecutor ==
  \A r \in Threads :
    At(r, "self") /\ At(Host, "idle") /\ proc[r].cfg = config => host.executor

\* A name that stripThinkingSuffix leaves as it is.
EndsPlain(name) ==
  name.suffixes = <<>> \/ Last(name.suffixes) = "" \/ (name.base = "" /\ Len(name.suffixes) = 1)

\* The ways a name may be asked for: padded or not, with a suffix on it, and as it is
\* unless it ends in one itself, for then it asks for the name without.
Endings(name) ==
  {Append(name.suffixes, "high")} \cup (IF EndsPlain(name) THEN {name.suffixes} ELSE {})

Spellings(name) == [base : {name.base}, suffixes : Endings(name), padded : BOOLEAN]

\* The virtual models of all configurations, and what is left of those that end in
\* a suffix.
Known == AllVirtual \cup
  {[name EXCEPT !.suffixes = Front(@)] : name \in {n \in AllVirtual : ~EndsPlain(n)}}

\* Asked for in any way, the name is found, and it is the same entry for routeModel,
\* which scopes the configuration once, and for Router.Route, which scopes the
\* scoped one again.
FoundAlike(c, name) ==
  \A asked \in Spellings(name) :
    /\ Found(c, asked)
    /\ LET scoped == WithEntry(c, asked)
       IN  scoped.top.name = name /\ WithEntry(scoped, asked) = scoped

NeverFound(c, name) == \A asked \in Spellings(name) : ~Found(c, asked)

AllAlike == [c \in DOMAIN Configs |-> {name \in Known : FoundAlike(Normal[c], name)}]
AllUnknown == [c \in DOMAIN Configs |-> {name \in Known : NeverFound(Normal[c], name)}]

\* Once the host has been told, a call is answered exactly if it asks for a name that
\* was announced: such a name is found in all its spellings, by both readers, and no
\* other is, those of earlier configurations included (Registrar.Register against
\* WithEntry).  An announced name that ends in a suffix itself, asked for as it
\* stands, asks for the name without: unless that was announced too, it is not found.
AnnouncedIsRoutable ==
  At(Host, "idle") /\ config # Initial =>
    \A name \in Known :
      name \in (IF name \in host.models THEN AllAlike ELSE AllUnknown)[config]

\* A fetch that begins after one has ended, badly or well, waits for the interval:
\* the catalog's, and the prices' when no catalog was due, after any that ended; the
\* prices' that follow a catalog after any that had ended when the snapshot was taken.
\* Only refreshes that overlap, or a reload, fetch again within it
\* (refreshExternalState, SetCatalog, SetPricing).
Spaced(p, kind, end) == end = Never \/ now - end >= Interval(proc[p].cfg, kind)

RefreshSpacing ==
  [][\A p \in Procs :
       /\ At(p, "refresh") /\ proc'[p].pc = "catalog" => Spaced(p, "catalog", ended.catalog)
       /\ At(p, "refresh") /\ proc'[p].pc = "pricing" => Spaced(p, "pricing", ended.pricing)
       /\ At(p, "catalog") /\ proc'[p].pc = "pricing" => Spaced(p, "pricing", proc[p].seen)]_vars

\* Failing fetches keep no call from its answer and no configuration from being
\* registered and announced.
RefreshNeverBlocks ==
  /\ \A r \in Threads : At(r, "refresh") ~> proc[r].pc \in Finished
  /\ At(Host, "load") ~> At(Host, "idle")
=============================================================================
