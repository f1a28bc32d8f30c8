----------------------------- MODULE Execution -----------------------------
(***************************************************************************)
(* executeWithFallback (cmd/plugin/main.go): with executor_fallback on, a  *)
(* routed call comes back to the plugin, which asks the host for one       *)
(* target after the other until one answers.  The host sends back the      *)
(* call's session and virtual model, never the route it was given.         *)
(*                                                                         *)
(* The map "failed" is written and never read, and no chain is ever stored *)
(* under a bare session id, where the executor looks too: both are left    *)
(* out, as are the failure reasons and their counters.                     *)
(***************************************************************************)
EXTENDS Routing, Sequences

VARIABLES
  epc,      \* where the execution of each call is
  efull,    \* the configuration it loaded: not the one the call was routed by
  walk,     \* the targets it goes through
  chained,  \* whether they come from a chain of the decision engine
  tried     \* how many of them it has tried

execVars == <<epc, efull, walk, chained, tried>>
execAllVars == <<allVars, execVars>>

\* An entry lists its models in an order, possibly with repetitions, and caps how
\* many are tried; "main", "order" and "tries" of a configuration are its top level.
ListOf(S) == UNION {[1 .. n -> S] : n \in 0 .. Cardinality(S) + 1}

ASSUME ExecutionConfigAssumption ==
  \A c \in Configs :
     /\ c.main \in VirtualModels /\ c.order \in ListOf(Targets) /\ c.tries \in Nat \ {0}
     /\ \A v \in DOMAIN c.entries :
          LET e == c.entries[v]
          IN  /\ e.executor \in BOOLEAN
              /\ e.tries \in Nat \ {0}
              /\ e.order \in ListOf(e.models)
              /\ e.models = {e.order[i] : i \in DOMAIN e.order}

\* routeResponse sends the call back to the plugin itself, unless its answer is
\* to be streamed.
SentBack(r) == Handled(r) /\ Entry(r).executor /\ ~input[r].stream

Pending(r) == SentBack(r) /\ epc[r] \notin {"served", "failed"}

\* WithEntry, or the top level when the virtual model is no longer configured.
Known(r) == input[r].vm \in DOMAIN efull[r].entries
Scope(r) == IF Known(r) THEN input[r].vm ELSE efull[r].main

First(n, order) == [i \in 1 .. (IF n < Len(order) THEN n ELSE Len(order)) |-> order[i]]
ConfiguredOrder(r) ==
  LET scoped == IF Known(r) THEN efull[r].entries[Scope(r)] ELSE efull[r]
  IN  First(scoped.tries, scoped.order)
----------------------------------------------------------------------------
ExecInit ==
  /\ RoutingInit
  /\ epc = [r \in Requests |-> "none"]
  /\ efull = [r \in Requests |-> config]
  /\ walk = [r \in Requests |-> <<>>]
  /\ chained = [r \in Requests |-> FALSE]
  /\ tried = [r \in Requests |-> 0]

Execute(r) ==
  /\ SentBack(r)
  /\ epc[r] = "none"
  /\ epc' = [epc EXCEPT ![r] = "chain"]
  /\ efull' = [efull EXCEPT ![r] = config]
  /\ UNCHANGED <<allVars, walk, chained, tried>>

(***************************************************************************)
(* executorCandidateChain: the chain of the session if there is one, else  *)
(* the configured models.  max_attempts caps the latter only.              *)
(***************************************************************************)
ReadChain(r) ==
  LET k == PinKey(Scope(r), input[r].session)
  IN  /\ epc[r] = "chain"
      /\ \/ /\ input[r].session # NoSession
            /\ GetFallbackChain(k)
            /\ walk' = [walk EXCEPT ![r] = fallbackChains[k].chain]
            /\ chained' = [chained EXCEPT ![r] = TRUE]
         \/ /\ input[r].session # NoSession => k \notin DOMAIN fallbackChains
            /\ walk' = [walk EXCEPT ![r] = ConfiguredOrder(r)]
            /\ UNCHANGED <<fallbackChains, chained>>
      /\ epc' = [epc EXCEPT ![r] = "try"]
      /\ UNCHANGED <<Plugin, calls, sessions, routeCache, counters, lastDecision, efull, tried>>

\* A target without a model name is passed over: normalizing keeps it.
Blank(t) == t.model = ""

Skip(r) ==
  /\ epc[r] = "try"
  /\ tried[r] < Len(walk[r])
  /\ Blank(walk[r][tried[r] + 1])
  /\ tried' = [tried EXCEPT ![r] = @ + 1]
  /\ UNCHANGED <<allVars, epc, efull, walk, chained>>

\* Variant: one attempt more than there are targets.
AttemptTooFar(r) ==
  /\ epc[r] = "try"
  /\ tried[r] <= Len(walk[r])
  /\ tried' = [tried EXCEPT ![r] = @ + 1]
  /\ \E end \in {"served", "try"} : epc' = [epc EXCEPT ![r] = end]
  /\ UNCHANGED <<allVars, efull, walk, chained>>

\* The host answers, or fails in a way that moves the walk on.
Attempt(r) ==
  /\ epc[r] = "try"
  /\ tried[r] < Len(walk[r])
  /\ ~Blank(walk[r][tried[r] + 1])
  /\ tried' = [tried EXCEPT ![r] = @ + 1]
  /\ \E end \in {"served", "try"} : epc' = [epc EXCEPT ![r] = end]
  /\ UNCHANGED <<allVars, efull, walk, chained>>

\* Variant: the end of the walk is missed.
ExhaustedLate(r) ==
  /\ epc[r] = "try"
  /\ tried[r] > Len(walk[r])
  /\ epc' = [epc EXCEPT ![r] = "failed"]
  /\ UNCHANGED <<allVars, efull, walk, chained, tried>>

Exhausted(r) ==
  /\ epc[r] = "try"
  /\ tried[r] = Len(walk[r])
  /\ epc' = [epc EXCEPT ![r] = "failed"]
  /\ UNCHANGED <<allVars, efull, walk, chained, tried>>

ExecStep(r) == Execute(r) \/ ReadChain(r) \/ Skip(r) \/ Attempt(r) \/ Exhausted(r)

\* A call that is still executed is under way as well.
ExecLoad(r) ==
  /\ Load(r)
  /\ Cardinality({q \in Requests \ {r} : /\ Active(q) \/ Pending(q)
                                        /\ input[q].session = input'[r].session}) < AtOnce

ExecSteadyNext ==
  \/ \E r \in Requests : ExecStep(r)
  \/ /\ \E r \in Requests : ExecLoad(r) \/ Step(r)
     /\ UNCHANGED execVars
  \/ (LoadState \/ HandleUsage \/ Clock) /\ UNCHANGED execVars

ExecNext == ExecSteadyNext \/ (Reconfigure /\ UNCHANGED execVars)

ExecSpec == ExecInit /\ [][ExecNext]_execAllVars
ExecSteadySpec == ExecInit /\ [][ExecSteadyNext]_execAllVars

\* The thread of a call is scheduled through its execution, and the host
\* answers every attempt one way or the other.
FairExec ==
  /\ ExecSpec
  /\ \A r \in Requests :
       /\ WF_execAllVars(Step(r) /\ UNCHANGED execVars)
       /\ WF_execAllVars(ExecStep(r))
----------------------------------------------------------------------------
ExecTypeOK ==
  /\ epc \in [Requests -> {"none", "chain", "try", "served", "failed"}]
  /\ efull \in [Requests -> Configs]
  /\ walk \in [Requests -> ListOf(Targets)]
  /\ chained \in [Requests -> BOOLEAN]
  /\ tried \in [Requests -> Nat]
  /\ \A r \in Requests : tried[r] <= Len(walk[r])

\* While its virtual model stays configured, a call is executed on nothing but
\* what that virtual model has offered, whatever other calls store and however
\* often the plugin is reconfigured (executorCandidateChain).
ExecutesInLane ==
  \A r \in Requests :
    Known(r) => \A i \in 1 .. tried[r] : walk[r][i] \in OwnTargets(input[r].vm)

\* Every execution ends, with an answer or with the last error.
EveryExecutionEnds ==
  \A r \in Requests : epc[r] = "chain" ~> epc[r] \in {"served", "failed"}

\* What the code does not keep; a run expects it to fail.
\* Where the chain of the decision engine is walked, it starts with the target
\* the call was routed to (storeFallbackChain: "the executor reads the chain the
\* router wrote").
ChainLeadsWithRoute ==
  \A r \in Requests : chained[r] => walk[r][1] = route[r].target
=============================================================================
