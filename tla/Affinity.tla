------------------------------ MODULE Affinity ------------------------------
(***************************************************************************)
(* Session affinity (sessionRoute, storeRoute, storeFallbackChain and the  *)
(* executor's walk) for calls of one session that may well overlap.        *)
(*                                                                         *)
(* A call looks its pin up and stores it in critical sections of their     *)
(* own, so calls that overlap may all miss the pin and decide, each for    *)
(* itself.  What the code promises is stated here: this is the only way in *)
(* which a session's answers, its pin and its chain can come apart.  The   *)
(* history variable tells calls that overlap from calls that follow.       *)
(***************************************************************************)
EXTENDS Execution

VARIABLE before  \* the calls that were over, answered and executed, when a call was let in

affVars == <<execAllVars, before>>

Over(q) == pc[q] = "done" /\ ~Pending(q)

LetIn(r) ==
  /\ ExecLoad(r)
  /\ UNCHANGED execVars
  /\ before' = [before EXCEPT ![r] = {q \in Requests : Over(q)}]

AffinityInit == ExecInit /\ before = [r \in Requests |-> {}]

AffinityNext ==
  \/ \E r \in Requests : LetIn(r)
  \/ /\ \/ \E r \in Requests : ExecStep(r) \/ (Step(r) /\ UNCHANGED execVars)
        \/ (LoadState \/ HandleUsage \/ Clock) /\ UNCHANGED execVars
     /\ UNCHANGED before

\* Between two reconfigurations.
AffinitySpec == AffinityInit /\ [][AffinityNext]_affVars
----------------------------------------------------------------------------
\* A call of a session that its virtual model keeps.
Keeps(r) ==
  /\ pc[r] # "idle"
  /\ input[r].vm \in DOMAIN full[r].entries
  /\ KeepsSession(r)

\* It moves an old pin or decides, and pins what it has found.
Pinning(r) ==
  /\ Keeps(r)
  /\ pc[r] \in {"migrate", "forget"} \/ source[r] \in {"legacy", "local", "classifier", "engine"}

Overlap(q, r) == q \notin before[r] /\ r \notin before[q]

\* Beside r another call pins the same session.
Rival(p, r) ==
  /\ p # r /\ Pin(p) = Pin(r)
  /\ Pinning(p) /\ Keeps(r)
  /\ Overlap(p, r)

\* One of two overlapping calls pinned s to a session, the other found t for it, be
\* it in the cache.
Rivals(k, s, t) ==
  \E p, q \in Requests :
    /\ Pin(q) = k /\ Rival(p, q)
    /\ route[p].target = s /\ route[q].target = t

\* After an answer that did not come from the cache, every later call of the
\* session is answered from its pin, with the same target or that of a call which
\* overlapped the earlier one (README.md: "Session affinity for stable
\* per-session routing"; sessionRoute, storeRoute).
SessionAffinity ==
  \A q, r \in Requests :
    /\ Keeps(q) /\ Keeps(r) /\ Pin(q) = Pin(r) /\ q \in before[r]
    /\ Handled(q) /\ source[q] # "cache" /\ pc[r] = "done"
    => /\ source[r] = "session"
       /\ \/ route[r].target = route[q].target
          \/ \E p \in Requests : Rival(p, q) /\ route[p].target = route[r].target

\* The calls that move the pin of an older version, whichever virtual models they
\* ask, all overlap and find the same target in it (the comment in sessionRoute:
\* it "routes exactly one legacy request").
LegacyOnce ==
  \A q, r \in Requests :
    /\ q # r /\ source[q] = "legacy" /\ source[r] = "legacy"
    /\ input[q].session = input[r].session
    => route[q].target = route[r].target /\ Overlap(q, r)

\* The pin of a session and the head of the chain the executor would walk for it
\* part only where two overlapping calls found the one and the other
\* (storeFallbackChain, storeRoute).
PinHeadsChain ==
  \A r \in Requests :
    LET k == Pin(r)
    IN  Keeps(r) /\ k \in DOMAIN sessions /\ k \in DOMAIN fallbackChains =>
          LET pinned == sessions[k].target
              head == fallbackChains[k].chain[1]
          IN  pinned = head \/ Rivals(k, pinned, head)

\* So do the target a call of a session was routed to and the first one it is
\* executed on (executorCandidateChain).
WalkLeadsWithRoute ==
  \A r \in Requests :
    chained[r] /\ Keeps(r) =>
      \/ walk[r][1] = route[r].target
      \/ Rivals(Pin(r), walk[r][1], route[r].target)

\* A live pin changes only from the target of one call to that of another that
\* overlaps it (SetSessionRoute in storeRoute and sessionRoute); the state file
\* is read before any call.
PinsStable ==
  [][~LoadState => \A k \in DOMAIN sessions \cap DOMAIN sessions' :
       \/ sessions'[k].target = sessions[k].target
       \/ Rivals(k, sessions[k].target, sessions'[k].target)]_affVars
=============================================================================
