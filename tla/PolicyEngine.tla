---------------------------- MODULE PolicyEngine ----------------------------
(***************************************************************************)
(* The decision engine's evaluation of routing rules                       *)
(* (internal/domain/policy_engine.go) and the forwarding of its decision   *)
(* (internal/application/policy_router.go).  EvaluateRoutes keeps the best *)
(* rule while it scans; EvaluateRoutesRanked collects all that match,      *)
(* sorts them and drops repeated targets.  Both scans are taken together,  *)
(* one rule per step.                                                      *)
(*                                                                         *)
(* A condition of a rule, with its parameter, is an atom; the facts of a   *)
(* call are the atoms it satisfies.  The specificity of a rule is the      *)
(* number of its conditions.                                               *)
(***************************************************************************)
EXTENDS Naturals, Sequences, FiniteSets

CONSTANTS
  Conditions,
  Rules,        \* [model, provider, when]
  Names,        \* of providers and models
  Candidates,   \* [provider, model], either of which may be Missing
  MaxRules, MaxCandidates,
  AvailSets,    \* the providers the host offers; none means any
  Missing,      \* an empty name in the configuration
  NoTarget

ListsUpTo(S, n) == UNION {[1 .. k -> S] : k \in 0 .. n}

ASSUME PolicyAssumption ==
  /\ IsFiniteSet(Conditions)
  /\ Rules \subseteq [provider : Names, model : Names, when : SUBSET Conditions]
  /\ Candidates \subseteq [provider : Names, model : Names]
  /\ MaxRules \in Nat /\ MaxCandidates \in Nat
  /\ NoTarget \notin Candidates

VARIABLES
  rules, candidates, available, facts,  \* what is given
  phase,
  i,        \* the rule, then the match, to look at next
  best,     \* EvaluateRoutes: the best decision so far
  matches,  \* EvaluateRoutesRanked: the decisions of the rules that match
  chain,    \* ... sorted, and each target once
  forwarded \* what PolicyRouter.Forward returned

given == <<rules, candidates, available, facts>>
vars == <<given, phase, i, best, matches, chain, forwarded>>

Decision(t, n, s) == [target |-> t, rule |-> n, specificity |-> s]
NoDecision == Decision(NoTarget, 0, 0)
Matched(d) == d.target # NoTarget

Specificity(rule) == Cardinality(rule.when)

Valid(c) == c.provider # Missing /\ c.model # Missing
Offered(c) == available = {} \/ c.provider \in available

\* Variant: what the host offers is not looked at.
LocatedUnoffered(model, provider) ==
  {n \in DOMAIN candidates :
     LET c == candidates[n]
     IN  Valid(c) /\ c.model = model /\ provider \in {Missing, c.provider}}

\* Where a model, and a provider unless it is left out, is configured and offered.
Located(model, provider) ==
  {n \in DOMAIN candidates :
     LET c == candidates[n]
     IN  /\ Valid(c)
         /\ c.model = model
         /\ provider \in {Missing, c.provider}
         /\ Offered(c)}

First(S) == CHOOSE n \in S : \A k \in S : n <= k

\* resolveRuleTarget, locateProvider: the first of them.
Target(model, provider) == candidates[First(Located(model, provider))]

\* ruleMatches and resolveRuleTarget: a rule that names no target is skipped.
Applies(rule) ==
  /\ rule.model # Missing
  /\ rule.when \subseteq facts
  /\ Located(rule.model, rule.provider) # {}
----------------------------------------------------------------------------
Init ==
  /\ rules \in ListsUpTo(Rules, MaxRules)
  /\ candidates \in ListsUpTo(Candidates, MaxCandidates)
  /\ available \in AvailSets
  /\ facts \in SUBSET Conditions
  /\ phase = "scan"
  /\ i = 1
  /\ best = NoDecision
  /\ matches = <<>>
  /\ chain = <<>>
  /\ forwarded = NoTarget

\* Variant: the decision names what the rule says, not what it resolves to.
DecidedUnresolved(n) ==
  Decision([provider |-> rules[n].provider, model |-> rules[n].model], n, Specificity(rules[n]))

Decided(n) ==
  Decision(Target(rules[n].model, rules[n].provider), n, Specificity(rules[n]))

\* Variant: a rule as specific as the best so far replaces it.
BetterOrEqual(d) == ~Matched(best) \/ d.specificity >= best.specificity

\* "best" starts with a specificity of -1.
Better(d) == ~Matched(best) \/ d.specificity > best.specificity

Skip ==
  /\ phase = "scan" /\ i <= Len(rules)
  /\ ~Applies(rules[i])
  /\ i' = i + 1
  /\ UNCHANGED <<given, phase, best, matches, chain, forwarded>>

Collect ==
  /\ phase = "scan" /\ i <= Len(rules)
  /\ Applies(rules[i])
  /\ best' = IF Better(Decided(i)) THEN Decided(i) ELSE best
  /\ matches' = Append(matches, Decided(i))
  /\ i' = i + 1
  /\ UNCHANGED <<given, phase, chain, forwarded>>

\* More specific first, then in the order of the rules.
Before(d, e) ==
  \/ d.specificity > e.specificity
  \/ d.specificity = e.specificity /\ d.rule < e.rule

Sorted(s) ==
  {[n \in DOMAIN s |-> s[p[n]]] :
     p \in {q \in [DOMAIN s -> DOMAIN s] :
               /\ \A n \in DOMAIN s : \E m \in DOMAIN s : q[m] = n
              /\ \A m, n \in DOMAIN s : m < n => Before(s[q[m]], s[q[n]])}}

Sort ==
  /\ phase = "scan" /\ i > Len(rules)
  /\ matches' \in Sorted(matches)
  /\ phase' = "dedup"
  /\ i' = 1
  /\ UNCHANGED <<given, best, chain, forwarded>>

\* Variant: a target is compared with the last one kept only.
SeenLast(t) == chain # <<>> /\ chain[Len(chain)].target = t

\* (the code compares "provider/model": no provider's name has a slash)
Seen(t) == \E n \in DOMAIN chain : chain[n].target = t

Dedup ==
  /\ phase = "dedup" /\ i <= Len(matches)
  /\ chain' = IF Seen(matches[i].target) THEN chain ELSE Append(chain, matches[i])
  /\ i' = i + 1
  /\ UNCHANGED <<given, phase, best, matches, forwarded>>

\* Variant: the head of the chain is looked up by its model alone.
ForwardByModel ==
  /\ phase = "dedup" /\ i > Len(matches)
  /\ forwarded' = IF chain # <<>> THEN Target(chain[1].target.model, Missing) ELSE NoTarget
  /\ phase' = "done"
  /\ UNCHANGED <<given, i, best, matches, chain>>

\* decisionEngineRoute forwards the head of the chain, if there is one.
Forward ==
  /\ phase = "dedup" /\ i > Len(matches)
  /\ forwarded' =
       IF chain # <<>> /\ Located(chain[1].target.model, chain[1].target.provider) # {}
       THEN Target(chain[1].target.model, chain[1].target.provider)
       ELSE NoTarget
  /\ phase' = "done"
  /\ UNCHANGED <<given, i, best, matches, chain>>

Next == Skip \/ Collect \/ Sort \/ Dedup \/ Forward

Spec == Init /\ [][Next]_vars
----------------------------------------------------------------------------
Decisions == [target : Candidates \cup {NoTarget}, rule : Nat, specificity : Nat]

TypeOK ==
  /\ rules \in Seq(Rules)
  /\ candidates \in Seq(Candidates)
  /\ available \in AvailSets
  /\ facts \in SUBSET Conditions
  /\ phase \in {"scan", "dedup", "done"}
  /\ i \in Nat
  /\ best \in Decisions
  /\ matches \in Seq(Decisions)
  /\ chain \in Seq(Decisions)
  /\ forwarded \in Candidates \cup {NoTarget}

Done == phase = "done"

\* The two evaluations agree: the rule EvaluateRoutes keeps is the one
\* EvaluateRoutesRanked ranks first, and one finds a rule when the other does.
BestHeadsChain ==
  Done => IF chain = <<>> THEN ~Matched(best) ELSE chain[1] = best

\* The chain holds every target a matching rule names, each once and under the
\* most specific (then first) of the rules that name it, in the order of these
\* rules (EvaluateRoutesRanked).
ChainIsExact ==
  Done =>
    /\ \A m, n \in DOMAIN chain :
         m < n => Before(chain[m], chain[n]) /\ chain[m].target # chain[n].target
    /\ \A k \in DOMAIN rules :
         Applies(rules[k]) =>
           \E n \in DOMAIN chain :
             /\ chain[n].target = Decided(k).target
             /\ chain[n].rule = k \/ Before(chain[n], Decided(k))

\* Where the chain is not empty, forwarding finds its head again, and finds that
\* very target: the engine abstains only when no rule applies, and the call is
\* never routed to another target than the one its chain starts with
\* (PolicyRouter.Forward, decisionEngineRoute).
ForwardsHead ==
  Done => forwarded = IF chain = <<>> THEN NoTarget ELSE chain[1].target

\* Every target of the chain is configured, complete and offered to this call.
ChainIsAllowed ==
  \A n \in DOMAIN chain :
    LET t == chain[n].target
    IN  Valid(t) /\ Offered(t) /\ \E k \in DOMAIN candidates : candidates[k] = t
=============================================================================
