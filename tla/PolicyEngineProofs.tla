------------------------- MODULE PolicyEngineProofs -------------------------
(***************************************************************************)
(* The evaluation of routing rules is right for every list of rules and    *)
(* candidates, every set of facts and every offer of providers.            *)
(***************************************************************************)
EXTENDS PolicyEngine, FiniteSetTheorems, WellFoundedInduction, TLAPS

(***************************************************************************)
(* A target the call may be sent to, and a decision that names one.        *)
(***************************************************************************)
Allowed(t) ==
  /\ t \in Candidates /\ Valid(t) /\ Offered(t)
  /\ \E k \in DOMAIN candidates : candidates[k] = t

Found(d) == d \in Decisions /\ Allowed(d.target)

Ascending(s) == \A m, n \in DOMAIN s : m < n => Before(s[m], s[n])

\* The decision of every rule before "limit" that applies has been collected.
Collected(limit) ==
  \A k \in DOMAIN rules :
    k < limit /\ Applies(rules[k]) => \E n \in DOMAIN matches : matches[n] = Decided(k)

(***************************************************************************)
(* While rules are scanned: "best" precedes all that was collected.        *)
(***************************************************************************)
BestIsFirst ==
  IF matches = <<>> THEN best = NoDecision
  ELSE \E n \in DOMAIN matches :
         /\ best = matches[n]
         /\ \A m \in DOMAIN matches \ {n} : Before(best, matches[m])

Scanning ==
  /\ chain = <<>> /\ forwarded = NoTarget
  /\ \A n \in DOMAIN matches : matches[n].rule < i
  /\ BestIsFirst
  /\ Collected(i)

(***************************************************************************)
(* Afterwards: the matches are in order, and the chain stands for those    *)
(* before i.                                                               *)
(***************************************************************************)
Distinct == \A m, n \in DOMAIN chain : m < n => chain[m].target # chain[n].target

ChainFromMatches ==
  \A n \in DOMAIN chain : \E m \in DOMAIN matches : m < i /\ chain[n] = matches[m]

ChainCoversMatches ==
  \A m \in DOMAIN matches :
    m < i => \E n \in DOMAIN chain :
               /\ chain[n].target = matches[m].target
               /\ chain[n].rule = matches[m].rule \/ Before(chain[n], matches[m])

SameHead ==
  /\ IF matches = <<>> THEN best = NoDecision ELSE best = matches[1]
  /\ i > 1 /\ matches # <<>> => chain # <<>> /\ chain[1] = matches[1]

Ranked ==
  /\ Ascending(matches)
  /\ Collected(Len(rules) + 1)
  /\ Ascending(chain) /\ Distinct
  /\ ChainFromMatches /\ ChainCoversMatches
  /\ SameHead

Ended ==
  /\ i > Len(matches)
  /\ forwarded = IF chain = <<>> THEN NoTarget ELSE chain[1].target

IInv ==
  /\ TypeOK
  /\ i >= 1
  /\ \A n \in DOMAIN matches : Found(matches[n])
  /\ \A n \in DOMAIN chain : Found(chain[n])
  /\ phase = "scan" => Scanning
  /\ phase # "scan" => Ranked
  /\ Done => Ended

(************************ the first that is located ***********************)
LEMMA LessThan ==
  \E R : /\ IsWellFoundedOn(R, Nat)
         /\ \A x, y \in Nat : x < y => <<x, y>> \in R
<1>. WITNESS OpToRel(<, Nat)
<1>1. IsWellFoundedOn(OpToRel(<, Nat), Nat)
  BY NatLessThanWellFounded
<1>2. \A x, y \in Nat : x < y => <<x, y>> \in OpToRel(<, Nat)
  BY DEF OpToRel
<1>. QED BY <1>1, <1>2

LEMMA FirstExists ==
  ASSUME NEW S \in SUBSET Nat, S # {}
  PROVE  First(S) \in S
<1>1. PICK R : /\ IsWellFoundedOn(R, Nat)
               /\ \A x, y \in Nat : x < y => <<x, y>> \in R
  BY LessThan
<1>2. PICK n \in S : \A y \in S : <<y, n>> \notin R
  <2>1. IsWellFoundedOn(R, Nat)
    BY <1>1
  <2>2. S \subseteq Nat
    OBVIOUS
  <2>. QED BY <2>1, <2>2, WFMin, Zenon
<1>3. \A k \in S : n <= k
  <2>. TAKE k \in S
  <2>1. n \in Nat /\ k \in Nat
    OBVIOUS
  <2>2. ~ (k < n)
    BY <1>1, <1>2, <2>1
  <2>. QED BY <2>1, <2>2
<1>. QED BY <1>3 DEF First

\* What is located is a candidate as configured, complete and offered, of the
\* model and, where one is given, the provider asked for.
LEMMA TargetFound ==
  ASSUME TypeOK, NEW model, NEW provider, Located(model, provider) # {}
  PROVE  /\ Allowed(Target(model, provider))
         /\ Target(model, provider).model = model
         /\ provider \in {Missing, Target(model, provider).provider}
<1>1. Located(model, provider) \subseteq DOMAIN candidates
  BY DEF Located
<1>2. candidates \in Seq(Candidates) /\ DOMAIN candidates \subseteq Nat
  BY DEF TypeOK
<1>3. PICK n : n = First(Located(model, provider))
  OBVIOUS
<1>4. n \in Located(model, provider)
  BY <1>1, <1>2, <1>3, FirstExists
<1>5. n \in DOMAIN candidates /\ candidates[n] \in Candidates
  BY <1>1, <1>2, <1>4
<1>6. Target(model, provider) = candidates[n]
  BY <1>3 DEF Target
<1>. QED BY <1>4, <1>5, <1>6 DEF Located, Allowed

\* Looking up an allowed target by its own names finds it again.
LEMMA TargetAgain ==
  ASSUME TypeOK, NEW t, Allowed(t)
  PROVE  Located(t.model, t.provider) # {} /\ Target(t.model, t.provider) = t
<1>1. PICK k \in DOMAIN candidates : candidates[k] = t
  BY DEF Allowed
<1>2. k \in Located(t.model, t.provider)
  BY <1>1 DEF Located, Allowed
<1>3. PICK u : u = Target(t.model, t.provider)
  OBVIOUS
<1>4. u \in Candidates /\ u.model = t.model /\ t.provider \in {Missing, u.provider}
  BY <1>2, <1>3, TargetFound DEF Allowed
<1>5. t.provider # Missing /\ t \in Candidates
  BY DEF Allowed, Valid
<1>6. u = t
  BY <1>4, <1>5, PolicyAssumption
<1>. QED BY <1>2, <1>3, <1>6

LEMMA DecidedFound ==
  ASSUME TypeOK, NEW n \in DOMAIN rules, Applies(rules[n])
  PROVE  Found(Decided(n)) /\ Decided(n).rule = n /\ Matched(Decided(n))
<1>1. rules[n] \in Rules /\ n \in Nat
  BY DEF TypeOK
<1>2. rules[n].when \subseteq Conditions
  BY <1>1, PolicyAssumption
<1>3. Specificity(rules[n]) \in Nat
  BY <1>2, PolicyAssumption, FS_Subset, FS_CardinalityType DEF Specificity
<1>4. Allowed(Target(rules[n].model, rules[n].provider))
  BY TargetFound DEF Applies
<1>5. Target(rules[n].model, rules[n].provider) \in Candidates
  BY <1>4 DEF Allowed
<1>. QED BY <1>1, <1>3, <1>4, <1>5, PolicyAssumption
         DEF Found, Decided, Decision, Decisions, Matched

(************************* what steps leave alone **************************)
\* What applies and what is decided depend on what is given alone.
LEMMA SameGiven ==
  ASSUME UNCHANGED given
  PROVE  /\ rules' = rules
         /\ \A rule : Applies(rule)' <=> Applies(rule)
         /\ \A n : Decided(n)' = Decided(n)
         /\ \A d : Found(d)' <=> Found(d)
<1>1. rules' = rules /\ candidates' = candidates /\ available' = available /\ facts' = facts
  BY DEF given
<1>2. \A c : Offered(c)' <=> Offered(c)
  BY <1>1 DEF Offered
<1>3. \A model, provider : Located(model, provider)' = Located(model, provider)
  BY <1>1, <1>2 DEF Located
<1>4. \A model, provider : Target(model, provider)' = Target(model, provider)
  BY <1>1, <1>3 DEF Target
<1>5. \A rule : Applies(rule)' <=> Applies(rule)
  BY <1>1, <1>3 DEF Applies
<1>6. \A n : Decided(n)' = Decided(n)
  BY <1>1, <1>4 DEF Decided
<1>7. \A d : Found(d)' <=> Found(d)
  BY <1>1, <1>2 DEF Found, Allowed
<1>. QED BY <1>1, <1>5, <1>6, <1>7

(***************************** the order ***********************************)
LEMMA BeforeOrders ==
  /\ \A d \in Decisions : ~ Before(d, d)
  /\ \A d, e \in Decisions : ~ (Before(d, e) /\ Before(e, d))
BY DEF Before, Decisions

\* Sorting permutes, and leaves the best match at the head.
LEMMA SortedLemma ==
  ASSUME NEW s \in Seq(Decisions), NEW t \in Sorted(s)
  PROVE  /\ t \in Seq(Decisions)
         /\ DOMAIN t = DOMAIN s
         /\ Ascending(t)
         /\ \A n \in DOMAIN t : \E m \in DOMAIN s : t[n] = s[m]
         /\ \A n \in DOMAIN s : \E m \in DOMAIN t : t[m] = s[n]
<1>1. PICK p \in [DOMAIN s -> DOMAIN s] :
        /\ \A n \in DOMAIN s : \E m \in DOMAIN s : p[m] = n
        /\ \A m, n \in DOMAIN s : m < n => Before(s[p[m]], s[p[n]])
        /\ t = [n \in DOMAIN s |-> s[p[n]]]
  BY DEF Sorted
<1>2. DOMAIN t = 1 .. Len(s) /\ Len(s) \in Nat /\ \A n \in 1 .. Len(s) : t[n] \in Decisions
  BY <1>1
<1>3. t \in [1 .. Len(s) -> Decisions]
  BY <1>1, <1>2
<1>4. t \in Seq(Decisions)
  BY <1>2, <1>3
<1>. QED BY <1>1, <1>4 DEF Ascending

LEMMA HeadIsBest ==
  ASSUME NEW s \in Seq(Decisions), NEW t \in Sorted(s), NEW n \in DOMAIN s,
         \A m \in DOMAIN s \ {n} : Before(s[n], s[m])
  PROVE  t # <<>> /\ t[1] = s[n]
<1>1. /\ t \in Seq(Decisions) /\ DOMAIN t = DOMAIN s /\ Ascending(t)
      /\ \A k \in DOMAIN t : \E m \in DOMAIN s : t[k] = s[m]
      /\ \E m \in DOMAIN t : t[m] = s[n]
  BY SortedLemma
<1>2. PICK m \in DOMAIN t : t[m] = s[n]
  BY <1>1
<1>3. 1 \in DOMAIN t /\ t # <<>>
  BY <1>1, <1>2
<1>4. PICK k \in DOMAIN s : t[1] = s[k]
  BY <1>1, <1>3
<1>5. s[n] \in Decisions /\ s[k] \in Decisions
  OBVIOUS
<1>6. CASE m = 1
  BY <1>2, <1>3, <1>6
<1>7. CASE m # 1
  <2>1. 1 < m
    BY <1>1, <1>2, <1>7
  <2>2. Before(s[k], s[n])
    BY <1>2, <1>3, <1>4, <2>1, <1>1 DEF Ascending
  <2>3. k = n
    BY <2>2, <1>5, BeforeOrders
  <2>. QED BY <2>3, <1>3, <1>4
<1>. QED BY <1>6, <1>7

(************************* the inductive invariant *************************)
LEMMA InitIInv == Init => IInv
<1>. SUFFICES ASSUME Init PROVE IInv
  OBVIOUS
<1>1. rules \in Seq(Rules) /\ candidates \in Seq(Candidates)
  BY PolicyAssumption DEF Init, ListsUpTo
<1>2. best \in Decisions
  BY DEF Init, NoDecision, Decision, Decisions
<1>3. TypeOK
  BY <1>1, <1>2 DEF Init, TypeOK
<1>4. Scanning
  BY <1>1 DEF Init, Scanning, BestIsFirst, Collected
<1>. QED BY <1>3, <1>4 DEF Init, IInv, Done

LEMMA SkipIInv == IInv /\ Skip => IInv'
<1>. SUFFICES ASSUME IInv, Skip PROVE IInv'
  OBVIOUS
<1>1. rules' = rules /\ UNCHANGED given /\ i \in Nat /\ i >= 1
  BY DEF Skip, given, IInv, TypeOK
<1>2. TypeOK'
  BY DEF Skip, IInv, TypeOK, given
<1>3. Collected(i)'
  <2>. SUFFICES ASSUME NEW k \in DOMAIN rules, k < i + 1, Applies(rules[k])
                PROVE  \E n \in DOMAIN matches : matches[n] = Decided(k)
    BY <1>1, SameGiven DEF Skip, Collected
  <2>1. k # i
    BY DEF Skip
  <2>2. k < i
    BY <2>1, <1>1, rules \in Seq(Rules) DEF IInv, TypeOK
  <2>. QED BY <2>2 DEF Skip, IInv, Scanning, Collected
<1>4. Scanning'
  <2>1. BestIsFirst'
    BY DEF Skip, IInv, Scanning, BestIsFirst, Before
  <2>2. \A n \in DOMAIN matches : matches[n].rule < i + 1
    <3>1. \A n \in DOMAIN matches : matches[n] \in Decisions /\ matches[n].rule < i
      BY DEF Skip, IInv, Scanning, TypeOK
    <3>2. \A n \in DOMAIN matches : matches[n].rule \in Nat /\ matches[n].rule < i
      BY <3>1 DEF Decisions
    <3>. QED BY <3>2, <1>1
  <2>. QED BY <2>1, <2>2, <1>3 DEF Skip, IInv, Scanning
<1>5. (\A n \in DOMAIN matches : Found(matches[n]))' /\ (\A n \in DOMAIN chain : Found(chain[n]))'
  BY <1>1, SameGiven DEF Skip, IInv
<1>. QED BY <1>1, <1>2, <1>4, <1>5 DEF Skip, IInv, Done

LEMMA CollectIInv == IInv /\ Collect => IInv'
<1>. SUFFICES ASSUME IInv, Collect PROVE IInv'
  OBVIOUS
<1>. DEFINE d == Decided(i)
<1>1. /\ rules' = rules /\ UNCHANGED given /\ i \in DOMAIN rules /\ i \in Nat /\ i >= 1
      /\ matches \in Seq(Decisions) /\ Applies(rules[i]) /\ TypeOK /\ best \in Decisions
  BY DEF Collect, given, IInv, TypeOK
<1>2. Found(d) /\ d \in Decisions /\ d.rule = i /\ Matched(d)
  BY <1>1, DecidedFound DEF Found
<1>. HIDE DEF d
<1>3. /\ matches' = Append(matches, d) /\ i' = i + 1 /\ phase = "scan" /\ phase' = "scan"
      /\ best' = IF Better(d) THEN d ELSE best
      /\ UNCHANGED <<chain, forwarded>>
  BY DEF Collect, d
<1>4. TypeOK'
  BY <1>1, <1>2, <1>3 DEF TypeOK, given
<1>5. /\ Len(matches') = Len(matches) + 1 /\ matches' # <<>>
      /\ \A n \in DOMAIN matches : n \in DOMAIN matches' /\ matches'[n] = matches[n]
      /\ \A n \in DOMAIN matches' : n \in DOMAIN matches \/ matches'[n] = d
      /\ Len(matches) + 1 \in DOMAIN matches' /\ matches'[Len(matches) + 1] = d
      /\ \A n \in DOMAIN matches' : n \in DOMAIN matches \/ n = Len(matches) + 1
      /\ Len(matches) \in Nat /\ \A n \in DOMAIN matches : n < Len(matches) + 1 /\ matches[n] \in Decisions
  BY <1>1, <1>2, <1>3
<1>6. (\A n \in DOMAIN matches : Found(matches[n]))' /\ (\A n \in DOMAIN chain : Found(chain[n]))'
  BY <1>1, <1>2, <1>3, <1>5, SameGiven DEF IInv
<1>7. Collected(i)'
  <2>. SUFFICES ASSUME NEW k \in DOMAIN rules, k < i + 1, Applies(rules[k])
                PROVE  \E n \in DOMAIN matches' : matches'[n] = Decided(k)
    BY <1>1, <1>3, SameGiven DEF Collected
  <2>1. CASE k = i
    BY <2>1, <1>5 DEF d
  <2>2. CASE k # i
    <3>1. k < i
      BY <2>2, <1>1, rules \in Seq(Rules) DEF TypeOK
    <3>2. PICK n \in DOMAIN matches : matches[n] = Decided(k)
      BY <3>1, <1>3 DEF IInv, Scanning, Collected
    <3>. QED BY <3>2, <1>5
  <2>. QED BY <2>1, <2>2
<1>8. \A n \in DOMAIN matches' : matches'[n].rule < i + 1
  <2>1. \A n \in DOMAIN matches : matches[n].rule < i /\ matches[n].rule \in Nat
    BY <1>3, <1>5 DEF IInv, Scanning, Decisions
  <2>. QED BY <2>1, <1>1, <1>2, <1>5
<1>9. BestIsFirst'
  <2>1. CASE matches = <<>>
    <3>1. ~ Matched(best)
      BY <2>1, <1>3 DEF IInv, Scanning, BestIsFirst, NoDecision, Decision, Matched
    <3>2. best' = d
      BY <3>1, <1>3 DEF Better
    <3>3. \A m \in DOMAIN matches' : m = Len(matches) + 1
      BY <2>1, <1>5
    <3>. QED BY <3>2, <3>3, <1>5 DEF BestIsFirst
  <2>2. CASE matches # <<>>
    <3>1. PICK n \in DOMAIN matches :
            best = matches[n] /\ \A m \in DOMAIN matches \ {n} : Before(best, matches[m])
      BY <2>2, <1>3 DEF IInv, Scanning, BestIsFirst
    <3>2. Matched(best) /\ best.rule < i
      BY <3>1, <1>3, PolicyAssumption DEF IInv, Found, Allowed, Matched, Scanning
    <3>3. CASE Better(d)
      <4>1. d.specificity > best.specificity
        BY <3>2, <3>3 DEF Better
      <4>2. \A m \in DOMAIN matches : Before(d, matches[m])
        <5>. TAKE m \in DOMAIN matches
        <5>1. matches[m].specificity <= best.specificity
          BY <3>1, <1>5 DEF Before, Decisions
        <5>. QED BY <5>1, <4>1, <1>1, <1>2, <1>5 DEF Before, Decisions
      <4>3. \A m \in DOMAIN matches' \ {Len(matches) + 1} : Before(d, matches'[m])
        BY <4>2, <1>5
      <4>4. best' = d
        BY <3>3, <1>3
      <4>. QED BY <4>3, <4>4, <1>5 DEF BestIsFirst, Before
    <3>4. CASE ~ Better(d)
      <4>1. best.specificity >= d.specificity /\ best' = best
        BY <3>2, <3>4, <1>1, <1>2, <1>3 DEF Better, Decisions
      <4>2. Before(best, d)
        BY <4>1, <3>2, <1>1, <1>2 DEF Before, Decisions
      <4>3. \A m \in DOMAIN matches' \ {n} : Before(best, matches'[m])
        BY <4>2, <3>1, <1>5
      <4>. QED BY <4>1, <4>3, <3>1, <1>5 DEF BestIsFirst, Before
    <3>. QED BY <3>3, <3>4
  <2>. QED BY <2>1, <2>2
<1>10. Scanning'
  BY <1>3, <1>7, <1>8, <1>9 DEF IInv, Scanning
<1>. QED BY <1>1, <1>3, <1>4, <1>6, <1>10 DEF IInv, Done

LEMMA SortIInv == IInv /\ Sort => IInv'
<1>. SUFFICES ASSUME IInv, Sort PROVE IInv'
  OBVIOUS
<1>1. /\ rules' = rules /\ UNCHANGED given /\ phase = "scan" /\ phase' = "dedup" /\ i' = 1
      /\ UNCHANGED <<best, chain, forwarded>> /\ chain = <<>> /\ TypeOK
      /\ matches \in Seq(Decisions) /\ matches' \in Sorted(matches)
      /\ i > Len(rules) /\ i \in Nat /\ rules \in Seq(Rules)
  BY DEF Sort, given, IInv, TypeOK, Scanning
<1>2. /\ matches' \in Seq(Decisions) /\ DOMAIN matches' = DOMAIN matches
      /\ Ascending(matches')
      /\ \A n \in DOMAIN matches' : \E m \in DOMAIN matches : matches'[n] = matches[m]
      /\ \A n \in DOMAIN matches : \E m \in DOMAIN matches' : matches'[m] = matches[n]
  BY <1>1, SortedLemma
<1>3. TypeOK'
  BY <1>1, <1>2 DEF TypeOK, given
<1>4. (\A n \in DOMAIN matches : Found(matches[n]))'
  BY <1>1, <1>2, SameGiven DEF IInv
<1>5. Collected(Len(rules) + 1)'
  <2>. SUFFICES ASSUME NEW k \in DOMAIN rules, Applies(rules[k])
                PROVE  \E n \in DOMAIN matches' : matches'[n] = Decided(k)
    BY <1>1, SameGiven DEF Collected
  <2>1. k < i
    BY <1>1
  <2>2. PICK n \in DOMAIN matches : matches[n] = Decided(k)
    BY <2>1, <1>1 DEF IInv, Scanning, Collected
  <2>. QED BY <2>2, <1>2
<1>6. IF matches' = <<>> THEN best = NoDecision ELSE best = matches'[1]
  <2>1. CASE matches = <<>>
    <3>1. Len(matches') = 0
      BY <2>1, <1>1, <1>2
    <3>. QED BY <2>1, <3>1, <1>1, <1>2 DEF IInv, Scanning, BestIsFirst
  <2>2. CASE matches # <<>>
    <3>1. PICK n \in DOMAIN matches :
            best = matches[n] /\ \A m \in DOMAIN matches \ {n} : Before(best, matches[m])
      BY <2>2, <1>1 DEF IInv, Scanning, BestIsFirst
    <3>2. \A m \in DOMAIN matches \ {n} : Before(matches[n], matches[m])
      BY <3>1
    <3>3. matches' # <<>> /\ matches'[1] = matches[n]
      BY <1>1, <3>2, HeadIsBest
    <3>. QED BY <3>1, <3>3
  <2>. QED BY <2>1, <2>2
<1>7. Ranked'
  BY <1>1, <1>2, <1>5, <1>6
     DEF Ranked, Ascending, Before, Distinct, ChainFromMatches, ChainCoversMatches, SameHead, TypeOK
<1>. QED BY <1>1, <1>3, <1>4, <1>7 DEF IInv, Done

LEMMA DedupIInv == IInv /\ Dedup => IInv'
<1>. SUFFICES ASSUME IInv, Dedup PROVE IInv'
  OBVIOUS
<1>1. /\ rules' = rules /\ UNCHANGED given /\ phase = "dedup" /\ phase' = "dedup" /\ i' = i + 1
      /\ UNCHANGED <<best, matches, forwarded>> /\ TypeOK /\ Ranked
      /\ matches \in Seq(Decisions) /\ chain \in Seq(Decisions)
      /\ i \in DOMAIN matches /\ i \in Nat /\ i >= 1 /\ matches # <<>>
  BY DEF Dedup, given, IInv, TypeOK
<1>2. \A m \in DOMAIN matches : m \in Nat /\ (m < i + 1 <=> m < i \/ m = i)
  BY <1>1
<1>3. Collected(Len(rules) + 1)'
  BY <1>1, SameGiven DEF Ranked, Collected
<1>4. (\A n \in DOMAIN matches : Found(matches[n]))'
  BY <1>1, SameGiven DEF IInv
<1>5. CASE Seen(matches[i].target)
  <2>1. chain' = chain
    BY <1>5 DEF Dedup
  <2>2. PICK n \in DOMAIN chain : chain[n].target = matches[i].target
    BY <1>5 DEF Seen
  <2>3. PICK m \in DOMAIN matches : m < i /\ chain[n] = matches[m]
    BY <1>1 DEF Ranked, ChainFromMatches
  <2>4. Before(chain[n], matches[i])
    BY <2>3, <1>1 DEF Ranked, Ascending
  <2>5. ChainCoversMatches'
    BY <1>1, <1>2, <2>1, <2>2, <2>4 DEF Ranked, ChainCoversMatches, Before
  <2>6. ChainFromMatches'
    BY <1>1, <1>2, <2>1 DEF Ranked, ChainFromMatches
  <2>7. SameHead'
    <3>1. i > 1
      BY <2>3, <1>1, <1>2
    <3>. QED BY <3>1, <1>1, <2>1 DEF Ranked, SameHead
  <2>8. Ranked'
    BY <1>1, <1>3, <2>1, <2>5, <2>6, <2>7 DEF Ranked, Ascending, Distinct, Before
  <2>9. TypeOK' /\ (\A k \in DOMAIN chain : Found(chain[k]))'
    BY <1>1, <2>1, SameGiven DEF TypeOK, given, IInv
  <2>. QED BY <1>1, <1>4, <2>8, <2>9 DEF IInv, Done
<1>6. CASE ~ Seen(matches[i].target)
  <2>. DEFINE last == Len(chain) + 1
  <2>1. chain' = Append(chain, matches[i])
    BY <1>6 DEF Dedup
  <2>2. matches[i] \in Decisions /\ Found(matches[i])
    BY <1>1 DEF IInv
  <2>3. /\ chain' # <<>> /\ last \in DOMAIN chain' /\ chain'[last] = matches[i] /\ last \in Nat
        /\ \A n \in DOMAIN chain : n \in DOMAIN chain' /\ chain'[n] = chain[n] /\ n < last /\ n \in Nat
        /\ \A n \in DOMAIN chain' : n \in DOMAIN chain \/ n = last
        /\ (chain = <<>> => last = 1) /\ (chain # <<>> => 1 \in DOMAIN chain)
    BY <1>1, <2>1, <2>2
  <2>. HIDE DEF last
  <2>4. \A n \in DOMAIN chain :
          Before(chain[n], matches[i]) /\ chain[n].target # matches[i].target
    <3>. TAKE n \in DOMAIN chain
    <3>1. PICK m \in DOMAIN matches : m < i /\ chain[n] = matches[m]
      BY <1>1 DEF Ranked, ChainFromMatches
    <3>2. Before(chain[n], matches[i])
      BY <3>1, <1>1 DEF Ranked, Ascending
    <3>. QED BY <3>2, <1>6 DEF Seen
  <2>5. \A m, n \in DOMAIN chain' :
          m < n => Before(chain'[m], chain'[n]) /\ chain'[m].target # chain'[n].target
    <3>. SUFFICES ASSUME NEW m \in DOMAIN chain', NEW n \in DOMAIN chain', m < n
                  PROVE  Before(chain'[m], chain'[n]) /\ chain'[m].target # chain'[n].target
      OBVIOUS
    <3>1. m \in DOMAIN chain
      BY <2>3
    <3>2. CASE n = last
      BY <3>1, <3>2, <2>3, <2>4
    <3>3. CASE n \in DOMAIN chain
      <4>1. Before(chain[m], chain[n]) /\ chain[m].target # chain[n].target
        BY <3>1, <3>3, <1>1 DEF Ranked, Ascending, Distinct
      <4>. QED BY <3>1, <3>3, <2>3, <4>1
    <3>. QED BY <3>2, <3>3, <2>3
  <2>6. ChainFromMatches'
    BY <1>1, <1>2, <2>3 DEF Ranked, ChainFromMatches
  <2>7. ChainCoversMatches'
    <3>. SUFFICES ASSUME NEW m \in DOMAIN matches, m < i + 1
                  PROVE  \E n \in DOMAIN chain' :
                           /\ chain'[n].target = matches[m].target
                           /\ chain'[n].rule = matches[m].rule \/ Before(chain'[n], matches[m])
      BY <1>1 DEF ChainCoversMatches, Before
    <3>1. CASE m < i
      <4>1. PICK n \in DOMAIN chain :
              /\ chain[n].target = matches[m].target
              /\ chain[n].rule = matches[m].rule \/ Before(chain[n], matches[m])
        BY <3>1, <1>1 DEF Ranked, ChainCoversMatches
      <4>2. n \in DOMAIN chain' /\ chain'[n] = chain[n]
        BY <2>3
      <4>. QED BY <4>1, <4>2
    <3>2. CASE m = i
      BY <3>2, <2>3
    <3>. QED BY <3>1, <3>2, <1>2
  <2>8. SameHead'
    <3>1. chain'[1] = matches[1]
      <4>1. CASE chain = <<>>
        <5>1. ~ (i > 1)
          BY <4>1, <1>1 DEF Ranked, SameHead
        <5>2. i = 1
          BY <5>1, <1>1
        <5>. QED BY <5>2, <4>1, <2>3
      <4>2. CASE chain # <<>>
        <5>1. PICK m \in DOMAIN matches : m < i
          BY <4>2, <2>3, <1>1 DEF Ranked, ChainFromMatches
        <5>2. i > 1
          BY <5>1, <1>1
        <5>. QED BY <5>2, <4>2, <1>1, <2>3 DEF Ranked, SameHead
      <4>. QED BY <4>1, <4>2
    <3>. QED BY <3>1, <1>1, <2>3 DEF Ranked, SameHead
  <2>9. Ranked'
    BY <1>1, <1>3, <2>5, <2>6, <2>7, <2>8 DEF Ranked, Ascending, Distinct, Before
  <2>10. TypeOK' /\ (\A n \in DOMAIN chain : Found(chain[n]))'
    BY <1>1, <2>1, <2>2, <2>3, SameGiven DEF TypeOK, given, IInv
  <2>. QED BY <1>1, <1>4, <2>9, <2>10 DEF IInv, Done
<1>. QED BY <1>5, <1>6

LEMMA ForwardIInv == IInv /\ Forward => IInv'
<1>. SUFFICES ASSUME IInv, Forward PROVE IInv'
  OBVIOUS
<1>1. /\ rules' = rules /\ UNCHANGED given /\ phase = "dedup" /\ phase' = "done" /\ i' = i
      /\ UNCHANGED <<best, matches, chain>> /\ TypeOK /\ Ranked /\ i > Len(matches)
      /\ chain \in Seq(Decisions)
  BY DEF Forward, given, IInv, TypeOK
<1>2. forwarded' = IF chain = <<>> THEN NoTarget ELSE chain[1].target
  <2>1. CASE chain = <<>>
    BY <2>1 DEF Forward
  <2>2. CASE chain # <<>>
    <3>1. 1 \in DOMAIN chain
      BY <2>2, <1>1
    <3>2. Allowed(chain[1].target)
      BY <3>1 DEF IInv, Found
    <3>3. /\ Located(chain[1].target.model, chain[1].target.provider) # {}
          /\ Target(chain[1].target.model, chain[1].target.provider) = chain[1].target
      BY <3>2, <1>1, TargetAgain
    <3>. QED BY <2>2, <3>3 DEF Forward
  <2>. QED BY <2>1, <2>2
<1>3. forwarded' \in Candidates \cup {NoTarget}
  <2>1. chain # <<>> => chain[1] \in Decisions
    BY <1>1
  <2>. QED BY <2>1, <1>2 DEF Decisions
<1>4. TypeOK'
  BY <1>1, <1>3 DEF TypeOK, given
<1>5. Ranked'
  BY <1>1, SameGiven
     DEF Ranked, Ascending, Before, Collected, Distinct, ChainFromMatches, ChainCoversMatches, SameHead
<1>6. (\A n \in DOMAIN matches : Found(matches[n]))' /\ (\A n \in DOMAIN chain : Found(chain[n]))'
  BY <1>1, SameGiven DEF IInv
<1>. QED BY <1>1, <1>2, <1>4, <1>5, <1>6 DEF IInv, Done, Ended

LEMMA StutterIInv == IInv /\ UNCHANGED vars => IInv'
<1>. SUFFICES ASSUME IInv, UNCHANGED vars PROVE IInv'
  OBVIOUS
<1>1. UNCHANGED given /\ UNCHANGED <<phase, i, best, matches, chain, forwarded>>
  BY DEF vars
<1>2. TypeOK'
  BY <1>1 DEF IInv, TypeOK, given
<1>3. (phase = "scan" => Scanning)'
  BY <1>1, SameGiven DEF IInv, Scanning, BestIsFirst, Before, Collected
<1>4. (phase # "scan" => Ranked)'
  BY <1>1, SameGiven
     DEF IInv, Ranked, Ascending, Before, Collected, Distinct, ChainFromMatches,
         ChainCoversMatches, SameHead
<1>5. (\A n \in DOMAIN matches : Found(matches[n]))' /\ (\A n \in DOMAIN chain : Found(chain[n]))'
  BY <1>1, SameGiven DEF IInv
<1>. QED BY <1>1, <1>2, <1>3, <1>4, <1>5 DEF IInv, Done, Ended

LEMMA StepIInv == IInv /\ [Next]_vars => IInv'
BY SkipIInv, CollectIInv, SortIInv, DedupIInv, ForwardIInv, StutterIInv DEF Next

LEMMA Invariant == Spec => []IInv
BY InitIInv, StepIInv, PTL DEF Spec

(******************************* theorems **********************************)
\* Every step of an evaluation keeps the types of its state (policy_engine.go).
THEOREM PolicyTypeCorrect == Spec => []TypeOK
<1>1. IInv => TypeOK
  BY DEF IInv
<1>. QED BY <1>1, Invariant, PTL

\* EvaluateRoutes and EvaluateRoutesRanked agree on the winning rule, for all
\* rules, candidates, facts and offers.
THEOREM EvaluationsAgree == Spec => []BestHeadsChain
<1>1. IInv => BestHeadsChain
  <2>. SUFFICES ASSUME IInv, Done
                PROVE  IF chain = <<>> THEN ~ Matched(best) ELSE chain[1] = best
    BY DEF BestHeadsChain
  <2>1. Ranked /\ i > Len(matches) /\ matches \in Seq(Decisions) /\ i \in Nat /\ chain \in Seq(Decisions)
    BY DEF IInv, Done, Ended, TypeOK
  <2>2. CASE chain = <<>>
    <3>1. matches # <<>> => i > 1
      BY <2>1
    <3>2. matches = <<>>
      BY <2>1, <2>2, <3>1 DEF Ranked, SameHead
    <3>. QED BY <2>1, <2>2, <3>2 DEF Ranked, SameHead, NoDecision, Decision, Matched
  <2>3. CASE chain # <<>>
    <3>1. 1 \in DOMAIN chain
      BY <2>1, <2>3
    <3>2. PICK m \in DOMAIN matches : chain[1] = matches[m]
      BY <2>1, <3>1 DEF Ranked, ChainFromMatches
    <3>3. matches # <<>> /\ i > 1
      BY <2>1, <3>2
    <3>. QED BY <2>1, <2>3, <3>3 DEF Ranked, SameHead
  <2>. QED BY <2>2, <2>3
<1>. QED BY <1>1, Invariant, PTL

\* The chain holds every target a matching rule names, once, under the rule
\* that ranks first, and in that order (EvaluateRoutesRanked).
THEOREM ChainExact == Spec => []ChainIsExact
<1>1. IInv => ChainIsExact
  <2>. SUFFICES ASSUME IInv, Done PROVE ChainIsExact
    BY DEF ChainIsExact
  <2>1. /\ Ranked /\ i > Len(matches) /\ matches \in Seq(Decisions) /\ i \in Nat /\ TypeOK
        /\ rules \in Seq(Rules)
    BY DEF IInv, Done, Ended, TypeOK
  <2>2. \A m, n \in DOMAIN chain :
          m < n => Before(chain[m], chain[n]) /\ chain[m].target # chain[n].target
    BY <2>1 DEF Ranked, Ascending, Distinct
  <2>3. ASSUME NEW k \in DOMAIN rules, Applies(rules[k])
        PROVE  \E n \in DOMAIN chain :
                 /\ chain[n].target = Decided(k).target
                 /\ chain[n].rule = k \/ Before(chain[n], Decided(k))
    <3>1. k < Len(rules) + 1
      BY <2>1
    <3>2. PICK m \in DOMAIN matches : matches[m] = Decided(k)
      BY <2>1, <2>3, <3>1 DEF Ranked, Collected
    <3>3. m < i
      BY <2>1
    <3>4. Decided(k).rule = k
      BY <2>1, <2>3, DecidedFound
    <3>. QED BY <2>1, <3>2, <3>3, <3>4 DEF Ranked, ChainCoversMatches
  <2>. QED BY <2>2, <2>3 DEF ChainIsExact
<1>. QED BY <1>1, Invariant, PTL

\* PolicyRouter.Forward finds the head of the chain again, and no other target.
THEOREM ForwardFindsHead == Spec => []ForwardsHead
<1>1. IInv => ForwardsHead
  BY DEF IInv, Ended, ForwardsHead
<1>. QED BY <1>1, Invariant, PTL

\* No rule can bring a target into the chain that is not configured, complete
\* and offered to this call (resolveRuleTarget).
THEOREM ChainAllowed == Spec => []ChainIsAllowed
<1>1. IInv => ChainIsAllowed
  BY DEF IInv, Found, Allowed, ChainIsAllowed
<1>. QED BY <1>1, Invariant, PTL
=============================================================================
