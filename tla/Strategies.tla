----------------------------- MODULE Strategies -----------------------------
(***************************************************************************)
(* The decision of one call that neither a pin nor the cache answers       *)
(* (routeModel and classifyRoute in cmd/plugin/main.go,                    *)
(* application/router.go): the local choice, the classifiers in turn, or   *)
(* the decision engine, as the strategy of the virtual model has it.       *)
(* Routing leaves open which eligible target a decision names; here it is  *)
(* computed, from the request, by the operators of Selection, Verdict and  *)
(* RequestFacts and the steps of PolicyEngine.                             *)
(***************************************************************************)
EXTENDS PolicyEngine, RequestFacts, Verdict

CONSTANTS
  Calls  \* families of calls: a set for each thing that is given

IsList(s) == s \in Seq({s[n] : n \in DOMAIN s})

\* Rules and candidates are those of PolicyEngine; a configured name is missing when it
\* is empty and no name is taken for punctuation; each classifier that may be asked has a reply.
ASSUME CallsAssumption ==
  /\ Missing = "" /\ Names \cap Punctuation = {}
  /\ \A c \in Calls :
       /\ c.rules \subseteq ListsUpTo(Rules, MaxRules)
       /\ c.candidates \subseteq ListsUpTo(Candidates, MaxCandidates)
       /\ \A offer \in c.offers : AvailableSet(offer) \in AvailSets
       /\ c.attempts \subseteq Nat
       /\ \A asked \in c.classifiers, replies \in c.replies :
            /\ IsList(asked) /\ IsList(replies) /\ Len(asked) <= Len(replies)
            /\ \A n \in 1 .. Len(replies) :
                 /\ IsList(replies[n].fields) /\ IsList(replies[n].raw)
                 /\ \A k \in DOMAIN replies[n].fields : IsList(replies[n].fields[k])

TextsIn(request) ==
  {request.body} \cup {request.messages[n].text : n \in DOMAIN request.messages}
    \cup {request.contents[n] : n \in DOMAIN request.contents}

\* Two texts of one id are one text; the alphabet has every language a file can be in.
ASSUME RequestsAssumption ==
  /\ IsList(Alphabet)
  /\ \A c \in Calls :
       /\ \A q \in c.requests \cup c.cached :
            /\ IsList(q.messages) /\ IsList(q.contents)
            /\ \A a \in TextsIn(q) :
                 /\ IsFiniteSet(a.files)
                 /\ \A f \in a.files : f.language \in {Unknown} \cup {Alphabet[n] : n \in DOMAIN Alphabet}
       /\ \A q \in c.requests, p \in c.cached : \A a \in TextsIn(q), b \in TextsIn(p) :
            a.id = b.id => a = b

VARIABLES
  call,     \* [enabled, strategy, preference, traits, request, offer, classifiers,
            \*  attempts, replies, and the request that filled the cache: cached]
  stage,    \* "start", "classify", "engine", "local" or "done"
  attempt,  \* classifiers taken so far
  entry     \* [target, by]: the route, and what decided it

steps == <<stage, attempt, entry>>
callVars == <<vars, call, steps>>

Undecided == [target |-> NoTarget, by |-> ""]

\* The candidates with what is configured about them besides their names.
Models ==
  [n \in DOMAIN candidates |->
     [provider |-> candidates[n].provider, model |-> candidates[n].model,
      capabilities |-> call.traits[n].capabilities,
      cost |-> call.traits[n].cost, quality |-> call.traits[n].quality]]

Prompt == WordsOf(ExtractUserPrompt(call.request))

\* Router.Route: an index into the models, or 0.
LocalChoice ==
  IF call.enabled THEN SelectCandidate(Models, call.offer, Prompt, call.preference) ELSE 0

\* classifyRoute's cap on the attempts.  A classifier that is off has none to ask, and
\* Normalize has left none nameless.
MaxAttempts ==
  IF call.attempts \in 1 .. Len(call.classifiers) THEN call.attempts ELSE Len(call.classifiers)

FactsOf(request, language) == {c \in Conditions : Satisfies(RouteFacts(request, language), c)}
-----------------------------------------------------------------------------
CallInit ==
  /\ \E c \in Calls :
       /\ call \in [enabled : c.enabled, strategy : c.strategies, preference : c.preferences,
                    traits : c.traits, request : c.requests, cached : c.cached, offer : c.offers,
                    classifiers : c.classifiers, attempts : c.attempts, replies : c.replies]
       /\ \E l \in Languages(Context(call.request)) : facts = FactsOf(call.request, l)
       /\ candidates \in c.candidates
       /\ rules \in c.rules
  /\ available = AvailableSet(call.offer)
  /\ phase = "scan" /\ i = 1
  /\ best = NoDecision /\ matches = <<>> /\ chain = <<>> /\ forwarded = NoTarget
  /\ stage = "start" /\ attempt = 0 /\ entry = Undecided

Enter(s) == stage' = s /\ UNCHANGED <<vars, call, attempt, entry>>

Answer(target, by) ==
  /\ entry' = [target |-> target, by |-> by]
  /\ stage' = "done"

AnswerModel(n, by) == Answer(candidates[n], by)

Capability ==
  /\ stage = "start" /\ call.strategy = "capability"
  /\ Enter("local")

\* hybrid asks nobody when the local choice declares what the prompt asks for.
Confident ==
  /\ stage = "start" /\ call.strategy = "hybrid"
  /\ LocalConfident(Models, LocalChoice, Prompt)
  /\ AnswerModel(LocalChoice, "local_confident")
  /\ UNCHANGED <<vars, call, attempt>>

Consult ==
  /\ stage = "start"
  /\ \/ call.strategy = "llm"
     \/ call.strategy = "hybrid" /\ ~LocalConfident(Models, LocalChoice, Prompt)
  /\ Enter("classify")

ConsultEngine ==
  /\ stage = "start" /\ call.strategy = "decision_engine"
  /\ Enter("engine")

\* The verdict of this attempt: 0 where the host, the status or the text fails.
ReplyVerdict ==
  LET reply == call.replies[attempt + 1]
  IN  IF reply.failed THEN 0 ELSE ParseVerdict(reply, Models, call.offer)

Attempting ==
  /\ stage = "classify" /\ attempt < MaxAttempts
  /\ attempt' = attempt + 1
  /\ UNCHANGED <<vars, call>>

ClassifierFails ==
  /\ Attempting
  /\ ReplyVerdict = 0
  /\ UNCHANGED <<stage, entry>>

ClassifierDecides ==
  /\ Attempting
  /\ ReplyVerdict # 0
  /\ AnswerModel(Promoted(ReplyVerdict, Models, call.offer, call.preference), "classifier")

Exhausted ==
  /\ stage = "classify" /\ attempt = MaxAttempts
  /\ Enter("local")

Engine ==
  /\ stage = "engine" /\ phase # "done"
  /\ Next
  /\ UNCHANGED <<call, steps>>

EngineDecides ==
  /\ stage = "engine" /\ phase = "done" /\ forwarded # NoTarget
  /\ Answer(forwarded, "engine")
  /\ UNCHANGED <<vars, call, attempt>>

\* Variant: a call the engine abstains from is not handled.
AbstainsForGood ==
  /\ stage = "engine" /\ phase = "done" /\ forwarded = NoTarget
  /\ Enter("done")

EngineAbstains ==
  /\ stage = "engine" /\ phase = "done" /\ forwarded = NoTarget
  /\ Enter("local")

\* Whatever has not decided leaves the local choice, if there is one.
Local ==
  /\ stage = "local"
  /\ IF LocalChoice = 0 THEN Answer(NoTarget, "nobody") ELSE AnswerModel(LocalChoice, "local")
  /\ UNCHANGED <<vars, call, attempt>>

CallNext ==
  \/ Capability \/ Confident \/ Consult \/ ConsultEngine
  \/ ClassifierFails \/ ClassifierDecides \/ Exhausted
  \/ Engine \/ EngineDecides \/ EngineAbstains
  \/ Local

CallSpec == CallInit /\ [][CallNext]_callVars
-----------------------------------------------------------------------------
Answered == stage = "done" /\ entry.target # NoTarget

\* Every strategy answers with a configured, complete model at a provider the
\* host offers, however it came to it: Routing's choice among Eligible targets
\* stands for all of them (routeModel).
DecidesAmongOffered ==
  Answered => \E n \in Usable(Models, call.offer) : candidates[n] = entry.target

\* A call goes unhandled only if the plugin is disabled or no usable model is dear
\* enough for its prompt, no rule applies to it, and no classifier that was to be asked named a model
\* it may use (routeModel, classifyRoute).
UnhandledOnlyWithoutCandidate ==
  stage = "done" /\ ~Answered =>
    /\ call.enabled => Pool(Models, call.offer, Prompt) = {}
    /\ call.strategy = "decision_engine" => \A n \in DOMAIN rules : ~Applies(rules[n])
    /\ call.strategy \in {"llm", "hybrid"} =>
         \A n \in 1 .. MaxAttempts :
           call.replies[n].failed \/ ParseVerdict(call.replies[n], Models, call.offer) = 0

\* Among the models the gate lets through, the preferred dimension decides, the
\* other only between equals, configuration order only between equals in both;
\* a model that declares nothing asked for never leads one that does (ScoreCandidates).
PreferenceOrdersGate ==
  stage = "local" /\ LocalChoice # 0 =>
    \A n \in Pool(Models, call.offer, Prompt) :
      LET chosen == Models[LocalChoice]
          other == Models[n]
          Cheaper == CostRank(chosen.cost) < CostRank(other.cost)
          AsCheap == CostRank(chosen.cost) = CostRank(other.cost)
          Finer == QualityRank(chosen.quality) > QualityRank(other.quality)
          AsFine == QualityRank(chosen.quality) = QualityRank(other.quality)
      IN  \/ ~Declares(other, Prompt) /\ Declares(chosen, Prompt)
          \/ /\ Declares(other, Prompt) => Declares(chosen, Prompt)
             /\ IF call.preference = "quality"
                THEN Finer \/ (AsFine /\ (Cheaper \/ (AsCheap /\ LocalChoice <= n)))
                ELSE Cheaper \/ (AsCheap /\ (Finer \/ (AsFine /\ LocalChoice <= n)))

\* The host may withdraw any provider but the chosen model's without moving the
\* local choice: the gate and the ranking depend on nothing that loses
\* (ScoreCandidates).
OnlyLosersMove ==
  stage = "local" /\ LocalChoice # 0 =>
    \A offer \in SUBSET {candidates[n].provider : n \in DOMAIN candidates} :
      LET chosen == Models[LocalChoice].provider
      IN  chosen \in offer \ {""} /\ Reachable(chosen, call.offer)
            /\ (AvailableSet(call.offer) = {} \/ offer \subseteq call.offer)
          => SelectCandidate(Models, offer, Prompt, call.preference) = LocalChoice

\* The preference never takes a call to a model that costs more or does less
\* than the classifier's pick, and never between models that differ in both
\* (ApplyPreferenceTiebreak).
TiebreakStaysInTier ==
  entry.by = "classifier" =>
    LET picked == Models[ParseVerdict(call.replies[attempt], Models, call.offer)]
    IN  \E n \in DOMAIN Models :
          /\ candidates[n] = entry.target
          /\ CostRank(Models[n].cost) <= CostRank(picked.cost)
          /\ QualityRank(Models[n].quality) >= QualityRank(picked.quality)
          /\ CostRank(Models[n].cost) = CostRank(picked.cost)
               \/ QualityRank(Models[n].quality) = QualityRank(picked.quality)

\* A complete verdict is found whatever stands around it in the reply: text,
\* unfinished objects, quotes that never close, other fields (extractJSONObjects,
\* classifierContentSources).
VerdictSurvivesNoise ==
  stage = "classify" => \A k \in DOMAIN call.replies :
    LET texts == Sources(call.replies[k])
    IN  (\E s \in DOMAIN texts : \E n \in 1 .. Len(texts[s]) - 2 :
           /\ texts[s][n] = "open" /\ texts[s][n + 2] = "close"
           /\ Configured(Models, texts[s][n + 1]) # {}
           /\ ProviderAvailable(Models[LastConfigured(Models, texts[s][n + 1])].provider, call.offer))
        => ParseVerdict(call.replies[k], Models, call.offer) # 0

\* The same request has the same language, in whatever order the counts of its
\* files are ranged over, so the same rules apply to it (topLanguage).
LanguageDeterminate == stage = "start" => Cardinality(Languages(Context(call.request))) = 1

NulFree(prompt) == \A n \in DOMAIN prompt : prompt[n].id # NUL

\* A hit never answers a call whose client declared another task than the call
\* that filled the entry, nor one of another shape or other keywords: two requests
\* under one key are alike in all that is taken from the prompt, unless a prompt
\* holds the byte that joins the parts of a key (routeCacheKey).
SameKeySameTask ==
  LET prompt == ExtractUserPrompt(call.request)
      cached == ExtractUserPrompt(call.cached)
  IN  /\ stage = "start"
      /\ NulFree(prompt) /\ NulFree(cached)
      /\ routeCacheKey(call.request) = routeCacheKey(call.cached)
      =>
        /\ routingTask(call.request) = routingTask(call.cached)
        /\ DetectPromptTemplate(prompt) = DetectPromptTemplate(cached)
        /\ WordsOf(prompt) = WordsOf(cached)
=============================================================================
