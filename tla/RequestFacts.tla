---------------------------- MODULE RequestFacts ----------------------------
(***************************************************************************)
(* What the analysers of the decision engine see in a request              *)
(* (buildRouteFacts in cmd/plugin/main.go; intent.go, intent_model.go,     *)
(* context.go, prompt_shape.go and infrastructure/prompt.go), and which    *)
(* conditions of a rule (policy_engine.go) these facts satisfy.  Regular   *)
(* expressions and the weights of the trained model are left out: a text   *)
(* carries what they find in it.                                           *)
(*   request [name, task, agent, stream, messages, contents, body]         *)
(*     task, agent  the X-Router-Task and X-Router-Agent headers           *)
(*     messages     [role, text], oldest first                             *)
(*     contents     texts of a Gemini request                              *)
(*     body         the raw body as a text                                 *)
(*   text    [id, words, marks, student, length, bounded, wrapped,         *)
(*            directive, files, code, diff]                                *)
(*     id           tells two texts apart; a blank text is "".             *)
(*     words        the keywords it contains                               *)
(*     marks        its [router-task: _] and [router-agent: _] markers     *)
(*     student      what the model says: [intent, probability], in percent *)
(*     wrapped      how many runes of leading interruption markers it has  *)
(*     files        the file names in it: [name, language]                 *)
(*     code         the language its keywords hint at                      *)
(***************************************************************************)
EXTENDS Complexity, SequencesExt

CONSTANTS
  Threshold,  \* of the student, in percent
  Alphabet    \* the languages, in alphabetical order

\* intentPriority
Intents == <<"security", "debug", "testing", "review", "performance",
             "documentation", "coding", "planning">>
Unknown == ""

ParseIntent(value) == IF value \in ToSet(Intents) THEN value ELSE Unknown

RouterAgentIntent(agent) ==
  CASE agent = "planner" -> "planning"
    [] agent = "implementer" -> "coding"
    [] agent = "reviewer" -> "review"
    [] OTHER -> Unknown

FirstKnown(intents) ==
  LET known == SelectSeq(intents, LAMBDA t : t # Unknown)
  IN  IF known = <<>> THEN Unknown ELSE Head(known)

\* routerMarkerIntent: the first marker of that kind that says something known.
MarkerIntent(marks, kind, parse(_)) ==
  FirstKnown([n \in DOMAIN marks |-> IF marks[n][1] = kind THEN parse(marks[n][2]) ELSE Unknown])

\* ExtractUserPrompt: the last user message that is not blank and all contents,
\* or else the whole body.  The prompt is a sequence of texts.
ExtractUserPrompt(request) ==
  LET said == {n \in DOMAIN request.messages :
                 /\ request.messages[n].role \in {"", "user"}
                 /\ request.messages[n].text.id # ""}
      last == CHOOSE n \in said : \A k \in said : k <= n
      parts == (IF said = {} THEN <<>> ELSE <<request.messages[last].text>>) \o request.contents
  IN  IF \A n \in DOMAIN parts : parts[n].id = "" THEN <<request.body>> ELSE parts

WordsOf(prompt) == UNION {prompt[n].words : n \in DOMAIN prompt}
MarksOf(prompt) == FlattenSeq([n \in DOMAIN prompt |-> prompt[n].marks])
LengthOf(prompt) == FoldLeft(+, 0, [n \in DOMAIN prompt |-> prompt[n].length])

routingTaskOverride(request) ==
  LET marks == MarksOf(ExtractUserPrompt(request))
  IN  FirstKnown(<<ParseIntent(request.task), RouterAgentIntent(request.agent),
                   MarkerIntent(marks, "task", ParseIntent),
                   MarkerIntent(marks, "agent", RouterAgentIntent)>>)
-----------------------------------------------------------------------------
\* intentSignals: a keyword for every intent and weight the table has.
IntentSignals ==
  [architecture |-> <<"planning", 2>>, plano |-> <<"planning", 1>>,
   implement |-> <<"coding", 2>>, code |-> <<"coding", 1>>,
   codereview |-> <<"review", 3>>, pullrequest |-> <<"review", 2>>, review |-> <<"review", 1>>,
   unittest |-> <<"testing", 2>>, coverage |-> <<"testing", 1>>,
   stacktrace |-> <<"debug", 3>>, exception |-> <<"debug", 2>>, bug |-> <<"debug", 1>>,
   vulnerability |-> <<"security", 3>>, security |-> <<"security", 2>>,
   documentation |-> <<"documentation", 2>>, comentario |-> <<"documentation", 1>>,
   optimize |-> <<"performance", 2>>, latency |-> <<"performance", 1>>]

Weight(words, intent) ==
  LET hits == {w \in words \cap DOMAIN IntentSignals : IntentSignals[w][1] = intent}
  IN  FoldSet(LAMBDA w, sum : sum + IntentSignals[w][2], 0, hits)

\* The intent of the greatest weight, the earlier in intentPriority on a tie.
DetectIntent(words) ==
  LET w == [n \in DOMAIN Intents |-> Weight(words, Intents[n])]
      found == {n \in DOMAIN Intents : w[n] > 0}
  IN  IF found = {} THEN Unknown
      ELSE Intents[CHOOSE n \in found : \A k \in found : w[n] > w[k] \/ (w[n] = w[k] /\ n <= k)]

\* ClassifyIntentModel answers a probability of -1 where it fails.
DetectIntentSmart(prompt) ==
  LET student == prompt[1].student
  IN  IF student[2] >= Threshold /\ ParseIntent(student[1]) # Unknown THEN student[1]
      ELSE DetectIntent(WordsOf(prompt))

routingTask(request) ==
  FirstKnown(<<routingTaskOverride(request), DetectIntentSmart(ExtractUserPrompt(request))>>)
-----------------------------------------------------------------------------
\* Variant: on a tie the language that is seen first stays.
KeepsFirst(best, l, n) == n > best.count

Alphabetical(l) == CHOOSE n \in DOMAIN Alphabet : Alphabet[n] = l

\* The test of topLanguage's loop.
Replaces(best, l, n) ==
  \/ n > best.count
  \/ n = best.count /\ (best.language = Unknown \/ Alphabetical(l) < Alphabetical(best.language))

Taken(counts, best, l) ==
  IF Replaces(best, l, counts[l]) THEN [language |-> l, count |-> counts[l]] ELSE best

TopLanguage(counts, order) ==
  FoldLeft(LAMBDA best, l : Taken(counts, best, l), [language |-> Unknown, count |-> 0], order).language

\* topLanguage ranges over a map: one outcome for each order of its keys.
TopLanguages(counts) == {TopLanguage(counts, order) : order \in SetToSeqs(DOMAIN counts)}

\* The text the context is taken from: the prompt where the body is blank.
Context(request) ==
  IF request.body.id # "" THEN request.body ELSE ExtractUserPrompt(request)[1]

LanguageCounts(text) ==
  [l \in {f.language : f \in text.files} \ {Unknown} |->
     Cardinality({f \in text.files : f.language = l})]

\* detectLanguage: of the files, or else of the keywords.
Languages(text) ==
  {IF l = Unknown THEN text.code ELSE l : l \in TopLanguages(LanguageCounts(text))}

\* DetectPromptTemplate: a bounded answer first, then a short bare directive.
maxContinuationRunes == 24
PromptBoundsOutput(prompt) == \E n \in DOMAIN prompt : prompt[n].bounded
IsContinuationPrompt(prompt) ==
  /\ LengthOf(prompt) - prompt[1].wrapped \in 1 .. maxContinuationRunes
  /\ \E n \in DOMAIN prompt : prompt[n].directive
DetectPromptTemplate(prompt) ==
  IF PromptBoundsOutput(prompt) THEN "bounded_output"
  ELSE IF IsContinuationPrompt(prompt) THEN "continuation" ELSE ""
-----------------------------------------------------------------------------
\* buildRouteFacts
RouteFacts(request, language) ==
  LET prompt == ExtractUserPrompt(request)
      text == Context(request)
  IN  [task |-> routingTask(request),
       language |-> language,
       score |-> Score(ComplexityInput(LengthOf(prompt), text.length,
                                       Cardinality(text.files), text.diff)),
       files |-> Cardinality(text.files),
       diff |-> text.diff > 0,
       stream |-> request.stream,
       template |-> DetectPromptTemplate(prompt),
       bounds |-> PromptBoundsOutput(prompt)]

TierName == <<"low", "medium", "high", "very_high">>

\* The table of conditions: a condition is what it looks at and its argument.
Satisfies(fact, cond) ==
  CASE cond[1] = "task" -> cond[2] = fact.task
    [] cond[1] = "language" -> cond[2] = fact.language
    [] cond[1] = "complexity" -> cond[2] = TierName[tierForScore(fact.score) + 1]
    [] cond[1] = "complexity_min" -> fact.score >= cond[2]
    [] cond[1] = "complexity_max" -> fact.score <= cond[2]
    [] cond[1] = "min_files" -> fact.files >= cond[2]
    [] cond[1] = "has_diff" -> cond[2] = fact.diff
    [] cond[1] = "stream" -> cond[2] = fact.stream
    [] cond[1] = "prompt_template" -> cond[2] = fact.template
    [] cond[1] = "max_output_hint" -> cond[2] = fact.bounds

Ids(prompt) == [n \in DOMAIN prompt |-> prompt[n].id]

\* The byte that joins the parts of a key.  A text that holds it is a text of
\* the prompt of its own here.
NUL == "NUL"

\* Variant: a task the client declares is no part of the key.
KeyWithoutTask(request) == <<request.name, NUL>> \o Ids(ExtractUserPrompt(request))

\* What routeCacheKey hashes: the virtual model, the prompt and the declared
\* task, if any.  The hash itself is taken to tell any two apart.
routeCacheKey(request) ==
  LET override == routingTaskOverride(request)
  IN  <<request.name, NUL>> \o Ids(ExtractUserPrompt(request))
        \o (IF override = Unknown THEN <<>> ELSE <<NUL, override>>)
=============================================================================
