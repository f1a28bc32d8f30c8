---------------------------- MODULE MCStrategies ----------------------------
(***************************************************************************)
(* Instances of Strategies: families of calls for the decision engine, for *)
(* the local choice and for the classifiers.                               *)
(***************************************************************************)
EXTENDS Strategies

C(p, m) == [provider |-> p, model |-> m]
R(p, m, when) == [provider |-> p, model |-> m, when |-> when]

EngineCandidates == {C("acme", "m"), C("bolt", "m"), C("bolt", "n"), C("", "n")}
MCCandidates == EngineCandidates \cup {C("acme", "n"), C("acme", "o")}
MCAvailSets == SUBSET {"acme", "bolt"}
MCAlphabet == <<"go", "python">>

Task == <<"task", "debug">>
Diff == <<"has_diff", TRUE>>
EngineRules ==
  {R("bolt", "m", {Task}), R("", "m", {}), R("", "m", {Diff}),
   R("", "n", {Task, Diff}), R("bolt", "n", {Diff}), R("bolt", "", {Task})}

\* One rule or two on every kind of condition.
OtherConditions ==
  {<<"language", "go">>, <<"complexity", "high">>, <<"complexity_min", 25>>,
   <<"complexity_max", 24>>, <<"min_files", 2>>, <<"stream", FALSE>>,
   <<"prompt_template", "continuation">>, <<"max_output_hint", TRUE>>}
MCConditions == {Task, Diff} \cup OtherConditions
OtherRules == {R("acme", "m", {c}) : c \in OtherConditions} \cup {R("", "n", {Task, c}) : c \in OtherConditions}
MCRules == EngineRules \cup OtherRules
-----------------------------------------------------------------------------
Text(id, words, length) ==
  [id |-> id, words |-> words, marks |-> <<>>, student |-> <<"", -1>>, length |-> length,
   bounded |-> FALSE, wrapped |-> 0, directive |-> FALSE, files |-> {}, code |-> "", diff |-> 0]
Blank == Text("", {}, 0)
Body(id, length, files, diff) ==
  [Text(id, {}, length) EXCEPT !.files = files, !.diff = diff]
Said(text) == [role |-> "user", text |-> text]
Ask(text, body) ==
  [name |-> "auto", task |-> "", agent |-> "", stream |-> FALSE,
   messages |-> <<Said(text)>>, contents |-> <<>>, body |-> body]

Fix == Text("fix", {"bug"}, 40)
Hello == Text("hello", {}, 40)
Small == Body("small", 200, {}, 0)
GoFiles == {[name |-> "a", language |-> "go"], [name |-> "b", language |-> "python"], [name |-> "c", language |-> ""]}

\* With and without the task, with and without a diff.
EngineRequests == {Ask(t, b) : t \in {Fix, Hello}, b \in {Small, Body("patch", 200, GoFiles, 60)}}

Marked(id, marks) == [Text(id, {"code", "review", "codereview"}, 90) EXCEPT !.marks = marks]
OtherRequests ==
  {Ask([Fix EXCEPT !.id = "plan", !.student = <<"planning", 40>>], Body("large", 16000, GoFiles, 4000)),
   Ask([Text("tie", {"bug", "code"}, 1300) EXCEPT !.code = "go"], Body("huge", 30000, {}, 0)),
   Ask(Marked("agents", <<<<"agent", "nobody">>, <<"agent", "planner">>>>), Blank),
   Ask(Marked("both", <<<<"agent", "planner">>, <<"task", "debug">>>>), Small),
   Ask([Text("goon", {}, 30) EXCEPT !.wrapped = 20, !.directive = TRUE], Small),
   Ask([Text("brief", {"summarize"}, 30) EXCEPT !.bounded = TRUE, !.directive = TRUE], Small),
   [Ask(Fix, Small) EXCEPT !.task = "review", !.stream = TRUE],
   [Ask(Fix, Small) EXCEPT !.task = "none", !.agent = "implementer"],
   [Ask(Fix, Small) EXCEPT !.messages = <<Said(Hello), Said(Fix), Said(Blank), [role |-> "system", text |-> Hello]>>],
   [Ask(Fix, Small) EXCEPT !.messages = <<>>, !.contents = <<Hello, Fix>>],
   [Ask(Fix, Small) EXCEPT !.messages = <<Said(Blank)>>],
   [Ask(Fix, Small) EXCEPT !.contents = <<Text(NUL, {}, 1), Text("review", {"review"}, 6)>>]}
-----------------------------------------------------------------------------
Trait(caps, cost, quality) == [capabilities |-> caps, cost |-> cost, quality |-> quality]
Plain == Trait({}, "medium", "medium")
SomeTraits ==
  {Trait({}, "low", "low"), Trait({"coding"}, "high", "high"), Trait({}, "very_high", "highest"),
   Trait({"planning"}, "very_high", "medium"), Trait({"coding"}, "high", ""), Trait({}, "", "highest"),
   Trait({"summarize"}, "low", "highest")}

Prompts ==
  {Hello, Fix, Text("sum", {"summarize"}, 9), Text("arch", {"architecture", "bug"}, 20),
   Text("doc", {"documentation"}, 9), Text("long", {"(long)"}, 1300)}

Offers == {{}, {"acme"}, {"bolt"}, {"acme", "bolt"}, {"", "acme"}, {""}}

Words == {"open", "close", "quote", "escape", "prose", "m", "n"}
Reply(text) == [failed |-> FALSE, fields |-> <<text, <<>>, <<>>>>, raw |-> <<"prose">>]
Failure == [failed |-> TRUE, fields |-> <<>>, raw |-> <<>>]
Good(id) == <<"open", id, "close">>
Noise == {<<"open">>, <<"open", "n">>, <<"open", "quote">>, <<"prose", "quote">>, <<"open", "prose", "close">>,
          <<"open", "zzz", "close">>, <<"open", "open">>, <<"open", "quote", "escape", "quote", "close">>, <<"close">>}
Texts ==
  {t \in [1 .. 4 -> Words] : \E k \in 1 .. 4 : t[k] = "m"}
  \cup {a \o Good("m") : a \in Noise} \cup {a \o Good("n") \o b : a, b \in Noise}
  \cup {<<"open", "open", "m", "close", "n", "close">>, <<"open", "m", "n", "close">>, <<"open", "quote", "m", "quote", "n", "close">>}
Replies ==
  {Reply(t) : t \in Texts}
  \cup {[Reply(Good("zzz")) EXCEPT !.fields[2] = <<"prose">>, !.fields[3] = Good("m")],
        [Reply(<<>>) EXCEPT !.raw = Good("n")],
        [Reply(<<>>) EXCEPT !.fields[2] = Good("n") \o Good("m")]}
FewReplies == {Failure, Reply(<<"prose">>), Reply(Good("m")), Reply(Good("n")), Reply(Good("zzz"))}
-----------------------------------------------------------------------------
Family ==
  [enabled |-> {TRUE}, rules |-> {<<>>}, candidates |-> {<<C("acme", "m"), C("bolt", "n"), C("bolt", "m")>>},
   strategies |-> {"capability"}, preferences |-> {"balanced"}, traits |-> {<<Plain, Plain, Plain>>},
   requests |-> {Ask(Hello, Small)}, cached |-> {Ask(Hello, Small)}, offers |-> {{}}, classifiers |-> {<<>>},
   attempts |-> {0}, replies |-> {<<>>}]

MCCalls ==
  {[Family EXCEPT !.strategies = {"decision_engine"}, !.rules = ListsUpTo(EngineRules, MaxRules),
                  !.candidates = ListsUpTo(EngineCandidates, MaxCandidates),
                  !.requests = EngineRequests, !.offers = {{}, {"bolt"}}],
   [Family EXCEPT !.strategies = {"decision_engine"}, !.rules = ListsUpTo(OtherRules, 2),
                  !.requests = OtherRequests],
   [Family EXCEPT !.requests = EngineRequests \cup OtherRequests,
                  !.cached = EngineRequests \cup OtherRequests],
   [Family EXCEPT !.candidates = {<<C("acme", "m"), C("bolt", "n"), C("bolt", "m")>>,
                                  <<C("bolt", "n"), C("", "n"), C("acme", "m")>>},
                  !.preferences = {"cost", "quality"}, !.traits = [1 .. 3 -> SomeTraits],
                  !.requests = {Ask(t, Small) : t \in Prompts}, !.offers = Offers],
   [Family EXCEPT !.strategies = {"llm", "hybrid"}, !.preferences = {"cost", "quality"},
                  !.candidates = {<<C("acme", "m"), C("bolt", "n"), C("bolt", "m")>>,
                                  <<C("bolt", "m"), C("acme", "n"), C("acme", "o")>>},
                  !.traits = [1 .. 3 -> {Trait({"coding"}, "high", "high"), Trait({}, "high", "medium"),
                                         Trait({}, "low", "medium")}],
                  !.requests = {Ask(Hello, Small), Ask(Fix, Small)}, !.offers = {{}, {"bolt"}},
                  !.classifiers = {<<"a", "b">>}, !.attempts = {1, 3},
                  !.replies = FewReplies \X FewReplies],
   [Family EXCEPT !.enabled = {FALSE}, !.strategies = {"capability", "hybrid", "llm", "decision_engine"},
                  !.rules = ListsUpTo(EngineRules, 1), !.requests = EngineRequests,
                  !.classifiers = {<<"a">>}, !.replies = {<<r>> : r \in FewReplies}],
   [Family EXCEPT !.strategies = {"llm"}, !.classifiers = {<<"a">>},
                  !.offers = {{}, {"acme"}, {"bolt"}}, !.replies = {<<r>> : r \in Replies}]}
=============================================================================
