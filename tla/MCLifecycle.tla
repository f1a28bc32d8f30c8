---------------------------- MODULE MCLifecycle ----------------------------
(***************************************************************************)
(* An instance of Lifecycle: configurations with and without entries, with *)
(* fallback nowhere or in an entry only, with repeated, blank and suffixed *)
(* names.                                                                  *)
(***************************************************************************)
EXTENDS Lifecycle

Plain(base) == [DefaultBlock EXCEPT !.name = PlainName(base)]
WithFallback(b) == [b EXCEPT !.executor_fallback.enabled = TRUE]
Spelled(base, suffixes, padded) == [base |-> base, suffixes |-> suffixes, padded |-> padded]

\* An interval of 0 is one that does not parse.
Config(top, entries, catalog, interval, pricing) ==
  [top |-> top, entries |-> entries,
   catalog |-> [base_url |-> catalog, refresh_interval |-> interval, include_router_model |-> FALSE],
   pricing |-> [enabled |-> pricing, refresh_interval |-> 1]]

MCFallback == [catalog |-> 1, pricing |-> 2]

MCConfigs ==
  [default |-> Config(DefaultBlock, <<>>, FALSE, 0, FALSE),
   \* only the legacy name, padded
   legacy |->
     Config([DefaultBlock EXCEPT !.name = Spelled("a", <<>>, TRUE), !.strategy = "", !.preference = "odd"],
            <<>>, TRUE, 2, TRUE),
   \* fallback in the second entry only; one name is there twice, one is missing
   entries |->
     Config(Plain(""), <<[Plain("a") EXCEPT !.name.padded = TRUE, !.cache.max_entries = 0],
                         WithFallback(Plain("b")), WithFallback(Plain("a")), Plain(""),
                         [Plain("c") EXCEPT !.name.suffixes = <<"high">>]>>, TRUE, 0, FALSE)]

MCRequested == {PlainName("a"), Spelled("b", <<"high">>, TRUE), Spelled("", <<"high">>, FALSE)}
MCTexts == STRING
MCUpstream == {PlainName("m")}
=============================================================================
