------------------------------- MODULE Verdict -------------------------------
(***************************************************************************)
(* How the answer of a classifier becomes a model (cmd/plugin/main.go,     *)
(* classifierContentSources to parseClassifierVerdict).  A text is a       *)
(* sequence of tokens:                                                     *)
(*   "open"    the opening brace of an object, and "close" its closing     *)
(*             brace, wherever they stand;                                 *)
(*   "quote"   opens a string member of an object, and closes it;          *)
(*   "escape"  a backslash;                                                *)
(*   "prose"   text that is no JSON;                                       *)
(*   anything else is a member "selected_model" with that value.           *)
(* Commas and the names of other members are left out.  A reply of the     *)
(* classifier is [fields, raw]: the texts of content, reasoning_content    *)
(* and reasoning, and the text of the whole body.                          *)
(***************************************************************************)
EXTENDS Selection

Punctuation == {"open", "close", "quote", "escape", "prose"}

\* classifierContentSources: the fields that hold text, or else the body.
Sources(reply) ==
  LET held == {n \in DOMAIN reply.fields : reply.fields[n] # <<>>}
  IN  IF held # {} THEN [n \in held |-> reply.fields[n]] ELSE <<reply.raw>>

Outside == [depth |-> 0, quoted |-> FALSE, escaped |-> FALSE]

\* What a token does to the scan.
Advance(before, token) ==
  CASE before.escaped -> [before EXCEPT !.escaped = FALSE]
    [] before.quoted /\ token = "escape" -> [before EXCEPT !.escaped = TRUE]
    [] token = "quote" -> [before EXCEPT !.quoted = ~@]
    [] ~before.quoted /\ token = "open" -> [before EXCEPT !.depth = @ + 1]
    [] ~before.quoted /\ token = "close" -> [before EXCEPT !.depth = @ - 1]
    [] OTHER -> before

\* The scan of extractJSONObjects from "start", after each token.
Scan(text, start) ==
  LET scan[k \in start - 1 .. Len(text)] ==
        IF k < start THEN Outside ELSE Advance(scan[k - 1], text[k])
  IN  scan

\* Variant: only a brace that no earlier object encloses starts an object.
ObjectsOutermost(text) ==
  LET scan == Scan(text, 1)
  IN  {object \in (1 .. Len(text)) \X (1 .. Len(text)) :
         LET a == object[1]
             b == object[2]
         IN  /\ text[a] = "open" /\ scan[a].depth = 1 /\ ~scan[a].quoted
             /\ a <= b /\ scan[b].depth = 0
             /\ \A k \in a .. b - 1 : scan[k].depth > 0}

\* extractJSONObjects: every brace starts a scan of its own, up to its balance.
Objects(text) ==
  {object \in (1 .. Len(text)) \X (1 .. Len(text)) :
     LET a == object[1]
         b == object[2]
         scan == Scan(text, a)
     IN  /\ text[a] = "open" /\ a <= b
         /\ scan[b].depth = 0 /\ \A k \in a .. b - 1 : scan[k].depth > 0}

\* The model a balanced object <<a, b>> names, "" if it does not parse or names none.
Selected(text, object) ==
  LET scan == Scan(text, object[1])
      bare == {k \in object[1] .. object[2] : ~scan[k].quoted /\ text[k] # "quote"}
      named == {k \in bare : scan[k].depth = 1 /\ text[k] \notin Punctuation}
  IN  IF named = {} \/ (\E k \in bare : text[k] \in {"prose", "escape"}) THEN ""
      ELSE text[CHOOSE k \in named : \A n \in named : n <= k]

\* What the objects of a reply name: <<source, position, model>>.
Verdicts(reply) ==
  UNION {{<<s, object[1], Selected(Sources(reply)[s], object)>> :
            object \in Objects(Sources(reply)[s])} : s \in DOMAIN Sources(reply)}

\* Variant: the provider of the named model is not looked at.
AcceptedAnywhere(reply, models, offer) == {v \in Verdicts(reply) : Configured(models, v[3]) # {}}

\* Those that name a configured model whose provider is available.
Accepted(reply, models, offer) ==
  {v \in Verdicts(reply) :
     /\ Configured(models, v[3]) # {}
     /\ ProviderAvailable(models[LastConfigured(models, v[3])].provider, offer)}

\* parseClassifierVerdict: the first of them, by source and by position, as an
\* index into the configured models; 0 if there is none.
ParseVerdict(reply, models, offer) ==
  LET accepted == Accepted(reply, models, offer)
      first == CHOOSE v \in accepted :
                 \A w \in accepted : v[1] < w[1] \/ (v[1] = w[1] /\ v[2] <= w[2])
  IN  IF accepted = {} THEN 0 ELSE LastConfigured(models, first[3])
=============================================================================
