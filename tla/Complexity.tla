----------------------------- MODULE Complexity -----------------------------
(***************************************************************************)
(* The complexity of a request (internal/domain/complexity.go) from the    *)
(* sizes of its prompt and context:                                        *)
(*   sizes   [context, tokens, files, diff, prompt, turns, dirs, tools].   *)
(* The code adds weight * min(value / saturateAt, 1) in floating point;    *)
(* here the sum is exact, in units of 1 / Unit of a point.                 *)
(***************************************************************************)
EXTENDS Integers

Factor == {"context", "tokens", "files", "diff", "prompt", "turns", "dirs", "tools"}
Sizes == [Factor -> Int]

saturateAt ==
  [context |-> 16000, tokens |-> 6000, files |-> 12, diff |-> 4000,
   prompt |-> 1200, turns |-> 20, dirs |-> 8, tools |-> 10]
weight ==
  [context |-> 20, tokens |-> 18, files |-> 15, diff |-> 12,
   prompt |-> 10, turns |-> 10, dirs |-> 8, tools |-> 7]

\* A multiple of every saturateAt.
Unit == 48000

\* saturatingRatio, times the weight: what a factor adds.
Share(f, value) ==
  IF value <= 0 THEN 0
  ELSE IF value >= saturateAt[f] THEN weight[f] * Unit
  ELSE weight[f] * (Unit \div saturateAt[f]) * value

Total(sizes) ==
  Share("context", sizes["context"]) + Share("tokens", sizes["tokens"])
  + Share("files", sizes["files"]) + Share("diff", sizes["diff"])
  + Share("prompt", sizes["prompt"]) + Share("turns", sizes["turns"])
  + Share("dirs", sizes["dirs"]) + Share("tools", sizes["tools"])

\* AssessComplexity, rounded to the nearest point.
Score(sizes) == (2 * Total(sizes) + Unit) \div (2 * Unit)

tierForScore(score) ==
  IF score >= 75 THEN 3 ELSE IF score >= 50 THEN 2 ELSE IF score >= 25 THEN 1 ELSE 0

estimateTokens(chars) == IF chars <= 0 THEN 0 ELSE chars \div 4

\* ComplexityInputFromSignals as buildRouteFacts calls it: no token count, no
\* file list, no conversation turns and no tools are given to it.
ComplexityInput(prompt, context, files, diff) ==
  [context |-> context, tokens |-> estimateTokens(context), files |-> files,
   diff |-> diff, prompt |-> prompt, turns |-> 0, dirs |-> 0, tools |-> 0]
=============================================================================
