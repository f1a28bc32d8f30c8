----------------------------- MODULE MCAffinity -----------------------------
(***************************************************************************)
(* A small instance of Affinity: calls of one session, two at a time.      *)
(***************************************************************************)
EXTENDS MCRouter, Affinity

\* Bound: every save fails.  Between two reconfigurations the state file is read
\* once, before any call.
SavesFail == file \in InitFiles
=============================================================================
