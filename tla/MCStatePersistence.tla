------------------------- MODULE MCStatePersistence -------------------------
(***************************************************************************)
(* Small instances of StatePersistence.  Calls are alike, and so are keys. *)
(***************************************************************************)
EXTENDS StatePersistence, TLC

Symmetry == Permutations(Threads) \cup Permutations(Keys)
=============================================================================
