----------------------------- MODULE LossyStore -----------------------------
(***************************************************************************)
(* What a caller may rely on in one map of the runtime state: reading a    *)
(* key yields what was last written under that very key, or nothing.  The  *)
(* store may forget any key at any time.  A save collects what the keys    *)
(* hold, each key at a time of its own, and a reload puts that back.  How  *)
(* much the store holds and which key it forgets is not said here.         *)
(***************************************************************************)
CONSTANTS Keys, Values, Nothing

VARIABLES live, draft, saved

Contents == [Keys -> Values \cup {Nothing}]
Empty == [k \in Keys |-> Nothing]

Init == live = Empty /\ draft = Empty /\ saved \in Contents

\* The other keys may be forgotten.
Write(k, v) ==
  /\ live' \in Contents
  /\ live'[k] = v
  /\ \A j \in Keys \ {k} : live'[j] \in {live[j], Nothing}
  /\ UNCHANGED <<draft, saved>>

Forget ==
  /\ live' \in Contents
  /\ \A j \in Keys : live'[j] \in {live[j], Nothing}
  /\ UNCHANGED <<draft, saved>>

Collect ==
  /\ draft' \in Contents
  /\ \A j \in Keys : draft'[j] \in {draft[j], live[j]}
  /\ UNCHANGED <<live, saved>>

\* A save that fails leaves what was saved before.
Save ==
  /\ saved' \in {saved, draft}
  /\ draft' = Empty
  /\ UNCHANGED live

Restore == live' = saved /\ UNCHANGED <<draft, saved>>

Next == (\E k \in Keys, v \in Values : Write(k, v)) \/ Forget \/ Collect \/ Save \/ Restore

Spec == Init /\ [][Next]_<<live, draft, saved>>
=============================================================================
