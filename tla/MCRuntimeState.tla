--------------------------- MODULE MCRuntimeState ---------------------------
(***************************************************************************)
(* A small instance of RuntimeState and CacheHistory.  The maps share      *)
(* nothing but the state file, so a behaviour exercises one of them        *)
(* ("focus"), either as time passes and the file is reloaded, or as it is  *)
(* saved; under the focus "history" that is the route cache with its       *)
(* history.                                                                *)
(***************************************************************************)
EXTENDS CacheHistory, TLC

CONSTANTS t1, t2

VARIABLE focus

mcVars == <<historyVars, focus>>

\* Files of older versions and of larger limits: one pin without a virtual model,
\* more pins than there is room for, a cache larger than any limit.
Filled(K) == [k \in K |-> [target |-> t1, created |-> 1, used |-> 1]]
LegacyFile == Holding([NoFile.data EXCEPT !.sessions = Filled({BareKey(s) : s \in SessionIds})])
PinnedFile == Holding([NoFile.data EXCEPT !.sessions = Filled(VirtualModels \X SessionIds)])
CachedFile == Holding([NoFile.data EXCEPT !.routeCache = Filled(CacheKeys)])

MCInitFiles == {NoFile, LegacyFile, PinnedFile, CachedFile}

\* One virtual model is as good as another.
AnyModel == Permutations(VirtualModels)

\* The order of eviction needs more clock readings than anything else; a save is
\* interleaved with writes that are all made at one time.
Until(f) == CASE f = "history" -> 4
              [] f \in {"savedPins", "savedCache"} -> 1
              [] OTHER -> 2

MCInit ==
  /\ HistoryInit
  /\ focus \in {"pins", "cache", "chains", "records", "history", "savedPins", "savedCache"}
  /\ file \in {NoFile} \cup
       CASE focus = "pins" -> {LegacyFile, PinnedFile}
         [] focus = "cache" -> {CachedFile}
         [] focus = "savedPins" -> {LegacyFile}
         [] OTHER -> {}

Reload == LoadFromFile /\ UNCHANGED <<fallbackChains, file, lastDiskSave, now>>

MCNext ==
  \/ /\ \/ focus = "pins" /\ (SessionOp \/ Reload)
        \/ focus = "cache" /\ (CacheOp \/ Reload)
        \/ focus = "chains" /\ ChainOp
        \/ focus = "records" /\ (RecordOp \/ FileOp)
        \/ focus = "savedPins" /\ (SessionOp \/ FileOp)
        \/ focus = "savedCache" /\ (CacheOp \/ FileOp)
        \/ now < Until(focus) /\ TickOp
     /\ UNCHANGED <<focus, history>>
  \/ /\ focus = "history" /\ HistoryOp
     /\ UNCHANGED focus

MCSpec == MCInit /\ [][MCNext]_mcVars
=============================================================================
