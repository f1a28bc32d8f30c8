-------------------------- MODULE StatePersistence --------------------------
(***************************************************************************)
(* Saving and loading the runtime state                                    *)
(* (internal/infrastructure/runtime_state.go) step by step, for several    *)
(* calls at once, with failing writes and crashes.  SaveToFile copies the  *)
(* state under the lock, but the copy shares its maps with the original:   *)
(* they are marshalled while other calls write them.                       *)
(*                                                                         *)
(* One map stands for all.  A write of it is two steps: the lock is held   *)
(* through both, but the marshalling does not ask for it.  What the race   *)
(* does is up to the Go runtime: it may notice and end the process, or let *)
(* the reader have the old entry, the new one or some of each.             *)
(***************************************************************************)
EXTENDS Naturals, FiniteSets

CONSTANTS
  Threads,   \* calls of the host in progress
  Keys,
  Values,
  Nothing,   \* no entry under a key
  Torn,      \* an entry with fields of two
  Interval,  \* the throttle of SaveThrottled
  MaxTime,   \* bound on the clock
  MaxStarts  \* bound on restarts

ASSUME PersistenceAssumption ==
  /\ IsFiniteSet(Keys) /\ Nothing \notin Keys
  /\ Nothing \notin Values /\ Torn \notin Values /\ Nothing # Torn
  /\ Interval \in Nat /\ MaxTime \in Nat /\ MaxStarts \in Nat

VARIABLES
  process,      \* "running", "crashed", or "fatal": ended by the Go runtime
  mem,          \* the map in use
  pc,
  pending,      \* the entry each thread is writing
  seen, doc,    \* the keys it has marshalled, and what it found there
  got,          \* the file as it has read it
  file,
  lastDiskSave, \* 0 until the first throttled save
  now,
  starts,
  letThrough,   \* history: when SaveThrottled last went on to save
  alone,        \* history: nothing has come in between since a thread's snapshot
  lastWrite,    \* history: how the last write of the file ended
  kept          \* history: what was in memory when such a save was written

vars == <<process, mem, pc, pending, seen, doc, got, file, lastDiskSave, now, starts,
          letThrough, alone, lastWrite, kept>>
disk == <<file, lastWrite, kept>>
throttle == <<lastDiskSave, letThrough>>
own == <<pending, seen, doc, got>>

Empty == [k \in Keys |-> Nothing]
Docs == [Keys -> Values \cup {Nothing, Torn}]
NoDoc == [k \in {} |-> Nothing]
NoEntry == [key |-> Nothing, value |-> Nothing]

(***************************************************************************)
(* A file has a length, and parses or not.  Length 0 is a file that is     *)
(* absent or has just been truncated; an entry counts for 1.  A mixture of *)
(* two documents is taken not to parse.                                    *)
(***************************************************************************)
Length(d) == 1 + Cardinality({k \in Keys : d[k] # Nothing})
Truncated == [length |-> 0, parses |-> FALSE, doc |-> Empty]
Whole(d) == [length |-> Length(d), parses |-> TRUE, doc |-> d]
Broken(n) == [length |-> n, parses |-> FALSE, doc |-> Empty]

\* Variant: what follows the document is ignored when the file is parsed.
OverLenient(f, d) ==
  IF f.length <= Length(d) THEN Whole(d) ELSE [Whole(d) EXCEPT !.length = f.length]

\* Written from the start of the file: the end of a longer one stays behind it.
Over(f, d) == IF f.length <= Length(d) THEN Whole(d) ELSE Broken(f.length)

\* What a write that fails may leave.
Cut(f, d) == {f} \cup {Broken(n) : n \in f.length .. Length(d) - 1}

\* The lock is held to write the map, and from the test of the throttle to the
\* note of the time.
Holds(t) == pc[t] \in {"set", "throttle"}
Unlocked == \A t \in Threads : ~Holds(t)
Unwritten == \A t \in Threads : pc[t] # "set"
Writing(t) == pc[t] = "write"

At(t, label) == process = "running" /\ pc[t] = label
Goto(t, label) == pc' = [pc EXCEPT ![t] = label]

\* History: t does what disturbs the saves of the others.
Disturb(t) == alone' = [u \in Threads |-> alone[u] /\ u = t]
----------------------------------------------------------------------------
Init ==
  /\ process = "running"
  /\ mem = Empty
  /\ pc = [t \in Threads |-> "idle"]
  /\ pending = [t \in Threads |-> NoEntry]
  /\ seen = [t \in Threads |-> {}]
  /\ doc = [t \in Threads |-> Empty]
  /\ got = [t \in Threads |-> Truncated]
  /\ file = Truncated
  /\ lastDiskSave = 0
  /\ now = 1
  /\ starts = 0
  /\ letThrough = 0
  /\ alone = [t \in Threads |-> FALSE]
  /\ lastWrite = "none"
  /\ kept = NoDoc

(************************** a write under the lock ************************)
BeginSet(t) ==
  /\ At(t, "idle")
  /\ Unlocked
  /\ \E k \in Keys, v \in Values \cup {Nothing} :
       pending' = [pending EXCEPT ![t] = [key |-> k, value |-> v]]
  /\ Goto(t, "set")
  /\ Disturb(t)
  /\ UNCHANGED <<process, mem, seen, doc, got, disk, throttle, now, starts>>

EndSet(t) ==
  /\ At(t, "set")
  /\ mem' = [mem EXCEPT ![pending[t].key] = pending[t].value]
  /\ pending' = [pending EXCEPT ![t] = NoEntry]
  /\ Goto(t, "idle")
  /\ UNCHANGED <<process, seen, doc, got, disk, throttle, now, starts, alone>>

(************************** saving ****************************************)
ThrottleOpen == lastDiskSave = 0 \/ now >= lastDiskSave + Interval

\* Variant: the lock is taken to note the time only.
ThrottleUnlocked(t) ==
  /\ At(t, "idle")
  /\ ThrottleOpen
  /\ Goto(t, "throttle")
  /\ UNCHANGED <<process, mem, own, disk, throttle, now, starts, alone>>

\* SaveThrottled takes the lock and tests, ...
Throttle(t) ==
  /\ At(t, "idle")
  /\ Unlocked
  /\ ThrottleOpen
  /\ Goto(t, "throttle")
  /\ UNCHANGED <<process, mem, own, disk, throttle, now, starts, alone>>

\* ... notes the time, lets go of the lock and goes on to SaveToFile.
LetThrough(t) ==
  /\ At(t, "throttle")
  /\ lastDiskSave' = now
  /\ letThrough' = now
  /\ Goto(t, "save")
  /\ UNCHANGED <<process, mem, own, disk, now, starts, alone>>

\* usage.handle saves without asking the throttle.
HandleUsage(t) ==
  /\ At(t, "idle")
  /\ Goto(t, "save")
  /\ UNCHANGED <<process, mem, own, disk, throttle, now, starts, alone>>

Snapshot(t) ==
  /\ At(t, "save")
  /\ Unlocked
  /\ Goto(t, "marshal")
  /\ alone' = [alone EXCEPT ![t] = \A u \in Threads : ~Writing(u)]
  /\ UNCHANGED <<process, mem, own, disk, throttle, now, starts>>

\* What may be found under k while another thread may be writing it.
Observed(k) ==
  {mem[k]} \cup UNION {{pending[u].value, Torn} : u \in {w \in Threads : pending[w].key = k}}

Marshal(t) ==
  /\ At(t, "marshal")
  /\ \E k \in Keys \ seen[t] :
       /\ seen' = [seen EXCEPT ![t] = @ \cup {k}]
       /\ \E v \in Observed(k) : doc' = [doc EXCEPT ![t][k] = v]
  /\ UNCHANGED <<process, mem, pc, pending, got, disk, throttle, now, starts, alone>>

\* "concurrent map iteration and map write" cannot be recovered from.
FatalRace(t) ==
  /\ At(t, "marshal")
  /\ seen[t] # Keys
  /\ ~Unwritten
  /\ process' = "fatal"
  /\ UNCHANGED <<mem, pc, own, disk, throttle, now, starts, alone>>

Marshalled(t) == At(t, "marshal") /\ seen[t] = Keys

\* Variant: the file is opened without truncating it.
OpenOver(t) ==
  /\ Marshalled(t)
  /\ seen' = [seen EXCEPT ![t] = {}]
  /\ Goto(t, "write")
  /\ Disturb(t)
  /\ UNCHANGED <<process, mem, pending, doc, got, disk, throttle, now, starts>>

\* os.WriteFile opens and truncates, ...
Open(t) ==
  /\ Marshalled(t)
  /\ file' = Truncated
  /\ kept' = NoDoc
  /\ seen' = [seen EXCEPT ![t] = {}]
  /\ Goto(t, "write")
  /\ Disturb(t)
  /\ UNCHANGED <<process, mem, pending, doc, got, lastWrite, throttle, now, starts>>

\* ... then writes; either may fail, and the callers ignore the error.
Write(t) ==
  /\ At(t, "write")
  /\ file' = Over(file, doc[t])
  /\ lastWrite' = "ok"
  /\ kept' = IF alone[t] THEN mem ELSE NoDoc
  /\ doc' = [doc EXCEPT ![t] = Empty]
  /\ Goto(t, "idle")
  /\ Disturb(t)
  /\ UNCHANGED <<process, mem, pending, seen, got, throttle, now, starts>>

SaveFails(t) ==
  /\ \/ Marshalled(t) /\ UNCHANGED disk
     \/ /\ At(t, "write")
        /\ file' \in Cut(file, doc[t])
        /\ lastWrite' = "failed"
        /\ kept' = NoDoc
  /\ seen' = [seen EXCEPT ![t] = {}]
  /\ doc' = [doc EXCEPT ![t] = Empty]
  /\ Goto(t, "idle")
  /\ Disturb(t)
  /\ UNCHANGED <<process, mem, pending, got, throttle, now, starts>>

(***************************************************************************)
(* LoadFromFile of a reconfiguration.  The state gets new maps: a          *)
(* marshalling under way goes on reading the old ones, which nobody writes *)
(* any more, and so has in effect read them to the end.                    *)
(***************************************************************************)
ReadFile(t) ==
  /\ At(t, "idle")
  /\ got' = [got EXCEPT ![t] = file]
  /\ Goto(t, "load")
  /\ UNCHANGED <<process, mem, pending, seen, doc, disk, throttle, now, starts, alone>>

Replace(t) ==
  /\ At(t, "load")
  /\ \/ /\ got[t].parses
        /\ Unlocked
        /\ mem' = got[t].doc
        /\ LET reading == {u \in Threads : pc[u] = "marshal"}
           IN  /\ seen' = [u \in Threads |-> IF u \in reading THEN Keys ELSE seen[u]]
               /\ doc' = [u \in Threads |->
                            IF u \in reading
                            THEN [k \in Keys |-> IF k \in seen[u] THEN doc[u][k] ELSE mem[k]]
                            ELSE doc[u]]
        /\ Disturb(t)
     \/ /\ ~got[t].parses
        /\ UNCHANGED <<mem, seen, doc, alone>>
  /\ got' = [got EXCEPT ![t] = Truncated]
  /\ Goto(t, "idle")
  /\ UNCHANGED <<process, pending, disk, throttle, now, starts>>

(************************** crash and restart *****************************)
Crash ==
  /\ process = "running"
  /\ process' = "crashed"
  /\ UNCHANGED <<mem, pc, own, disk, throttle, now, starts, alone>>

\* plugin.register loads before any call comes in.
Restart ==
  /\ process # "running"
  /\ starts < MaxStarts
  /\ starts' = starts + 1
  /\ process' = "running"
  /\ mem' = IF file.parses THEN file.doc ELSE Empty
  /\ pc' = [t \in Threads |-> "idle"]
  /\ pending' = [t \in Threads |-> NoEntry]
  /\ seen' = [t \in Threads |-> {}]
  /\ doc' = [t \in Threads |-> Empty]
  /\ got' = [t \in Threads |-> Truncated]
  /\ alone' = [t \in Threads |-> FALSE]
  /\ lastDiskSave' = 0 /\ letThrough' = 0
  /\ lastWrite' = "none"
  /\ UNCHANGED <<file, now, kept>>

Tick ==
  /\ now < MaxTime
  /\ now' = now + 1
  /\ UNCHANGED <<process, mem, pc, own, disk, throttle, starts, alone>>

Step(t) ==
  \/ BeginSet(t) \/ EndSet(t)
  \/ Throttle(t) \/ LetThrough(t) \/ HandleUsage(t) \/ Snapshot(t) \/ Marshal(t) \/ FatalRace(t)
  \/ Open(t) \/ Write(t) \/ SaveFails(t)
  \/ ReadFile(t) \/ Replace(t)

Next == (\E t \in Threads : Step(t)) \/ Crash \/ Restart \/ Tick

Spec == Init /\ [][Next]_vars
----------------------------------------------------------------------------
Labels == {"idle", "set", "throttle", "save", "marshal", "write", "load"}
Files == {Whole(d) : d \in Docs} \cup {Broken(n) : n \in 0 .. Cardinality(Keys) + 1}

TypeOK ==
  /\ process \in {"running", "crashed", "fatal"}
  /\ mem \in Docs
  /\ pc \in [Threads -> Labels]
  /\ pending \in [Threads -> {NoEntry} \cup [key : Keys, value : Values \cup {Nothing}]]
  /\ seen \in [Threads -> SUBSET Keys]
  /\ doc \in [Threads -> Docs]
  /\ got \in [Threads -> Files]
  /\ file \in Files
  /\ lastDiskSave \in Nat /\ letThrough \in Nat /\ now \in Nat /\ starts \in Nat
  /\ alone \in [Threads -> BOOLEAN]
  /\ lastWrite \in {"none", "ok", "failed"}
  /\ kept \in Docs \cup {NoDoc}

\* When nothing came in between a save and its snapshot (no write, no reload, no
\* other save of the file) and no save has opened the file since, a restart finds
\* what was in memory then (SaveToFile, LoadFromFile).
QuietSaveSurvives == [][Restart /\ kept # NoDoc => mem' = kept]_vars

\* Of the saves routing asks for, no two are let through less than an interval
\* apart, however many calls ask at once and whatever comes between the test of
\* one and its note of the time (SaveThrottled: "at most once per interval").
ThrottleHolds ==
  [][\A t \in Threads :
       LetThrough(t) => letThrough = 0 \/ now >= letThrough + Interval]_vars

\* What the code does not keep; runs expect each to fail.

\* docs/business-rules.md: "Failures in classifier, catalog, pricing, cache
\* lookup, or state persistence must not prevent deterministic routing".
NeverFatal == process # "fatal"

\* docs/configuration.md: the cache is "persisted in state_path when configured".
\* When no save is under way and the last one succeeded, the file parses.
SavedFileParses ==
  process = "running" /\ (\A t \in Threads : ~Writing(t)) /\ lastWrite = "ok" => file.parses
=============================================================================
