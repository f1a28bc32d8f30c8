----------------------- MODULE StatePersistenceProofs -----------------------
(***************************************************************************)
(* Type correctness, the throttle and the survival of an undisturbed save, *)
(* for every number of calls, every set of keys and values and any number  *)
(* of crashes and restarts.                                                *)
(***************************************************************************)
EXTENDS StatePersistence, FiniteSetTheorems, TLAPS

(***************************************************************************)
(* Entries are pending in a write under the lock only, and keys are seen   *)
(* while marshalling only.                                                 *)
(***************************************************************************)
OwnOK(t) ==
  /\ pc[t] # "set" => pending[t] = NoEntry
  /\ pc[t] # "marshal" => seen[t] = {}

\* What a save that nothing has disturbed has found so far is what is in memory,
\* nobody is writing that, and the file it has opened is empty.
QuietOK(t) ==
  alone[t] =>
    /\ pc[t] = "marshal" =>
         Unwritten /\ \A k \in seen[t] : doc[t][k] = mem[k]
    /\ pc[t] = "write" =>
         Unwritten /\ doc[t] = mem /\ file = Truncated

\* What such a save wrote is what the file holds.
KeptOK == kept # NoDoc => file.parses /\ file.doc = kept

\* One thread at a time holds the lock, and the throttle stays open between its
\* test and its note of the time.
LockOK ==
  /\ \A t, u \in Threads : Holds(t) /\ Holds(u) => t = u
  /\ \A t \in Threads : pc[t] = "throttle" => ThrottleOpen

PersistenceInv ==
  /\ TypeOK
  /\ LockOK
  /\ letThrough = lastDiskSave
  /\ \A t \in Threads : OwnOK(t) /\ QuietOK(t)
  /\ KeptOK
----------------------------------------------------------------------------
(***************************************************************************)
(* Documents and files.                                                    *)
(***************************************************************************)
LEMMA LengthType ==
  ASSUME NEW d
  PROVE  Length(d) \in 1 .. Cardinality(Keys) + 1
<1>. DEFINE held == {k \in Keys : d[k] # Nothing}
<1>1. IsFiniteSet(Keys)
  BY PersistenceAssumption
<1>2. held \in SUBSET Keys
  OBVIOUS
<1>3. IsFiniteSet(held) /\ Cardinality(held) <= Cardinality(Keys)
  BY <1>1, <1>2, FS_Subset
<1>4. Cardinality(held) \in Nat /\ Cardinality(Keys) \in Nat
  BY <1>1, <1>3, FS_CardinalityType
<1>. QED BY <1>3, <1>4 DEF Length

LEMMA EmptyType == Empty \in Docs
BY DEF Empty, Docs

LEMMA FileType ==
  ASSUME NEW f \in Files
  PROVE  /\ f.length \in 0 .. Cardinality(Keys) + 1
         /\ f.parses \in BOOLEAN
         /\ f.doc \in Docs
<1>0. Cardinality(Keys) \in Nat
  BY PersistenceAssumption, FS_CardinalityType
<1>1. CASE f \in {Whole(d) : d \in Docs}
  <2>1. PICK d \in Docs : f = Whole(d)
    BY <1>1
  <2>2. f.length = Length(d) /\ f.parses = TRUE /\ f.doc = d
    BY <2>1 DEF Whole
  <2>3. Length(d) \in 1 .. Cardinality(Keys) + 1
    BY LengthType
  <2>4. Length(d) \in 0 .. Cardinality(Keys) + 1
    BY <1>0, <2>3
  <2>. QED BY <2>2, <2>4
<1>2. CASE f \in {Broken(n) : n \in 0 .. Cardinality(Keys) + 1}
  <2>1. PICK n \in 0 .. Cardinality(Keys) + 1 : f = Broken(n)
    BY <1>2
  <2>2. f.length = n /\ f.parses = FALSE /\ f.doc = Empty
    BY <2>1 DEF Broken
  <2>. QED BY <2>2, EmptyType
<1>. QED BY <1>1, <1>2 DEF Files

LEMMA FilesHave ==
  /\ Truncated \in Files
  /\ \A d \in Docs : Whole(d) \in Files
  /\ \A n \in 0 .. Cardinality(Keys) + 1 : Broken(n) \in Files
<1>1. Cardinality(Keys) \in Nat
  BY PersistenceAssumption, FS_CardinalityType
<1>2. Truncated = Broken(0)
  BY DEF Truncated, Broken
<1>. QED BY <1>1, <1>2 DEF Files

\* A write that succeeds or fails leaves a file.
LEMMA WrittenType ==
  ASSUME NEW f \in Files, NEW d \in Docs
  PROVE  Over(f, d) \in Files /\ Cut(f, d) \subseteq Files
<1>1. f.length \in 0 .. Cardinality(Keys) + 1
  BY FileType
<1>2. Length(d) \in 1 .. Cardinality(Keys) + 1 /\ Cardinality(Keys) \in Nat
  BY LengthType, PersistenceAssumption, FS_CardinalityType
<1>3. Over(f, d) \in Files
  BY <1>1, FilesHave DEF Over
<1>4. \A n \in f.length .. Length(d) - 1 : Broken(n) \in Files
  BY <1>1, <1>2, FilesHave
<1>. QED BY <1>3, <1>4 DEF Cut

\* What a marshalling finds under a key is something a document may hold.
LEMMA ObservedType ==
  ASSUME TypeOK, NEW k \in Keys
  PROVE  Observed(k) \subseteq Values \cup {Nothing, Torn}
<1>1. mem[k] \in Values \cup {Nothing, Torn}
  BY DEF TypeOK, Docs
<1>2. \A u \in Threads : pending[u].value \in Values \cup {Nothing}
  BY DEF TypeOK, NoEntry
<1>. QED BY <1>1, <1>2 DEF Observed

\* With nobody writing, it is what is in memory.
LEMMA ObservedQuietly ==
  ASSUME PersistenceInv, Unwritten, NEW k \in Keys
  PROVE  Observed(k) = {mem[k]}
<1>1. \A u \in Threads : pending[u].key = Nothing
  BY DEF PersistenceInv, OwnOK, Unwritten, NoEntry
<1>2. \A u \in Threads : pending[u].key # k
  BY <1>1, PersistenceAssumption
<1>. QED BY <1>2 DEF Observed
----------------------------------------------------------------------------
LEMMA InitPersistence == Init => PersistenceInv
<1>. SUFFICES ASSUME Init PROVE PersistenceInv
  OBVIOUS
<1>1. TypeOK
  BY EmptyType, FilesHave DEF Init, TypeOK, Labels
<1>. QED BY <1>1 DEF Init, PersistenceInv, LockOK, Holds, OwnOK, QuietOK, KeptOK

LEMMA TypeStep ==
  ASSUME TypeOK, NEW t \in Threads, Step(t)
  PROVE  TypeOK'
<1>. USE DEF TypeOK, disk, throttle, own, Goto, At
<1>1. ASSUME BeginSet(t) PROVE TypeOK'
  BY <1>1 DEF BeginSet, Disturb, Labels
<1>2. ASSUME EndSet(t) PROVE TypeOK'
  <2>1. pending[t].value \in Values \cup {Nothing, Torn}
    BY DEF NoEntry
  <2>2. mem' \in Docs
    BY <1>2, <2>1 DEF EndSet, Docs
  <2>. QED BY <1>2, <2>2 DEF EndSet, Labels
<1>3. ASSUME Throttle(t) PROVE TypeOK'
  BY <1>3 DEF Throttle, Labels
<1>3a. ASSUME LetThrough(t) PROVE TypeOK'
  BY <1>3a DEF LetThrough, Labels
<1>4. ASSUME HandleUsage(t) PROVE TypeOK'
  BY <1>4 DEF HandleUsage, Labels
<1>5. ASSUME Snapshot(t) PROVE TypeOK'
  BY <1>5 DEF Snapshot, Labels
<1>6. ASSUME Marshal(t) PROVE TypeOK'
  <2>0. PICK k \in Keys \ seen[t] :
          /\ seen' = [seen EXCEPT ![t] = @ \cup {k}]
          /\ \E v \in Observed(k) : doc' = [doc EXCEPT ![t][k] = v]
    BY <1>6 DEF Marshal
  <2>1. PICK v \in Observed(k) : doc' = [doc EXCEPT ![t][k] = v]
    BY <2>0
  <2>2. v \in Values \cup {Nothing, Torn}
    BY ObservedType
  <2>3. [doc[t] EXCEPT ![k] = v] \in Docs
    BY <2>2 DEF Docs
  <2>4. doc' \in [Threads -> Docs] /\ seen' \in [Threads -> SUBSET Keys]
    BY <2>0, <2>1, <2>3
  <2>. QED BY <1>6, <2>4 DEF Marshal
<1>7. ASSUME FatalRace(t) PROVE TypeOK'
  BY <1>7 DEF FatalRace
<1>8. ASSUME Open(t) PROVE TypeOK'
  BY <1>8, FilesHave DEF Open, Disturb, Labels
<1>9. ASSUME Write(t) PROVE TypeOK'
  BY <1>9, WrittenType, EmptyType DEF Write, Disturb, Labels
<1>10. ASSUME SaveFails(t) PROVE TypeOK'
  <2>1. file' \in Files /\ lastWrite' \in {"none", "ok", "failed"} /\ kept' \in Docs \cup {NoDoc}
    BY <1>10, WrittenType DEF SaveFails
  <2>. QED BY <1>10, <2>1, EmptyType DEF SaveFails, Disturb, Labels
<1>11. ASSUME ReadFile(t) PROVE TypeOK'
  BY <1>11 DEF ReadFile, Labels
<1>12. ASSUME Replace(t) PROVE TypeOK'
  <2>1. got' \in [Threads -> Files] /\ pc' \in [Threads -> Labels]
    BY <1>12, FilesHave DEF Replace, Labels
  <2>2. got[t].doc \in Docs
    BY FileType
  <2>3. \A u \in Threads :
          [k \in Keys |-> IF k \in seen[u] THEN doc[u][k] ELSE mem[k]] \in Docs
    BY DEF Docs
  <2>4. CASE ~got[t].parses
    BY <1>12, <2>1, <2>4 DEF Replace
  <2>5. CASE got[t].parses
    <3>1. mem' \in Docs /\ alone' \in [Threads -> BOOLEAN]
      BY <1>12, <2>2, <2>5 DEF Replace, Disturb
    <3>2. doc' \in [Threads -> Docs]
      BY <1>12, <2>3, <2>5 DEF Replace
    <3>3. seen' \in [Threads -> SUBSET Keys]
      BY <1>12, <2>5 DEF Replace
    <3>. QED BY <1>12, <2>1, <3>1, <3>2, <3>3 DEF Replace
  <2>. QED BY <2>4, <2>5
<1>. QED BY <1>1, <1>2, <1>3, <1>3a, <1>4, <1>5, <1>6, <1>7, <1>8, <1>9, <1>10, <1>11, <1>12 DEF Step

(***************************************************************************)
(* What a step keeps beside the types.                                     *)
(***************************************************************************)
QuietInv ==
  /\ letThrough = lastDiskSave
  /\ \A t \in Threads : OwnOK(t) /\ QuietOK(t)
  /\ KeptOK

\* A step that touches neither the memory, the file nor a document, and moves t
\* to where nothing is promised of it.
LEMMA PlainStep ==
  ASSUME PersistenceInv, NEW t \in Threads,
         UNCHANGED <<mem, pending, seen, doc, disk, alone>>,
         letThrough' = lastDiskSave',
         pc[t] \notin {"set", "marshal"},
         NEW there \in {"idle", "throttle", "save", "load"}, pc' = [pc EXCEPT ![t] = there]
  PROVE  QuietInv'
BY DEF PersistenceInv, QuietInv, TypeOK, OwnOK, QuietOK, KeptOK, Unwritten, disk

LEMMA BeginSetStep ==
  ASSUME PersistenceInv, NEW t \in Threads, BeginSet(t)
  PROVE  QuietInv'
BY DEF PersistenceInv, QuietInv, TypeOK, OwnOK, QuietOK, KeptOK, Unwritten, disk, throttle,
       BeginSet, Disturb, Goto, At

\* While t writes, nothing has been undisturbed.
LEMMA EndSetStep ==
  ASSUME PersistenceInv, NEW t \in Threads, EndSet(t)
  PROVE  QuietInv'
<1>. USE DEF PersistenceInv, TypeOK, EndSet, Goto, At
<1>1. \A u \in Threads : alone[u] => pc[u] \notin {"marshal", "write"}
  BY DEF QuietOK, Unwritten
<1>2. \A u \in Threads : OwnOK(u)'
  BY DEF OwnOK
<1>3. \A u \in Threads : QuietOK(u)'
  BY <1>1 DEF QuietOK
<1>. QED BY <1>2, <1>3 DEF QuietInv, KeptOK, disk, throttle

LEMMA SnapshotStep ==
  ASSUME PersistenceInv, NEW t \in Threads, Snapshot(t)
  PROVE  QuietInv'
<1>. USE DEF PersistenceInv, TypeOK, Snapshot, Goto, At, own
<1>1. \A u \in Threads : OwnOK(u)'
  BY DEF OwnOK
<1>2. seen[t] = {}
  BY DEF OwnOK
<1>3. Unwritten /\ Unwritten'
  BY DEF Unlocked, Unwritten, Holds
<1>4. \A u \in Threads : QuietOK(u)'
  BY <1>2, <1>3 DEF QuietOK, disk
<1>. QED BY <1>1, <1>4 DEF QuietInv, KeptOK, disk, throttle

LEMMA MarshalStep ==
  ASSUME PersistenceInv, NEW t \in Threads, Marshal(t)
  PROVE  QuietInv'
<1>. USE DEF PersistenceInv, TypeOK, At
<1>0. UNCHANGED <<mem, pc, pending, alone, disk, throttle>> /\ pc[t] = "marshal"
  BY DEF Marshal
<1>1. PICK k \in Keys \ seen[t] :
        /\ seen' = [seen EXCEPT ![t] = @ \cup {k}]
        /\ \E v \in Observed(k) : doc' = [doc EXCEPT ![t][k] = v]
  BY DEF Marshal
<1>2. PICK v \in Observed(k) : doc' = [doc EXCEPT ![t][k] = v]
  BY <1>1
<1>3. \A u \in Threads : OwnOK(u)'
  BY <1>0, <1>1 DEF OwnOK
<1>4. ASSUME alone[t] PROVE v = mem[k] /\ \A j \in seen[t] : doc[t][j] = mem[j]
  BY <1>0, <1>4, ObservedQuietly DEF QuietOK
<1>5. doc[t] \in [Keys -> Values \cup {Nothing, Torn}]
  BY DEF Docs
<1>6. doc'[t] = [doc[t] EXCEPT ![k] = v] /\ seen'[t] = seen[t] \cup {k}
  BY <1>1, <1>2
<1>7. ASSUME alone[t] PROVE \A j \in seen'[t] : doc'[t][j] = mem[j]
  BY <1>1, <1>4, <1>5, <1>6, <1>7
<1>8. QuietOK(t)'
  BY <1>0, <1>7 DEF QuietOK, Unwritten
<1>9. \A u \in Threads \ {t} : doc'[u] = doc[u] /\ seen'[u] = seen[u]
  BY <1>1, <1>2
<1>10. \A u \in Threads \ {t} : QuietOK(u)'
  BY <1>0, <1>9 DEF QuietOK, Unwritten, disk
<1>. QED BY <1>0, <1>3, <1>8, <1>10 DEF QuietInv, KeptOK, disk, throttle

LEMMA OpenStep ==
  ASSUME PersistenceInv, NEW t \in Threads, Open(t)
  PROVE  QuietInv'
<1>. USE DEF PersistenceInv, TypeOK, Open, Marshalled, Goto, At, Disturb
<1>1. \A u \in Threads : OwnOK(u)'
  BY DEF OwnOK
<1>2. ASSUME alone[t] PROVE Unwritten /\ doc[t] = mem
  <2>1. \A k \in Keys : doc[t][k] = mem[k]
    BY <1>2 DEF QuietOK
  <2>2. doc[t] \in Docs /\ mem \in Docs
    OBVIOUS
  <2>3. doc[t] = mem
    BY <2>1, <2>2 DEF Docs
  <2>. QED BY <1>2, <2>3 DEF QuietOK
<1>3. Unwritten => Unwritten'
  BY DEF Unwritten
<1>4. \A u \in Threads : QuietOK(u)'
  BY <1>2, <1>3 DEF QuietOK
<1>. QED BY <1>1, <1>4 DEF QuietInv, KeptOK, throttle

\* An undisturbed save finds the file empty, and so writes the whole of it.
LEMMA WriteStep ==
  ASSUME PersistenceInv, NEW t \in Threads, Write(t)
  PROVE  QuietInv'
<1>. USE DEF PersistenceInv, TypeOK, Write, Goto, At, Disturb
<1>1. \A u \in Threads : OwnOK(u)'
  BY DEF OwnOK
<1>2. \A u \in Threads : QuietOK(u)'
  BY DEF QuietOK
<1>3. ASSUME alone[t] PROVE file' = Whole(mem)
  <2>1. doc[t] = mem /\ file.length = 0
    BY <1>3 DEF QuietOK, Truncated
  <2>2. Length(mem) >= 0
    BY LengthType, PersistenceAssumption, FS_CardinalityType
  <2>. QED BY <2>1, <2>2 DEF Over
<1>4. KeptOK'
  BY <1>3 DEF KeptOK, Whole
<1>. QED BY <1>1, <1>2, <1>4 DEF QuietInv, throttle

LEMMA SaveFailsStep ==
  ASSUME PersistenceInv, NEW t \in Threads, SaveFails(t)
  PROVE  QuietInv'
<1>. USE DEF PersistenceInv, TypeOK, SaveFails, Marshalled, Goto, At, Disturb
<1>1. \A u \in Threads : OwnOK(u)'
  BY DEF OwnOK
<1>2. \A u \in Threads : QuietOK(u)'
  BY DEF QuietOK
<1>3. KeptOK'
  BY DEF KeptOK, disk
<1>. QED BY <1>1, <1>2, <1>3 DEF QuietInv, throttle

LEMMA ReplaceStep ==
  ASSUME PersistenceInv, NEW t \in Threads, Replace(t)
  PROVE  QuietInv'
<1>. USE DEF PersistenceInv, TypeOK, Replace, Goto, At
<1>1. CASE ~got[t].parses
  <2>1. UNCHANGED <<mem, pending, seen, doc, disk, throttle, alone>>
    BY <1>1
  <2>. QED BY <2>1, PlainStep DEF throttle
<1>2. CASE got[t].parses
  <2>1. /\ UNCHANGED <<pending, disk, throttle>>
        /\ pc' = [pc EXCEPT ![t] = "idle"] /\ pc[t] = "load"
        /\ seen' = [u \in Threads |-> IF pc[u] = "marshal" THEN Keys ELSE seen[u]]
        /\ alone' = [u \in Threads |-> alone[u] /\ u = t]
    BY <1>2 DEF Disturb
  <2>2. \A u \in Threads : OwnOK(u)'
    BY <2>1 DEF OwnOK
  <2>3. \A u \in Threads : QuietOK(u)'
    BY <2>1 DEF QuietOK
  <2>. QED BY <2>1, <2>2, <2>3 DEF QuietInv, KeptOK, disk, throttle
<1>. QED BY <1>1, <1>2

\* Only who finds nobody there takes the lock, and only who holds it moves the
\* time of the last save.
LEMMA LockStep ==
  ASSUME PersistenceInv, NEW t \in Threads, Step(t)
  PROVE  LockOK'
<1>. USE DEF PersistenceInv, TypeOK, LockOK, ThrottleOpen, Holds, Goto, At
<1>1. ASSUME BeginSet(t) \/ Throttle(t) PROVE LockOK'
  BY <1>1 DEF BeginSet, Throttle, Unlocked, throttle
<1>2. ASSUME LetThrough(t) PROVE LockOK'
  BY <1>2 DEF LetThrough
<1>3. ASSUME NEW there \in Labels \ {"set", "throttle"}, pc' = [pc EXCEPT ![t] = there],
             UNCHANGED <<lastDiskSave, now>>
      PROVE  LockOK'
  BY <1>3
<1>4. ASSUME UNCHANGED <<pc, lastDiskSave, now>> PROVE LockOK'
  BY <1>4
<1>5. ASSUME \/ EndSet(t) \/ HandleUsage(t) \/ Snapshot(t) \/ Open(t) \/ Write(t)
             \/ SaveFails(t) \/ ReadFile(t) \/ Replace(t)
      PROVE  LockOK'
  BY <1>3, <1>5 DEF EndSet, HandleUsage, Snapshot, Open, Write, SaveFails, ReadFile, Replace,
                    throttle, Labels
<1>6. ASSUME Marshal(t) \/ FatalRace(t) PROVE LockOK'
  BY <1>4, <1>6 DEF Marshal, FatalRace, throttle
<1>. QED BY <1>1, <1>2, <1>5, <1>6 DEF Step

LEMMA CallStep ==
  ASSUME PersistenceInv, NEW t \in Threads, Step(t)
  PROVE  PersistenceInv'
<1>1. QuietInv'
  <2>1. CASE Throttle(t)
    BY <2>1, PlainStep DEF Throttle, At, Goto, own, disk, throttle, PersistenceInv
  <2>1a. CASE LetThrough(t)
    BY <2>1a, PlainStep DEF LetThrough, At, Goto, own, disk
  <2>2. CASE HandleUsage(t)
    BY <2>2, PlainStep DEF HandleUsage, At, Goto, own, disk, throttle, PersistenceInv
  <2>3. CASE ReadFile(t)
    BY <2>3, PlainStep DEF ReadFile, At, Goto, disk, throttle, PersistenceInv
  <2>4. CASE FatalRace(t)
    BY <2>4 DEF FatalRace, own, disk, throttle, PersistenceInv, QuietInv, OwnOK, QuietOK, KeptOK, Unwritten
  <2>. QED
    BY <2>1, <2>1a, <2>2, <2>3, <2>4, BeginSetStep, EndSetStep, SnapshotStep, MarshalStep,
       OpenStep, WriteStep, SaveFailsStep, ReplaceStep DEF Step
<1>2. TypeOK'
  BY TypeStep DEF PersistenceInv
<1>. QED BY <1>1, <1>2, LockStep DEF PersistenceInv, QuietInv

\* A crash loses nothing that is kept, and a restart begins with no call in progress.
LEMMA RestartStep ==
  ASSUME PersistenceInv, Restart
  PROVE  PersistenceInv'
<1>. USE DEF PersistenceInv, Restart
<1>1. TypeOK'
  BY EmptyType, FilesHave, FileType DEF TypeOK, Labels
<1>2. QuietInv'
  BY DEF QuietInv, OwnOK, QuietOK, KeptOK
<1>3. LockOK'
  BY DEF LockOK, Holds
<1>. QED BY <1>1, <1>2, <1>3 DEF QuietInv

LEMMA OtherStep ==
  ASSUME PersistenceInv, Crash \/ Tick \/ UNCHANGED vars
  PROVE  PersistenceInv'
<1>1. TypeOK'
  BY DEF PersistenceInv, TypeOK, Crash, Tick, vars, own, disk, throttle
<1>2. QuietInv'
  BY DEF PersistenceInv, QuietInv, OwnOK, QuietOK, KeptOK, Unwritten,
         Crash, Tick, vars, own, disk, throttle
<1>3. LockOK'
  <2>1. UNCHANGED <<pc, lastDiskSave>> /\ (now' = now \/ now' = now + 1)
    BY DEF Crash, Tick, vars, throttle
  <2>2. ThrottleOpen => ThrottleOpen'
    BY <2>1, PersistenceAssumption DEF PersistenceInv, TypeOK, ThrottleOpen
  <2>. QED BY <2>1, <2>2 DEF PersistenceInv, LockOK, Holds
<1>. QED BY <1>1, <1>2, <1>3 DEF PersistenceInv, QuietInv

THEOREM PersistenceInvariant == Spec => []PersistenceInv
<1>1. PersistenceInv /\ [Next]_vars => PersistenceInv'
  BY CallStep, RestartStep, OtherStep DEF Next
<1>. QED BY InitPersistence, <1>1, PTL DEF Spec

\* Whatever races, fails or crashes, memory, documents and file keep their types:
\* a torn entry is the worst a document holds, and a file is a whole document or
\* one that does not parse (SaveToFile, LoadFromFile).
THEOREM PersistenceTypeCorrect == Spec => []TypeOK
<1>1. PersistenceInv => TypeOK
  BY DEF PersistenceInv
<1>. QED BY PersistenceInvariant, <1>1, PTL

\* Of the saves that routing asks for between two starts, no two are let through
\* less than an interval apart, however many calls ask at once and whatever comes
\* between the test of one and its note of the time: the lock is held from one to
\* the other (SaveThrottled).
THEOREM ThrottleKept == Spec => ThrottleHolds
<1>1. PersistenceInv /\ [Next]_vars =>
        [\A t \in Threads :
           LetThrough(t) => letThrough = 0 \/ now >= letThrough + Interval]_vars
  BY DEF PersistenceInv, LockOK, ThrottleOpen, LetThrough, At
<1>. QED BY PersistenceInvariant, <1>1, PTL DEF Spec, ThrottleHolds

\* A save during which nothing was written, reloaded or saved is what the next
\* start finds, unless a later save has opened the file since: whatever crashed
\* in between (SaveToFile, LoadFromFile).
THEOREM QuietSaveKept == Spec => QuietSaveSurvives
<1>1. PersistenceInv /\ [Next]_vars => [Restart /\ kept # NoDoc => mem' = kept]_vars
  BY DEF PersistenceInv, KeptOK, Restart
<1>. QED BY PersistenceInvariant, <1>1, PTL DEF Spec, QuietSaveSurvives
=============================================================================
