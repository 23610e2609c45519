-------------------------- MODULE DiskLruCache_proofs --------------------------
(***************************************************************************)
(* What holds of the cache of thumbnails for every set of keys, sizes and  *)
(* bounds, wherever the process is killed: no file is leaked, no file that *)
(* can be read is partial, the next process reads the true lengths, every  *)
(* byte is counted, eviction always has an entry to take, and the cache    *)
(* implements ThumbnailStore.                                              *)
(***************************************************************************)
EXTENDS DiskLruCache, SequenceTheorems, FiniteSetTheorems, WellFoundedInduction,
        TLAPS

Line == [op : {"CLEAN", "DIRTY", "READ", "REMOVE"}, key : Keys, len : Nat]

\* Removing, editing, publishing and rebuilding keep an index an index.
LEMMA NoIndexType == NoIndex \in Index
  BY DEF Index, NoIndex

LEMMA WithoutType ==
  ASSUME NEW x \in Index, NEW K \in SUBSET Keys
  PROVE  Without(x, K) \in Index
  BY DEF Index, Without

LEMMA EditedType ==
  ASSUME NEW x \in Index, NEW k \in Keys
  PROVE  Edited(x, k) \in Index
  BY DEF Index, Edited

LEMMA PublishedType ==
  ASSUME NEW x \in Index, NEW k \in Keys, NEW n \in Nat
  PROVE  Published(x, k, n) \in Index
  BY DEF Index, Published

LEMMA RebuiltType ==
  ASSUME NEW x \in Index
  PROVE  Rebuilt(x) \in Index
  BY DEF Index, Rebuilt

\* So does reading a line of the journal.
LEMMA ReplayType ==
  ASSUME NEW x \in Index, NEW line \in Line
  PROVE  Replay(x, line) \in Index
  <1>1. line.key \in Keys /\ {line.key} \in SUBSET Keys /\ line.len \in Nat
    BY DEF Line
  <1>2. line.op \in {"CLEAN", "DIRTY", "READ", "REMOVE"}
    BY DEF Line
  <1> QED BY <1>1, <1>2, WithoutType, EditedType, PublishedType DEF Replay

\* A written line keeps the buffer a sequence of lines, and is its last.
LEMMA WriteType ==
  ASSUME buffer \in Seq(Line), NEW op \in {"CLEAN", "DIRTY", "READ", "REMOVE"},
         NEW k \in Keys, NEW n \in Nat, Write(op, k, n)
  PROVE  /\ buffer' \in Seq(Line) /\ buffer' # <<>>
         /\ Len(buffer') = Len(buffer) + 1
         /\ buffer'[Len(buffer')] = [op |-> op, key |-> k, len |-> n]
         /\ \A i \in 1 .. Len(buffer) : buffer'[i] = buffer[i]
  BY DEF Write, Line

\* The head of the buffer is its first line, the others move up.
LEMMA TailType ==
  ASSUME buffer \in Seq(Line), buffer # <<>>
  PROVE  /\ Tail(buffer) \in Seq(Line) /\ Head(buffer) \in Line
         /\ Head(buffer) = buffer[1]
         /\ Len(buffer) \in Nat \ {0}
         /\ Len(Tail(buffer)) = Len(buffer) - 1
         /\ \A i \in 1 .. Len(Tail(buffer)) : Tail(buffer)[i] = buffer[i + 1]
  BY HeadTailProperties, LenProperties, EmptySeq

USE DEF File, NoFile, PartFile, WholeFile

\* What a removal leaves, whether it is refused, fails or is done.
LEMMA RemoveType ==
  ASSUME TypeOK, NEW k \in Keys,
         RemoveRefused(k) \/ RemoveFails(k) \/ RemoveDone(k)
  PROVE  /\ index' \in Index /\ buffer' \in Seq(Line) /\ clean' \in [Keys -> File]
         /\ redundant' \in Nat /\ tasks' \in Nat
  <1> USE DEF TypeOK
  <1>1. CASE RemoveRefused(k) \/ RemoveFails(k)
    BY <1>1 DEF RemoveRefused, RemoveFails, Line
  <1>2. CASE RemoveDone(k)
    <2>1. index' \in Index
      BY <1>2, WithoutType DEF RemoveDone, Forget
    <2>2. buffer' \in Seq(Line)
      BY <1>2, WriteType DEF RemoveDone, Forget, Line
    <2> QED BY <1>2, <2>1, <2>2 DEF RemoveDone, Forget, Redundant, Submit
  <1> QED BY <1>1, <1>2

\* What is evicted is a key: the removal says so.
LEMMA EvictsKey ==
  ASSUME TypeOK, TrimEvicts
  PROVE  \E k \in Keys :
           /\ k = Head(lru)
           /\ \/ (RemoveRefused(k) \/ RemoveDone(k)) /\ UNCHANGED trimming
              \/ RemoveFails(k) /\ trimming' = FALSE
  BY DEF TypeOK, TrimEvicts, RemoveRefused, RemoveFails, RemoveDone, Forget, Index

\* Every step keeps the types.
LEMMA TypeStep == TypeOK /\ [Next]_cacheVars => TypeOK'
  <1> SUFFICES ASSUME TypeOK, [Next]_cacheVars PROVE TypeOK'
    OBVIOUS
  <1> USE CacheAssumption DEF TypeOK
  <1>1. CASE Open
    <2>1. journal.editing \in SUBSET Keys
      BY DEF Index
    <2>2. index' \in Index
      BY <1>1, <2>1, WithoutType DEF Open
    <2>3. clean' \in [Keys -> File] /\ dirty' \in [Keys -> File]
      BY <1>1 DEF Open
    <2> QED BY <1>1, <2>2, <2>3 DEF Open, journalVars
  <1>2. CASE OpenCorrupt
    BY <1>2, NoIndexType DEF OpenCorrupt
  <1>3. CASE Crash
    <2>1. buffer' \in Seq(Line) /\ tail' \in {"line", "torn", "corrupt"}
      BY <1>3, EmptySeq DEF Crash
    <2> QED BY <1>3, <2>1, NoIndexType DEF Crash, fileVars, Line
  <1>4. CASE Spill
    <2>1. buffer' \in Seq(Line) /\ journal' \in Index
      BY <1>4, TailType, ReplayType DEF Spill, Line
    <2> QED BY <1>4, <2>1 DEF Spill, fileVars, Line
  <1>5. CASE Trim
    <2>1. CASE TrimBegins
      BY <1>5, <2>1 DEF TrimBegins, fileVars, journalVars
    <2>2. CASE TrimEvicts
      BY <2>2, EvictsKey, RemoveType DEF TrimEvicts, journalVars, Line
    <2>3. CASE TrimEndsPlain
      BY <2>3 DEF TrimEndsPlain, fileVars, journalVars
    <2>4. CASE RebuildJournal
      BY <2>4, RebuiltType, EmptySeq DEF RebuildJournal, fileVars
    <2> QED BY <1>5, <2>1, <2>2, <2>3, <2>4 DEF Trim
  <1>6. ASSUME NEW k \in Keys, Get(k) \/ GetMisses(k) PROVE TypeOK'
    <2>1. CASE Get(k)
      <3>1. 0 \in Nat /\ "READ" \in {"CLEAN", "DIRTY", "READ", "REMOVE"}
        OBVIOUS
      <3>2. buffer' \in Seq(Line)
        BY <2>1, <3>1, WriteType DEF Get, Line
      <3>3. redundant' \in Nat /\ tasks' \in Nat
        BY <2>1 DEF Get, Redundant, Submit
      <3> QED BY <2>1, <3>2, <3>3 DEF Get, fileVars, journalVars, Line
    <2>2. CASE GetMisses(k)
      BY <2>2 DEF GetMisses, Missing, fileVars, journalVars
    <2> QED BY <1>6, <2>1, <2>2
  <1>7. ASSUME NEW k \in Keys, Adding(k) PROVE TypeOK'
    <2>1. CASE Add(k)
      BY <2>1 DEF Add, Missing, fileVars, journalVars
    <2>2. CASE AddRefused(k)
      BY <2>2 DEF AddRefused, fileVars, journalVars
    <2>3. CASE AddEdits(k)
      BY <2>3, WriteType, EditedType DEF AddEdits, Edit, fileVars, journalVars, Line
    <2>4. CASE AddFlushed(k)
      BY <2>4 DEF AddFlushed, fileVars, journalVars
    <2>5. CASE AddCreates(k)
      BY <2>5 DEF AddCreates, journalVars
    <2>6. CASE AddCompresses(k)
      <3>1. ASSUME NEW n \in Sizes
            PROVE  [dirty EXCEPT ![k] = WholeFile(n)] \in [Keys -> File]
        <4>1. n \in Nat
          OBVIOUS
        <4> QED BY <4>1
      <3>2. dirty' \in [Keys -> File]
        <4>1. CASE \E n \in Sizes : dirty' = [dirty EXCEPT ![k] = WholeFile(n)]
          <5>1. PICK n \in Sizes : dirty' = [dirty EXCEPT ![k] = WholeFile(n)]
            BY <4>1
          <5> QED BY <5>1, <3>1
        <4>2. CASE UNCHANGED dirty
          BY <4>2
        <4> QED BY <2>6, <4>1, <4>2 DEF AddCompresses
      <3> QED BY <2>6, <3>2 DEF AddCompresses, journalVars
    <2>7. CASE AddThrows(k)
      BY <2>7 DEF AddThrows, fileVars, journalVars
    <2>8. CASE AddCommits(k)
      <3>1. dirty[k].len \in Nat
        OBVIOUS
      <3>2. clean' \in [Keys -> File] /\ dirty' \in [Keys -> File]
        BY <2>8 DEF AddCommits, Publish
      <3>3. index' \in Index /\ buffer' \in Seq(Line)
        BY <2>8, <3>1, PublishedType, WriteType DEF AddCommits, Publish, Line
      <3> QED
        BY <2>8, <3>2, <3>3
        DEF AddCommits, Publish, Redundant, Submit, journalVars, Line
    <2>9. CASE AddFails(k)
      <3>1. index.length[k] \in Nat /\ {k} \in SUBSET Keys
        BY DEF Index
      <3>2. index' \in Index
        <4>1. [index EXCEPT !.editing = @ \ {k}] \in Index
          BY DEF Index
        <4>2. Without(index, {k}) \in Index
          BY <3>1, WithoutType
        <4> QED BY <2>9, <4>1, <4>2 DEF AddFails
      <3>3. buffer' \in Seq(Line)
        BY <2>9, <3>1, WriteType DEF AddFails, Line
      <3> QED
        BY <2>9, <3>2, <3>3, SMTT(40) DEF AddFails, Redundant, Submit, journalVars, Line
    <2> QED
      BY <1>7, <2>1, <2>2, <2>3, <2>4, <2>5, <2>6, <2>7, <2>8, <2>9 DEF Adding
  <1>8. ASSUME NEW k \in Keys, Remove(k) PROVE TypeOK'
    BY <1>8, RemoveType DEF Remove, journalVars, Line
  <1>9. CASE UNCHANGED cacheVars
    BY <1>9 DEF cacheVars, memoryVars, fileVars, journalVars
  <1> QED
    BY <1>1, <1>2, <1>3, <1>4, <1>5, <1>6, <1>7, <1>8, <1>9 DEF Next, Live

\* An empty cache has its types.
LEMMA TypeStart == Init => TypeOK
  <1> SUFFICES ASSUME Init PROVE TypeOK
    OBVIOUS
  <1>1. buffer \in Seq(Line)
    BY EmptySeq DEF Init
  <1>2. clean \in [Keys -> File] /\ dirty \in [Keys -> File]
    BY DEF Init
  <1>3. index \in Index /\ journal \in Index
    BY NoIndexType DEF Init
  <1> QED BY <1>1, <1>2, <1>3 DEF Init, TypeOK, Line

\* Every variable of the cache keeps its type, the process being killed at any
\* moment.
THEOREM CacheTypeCorrect == Spec => []TypeOK
  BY TypeStart, TypeStep, PTL DEF Spec

\* What reading a line does to an entry: nothing to those of other keys.
LEMMA ReplayAt ==
  ASSUME NEW x \in Index, NEW line \in Line, NEW j \in Keys
  PROVE  LET y == Replay(x, line)
         IN /\ line.key # j \/ line.op = "READ" =>
                 /\ j \in y.readable <=> j \in x.readable
                 /\ j \in y.editing <=> j \in x.editing
                 /\ y.length[j] = x.length[j]
            /\ line.key = j /\ line.op = "DIRTY" => j \in y.editing
            /\ line.key = j /\ line.op = "CLEAN" =>
                 j \in y.readable /\ j \notin y.editing /\ y.length[j] = line.len
  <1>1. CASE line.op = "READ"
    BY <1>1 DEF Replay
  <1>2. CASE line.op = "DIRTY"
    BY <1>2 DEF Replay, Edited, Index, Line
  <1>3. CASE line.op = "CLEAN"
    BY <1>3 DEF Replay, Published, Index, Line
  <1>4. CASE line.op = "REMOVE"
    BY <1>4 DEF Replay, Without, Index, Line
  <1> QED BY <1>1, <1>2, <1>3, <1>4 DEF Line

\* A line written for a key leaves what the buffer says of the other keys.
LEMMA WriteAt ==
  ASSUME TypeOK, NEW op \in {"CLEAN", "DIRTY", "READ", "REMOVE"},
         NEW k \in Keys, NEW n \in Nat, Write(op, k, n)
  PROVE  /\ Len(buffer') \in Lines'
         /\ \A i \in Lines' :
              \/ i \in Lines /\ buffer'[i] = buffer[i]
              \/ i = Len(buffer') /\ buffer'[i] = [op |-> op, key |-> k, len |-> n]
         /\ buffer' # <<>>
  <1>1. buffer \in Seq(Line)
    BY DEF TypeOK, Line
  <1>2. Len(buffer) \in Nat
    BY <1>1, LenProperties
  <1> QED BY <1>1, <1>2, WriteType DEF Lines

\* Deleting a thumbnail that is there, by the viewer or by an eviction, while
\* nobody waits for the flush.
LEMMA RemoveDoneKeeps ==
  ASSUME TypeOK, CacheInv, NEW k \in Keys, RemoveDone(k), open,
         \A j \in Keys : adder[j] # "flush",
         UNCHANGED <<open, adder, dirty, journalVars>>
  PROVE  /\ \A j \in Keys : MemoryKnows(j)'
         /\ JournalInv' /\ WholeFiles' /\ RecoveryIsTrue'
  <1> USE DEF CacheInv
  <1>1. /\ k \in index.readable \ index.editing
        /\ Exists(clean[k]) /\ ~Exists(dirty[k]) /\ adder[k] \notin Flushed
    BY DEF RemoveDone, Forget, MemoryInv, MemoryKnows, Flushed
  <1>2. /\ clean' \in [Keys -> File] /\ ~Exists(clean'[k])
        /\ \A j \in Keys \ {k} : clean'[j] = clean[j]
    BY DEF RemoveDone, TypeOK, Exists
  <1>3. \A j \in Keys \ {k} :
          /\ j \in index'.readable <=> j \in index.readable
          /\ j \in index'.editing <=> j \in index.editing
          /\ index'.length[j] = index.length[j]
    BY DEF RemoveDone, Forget, Without, TypeOK, Index
  <1>4. Write("REMOVE", k, 0)
    BY DEF RemoveDone, Forget
  <1>5. ASSUME NEW j \in Keys
        PROVE  MemoryKnows(j)'
    <2>1. CASE j = k
      BY <2>1, <1>1, <1>2 DEF MemoryKnows, Exists, Flushed
    <2>2. CASE j # k
      BY <2>2, <1>2, <1>3 DEF MemoryInv, MemoryKnows, Exists
    <2> QED BY <2>1, <2>2
  <1>6. JournalInv'
    <2> SUFFICES ASSUME tail # "corrupt", NEW j \in Keys
        PROVE  JournalKnows(j)'
      BY DEF JournalInv, journalVars
    <2>1. \A i \in Lines' :
            \/ i \in Lines /\ buffer'[i] = buffer[i]
            \/ buffer'[i].op = "REMOVE" /\ buffer'[i].key = k
      <3>1. 0 \in Nat /\ "REMOVE" \in {"CLEAN", "DIRTY", "READ", "REMOVE"}
        OBVIOUS
      <3>2. \A i \in Lines' :
              \/ i \in Lines /\ buffer'[i] = buffer[i]
              \/ buffer'[i] = [op |-> "REMOVE", key |-> k, len |-> 0]
        BY <1>4, <3>1, WriteAt
      <3> QED BY <3>2
    <2> USE DEF JournalKnows, Exists
    <2>2. CASE j = k
      <3>1. /\ adder'[j] \notin Flushed /\ adder'[j] # "flush"
            /\ ~Exists(dirty'[j]) /\ ~Exists(clean'[j])
        BY <2>2, <1>1, <1>2
      <3> QED BY <3>1
    <2>3. CASE j # k
      <3>1. clean'[j] = clean[j] /\ adder[j] # "flush"
        BY <2>3, <1>2
      <3>2. JournalKnows(j)
        BY DEF JournalInv
      <3> QED BY <2>1, <2>3, <3>1, <3>2 DEF journalVars
    <2> QED BY <2>2, <2>3
  <1>7. WholeFiles'
    BY <1>2 DEF WholeFiles
  <1>8. RecoveryIsTrue'
    BY <1>2 DEF RecoveryIsTrue, journalVars, TypeOK, Index
  <1> QED BY <1>5, <1>6, <1>7, <1>8

\* A step that leaves the files, the additions and the journal alone and changes
\* the index, the lock or the buffer not at all keeps the invariant.
LEMMA FrameKeeps ==
  ASSUME CacheInv,
         UNCHANGED <<open, index, buffer, trimming, adder, fileVars, journalVars>>
  PROVE  CacheInv'
  <1> USE DEF CacheInv, fileVars, journalVars
  <1>1. MemoryInv'
    BY DEF MemoryInv, MemoryKnows, NoAdder
  <1>2. JournalInv'
    BY DEF JournalInv, JournalKnows, Lines
  <1>3. WholeFiles' /\ RecoveryIsTrue'
    BY DEF WholeFiles, RecoveryIsTrue
  <1> QED BY <1>1, <1>2, <1>3

\* The process opens the cache: the entries whose edit was not finished go, with
\* their files.
LEMMA OpenKeeps ==
  ASSUME TypeOK, CacheInv, Open
  PROVE  CacheInv'
  <1> USE DEF CacheInv, Open
  <1>1. /\ buffer = <<>> /\ ~trimming /\ Lines = {}
        /\ \A k \in Keys : adder[k] = "idle"
    BY EmptySeq DEF MemoryInv, NoAdder, Lines
  <1>2. UNCHANGED <<buffer, trimming, adder, journal, tail>>
    BY DEF journalVars
  <1>3. ASSUME NEW k \in Keys
        PROVE  /\ ~Exists(dirty'[k])
               /\ k \notin index'.editing
               /\ Exists(clean'[k]) =>
                    /\ clean'[k] = clean[k] /\ k \in index'.readable
                    /\ index'.length[k] = clean'[k].len
    <2>1. JournalKnows(k)
      BY DEF JournalInv
    <2>2. CASE k \in journal.editing
      BY <2>2 DEF Without, Exists
    <2>3. CASE k \notin journal.editing
      BY <2>1, <2>3
      DEF JournalKnows, Without, Exists, Entries, RecoveryIsTrue, TypeOK, Index
    <2> QED BY <2>2, <2>3
  <1>4. MemoryInv'
    BY <1>1, <1>2, <1>3 DEF MemoryInv, MemoryKnows, NoAdder, Flushed
  <1>5. JournalInv'
    <2> SUFFICES ASSUME tail # "corrupt", NEW k \in Keys
        PROVE  JournalKnows(k)'
      BY <1>2 DEF JournalInv
    <2>1. JournalKnows(k)
      BY DEF JournalInv
    <2> QED BY <2>1, <1>1, <1>2, <1>3 DEF JournalKnows, Flushed, Lines
  <1>6. WholeFiles'
    BY <1>3 DEF WholeFiles
  <1>7. RecoveryIsTrue'
    BY <1>2, <1>3 DEF RecoveryIsTrue, TypeOK, Index
  <1> QED BY <1>4, <1>5, <1>6, <1>7

\* ... or empties the directory, if it cannot read the journal.
LEMMA OpenCorruptKeeps ==
  ASSUME TypeOK, CacheInv, OpenCorrupt
  PROVE  CacheInv'
  <1> USE DEF CacheInv, OpenCorrupt
  <1>1. /\ buffer' = <<>> /\ ~trimming' /\ index' = NoIndex /\ open'
        /\ \A k \in Keys : adder'[k] = "idle" /\ ~Exists(clean'[k]) /\ ~Exists(dirty'[k])
    BY DEF MemoryInv, NoAdder, Exists
  <1>2. MemoryInv'
    BY <1>1 DEF MemoryInv, MemoryKnows, NoAdder, Flushed
  <1>3. JournalInv'
    BY <1>1 DEF JournalInv, JournalKnows, Flushed
  <1>4. WholeFiles' /\ RecoveryIsTrue'
    BY <1>1 DEF WholeFiles, RecoveryIsTrue, NoIndex
  <1> QED BY <1>2, <1>3, <1>4

\* Killed, the process leaves the files and the journal as they are.
LEMMA CrashKeeps ==
  ASSUME TypeOK, CacheInv, Crash
  PROVE  CacheInv'
  <1> USE DEF CacheInv, Crash
  <1>1. /\ UNCHANGED <<clean, dirty, journal>> /\ buffer' = <<>> /\ Lines' = {}
        /\ ~open' /\ ~trimming' /\ index' = NoIndex
        /\ \A k \in Keys : adder'[k] = "idle"
    BY EmptySeq DEF fileVars, Lines
  <1>2. tail # "corrupt" \/ tail' = "corrupt"
    OBVIOUS
  <1>3. MemoryInv'
    BY <1>1 DEF MemoryInv, MemoryKnows, NoAdder, Flushed, NoIndex
  <1>4. JournalInv'
    <2> SUFFICES ASSUME tail # "corrupt", NEW k \in Keys
        PROVE  JournalKnows(k)'
      BY <1>2 DEF JournalInv
    <2>1. JournalKnows(k)
      BY DEF JournalInv
    <2> QED BY <2>1, <1>1 DEF JournalKnows, Flushed
  <1>5. WholeFiles' /\ RecoveryIsTrue'
    BY <1>1, <1>2 DEF WholeFiles, RecoveryIsTrue
  <1> QED BY <1>3, <1>4, <1>5

\* A line reaches the journal.
LEMMA SpillKeeps ==
  ASSUME TypeOK, CacheInv, Spill
  PROVE  CacheInv'
  <1> USE DEF CacheInv
  <1>1. UNCHANGED <<open, index, trimming, adder, clean, dirty>>
    BY DEF Spill, fileVars
  <1>2. buffer \in Seq(Line) /\ journal \in Index /\ buffer # <<>> /\ open
    BY DEF TypeOK, Line, Spill, MemoryInv
  <1>3. MemoryInv'
    BY <1>1, <1>2 DEF MemoryInv, MemoryKnows, NoAdder
  <1>4. WholeFiles'
    BY <1>1 DEF WholeFiles
  <1>5. SUFFICES ASSUME tail' # "corrupt" PROVE JournalInv' /\ RecoveryIsTrue'
    BY <1>3, <1>4 DEF JournalInv, RecoveryIsTrue
  <1>6. tail # "corrupt"
    BY <1>5 DEF Spill
  <1> DEFINE line == Head(buffer)
  <1>7. line \in Line /\ line = buffer[1] /\ 1 \in Lines /\ Len(buffer) \in Lines
    BY <1>2, TailType DEF Lines
  <1>8. \A i \in Lines' : i + 1 \in Lines /\ buffer'[i] = buffer[i + 1]
    BY <1>2, TailType DEF Lines, Spill
  <1>9. \/ buffer' = <<>> /\ buffer[Len(buffer)] = line
        \/ buffer' # <<>> /\ buffer'[Len(buffer')] = buffer[Len(buffer)]
    <2>1. /\ buffer' \in Seq(Line) /\ Len(buffer') \in Nat /\ Len(buffer) \in Nat \ {0}
          /\ Len(buffer') = Len(buffer) - 1
      BY <1>2, TailType, LenProperties DEF Spill
    <2>2. CASE Len(buffer') = 0
      <3>1. Len(buffer) = 1
        BY <2>1, <2>2
      <3>2. buffer' = <<>>
        BY <2>1, <2>2, EmptySeq
      <3> QED BY <3>1, <3>2, <1>7
    <2>3. CASE Len(buffer') # 0
      <3>1. Len(buffer') \in Lines' /\ buffer' # <<>>
        BY <2>1, <2>3, EmptySeq DEF Lines
      <3>2. buffer'[Len(buffer')] = buffer[Len(buffer') + 1]
        BY <3>1, <1>8
      <3> QED BY <3>1, <3>2, <2>1
    <2> QED BY <2>2, <2>3
  <1>10. journal' = Replay(journal, line)
    BY DEF Spill
  <1> HIDE DEF line
  <1>11. ASSUME NEW k \in Keys
         PROVE  /\ JournalKnows(k)'
                /\ k \in journal'.readable \ journal'.editing /\ Exists(clean[k]) =>
                     journal'.length[k] = clean[k].len
    <2>1. JournalKnows(k)
      BY <1>6 DEF JournalInv
    <2>2. k \in journal.readable \ journal.editing /\ Exists(clean[k]) =>
            journal.length[k] = clean[k].len
      BY <1>6 DEF RecoveryIsTrue
    <2>3. /\ line.key # k \/ line.op = "READ" =>
               /\ k \in journal'.readable <=> k \in journal.readable
               /\ k \in journal'.editing <=> k \in journal.editing
               /\ journal'.length[k] = journal.length[k]
          /\ line.key = k /\ line.op = "DIRTY" => k \in journal'.editing
          /\ line.key = k /\ line.op = "CLEAN" =>
               k \in journal'.readable /\ journal'.length[k] = line.len
      BY <1>2, <1>7, <1>10, ReplayAt
    <2>4. line.op \in {"CLEAN", "DIRTY", "READ", "REMOVE"}
      BY <1>7 DEF Line
    <2>5. Exists(clean[k]) => k \in Entries(journal')
      BY <2>1, <2>3, <2>4, <1>7 DEF JournalKnows, Entries
    <2>6. Exists(clean[k]) =>
            \A i \in Lines' : buffer'[i].key = k =>
              /\ buffer'[i].op \in {"CLEAN", "READ"}
              /\ buffer'[i].op = "CLEAN" => buffer'[i].len = clean[k].len
      BY <2>1, <1>8 DEF JournalKnows
    <2>7. adder[k] \in Flushed \/ Exists(dirty[k]) =>
            k \in journal'.editing /\ \A i \in Lines' : buffer'[i].key # k
      BY <2>1, <2>3, <1>7, <1>8 DEF JournalKnows
    <2>8. adder[k] = "flush" =>
            \/ buffer' = <<>> /\ k \in journal'.editing
            \/ /\ buffer' # <<>>
               /\ buffer'[Len(buffer')].op = "DIRTY" /\ buffer'[Len(buffer')].key = k
      BY <2>1, <2>3, <1>2, <1>9 DEF JournalKnows
    <2>9. k \in journal'.readable \ journal'.editing /\ Exists(clean[k]) =>
            journal'.length[k] = clean[k].len
      BY <2>1, <2>2, <2>3, <2>4, <1>7 DEF JournalKnows, Entries
    <2> QED BY <2>5, <2>6, <2>7, <2>8, <2>9, <1>1 DEF JournalKnows
  <1>12. journal' \in Index
    BY <1>2, <1>7, <1>10, ReplayType
  <1> QED BY <1>11, <1>12, <1>1 DEF JournalInv, RecoveryIsTrue, Index

\* The journal is rebuilt from the index.
LEMMA RebuildKeeps ==
  ASSUME TypeOK, CacheInv, RebuildJournal
  PROVE  CacheInv'
  <1> USE DEF CacheInv
  <1>1. /\ UNCHANGED <<open, index, adder, clean, dirty>> /\ open
        /\ buffer' = <<>> /\ Lines' = {} /\ ~trimming'
        /\ journal' = Rebuilt(index)
        /\ \A k \in Keys : adder[k] # "flush" /\ MemoryKnows(k)
    BY EmptySeq DEF RebuildJournal, fileVars, Lines, MemoryInv
  <1>2. /\ journal'.editing = index.editing
        /\ journal'.readable = index.readable \ index.editing
        /\ \A k \in Keys \ index.editing : journal'.length[k] = index.length[k]
    BY <1>1 DEF Rebuilt, TypeOK, Index
  <1>3. MemoryInv'
    BY <1>1 DEF MemoryInv, MemoryKnows
  <1>4. JournalInv'
    BY <1>1, <1>2 DEF JournalInv, JournalKnows, MemoryKnows, Entries
  <1>5. WholeFiles'
    BY <1>1 DEF WholeFiles
  <1>6. RecoveryIsTrue'
    BY <1>1, <1>2 DEF RecoveryIsTrue, MemoryKnows, TypeOK, Index
  <1> QED BY <1>3, <1>4, <1>5, <1>6

\* A line about a key of which there is no file in the making, written while
\* nobody waits for the flush, leaves what is known of the other keys.
LEMMA OthersKept ==
  ASSUME TypeOK, CacheInv, tail # "corrupt",
         NEW op \in {"CLEAN", "DIRTY", "READ", "REMOVE"},
         NEW k \in Keys, NEW n \in Nat, Write(op, k, n),
         \A j \in Keys : adder[j] # "flush",
         UNCHANGED journal,
         NEW j \in Keys \ {k},
         adder'[j] = adder[j], clean'[j] = clean[j], dirty'[j] = dirty[j]
  PROVE  JournalKnows(j)'
  <1>1. JournalKnows(j)
    BY DEF CacheInv, JournalInv
  <1>2. \A i \in Lines' :
          \/ i \in Lines /\ buffer'[i] = buffer[i]
          \/ buffer'[i] = [op |-> op, key |-> k, len |-> n]
    BY WriteAt
  <1>3. adder'[j] # "flush"
    OBVIOUS
  <1>4. \A i \in Lines' : buffer'[i].key = j => i \in Lines /\ buffer'[i] = buffer[i]
    BY <1>2
  <1> HIDE DEF Exists
  <1> QED BY <1>1, <1>3, <1>4 DEF JournalKnows

\* A thumbnail is read.
LEMMA GetKeeps ==
  ASSUME TypeOK, CacheInv, NEW k \in Keys, Get(k)
  PROVE  CacheInv'
  <1> USE DEF CacheInv
  <1>1. /\ UNCHANGED <<open, index, trimming, adder, clean, dirty, journal, tail>>
        /\ open /\ \A j \in Keys : adder[j] = "idle"
        /\ Exists(clean[k]) /\ Write("READ", k, 0)
    BY DEF Get, Free, NoAdder, fileVars, journalVars
  <1>2. MemoryInv'
    BY <1>1 DEF MemoryInv, MemoryKnows, NoAdder
  <1>3. WholeFiles' /\ RecoveryIsTrue'
    BY <1>1 DEF WholeFiles, RecoveryIsTrue
  <1>4. JournalInv'
    <2> SUFFICES ASSUME tail # "corrupt", NEW j \in Keys
        PROVE  JournalKnows(j)'
      BY <1>1 DEF JournalInv
    <2>1. 0 \in Nat /\ "READ" \in {"CLEAN", "DIRTY", "READ", "REMOVE"}
      OBVIOUS
    <2>2. CASE j # k
      BY <1>1, <2>1, <2>2, OthersKept
    <2>3. CASE j = k
      <3>1. JournalKnows(j) /\ MemoryKnows(j)
        BY DEF JournalInv, MemoryInv
      <3>2. \A i \in Lines' :
              \/ i \in Lines /\ buffer'[i] = buffer[i]
              \/ buffer'[i] = [op |-> "READ", key |-> k, len |-> 0]
        BY <1>1, <2>1, WriteAt
      <3>3. adder[j] = "idle" /\ ~Exists(dirty[j])
        BY <1>1, <2>3, <3>1 DEF MemoryKnows
      <3> QED BY <1>1, <3>1, <3>2, <3>3 DEF JournalKnows, Flushed
    <2> QED BY <2>2, <2>3
  <1> QED BY <1>2, <1>3, <1>4

\* What a step of one addition leaves of the other keys.
LEMMA OtherMemory ==
  ASSUME CacheInv, NEW j \in Keys, open' = open,
         adder'[j] = adder[j], clean'[j] = clean[j], dirty'[j] = dirty[j],
         j \in index'.readable <=> j \in index.readable,
         j \in index'.editing <=> j \in index.editing,
         index'.length[j] = index.length[j]
  PROVE  MemoryKnows(j)'
  <1>1. MemoryKnows(j)
    BY DEF CacheInv, MemoryInv
  <1> QED BY <1>1 DEF MemoryKnows, Exists

\* An edit begins, and its line is on its way to the journal.
LEMMA EditKeeps ==
  ASSUME TypeOK, CacheInv, NEW k \in Keys, AddEdits(k)
  PROVE  CacheInv'
  <1> USE DEF CacheInv
  <1>1. /\ UNCHANGED <<open, trimming, clean, dirty, journal, tail>>
        /\ open /\ ~trimming /\ \A j \in Keys : adder[j] # "flush"
        /\ adder[k] = "edit" /\ adder' = [adder EXCEPT ![k] = "flush"]
        /\ k \notin index.editing /\ index' = Edited(index, k)
        /\ Write("DIRTY", k, 0)
    BY DEF AddEdits, Edit, Free, fileVars, journalVars
  <1>2. adder'[k] = "flush" /\ \A j \in Keys \ {k} : adder'[j] = adder[j]
    BY <1>1 DEF TypeOK
  <1>3. MemoryKnows(k) /\ ~Exists(clean[k]) /\ ~Exists(dirty[k])
    BY <1>1 DEF MemoryInv, MemoryKnows
  <1>4. /\ k \in index'.editing
        /\ \A j \in Keys \ {k} :
             /\ j \in index'.readable <=> j \in index.readable
             /\ j \in index'.editing <=> j \in index.editing
             /\ index'.length[j] = index.length[j]
    BY <1>1 DEF Edited, TypeOK, Index
  <1>5. ASSUME NEW j \in Keys PROVE MemoryKnows(j)'
    <2>1. CASE j = k
      BY <2>1, <1>1, <1>2, <1>3, <1>4 DEF MemoryKnows, Flushed
    <2>2. CASE j # k
      <3>1. adder'[j] = adder[j] /\ clean'[j] = clean[j] /\ dirty'[j] = dirty[j]
        BY <2>2, <1>1, <1>2
      <3>2. /\ open' = open
            /\ j \in index'.readable <=> j \in index.readable
            /\ j \in index'.editing <=> j \in index.editing
            /\ index'.length[j] = index.length[j]
        BY <2>2, <1>1, <1>4
      <3> QED BY <3>1, <3>2, OtherMemory
    <2> QED BY <2>1, <2>2
  <1>6. MemoryInv'
    BY <1>1, <1>5 DEF MemoryInv
  <1>7. WholeFiles' /\ RecoveryIsTrue'
    BY <1>1 DEF WholeFiles, RecoveryIsTrue
  <1>8. JournalInv'
    <2> SUFFICES ASSUME tail # "corrupt", NEW j \in Keys
        PROVE  JournalKnows(j)'
      BY <1>1 DEF JournalInv
    <2>1. 0 \in Nat /\ "DIRTY" \in {"CLEAN", "DIRTY", "READ", "REMOVE"}
      OBVIOUS
    <2>2. CASE j # k
      BY <1>1, <1>2, <2>1, <2>2, OthersKept
    <2>3. CASE j = k
      <3>1. /\ buffer' # <<>>
            /\ buffer'[Len(buffer')] = [op |-> "DIRTY", key |-> k, len |-> 0]
        BY <1>1, <2>1, WriteType DEF TypeOK, Line
      <3> QED BY <1>1, <1>2, <1>3, <2>3, <3>1 DEF JournalKnows, Flushed
    <2> QED BY <2>2, <2>3
  <1> QED BY <1>6, <1>7, <1>8

\* The line is flushed: the journal knows of the edit before there is a file.
LEMMA FlushedKeeps ==
  ASSUME TypeOK, CacheInv, NEW k \in Keys, AddFlushed(k)
  PROVE  CacheInv'
  <1> USE DEF CacheInv
  <1>1. /\ UNCHANGED <<open, index, trimming, buffer, clean, dirty, journal, tail>>
        /\ open /\ adder[k] = "flush" /\ buffer = <<>> /\ Lines' = {}
        /\ adder'[k] = "create" /\ \A j \in Keys \ {k} : adder'[j] = adder[j]
    BY EmptySeq DEF AddFlushed, fileVars, journalVars, TypeOK, Lines
  <1>2. MemoryInv'
    BY <1>1 DEF MemoryInv, MemoryKnows, Flushed
  <1>3. WholeFiles' /\ RecoveryIsTrue'
    BY <1>1 DEF WholeFiles, RecoveryIsTrue
  <1>4. JournalInv'
    <2> SUFFICES ASSUME tail # "corrupt", NEW j \in Keys
        PROVE  JournalKnows(j)'
      BY <1>1 DEF JournalInv
    <2>1. JournalKnows(j) /\ JournalKnows(k)
      BY DEF JournalInv
    <2>2. CASE j = k
      BY <1>1, <2>1, <2>2 DEF JournalKnows
    <2>3. CASE j # k
      BY <1>1, <2>1, <2>3 DEF JournalKnows
    <2> QED BY <2>2, <2>3
  <1> QED BY <1>2, <1>3, <1>4

\* A step of an addition that has its flushed line, and writes none: what it
\* leaves in the unpublished file is the journal's business already.
LEMMA InTheMaking ==
  ASSUME TypeOK, CacheInv, NEW k \in Keys, open, adder[k] \in Flushed,
         UNCHANGED <<open, index, trimming, buffer, clean, journal, tail>>,
         adder'[k] \in Flushed \cup {"idle"},
         adder'[k] = "commit" => dirty'[k].state = "whole",
         \A j \in Keys \ {k} : adder'[j] = adder[j] /\ dirty'[j] = dirty[j]
  PROVE  CacheInv'
  <1> USE DEF CacheInv
  <1>1. MemoryKnows(k) /\ ~Exists(clean[k]) /\ k \in index.editing
    BY DEF MemoryInv, MemoryKnows, Flushed
  <1>2. ASSUME NEW j \in Keys PROVE MemoryKnows(j)'
    <2>1. CASE j = k
      BY <2>1, <1>1 DEF MemoryKnows
    <2>2. CASE j # k
      BY <2>2, OtherMemory
    <2> QED BY <2>1, <2>2
  <1>3. adder'[k] # "flush"
    BY DEF Flushed
  <1>4. MemoryInv'
    BY <1>2, <1>3 DEF MemoryInv
  <1>5. WholeFiles' /\ RecoveryIsTrue'
    BY DEF WholeFiles, RecoveryIsTrue
  <1>6. JournalInv'
    <2> SUFFICES ASSUME tail # "corrupt", NEW j \in Keys
        PROVE  JournalKnows(j)'
      BY DEF JournalInv
    <2>1. JournalKnows(j) /\ JournalKnows(k)
      BY DEF JournalInv
    <2>2. CASE j = k
      BY <1>1, <1>3, <2>1, <2>2 DEF JournalKnows, Lines
    <2>3. CASE j # k
      BY <2>1, <2>3 DEF JournalKnows, Lines
    <2> QED BY <2>2, <2>3
  <1> QED BY <1>4, <1>5, <1>6

\* Creating, writing and giving up the file.
LEMMA MakingKeeps ==
  ASSUME TypeOK, CacheInv, NEW k \in Keys,
         AddCreates(k) \/ AddCompresses(k) \/ AddThrows(k)
  PROVE  CacheInv'
  <1> USE DEF TypeOK, Flushed
  <1>1. CASE AddCreates(k)
    <2>1. /\ open /\ adder[k] \in Flushed /\ adder'[k] = "compress"
          /\ UNCHANGED <<open, index, trimming, buffer, clean, journal, tail>>
          /\ \A j \in Keys \ {k} : adder'[j] = adder[j] /\ dirty'[j] = dirty[j]
      BY <1>1 DEF AddCreates, Free, journalVars
    <2> QED BY <2>1, InTheMaking
  <1>2. CASE AddCompresses(k)
    <2>1. /\ open /\ adder[k] \in Flushed /\ adder'[k] \in {"commit", "failed"}
          /\ UNCHANGED <<open, index, trimming, buffer, clean, journal, tail>>
          /\ \A j \in Keys \ {k} : adder'[j] = adder[j] /\ dirty'[j] = dirty[j]
      BY <1>2 DEF AddCompresses, journalVars
    <2>2. adder'[k] = "commit" => dirty'[k].state = "whole"
      BY <1>2 DEF AddCompresses
    <2> QED BY <2>1, <2>2, InTheMaking
  <1>3. CASE AddThrows(k)
    <2>1. /\ open /\ adder[k] \in Flushed /\ adder'[k] = "idle"
          /\ UNCHANGED <<open, index, trimming, buffer, clean, journal, tail>>
          /\ \A j \in Keys \ {k} : adder'[j] = adder[j] /\ dirty'[j] = dirty[j]
      BY <1>3 DEF AddThrows, fileVars, journalVars
    <2> QED BY <2>1, InTheMaking
  <1> QED BY <1>1, <1>2, <1>3

\* A step of an addition that writes no line and touches no file.
LEMMA WaitingKeeps ==
  ASSUME TypeOK, CacheInv, NEW k \in Keys, Add(k) \/ AddRefused(k) \/ GetMisses(k)
  PROVE  CacheInv'
  <1> USE DEF CacheInv
  <1>1. /\ UNCHANGED <<open, index, trimming, buffer, clean, dirty, journal, tail>>
        /\ open /\ ~trimming /\ \A j \in Keys : adder[j] # "flush"
        /\ \A j \in Keys \ {k} : adder'[j] = adder[j]
        /\ adder'[k] \in {"idle", "edit"}
        /\ adder'[k] = "edit" => ~Exists(clean[k])
    <2>1. MemoryKnows(k)
      BY DEF MemoryInv
    <2>2. CASE Add(k)
      BY <2>1, <2>2
      DEF Add, Missing, Free, NoAdder, fileVars, journalVars, TypeOK, MemoryKnows
    <2>3. CASE AddRefused(k)
      BY <2>3 DEF AddRefused, Free, fileVars, journalVars, TypeOK
    <2>4. CASE GetMisses(k)
      BY <2>4 DEF GetMisses, Missing, Free, NoAdder, fileVars, journalVars
    <2> QED BY <2>2, <2>3, <2>4
  <1>2. ASSUME NEW j \in Keys PROVE MemoryKnows(j)'
    <2>1. MemoryKnows(j)
      BY DEF MemoryInv
    <2>2. CASE j = k
      BY <1>1, <2>1, <2>2 DEF MemoryKnows, Flushed
    <2>3. CASE j # k
      BY <1>1, <2>1, <2>3 DEF MemoryKnows
    <2> QED BY <2>2, <2>3
  <1>3. MemoryInv'
    BY <1>1, <1>2 DEF MemoryInv
  <1>4. WholeFiles' /\ RecoveryIsTrue'
    BY <1>1 DEF WholeFiles, RecoveryIsTrue
  <1>5. JournalInv'
    <2> SUFFICES ASSUME tail # "corrupt", NEW j \in Keys
        PROVE  JournalKnows(j)'
      BY <1>1 DEF JournalInv
    <2>1. JournalKnows(j)
      BY DEF JournalInv
    <2>2. CASE j = k
      BY <1>1, <2>1, <2>2 DEF JournalKnows, Flushed, Lines
    <2>3. CASE j # k
      BY <1>1, <2>1, <2>3 DEF JournalKnows, Lines
    <2> QED BY <2>2, <2>3
  <1> QED BY <1>3, <1>4, <1>5

\* A step that ends an addition, with a line about its key.
LEMMA EndOfAddition ==
  ASSUME TypeOK, CacheInv, NEW k \in Keys, open, ~trimming,
         \A j \in Keys : adder[j] # "flush",
         adder[k] \in Flushed,
         NEW op \in {"CLEAN", "DIRTY", "READ", "REMOVE"}, NEW n \in Nat,
         Write(op, k, n),
         UNCHANGED <<open, trimming, journal, tail>>,
         adder'[k] = "idle", ~Exists(dirty'[k]),
         \A j \in Keys \ {k} :
           /\ adder'[j] = adder[j] /\ clean'[j] = clean[j] /\ dirty'[j] = dirty[j]
           /\ j \in index'.readable <=> j \in index.readable
           /\ j \in index'.editing <=> j \in index.editing
           /\ index'.length[j] = index.length[j],
         Exists(clean'[k]) =>
           /\ op = "CLEAN" /\ n = clean'[k].len /\ clean'[k].state = "whole"
           /\ k \in index'.readable \ index'.editing /\ index'.length[k] = n
  PROVE  CacheInv'
  <1> USE DEF CacheInv
  <1>1. ASSUME NEW j \in Keys PROVE MemoryKnows(j)'
    <2>1. CASE j = k
      BY <2>1 DEF MemoryKnows, Flushed
    <2>2. CASE j # k
      BY <2>2, OtherMemory
    <2> QED BY <2>1, <2>2
  <1>2. MemoryInv'
    BY <1>1 DEF MemoryInv
  <1>3. WholeFiles'
    BY DEF WholeFiles
  <1>4. tail # "corrupt" => k \in journal.editing /\ \A i \in Lines : buffer[i].key # k
    BY DEF JournalInv, JournalKnows
  <1>5. RecoveryIsTrue'
    BY <1>4 DEF RecoveryIsTrue, TypeOK, Index
  <1>6. JournalInv'
    <2> SUFFICES ASSUME tail # "corrupt", NEW j \in Keys
        PROVE  JournalKnows(j)'
      BY DEF JournalInv
    <2>1. CASE j # k
      BY <2>1, OthersKept
    <2>2. CASE j = k
      <3>1. \A i \in Lines' :
              \/ i \in Lines /\ buffer'[i] = buffer[i]
              \/ buffer'[i] = [op |-> op, key |-> k, len |-> n]
        BY WriteAt
      <3>2. \A i \in Lines' : buffer'[i].key = k =>
              buffer'[i].op = op /\ buffer'[i].len = n
        BY <1>4, <3>1
      <3> QED BY <1>4, <2>2, <3>2 DEF JournalKnows, Entries, Flushed
    <2> QED BY <2>1, <2>2
  <1> QED BY <1>2, <1>3, <1>5, <1>6

\* An addition is committed, or given up after an error.
LEMMA CommitKeeps ==
  ASSUME TypeOK, CacheInv, NEW k \in Keys, AddCommits(k) \/ AddFails(k)
  PROVE  CacheInv'
  <1> USE DEF Flushed, Free, journalVars, Exists
  <1>1. CASE AddCommits(k)
    <2>1. /\ open /\ ~trimming /\ \A j \in Keys : adder[j] # "flush"
          /\ adder[k] = "commit" /\ UNCHANGED <<open, trimming, journal, tail>>
          /\ Write("CLEAN", k, dirty[k].len)
          /\ clean' = [clean EXCEPT ![k] = dirty[k]]
          /\ dirty' = [dirty EXCEPT ![k] = NoFile]
          /\ adder' = [adder EXCEPT ![k] = "idle"]
          /\ index' = Published(index, k, dirty[k].len)
      BY <1>1 DEF AddCommits, Publish
    <2>2. dirty[k].state = "whole"
      BY <2>1 DEF CacheInv, MemoryInv, MemoryKnows
    <2>3. dirty[k].len \in Nat /\ "CLEAN" \in {"CLEAN", "DIRTY", "READ", "REMOVE"}
      BY DEF TypeOK
    <2>4. /\ clean'[k] = dirty[k] /\ ~Exists(dirty'[k]) /\ adder'[k] = "idle"
          /\ k \in index'.readable \ index'.editing
          /\ index'.length[k] = dirty[k].len
      BY <2>1 DEF TypeOK, Published, Index
    <2>5. \A j \in Keys \ {k} :
            /\ adder'[j] = adder[j] /\ clean'[j] = clean[j] /\ dirty'[j] = dirty[j]
            /\ j \in index'.readable <=> j \in index.readable
            /\ j \in index'.editing <=> j \in index.editing
            /\ index'.length[j] = index.length[j]
      BY <2>1 DEF TypeOK, Published, Index
    <2> HIDE DEF Exists
    <2> QED BY <2>1, <2>2, <2>3, <2>4, <2>5, EndOfAddition
  <1>2. CASE AddFails(k)
    <2>1. /\ open /\ ~trimming /\ \A j \in Keys : adder[j] # "flush"
          /\ adder[k] = "failed" /\ UNCHANGED <<open, trimming, clean, journal, tail>>
          /\ dirty' = [dirty EXCEPT ![k] = NoFile]
          /\ adder' = [adder EXCEPT ![k] = "idle"]
      BY <1>2 DEF AddFails
    <2>2. ~Exists(clean'[k])
      BY <2>1 DEF CacheInv, MemoryInv, MemoryKnows
    <2>3. ~Exists(dirty'[k]) /\ adder'[k] = "idle"
      BY <2>1 DEF TypeOK
    <2>4. \A j \in Keys \ {k} :
            adder'[j] = adder[j] /\ clean'[j] = clean[j] /\ dirty'[j] = dirty[j]
      BY <2>1 DEF TypeOK
    <2>5. \A j \in Keys \ {k} :
            /\ j \in index'.readable <=> j \in index.readable
            /\ j \in index'.editing <=> j \in index.editing
            /\ index'.length[j] = index.length[j]
      <3>1. CASE index' = [index EXCEPT !.editing = @ \ {k}]
        BY <3>1 DEF TypeOK, Index
      <3>2. CASE index' = Without(index, {k})
        BY <3>2 DEF Without, TypeOK, Index
      <3> QED BY <1>2, <3>1, <3>2 DEF AddFails
    <2>6. /\ 0 \in Nat /\ index.length[k] \in Nat
          /\ "CLEAN" \in {"CLEAN", "DIRTY", "READ", "REMOVE"}
          /\ "REMOVE" \in {"CLEAN", "DIRTY", "READ", "REMOVE"}
      BY DEF TypeOK, Index
    <2> HIDE DEF Exists
    <2>7. CASE Write("CLEAN", k, index.length[k])
      BY <2>1, <2>2, <2>3, <2>4, <2>5, <2>6, <2>7, EndOfAddition
    <2>8. CASE Write("REMOVE", k, 0)
      BY <2>1, <2>2, <2>3, <2>4, <2>5, <2>6, <2>8, EndOfAddition
    <2> QED BY <1>2, <2>7, <2>8 DEF AddFails
  <1> QED BY <1>1, <1>2

\* A removal, by the viewer or by an eviction.
LEMMA RemovalKeeps ==
  ASSUME TypeOK, CacheInv, NEW k \in Keys, open,
         RemoveRefused(k) \/ RemoveFails(k) \/ RemoveDone(k),
         \A j \in Keys : adder[j] # "flush",
         UNCHANGED <<open, adder, dirty, journalVars>>, trimming' => trimming
  PROVE  CacheInv'
  <1>1. CASE RemoveRefused(k) \/ RemoveFails(k)
    <2>1. UNCHANGED <<open, index, buffer, adder, clean, dirty, journal, tail>>
      BY <1>1 DEF RemoveRefused, RemoveFails, journalVars
    <2>2. MemoryInv'
      BY <2>1 DEF CacheInv, MemoryInv, MemoryKnows, NoAdder
    <2>3. JournalInv'
      BY <2>1 DEF CacheInv, JournalInv, JournalKnows, Lines
    <2>4. WholeFiles' /\ RecoveryIsTrue'
      BY <2>1 DEF CacheInv, WholeFiles, RecoveryIsTrue
    <2> QED BY <2>2, <2>3, <2>4 DEF CacheInv
  <1>2. CASE RemoveDone(k)
    <2>1. /\ \A j \in Keys : MemoryKnows(j)'
          /\ JournalInv' /\ WholeFiles' /\ RecoveryIsTrue'
      BY <1>2, RemoveDoneKeeps
    <2>2. MemoryInv'
      BY <2>1 DEF MemoryInv
    <2> QED BY <2>1, <2>2 DEF CacheInv
  <1> QED BY <1>1, <1>2

\* Clean-ups.
LEMMA TrimKeeps ==
  ASSUME TypeOK, CacheInv, Trim
  PROVE  CacheInv'
  <1> USE DEF fileVars, journalVars
  <1>1. CASE TrimBegins
    <2>1. UNCHANGED <<open, index, buffer, adder, clean, dirty, journal, tail>>
      BY <1>1 DEF TrimBegins
    <2>2. MemoryInv'
      BY <1>1, <2>1 DEF CacheInv, MemoryInv, MemoryKnows, NoAdder, TrimBegins, Free
    <2>3. JournalInv'
      BY <2>1 DEF CacheInv, JournalInv, JournalKnows, Lines
    <2>4. WholeFiles' /\ RecoveryIsTrue'
      BY <2>1 DEF CacheInv, WholeFiles, RecoveryIsTrue
    <2> QED BY <2>2, <2>3, <2>4 DEF CacheInv
  <1>2. CASE TrimEvicts
    <2>1. /\ open /\ trimming /\ \A j \in Keys : adder[j] # "flush"
          /\ UNCHANGED <<open, adder, dirty, journalVars>>
      BY <1>2 DEF TrimEvicts, CacheInv, MemoryInv
    <2>2. PICK k \in Keys : RemoveRefused(k) \/ RemoveFails(k) \/ RemoveDone(k)
      BY <1>2, EvictsKey
    <2> QED BY <2>1, <2>2, RemovalKeeps
  <1>3. CASE TrimEndsPlain
    <2>1. UNCHANGED <<open, index, buffer, adder, clean, dirty, journal, tail>> /\ ~trimming'
      BY <1>3 DEF TrimEndsPlain
    <2>2. MemoryInv'
      BY <2>1 DEF CacheInv, MemoryInv, MemoryKnows, NoAdder
    <2>3. JournalInv'
      BY <2>1 DEF CacheInv, JournalInv, JournalKnows, Lines
    <2>4. WholeFiles' /\ RecoveryIsTrue'
      BY <2>1 DEF CacheInv, WholeFiles, RecoveryIsTrue
    <2> QED BY <2>2, <2>3, <2>4 DEF CacheInv
  <1>4. CASE RebuildJournal
    BY <1>4, RebuildKeeps
  <1> QED BY <1>1, <1>2, <1>3, <1>4 DEF Trim

\* Every step keeps the invariant.
LEMMA CacheStep == TypeOK /\ CacheInv /\ [Next]_cacheVars => CacheInv'
  <1> SUFFICES ASSUME TypeOK, CacheInv, [Next]_cacheVars PROVE CacheInv'
    OBVIOUS
  <1>1. CASE Open \/ OpenCorrupt \/ Crash \/ Spill \/ Trim
    BY <1>1, OpenKeeps, OpenCorruptKeeps, CrashKeeps, SpillKeeps, TrimKeeps
  <1>2. ASSUME NEW k \in Keys, Get(k) \/ GetMisses(k) \/ Adding(k) \/ Remove(k)
        PROVE  CacheInv'
    <2>1. CASE Remove(k)
      BY <2>1, RemovalKeeps DEF Remove, Free
    <2> QED
      BY <1>2, <2>1, GetKeeps, WaitingKeeps, EditKeeps, FlushedKeeps, MakingKeeps,
         CommitKeeps
      DEF Adding
  <1>3. CASE UNCHANGED cacheVars
    BY <1>3, FrameKeeps DEF cacheVars, memoryVars, fileVars, journalVars
  <1> QED BY <1>1, <1>2, <1>3 DEF Next, Live

\* The empty cache satisfies it.
LEMMA CacheStart == Init => CacheInv
  <1> SUFFICES ASSUME Init PROVE CacheInv
    OBVIOUS
  <1> USE DEF Init, Exists
  <1>1. MemoryInv
    BY DEF MemoryInv, MemoryKnows, NoAdder, Flushed
  <1>2. JournalInv
    BY DEF JournalInv, JournalKnows, Flushed
  <1>3. WholeFiles /\ RecoveryIsTrue
    BY DEF WholeFiles, RecoveryIsTrue, NoIndex
  <1> QED BY <1>1, <1>2, <1>3 DEF CacheInv

\* The strengthening of the three properties is an invariant: what the process
\* knows of the files, and what the journal with the lines on their way to it
\* says of them, is true, whatever edits, deletions, evictions, failures and
\* deaths of the process came before.
THEOREM CacheInvariant == Spec => [](TypeOK /\ CacheInv)
  <1>1. Init => TypeOK /\ CacheInv
    BY CacheStart, TypeStart
  <1>2. TypeOK /\ CacheInv /\ [Next]_cacheVars => (TypeOK /\ CacheInv)'
    BY TypeStep, CacheStep
  <1> QED BY <1>1, <1>2, PTL DEF Spec

\* Wherever the process dies, the journal on disk knows every file in the cache,
\* published or not: none is forgotten, to fill the device for ever.
THEOREM CacheNeverLeaks == Spec => []NoLeak
  <1>1. CacheInv => NoLeak
    <2> SUFFICES ASSUME CacheInv, tail # "corrupt", NEW k \in Keys
        PROVE  Exists(clean[k]) \/ Exists(dirty[k]) => k \in Entries(journal)
      BY DEF NoLeak
    <2>1. JournalKnows(k)
      BY DEF CacheInv, JournalInv
    <2> QED BY <2>1 DEF JournalKnows, Entries
  <1> QED BY <1>1, CacheInvariant, PTL

\* A thumbnail that can be read was written to its end without an error, by this
\* process or by one that was killed since.
THEOREM CacheServesWholeFiles == Spec => []WholeFiles
  <1>1. CacheInv => WholeFiles
    BY DEF CacheInv
  <1> QED BY <1>1, CacheInvariant, PTL

\* The process that opens the cache next reads the true length of every file it
\* keeps.
THEOREM CacheRecoversTruly == Spec => []RecoveryIsTrue
  <1>1. CacheInv => RecoveryIsTrue
    BY DEF CacheInv
  <1> QED BY <1>1, CacheInvariant, PTL
------------------------------------------------------------------------------
\* The sum and the order below are defined by recursion.  What they compute is
\* proved by the smallest counterexample: the strict subsets of a finite set are
\* well-founded, so that among the sets, or the numbers, for which a statement
\* fails there is a minimal one.

\* A family of subsets of a finite set has a minimal member.
LEMMA SmallestSet ==
  ASSUME NEW S, IsFiniteSet(S), NEW T \in SUBSET (SUBSET S), T # {}
  PROVE  \E x \in T : \A y \in T : y \subseteq x => y = x
<1>1. IsWellFoundedOn(StrictSubsetOrdering(S), FiniteSubsetsOf(S))
  BY FS_StrictSubsetOrderingWellFounded
<1>2. T \subseteq FiniteSubsetsOf(S)
  BY FS_FiniteSubsetsOfFinite
<1>3. \E x \in T : \A y \in T : ~ (<<y, x>> \in StrictSubsetOrdering(S))
  BY <1>1, <1>2, WFMin
<1> QED
  BY <1>3 DEF StrictSubsetOrdering

\* A set of naturals has a least member.
LEMMA SmallestNumber ==
  ASSUME NEW T \in SUBSET Nat, T # {}
  PROVE  \E n \in T : \A m \in T : n <= m
<1> DEFINE I == {1 .. n : n \in T}
<1>1. IsWellFoundedOn(StrictSubsetOrdering(Nat), FiniteSubsetsOf(Nat))
  BY FS_StrictSubsetOrderingWellFounded
<1>2. I \subseteq FiniteSubsetsOf(Nat) /\ I # {}
  <2>1. ASSUME NEW n \in T PROVE IsFiniteSet(1 .. n) /\ 1 .. n \subseteq Nat
     BY FS_Interval
  <2> QED BY <2>1 DEF FiniteSubsetsOf
<1>3. \E x \in I : \A y \in I : ~ (<<y, x>> \in StrictSubsetOrdering(Nat))
  <2> HIDE DEF I
  <2> QED BY <1>1, <1>2, WFMin
<1>4. PICK n \in T : \A m \in T : ~ (<<1 .. m, 1 .. n>> \in StrictSubsetOrdering(Nat))
  BY <1>3
<1>5. ASSUME NEW m \in T, m < n PROVE FALSE
  <2>1. 1 .. m \subseteq 1 .. n /\ n \in 1 .. n /\ n \notin 1 .. m
     BY <1>5
  <2>2. 1 .. m \in SUBSET Nat /\ 1 .. n \in SUBSET Nat
    OBVIOUS
  <2>3. <<1 .. m, 1 .. n>> \in StrictSubsetOrdering(Nat)
    BY <2>1, <2>2 DEF StrictSubsetOrdering
  <2> QED BY <1>4, <2>3
<1> QED
  BY <1>5
------------------------------------------------------------------------------
\* The element MapThenSumSet takes first.
Any(s) == CHOOSE x \in s : TRUE

\* g adds up f over the subsets of S.
Adds(g, f, S) ==
  g = [s \in SUBSET S |-> IF s = {} THEN 0 ELSE f[Any(s)] + g[s \ {Any(s)}]]

\* The sum is what any such function says of the whole set.
LEMMA SumUnfold ==
  ASSUME NEW f, NEW S
  PROVE  SumOver(f, S) = (CHOOSE g : Adds(g, f, S))[S]
  BY Zenon DEF SumOver, MapThenSumSet, MapThenFoldSet, Adds, Any

\* The element chosen is one of the set.
LEMMA AnyIn == ASSUME NEW s, s # {} PROVE Any(s) \in s
  BY DEF Any

\* Two functions that add up the same values agree where both do.
LEMMA AddsAgree ==
  ASSUME NEW f, NEW S, NEW T, IsFiniteSet(S), NEW g, NEW h, Adds(g, f, S), Adds(h, f, T)
  PROVE  \A s \in (SUBSET S) \cap (SUBSET T) : g[s] = h[s]
<1> DEFINE Bad == {s \in SUBSET S : s \in SUBSET T /\ g[s] # h[s]}
<1>1. SUFFICES ASSUME Bad # {} PROVE FALSE
  OBVIOUS
<1>2. PICK s \in Bad : \A y \in Bad : y \subseteq s => y = s
  <2>1. Bad \in SUBSET (SUBSET S)
    OBVIOUS
  <2> HIDE DEF Bad
  <2> QED BY <1>1, <2>1, SmallestSet
<1>3. s \subseteq S /\ s \subseteq T /\ g[s] # h[s]
  OBVIOUS
<1>a. /\ g[s] = IF s = {} THEN 0 ELSE f[Any(s)] + g[s \ {Any(s)}]
      /\ h[s] = IF s = {} THEN 0 ELSE f[Any(s)] + h[s \ {Any(s)}]
  BY <1>3 DEF Adds
<1>4. s # {}
  BY <1>3, <1>a
<1>5. s \ {Any(s)} \notin Bad
  BY <1>2, <1>4, AnyIn
<1> QED
  BY <1>3, <1>4, <1>5, <1>a

\* Over a finite set there is one.
LEMMA AddsExists ==
  ASSUME NEW f, NEW S, IsFiniteSet(S)
  PROVE  \E g : Adds(g, f, S)
<1> DEFINE Bad == {s \in SUBSET S : ~ \E g : Adds(g, f, s)}
<1>1. SUFFICES ASSUME Bad # {} PROVE FALSE
  OBVIOUS
<1>2. PICK s \in Bad : \A y \in Bad : y \subseteq s => y = s
  <2>1. Bad \in SUBSET (SUBSET S)
    OBVIOUS
  <2> HIDE DEF Bad
  <2> QED BY <1>1, <2>1, SmallestSet
<1>3. \A t \in SUBSET s : t # s => \E g : Adds(g, f, t)
  BY <1>2
<1> DEFINE G(t) == CHOOSE g : Adds(g, f, t)
           h == [t \in SUBSET s |-> IF t = {} THEN 0 ELSE f[Any(t)] + G(t \ {Any(t)})[t \ {Any(t)}]]
<1>4. \A t \in SUBSET s : t # s => Adds(G(t), f, t)
  BY <1>3, Zenon
<1>5. ASSUME NEW t \in SUBSET s, t # {}
      PROVE  h[t \ {Any(t)}] = G(t \ {Any(t)})[t \ {Any(t)}]
  <2> DEFINE u == t \ {Any(t)}
  <2>1. u \in SUBSET s /\ u # s
    BY <1>5, AnyIn
  <2>2. Adds(G(u), f, u)
    BY <1>4, <2>1, Zenon
  <2>3. G(u)[u] = IF u = {} THEN 0 ELSE f[Any(u)] + G(u)[u \ {Any(u)}]
    <3> HIDE DEF G
    <3> QED BY <2>2 DEF Adds
  <2>4. CASE u = {}
    BY <2>1, <2>3, <2>4
  <2>5. CASE u # {}
    <3> DEFINE v == u \ {Any(u)}
    <3>1. v \in SUBSET s /\ v # s /\ IsFiniteSet(u)
      <4>1. IsFiniteSet(u) BY <2>1, FS_Subset
      <4> QED BY <2>1, <2>5, AnyIn, <4>1
    <3>2. Adds(G(v), f, v)
      BY <1>4, <3>1, Zenon
    <3>3. G(u)[v] = G(v)[v]
      <4>1. v \in (SUBSET u) \cap (SUBSET v)
        OBVIOUS
      <4> HIDE DEF G, u, v
      <4> QED BY <2>2, <3>1, <3>2, <4>1, AddsAgree
    <3>4. h[u] = f[Any(u)] + G(v)[v]
      <4> HIDE DEF G
      <4> QED BY <2>1, <2>5
    <3> QED BY <2>3, <2>5, <3>3, <3>4
  <2> QED BY <2>4, <2>5
<1>6. Adds(h, f, s)
  <2>1. \A t \in SUBSET s : t # {} => h[t \ {Any(t)}] = G(t \ {Any(t)})[t \ {Any(t)}]
    BY <1>5
  <2>2. \A t \in SUBSET s : (IF t = {} THEN 0 ELSE f[Any(t)] + G(t \ {Any(t)})[t \ {Any(t)}])
             = (IF t = {} THEN 0 ELSE f[Any(t)] + h[t \ {Any(t)}])
    <3> HIDE DEF h, G
    <3> QED BY <2>1
  <2>3. h = [t \in SUBSET s |-> IF t = {} THEN 0 ELSE f[Any(t)] + h[t \ {Any(t)}]]
    <3>1. h = [t \in SUBSET s |-> IF t = {} THEN 0 ELSE f[Any(t)] + G(t \ {Any(t)})[t \ {Any(t)}]]
      OBVIOUS
    <3> HIDE DEF h, G
    <3> QED BY <2>2, <3>1
  <2> HIDE DEF h
  <2> QED BY <2>3, Zenon DEF Adds
<1> QED
  <2> HIDE DEF h
  <2> QED BY <1>2, <1>6

\* The sum satisfies the equation it is defined by.
LEMMA SumEquation ==
  ASSUME NEW f, NEW S, IsFiniteSet(S)
  PROVE  SumOver(f, S) = IF S = {} THEN 0 ELSE f[Any(S)] + SumOver(f, S \ {Any(S)})
<1> DEFINE T == S \ {Any(S)}
           g == CHOOSE g : Adds(g, f, S)
           h == CHOOSE h : Adds(h, f, T)
<1>1. IsFiniteSet(T)
  BY FS_RemoveElement, Zenon
<1>2. Adds(g, f, S) /\ Adds(h, f, T)
  BY <1>1, AddsExists, Zenon
<1>3. SumOver(f, S) = g[S] /\ SumOver(f, T) = h[T]
  BY SumUnfold, Zenon
<1> HIDE DEF g, h
<1>4. g[T] = h[T]
  <2>1. T \in (SUBSET S) \cap (SUBSET T)
    OBVIOUS
  <2> HIDE DEF T
  <2> QED BY <1>2, <2>1, AddsAgree
<1>5. g[S] = IF S = {} THEN 0 ELSE f[Any(S)] + g[T]
  BY <1>2 DEF Adds
<1> QED
  BY <1>3, <1>4, <1>5

\* The sum of naturals is a natural, and any element can be taken out first.
LEMMA SumRemove ==
  ASSUME NEW S, IsFiniteSet(S), NEW f, \A x \in S : f[x] \in Nat
  PROVE  /\ SumOver(f, S) \in Nat
         /\ \A x \in S : SumOver(f, S) = f[x] + SumOver(f, S \ {x})
<1> DEFINE Good(s) == /\ SumOver(f, s) \in Nat
                      /\ \A x \in s : SumOver(f, s) = f[x] + SumOver(f, s \ {x})
           Bad == {s \in SUBSET S : ~Good(s)}
<1>1. SUFFICES ASSUME Bad # {} PROVE FALSE
  OBVIOUS
<1>2. PICK s \in Bad : \A y \in Bad : y \subseteq s => y = s
  <2>1. Bad \in SUBSET (SUBSET S)
    OBVIOUS
  <2> HIDE DEF Bad
  <2> QED BY <1>1, <2>1, SmallestSet
<1>3. s \in SUBSET S /\ ~Good(s) /\ IsFiniteSet(s)
  BY FS_Subset
<1>4. \A t \in SUBSET s : t # s => Good(t)
  <2> HIDE DEF Good
  <2> QED BY <1>2
<1>5. ASSUME NEW t \in SUBSET s PROVE IsFiniteSet(t)
  BY <1>3, FS_Subset
<1>6. SumOver(f, s) = IF s = {} THEN 0 ELSE f[Any(s)] + SumOver(f, s \ {Any(s)})
  BY <1>3, SumEquation, Zenon
<1>7. s # {}
  BY <1>3, <1>6
<1> DEFINE a == Any(s)
<1>8. a \in s
  BY <1>7, AnyIn
<1> HIDE DEF a
<1>9. SumOver(f, s) = f[a] + SumOver(f, s \ {a})
  BY <1>6, <1>7 DEF a
<1>10. Good(s \ {a})
  <2> HIDE DEF Good
  <2> QED BY <1>4, <1>8
<1>11. SumOver(f, s) \in Nat
  BY <1>3, <1>8, <1>9, <1>10
<1>12. ASSUME NEW x \in s, x # a PROVE SumOver(f, s) = f[x] + SumOver(f, s \ {x})
  <2>1. Good(s \ {x})
    <3> HIDE DEF Good
    <3> QED BY <1>4
  <2>2. SumOver(f, s \ {a}) = f[x] + SumOver(f, (s \ {a}) \ {x})
    BY <1>10, <1>12
  <2>3. SumOver(f, s \ {x}) = f[a] + SumOver(f, (s \ {x}) \ {a})
    BY <2>1, <1>8, <1>12
  <2>4. (s \ {a}) \ {x} = (s \ {x}) \ {a}
    OBVIOUS
  <2>5. Good((s \ {a}) \ {x})
    <3> HIDE DEF Good
    <3> QED BY <1>4, <1>8
  <2>6. f[a] \in Nat /\ f[x] \in Nat /\ SumOver(f, (s \ {a}) \ {x}) \in Nat
    BY <2>5, <1>8, <1>3
  <2>7. SumOver(f, s \ {x}) = f[a] + SumOver(f, (s \ {a}) \ {x})
    BY <2>3, <2>4, Zenon
  <2> HIDE DEF Good
  <2> QED BY <1>9, <2>2, <2>6, <2>7
<1> QED
  BY <1>3, <1>9, <1>11, <1>12

\* The sum depends on the values over the set only.
LEMMA SumSame ==
  ASSUME NEW S, IsFiniteSet(S), NEW f, NEW g, \A x \in S : f[x] = g[x]
  PROVE  SumOver(f, S) = SumOver(g, S)
<1> DEFINE Bad == {s \in SUBSET S : SumOver(f, s) # SumOver(g, s)}
<1>1. SUFFICES ASSUME Bad # {} PROVE FALSE
  OBVIOUS
<1>2. PICK s \in Bad : \A y \in Bad : y \subseteq s => y = s
  <2>1. Bad \in SUBSET (SUBSET S)
    OBVIOUS
  <2> HIDE DEF Bad
  <2> QED BY <1>1, <2>1, SmallestSet
<1>3. s \in SUBSET S /\ SumOver(f, s) # SumOver(g, s) /\ IsFiniteSet(s)
  BY FS_Subset
<1>4. /\ SumOver(f, s) = IF s = {} THEN 0 ELSE f[Any(s)] + SumOver(f, s \ {Any(s)})
      /\ SumOver(g, s) = IF s = {} THEN 0 ELSE g[Any(s)] + SumOver(g, s \ {Any(s)})
  BY <1>3, SumEquation, Zenon
<1>5. s # {}
  BY <1>3, <1>4
<1>6. Any(s) \in s
  BY <1>5, AnyIn
<1>7. SumOver(f, s \ {Any(s)}) = SumOver(g, s \ {Any(s)})
  BY <1>2, <1>3, <1>6
<1> QED
  BY <1>3, <1>4, <1>5, <1>6, <1>7

\* One value changed.
LEMMA SumUpdate ==
  ASSUME NEW S, IsFiniteSet(S), NEW f \in [S -> Nat], NEW x \in S, NEW n \in Nat
  PROVE  /\ SumOver(f, S) \in Nat
         /\ SumOver([f EXCEPT ![x] = n], S) = SumOver(f, S) - f[x] + n
<1> DEFINE g == [f EXCEPT ![x] = n]
           T == S \ {x}
<1>1. IsFiniteSet(T)
  BY FS_RemoveElement, Zenon
<1>2. \A y \in S : f[y] \in Nat /\ g[y] \in Nat
  OBVIOUS
<1>3. /\ SumOver(f, S) = f[x] + SumOver(f, T)
      /\ SumOver(g, S) = g[x] + SumOver(g, T)
      /\ SumOver(f, S) \in Nat
  <2> HIDE DEF g
  <2> QED BY <1>2, SumRemove
<1>4. SumOver(f, T) = SumOver(g, T)
  BY <1>1, SumSame
<1>5. SumOver(f, T) \in Nat
  <2>1. \A y \in T : f[y] \in Nat
    OBVIOUS
  <2> QED BY <1>1, <2>1, SumRemove
<1>6. g[x] = n /\ f[x] \in Nat
  OBVIOUS
<1> HIDE DEF g, T
<1>7. SumOver(g, S) = SumOver(f, S) - f[x] + n
  BY <1>3, <1>4, <1>5, <1>6
<1> QED
  BY <1>3, <1>7 DEF g

\* A sum is that over a part and that over the rest.
LEMMA SumSplit ==
  ASSUME NEW S, IsFiniteSet(S), NEW f, \A x \in S : f[x] \in Nat, NEW T \in SUBSET S
  PROVE  /\ SumOver(f, T) \in Nat /\ SumOver(f, S \ T) \in Nat
         /\ SumOver(f, S) = SumOver(f, T) + SumOver(f, S \ T)
<1> DEFINE R == S \ T
           Bad == {U \in SUBSET T : SumOver(f, R \cup U) # SumOver(f, U) + SumOver(f, R)}
<1>1. \A U \in SUBSET S :
        /\ IsFiniteSet(U) /\ SumOver(f, U) \in Nat
        /\ \A x \in U : SumOver(f, U) = f[x] + SumOver(f, U \ {x})
  <2> TAKE U \in SUBSET S
  <2>1. IsFiniteSet(U) /\ \A x \in U : f[x] \in Nat
    BY FS_Subset
  <2> QED BY <2>1, SumRemove
<1>2. Bad = {}
  <2> SUFFICES ASSUME Bad # {} PROVE FALSE
    OBVIOUS
  <2>1. PICK U \in Bad : \A V \in Bad : V \subseteq U => V = U
    <3>1. Bad \in SUBSET (SUBSET T) /\ IsFiniteSet(T)
      BY <1>1
    <3> HIDE DEF Bad
    <3> QED BY <3>1, SmallestSet
  <2>2. U \in SUBSET T /\ SumOver(f, R \cup U) # SumOver(f, U) + SumOver(f, R)
    OBVIOUS
  <2>3. U # {}
    <3>1. SumOver(f, {}) = 0
      BY FS_EmptySet, SumEquation, Zenon
    <3>2. R \cup {} = R /\ SumOver(f, R) \in Nat
      BY <1>1
    <3>3. SUFFICES ASSUME U = {} PROVE FALSE
      OBVIOUS
    <3>4. SumOver(f, R) # SumOver(f, {}) + SumOver(f, R)
      BY <2>2, <3>2, <3>3, Zenon
    <3> HIDE DEF R, Bad
    <3> QED BY <3>1, <3>2, <3>4
  <2>4. PICK a : a \in U
    BY <2>3
  <2> DEFINE V == U \ {a}
  <2>5. V \in SUBSET T /\ V # U /\ V \subseteq U /\ (R \cup U) \ {a} = R \cup V
    BY <2>2, <2>4
  <2>6. SumOver(f, R \cup V) = SumOver(f, V) + SumOver(f, R)
    BY <2>1, <2>5
  <2>7. SumOver(f, R \cup U) = f[a] + SumOver(f, R \cup V)
    <3>1. R \cup U \in SUBSET S /\ a \in R \cup U
      BY <2>2, <2>4
    <3>2. SumOver(f, R \cup U) = f[a] + SumOver(f, (R \cup U) \ {a})
      BY <1>1, <3>1
    <3> QED BY <2>5, <3>2, Zenon
  <2>8. SumOver(f, U) = f[a] + SumOver(f, V) /\ f[a] \in Nat
    BY <1>1, <2>2, <2>4
  <2>9. SumOver(f, V) \in Nat /\ SumOver(f, R) \in Nat
    BY <1>1, <2>5
  <2> HIDE DEF R, V, Bad
  <2> QED BY <2>2, <2>6, <2>7, <2>8, <2>9
<1>3. SumOver(f, R \cup T) = SumOver(f, T) + SumOver(f, R)
  BY <1>2
<1>4. R \cup T = S
  OBVIOUS
<1> QED BY <1>1, <1>3, <1>4

\* Nothing adds up to nought.
LEMMA SumZero ==
  ASSUME NEW S, IsFiniteSet(S)
  PROVE  SumOver([x \in S |-> 0], S) = 0
<1> DEFINE z == [x \in S |-> 0]
           Bad == {s \in SUBSET S : SumOver(z, s) # 0}
<1>1. SUFFICES ASSUME Bad # {} PROVE FALSE
  OBVIOUS
<1>2. PICK s \in Bad : \A y \in Bad : y \subseteq s => y = s
  <2>1. Bad \in SUBSET (SUBSET S)
    OBVIOUS
  <2> HIDE DEF Bad
  <2> QED BY <1>1, <2>1, SmallestSet
<1>3. s \in SUBSET S /\ SumOver(z, s) # 0 /\ IsFiniteSet(s)
  BY FS_Subset
<1>4. SumOver(z, s) = IF s = {} THEN 0 ELSE z[Any(s)] + SumOver(z, s \ {Any(s)})
  <2> HIDE DEF z
  <2> QED BY <1>3, SumEquation, Zenon
<1>5. s # {} /\ Any(s) \in s
  BY <1>3, <1>4, AnyIn
<1>6. SumOver(z, s \ {Any(s)}) = 0
  BY <1>2, <1>5
<1>7. z[Any(s)] = 0
  BY <1>3, <1>5
<1> QED
  BY <1>3, <1>4, <1>5, <1>6, <1>7

\* A sum of noughts is nought, and a sum with one other term is that term.
LEMMA SumOfNone ==
  ASSUME NEW S, IsFiniteSet(S), NEW f
  PROVE  /\ (\A x \in S : f[x] = 0) => SumOver(f, S) = 0
         /\ \A y \in S : f[y] \in Nat /\ (\A x \in S \ {y} : f[x] = 0)
                           => SumOver(f, S) = f[y]
<1>1. ASSUME NEW R, IsFiniteSet(R), \A x \in R : f[x] = 0
      PROVE  SumOver(f, R) = 0
  <2>1. \A x \in R : f[x] = [z \in R |-> 0][x]
    BY <1>1
  <2>2. SumOver(f, R) = SumOver([z \in R |-> 0], R)
    BY <1>1, <2>1, SumSame
  <2> QED BY <1>1, <2>2, SumZero
<1>2. ASSUME NEW y \in S, f[y] \in Nat, \A x \in S \ {y} : f[x] = 0
      PROVE  SumOver(f, S) = f[y]
  <2>1. IsFiniteSet(S \ {y}) /\ \A x \in S : f[x] \in Nat
    BY <1>2, FS_RemoveElement
  <2>2. SumOver(f, S) = f[y] + SumOver(f, S \ {y})
    BY <2>1, SumRemove
  <2>3. SumOver(f, S \ {y}) = 0
    BY <1>1, <1>2, <2>1
  <2> QED BY <1>2, <2>2, <2>3
<1> QED BY <1>1, <1>2
------------------------------------------------------------------------------
\* F keeps, for every prefix of s, the elements that are not in K.
Keeps(F, s, K, n) ==
  F = [i \in 0 .. n |->
         IF i = 0 THEN <<>>
         ELSE IF s[i] \in K THEN F[i - 1] ELSE Append(F[i - 1], s[i])]

\* There is one, for prefixes of any length.
LEMMA KeepsExists ==
  ASSUME NEW s, NEW K, NEW n \in Nat
  PROVE  \E F : Keeps(F, s, K, n)
<1> DEFINE Bad == {m \in Nat : ~ \E F : Keeps(F, s, K, m)}
<1>1. SUFFICES ASSUME Bad # {} PROVE FALSE
  OBVIOUS
<1>2. PICK m \in Bad : \A j \in Bad : m <= j
  <2>1. Bad \in SUBSET Nat
    OBVIOUS
  <2> HIDE DEF Bad
  <2> QED BY <1>1, <2>1, SmallestNumber
<1>3. m # 0
  <2>1. Keeps([i \in 0 .. 0 |-> <<>>], s, K, 0)
    BY DEF Keeps
  <2> QED BY <2>1
<1>4. PICK F : Keeps(F, s, K, m - 1)
  <2>1. m - 1 \in Nat /\ m - 1 \notin Bad
    BY <1>2, <1>3
  <2> QED BY <2>1
<1> DEFINE After(t, i) == IF s[i] \in K THEN t ELSE Append(t, s[i])
           G == [i \in 0 .. m |-> IF i = m THEN After(F[m - 1], m) ELSE F[i]]
<1>5. m \in Nat \ {0} /\ 0 .. m = (0 .. (m - 1)) \cup {m}
  BY <1>3
<1>6. \A i \in 0 .. (m - 1) : F[i] = IF i = 0 THEN <<>> ELSE After(F[i - 1], i)
  BY <1>4 DEF Keeps
<1> HIDE DEF After
<1>7. \A i \in 0 .. m : G[i] = IF i = 0 THEN <<>> ELSE After(G[i - 1], i)
  <2> TAKE i \in 0 .. m
  <2>1. CASE i = m
    <3>1. G[m] = After(F[m - 1], m) /\ G[m - 1] = F[m - 1]
      BY <1>5
    <3> QED BY <1>5, <2>1, <3>1
  <2>2. CASE i # m
    <3>1. G[i] = F[i] /\ i \in 0 .. (m - 1)
      BY <1>5, <2>2
    <3>2. i # 0 => G[i - 1] = F[i - 1]
      BY <1>5, <2>2
    <3> QED BY <1>6, <3>1, <3>2
  <2> QED BY <2>1, <2>2
<1>8. Keeps(G, s, K, m)
  <2>1. G = [i \in 0 .. m |-> G[i]]
    OBVIOUS
  <2> HIDE DEF G
  <2>2. G = [i \in 0 .. m |-> IF i = 0 THEN <<>> ELSE After(G[i - 1], i)]
    BY <1>7, <2>1
  <2> QED BY <2>2, Zenon DEF Keeps, After
<1> QED
  <2> HIDE DEF G
  <2> QED BY <1>8

\* What a sequence lists after an element is appended.
LEMMA AppendLists ==
  ASSUME NEW S, NEW s \in Seq(S), NEW k \in S
  PROVE  /\ Append(s, k) \in Seq(S)
         /\ Listed(Append(s, k)) = Listed(s) \cup {k}
         /\ Once(s) /\ k \notin Listed(s) => Once(Append(s, k))
<1>1. /\ Append(s, k) \in Seq(S)
      /\ Len(s) \in Nat /\ Len(Append(s, k)) = Len(s) + 1
      /\ \A i \in 1 .. Len(s) : Append(s, k)[i] = s[i]
      /\ Append(s, k)[Len(s) + 1] = k
  OBVIOUS
<1> DEFINE t == Append(s, k)
           n == Len(s)
<1>2. 1 .. (n + 1) = (1 .. n) \cup {n + 1} /\ n + 1 \notin 1 .. n
  BY <1>1
<1> HIDE DEF t, n
<1>3. Listed(t) = Listed(s) \cup {k}
  BY <1>1, <1>2 DEF Listed, t, n
<1>4. ASSUME Once(s), k \notin Listed(s) PROVE Once(t)
  BY <1>1, <1>2, <1>4 DEF Listed, Once, t, n
<1> QED BY <1>1, <1>3, <1>4 DEF t

\* Dropping leaves the other elements, each as often as before.
LEMMA DroppedLists ==
  ASSUME NEW S, NEW s \in Seq(S), NEW K
  PROVE  /\ Dropped(s, K) \in Seq(S)
         /\ Listed(Dropped(s, K)) = Listed(s) \ K
         /\ Once(s) => Once(Dropped(s, K))
<1> DEFINE N == Len(s)
           F == CHOOSE F : Keeps(F, s, K, N)
           Prefix(n) == {s[i] : i \in 1 .. n}
           Good(n) == /\ F[n] \in Seq(S)
                      /\ Listed(F[n]) = Prefix(n) \ K
                      /\ Once(s) => Once(F[n])
           Bad == {n \in 0 .. N : ~Good(n)}
<1>1. N \in Nat /\ \A i \in 1 .. N : s[i] \in S
  OBVIOUS
<1>2. Dropped(s, K) = F[N]
  BY Zenon DEF Dropped, Keeps
<1>3. Keeps(F, s, K, N)
  BY <1>1, KeepsExists, Zenon
<1> HIDE DEF N, F
<1>4. \A i \in 0 .. N : F[i] = IF i = 0 THEN <<>>
                               ELSE IF s[i] \in K THEN F[i - 1] ELSE Append(F[i - 1], s[i])
  BY <1>3 DEF Keeps
<1>5. Bad = {}
  <2> SUFFICES ASSUME Bad # {} PROVE FALSE
    OBVIOUS
  <2>1. PICK n \in Bad : \A m \in Bad : n <= m
    <3>1. Bad \in SUBSET Nat
      BY <1>1
    <3> HIDE DEF Bad
    <3> QED BY <3>1, SmallestNumber
  <2>2. n \in 0 .. N /\ ~Good(n)
    OBVIOUS
  <2>3. Good(0)
    <3>1. F[0] = <<>>
      <4>1. 0 \in 0 .. N
        BY <1>1
      <4> QED BY <1>4, <4>1
    <3>2. Prefix(0) = {}
      OBVIOUS
    <3> QED BY <3>1, <3>2 DEF Listed, Once
  <2>4. n # 0
    BY <2>2, <2>3
  <2>5. n - 1 \in 0 .. N /\ n \in 1 .. N
    BY <1>1, <2>2, <2>4
  <2>6. Good(n - 1)
    <3>1. n \in Nat /\ ~(n <= n - 1)
      BY <1>1, <2>2
    <3>2. n - 1 \notin Bad
      <4> HIDE DEF Bad
      <4> QED BY <2>1, <3>1
    <3> HIDE DEF Good
    <3> QED BY <2>5, <3>2
  <2>7. Prefix(n) = Prefix(n - 1) \cup {s[n]} /\ s[n] \in S
    <3>1. 1 .. n = (1 .. (n - 1)) \cup {n}
      BY <1>1, <2>5
    <3> QED BY <1>1, <2>5, <3>1
  <2>8. Once(s) => s[n] \notin Prefix(n - 1)
    BY <1>1, <2>5 DEF Once, N
  <2> HIDE DEF Prefix
  <2>9. CASE s[n] \in K
    <3>1. F[n] = F[n - 1]
      BY <1>4, <2>2, <2>4, <2>9
    <3> QED BY <2>2, <2>6, <2>7, <2>9, <3>1
  <2>10. CASE s[n] \notin K
    <3>1. F[n] = Append(F[n - 1], s[n])
      BY <1>4, <2>2, <2>4, <2>10
    <3>2. /\ F[n] \in Seq(S)
          /\ Listed(F[n]) = Listed(F[n - 1]) \cup {s[n]}
          /\ Once(F[n - 1]) /\ s[n] \notin Listed(F[n - 1]) => Once(F[n])
      BY <2>6, <2>7, <3>1, AppendLists
    <3> QED BY <2>2, <2>6, <2>7, <2>8, <2>10, <3>2
  <2> QED BY <2>9, <2>10
<1>6. Good(N)
  <2>1. N \in 0 .. N
    BY <1>1
  <2> HIDE DEF Good
  <2> QED BY <1>5, <2>1
<1>7. Prefix(N) = Listed(s)
  BY DEF Listed, N
<1> HIDE DEF Prefix
<1> QED BY <1>2, <1>6, <1>7

\* Moving an element to the end loses none and repeats none.
LEMMA MovedLists ==
  ASSUME NEW S, NEW s \in Seq(S), NEW k \in S
  PROVE  /\ Moved(s, k) \in Seq(S)
         /\ Listed(Moved(s, k)) = Listed(s) \cup {k}
         /\ Once(s) => Once(Moved(s, k))
<1> DEFINE d == Dropped(s, {k})
<1>1. d \in Seq(S) /\ Listed(d) = Listed(s) \ {k} /\ (Once(s) => Once(d))
  BY DroppedLists
<1> HIDE DEF d
<1>2. Moved(s, k) = Append(d, k)
  BY DEF Moved, d
<1> QED BY <1>1, <1>2, AppendLists
------------------------------------------------------------------------------
\* The usage after the length of one entry has changed.
LEMMA UsageUpdate ==
  ASSUME NEW x \in Index, NEW k \in Keys, NEW n \in Nat
  PROVE  /\ Sum(x.length) \in Nat
         /\ Sum([x.length EXCEPT ![k] = n]) = Sum(x.length) - x.length[k] + n
<1>1. x.length \in [Keys -> Nat] /\ IsFiniteSet(Keys)
  BY CacheAssumption DEF Index
<1>2. /\ SumOver(x.length, Keys) \in Nat
      /\ SumOver([x.length EXCEPT ![k] = n], Keys) = SumOver(x.length, Keys) - x.length[k] + n
  BY <1>1, SumUpdate
<1>3. \A f : Sum(f) = SumOver(f, Keys)
  BY Zenon DEF Sum, SumOver
<1> QED BY <1>2, <1>3

\* An empty cache uses nothing.
LEMMA UsageOfNone == Sum(NoIndex.length) = 0
<1>1. SumOver([k \in Keys |-> 0], Keys) = 0
  BY CacheAssumption, SumZero
<1>2. \A f : Sum(f) = SumOver(f, Keys)
  BY Zenon DEF Sum, SumOver
<1> QED BY <1>1, <1>2 DEF NoIndex

\* An access keeps the order one of the entries.
LEMMA OrderMoved ==
  ASSUME NEW s, NEW x, NEW y, NEW k \in Keys, InOrder(s, x),
         Entries(y) = Entries(x) \cup {k}
  PROVE  InOrder(Moved(s, k), y)
<1>1. s \in Seq(Keys) /\ Once(s) /\ Listed(s) = Entries(x)
  BY DEF InOrder
<1>2. /\ Moved(s, k) \in Seq(Keys) /\ Once(Moved(s, k))
      /\ Listed(Moved(s, k)) = Listed(s) \cup {k}
  BY <1>1, MovedLists
<1> QED BY <1>1, <1>2 DEF InOrder

\* So does the removal of entries.
LEMMA OrderDropped ==
  ASSUME NEW s, NEW x, NEW y, NEW K, InOrder(s, x), Entries(y) = Entries(x) \ K
  PROVE  InOrder(Dropped(s, K), y)
<1>1. s \in Seq(Keys) /\ Once(s) /\ Listed(s) = Entries(x)
  BY DEF InOrder
<1>2. /\ Dropped(s, K) \in Seq(Keys) /\ Once(Dropped(s, K))
      /\ Listed(Dropped(s, K)) = Listed(s) \ K
  BY <1>1, DroppedLists
<1> QED BY <1>1, <1>2 DEF InOrder

\* An order of the entries is as long as they are many.
LEMMA OrderLength ==
  ASSUME NEW s, NEW x, InOrder(s, x)
  PROVE  Len(s) = Cardinality(Entries(x))
<1>1. s \in Seq(Keys) /\ Once(s) /\ Listed(s) = Entries(x)
  BY DEF InOrder
<1>2. Len(s) \in Nat /\ DOMAIN s = 1 .. Len(s)
  BY <1>1
<1>3. s \in Bijection(1 .. Len(s), Entries(x))
  <2>1. s \in [1 .. Len(s) -> Entries(x)]
    BY <1>1, <1>2 DEF Listed
  <2> QED
    BY <1>1, <2>1 DEF Once, Listed, Bijection, Injection, Surjection, IsInjective
<1>4. ExistsBijection(1 .. Len(s), Entries(x))
  BY <1>3, Zenon DEF ExistsBijection
<1> QED BY <1>2, <1>4, FS_CountingElements

\* A line more leads to what the lines before led to, unless it removes it, and
\* to the key it names.
LEMMA KnownAppended ==
  ASSUME NEW x, NEW s \in Seq(Line), NEW line \in Line, NEW k
  PROVE  /\ \A i \in 0 .. Len(s) :
              Known(x, s, i, k) => Known(x, Append(s, line), i, k)
         /\ Known(x, s, Len(s), k) /\ ~Removed(line, k) =>
              Known(x, Append(s, line), Len(s) + 1, k)
         /\ Named(line, k) => Known(x, Append(s, line), Len(s) + 1, k)
<1> DEFINE t == Append(s, line)
           m == Len(s)
<1>1. m \in Nat /\ (\A i \in 1 .. m : t[i] = s[i]) /\ t[m + 1] = line
  OBVIOUS
<1> HIDE DEF t, m
<1>2. ASSUME NEW i \in 0 .. m, Known(x, s, i, k)
      PROVE  Known(x, t, i, k)
  <2>1. \A j \in 1 .. i : t[j] = s[j]
    BY <1>1
  <2>2. i \in Nat
    BY <1>1
  <2> QED BY <1>2, <2>1, <2>2 DEF Known
<1>3. ASSUME Known(x, s, m, k), ~Removed(line, k)
      PROVE  Known(x, t, m + 1, k)
  <2>1. Known(x, t, m, k)
    BY <1>1, <1>2, <1>3
  <2>2. 1 .. (m + 1) = (1 .. m) \cup {m + 1}
    BY <1>1
  <2>3. \A i \in 1 .. m : (i + 1) .. (m + 1) = ((i + 1) .. m) \cup {m + 1}
    BY <1>1
  <2> QED BY <1>1, <1>3, <2>1, <2>2, <2>3 DEF Known
<1>4. ASSUME Named(line, k) PROVE Known(x, t, m + 1, k)
  <2>1. m + 1 \in 1 .. (m + 1) /\ ((m + 1) + 1) .. (m + 1) = {}
    BY <1>1
  <2> QED BY <1>1, <1>4, <2>1 DEF Known
<1> QED BY <1>2, <1>3, <1>4 DEF t, m

\* A line is written for an entry, or of one, or to forget one.
LEMMA TellAppended ==
  ASSUME NEW x, NEW s \in Seq(Line), NEW line \in Line, NEW E, NEW F,
         Tell(x, s, E), line.op = "READ" => line.key \in E,
         \A k \in F : (k \in E /\ ~Removed(line, k)) \/ Named(line, k)
  PROVE  Tell(x, Append(s, line), F)
<1> DEFINE t == Append(s, line)
           m == Len(s)
<1>1. /\ m \in Nat /\ Len(t) = m + 1
      /\ (\A i \in 1 .. m : t[i] = s[i]) /\ t[m + 1] = line
  OBVIOUS
<1>2. \A k : /\ \A i \in 0 .. m : Known(x, s, i, k) => Known(x, t, i, k)
             /\ Known(x, s, m, k) /\ ~Removed(line, k) => Known(x, t, m + 1, k)
             /\ Named(line, k) => Known(x, t, m + 1, k)
  BY KnownAppended
<1>3. \A k \in E : Known(x, s, m, k)
  BY DEF Tell
<1>4. \A i \in 1 .. m : s[i].op = "READ" => Known(x, s, i - 1, s[i].key)
  BY DEF Tell
<1> HIDE DEF t, m
<1>5. \A k \in F : Known(x, t, m + 1, k)
  BY <1>2, <1>3
<1>6. ASSUME NEW i \in 1 .. (m + 1), t[i].op = "READ"
      PROVE  Known(x, t, i - 1, t[i].key)
  <2>1. CASE i \in 1 .. m
    <3>1. i - 1 \in 0 .. m /\ t[i] = s[i]
      BY <1>1, <2>1
    <3>2. Known(x, s, i - 1, t[i].key)
      BY <1>4, <1>6, <2>1, <3>1
    <3> QED BY <1>2, <3>1, <3>2
  <2>2. CASE i = m + 1
    <3>1. i - 1 = m /\ m \in 0 .. m
      BY <1>1, <2>2
    <3>2. Known(x, s, m, t[i].key)
      BY <1>1, <1>3, <1>6, <2>2
    <3> QED BY <1>2, <3>1, <3>2
  <2> QED BY <1>1, <2>1, <2>2
<1> QED BY <1>1, <1>5, <1>6 DEF Tell, t

\* A line that is read is one that leads where it led before it was read.
LEMMA KnownReplayed ==
  ASSUME NEW x \in Index, NEW s \in Seq(Line), s # <<>>, NEW k \in Keys,
         NEW n \in 1 .. Len(s), Known(x, s, n, k)
  PROVE  Known(Replay(x, Head(s)), Tail(s), n - 1, k)
<1> DEFINE t == Tail(s)
           y == Replay(x, Head(s))
           line == Head(s)
<1>1. /\ line = s[1] /\ line \in Line /\ n \in Nat \ {0}
      /\ \A i \in 1 .. (n - 1) : t[i] = s[i + 1] /\ i + 1 \in 1 .. n
  OBVIOUS
<1>2. /\ k \in Entries(x) /\ ~Removed(line, k) => k \in Entries(y)
      /\ Named(line, k) => k \in Entries(y)
  <2>1. line.key \in Keys /\ line.op \in {"CLEAN", "DIRTY", "READ", "REMOVE"}
    BY <1>1 DEF Line
  <2> QED
    BY <2>1
    DEF Replay, Without, Edited, Published, Entries, Removed, Named, Index
<1> HIDE DEF t, y, line
<1>3. CASE k \in Entries(x) /\ \A i \in 1 .. n : ~Removed(s[i], k)
  <2>1. 1 \in 1 .. n
    BY <1>1
  <2>2. k \in Entries(y)
    BY <1>1, <1>2, <1>3, <2>1
  <2>3. \A i \in 1 .. (n - 1) : ~Removed(t[i], k)
    BY <1>1, <1>3
  <2> QED BY <2>2, <2>3 DEF Known, t, y, line
<1>4. ASSUME NEW i \in 1 .. n, Named(s[i], k), \A j \in i + 1 .. n : ~Removed(s[j], k)
      PROVE  Known(y, t, n - 1, k)
  <2>1. CASE i = 1
    <3>1. k \in Entries(y)
      BY <1>1, <1>2, <1>4, <2>1
    <3>2. ASSUME NEW j \in 1 .. (n - 1) PROVE ~Removed(t[j], k)
      <4>1. j + 1 \in i + 1 .. n
        BY <1>1, <2>1
      <4> QED BY <1>1, <1>4, <4>1
    <3> QED BY <3>1, <3>2 DEF Known
  <2>2. CASE i # 1
    <3>1. i - 1 \in 1 .. (n - 1) /\ (i - 1) + 1 = i
      BY <1>1, <2>2
    <3>2. Named(t[i - 1], k)
      BY <1>1, <1>4, <3>1
    <3>3. ASSUME NEW j \in (i - 1) + 1 .. (n - 1) PROVE ~Removed(t[j], k)
      <4>1. j \in 1 .. (n - 1) /\ j + 1 \in i + 1 .. n
        BY <1>1, <3>1
      <4> QED BY <1>1, <1>4, <4>1
    <3> QED BY <3>1, <3>2, <3>3 DEF Known
  <2> QED BY <2>1, <2>2
<1> QED BY <1>3, <1>4 DEF Known, t, y, line

\* What was on its way to the journal still leads to the same keys.
LEMMA TellReplayed ==
  ASSUME NEW x \in Index, NEW s \in Seq(Line), s # <<>>, NEW E \in SUBSET Keys,
         Tell(x, s, E)
  PROVE  /\ Tell(Replay(x, Head(s)), Tail(s), E)
         /\ Head(s).op = "READ" => Head(s).key \in Entries(x)
<1> DEFINE t == Tail(s)
           m == Len(s)
           y == Replay(x, Head(s))
<1>1. /\ m \in Nat \ {0} /\ Len(t) = m - 1 /\ Head(s) = s[1]
      /\ \A i \in 1 .. (m - 1) : t[i] = s[i + 1] /\ s[i + 1] \in Line
  OBVIOUS
<1>2. \A k \in Keys : \A n \in 1 .. m : Known(x, s, n, k) => Known(y, t, n - 1, k)
  BY KnownReplayed
<1>3. /\ \A k \in E : Known(x, s, m, k)
      /\ \A i \in 1 .. m : s[i].op = "READ" => Known(x, s, i - 1, s[i].key)
  BY DEF Tell
<1> HIDE DEF t, m, y
<1>4. \A k \in E : Known(y, t, m - 1, k)
  BY <1>1, <1>2, <1>3
<1>5. ASSUME NEW i \in 1 .. (m - 1), t[i].op = "READ"
      PROVE  Known(y, t, i - 1, t[i].key)
  <2>1. i \in 1 .. m /\ i + 1 \in 1 .. m /\ (i + 1) - 1 = i /\ t[i] = s[i + 1]
    BY <1>1
  <2>2. t[i].key \in Keys
    BY <1>1, <2>1 DEF Line
  <2>3. Known(x, s, i, t[i].key)
    BY <1>3, <1>5, <2>1
  <2> QED BY <1>2, <2>1, <2>2, <2>3
<1>6. s[1].op = "READ" => Known(x, s, 0, s[1].key)
  <2>1. 1 \in 1 .. m /\ 1 - 1 = 0
    BY <1>1
  <2> QED BY <1>3, <2>1
<1>7. \A k : Known(x, s, 0, k) => k \in Entries(x)
  BY DEF Known
<1> QED BY <1>1, <1>4, <1>5, <1>6, <1>7 DEF Tell, t, y

\* A line that is read, of an entry if it tells of a read, keeps the order of the
\* journal one of its entries.
LEMMA OrderReplayed ==
  ASSUME NEW x \in Index, NEW s, InOrder(s, x), NEW line \in Line,
         line.op = "READ" => line.key \in Entries(x)
  PROVE  InOrder(ReplayOrder(s, line), Replay(x, line))
<1>1. line.key \in Keys /\ line.op \in {"CLEAN", "DIRTY", "READ", "REMOVE"}
  BY DEF Line
<1>2. CASE line.op = "REMOVE"
  <2>1. Entries(Replay(x, line)) = Entries(x) \ {line.key}
    BY <1>2 DEF Replay, Without, Entries
  <2>2. ReplayOrder(s, line) = Dropped(s, {line.key})
    BY <1>2 DEF ReplayOrder
  <2> QED BY <2>1, <2>2, OrderDropped
<1>3. CASE line.op # "REMOVE"
  <2>1. Entries(Replay(x, line)) = Entries(x) \cup {line.key}
    BY <1>1, <1>3 DEF Replay, Edited, Published, Entries, Index
  <2>2. ReplayOrder(s, line) = Moved(s, line.key)
    BY <1>3 DEF ReplayOrder
  <2> QED BY <1>1, <2>1, <2>2, OrderMoved
<1> QED BY <1>2, <1>3

\* None of the changes of an index gives a length to what is not published.
LEMMA LengthsChanged ==
  ASSUME NEW x \in Index, LengthsOfReadable(x)
  PROVE  /\ \A K \in SUBSET Keys : LengthsOfReadable(Without(x, K))
         /\ \A k \in Keys : LengthsOfReadable(Edited(x, k))
         /\ \A k \in Keys, n \in Nat : LengthsOfReadable(Published(x, k, n))
         /\ LengthsOfReadable(Rebuilt(x))
<1> USE DEF LengthsOfReadable, Index
<1>1. \A K \in SUBSET Keys : LengthsOfReadable(Without(x, K))
  BY DEF Without
<1>2. \A k \in Keys : LengthsOfReadable(Edited(x, k))
  BY DEF Edited
<1>3. \A k \in Keys, n \in Nat : LengthsOfReadable(Published(x, k, n))
  BY DEF Published
<1>4. LengthsOfReadable(Rebuilt(x))
  BY DEF Rebuilt
<1> QED BY <1>1, <1>2, <1>3, <1>4

LEMMA LengthsReplayed ==
  ASSUME NEW x \in Index, LengthsOfReadable(x), NEW line \in Line
  PROVE  LengthsOfReadable(Replay(x, line))
<1>1. /\ line.key \in Keys /\ {line.key} \in SUBSET Keys /\ line.len \in Nat
      /\ line.op \in {"CLEAN", "DIRTY", "READ", "REMOVE"}
  BY DEF Line
<1>2. /\ LengthsOfReadable(Without(x, {line.key}))
      /\ LengthsOfReadable(Edited(x, line.key))
      /\ LengthsOfReadable(Published(x, line.key, line.len))
  BY <1>1, LengthsChanged
<1> QED BY <1>1, <1>2 DEF Replay
------------------------------------------------------------------------------
\* A step that at most moves the order of the entries.
LEMMA UsageFrame ==
  ASSUME UsageInv, UNCHANGED <<index, size, buffer, journal, journalLru>>,
         InOrder(lru', index)
  PROVE  UsageInv'
  BY DEF UsageInv, LinesInv

\* A step that writes a line of what it does.
LEMMA UsageWritten ==
  ASSUME TypeOK, UsageInv, NEW op \in {"CLEAN", "DIRTY", "READ", "REMOVE"},
         NEW k \in Keys, NEW n \in Nat, Write(op, k, n),
         UNCHANGED <<journal, journalLru>>,
         op = "READ" => k \in Entries(index),
         \A j \in Entries(index') : \/ j \in Entries(index) /\ (op = "REMOVE" => j # k)
                                    \/ j = k /\ op \in {"DIRTY", "CLEAN"},
         size' = Sum(index'.length), InOrder(lru', index'), LengthsOfReadable(index')
  PROVE  UsageInv'
<1> DEFINE line == [op |-> op, key |-> k, len |-> n]
<1>1. buffer \in Seq(Line) /\ line \in Line /\ buffer' = Append(buffer, line)
  BY DEF TypeOK, Line, Write
<1>2. /\ line.op = "READ" => line.key \in Entries(index)
      /\ \A j \in Entries(index') :
           (j \in Entries(index) /\ ~Removed(line, j)) \/ Named(line, j)
  BY DEF Removed, Named
<1> HIDE DEF line
<1>3. Tell(journal, Append(buffer, line), Entries(index'))
  BY <1>1, <1>2, TellAppended DEF UsageInv, LinesInv
<1> QED BY <1>1, <1>3 DEF UsageInv, LinesInv

\* The keys of the entries.
LEMMA EntriesAreKeys ==
  ASSUME NEW x \in Index
  PROVE  Entries(x) \in SUBSET Keys
  BY DEF Index, Entries

\* A line reaches the journal.
LEMMA SpillCounts ==
  ASSUME TypeOK, UsageInv, Spill
  PROVE  UsageInv'
<1>1. /\ buffer \in Seq(Line) /\ buffer # <<>> /\ journal \in Index /\ index \in Index
      /\ Head(buffer) \in Line
  BY TailType DEF TypeOK, Spill, Line
<1>2. /\ Tell(Replay(journal, Head(buffer)), Tail(buffer), Entries(index))
      /\ Head(buffer).op = "READ" => Head(buffer).key \in Entries(journal)
  BY <1>1, EntriesAreKeys, TellReplayed DEF UsageInv, LinesInv
<1>3. InOrder(ReplayOrder(journalLru, Head(buffer)), Replay(journal, Head(buffer)))
  BY <1>1, <1>2, OrderReplayed DEF UsageInv
<1>4. LengthsOfReadable(Replay(journal, Head(buffer)))
  BY <1>1, LengthsReplayed DEF UsageInv
<1> QED BY <1>2, <1>3, <1>4 DEF Spill, UsageInv, LinesInv

\* An access to an entry moves it and changes nothing else.
LEMMA AccessCounts ==
  ASSUME UsageInv, NEW k \in Keys, k \in Entries(index), lru' = Moved(lru, k),
         UNCHANGED <<index, size, buffer, journal, journalLru>>
  PROVE  UsageInv'
<1>1. Entries(index) = Entries(index) \cup {k}
  OBVIOUS
<1>2. InOrder(Moved(lru, k), index)
  BY <1>1, OrderMoved DEF UsageInv
<1> QED BY <1>2, UsageFrame

\* A thumbnail that is removed takes its length out of the usage.
LEMMA RemovalCounts ==
  ASSUME TypeOK, UsageInv, NEW k \in Keys,
         RemoveRefused(k) \/ RemoveFails(k) \/ RemoveDone(k),
         UNCHANGED <<journal, journalLru>>
  PROVE  UsageInv'
<1>1. CASE RemoveRefused(k) \/ RemoveFails(k)
  BY <1>1, AccessCounts DEF RemoveRefused, RemoveFails, Entries
<1>2. CASE RemoveDone(k)
  <2>1. /\ size' = size - index.length[k] /\ index' = Without(index, {k})
        /\ lru' = Dropped(lru, {k}) /\ Write("REMOVE", k, 0)
    BY <1>2 DEF RemoveDone, Forget
  <2>2. index \in Index /\ {k} \in SUBSET Keys
    BY DEF TypeOK
  <2>3. Entries(Without(index, {k})) = Entries(index) \ {k}
    BY DEF Without, Entries
  <2>4. size' = Sum(index'.length)
    <3>1. index'.length = [index.length EXCEPT ![k] = 0]
      BY <2>1, <2>2 DEF Without, Index
    <3>2. /\ Sum(index.length) \in Nat
          /\ Sum(index'.length) = Sum(index.length) - index.length[k] + 0
      BY <2>2, <3>1, UsageUpdate
    <3>3. index.length[k] \in Nat
      BY <2>2 DEF Index
    <3> QED BY <2>1, <3>2, <3>3 DEF UsageInv
  <2>5. InOrder(lru', index')
    BY <2>1, <2>3, OrderDropped DEF UsageInv
  <2>6. LengthsOfReadable(index')
    BY <2>1, <2>2, LengthsChanged DEF UsageInv
  <2>7. "REMOVE" \in {"CLEAN", "DIRTY", "READ", "REMOVE"} /\ 0 \in Nat
    OBVIOUS
  <2>8. \A j \in Entries(index') : j \in Entries(index) /\ j # k
    BY <2>1, <2>3
  <2> QED BY <2>1, <2>4, <2>5, <2>6, <2>7, <2>8, UsageWritten
<1> QED BY <1>1, <1>2

\* A thumbnail is read.
LEMMA GetCounts ==
  ASSUME TypeOK, UsageInv, NEW k \in Keys, Get(k)
  PROVE  UsageInv'
<1>1. /\ UNCHANGED <<index, size, journal, journalLru>> /\ Write("READ", k, 0)
      /\ lru' = Moved(lru, k) /\ k \in Entries(index)
  BY DEF Get, journalVars, Entries
<1>2. Entries(index) = Entries(index) \cup {k}
  BY <1>1
<1>3. InOrder(Moved(lru, k), index)
  BY <1>2, OrderMoved DEF UsageInv
<1>4. "READ" \in {"CLEAN", "DIRTY", "READ", "REMOVE"} /\ 0 \in Nat
  OBVIOUS
<1>5. /\ size' = Sum(index'.length) /\ InOrder(lru', index')
      /\ LengthsOfReadable(index') /\ Entries(index') = Entries(index)
  BY <1>1, <1>3 DEF UsageInv
<1> QED BY <1>1, <1>4, <1>5, UsageWritten

\* An edit begins: an entry of which nothing is counted yet, or one that was
\* published and whose file is gone.
LEMMA EditCounts ==
  ASSUME TypeOK, UsageInv, NEW k \in Keys, AddEdits(k)
  PROVE  UsageInv'
<1>1. /\ UNCHANGED <<size, journal, journalLru>> /\ Write("DIRTY", k, 0)
      /\ lru' = Moved(lru, k) /\ index' = Edited(index, k) /\ index \in Index
  BY DEF AddEdits, Edit, journalVars, TypeOK
<1>2. Entries(index') = Entries(index) \cup {k} /\ index'.length = index.length
  BY <1>1 DEF Edited, Entries, Index
<1>3. InOrder(lru', index')
  BY <1>1, <1>2, OrderMoved DEF UsageInv
<1>4. LengthsOfReadable(index') /\ size' = Sum(index'.length)
  BY <1>1, <1>2, LengthsChanged DEF UsageInv
<1>5. "DIRTY" \in {"CLEAN", "DIRTY", "READ", "REMOVE"} /\ 0 \in Nat
  OBVIOUS
<1> QED BY <1>1, <1>2, <1>3, <1>4, <1>5, UsageWritten

\* A thumbnail is published: its length takes the place of the one it had.
LEMMA CommitCounts ==
  ASSUME TypeOK, CacheInv, UsageInv, NEW k \in Keys, AddCommits(k)
  PROVE  UsageInv'
<1> DEFINE n == dirty[k].len
<1>1. /\ UNCHANGED <<lru, journal, journalLru>> /\ Write("CLEAN", k, n)
      /\ size' = size - index.length[k] + n
      /\ index' = Published(index, k, n) /\ index \in Index /\ n \in Nat
  BY DEF AddCommits, Publish, journalVars, TypeOK
<1>2. k \in index.editing
  BY DEF AddCommits, CacheInv, MemoryInv, MemoryKnows, Flushed
<1> HIDE DEF n
<1>3. Entries(index') = Entries(index)
  BY <1>1, <1>2 DEF Published, Entries, Index
<1>4. size' = Sum(index'.length)
  <2>1. index'.length = [index.length EXCEPT ![k] = n]
    BY <1>1 DEF Published, Index
  <2> QED BY <1>1, <2>1, UsageUpdate DEF UsageInv
<1>5. InOrder(lru', index')
  BY <1>1, <1>3 DEF UsageInv, InOrder
<1>6. LengthsOfReadable(index')
  BY <1>1, LengthsChanged DEF UsageInv
<1>7. "CLEAN" \in {"CLEAN", "DIRTY", "READ", "REMOVE"}
  OBVIOUS
<1> QED BY <1>1, <1>3, <1>4, <1>5, <1>6, <1>7, UsageWritten

\* An edit is given up: the entry stays as it was published, or goes and nothing
\* of it was counted.
LEMMA FailureCounts ==
  ASSUME TypeOK, UsageInv, NEW k \in Keys, AddFails(k)
  PROVE  UsageInv'
<1>1. UNCHANGED <<size, journal, journalLru>> /\ index \in Index
  BY DEF AddFails, journalVars, TypeOK
<1>2. CASE /\ k \in index.readable
           /\ index' = [index EXCEPT !.editing = @ \ {k}]
           /\ lru' = Moved(lru, k)
           /\ Write("CLEAN", k, index.length[k])
  <2>1. /\ Entries(index') = Entries(index) /\ index'.length = index.length
        /\ index'.readable = index.readable /\ index.length[k] \in Nat
    BY <1>1, <1>2 DEF Entries, Index
  <2>2. Entries(index') = Entries(index) \cup {k}
    BY <1>2, <2>1 DEF Entries
  <2>3. InOrder(lru', index')
    BY <1>2, <2>2, OrderMoved DEF UsageInv
  <2>4. LengthsOfReadable(index') /\ size' = Sum(index'.length)
    BY <1>1, <2>1 DEF UsageInv, LengthsOfReadable
  <2>5. "CLEAN" \in {"CLEAN", "DIRTY", "READ", "REMOVE"}
    OBVIOUS
  <2> QED BY <1>1, <1>2, <2>1, <2>3, <2>4, <2>5, UsageWritten
<1>3. CASE /\ k \notin index.readable
           /\ index' = Without(index, {k})
           /\ lru' = Dropped(lru, {k})
           /\ Write("REMOVE", k, 0)
  <2>1. {k} \in SUBSET Keys /\ index.length[k] = 0
    BY <1>3 DEF UsageInv, LengthsOfReadable
  <2>2. Entries(index') = Entries(index) \ {k} /\ index'.length = index.length
    <3>1. Entries(index') = Entries(index) \ {k}
      BY <1>3 DEF Without, Entries
    <3>2. index'.length = [j \in Keys |-> IF j \in {k} THEN 0 ELSE index.length[j]]
      BY <1>3 DEF Without
    <3>3. index.length = [j \in Keys |-> index.length[j]]
      BY <1>1 DEF Index
    <3>4. \A j \in Keys : (IF j \in {k} THEN 0 ELSE index.length[j]) = index.length[j]
      BY <2>1
    <3> QED BY <3>1, <3>2, <3>3, <3>4
  <2>3. InOrder(lru', index')
    BY <1>3, <2>2, OrderDropped DEF UsageInv
  <2>4. LengthsOfReadable(index') /\ size' = Sum(index'.length)
    BY <1>1, <1>3, <2>1, <2>2, LengthsChanged DEF UsageInv
  <2>5. "REMOVE" \in {"CLEAN", "DIRTY", "READ", "REMOVE"} /\ 0 \in Nat
    OBVIOUS
  <2>6. \A j \in Entries(index') : j \in Entries(index) /\ j # k
    BY <2>2
  <2> QED BY <1>1, <1>3, <2>3, <2>4, <2>5, <2>6, UsageWritten
<1> QED BY <1>2, <1>3 DEF AddFails

\* With nothing on its way, what leads to the entries is the journal.
LEMMA TellNothing ==
  ASSUME NEW x, NEW E, E \subseteq Entries(x)
  PROVE  Tell(x, <<>>, E)
  BY DEF Tell, Known

LEMMA OrderOfNone == InOrder(<<>>, NoIndex) /\ LengthsOfReadable(NoIndex)
  BY EmptySeq DEF InOrder, Once, Listed, Entries, NoIndex, LengthsOfReadable

\* A cache is opened on the journal it finds.
LEMMA OpenCounts ==
  ASSUME TypeOK, CacheInv, UsageInv, Open
  PROVE  UsageInv'
<1> DEFINE K == journal.editing
<1>1. /\ buffer' = <<>> /\ UNCHANGED <<journal, journalLru>>
      /\ index' = Without(journal, K) /\ lru' = Dropped(journalLru, K)
      /\ size' = Sum(index'.length)
      /\ journal \in Index /\ K \in SUBSET Keys
  BY DEF Open, CacheInv, MemoryInv, journalVars, TypeOK, Index
<1> HIDE DEF K
<1>2. Entries(index') = Entries(journal) \ K
  BY <1>1 DEF Without, Entries
<1>3. InOrder(lru', index')
  BY <1>1, <1>2, OrderDropped DEF UsageInv
<1>4. LengthsOfReadable(index')
  BY <1>1, LengthsChanged DEF UsageInv
<1>5. Tell(journal, <<>>, Entries(index'))
  BY <1>2, TellNothing
<1> QED BY <1>1, <1>3, <1>4, <1>5 DEF UsageInv, LinesInv

\* The journal is rebuilt from the index.
LEMMA RebuildCounts ==
  ASSUME TypeOK, UsageInv, RebuildJournal
  PROVE  UsageInv'
<1>1. /\ buffer' = <<>> /\ UNCHANGED <<index, lru, size>>
      /\ journal' = Rebuilt(index) /\ journalLru' = lru /\ index \in Index
  BY DEF RebuildJournal, TypeOK
<1>2. Entries(journal') = Entries(index)
  BY <1>1 DEF Rebuilt, Entries, Index
<1>3. InOrder(journalLru', journal')
  BY <1>1, <1>2 DEF UsageInv, InOrder
<1>4. LengthsOfReadable(journal')
  BY <1>1, LengthsChanged DEF UsageInv
<1>5. Tell(journal', <<>>, Entries(index))
  BY <1>2, TellNothing
<1> QED BY <1>1, <1>3, <1>4, <1>5 DEF UsageInv, LinesInv

\* The process is killed, or finds a corrupt journal.
LEMMA RestartCounts ==
  ASSUME CacheInv, UsageInv, Crash \/ OpenCorrupt
  PROVE  UsageInv'
<1>1. CASE Crash
  <2>1. /\ index' = NoIndex /\ lru' = <<>> /\ size' = 0 /\ buffer' = <<>>
        /\ UNCHANGED <<journal, journalLru>>
    BY <1>1 DEF Crash
  <2>2. Tell(journal, <<>>, Entries(NoIndex))
    BY TellNothing DEF NoIndex, Entries
  <2> QED BY <2>1, <2>2, UsageOfNone, OrderOfNone DEF UsageInv, LinesInv
<1>2. CASE OpenCorrupt
  <2>1. /\ UNCHANGED <<index, lru, size>> /\ index = NoIndex /\ buffer' = <<>>
        /\ journal' = NoIndex /\ journalLru' = <<>>
    BY <1>2 DEF OpenCorrupt, CacheInv, MemoryInv
  <2>2. Tell(NoIndex, <<>>, Entries(NoIndex))
    BY TellNothing
  <2> QED BY <2>1, <2>2, OrderOfNone DEF UsageInv, LinesInv
<1> QED BY <1>1, <1>2

\* An addition goes on.
LEMMA AddingCounts ==
  ASSUME TypeOK, CacheInv, UsageInv, NEW k \in Keys, Adding(k)
  PROVE  UsageInv'
<1>1. CASE Add(k)
  <2>1. /\ UNCHANGED <<index, size, buffer, journal, journalLru>>
        /\ lru' = IF k \in Entries(index) THEN Moved(lru, k) ELSE lru
    BY <1>1 DEF Add, Missing, journalVars
  <2> QED BY <2>1, AccessCounts, UsageFrame DEF UsageInv
<1>2. CASE AddRefused(k)
  BY <1>2, AccessCounts DEF AddRefused, journalVars, Entries
<1>3. CASE AddEdits(k)
  BY <1>3, EditCounts
<1>4. CASE AddFlushed(k) \/ AddCreates(k) \/ AddCompresses(k) \/ AddThrows(k)
  <2>1. UNCHANGED <<index, lru, size, buffer, journal, journalLru>>
    BY <1>4 DEF AddFlushed, AddCreates, AddCompresses, AddThrows, journalVars
  <2> QED BY <2>1, UsageFrame DEF UsageInv
<1>5. CASE AddCommits(k)
  BY <1>5, CommitCounts
<1>6. CASE AddFails(k)
  BY <1>6, FailureCounts
<1> QED BY <1>1, <1>2, <1>3, <1>4, <1>5, <1>6 DEF Adding

\* Every step counts the usage.
LEMMA UsageStep ==
  TypeOK /\ CacheInv /\ UsageInv /\ [Next]_cacheVars => UsageInv'
<1> SUFFICES ASSUME TypeOK, CacheInv, UsageInv, [Next]_cacheVars PROVE UsageInv'
  OBVIOUS
<1>1. CASE Open
  BY <1>1, OpenCounts
<1>2. CASE OpenCorrupt \/ Crash
  BY <1>2, RestartCounts
<1>3. CASE Spill
  BY <1>3, SpillCounts
<1>4. CASE Trim
  <2>1. CASE TrimBegins \/ TrimEndsPlain
    <3>1. UNCHANGED <<index, lru, size, buffer, journal, journalLru>>
      BY <2>1 DEF TrimBegins, TrimEndsPlain, journalVars
    <3> QED BY <3>1, UsageFrame DEF UsageInv
  <2>2. CASE TrimEvicts
    BY <2>2, EvictsKey, RemovalCounts DEF TrimEvicts, journalVars
  <2>3. CASE RebuildJournal
    BY <2>3, RebuildCounts
  <2> QED BY <1>4, <2>1, <2>2, <2>3 DEF Trim
<1>5. ASSUME NEW k \in Keys, Get(k) \/ GetMisses(k) \/ Adding(k) \/ Remove(k)
      PROVE  UsageInv'
  <2>1. CASE Get(k)
    BY <2>1, GetCounts
  <2>2. CASE GetMisses(k)
    <3>1. /\ UNCHANGED <<index, size, buffer, journal, journalLru>>
          /\ lru' = IF k \in Entries(index) THEN Moved(lru, k) ELSE lru
      BY <2>2 DEF GetMisses, Missing, journalVars
    <3> QED BY <3>1, AccessCounts, UsageFrame DEF UsageInv
  <2>3. CASE Adding(k)
    BY <2>3, AddingCounts
  <2>4. CASE Remove(k)
    BY <2>4, RemovalCounts DEF Remove, journalVars
  <2> QED BY <1>5, <2>1, <2>2, <2>3, <2>4
<1>6. CASE UNCHANGED cacheVars
  <2>1. UNCHANGED <<index, lru, size, buffer, journal, journalLru>>
    BY <1>6 DEF cacheVars, memoryVars, journalVars
  <2> QED BY <2>1, UsageFrame DEF UsageInv
<1> QED BY <1>1, <1>2, <1>3, <1>4, <1>5, <1>6 DEF Next, Live

\* A directory without files uses nothing.
LEMMA UsageStart == Init => UsageInv
<1> SUFFICES ASSUME Init PROVE UsageInv
  OBVIOUS
<1>1. /\ index = NoIndex /\ lru = <<>> /\ size = 0 /\ buffer = <<>>
      /\ journal = NoIndex /\ journalLru = <<>>
  BY DEF Init
<1>2. Tell(NoIndex, <<>>, Entries(NoIndex))
  BY TellNothing
<1> QED BY <1>1, <1>2, UsageOfNone, OrderOfNone DEF UsageInv, LinesInv

\* The orders of the index and of the journal always list every entry once, and
\* the size is the sum of the lengths of what is published, through every edit,
\* eviction, rebuilt journal and restart.
THEOREM UsageInvariant == Spec => []UsageInv
<1>1. Init => UsageInv
  BY UsageStart
<1>2. TypeOK /\ CacheInv /\ UsageInv /\ [Next]_cacheVars => UsageInv'
  BY UsageStep
<1> QED BY <1>1, <1>2, CacheInvariant, PTL DEF Spec

\* Every byte on disk is counted and can be evicted.
THEOREM CacheCountsUsage == Spec => []UsageIsCounted
<1>1. TypeOK /\ CacheInv /\ UsageInv => UsageIsCounted
  <2> SUFFICES ASSUME TypeOK, CacheInv, UsageInv PROVE UsageIsCounted
    OBVIOUS
  <2>1. size = Sum(index.length)
    BY DEF UsageInv
  <2>2. open => \A k \in Keys : Exists(clean[k]) =>
                  k \in index.readable /\ index.length[k] = clean[k].len
    BY DEF CacheInv, MemoryInv, MemoryKnows
  <2>3. Len(lru) = Cardinality(Entries(index))
    BY OrderLength DEF UsageInv
  <2>4. Entries(index) = {lru[i] : i \in 1 .. Len(lru)}
    BY DEF UsageInv, InOrder, Listed
  <2> QED BY <2>1, <2>2, <2>3, <2>4 DEF UsageIsCounted
<1> QED BY <1>1, CacheInvariant, UsageInvariant, PTL
------------------------------------------------------------------------------
\* What is written, and then published, has a length that a thumbnail can have.
LEMMA LengthsStep ==
  TypeOK /\ LengthsInv /\ [Next]_cacheVars => LengthsInv'
<1> SUFFICES ASSUME TypeOK, LengthsInv, [Next]_cacheVars PROVE LengthsInv'
  OBVIOUS
<1> USE DEF LengthsInv, TypeOK
<1>a. NoFile \in Written /\ PartFile \in Written /\ \A n \in Sizes : WholeFile(n) \in Written
  BY DEF Written
<1> HIDE DEF NoFile, PartFile, WholeFile
<1>1. ASSUME UNCHANGED <<clean, dirty>> PROVE LengthsInv'
  BY <1>1
<1>2. ASSUME \A k \in Keys : /\ clean'[k] \in {clean[k], dirty[k], NoFile}
                             /\ dirty'[k] \in {dirty[k], NoFile, PartFile}
      PROVE  LengthsInv'
  BY <1>a, <1>2
<1>3. CASE Open \/ OpenCorrupt
  BY <1>2, <1>3 DEF Open, OpenCorrupt
<1>4. CASE Spill \/ Crash \/ UNCHANGED cacheVars
  BY <1>1, <1>4 DEF Spill, Crash, cacheVars, fileVars
<1>5. CASE Trim
  <2>1. CASE TrimEvicts
    <3>1. UNCHANGED clean \/ \E k \in Keys : clean' = [clean EXCEPT ![k] = NoFile]
      BY <2>1, EvictsKey DEF RemoveRefused, RemoveFails, RemoveDone
    <3> QED BY <1>2, <2>1, <3>1 DEF TrimEvicts
  <2> QED
    BY <1>1, <1>5, <2>1 DEF Trim, TrimBegins, TrimEndsPlain, RebuildJournal, fileVars
<1>6. ASSUME NEW k \in Keys, Get(k) \/ GetMisses(k) \/ Remove(k) PROVE LengthsInv'
  <2>1. CASE Remove(k)
    BY <1>2, <2>1 DEF Remove, RemoveRefused, RemoveFails, RemoveDone
  <2> QED BY <1>1, <1>6, <2>1 DEF Get, GetMisses, Missing, fileVars
<1>7. ASSUME NEW k \in Keys, Adding(k) PROVE LengthsInv'
  <2>1. CASE Add(k) \/ AddRefused(k) \/ AddEdits(k) \/ AddFlushed(k) \/ AddThrows(k)
    BY <1>1, <2>1
    DEF Add, Missing, AddRefused, AddEdits, Edit, AddFlushed, AddThrows, fileVars
  <2>2. CASE AddCreates(k) \/ AddFails(k)
    BY <1>2, <2>2 DEF AddCreates, AddFails
  <2>3. CASE AddCompresses(k)
    <3>1. UNCHANGED clean /\
          (UNCHANGED dirty \/ \E n \in Sizes : dirty' = [dirty EXCEPT ![k] = WholeFile(n)])
      BY <2>3 DEF AddCompresses
    <3>2. ASSUME NEW n \in Sizes, dirty' = [dirty EXCEPT ![k] = WholeFile(n)],
                 UNCHANGED clean
          PROVE  LengthsInv'
      <4>1. \A j \in Keys : dirty'[j] = IF j = k THEN WholeFile(n) ELSE dirty[j]
        BY <3>2
      <4> QED BY <1>a, <3>2, <4>1
    <3> QED BY <1>1, <3>1, <3>2
  <2>4. CASE AddCommits(k)
    BY <1>2, <2>4 DEF AddCommits, Publish
  <2> QED BY <1>7, <2>1, <2>2, <2>3, <2>4 DEF Adding
<1> QED BY <1>3, <1>4, <1>5, <1>6, <1>7 DEF Next, Live

\* A step that touches neither files nor journal is none of the store.
LEMMA StoreStutters ==
  ASSUME UNCHANGED <<open, clean, journal, tail>>
  PROVE  UNCHANGED Promise!vars
  BY DEF Promise!vars, settledKeys

\* A removal takes the thumbnail out of the store, or leaves it.
LEMMA StoreRemoves ==
  ASSUME TypeOK, NEW k \in Keys, open,
         RemoveRefused(k) \/ RemoveFails(k) \/ RemoveDone(k),
         UNCHANGED <<open, journal, tail>>
  PROVE  [Promise!Next]_(Promise!vars)
<1>1. CASE RemoveRefused(k) \/ RemoveFails(k)
  BY <1>1, StoreStutters DEF RemoveRefused, RemoveFails
<1>2. CASE RemoveDone(k)
  <2>1. clean' = [clean EXCEPT ![k] = NoFile] /\ Exists(clean[k])
    BY <1>2 DEF RemoveDone, Forget
  <2>2. \A j \in Keys : Exists(clean'[j]) <=> j # k /\ Exists(clean[j])
    BY <2>1 DEF TypeOK, Exists
  <2>3. journal.readable \in SUBSET Keys
    BY DEF TypeOK, Index
  <2>4. settledKeys' = settledKeys \ {k}
    BY <2>2, <2>3 DEF settledKeys
  <2>5. clean[k] # NoFile
    BY <2>1 DEF Exists
  <2>6. Promise!Remove(k)
    BY <2>1, <2>4, <2>5 DEF Promise!Remove
  <2> QED BY <2>6 DEF Promise!Next
<1> QED BY <1>1, <1>2

\* A commit publishes a whole thumbnail under a key that had none.
LEMMA StorePublishes ==
  ASSUME TypeOK, CacheInv, LengthsInv, NEW k \in Keys, AddCommits(k)
  PROVE  [Promise!Next]_(Promise!vars)
<1>1. /\ open /\ UNCHANGED <<open, journal, tail>> /\ adder[k] = "commit"
      /\ clean' = [clean EXCEPT ![k] = dirty[k]] /\ Exists(dirty[k])
  BY DEF AddCommits, Publish, Free, journalVars
<1>2. /\ dirty[k].state = "whole" /\ ~Exists(clean[k])
      /\ tail # "corrupt" => k \in journal.editing
  BY <1>1 DEF CacheInv, MemoryInv, MemoryKnows, JournalInv, JournalKnows
<1>3. dirty[k] \in {WholeFile(n) : n \in Sizes}
  <2>1. dirty[k] \in Written
    BY DEF LengthsInv
  <2> QED BY <1>2, <2>1 DEF Written
<1>4. clean[k] = NoFile
  BY <1>2 DEF LengthsInv, Written, Exists
<1>5. settledKeys' = settledKeys
  <2>1. \A j \in Keys \ {k} : clean'[j] = clean[j]
    BY <1>1 DEF TypeOK
  <2>2. journal.readable \in SUBSET Keys
    BY DEF TypeOK, Index
  <2> QED BY <1>1, <1>2, <2>1, <2>2 DEF settledKeys
<1>6. Promise!Publish(k)
  BY <1>1, <1>3, <1>4, <1>5 DEF Promise!Publish
<1> QED BY <1>6 DEF Promise!Next

\* A line that reaches the journal settles more, unless it spoils what was torn.
LEMMA StoreSettles ==
  ASSUME TypeOK, CacheInv, Spill
  PROVE  [Promise!Next]_(Promise!vars)
<1>1. /\ UNCHANGED <<open, clean>> /\ open
      /\ tail' = IF tail = "torn" THEN "corrupt" ELSE tail
      /\ journal' = Replay(journal, Head(buffer))
  BY DEF Spill, fileVars, CacheInv, MemoryInv
<1>2. /\ Head(buffer) \in Line /\ Head(buffer) = buffer[1] /\ 1 \in Lines
      /\ journal \in Index /\ journal' \in Index
  <2>1. buffer \in Seq(Line) /\ buffer # <<>> /\ journal \in Index
    BY DEF TypeOK, Line, Spill
  <2>2. Head(buffer) \in Line /\ Head(buffer) = buffer[1] /\ 1 \in Lines
    BY <2>1, TailType DEF Lines
  <2> QED BY <1>1, <2>1, <2>2, ReplayType
<1>3. CASE tail = "corrupt"
  BY <1>1, <1>3 DEF Promise!vars, settledKeys
<1>4. CASE tail = "torn"
  <2>1. settledKeys' = {} /\ tail' = "corrupt"
    BY <1>1, <1>4 DEF settledKeys
  <2>2. Promise!Spoil
    BY <1>1, <1>4, <2>1 DEF Promise!Spoil
  <2> QED BY <2>2 DEF Promise!Next
<1>5. CASE tail = "line"
  <2>1. ASSUME NEW k \in settledKeys PROVE k \in settledKeys'
    <3>1. k \in Keys /\ k \in journal.readable \ journal.editing /\ Exists(clean[k])
      BY <1>2, <1>5 DEF settledKeys, Index
    <3>2. Head(buffer).key = k => Head(buffer).op \in {"CLEAN", "READ"}
      BY <1>2, <1>5, <3>1 DEF CacheInv, JournalInv, JournalKnows
    <3>3. k \in journal'.readable \ journal'.editing
      BY <1>1, <1>2, <3>1, <3>2, ReplayAt
    <3> QED BY <1>1, <1>5, <3>1, <3>3 DEF settledKeys
  <2>2. settledKeys' \subseteq Promise!Stored
    BY <1>1, <1>2 DEF settledKeys, Index, Promise!Stored, Exists
  <2>3. Promise!Settle
    BY <1>1, <1>5, <2>1, <2>2 DEF Promise!Settle
  <2> QED BY <2>3 DEF Promise!Next
<1> QED BY <1>3, <1>4, <1>5 DEF TypeOK

\* The rebuilt journal settles everything.
LEMMA StoreMended ==
  ASSUME TypeOK, CacheInv, RebuildJournal
  PROVE  [Promise!Next]_(Promise!vars)
<1>1. /\ UNCHANGED <<open, clean>> /\ open /\ tail' = "line"
      /\ journal' = Rebuilt(index) /\ index \in Index /\ journal \in Index
  BY DEF RebuildJournal, fileVars, CacheInv, MemoryInv, TypeOK
<1>2. \A k \in Keys : Exists(clean[k]) => k \in index.readable \ index.editing
  BY <1>1 DEF CacheInv, MemoryInv, MemoryKnows
<1>3. journal'.readable = index.readable \ index.editing /\ journal'.editing = index.editing
  BY <1>1 DEF Rebuilt, Index
<1>4. settledKeys' = {k \in Keys : Exists(clean[k])}
  BY <1>1, <1>2, <1>3 DEF settledKeys, Index
<1>5. settledKeys \subseteq {k \in Keys : Exists(clean[k])}
  BY <1>1 DEF settledKeys, Index
<1>6. settledKeys' \subseteq Promise!Stored
  BY <1>1, <1>4 DEF Promise!Stored, Exists
<1>7. Promise!Settle
  BY <1>1, <1>4, <1>5, <1>6 DEF Promise!Settle
<1> QED BY <1>7 DEF Promise!Next

\* What the process that opens the cache finds is what was settled.
LEMMA StoreRecovers ==
  ASSUME TypeOK, CacheInv, LengthsInv, Open \/ OpenCorrupt
  PROVE  [Promise!Next]_(Promise!vars)
<1>1. /\ ~open /\ open' = TRUE /\ journal \in Index /\ clean \in [Keys -> File]
      /\ \A k \in Keys : ~Exists(clean[k]) => clean[k] = NoFile
  BY DEF Open, OpenCorrupt, TypeOK, LengthsInv, Written, Exists
<1>2. CASE Open
  <2>1. /\ UNCHANGED <<journal, tail>> /\ tail # "corrupt"
        /\ clean' = [k \in Keys |-> IF k \in journal.editing THEN NoFile ELSE clean[k]]
    BY <1>2 DEF Open, journalVars
  <2>2. \A k \in Keys : Exists(clean[k]) => k \in Entries(journal)
    BY <2>1 DEF CacheInv, JournalInv, JournalKnows
  <2>3. \A k \in Keys : clean'[k] = IF k \in settledKeys THEN clean[k] ELSE NoFile
    BY <1>1, <2>1, <2>2 DEF settledKeys, Entries
  <2>4. clean' = [k \in Keys |-> IF k \in settledKeys THEN clean[k] ELSE NoFile]
    BY <2>1, <2>3
  <2>5. settledKeys' = settledKeys
    <3>1. \A k \in journal.readable \ journal.editing : clean'[k] = clean[k]
      BY <1>1, <2>1 DEF Index
    <3> QED BY <2>1, <3>1 DEF settledKeys
  <2>6. Promise!Recover
    BY <1>1, <2>1, <2>4, <2>5 DEF Promise!Recover
  <2> QED BY <2>6 DEF Promise!Next
<1>3. CASE OpenCorrupt
  <2>1. /\ clean' = [k \in Keys |-> NoFile] /\ tail = "corrupt" /\ tail' = "line"
        /\ journal' = NoIndex
    BY <1>3 DEF OpenCorrupt
  <2>2. settledKeys = {} /\ settledKeys' = {}
    BY <2>1 DEF settledKeys, NoIndex
  <2>3. Promise!Recover
    BY <1>1, <2>1, <2>2 DEF Promise!Recover
  <2> QED BY <2>3 DEF Promise!Next
<1> QED BY <1>2, <1>3

\* Every step of the cache is one of the store, or none.
LEMMA StoreStep ==
  TypeOK /\ CacheInv /\ LengthsInv /\ [Next]_cacheVars => [Promise!Next]_(Promise!vars)
<1> SUFFICES ASSUME TypeOK, CacheInv, LengthsInv, [Next]_cacheVars
             PROVE  [Promise!Next]_(Promise!vars)
  OBVIOUS
<1>1. CASE Open \/ OpenCorrupt
  BY <1>1, StoreRecovers
<1>2. CASE Spill
  BY <1>2, StoreSettles
<1>3. CASE Crash
  <2>1. /\ open /\ open' = FALSE /\ UNCHANGED <<clean, journal>>
        /\ tail' \in {tail} \cup IF tail = "line" /\ buffer # <<>> THEN {"torn"} ELSE {}
    BY <1>3 DEF Crash, fileVars
  <2>2. tail' = tail \/ (tail = "line" /\ tail' = "torn")
    BY <2>1
  <2>3. settledKeys' = settledKeys /\ (tail = "torn" => tail' = "torn")
    BY <2>1, <2>2 DEF settledKeys
  <2>4. Promise!Kill
    BY <2>1, <2>3 DEF Promise!Kill
  <2> QED BY <2>4 DEF Promise!Next
<1>4. CASE Trim
  <2>1. CASE TrimBegins \/ TrimEndsPlain
    BY <2>1, StoreStutters DEF TrimBegins, TrimEndsPlain, fileVars, journalVars
  <2>2. CASE TrimEvicts
    <3>1. open
      BY <2>2 DEF TrimEvicts, CacheInv, MemoryInv
    <3> QED BY <2>2, <3>1, EvictsKey, StoreRemoves DEF TrimEvicts, journalVars
  <2>3. CASE RebuildJournal
    BY <2>3, StoreMended
  <2> QED BY <1>4, <2>1, <2>2, <2>3 DEF Trim
<1>5. ASSUME NEW k \in Keys, Get(k) \/ GetMisses(k) \/ Adding(k) \/ Remove(k)
      PROVE  [Promise!Next]_(Promise!vars)
  <2>1. CASE Get(k) \/ GetMisses(k)
    BY <2>1, StoreStutters DEF Get, GetMisses, Missing, fileVars, journalVars
  <2>2. CASE Remove(k)
    BY <2>2, StoreRemoves DEF Remove, Free, journalVars
  <2>3. CASE AddCommits(k)
    BY <2>3, StorePublishes
  <2>4. CASE Add(k) \/ AddRefused(k) \/ AddEdits(k) \/ AddFlushed(k) \/ AddCreates(k)
    BY <2>4, StoreStutters
    DEF Add, Missing, AddRefused, AddEdits, Edit, AddFlushed, AddCreates, fileVars,
        journalVars
  <2>5. CASE AddCompresses(k) \/ AddThrows(k) \/ AddFails(k)
    BY <2>5, StoreStutters DEF AddCompresses, AddThrows, AddFails, fileVars, journalVars
  <2> QED BY <1>5, <2>1, <2>2, <2>3, <2>4, <2>5 DEF Adding
<1>6. CASE UNCHANGED cacheVars
  BY <1>6, StoreStutters DEF cacheVars, memoryVars, fileVars, journalVars
<1> QED BY <1>1, <1>2, <1>3, <1>4, <1>5, <1>6 DEF Next, Live

\* The cache implements the store: a thumbnail is published whole, under a key
\* that had none, and stays as it is until it is removed; a kill costs those the
\* journal on disk does not know, and a torn journal that is written on, all.
THEOREM CacheImplementsStore == Spec => ImplementsStore
<1>1. Init => LengthsInv /\ Promise!Init
  <2> SUFFICES ASSUME Init PROVE LengthsInv /\ Promise!Init
    OBVIOUS
  <2>1. LengthsInv
    BY DEF Init, LengthsInv, Written
  <2>2. settledKeys = {}
    BY DEF Init, settledKeys, NoIndex
  <2> QED BY <2>1, <2>2 DEF Init, Promise!Init
<1>2. TypeOK /\ LengthsInv /\ [Next]_cacheVars => LengthsInv'
  BY LengthsStep
<1>3. TypeOK /\ CacheInv /\ LengthsInv /\ [Next]_cacheVars
        => [Promise!Next]_(Promise!vars)
  BY StoreStep
<1> QED
  BY <1>1, <1>2, <1>3, CacheInvariant, PTL DEF Spec, ImplementsStore, Promise!Spec

\* A cache that is too large has an eldest entry to evict.
THEOREM EvictionFindsEntry == Spec => []TrimFindsEldest
<1>1. TypeOK /\ UsageInv => TrimFindsEldest
  <2> SUFFICES ASSUME TypeOK, UsageInv, size > MaxSize, lru = <<>> PROVE FALSE
    BY DEF TrimFindsEldest
  <2>1. Entries(index) = {}
    BY DEF UsageInv, InOrder, Listed
  <2>2. index.length = [k \in Keys |-> 0]
    BY <2>1 DEF UsageInv, LengthsOfReadable, Entries, TypeOK, Index
  <2>3. size = 0
    BY <2>2, UsageOfNone DEF UsageInv, NoIndex
  <2> QED BY <2>3, CacheAssumption
<1> QED BY <1>1, CacheInvariant, UsageInvariant, PTL
------------------------------------------------------------------------------
\* An addition begins when there is no other.
LEMMA OneAdderStep ==
  TypeOK /\ OneAdder /\ [Next]_cacheVars => OneAdder'
<1> SUFFICES ASSUME TypeOK, OneAdder, [Next]_cacheVars PROVE OneAdder'
  OBVIOUS
<1> USE DEF OneAdder
<1>1. ASSUME \A j \in Keys : adder'[j] # "idle" => adder[j] # "idle" PROVE OneAdder'
  BY <1>1
<1>2. CASE Open \/ OpenCorrupt \/ Crash \/ Spill \/ Trim \/ UNCHANGED cacheVars
  BY <1>1, <1>2
  DEF Open, OpenCorrupt, Crash, Spill, Trim, TrimBegins, TrimEvicts, TrimEndsPlain,
      RebuildJournal, cacheVars, memoryVars
<1>3. ASSUME NEW k \in Keys, Get(k) \/ GetMisses(k) \/ Adding(k) \/ Remove(k)
      PROVE  OneAdder'
  <2>1. CASE Get(k) \/ GetMisses(k) \/ Remove(k)
    BY <1>1, <2>1 DEF Get, GetMisses, Missing, Remove
  <2>2. CASE Add(k)
    BY <2>2 DEF Add, Missing, NoAdder, TypeOK
  <2>3. CASE AddRefused(k) \/ AddEdits(k) \/ AddFlushed(k) \/ AddCreates(k)
    <3>1. adder[k] # "idle" /\ \E a : adder' = [adder EXCEPT ![k] = a]
      BY <2>3 DEF AddRefused, AddEdits, Edit, AddFlushed, AddCreates
    <3> QED BY <1>1, <3>1 DEF TypeOK
  <2>4. CASE AddCompresses(k) \/ AddThrows(k) \/ AddCommits(k) \/ AddFails(k)
    <3>1. adder[k] # "idle" /\ \E a : adder' = [adder EXCEPT ![k] = a]
      BY <2>4 DEF AddCompresses, AddThrows, AddCommits, Publish, AddFails
    <3> QED BY <1>1, <3>1 DEF TypeOK
  <2> QED BY <1>3, <2>1, <2>2, <2>3, <2>4 DEF Adding
<1> QED BY <1>2, <1>3 DEF Next, Live

\* None of the changes of an index gives an entry a length that was not counted
\* before.
LEMMA CountedChanged ==
  ASSUME NEW x \in Index, \A k \in Keys : x.length[k] \in Counted
  PROVE  /\ \A K \in SUBSET Keys, k \in Keys : Without(x, K).length[k] \in Counted
         /\ \A j, k \in Keys : Edited(x, j).length[k] \in Counted
         /\ \A j, k \in Keys, n \in Counted : Published(x, j, n).length[k] \in Counted
         /\ \A k \in Keys : Rebuilt(x).length[k] \in Counted
         /\ \A k \in Keys : NoIndex.length[k] \in Counted
<1> USE DEF Counted
<1>1. \A K \in SUBSET Keys, k \in Keys : Without(x, K).length[k] \in Counted
  BY DEF Without
<1>2. \A j, k \in Keys : Edited(x, j).length[k] \in Counted
  BY DEF Edited, Index
<1>3. \A j, k \in Keys, n \in Counted : Published(x, j, n).length[k] \in Counted
  <2> TAKE j, k \in Keys, n \in Counted
  <2>1. Published(x, j, n).length[k] = IF k = j THEN n ELSE x.length[k]
    BY DEF Published, Index
  <2> QED BY <2>1
<1>4. \A k \in Keys : Rebuilt(x).length[k] \in Counted
  BY DEF Rebuilt, Index
<1>5. \A k \in Keys : NoIndex.length[k] \in Counted
  BY DEF NoIndex
<1> QED BY <1>1, <1>2, <1>3, <1>4, <1>5

\* A step that writes a line with such a length.
LEMMA CountedWritten ==
  ASSUME TypeOK, LengthsCounted, NEW op \in {"CLEAN", "DIRTY", "READ", "REMOVE"},
         NEW k \in Keys, NEW n \in Counted, Write(op, k, n), UNCHANGED journal,
         \A j \in Keys : index'.length[j] \in Counted
  PROVE  LengthsCounted'
<1>1. n \in Nat
  BY CacheAssumption DEF Counted
<1>2. \A i \in Lines' :
        \/ i \in Lines /\ buffer'[i] = buffer[i]
        \/ buffer'[i] = [op |-> op, key |-> k, len |-> n]
  BY <1>1, WriteAt
<1> QED BY <1>2 DEF LengthsCounted

\* Removals, refused, failed or done, write and leave such lengths.
LEMMA CountedRemoved ==
  ASSUME TypeOK, LengthsCounted, NEW k \in Keys,
         RemoveRefused(k) \/ RemoveFails(k) \/ RemoveDone(k), UNCHANGED journal
  PROVE  LengthsCounted'
<1>1. CASE RemoveRefused(k) \/ RemoveFails(k)
  BY <1>1 DEF RemoveRefused, RemoveFails, LengthsCounted, Lines
<1>2. CASE RemoveDone(k)
  <2>1. index' = Without(index, {k}) /\ Write("REMOVE", k, 0)
    BY <1>2 DEF RemoveDone, Forget
  <2>2. \A j \in Keys : index'.length[j] \in Counted
    BY <2>1, CountedChanged DEF TypeOK, LengthsCounted
  <2>3. 0 \in Counted /\ "REMOVE" \in {"CLEAN", "DIRTY", "READ", "REMOVE"}
    BY DEF Counted
  <2> QED BY <2>1, <2>2, <2>3, CountedWritten
<1> QED BY <1>1, <1>2

LEMMA CountedStep ==
  TypeOK /\ CacheInv /\ LengthsInv /\ LengthsCounted /\ [Next]_cacheVars
    => LengthsCounted'
<1> SUFFICES ASSUME TypeOK, CacheInv, LengthsInv, LengthsCounted, [Next]_cacheVars
             PROVE  LengthsCounted'
  OBVIOUS
<1>a. /\ index \in Index /\ journal \in Index /\ 0 \in Counted
      /\ \A k \in Keys : index.length[k] \in Counted /\ journal.length[k] \in Counted
  BY DEF TypeOK, LengthsCounted, Counted
<1>b. ASSUME UNCHANGED <<index, journal, buffer>> PROVE LengthsCounted'
  BY <1>b DEF LengthsCounted, Lines
<1>c. ASSUME buffer' = <<>>, \A k \in Keys : /\ index'.length[k] \in Counted
                                             /\ journal'.length[k] \in Counted
      PROVE  LengthsCounted'
  BY <1>c, EmptySeq DEF LengthsCounted, Lines
<1>1. CASE Open
  <2>1. /\ buffer' = <<>> /\ UNCHANGED journal
        /\ index' = Without(journal, journal.editing) /\ journal.editing \in SUBSET Keys
    BY <1>1 DEF Open, CacheInv, MemoryInv, journalVars, TypeOK, Index
  <2> QED BY <1>a, <1>c, <2>1, CountedChanged
<1>2. CASE OpenCorrupt
  <2>1. buffer' = <<>> /\ journal' = NoIndex /\ UNCHANGED index
    BY <1>2 DEF OpenCorrupt, CacheInv, MemoryInv
  <2> QED BY <1>a, <1>c, <2>1, CountedChanged
<1>3. CASE Crash
  <2>1. buffer' = <<>> /\ index' = NoIndex /\ UNCHANGED journal
    BY <1>3 DEF Crash
  <2> QED BY <1>a, <1>c, <2>1, CountedChanged
<1>4. CASE Spill
  <2>1. /\ buffer \in Seq(Line) /\ buffer # <<>> /\ buffer' = Tail(buffer)
        /\ journal' = Replay(journal, Head(buffer)) /\ UNCHANGED index
    BY <1>4 DEF Spill, TypeOK, Line
  <2>2. /\ Head(buffer) \in Line /\ Head(buffer).len \in Counted
        /\ \A i \in Lines' : buffer'[i].len \in Counted
    BY <2>1, TailType DEF LengthsCounted, Lines
  <2>3. \A k \in Keys : journal'.length[k] \in Counted
    <3>1. /\ Head(buffer).op \in {"CLEAN", "DIRTY", "READ", "REMOVE"}
          /\ Head(buffer).key \in Keys /\ {Head(buffer).key} \in SUBSET Keys
      BY <2>2 DEF Line
    <3> QED BY <1>a, <2>1, <2>2, <3>1, CountedChanged DEF Replay
  <2> QED BY <1>a, <2>1, <2>2, <2>3 DEF LengthsCounted
<1>5. CASE Trim
  <2>1. CASE TrimBegins \/ TrimEndsPlain
    BY <1>b, <2>1 DEF TrimBegins, TrimEndsPlain, journalVars
  <2>2. CASE TrimEvicts
    BY <2>2, EvictsKey, CountedRemoved DEF TrimEvicts, journalVars
  <2>3. CASE RebuildJournal
    <3>1. buffer' = <<>> /\ journal' = Rebuilt(index) /\ UNCHANGED index
      BY <2>3 DEF RebuildJournal
    <3> QED BY <1>a, <1>c, <3>1, CountedChanged
  <2> QED BY <1>5, <2>1, <2>2, <2>3 DEF Trim
<1>6. ASSUME NEW k \in Keys, Get(k) \/ GetMisses(k) \/ Adding(k) \/ Remove(k)
      PROVE  LengthsCounted'
  <2>1. CASE Get(k)
    <3>1. Write("READ", k, 0) /\ UNCHANGED <<index, journal>>
      BY <2>1 DEF Get, journalVars
    <3> QED BY <1>a, <3>1, CountedWritten
  <2>2. CASE Remove(k)
    BY <2>2, CountedRemoved DEF Remove, journalVars
  <2>3. CASE AddEdits(k)
    <3>1. Write("DIRTY", k, 0) /\ index' = Edited(index, k) /\ UNCHANGED journal
      BY <2>3 DEF AddEdits, Edit, journalVars
    <3>2. \A j \in Keys : index'.length[j] \in Counted
      BY <1>a, <3>1, CountedChanged
    <3> QED BY <1>a, <3>1, <3>2, CountedWritten
  <2>4. CASE AddCommits(k)
    <3>1. /\ Write("CLEAN", k, dirty[k].len) /\ UNCHANGED journal
          /\ index' = Published(index, k, dirty[k].len) /\ dirty[k].state = "whole"
      BY <2>4 DEF AddCommits, Publish, journalVars, CacheInv, MemoryInv, MemoryKnows
    <3>2. dirty[k].len \in Counted
      BY <3>1 DEF LengthsInv, Written, Counted
    <3>3. \A j \in Keys : index'.length[j] \in Counted
      BY <1>a, <3>1, <3>2, CountedChanged
    <3> QED BY <3>1, <3>2, <3>3, CountedWritten
  <2>5. CASE AddFails(k)
    <3>1. CASE Write("CLEAN", k, index.length[k]) /\ index' = [index EXCEPT !.editing = @ \ {k}]
      <4>1. index'.length = index.length /\ UNCHANGED journal
        BY <1>a, <2>5, <3>1 DEF Index, AddFails, journalVars
      <4> QED BY <1>a, <3>1, <4>1, CountedWritten
    <3>2. CASE Write("REMOVE", k, 0) /\ index' = Without(index, {k})
      <4>1. UNCHANGED journal /\ \A j \in Keys : index'.length[j] \in Counted
        BY <1>a, <2>5, <3>2, CountedChanged DEF AddFails, journalVars
      <4> QED BY <1>a, <3>2, <4>1, CountedWritten
    <3> QED BY <2>5, <3>1, <3>2 DEF AddFails
  <2>6. CASE GetMisses(k) \/ Add(k) \/ AddRefused(k) \/ AddFlushed(k) \/ AddCreates(k)
    BY <1>b, <2>6
    DEF GetMisses, Add, Missing, AddRefused, AddFlushed, AddCreates, journalVars
  <2>7. CASE AddCompresses(k) \/ AddThrows(k)
    BY <1>b, <2>7 DEF AddCompresses, AddThrows, journalVars
  <2> QED BY <1>6, <2>1, <2>2, <2>3, <2>4, <2>5, <2>6, <2>7 DEF Adding
<1>7. CASE UNCHANGED cacheVars
  BY <1>b, <1>7 DEF cacheVars, memoryVars, journalVars
<1> QED BY <1>1, <1>2, <1>3, <1>4, <1>5, <1>6, <1>7 DEF Next, Live

\* Where no entry becomes pinned and none that is pinned changes its length, what
\* is pinned keeps within its bound.
LEMMA PinnedShrinks ==
  ASSUME TypeOK, PinnedFits,
         \A k \in Pinned' : k \in Pinned /\ index'.length[k] = index.length[k]
  PROVE  PinnedFits'
<1> DEFINE f == index.length
<1>1. /\ Pinned \in SUBSET Keys /\ \A k \in Pinned : f[k] \in Nat
      /\ Pinned' \in SUBSET Pinned
  BY DEF Pinned, TypeOK, Index
<1>2. IsFiniteSet(Pinned) /\ IsFiniteSet(Pinned')
  BY <1>1, CacheAssumption, FS_Subset
<1> HIDE DEF f
<1>3. /\ SumOver(f, Pinned') \in Nat /\ SumOver(f, Pinned \ Pinned') \in Nat
      /\ SumOver(f, Pinned) = SumOver(f, Pinned') + SumOver(f, Pinned \ Pinned')
  BY <1>1, <1>2, SumSplit
<1>4. \A k \in Pinned' : index'.length[k] = f[k]
  BY DEF f
<1>5. SumOver(index'.length, Pinned') = SumOver(f, Pinned')
  BY <1>2, <1>4, SumSame
<1>6. SumOver(f, Pinned) <= MaxPinned
  BY DEF PinnedFits, f
<1>7. SumOver(f, Pinned') <= MaxPinned
  BY <1>3, <1>6, CacheAssumption
<1> QED BY <1>5, <1>7 DEF PinnedFits

\* An edit is given up where there is room for what was published of it.
LEMMA PinnedGivenUp ==
  ASSUME TypeOK, NEW k \in Keys, AddThrows(k)
  PROVE  PinnedFits'
<1> DEFINE f == index.length
           E == index.editing
<1>1. E \in SUBSET Keys /\ (\A j \in E : f[j] \in Nat) /\ Pinned' \in SUBSET E
  BY DEF AddThrows, Pinned, TypeOK, Index
<1>2. index' = index /\ SumOver(f, E) <= MaxPinned
  BY DEF AddThrows
<1> HIDE DEF f, E
<1>3. IsFiniteSet(E)
  BY <1>1, CacheAssumption, FS_Subset
<1>4. /\ SumOver(f, Pinned') \in Nat /\ SumOver(f, E \ Pinned') \in Nat
      /\ SumOver(f, E) = SumOver(f, Pinned') + SumOver(f, E \ Pinned')
  BY <1>1, <1>3, SumSplit
<1>5. SumOver(f, Pinned') <= MaxPinned
  BY <1>2, <1>4, CacheAssumption
<1>6. index'.length = f
  BY <1>2 DEF f
<1> QED BY <1>5, <1>6 DEF PinnedFits

\* A step keeps what is pinned within its bound: but for an edit that is given
\* up, no entry becomes pinned and none that is changes its length.
LEMMA PinnedStep ==
  TypeOK /\ MemoryInv /\ PinnedFits /\ [Next]_cacheVars => PinnedFits'
<1> SUFFICES ASSUME TypeOK, MemoryInv, PinnedFits, [Next]_cacheVars PROVE PinnedFits'
  OBVIOUS
<1> USE DEF Pinned, InProgress, Flushed
<1>a. index \in Index /\ journal \in Index
  BY DEF TypeOK
<1>b. ASSUME UNCHANGED <<index, adder>> PROVE PinnedFits'
  BY <1>b, PinnedShrinks
<1>c. ASSUME UNCHANGED adder, NEW k \in Keys,
             RemoveRefused(k) \/ RemoveFails(k) \/ RemoveDone(k)
      PROVE  PinnedFits'
  <2>1. CASE RemoveRefused(k) \/ RemoveFails(k)
    BY <1>b, <1>c, <2>1 DEF RemoveRefused, RemoveFails
  <2>2. CASE RemoveDone(k)
    <3>1. /\ index' = Without(index, {k})
          /\ k \notin index.editing /\ index.editing \subseteq Keys
      BY <1>a, <2>2 DEF RemoveDone, Forget, Index
    <3>2. /\ index'.editing \subseteq index.editing
          /\ \A j \in index'.editing : index'.length[j] = index.length[j]
      BY <3>1 DEF Without
    <3> QED BY <1>c, <3>2, PinnedShrinks
  <2> QED BY <1>c, <2>1, <2>2
<1>1. CASE Open
  <2>1. index'.editing = {}
    BY <1>1 DEF Open, Without
  <2> QED BY <2>1, PinnedShrinks
<1>2. CASE Crash
  <2>1. index'.editing = {}
    BY <1>2 DEF Crash, NoIndex
  <2> QED BY <2>1, PinnedShrinks
<1>3. CASE OpenCorrupt \/ Spill \/ UNCHANGED cacheVars
  BY <1>b, <1>3 DEF OpenCorrupt, Spill, cacheVars, memoryVars
<1>4. CASE Trim
  <2>1. CASE TrimBegins \/ TrimEndsPlain \/ RebuildJournal
    BY <1>b, <2>1 DEF TrimBegins, TrimEndsPlain, RebuildJournal
  <2>2. CASE TrimEvicts
    BY <1>c, <2>2, EvictsKey DEF TrimEvicts
  <2> QED BY <1>4, <2>1, <2>2 DEF Trim
<1>5. ASSUME NEW k \in Keys, Get(k) \/ GetMisses(k) \/ Remove(k) PROVE PinnedFits'
  <2>1. CASE Get(k) \/ GetMisses(k)
    BY <1>b, <2>1 DEF Get, GetMisses, Missing
  <2>2. CASE Remove(k)
    BY <1>c, <2>2 DEF Remove
  <2> QED BY <1>5, <2>1, <2>2
<1>6. ASSUME NEW k \in Keys, Adding(k) PROVE PinnedFits'
  <2>a. \A a : adder' = [adder EXCEPT ![k] = a]
          => \A j \in Keys : adder'[j] = IF j = k THEN a ELSE adder[j]
    BY DEF TypeOK
  <2>b. index.editing \subseteq Keys
    BY <1>a DEF Index
  <2>1. CASE Add(k)
    <3>1. UNCHANGED index /\ adder' = [adder EXCEPT ![k] = "edit"] /\ adder[k] = "idle"
      BY <2>1 DEF Add, Missing, NoAdder
    <3> QED BY <2>a, <2>b, <3>1, PinnedShrinks
  <2>2. CASE AddRefused(k)
    <3>1. UNCHANGED index /\ adder' = [adder EXCEPT ![k] = "idle"] /\ adder[k] = "edit"
      BY <2>2 DEF AddRefused
    <3> QED BY <2>a, <2>b, <3>1, PinnedShrinks
  <2>3. CASE AddEdits(k)
    <3>1. /\ index' = Edited(index, k) /\ adder' = [adder EXCEPT ![k] = "flush"]
          /\ adder[k] = "edit"
      BY <2>3 DEF AddEdits, Edit
    <3>2. index'.editing = index.editing \cup {k} /\ index'.length = index.length
      BY <1>a, <3>1 DEF Edited, Index
    <3>3. \A j \in Keys : adder'[j] = IF j = k THEN "flush" ELSE adder[j]
      BY <2>a, <3>1
    <3>4. \A j \in Pinned' : j \in Pinned
      BY <2>b, <3>2, <3>3
    <3> QED BY <3>2, <3>4, PinnedShrinks
  <2>4. CASE AddFlushed(k) \/ AddCreates(k) \/ AddCompresses(k)
    <3>1. /\ UNCHANGED index /\ InProgress(k)
          /\ \E a \in Flushed : adder' = [adder EXCEPT ![k] = a]
      BY <2>4 DEF AddFlushed, AddCreates, AddCompresses
    <3> QED BY <2>a, <2>b, <3>1, PinnedShrinks
  <2>5. CASE AddThrows(k)
    BY <2>5, PinnedGivenUp
  <2>6. CASE AddCommits(k)
    <3>1. /\ index' = Published(index, k, dirty[k].len)
          /\ adder' = [adder EXCEPT ![k] = "idle"]
      BY <2>6 DEF AddCommits, Publish
    <3>2. /\ index'.editing = index.editing \ {k}
          /\ \A j \in Keys \ {k} : index'.length[j] = index.length[j]
      BY <1>a, <3>1 DEF Published, Index
    <3> QED BY <2>a, <2>b, <3>1, <3>2, PinnedShrinks
  <2>7. CASE AddFails(k)
    <3>1. /\ \/ index' = [index EXCEPT !.editing = @ \ {k}]
             \/ index' = Without(index, {k})
          /\ adder' = [adder EXCEPT ![k] = "idle"]
      BY <2>7 DEF AddFails
    <3>2. /\ index'.editing = index.editing \ {k}
          /\ \A j \in Keys \ {k} : index'.length[j] = index.length[j]
      BY <1>a, <3>1 DEF Without, Index
    <3> QED BY <2>a, <2>b, <3>1, <3>2, PinnedShrinks
  <2> QED BY <1>6, <2>1, <2>2, <2>3, <2>4, <2>5, <2>6, <2>7 DEF Adding
<1> QED BY <1>1, <1>2, <1>3, <1>4, <1>5, <1>6 DEF Next, Live

\* When the process starts for the first time nothing is pinned.
LEMMA PinnedStart == Init => LengthsInv /\ PinnedInv
<1> SUFFICES ASSUME Init PROVE LengthsInv /\ PinnedInv
  OBVIOUS
<1>1. LengthsInv
  BY DEF Init, LengthsInv, Written
<1>2. PinnedFits
  <2>1. Pinned = {} /\ IsFiniteSet(Pinned)
    BY FS_EmptySet DEF Init, Pinned, NoIndex
  <2>2. SumOver(index.length, Pinned) = 0
    BY <2>1, SumOfNone
  <2> QED BY <2>2, CacheAssumption DEF PinnedFits
<1>3. OneAdder /\ LengthsCounted
  <2>1. \A i \in Lines : FALSE
    BY DEF Init, Lines
  <2> QED BY <2>1 DEF Init, OneAdder, LengthsCounted, NoIndex, Counted
<1> QED BY <1>1, <1>2, <1>3 DEF PinnedInv

\* What is published of entries that are edited fits beside one more thumbnail.
LEMMA EditedFit ==
  ASSUME TypeOK, PinnedInv
  PROVE  \E n \in Counted : SumOver(index.length, index.editing) <= MaxPinned + n
<1> DEFINE f == index.length
           E == index.editing
           R == E \ Pinned
<1>1. /\ E \in SUBSET Keys /\ Pinned \in SUBSET E
      /\ \A k \in E : f[k] \in Nat /\ f[k] \in Counted
      /\ \A k \in R : adder[k] # "idle"
  BY DEF PinnedInv, LengthsCounted, Pinned, InProgress, Flushed, TypeOK, Index
<1>2. IsFiniteSet(E) /\ IsFiniteSet(R)
  BY <1>1, CacheAssumption, FS_Subset
<1>3. \A j, k \in R : j = k
  BY <1>1 DEF PinnedInv, OneAdder
<1>4. SumOver(f, Pinned) <= MaxPinned
  BY DEF PinnedInv, PinnedFits
<1> HIDE DEF f, E
<1>5. /\ SumOver(f, Pinned) \in Nat /\ SumOver(f, R) \in Nat
      /\ SumOver(f, E) = SumOver(f, Pinned) + SumOver(f, R)
  BY <1>1, <1>2, SumSplit
<1>6. SumOver(f, R) \in Counted
  <2>1. CASE R = {}
    <3>1. SumOver(f, R) = 0
      BY <1>2, <2>1, SumOfNone
    <3> QED BY <3>1 DEF Counted
  <2>2. ASSUME NEW k \in R PROVE SumOver(f, R) \in Counted
    <3>1. SumOver(f, R) = f[k]
      BY <1>1, <1>2, <1>3, <2>2, SumOfNone
    <3> QED BY <1>1, <2>2, <3>1
  <2> QED BY <2>1, <2>2
<1> HIDE DEF R
<1>7. SumOver(f, E) <= MaxPinned + SumOver(f, R)
  BY <1>4, <1>5, CacheAssumption
<1> QED BY <1>6, <1>7 DEF f, E

\* Eviction can go on: a cache that is too large has an entry that nobody edits,
\* if the cache has room for a thumbnail besides the entries whose edit was given
\* up.
THEOREM EvictionIsPossible == Spec => []TrimCanEvict
<1>1. Init => LengthsInv /\ PinnedInv
  BY PinnedStart
<1>2. TypeOK /\ CacheInv /\ LengthsInv /\ PinnedInv /\ [Next]_cacheVars
        => LengthsInv' /\ PinnedInv'
  BY LengthsStep, PinnedStep, OneAdderStep, CountedStep DEF PinnedInv, CacheInv
<1>3. TypeOK /\ UsageInv /\ PinnedInv => TrimCanEvict
  <2> SUFFICES ASSUME TypeOK, UsageInv, PinnedInv,
                      \A n \in Sizes : MaxPinned + n <= MaxSize,
                      size > MaxSize, index.readable \ index.editing = {}
               PROVE  FALSE
    BY DEF TrimCanEvict
  <2> DEFINE f == index.length
             E == index.editing
  <2>1. E \in SUBSET Keys /\ \A k \in Keys : f[k] \in Nat
    BY DEF TypeOK, Index
  <2>2. \A k \in Keys \ E : f[k] = 0
    BY DEF UsageInv, LengthsOfReadable
  <2>3. size = SumOver(f, Keys)
    BY DEF UsageInv, Sum
  <2>4. PICK n \in Counted : SumOver(f, E) <= MaxPinned + n
    BY EditedFit
  <2> HIDE DEF f, E
  <2>5. SumOver(f, E) \in Nat /\ SumOver(f, Keys) = SumOver(f, E) + SumOver(f, Keys \ E)
    BY <2>1, CacheAssumption, SumSplit
  <2>6. SumOver(f, Keys \ E) = 0
    <3>1. IsFiniteSet(Keys \ E)
      BY CacheAssumption, FS_Subset
    <3> QED BY <2>2, <3>1, SumOfNone
  <2>7. MaxPinned + n <= MaxSize
    <3>1. PICK m \in Sizes : MaxPinned + m <= MaxSize
      BY CacheAssumption
    <3>2. n = 0 \/ n \in Sizes
      BY DEF Counted
    <3> QED BY <3>1, <3>2, CacheAssumption
  <2>8. n \in Nat
    BY CacheAssumption DEF Counted
  <2> QED BY <2>3, <2>4, <2>5, <2>6, <2>7, <2>8, CacheAssumption
<1> QED BY <1>1, <1>2, <1>3, CacheInvariant, UsageInvariant, PTL DEF Spec
==============================================================================
