----------------------------- MODULE DiskLruCache -----------------------------
(***************************************************************************)
(* The cache of thumbnails on disk (viewer/helper/DiskLruCache) as the     *)
(* viewer uses it (CacheHelper, BitmapHelper): one value per key, one      *)
(* thread at a time adding a thumbnail, another deleting, the cache's own  *)
(* thread evicting, and a process that Android kills without closing the   *)
(* cache.                                                                  *)
(*                                                                         *)
(* The journal is represented by what reading it yields, the index below;  *)
(* the lines that the BufferedWriter still holds are kept one by one.      *)
(***************************************************************************)
EXTENDS Naturals, Sequences, FiniteSets, FiniteSetsExt

CONSTANTS
  Keys,         \* names of thumbnails (without blanks)
  Sizes,        \* lengths a thumbnail can have
  MaxSize,      \* DiskLruCache.maxSize
  RebuildAt,    \* REDUNDANT_OP_COMPACT_THRESHOLD
  MaxBuffer,    \* lines the writer's buffer holds (bound of the model)
  MaxTasks,     \* clean-ups queued at once (bound of the model)
  MaxPinned     \* published bytes of entries whose edit was given up (bound of
                \* the model: an edit that is going on fits besides)

ASSUME CacheAssumption ==
  /\ IsFiniteSet(Keys)
  /\ Sizes \subseteq Nat \ {0} /\ Sizes # {}
  /\ MaxSize \in Nat /\ RebuildAt \in Nat
  /\ MaxBuffer \in Nat \ {0} /\ MaxTasks \in Nat \ {0} /\ MaxPinned \in Nat

VARIABLES
  open,       \* the process lives and journalWriter is not null
  index,      \* lruEntries: its entries ...
  lru,        \* ... and the order of their last accesses
  size,       \* DiskLruCache.size
  redundant,  \* redundantOpCount
  buffer,     \* lines in journalWriter, not in the file
  tasks,      \* cleanupCallables submitted
  trimming,   \* one of them is in trimToSize, holding the cache's lock
  adder,      \* how far addBitmapToCache is with a key
  clean,      \* the file <key>.0
  dirty,      \* the file <key>.0.tmp
  journal,    \* the journal file: the entries that reading it yields ...
  journalLru, \* ... and their order
  tail        \* it ends with a full "line", is "torn" in the middle of one, or
              \* "corrupt": a line was appended to a torn one

memoryVars ==
  <<open, index, lru, size, redundant, buffer, tasks, trimming, adder>>
fileVars == <<clean, dirty>>
journalVars == <<journal, journalLru, tail>>
cacheVars == <<memoryVars, fileVars, journalVars>>

File == [state : {"none", "part", "whole"}, len : Nat]
NoFile == [state |-> "none", len |-> 0]
PartFile == [state |-> "part", len |-> 0]
WholeFile(n) == [state |-> "whole", len |-> n]
Exists(file) == file.state # "none"

\* Entries: those that were published, those that are being edited, and the
\* lengths of their files.
Index ==
  [readable : SUBSET Keys, editing : SUBSET Keys, length : [Keys -> Nat]]
NoIndex == [readable |-> {}, editing |-> {}, length |-> [k \in Keys |-> 0]]
Entries(x) == x.readable \cup x.editing

Without(x, K) ==
  [readable |-> x.readable \ K,
   editing |-> x.editing \ K,
   length |-> [k \in Keys |-> IF k \in K THEN 0 ELSE x.length[k]]]
Edited(x, k) == [x EXCEPT !.editing = @ \cup {k}]
Published(x, k, n) ==
  [x EXCEPT !.readable = @ \cup {k}, !.editing = @ \ {k}, !.length[k] = n]

\* The LinkedHashMap in access order.
Dropped(s, K) ==
  LET kept[i \in 0 .. Len(s)] ==
        IF i = 0 THEN <<>>
        ELSE IF s[i] \in K THEN kept[i - 1] ELSE Append(kept[i - 1], s[i])
  IN kept[Len(s)]
Moved(s, k) == Append(Dropped(s, {k}), k)

SumOver(f, S) == MapThenSumSet(LAMBDA k : f[k], S)
Sum(f) == SumOver(f, Keys)
------------------------------------------------------------------------------
\* readJournalLine.
Replay(x, line) ==
  CASE line.op = "REMOVE" -> Without(x, {line.key})
    [] line.op = "DIRTY"  -> Edited(x, line.key)
    [] line.op = "CLEAN"  -> Published(x, line.key, line.len)
    [] line.op = "READ"   -> x

ReplayOrder(s, line) ==
  IF line.op = "REMOVE" THEN Dropped(s, {line.key}) ELSE Moved(s, line.key)

\* The journal that rebuildJournal writes of an index.
Rebuilt(x) ==
  [x EXCEPT !.readable = @ \ x.editing,
            !.length = [k \in Keys |-> IF k \in x.editing THEN 0 ELSE @[k]]]

Init ==
  /\ open = FALSE
  /\ index = NoIndex /\ lru = <<>> /\ size = 0 /\ redundant = 0
  /\ buffer = <<>> /\ tasks = 0 /\ trimming = FALSE
  /\ adder = [k \in Keys |-> "idle"]
  /\ clean = [k \in Keys |-> NoFile]
  /\ dirty = [k \in Keys |-> NoFile]
  /\ journal = NoIndex /\ journalLru = <<>>
  /\ tail = "line"

\* open: the journal is read, entries being edited are deleted.  (No journal
\* is the same here as an empty one.)
Open ==
  /\ ~open /\ tail # "corrupt"
  /\ open' = TRUE
  /\ index' = Without(journal, journal.editing)
  /\ lru' = Dropped(journalLru, journal.editing)
  /\ size' = Sum(index'.length)
  /\ clean' = [k \in Keys |-> IF k \in journal.editing THEN NoFile ELSE clean[k]]
  /\ dirty' = [k \in Keys |-> IF k \in journal.editing THEN NoFile ELSE dirty[k]]
  /\ UNCHANGED <<redundant, buffer, tasks, trimming, adder, journalVars>>

\* open on a corrupt journal: the directory is emptied.
OpenCorrupt ==
  /\ ~open /\ tail = "corrupt"
  /\ open' = TRUE
  /\ clean' = [k \in Keys |-> NoFile]
  /\ dirty' = [k \in Keys |-> NoFile]
  /\ journal' = NoIndex /\ journalLru' = <<>>
  /\ tail' = "line"
  /\ UNCHANGED <<index, lru, size, redundant, buffer, tasks, trimming, adder>>

\* The process dies.  What was in the buffer is lost; half a line of it may
\* have been written.
Crash ==
  /\ open
  /\ open' = FALSE
  /\ index' = NoIndex /\ lru' = <<>> /\ size' = 0 /\ redundant' = 0
  /\ buffer' = <<>> /\ tasks' = 0 /\ trimming' = FALSE
  /\ adder' = [k \in Keys |-> "idle"]
  /\ tail' \in {tail} \cup IF tail = "line" /\ buffer # <<>> THEN {"torn"} ELSE {}
  /\ UNCHANGED <<fileVars, journal, journalLru>>

\* A line leaves the buffer: it is flushed, or full.
Spill ==
  /\ buffer # <<>>
  /\ buffer' = Tail(buffer)
  /\ journal' = Replay(journal, Head(buffer))
  /\ journalLru' = ReplayOrder(journalLru, Head(buffer))
  /\ tail' = IF tail = "torn" THEN "corrupt" ELSE tail
  /\ UNCHANGED <<open, index, lru, size, redundant, tasks, trimming, adder>>
  /\ UNCHANGED fileVars
------------------------------------------------------------------------------
\* Nobody holds the lock of the cache, or CacheHelper's mDiskCacheLock.
Free == open /\ ~trimming /\ \A k \in Keys : adder[k] # "flush"
NoAdder == \A k \in Keys : adder[k] = "idle"

Write(op, k, n) ==
  /\ Len(buffer) < MaxBuffer
  /\ buffer' = Append(buffer, [op |-> op, key |-> k, len |-> n])

\* One more redundant line.  (The count saturates where it no longer matters.)
Redundant ==
  redundant' = IF redundant < RebuildAt + Cardinality(Keys) THEN redundant + 1
                                                            ELSE redundant

\* journalRebuildRequired.
RebuildRequired(r, x) == r >= RebuildAt /\ r >= Cardinality(Entries(x))

Submit(needed) ==
  \/ needed /\ tasks < MaxTasks /\ tasks' = tasks + 1
  \/ ~needed /\ UNCHANGED tasks

\* get, by the viewer or by addBitmapToCache: the thumbnail is there ...
Get(k) ==
  /\ Free /\ NoAdder
  /\ k \in index.readable /\ Exists(clean[k])
  /\ lru' = Moved(lru, k)
  /\ Redundant
  /\ Write("READ", k, 0)
  /\ Submit(RebuildRequired(redundant', index))
  /\ UNCHANGED <<open, index, size, trimming, adder, fileVars, journalVars>>

\* ... or is not.
Missing(k) ==
  /\ Free /\ NoAdder
  /\ ~(k \in index.readable /\ Exists(clean[k]))
  /\ lru' = IF k \in Entries(index) THEN Moved(lru, k) ELSE lru
  /\ UNCHANGED <<open, index, size, redundant, buffer, tasks, trimming>>
  /\ UNCHANGED <<fileVars, journalVars>>

GetMisses(k) == Missing(k) /\ UNCHANGED adder

\* addBitmapToCache: get ...
Add(k) == Missing(k) /\ adder' = [adder EXCEPT ![k] = "edit"]

\* ... and edit: another edit of the key was never finished, ...
AddRefused(k) ==
  /\ Free /\ adder[k] = "edit"
  /\ k \in index.editing
  /\ lru' = Moved(lru, k)
  /\ adder' = [adder EXCEPT ![k] = "idle"]
  /\ UNCHANGED <<open, index, size, redundant, buffer, tasks, trimming>>
  /\ UNCHANGED <<fileVars, journalVars>>

\* ... or there is an editor.
Edit(k) ==
  /\ Free /\ adder[k] = "edit"
  /\ k \notin index.editing
  /\ index' = Edited(index, k)
  /\ lru' = Moved(lru, k)
  /\ Write("DIRTY", k, 0)
  /\ UNCHANGED <<open, size, redundant, tasks, trimming, fileVars, journalVars>>

\* Slip: the line is left in the buffer.
AddEditsUnflushed(k) == Edit(k) /\ adder' = [adder EXCEPT ![k] = "create"]

\* "flush the journal before creating files": edit keeps the lock for that.
AddEdits(k) == Edit(k) /\ adder' = [adder EXCEPT ![k] = "flush"]

AddFlushed(k) ==
  /\ open /\ adder[k] = "flush" /\ buffer = <<>>
  /\ adder' = [adder EXCEPT ![k] = "create"]
  /\ UNCHANGED <<open, index, lru, size, redundant, buffer, tasks, trimming>>
  /\ UNCHANGED <<fileVars, journalVars>>

\* newOutputStream.
AddCreates(k) ==
  /\ Free /\ adder[k] = "create"
  /\ dirty' = [dirty EXCEPT ![k] = PartFile]
  /\ adder' = [adder EXCEPT ![k] = "compress"]
  /\ UNCHANGED <<open, index, lru, size, redundant, buffer, tasks, trimming>>
  /\ UNCHANGED <<clean, journalVars>>

\* compress: the file is written, or an error is hidden in hasErrors.  (The file
\* is there if no other cache works in the directory; see DiskLruCaches.)
AddCompresses(k) ==
  /\ open /\ adder[k] = "compress" /\ Exists(dirty[k])
  /\ \/ /\ \E n \in Sizes : dirty' = [dirty EXCEPT ![k] = WholeFile(n)]
        /\ adder' = [adder EXCEPT ![k] = "commit"]
     \/ /\ adder' = [adder EXCEPT ![k] = "failed"]
        /\ UNCHANGED dirty
  /\ UNCHANGED <<open, index, lru, size, redundant, buffer, tasks, trimming>>
  /\ UNCHANGED <<clean, journalVars>>

\* An exception of newOutputStream or compress: the editor is not aborted.
AddThrows(k) ==
  /\ open /\ adder[k] \in {"create", "compress"}
  /\ SumOver(index.length, index.editing) <= MaxPinned
  /\ adder' = [adder EXCEPT ![k] = "idle"]
  /\ UNCHANGED <<open, index, lru, size, redundant, buffer, tasks, trimming>>
  /\ UNCHANGED <<fileVars, journalVars>>

\* completeEdit(editor, true) of an entry that had this length.
Publish(k, oldLength) ==
  /\ clean' = [clean EXCEPT ![k] = dirty[k]]
  /\ dirty' = [dirty EXCEPT ![k] = NoFile]
  /\ size' = size - oldLength + dirty[k].len
  /\ index' = Published(index, k, dirty[k].len)
  /\ Redundant
  /\ Write("CLEAN", k, dirty[k].len)
  /\ Submit(size' > MaxSize \/ RebuildRequired(redundant', index'))
  /\ adder' = [adder EXCEPT ![k] = "idle"]
  /\ UNCHANGED <<open, lru, trimming, journalVars>>

\* Slips: the length the entry had is forgotten; hasErrors is.
AddCommitsTwice(k) == Free /\ adder[k] = "commit" /\ Publish(k, 0)

AddCommitsErrors(k) ==
  Free /\ adder[k] \in {"commit", "failed"} /\ Publish(k, index.length[k])

\* commit of an edit that did create its file.
AddCommits(k) ==
  Free /\ adder[k] = "commit" /\ Exists(dirty[k]) /\ Publish(k, index.length[k])

\* commit after an error: completeEdit gives the edit up.  The remove that
\* follows finds no entry; or, of an entry whose file was missing, it fails to
\* delete the file, and the entry stays.
AddFails(k) ==
  /\ Free /\ adder[k] = "failed"
  /\ dirty' = [dirty EXCEPT ![k] = NoFile]
  /\ Redundant
  /\ \/ /\ k \in index.readable
        /\ index' = [index EXCEPT !.editing = @ \ {k}]
        /\ lru' = Moved(lru, k)
        /\ Write("CLEAN", k, index.length[k])
     \/ /\ k \notin index.readable
        /\ index' = Without(index, {k})
        /\ lru' = Dropped(lru, {k})
        /\ Write("REMOVE", k, 0)
  /\ Submit(size > MaxSize \/ RebuildRequired(redundant', index'))
  /\ adder' = [adder EXCEPT ![k] = "idle"]
  /\ UNCHANGED <<open, size, trimming, clean, journalVars>>
------------------------------------------------------------------------------
\* remove, by the viewer or by trimToSize: an entry being edited stays, ...
RemoveRefused(k) ==
  /\ k \in index.editing
  /\ lru' = Moved(lru, k)
  /\ UNCHANGED <<index, size, redundant, buffer, tasks, clean>>

\* ... so does one whose file is missing, with an IOException, ...
RemoveFails(k) ==
  /\ k \in index.readable \ index.editing /\ ~Exists(clean[k])
  /\ lru' = Moved(lru, k)
  /\ UNCHANGED <<index, size, redundant, buffer, tasks, clean>>

\* ... and any other goes.
Forget(k) ==
  /\ k \in index.readable \ index.editing /\ Exists(clean[k])
  /\ size' = size - index.length[k]
  /\ index' = Without(index, {k})
  /\ lru' = Dropped(lru, {k})
  /\ Redundant
  /\ Write("REMOVE", k, 0)
  /\ Submit(RebuildRequired(redundant', index'))

RemoveDone(k) == Forget(k) /\ clean' = [clean EXCEPT ![k] = NoFile]

\* deleteFileFromDiskCache: the user has deleted the picture.
Remove(k) ==
  /\ Free
  /\ RemoveRefused(k) \/ RemoveFails(k) \/ RemoveDone(k)
  /\ UNCHANGED <<open, trimming, adder, dirty, journalVars>>

\* cleanupCallable begins, ...
TrimBegins ==
  /\ Free /\ tasks > 0
  /\ tasks' = tasks - 1
  /\ trimming' = TRUE
  /\ UNCHANGED <<open, index, lru, size, redundant, buffer, adder, fileVars, journalVars>>

\* Slip: the exception is ignored.
TrimEvictsOn ==
  /\ trimming /\ size > MaxSize
  /\ LET k == Head(lru)
     IN RemoveRefused(k) \/ RemoveFails(k) \/ RemoveDone(k)
  /\ UNCHANGED <<open, trimming, adder, dirty, journalVars>>

\* ... removes the eldest entry as long as the cache is too large, ...
TrimEvicts ==
  /\ trimming /\ size > MaxSize
  /\ LET k == Head(lru)
     IN \/ (RemoveRefused(k) \/ RemoveDone(k)) /\ UNCHANGED trimming
        \/ RemoveFails(k) /\ trimming' = FALSE
  /\ UNCHANGED <<open, adder, dirty, journalVars>>

\* ... and rebuilds the journal when that is worth it.
TrimEndsPlain ==
  /\ trimming /\ size <= MaxSize
  /\ ~RebuildRequired(redundant, index)
  /\ trimming' = FALSE
  /\ UNCHANGED <<open, index, lru, size, redundant, buffer, tasks, adder>>
  /\ UNCHANGED <<fileVars, journalVars>>

RebuildJournal ==
  /\ trimming /\ size <= MaxSize
  /\ RebuildRequired(redundant, index)
  /\ journal' = Rebuilt(index)
  /\ journalLru' = lru
  /\ tail' = "line"
  /\ buffer' = <<>>
  /\ redundant' = 0
  /\ trimming' = FALSE
  /\ UNCHANGED <<open, index, lru, size, tasks, adder, fileVars>>
------------------------------------------------------------------------------
Adding(k) ==
  \/ Add(k) \/ AddRefused(k) \/ AddEdits(k) \/ AddFlushed(k) \/ AddCreates(k)
  \/ AddCompresses(k) \/ AddThrows(k) \/ AddCommits(k) \/ AddFails(k)

Trim == TrimBegins \/ TrimEvicts \/ TrimEndsPlain \/ RebuildJournal

\* What the cache does while the process lives.
Live ==
  \/ Open \/ OpenCorrupt \/ Spill \/ Trim
  \/ \E k \in Keys : Get(k) \/ GetMisses(k) \/ Adding(k) \/ Remove(k)

Next == Live \/ Crash

\* The writer writes, the clean-up thread runs; the process may die.
Fairness == WF_cacheVars(Spill) /\ WF_cacheVars(Trim)

Spec == Init /\ [][Next]_cacheVars

FairSpec == Spec /\ Fairness
------------------------------------------------------------------------------
\* Every variable has its type.  (Of size and of the two orders UsageIsCounted
\* says more.)
TypeOK ==
  /\ open \in BOOLEAN
  /\ index \in Index
  /\ redundant \in Nat
  /\ buffer \in Seq([op : {"CLEAN", "DIRTY", "READ", "REMOVE"}, key : Keys, len : Nat])
  /\ tasks \in Nat
  /\ trimming \in BOOLEAN
  /\ adder \in
       [Keys -> {"idle", "edit", "flush", "create", "compress", "commit", "failed"}]
  /\ clean \in [Keys -> File]
  /\ dirty \in [Keys -> File]
  /\ journal \in Index
  /\ tail \in {"line", "torn", "corrupt"}

\* "flush the journal before creating files to prevent file leaks": wherever the
\* process dies, the journal on disk knows every file there is.  (A corrupt
\* journal makes open empty the directory.)
NoLeak ==
  \A k \in Keys :
    Exists(clean[k]) \/ Exists(dirty[k]) => k \in Entries(journal) \/ tail = "corrupt"

\* A thumbnail that can be read is whole: what a killed or failed writer leaves
\* behind is never published, by this process or by the next.
WholeFiles == \A k \in Keys : Exists(clean[k]) => clean[k].state = "whole"

\* Where the process dies, the next one reads of every file it keeps the length
\* the file has.
RecoveryIsTrue ==
  tail # "corrupt" =>
    \A k \in journal.readable \ journal.editing :
      Exists(clean[k]) => journal.length[k] = clean[k].len

\* Every byte on disk is counted and can be evicted: a file is that of a
\* published entry, of its length, and the order lists every entry once.
UsageIsCounted ==
  /\ size = Sum(index.length)
  /\ open => \A k \in Keys : Exists(clean[k]) =>
               k \in index.readable /\ index.length[k] = clean[k].len
  /\ Len(lru) = Cardinality(Entries(index))
  /\ Entries(index) = {lru[i] : i \in 1 .. Len(lru)}

\* trimToSize takes the eldest entry without a look at whether there is one: a
\* cache that is too large always has one.
TrimFindsEldest == trimming /\ size > MaxSize => lru # <<>>

\* What keeps trimToSize from going round for ever: among the entries of a cache
\* that is too large is one that nobody edits.  That takes room for one thumbnail
\* besides the entries whose edit was given up, which are never evicted.
TrimCanEvict ==
  (\A n \in Sizes : MaxPinned + n <= MaxSize) =>
    (trimming /\ size > MaxSize => index.readable \ index.editing # {})

\* trimToSize comes to its end and gives the cache back to the viewer.
TrimEnds == trimming ~> ~trimming
------------------------------------------------------------------------------
\* The inductive invariant behind NoLeak, WholeFiles and RecoveryIsTrue.  An
\* addition that has its editor and its flushed line:
Flushed == {"create", "compress", "commit", "failed"}

Lines == 1 .. Len(buffer)

\* What the process knows of the file of a key ...
MemoryKnows(k) ==
  /\ adder[k] \in Flushed \cup {"flush"} => k \in index.editing
  /\ adder[k] = "commit" => dirty[k].state = "whole"
  /\ open /\ Exists(dirty[k]) => k \in index.editing
  /\ Exists(clean[k]) => adder[k] = "idle" /\ k \notin index.editing
  /\ Exists(clean[k]) /\ open =>
       k \in index.readable /\ index.length[k] = clean[k].len

MemoryInv ==
  /\ ~open => index = NoIndex /\ buffer = <<>> /\ ~trimming /\ NoAdder
  /\ trimming => \A k \in Keys : adder[k] # "flush"
  /\ \A k \in Keys : MemoryKnows(k)

\* ... and what the journal, with the lines on their way to it, says of it.
JournalKnows(k) ==
  /\ Exists(clean[k]) => k \in Entries(journal)
  /\ Exists(clean[k]) =>
       \A i \in Lines : buffer[i].key = k =>
         /\ buffer[i].op \in {"CLEAN", "READ"}
         /\ buffer[i].op = "CLEAN" => buffer[i].len = clean[k].len
  /\ adder[k] \in Flushed \/ Exists(dirty[k]) =>
       k \in journal.editing /\ \A i \in Lines : buffer[i].key # k
  /\ adder[k] = "flush" =>
       \/ buffer = <<>> /\ k \in journal.editing
       \/ /\ buffer # <<>>
          /\ buffer[Len(buffer)].op = "DIRTY" /\ buffer[Len(buffer)].key = k

JournalInv == tail # "corrupt" => \A k \in Keys : JournalKnows(k)

CacheInv == MemoryInv /\ JournalInv /\ WholeFiles /\ RecoveryIsTrue

\* What is settled: the journal says that it was published, and can be read.
settledKeys ==
  IF tail = "corrupt" THEN {}
  ELSE {k \in journal.readable \ journal.editing : Exists(clean[k])}

Promise ==
  INSTANCE ThumbnailStore WITH
    Thumbnails <- {WholeFile(n) : n \in Sizes}, Absent <- NoFile,
    up <- open, stored <- clean, settled <- settledKeys, torn <- (tail = "torn")

\* Index, journal, buffer and edits implement the promise of ThumbnailStore: no
\* thumbnail is published half or over another, none changes, and a kill costs
\* those alone of which the journal on disk does not know yet.
ImplementsStore == Promise!Spec

\* What was written has a length that a thumbnail can have.
Written == {NoFile, PartFile} \cup {WholeFile(n) : n \in Sizes}
LengthsInv == \A k \in Keys : clean[k] \in Written /\ dirty[k] \in Written
------------------------------------------------------------------------------
\* The inductive invariant behind UsageIsCounted.  The order lists every entry
\* once:
Listed(s) == {s[i] : i \in 1 .. Len(s)}
Once(s) == \A i, j \in 1 .. Len(s) : s[i] = s[j] => i = j
InOrder(s, x) == s \in Seq(Keys) /\ Once(s) /\ Listed(s) = Entries(x)

\* No length is counted for what is not published.
LengthsOfReadable(x) == \A k \in Keys : k \notin x.readable => x.length[k] = 0

\* Who reads the journal, and then the first n lines after it, knows k.
Removed(line, k) == line.op = "REMOVE" /\ line.key = k
Named(line, k) == line.op \in {"DIRTY", "CLEAN"} /\ line.key = k

Known(x, lines, n, k) ==
  \/ k \in Entries(x) /\ \A i \in 1 .. n : ~Removed(lines[i], k)
  \/ \E i \in 1 .. n :
       Named(lines[i], k) /\ \A j \in i + 1 .. n : ~Removed(lines[j], k)

\* The lines lead to every entry, and to the keys that were read; who read
\* another would put a key into the order that is none of the entries.
Tell(x, lines, entries) ==
  /\ \A k \in entries : Known(x, lines, Len(lines), k)
  /\ \A i \in 1 .. Len(lines) :
       lines[i].op = "READ" => Known(x, lines, i - 1, lines[i].key)

LinesInv == Tell(journal, buffer, Entries(index))

UsageInv ==
  /\ size = Sum(index.length)
  /\ InOrder(lru, index) /\ InOrder(journalLru, journal)
  /\ LengthsOfReadable(index) /\ LengthsOfReadable(journal)
  /\ LinesInv
------------------------------------------------------------------------------
\* The inductive invariant behind TrimCanEvict: the entries whose edit was given
\* up use MaxPinned at most, one thread adds at a time, and every length is one
\* that a thumbnail can have.
InProgress(k) == adder[k] \in Flushed \cup {"flush"}
Pinned == {k \in index.editing : ~InProgress(k)}

Counted == {0} \cup Sizes

OneAdder == \A j, k \in Keys : adder[j] # "idle" /\ adder[k] # "idle" => j = k

LengthsCounted ==
  /\ \A k \in Keys : index.length[k] \in Counted /\ journal.length[k] \in Counted
  /\ \A i \in Lines : buffer[i].len \in Counted

PinnedFits == SumOver(index.length, Pinned) <= MaxPinned

PinnedInv == PinnedFits /\ OneAdder /\ LengthsCounted
==============================================================================
