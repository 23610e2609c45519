----------------------------- MODULE DiskLruCaches -----------------------------
(***************************************************************************)
(* Two activities with a launcher icon of their own, the camera and the    *)
(* viewer, live in one process, and each of them opens a DiskLruCache on   *)
(* the same directory (ActivityAbstract.onCreate, BitmapHelper,            *)
(* CacheHelper).  Each cache has its memory, its writer and its locks; the *)
(* files and the journal are shared.                                       *)
(***************************************************************************)
EXTENDS Naturals, Sequences, FiniteSets

CONSTANTS Keys, Sizes, MaxSize, RebuildAt, MaxBuffer, MaxTasks, MaxPinned

VARIABLES
  open1, index1, lru1, size1, redundant1, buffer1, tasks1, trimming1, adder1,
  open2, index2, lru2, size2, redundant2, buffer2, tasks2, trimming2, adder2,
  clean, dirty, journal, journalLru, tail

Camera ==
  INSTANCE DiskLruCache WITH
    open <- open1, index <- index1, lru <- lru1, size <- size1,
    redundant <- redundant1, buffer <- buffer1, tasks <- tasks1,
    trimming <- trimming1, adder <- adder1

Viewer ==
  INSTANCE DiskLruCache WITH
    open <- open2, index <- index2, lru <- lru2, size <- size2,
    redundant <- redundant2, buffer <- buffer2, tasks <- tasks2,
    trimming <- trimming2, adder <- adder2

cameraVars ==
  <<open1, index1, lru1, size1, redundant1, buffer1, tasks1, trimming1, adder1>>
viewerVars ==
  <<open2, index2, lru2, size2, redundant2, buffer2, tasks2, trimming2, adder2>>
cachesVars ==
  <<cameraVars, viewerVars, clean, dirty, journal, journalLru, tail>>

Init == Camera!Init /\ Viewer!Init

\* A bound of the model: no cache comes to rebuild the journal, which would
\* leave the other with a writer to the file that was replaced.
NoRebuild == redundant1 < RebuildAt /\ redundant2 < RebuildAt

Next ==
  /\ NoRebuild
  /\ \/ Camera!Live /\ UNCHANGED viewerVars
     \/ Viewer!Live /\ UNCHANGED cameraVars

Spec == Init /\ [][Next]_cachesVars
------------------------------------------------------------------------------
\* "Committing is atomic": no reader, of either activity, is given a file that
\* was not written to its end.
NoHalfFile == Camera!WholeFiles
==============================================================================
