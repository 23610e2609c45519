---------------------------- MODULE ThumbnailStore ----------------------------
(***************************************************************************)
(* What the cache on disk promises the viewer, without journal, buffer,    *)
(* order or editors: a thumbnail appears whole and at once, and does not   *)
(* change until it is removed; a killed process loses those that were not  *)
(* settled, and no other.  DiskLruCache implements it.                     *)
(***************************************************************************)
CONSTANTS
  Keys,
  Thumbnails,  \* what can be stored under a key
  Absent       \* none of them

VARIABLES
  up,       \* a process works with the store
  stored,   \* the thumbnail of a key, or Absent
  settled,  \* the keys whose thumbnails outlive the process
  torn      \* a process was killed while it settled something

vars == <<up, stored, settled, torn>>

Stored == {k \in Keys : stored[k] # Absent}

Init ==
  /\ up = FALSE
  /\ stored = [k \in Keys |-> Absent]
  /\ settled = {}
  /\ torn = FALSE

Publish(k) ==
  /\ up /\ stored[k] = Absent
  /\ \E t \in Thumbnails : stored' = [stored EXCEPT ![k] = t]
  /\ UNCHANGED <<up, settled, torn>>

\* The user has deleted the picture, or the thumbnail is the eldest one.
Remove(k) ==
  /\ up /\ stored[k] # Absent
  /\ stored' = [stored EXCEPT ![k] = Absent]
  /\ settled' = settled \ {k}
  /\ UNCHANGED <<up, torn>>

\* More is settled; what was torn may be mended.
Settle ==
  /\ up
  /\ settled \subseteq settled' /\ settled' \subseteq Stored
  /\ torn' => torn
  /\ UNCHANGED <<up, stored>>

\* What a kill has torn is written over, and nothing will be read of it.
Spoil ==
  /\ up /\ torn
  /\ settled' = {} /\ torn' = FALSE
  /\ UNCHANGED <<up, stored>>

Kill ==
  /\ up /\ up' = FALSE
  /\ torn => torn'
  /\ UNCHANGED <<stored, settled>>

\* The next process finds what was settled.
Recover ==
  /\ ~up /\ up' = TRUE
  /\ stored' = [k \in Keys |-> IF k \in settled THEN stored[k] ELSE Absent]
  /\ UNCHANGED <<settled, torn>>

Next ==
  \/ \E k \in Keys : Publish(k) \/ Remove(k)
  \/ Settle \/ Spoil \/ Kill \/ Recover

Spec == Init /\ [][Next]_vars
==============================================================================
