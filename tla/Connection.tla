------------------------------ MODULE Connection ------------------------------
(***************************************************************************)
(* What the connection to a remote camera promises, without threads, flags *)
(* or scans: a camera is opened for a fragment in the foreground that has  *)
(* no connection and no remains of one; an opening comes through, a        *)
(* connection lasts until the fragment leaves, and is wound up before the  *)
(* fragment comes back.  SonyConnection implements it in a calm world.     *)
(***************************************************************************)
VARIABLES
  front,  \* the fragment is in the foreground
  link    \* "down", "opening", "up", or "ending" after the fragment has left

vars == <<front, link>>

Init == front = FALSE /\ link = "down"

\* The fragment comes, perhaps with a camera that is known, ...
Appear == /\ ~front /\ link = "down"
          /\ front' = TRUE
          /\ link' \in {"down", "opening"}

\* ... or finds one.
Find == front /\ link = "down" /\ link' = "opening" /\ UNCHANGED front

Connect == front /\ link = "opening" /\ link' = "up" /\ UNCHANGED front

\* The fragment goes, and what listens to the camera ends.
Vanish == /\ front /\ link \in {"down", "up"}
          /\ front' = FALSE
          /\ link' = IF link = "up" THEN "ending" ELSE "down"

End == ~front /\ link = "ending" /\ link' = "down" /\ UNCHANGED front

Next == Appear \/ Find \/ Connect \/ Vanish \/ End

Spec == Init /\ [][Next]_vars
==============================================================================
