------------------------------- MODULE Series --------------------------------
(***************************************************************************)
(* What an interval series promises to the photographer, without timers,   *)
(* listeners or flags: pictures are taken one at a time, a wait lies        *)
(* between two of them, and a series that was stopped or has run out of    *)
(* time takes no further picture; only the one in progress is finished.    *)
(***************************************************************************)
VARIABLES
  on,      \* the series is running
  phase    \* "rest", "wait" between two pictures, or "shot": taking one

Init == on = FALSE /\ phase = "rest"

\* A series begins with a picture: a new one, or the one left in progress by
\* the series before.
Start == /\ ~on
         /\ on' = TRUE
         /\ phase' = "shot"

\* The photographer stops the series: a wait is cut short, a picture is not.
Stop == /\ on
        /\ on' = FALSE
        /\ phase' = IF phase = "wait" THEN "rest" ELSE phase

\* The picture is done: wait for the next one, or end, the time being up.
Arrive == /\ phase = "shot"
          /\ \/ on /\ on' = TRUE /\ phase' = "wait"
             \/ on' = FALSE /\ phase' = "rest"

\* The wait is over.
Fire == /\ on /\ phase = "wait"
        /\ phase' = "shot"
        /\ UNCHANGED on

Next == Start \/ Stop \/ Arrive \/ Fire

vars == <<on, phase>>

Spec == Init /\ [][Next]_vars
==============================================================================
