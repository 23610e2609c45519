------------------------------ MODULE Recording ------------------------------
(***************************************************************************)
(* What a video module promises its user: the button shows a recording     *)
(* before there is a file that is written, and as long as there is one.    *)
(* VideoModuleApi2 implements it.                                          *)
(***************************************************************************)
VARIABLES
  shown,   \* "rec" while the button offers to stop a recording, else "stop"
  writing  \* a recorder writes a file

vars == <<shown, writing>>

Init == shown = "stop" /\ writing = FALSE

\* The press, the first frame, the refusal of the recorder, and the end.
Start == shown = "stop" /\ shown' = "rec" /\ UNCHANGED writing
Write == shown = "rec" /\ ~writing /\ writing' = TRUE /\ UNCHANGED shown
End   == shown = "rec" /\ shown' = "stop" /\ writing' = FALSE

Next == Start \/ Write \/ End

\* What is shown comes true, or is taken back.
Spec == Init /\ [][Next]_vars /\ WF_vars(~writing /\ (Write \/ End))
==============================================================================
