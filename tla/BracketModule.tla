---------------------------- MODULE BracketModule ----------------------------
(***************************************************************************)
(* The modules of the Camera1 API that take pictures, under one user: the  *)
(* picture module of PictureModule, and the three ways to take a bracket   *)
(* of three exposures, whose classes inherit from it:                      *)
(*                                                                         *)
(*   "bracket"    BracketModule, one takePicture per exposure              *)
(*   "hardware"   BracketModule when the camera brackets by itself         *)
(*   "aebracket"  AeBracketModule, the bracket of MediaTek devices         *)
(*                                                                         *)
(* In a bracket every picture is handled by a thread of its own: it counts *)
(* and saves the picture, starts the preview, sets the next exposure and   *)
(* takes the next picture.  DoWork sleeps on the UI thread while the       *)
(* exposure settles, and these threads run on meanwhile.                   *)
(*                                                                         *)
(* kind and user are chosen once: the properties say for which of them     *)
(* they hold.  A patient user presses the button only when no bracket is   *)
(* going on; a hasty one whenever the UI thread listens; the one who is    *)
(* leaving also closes the camera.                                         *)
(***************************************************************************)
EXTENDS PictureModule, Sequences

CONSTANT
  Tasks          \* threads of brackets alive at once (bound of the model)

ASSUME BracketAssumption ==
  /\ Tasks \subseteq Savers
  /\ MaxCount > 3   \* for hdrCount saturates as burstcount does

VARIABLES
  kind,      \* the module that is loaded
  user,      \* what the user may do
  hdrCount,  \* pictures of this bracket counted so far
  exposure,  \* the exposure set in the camera, as the index of its setting
  taken,     \* exposures of the pictures taken since the press
  pressing,  \* the UI thread sleeps in DoWork
  task       \* the threads that handle the pictures of a bracket

bracketVars == <<kind, user, hdrCount, exposure, taken, pressing, task>>
vars == <<picVars, bracketVars>>

BracketKinds == {"bracket", "hardware", "aebracket"}
IdleTask == [pc |-> "idle", val |-> 0]
Task == [pc : {"idle", "spawned", "loaded", "saved", "previewed", "exposed"},
         val : Nat]
Whole == <<0, 1, 2>>
------------------------------------------------------------------------------
Init ==
  /\ PicInit
  /\ kind \in {"picture"} \cup BracketKinds
  /\ user \in {"hasty", "leaving"} \cup (IF kind = "picture" THEN {} ELSE {"patient"})
  /\ kind # "picture" => burst = 1
  /\ hdrCount = 0
  /\ exposure = 0
  /\ taken = <<>>
  /\ pressing = FALSE
  /\ task = [s \in Tasks |-> IdleTask]

Listens == kind # "picture" /\ ~pressing

MayPress ==
  /\ Listens
  /\ user = "patient" => ~waitForPicture

\* setExposureToCamera: the setting of the picture hdrCount, or none.
SetExposure(n) == exposure' = IF n < 3 THEN n ELSE 3

\* CameraHolder.TakePicture on behalf of a bracket: the picture has the
\* exposure the camera is set to.
Shoot ==
  /\ TakePicture
  /\ taken' = IF owed' # owed /\ Len(taken) < 4 THEN Append(taken, exposure)
                                                ELSE taken

\* BracketModule.DoWork: isWorking is tested, but no bracket ever sets it.
PressBracket ==
  /\ MayPress /\ kind = "bracket" /\ ~isWorking
  /\ hdrCount' = 0
  /\ waitForPicture' = TRUE
  /\ SetExposure(0)
  /\ pressing' = TRUE
  /\ taken' = <<>>
  /\ UNCHANGED <<isWorking, burstcount, cameraVars, task>>

\* Slip: the press is not refused while a bracket is going on.
PressAeBracketAnyTime ==
  /\ MayPress /\ kind = "aebracket"
  /\ hdrCount' = 0
  /\ SetExposure(0)
  /\ pressing' = TRUE
  /\ taken' = <<>>
  /\ UNCHANGED <<moduleVars, cameraVars, task>>

\* AeBracketModule.DoWork, up to the sleep.
PressAeBracket ==
  /\ MayPress /\ kind = "aebracket" /\ ~isWorking
  /\ hdrCount' = 0
  /\ SetExposure(0)
  /\ pressing' = TRUE
  /\ taken' = <<>>
  /\ UNCHANGED <<moduleVars, cameraVars, task>>

\* DoWork of both after the sleep: AeBracketModule calls PictureModule.DoWork.
PressShoots ==
  /\ pressing
  /\ pressing' = FALSE
  /\ \/ kind = "bracket" /\ Shoot /\ UNCHANGED moduleVars
     \/ /\ kind = "aebracket"
        /\ DoWork
        /\ taken' = IF owed' # owed THEN Append(taken, exposure) ELSE taken
  /\ UNCHANGED <<hdrCount, exposure, task>>

\* BracketModule.DoWork with aeBrackethdr: one takePicture, three pictures.
PressHardware ==
  /\ MayPress /\ kind = "hardware" /\ ~isWorking
  /\ hdrCount' = 0
  /\ waitForPicture' = TRUE
  /\ \/ /\ cameraOpen /\ preview /\ owed + 3 <= MaxOwed
        /\ owed' = owed + 3
        /\ preview' = FALSE
        /\ taken' = Whole
     \/ /\ ~cameraOpen \/ ~preview
        /\ taken' = <<>>
        /\ UNCHANGED <<owed, preview>>
  /\ UNCHANGED <<isWorking, burstcount, cameraOpen, exposure, pressing, task>>

\* aeBracketCallback.onPictureTaken, which counts on the UI thread.  (It would
\* return if nobody waited, but no more than three pictures come of a press.)
HardwarePicture ==
  /\ Listens /\ kind = "hardware" /\ owed > 0
  /\ owed' = owed - 1
  /\ waitForPicture
  /\ \/ /\ hdrCount # 2
        /\ hdrCount' = hdrCount + 1
        /\ UNCHANGED <<waitForPicture, preview>>
     \/ /\ hdrCount = 2
        /\ hdrCount' = 3
        /\ waitForPicture' = FALSE
        /\ StartPreview
  /\ UNCHANGED <<isWorking, burstcount, cameraOpen, exposure, taken, pressing, task>>

\* onPictureTaken of the other two: everything else is the thread's.
BracketPicture ==
  /\ Listens /\ kind # "hardware" /\ owed > 0
  /\ owed' = owed - 1
  /\ \E s \in Tasks : /\ task[s].pc = "idle"
                      /\ task' = [task EXCEPT ![s].pc = "spawned"]
  /\ UNCHANGED <<moduleVars, cameraOpen, preview, hdrCount, exposure, taken, pressing>>
------------------------------------------------------------------------------
\* The thread of one picture.  A picture nobody waits for ends it at once.
TaskDrops(s) ==
  /\ task[s].pc = "spawned" /\ ~waitForPicture
  /\ isWorking' = FALSE
  /\ task' = [task EXCEPT ![s] = IdleTask]
  /\ UNCHANGED <<waitForPicture, burstcount, cameraVars, hdrCount, exposure, taken>>

\* hdrCount++ is a load and a store, as burstcount++ is.
TaskLoads(s) ==
  /\ task[s].pc = "spawned" /\ waitForPicture
  /\ task' = [task EXCEPT ![s] = [pc |-> "loaded", val |-> hdrCount]]
  /\ UNCHANGED <<moduleVars, cameraVars, hdrCount, exposure, taken>>

\* The store, and the saving of the picture.
TaskSaves(s) ==
  /\ task[s].pc = "loaded"
  /\ hdrCount' = IF task[s].val < MaxCount THEN task[s].val + 1 ELSE MaxCount
  /\ task' = [task EXCEPT ![s] = [pc |-> "saved", val |-> 0]]
  /\ UNCHANGED <<moduleVars, cameraVars, exposure, taken>>

\* Slip: the preview is started only after the last picture.
TaskPreviewsLast(s) ==
  /\ task[s].pc = "saved"
  /\ preview' = (preview \/ (cameraOpen /\ hdrCount = 3))
  /\ task' = [task EXCEPT ![s].pc = "previewed"]
  /\ UNCHANGED <<moduleVars, cameraOpen, owed, hdrCount, exposure, taken>>

TaskPreviews(s) ==
  /\ task[s].pc = "saved"
  /\ StartPreview
  /\ task' = [task EXCEPT ![s].pc = "previewed"]
  /\ UNCHANGED <<moduleVars, cameraOpen, owed, hdrCount, exposure, taken>>

\* Slip: off by one.
TaskEndsEarly(s) ==
  /\ task[s].pc = "previewed" /\ hdrCount = 2
  /\ waitForPicture' = FALSE
  /\ isWorking' = FALSE
  /\ task' = [task EXCEPT ![s] = IdleTask]
  /\ UNCHANGED <<burstcount, cameraVars, hdrCount, exposure, taken>>

\* The third picture ends the bracket ...
TaskEnds(s) ==
  /\ task[s].pc = "previewed" /\ hdrCount = 3
  /\ waitForPicture' = FALSE
  /\ isWorking' = FALSE
  /\ task' = [task EXCEPT ![s] = IdleTask]
  /\ UNCHANGED <<burstcount, cameraVars, hdrCount, exposure, taken>>

\* ... and another one asks for the next.
TaskExposes(s) ==
  /\ task[s].pc = "previewed" /\ hdrCount # 3
  /\ SetExposure(hdrCount)
  /\ task' = [task EXCEPT ![s].pc = "exposed"]
  /\ UNCHANGED <<moduleVars, cameraVars, hdrCount, taken>>

TaskShoots(s) ==
  /\ task[s].pc = "exposed"
  /\ Shoot
  /\ task' = [task EXCEPT ![s] = IdleTask]
  /\ UNCHANGED <<moduleVars, hdrCount, exposure>>

TaskStep(s) ==
  /\ \/ TaskDrops(s) \/ TaskLoads(s) \/ TaskSaves(s) \/ TaskPreviews(s)
     \/ TaskEnds(s) \/ TaskExposes(s) \/ TaskShoots(s)
  /\ UNCHANGED <<burst, saver, comparing, kind, user, pressing>>
------------------------------------------------------------------------------
\* The user and the camera of a bracket.
PressAny == PressBracket \/ PressAeBracket \/ PressHardware

BracketUser ==
  /\ \/ PressAny
     \/ /\ Listens /\ user = "leaving" /\ Pause
        /\ UNCHANGED <<hdrCount, exposure, taken, pressing, task>>
     \/ /\ Listens /\ Resume
        /\ UNCHANGED <<hdrCount, exposure, taken, pressing, task>>
  /\ UNCHANGED <<burst, saver, comparing, kind, user>>

BracketLooper ==
  /\ PressShoots \/ HardwarePicture \/ BracketPicture
  /\ UNCHANGED <<burst, saver, comparing, kind, user>>

\* The picture module alone, with the same user.
PictureStep ==
  /\ kind = "picture"
  /\ PicNext
  /\ user # "leaving" => cameraOpen'
  /\ UNCHANGED bracketVars

Next ==
  \/ PictureStep
  \/ BracketUser \/ BracketLooper
  \/ \E s \in Tasks : TaskStep(s)

\* As in PictureModule: the looper runs on, the camera delivers, threads run.
Fairness ==
  /\ WF_vars(BracketLooper)
  /\ \A s \in Tasks : WF_vars(TaskStep(s))
  /\ WF_vars(PictureStep /\ (OnPictureTaken \/ Compare))
  /\ \A s \in Savers : WF_vars(PictureStep /\ Save(s))

Spec == Init /\ [][Next]_vars

FairSpec == Spec /\ Fairness
------------------------------------------------------------------------------
\* Every variable has its type.
TypeOK ==
  /\ PicTypeOK
  /\ kind \in {"picture"} \cup BracketKinds
  /\ user \in {"patient", "hasty", "leaving"}
  /\ hdrCount \in Nat
  /\ exposure \in 0..3
  /\ taken \in Seq(0..3)
  /\ pressing \in BOOLEAN
  /\ task \in [Tasks -> Task]

\* The cases in which a bracket is not disturbed: nobody leaves, and a press
\* while it is going on either does not come or is refused by isWorking.
Steady ==
  /\ kind \in BracketKinds
  /\ user = "patient" \/ (kind = "aebracket" /\ user = "hasty")

\* The module that guards itself, and nothing that cuts its captures off.
Guarded ==
  kind = "picture" \/ (kind = "aebracket" /\ user # "leaving")

\* Bursts of the picture module that no closing of the camera cuts short.
Uncut == kind = "picture" /\ user # "leaving" /\ burst > 1

Busy(s) == task[s].pc # "idle"

\* The shutter button tells the truth: a picture module that works on a single
\* capture waits for a picture that comes, also when the user closes and reopens
\* the camera under it, and a module that accepts a press has a previewing
\* camera, without which takePicture throws and the capture would never end.
ShutterIsHonest ==
  /\ kind = "picture" => NoLostCapture
  /\ Guarded => FreeMeansReady

\* Pictures counted, being counted and to come never exceed the burst, and no
\* saving thread of one burst is left to count for the next, as long as the
\* camera is not closed under it.
BurstCounted == Uncut => BurstCountBounded /\ NoStaleSaver

\* A burst is reported done only when its last picture has arrived.
BurstIsWhole == [][Uncut /\ BurstDone => owed = 0]_vars

\* A bracket in progress is in exactly one place: the sleeping UI thread, the
\* camera, or one thread.  So hdrCount++ races with nothing, and there is always
\* somebody who will take the next picture.
BracketInPlace ==
  Steady =>
    /\ pressing => owed = 0 /\ \A s \in Tasks : ~Busy(s)
    /\ owed > 0 => waitForPicture /\ \A s \in Tasks : ~Busy(s)
    /\ \A s, t \in Tasks : Busy(s) /\ Busy(t) => s = t
    /\ \A s \in Tasks : Busy(s) => waitForPicture
    /\ waitForPicture => pressing \/ owed > 0 \/ \E s \in Tasks : Busy(s)

\* A bracket that is reported over has taken each of its three exposures once,
\* in their order, and no picture of it is still to come.
BracketIsWhole ==
  [][Steady /\ waitForPicture /\ ~waitForPicture' => taken = Whole /\ owed' = 0]_vars

\* A capture of a module that guards itself ends, and so does a bracket.
CaptureEndsGuarded ==
  isWorking /\ Guarded /\ burst = 1 ~> ~isWorking \/ ~cameraOpen

BracketEnds == Steady /\ waitForPicture ~> ~waitForPicture
------------------------------------------------------------------------------
\* What keeps BracketInPlace and BracketIsWhole: the count, the exposure set and
\* the exposures taken agree with the place where the bracket is.
First == << <<0>>, <<0, 1>>, Whole >>

PressInv ==
  pressing => /\ kind # "hardware" /\ preview
              /\ kind = "bracket" <=> waitForPicture
              /\ hdrCount = 0 /\ exposure = 0 /\ taken = <<>>

CameraInv ==
  owed > 0 => /\ hdrCount \in 0..2
              /\ kind = "hardware" => owed = 3 - hdrCount /\ taken = Whole
              /\ kind # "hardware" => /\ owed = 1 /\ exposure = hdrCount
                                      /\ taken = First[hdrCount + 1]

TaskInv(s) ==
  /\ Busy(s) => kind # "hardware"
  /\ task[s].pc \in {"spawned", "loaded"} =>
       hdrCount \in 0..2 /\ taken = First[hdrCount + 1]
  /\ task[s].pc = "loaded" => task[s].val = hdrCount
  /\ task[s].pc \in {"saved", "previewed", "exposed"} =>
       hdrCount \in 1..3 /\ taken = First[hdrCount]
  /\ task[s].pc \in {"previewed", "exposed"} => preview
  /\ task[s].pc = "exposed" => hdrCount # 3 /\ exposure = hdrCount

BracketInv ==
  Steady =>
    /\ BracketInPlace
    /\ cameraOpen /\ burst = 1
    /\ isWorking <=> kind = "aebracket" /\ waitForPicture
    /\ ~waitForPicture => preview
    /\ PressInv /\ CameraInv
    /\ \A s \in Tasks : TaskInv(s)

\* The picture module runs alone.
Alone == kind = "picture" => ~pressing /\ \A s \in Tasks : ~Busy(s)

\* What keeps ShutterIsHonest, with BracketInv: no capture works that does not wait.
HonestInv ==
  /\ Alone
  /\ kind = "picture" =>
       /\ isWorking => waitForPicture
       /\ FreeMeansReady /\ NoLostCapture

\* What keeps BurstCounted and BurstIsWhole: some M bounds the count and what every
\* saver has loaded, so that a store makes it M + 1 at most, and ends a saver.
BoundedBy(M) ==
  /\ burstcount <= M
  /\ \A s \in Savers : saver[s].pc = "loaded" => saver[s].val <= M
  /\ M + Cardinality(Counting) + owed <= burst

BurstInv ==
  /\ Alone
  /\ Uncut =>
       /\ cameraOpen
       /\ waitForPicture \/ comparing => isWorking
       /\ ~isWorking => owed = 0 /\ Counting = {}
       /\ isWorking => \E M \in Nat : BoundedBy(M)
==============================================================================
