---------------------------- MODULE PictureModule ----------------------------
(***************************************************************************)
(* The picture module of the Camera1 API (camera1/modules/PictureModule)   *)
(* with the part of the camera holder it uses (camera1/CameraHolder).      *)
(*                                                                         *)
(* The shutter button, the camera callbacks and the camera switch run on   *)
(* the UI looper, one message at a time.  Each delivered picture is saved  *)
(* on a thread of its own (FreeDPool), and that thread also increments the *)
(* field burstcount, which the UI thread reads: the increment is a load    *)
(* and a store, and both interleave with the UI thread.                    *)
(*                                                                         *)
(* The operators that change the module's variables are used twice: by     *)
(* Next below, where the module is the current one, and by Interval, where *)
(* a series drives it.                                                     *)
(***************************************************************************)
EXTENDS Naturals, FiniteSets

CONSTANTS
  BurstValues,   \* values the user can give to the Burst parameter
  BurstChanges,  \* whether the user changes Burst after start-up
  CameraFails,   \* whether Camera.takePicture may throw although previewing
  CameraCloses,  \* whether the user leaves, or switches, the camera
  Savers,        \* saving threads alive at once (bound of the model)
  MaxOwed,       \* pictures owed at once (bound of the model)
  MaxCount       \* where burstcount saturates: above every burst, so that its
                 \* only use, the test against Burst, cannot tell

ASSUME PictureAssumption ==
  /\ BurstValues \subseteq Nat \ {0} /\ BurstValues # {}
  /\ BurstChanges \in BOOLEAN
  /\ CameraFails \in BOOLEAN
  /\ CameraCloses \in BOOLEAN
  /\ IsFiniteSet(Savers)
  /\ MaxOwed \in Nat /\ \A b \in BurstValues : b <= MaxOwed
  /\ MaxCount \in Nat /\ \A b \in BurstValues : b < MaxCount

VARIABLES
  isWorking,       \* ModuleAbstract.isWorking: a capture is in progress
  waitForPicture,  \* the next onPictureTaken belongs to a capture
  burstcount,      \* pictures of this capture counted so far
  burst,           \* value of the Burst parameter (1 when unsupported)
  saver,           \* the saving threads
  comparing,       \* the UI thread is between spawning a saver and its test
  cameraOpen,      \* CameraHolder.mCamera # null
  preview,         \* the camera is previewing, so it can take a picture
  owed             \* onPictureTaken calls the camera still has to make

moduleVars == <<isWorking, waitForPicture, burstcount>>
cameraVars == <<cameraOpen, preview, owed>>
picVars == <<moduleVars, burst, saver, comparing, cameraVars>>

IdleSaver == [pc |-> "idle", val |-> 0]
Saver == [pc : {"idle", "spawned", "loaded"}, val : Nat]
------------------------------------------------------------------------------
PicInit ==
  /\ isWorking = FALSE
  /\ waitForPicture = FALSE
  /\ burstcount = 0
  /\ burst \in BurstValues
  /\ saver = [s \in Savers |-> IdleSaver]
  /\ comparing = FALSE
  /\ cameraOpen = TRUE
  /\ preview = TRUE
  /\ owed = 0

\* CameraHolder.TakePicture: a RuntimeException of the camera (none open, not
\* previewing, or a failure of its own) is caught and only shown to the user.
TakePicture ==
  \/ /\ cameraOpen /\ preview /\ owed + burst <= MaxOwed
     /\ owed' = owed + burst
     /\ preview' = FALSE
     /\ UNCHANGED cameraOpen
  \/ /\ ~cameraOpen \/ ~preview \/ CameraFails
     /\ UNCHANGED cameraVars

\* CameraHolder.StartPreview.
StartPreview == preview' = (preview \/ cameraOpen)

\* Slip: the count of the burst before is not cleared.
DoWorkKeepsCount ==
  \/ isWorking /\ UNCHANGED <<moduleVars, cameraVars>>
  \/ /\ ~isWorking
     /\ isWorking' = TRUE
     /\ waitForPicture' = TRUE
     /\ UNCHANGED burstcount
     /\ TakePicture

\* PictureModule.DoWork.
DoWork ==
  \/ isWorking /\ UNCHANGED <<moduleVars, cameraVars>>
  \/ /\ ~isWorking
     /\ isWorking' = TRUE
     /\ waitForPicture' = TRUE
     /\ burstcount' = 0
     /\ TakePicture

\* ModuleAbstract.InitModule, which PictureModule.InitModule calls.
InitModule ==
  /\ isWorking' = FALSE
  /\ UNCHANGED <<waitForPicture, burstcount>>

\* FreeDPool.Execute in onPictureTaken.
SpawnSaver ==
  \E s \in Savers : /\ saver[s].pc = "idle"
                    /\ saver' = [saver EXCEPT ![s].pc = "spawned"]

\* Slip: the capture is over, but isWorking stays set.
FinishCaptureKeepsWorking ==
  /\ waitForPicture' = FALSE
  /\ StartPreview
  /\ UNCHANGED isWorking

\* Slip: the preview is not started again.
FinishCaptureNoPreview ==
  /\ isWorking' = FALSE
  /\ waitForPicture' = FALSE
  /\ UNCHANGED preview

\* The capture is over: the last lines of both branches of onPictureTaken.
FinishCapture ==
  /\ isWorking' = FALSE
  /\ waitForPicture' = FALSE
  /\ StartPreview

\* onPictureTaken nobody waits for: the camera sent more pictures than the
\* module counted.
UnexpectedPicture ==
  /\ ~comparing /\ owed > 0 /\ ~waitForPicture
  /\ owed' = owed - 1
  /\ StartPreview
  /\ UNCHANGED <<moduleVars, burst, saver, comparing, cameraOpen>>

\* onPictureTaken of a single picture.
SinglePicture ==
  /\ ~comparing /\ owed > 0 /\ waitForPicture
  /\ burst = 1
  /\ owed' = owed - 1
  /\ SpawnSaver
  /\ FinishCapture
  /\ UNCHANGED <<burstcount, burst, comparing, cameraOpen>>

\* onPictureTaken of one picture of a burst, up to the test of burstcount.
BurstPicture ==
  /\ ~comparing /\ owed > 0 /\ waitForPicture
  /\ burst > 1
  /\ owed' = owed - 1
  /\ SpawnSaver
  /\ comparing' = TRUE
  /\ UNCHANGED <<moduleVars, burst, cameraOpen, preview>>

\* The test burstcount == Burst.GetValue() of the same call, which fails ...
BurstGoesOn ==
  /\ comparing /\ burstcount # burst
  /\ comparing' = FALSE
  /\ UNCHANGED <<moduleVars, burst, saver, cameraVars>>

\* Slip: off by one.
BurstDoneEarly ==
  /\ comparing /\ burstcount + 1 = burst
  /\ comparing' = FALSE
  /\ FinishCapture
  /\ UNCHANGED <<burstcount, burst, saver, cameraOpen, owed>>

\* ... or holds: BurstCapture done.
BurstDone ==
  /\ comparing /\ burstcount = burst
  /\ comparing' = FALSE
  /\ FinishCapture
  /\ UNCHANGED <<burstcount, burst, saver, cameraOpen, owed>>

\* burstcount++ on a saving thread: the load, then the store and the saving.
SaverLoads(s) ==
  /\ saver[s].pc = "spawned"
  /\ saver' = [saver EXCEPT ![s] = [pc |-> "loaded", val |-> burstcount]]
  /\ UNCHANGED <<moduleVars, burst, comparing, cameraVars>>

SaverStores(s) ==
  /\ saver[s].pc = "loaded"
  /\ burstcount' = IF saver[s].val < MaxCount THEN saver[s].val + 1
                                              ELSE MaxCount
  /\ saver' = [saver EXCEPT ![s] = IdleSaver]
  /\ UNCHANGED <<isWorking, waitForPicture, burst, comparing, cameraVars>>

\* The user changes the Burst parameter.
SetBurst ==
  /\ BurstChanges /\ ~comparing
  /\ burst' \in BurstValues \ {burst}
  /\ UNCHANGED <<moduleVars, saver, comparing, cameraVars>>

\* CameraHolder.CloseCamera: the surface goes or the user switches the camera.
\* A released camera makes no further callback.
CloseCamera ==
  /\ CameraCloses /\ ~comparing /\ cameraOpen
  /\ cameraOpen' = FALSE
  /\ preview' = FALSE
  /\ owed' = 0
  /\ UNCHANGED <<burst, saver, comparing>>

\* CameraHolder.OpenCamera and Camera1Fragment.onCameraOpen, without the
\* SetModule of LoadParametersFromCamera.
OpenCamera ==
  /\ ~comparing /\ ~cameraOpen
  /\ cameraOpen' = TRUE
  /\ preview' = TRUE
  /\ UNCHANGED <<owed, burst, saver, comparing>>
------------------------------------------------------------------------------
\* The module on its own: it is the current module all the time.
Press == /\ ~comparing
         /\ DoWork
         /\ UNCHANGED <<burst, saver, comparing>>

Pause == CloseCamera /\ UNCHANGED moduleVars

Resume == OpenCamera /\ InitModule

OnPictureTaken == UnexpectedPicture \/ SinglePicture \/ BurstPicture

Compare == BurstGoesOn \/ BurstDone

Save(s) == SaverLoads(s) \/ SaverStores(s)

PicNext ==
  \/ Press \/ OnPictureTaken \/ Compare \/ Pause \/ Resume
  \/ \E s \in Savers : Save(s)
------------------------------------------------------------------------------
\* Every variable has its type.
PicTypeOK ==
  /\ isWorking \in BOOLEAN
  /\ waitForPicture \in BOOLEAN
  /\ burstcount \in Nat
  /\ burst \in BurstValues
  /\ saver \in [Savers -> Saver]
  /\ comparing \in BOOLEAN
  /\ cameraOpen \in BOOLEAN
  /\ preview \in BOOLEAN
  /\ owed \in Nat

\* A single capture in progress has a picture to wait for, as long as the camera stays
\* open: DoWork refuses every press while isWorking, so a capture whose picture
\* never comes disables the shutter button until the module is loaded again.
\* (DoWork sets isWorking before it knows that takePicture succeeded.)
NoLostCapture == isWorking /\ cameraOpen /\ burst = 1 => owed > 0

\* When the module takes presses the camera can take pictures: whatever ended the
\* capture (a picture, the last of a burst, a surplus one, a reopened camera) has
\* started the preview again, without which takePicture throws.
FreeMeansReady == ~isWorking /\ cameraOpen => preview

\* Pictures counted, pictures being counted and pictures still to come never exceed
\* the burst that was asked for: the savers increment burstcount without a lock,
\* updates may be lost, but none is counted twice.
Counting == {s \in Savers : saver[s].pc # "idle"}

BurstCountBounded ==
  isWorking => burstcount + Cardinality(Counting) + owed <= burst

\* When no saver is left to count for a finished burst, none of them can add to
\* the count of the next one, which DoWork starts again at zero.
NoStaleSaver == ~isWorking => Counting = {}
==============================================================================
