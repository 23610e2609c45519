--------------------------- MODULE PictureModuleApi2 ---------------------------
(***************************************************************************)
(* The picture module of the Camera2 API (camera2/modules/                 *)
(* PictureModuleApi2) on the camera of CameraHolderApi2, whose actions it  *)
(* composes with its own.                                                  *)
(*                                                                         *)
(* DoWork, the callbacks of the camera and finishCapture run on the UI     *)
(* looper.  Every image is saved on a thread of its own (FreeDPool), which *)
(* waits for the capture's result, counts the image (imagecount++, a load  *)
(* and a store), saves it, clears isWorking and, when it finds that the    *)
(* count is the burst's, posts finishCapture.                              *)
(*                                                                         *)
(* The results of the preview's requests, and of every SetParameter, come  *)
(* to the holder's cameraBackroundValuesChangedListner.  When the focus    *)
(* has changed it repeats the preview's request by itself, also in place   *)
(* of the request that a metered capture waits for.                        *)
(***************************************************************************)
EXTENDS CameraHolderApi2, FiniteSets

CONSTANTS
  BurstValues,   \* values of the Burst parameter: one image less than it takes
  FullSupport,   \* whether captures may be metered first (a camera with full
                 \* Camera2 support, its AE on)
  QuickPresses,  \* whether the user presses before the preview is back
  BusyUser,      \* whether the user does something else during a capture
  Savers,        \* saving threads alive at once (bound of the model)
  MaxDue         \* images, posts, and results, of captures not over yet (bound
                 \* of the model)

ASSUME PictureApi2Assumption ==
  /\ BurstValues \subseteq Nat /\ 0 \in BurstValues
  /\ FullSupport \in BOOLEAN
  /\ QuickPresses \in BOOLEAN
  /\ BusyUser \in BOOLEAN
  /\ IsFiniteSet(Savers)
  /\ MaxDue \in Nat /\ \A b \in BurstValues : b < MaxDue

VARIABLES
  loaded,        \* ModuleHandlerAbstract.currentModule # null
  isWorking,     \* AbstractModuleApi2.isWorking
  mState,        \* how far metering is
  repeating,     \* callback of the session's repeating request: of the preview,
                 \* the "ae" callback, or "none" when there is no request
  inFlight,      \* callbacks of requests, repeating or not, whose results may
                 \* still come: "preview" (cameraBackroundValuesChangedListner)
                 \* and "ae"
  aeLock,        \* CONTROL_AE_LOCK in mPreviewRequestBuilder
  burst,         \* BurstApi2.current
  imagecount,    \* images of this capture counted so far
  mDngResult,    \* whether the result of this capture is known
  imagesDue,     \* onImageAvailable calls to come
  resultsDue,    \* onCaptureCompleted calls to come
  saver,         \* the saving threads
  finishes,      \* posts of finishCapture on the looper
  restarts       \* posts of BurstApi2 on the looper

countVars == <<imagecount, mDngResult>>
dueVars == <<imagesDue, resultsDue>>
workVars == <<isWorking, mState, countVars>>
frameVars == <<inFlight, aeLock>>
captureVars == <<workVars, repeating, frameVars, burst, dueVars, saver, finishes>>
picVars == <<holderVars, loaded, captureVars, restarts>>

IdleSaver == [pc |-> "idle", total |-> 0, val |-> 0]
Saver ==
  [pc : {"idle", "waiting", "loaded", "saving", "saved"}, total : Nat, val : Nat]

Saving == {s \in Savers : saver[s].pc # "idle"}

\* A capture is going on: something of it is still to come.
Capturing ==
  isWorking \/ imagesDue > 0 \/ resultsDue > 0 \/ Saving # {} \/ finishes > 0
------------------------------------------------------------------------------
PicInit ==
  /\ HolderInit
  /\ loaded = FALSE
  /\ isWorking = FALSE
  /\ mState = "taken"
  /\ repeating = "none"
  /\ inFlight = {}
  /\ aeLock = FALSE
  /\ burst = 0
  /\ imagecount = 0
  /\ mDngResult = FALSE
  /\ imagesDue = 0
  /\ resultsDue = 0
  /\ saver = [s \in Savers |-> IdleSaver]
  /\ finishes = 0
  /\ restarts = 0

\* The user leaves a capture alone.
Leaves == BusyUser \/ ~Capturing

\* captureStillPicture, with initBurstCapture for a burst.  (The request cannot be
\* created on a failed device, which leaves the module as it is.)
captureStillPicture ==
  \/ /\ session = "live"
     /\ imagesDue + Cardinality(Saving) + finishes + burst < MaxDue
     /\ resultsDue + burst < MaxDue
     /\ imagecount' = 0
     /\ mDngResult' = FALSE
     /\ repeating' = "none"
     /\ imagesDue' = imagesDue + burst + 1
     /\ resultsDue' = resultsDue + burst + 1
  \/ /\ session = "failed"
     /\ UNCHANGED <<countVars, repeating, dueVars>>

\* TakePicture on a camera that is not metered ...
TakePicture ==
  /\ mState' = mState
  /\ captureStillPicture
  /\ UNCHANGED frameVars

\* ... and on one that is: a repeating request whose callback is aecallback, and
\* the precapture trigger, sent by SetParameter.
TakePictureMetered ==
  /\ FullSupport
  /\ mState' = "precapture"
  /\ \/ /\ session = "live"
        /\ repeating' = "ae"
        /\ inFlight' = inFlight \cup {"ae", "preview"}
     \/ session = "failed" /\ UNCHANGED <<repeating, inFlight>>
  /\ UNCHANGED <<aeLock, countVars, dueVars>>

\* What a patient user waits for.
Ready ==
  session = "live" /\ repeating = "preview" /\ ~Capturing /\ restarts = 0

\* DoWork, by the shutter button.
DoWork ==
  /\ ui = "idle" /\ surfaceRdy /\ ~leaving /\ loaded /\ ~isWorking
  /\ session \in {"live", "failed"}
  /\ QuickPresses \/ Ready
  /\ isWorking' = TRUE
  /\ TakePicture \/ TakePictureMetered
  /\ UNCHANGED <<holderVars, loaded, burst, saver, finishes, restarts>>

\* Without a session, or with a closed one, TakePicture throws.
DoWorkThrows ==
  /\ QuickPresses
  /\ ui = "idle" /\ surfaceRdy /\ ~leaving /\ loaded /\ ~isWorking
  /\ session \in {"null", "closed"}
  /\ ui' = "crashed"
  /\ UNCHANGED <<surfaceRdy, leaving, deviceVars, sessionVars, posts>>
  /\ UNCHANGED <<loaded, captureVars, restarts>>

\* aecallback.onCaptureProgressed, also of frames of a request replaced since:
\* metering has begun ...
MeteringBegins ==
  /\ ui = "idle" /\ "ae" \in inFlight /\ mState = "precapture"
  /\ mState' = "nonprecapture"
  /\ UNCHANGED <<holderVars, loaded, isWorking, repeating, frameVars, burst>>
  /\ UNCHANGED <<countVars, dueVars, saver, finishes, restarts>>

\* From "nonprecapture" on, aecallback locks AE first, with SetParameter.
AELocked ==
  \/ mState = "precapture" /\ UNCHANGED frameVars
  \/ /\ mState = "nonprecapture"
     /\ aeLock' = TRUE
     /\ inFlight' = IF session = "live" THEN inFlight \cup {"preview"} ELSE inFlight

\* ... and is over, or there was nothing to meter.
Metered ==
  /\ ui = "idle" /\ "ae" \in inFlight /\ mState # "taken"
  /\ mState' = "taken"
  /\ AELocked
  /\ captureStillPicture
  /\ UNCHANGED <<holderVars, loaded, isWorking, burst, saver, finishes, restarts>>

\* Its session is gone or closed meanwhile: captureStillPicture throws.
MeteredThrows ==
  /\ ui = "idle" /\ "ae" \in inFlight /\ mState # "taken"
  /\ session \in {"null", "closed"}
  /\ ui' = "crashed"
  /\ UNCHANGED <<surfaceRdy, leaving, deviceVars, sessionVars, posts>>
  /\ UNCHANGED <<loaded, captureVars, restarts>>

\* cameraBackroundValuesChangedListner.onCaptureCompleted finds a new AF state,
\* 2, 4 or 6: SetParameterRepeating.  (On a closed session it throws, which is
\* ClosedSessionThrows of the holder; without a session it does nothing.)
ListenerRepeats ==
  /\ ui = "idle" /\ "preview" \in inFlight /\ session = "live"
  /\ repeating' = "preview"
  /\ UNCHANGED <<holderVars, loaded, workVars, frameVars, burst, dueVars, saver>>
  /\ UNCHANGED <<finishes, restarts>>

\* The last result of a request that does not repeat any more has come.
FramesEnd ==
  /\ ui = "idle"
  /\ \E r \in inFlight \ {repeating} : inFlight' = inFlight \ {r}
  /\ UNCHANGED <<holderVars, loaded, workVars, repeating, aeLock, burst, dueVars>>
  /\ UNCHANGED <<saver, finishes, restarts>>

\* CaptureCallback.onCaptureCompleted.
onCaptureCompleted ==
  /\ ui = "idle" /\ resultsDue > 0
  /\ resultsDue' = resultsDue - 1
  /\ mDngResult' = TRUE
  /\ UNCHANGED <<holderVars, loaded, isWorking, mState, repeating, frameVars>>
  /\ UNCHANGED <<burst, imagecount, imagesDue, saver, finishes, restarts>>

\* mOnRawImageAvailableListener.onImageAvailable starts a saving thread.
onImageAvailable ==
  /\ ui = "idle" /\ imagesDue > 0
  /\ imagesDue' = imagesDue - 1
  /\ \E s \in Savers : /\ saver[s].pc = "idle"
                       /\ saver' = [saver EXCEPT ![s].pc = "waiting"]
  /\ UNCHANGED <<holderVars, loaded, workVars, repeating, frameVars, burst>>
  /\ UNCHANGED <<resultsDue, finishes, restarts>>

\* Slip: it does not wait.
SaverLoadsAtOnce(s) ==
  /\ saver[s].pc = "waiting"
  /\ saver' = [saver EXCEPT
                 ![s] = [pc |-> "loaded", total |-> burst + 1, val |-> imagecount]]
  /\ UNCHANGED <<holderVars, loaded, workVars, repeating, frameVars, burst>>
  /\ UNCHANGED <<dueVars, finishes, restarts>>

\* A saving thread has waited for the result; it loads the count ...
SaverLoads(s) ==
  /\ saver[s].pc = "waiting" /\ mDngResult
  /\ saver' = [saver EXCEPT
                 ![s] = [pc |-> "loaded", total |-> burst + 1, val |-> imagecount]]
  /\ UNCHANGED <<holderVars, loaded, workVars, repeating, frameVars, burst>>
  /\ UNCHANGED <<dueVars, finishes, restarts>>

\* ... and stores it.  (The count saturates above every burst, so that its only
\* use, the test against the burst, cannot tell.)
SaverCounts(s) ==
  /\ saver[s].pc = "loaded"
  /\ imagecount' = IF saver[s].val > MaxDue THEN saver[s].val
                                            ELSE saver[s].val + 1
  /\ saver' = [saver EXCEPT ![s].pc = "saving"]
  /\ UNCHANGED <<holderVars, loaded, isWorking, mState, mDngResult>>
  /\ UNCHANGED <<repeating, frameVars, burst, dueVars, finishes, restarts>>

\* Slip: the button stays locked.
SaverSavesQuietly(s) ==
  /\ saver[s].pc = "saving"
  /\ saver' = [saver EXCEPT ![s].pc = "saved"]
  /\ UNCHANGED <<holderVars, loaded, workVars>>
  /\ UNCHANGED <<repeating, frameVars, burst, dueVars, finishes, restarts>>

\* It has saved the image.
SaverSaves(s) ==
  /\ saver[s].pc = "saving"
  /\ isWorking' = FALSE
  /\ saver' = [saver EXCEPT ![s].pc = "saved"]
  /\ UNCHANGED <<holderVars, loaded, mState, countVars>>
  /\ UNCHANGED <<repeating, frameVars, burst, dueVars, finishes, restarts>>

\* Slip: the count is tested for the burst's value, not the burst's images.
SaverEndsEarly(s) ==
  /\ saver[s].pc = "saved"
  /\ finishes' = IF saver[s].total = imagecount + 1 THEN finishes + 1 ELSE finishes
  /\ saver' = [saver EXCEPT ![s] = IdleSaver]
  /\ UNCHANGED <<holderVars, loaded, workVars, repeating, frameVars, burst>>
  /\ UNCHANGED <<dueVars, restarts>>

\* It tests the count of that moment and posts finishCapture.
SaverEnds(s) ==
  /\ saver[s].pc = "saved"
  /\ finishes' = IF saver[s].total = imagecount THEN finishes + 1 ELSE finishes
  /\ saver' = [saver EXCEPT ![s] = IdleSaver]
  /\ UNCHANGED <<holderVars, loaded, workVars, repeating, frameVars, burst>>
  /\ UNCHANGED <<dueVars, restarts>>

\* Slip: the preview is not started again.
finishCaptureNoPreview ==
  /\ ui = "idle" /\ finishes > 0 /\ session # "closed"
  /\ finishes' = finishes - 1
  /\ isWorking' = FALSE
  /\ UNCHANGED <<holderVars, loaded, mState, countVars, repeating, frameVars>>
  /\ UNCHANGED <<burst, dueVars, saver, restarts>>

\* What every SetParameterRepeating, and finishCapture, leaves repeating.
PreviewRepeats ==
  \/ session = "live" /\ repeating' = "preview" /\ inFlight' = inFlight \cup {"preview"}
  \/ session # "live" /\ UNCHANGED <<repeating, inFlight>>

\* finishCapture.  It also unlocks AE.
finishCapture ==
  /\ ui = "idle" /\ finishes > 0 /\ session # "closed"
  /\ finishes' = finishes - 1
  /\ PreviewRepeats
  /\ aeLock' = FALSE
  /\ isWorking' = FALSE
  /\ UNCHANGED <<holderVars, loaded, mState, countVars, burst>>
  /\ UNCHANGED <<dueVars, saver, restarts>>

\* SetParameterRepeating: the user touches the preview or a parameter.
SetParameterRepeating ==
  /\ ui = "idle" /\ surfaceRdy /\ ~leaving /\ session = "live" /\ Leaves
  /\ PreviewRepeats
  /\ UNCHANGED <<holderVars, loaded, workVars, aeLock, burst, dueVars, saver>>
  /\ UNCHANGED <<finishes, restarts>>

\* BurstApi2.SetValue.
SetBurst ==
  /\ ui = "idle" /\ surfaceRdy /\ ~leaving /\ loaded /\ Leaves
  /\ restarts = 0
  /\ burst' \in BurstValues \ {burst}
  /\ restarts' = 1
  /\ UNCHANGED <<holderVars, loaded, workVars, repeating, frameVars, dueVars>>
  /\ UNCHANGED <<saver, finishes>>
------------------------------------------------------------------------------
\* What the holder's actions do to a capture.  A session that is closed takes its
\* repeating request with it (so does Android); what it captures still comes.
RequestGoes ==
  /\ repeating' = IF session' = "live" THEN repeating ELSE "none"
  /\ UNCHANGED <<workVars, saver, finishes>>

\* The post of BurstApi2: StopPreview, StartPreview.
PostedRestart ==
  /\ restarts > 0
  /\ restarts' = restarts - 1
  /\ ChangePictureSize
  /\ RequestGoes
  /\ UNCHANGED <<loaded, frameVars, burst, dueVars>>

\* ParameterHandlerApi2.Init, which makes a new BurstApi2, and SetModule come with
\* the camera's opening.
ModuleLoaded ==
  /\ PostedOpen
  /\ RequestGoes
  /\ loaded' = TRUE
  /\ burst' = 0
  /\ UNCHANGED <<frameVars, dueVars>>

SessionReplaced ==
  /\ \/ ChangePictureSize /\ surfaceRdy /\ ~leaving /\ loaded /\ Leaves
     \/ SurfaceDestroyed /\ (leaving \/ Leaves)
     \/ OnConfiguredStale
  /\ RequestGoes
  /\ UNCHANGED <<loaded, frameVars, burst, dueVars>>

\* mStateCallback.onOpened makes a new mPreviewRequestBuilder.
CameraOpened ==
  /\ OnOpened
  /\ aeLock' = FALSE
  /\ UNCHANGED <<loaded, workVars, repeating, inFlight, burst, dueVars, saver, finishes>>

\* What a closed or lost camera captures may be dropped, and a closed device
\* calls no callback of a request any more.
CameraGone ==
  /\ CloseCamera \/ OnDisconnected \/ OnError
  /\ RequestGoes
  /\ imagesDue' \in 0 .. imagesDue
  /\ resultsDue' \in 0 .. resultsDue
  /\ inFlight' \in IF device' = "null" THEN {{}} ELSE SUBSET inFlight
  /\ UNCHANGED <<loaded, aeLock, burst>>

PreviewRuns ==
  /\ OnConfigured
  /\ repeating' = "preview"
  /\ inFlight' = inFlight \cup {"preview"}
  /\ UNCHANGED <<loaded, workVars, aeLock, burst, dueVars, saver, finishes>>

\* A new fragment has new modules.
ModulesGone ==
  /\ NewFragment
  /\ loaded' = FALSE /\ isWorking' = FALSE /\ mState' = "taken"
  /\ repeating' = "none" /\ inFlight' = {} /\ aeLock' = FALSE /\ burst' = 0
  /\ imagecount' = 0 /\ mDngResult' = FALSE
  /\ imagesDue' = 0 /\ resultsDue' = 0
  /\ saver' = [s \in Savers |-> IdleSaver]
  /\ finishes' = 0 /\ restarts' = 0

OtherHolderStep ==
  /\ \/ SurfaceAvailable
     \/ UnloadFragment /\ Leaves
     \/ SwitchCamera /\ Leaves
     \/ OpenCamera \/ OpenCameraThrows \/ ClosedSessionThrows
  /\ UNCHANGED <<loaded, captureVars>>

HolderStep ==
  \/ (ModuleLoaded \/ SessionReplaced \/ CameraOpened \/ CameraGone \/ PreviewRuns
        \/ OtherHolderStep) /\ UNCHANGED restarts
  \/ ModulesGone
------------------------------------------------------------------------------
Save(s) == SaverLoads(s) \/ SaverCounts(s) \/ SaverSaves(s) \/ SaverEnds(s)

CaptureStep ==
  \/ DoWork \/ DoWorkThrows \/ MeteringBegins \/ Metered \/ MeteredThrows
  \/ onCaptureCompleted \/ onImageAvailable \/ finishCapture
  \/ \E s \in Savers : Save(s)

FrameStep == ListenerRepeats \/ FramesEnd

UserStep == SetParameterRepeating \/ SetBurst

PicNext == HolderStep \/ PostedRestart \/ CaptureStep \/ FrameStep \/ UserStep

\* What the camera's metering can be relied on for: to end while its request is
\* there, unless AE was locked before it has begun.
MeteringEnds == repeating = "ae" /\ (aeLock => mState = "nonprecapture")

\* Metering comes to its end, the camera delivers, threads are scheduled, the
\* looper runs on.
PicFairness ==
  /\ HolderFairness
  /\ WF_picVars(Metered /\ MeteringEnds)
  /\ WF_picVars(onCaptureCompleted)
  /\ WF_picVars(onImageAvailable)
  /\ WF_picVars(finishCapture)
  /\ WF_picVars(PostedRestart)
  /\ \A s \in Savers : WF_picVars(Save(s))

PicSpec == PicInit /\ [][PicNext]_picVars

PicFairSpec == PicSpec /\ PicFairness
------------------------------------------------------------------------------
\* Every variable of the module has its type.
PicTypeOK ==
  /\ loaded \in BOOLEAN
  /\ isWorking \in BOOLEAN
  /\ mState \in {"precapture", "nonprecapture", "taken"}
  /\ repeating \in {"none", "preview", "ae"}
  /\ inFlight \subseteq {"preview", "ae"}
  /\ aeLock \in BOOLEAN
  /\ burst \in BurstValues
  /\ imagecount \in Nat
  /\ mDngResult \in BOOLEAN
  /\ imagesDue \in Nat
  /\ resultsDue \in Nat
  /\ saver \in [Savers -> Saver]
  /\ finishes \in Nat
  /\ restarts \in Nat

\* isWorking is set for something: an image that is to come or is being saved, or
\* metering, whose request repeats or was replaced by the AF listener but has not
\* stopped.  DoWork refuses every press while it is set, and only the end of a
\* capture clears it as long as the fragment lives.
WorkIsReal ==
  isWorking =>
    \/ imagesDue > 0 \/ Saving # {} \/ finishes > 0
    \/ mState # "taken" /\ repeating # "none"

\* A saving thread that has waited for the result still has it when it writes the
\* image: no capture forgets it meanwhile.
ResultKept ==
  \A s \in Savers : saver[s].pc \in {"loaded", "saving"} => mDngResult

\* A capture is finished when all of its images have come, however the saving
\* threads lose each other's increments.
FinishMeansDelivered == finishes > 0 => imagesDue = 0

\* A press is taken only when the capture before is over.
HitTwice == [][isWorking' /\ ~isWorking => ~Capturing]_picVars

\* The metering that isWorking was set for may never end.
MeteringLost == mState # "taken" /\ ~MeteringEnds

\* A single capture ends and the preview runs again, unless its metering never
\* ends.  (A burst that has lost an increment never posts finishCapture, and its
\* preview stays stopped, until the AF listener or the user starts it.)
PreviewComesBack ==
  isWorking /\ burst = 0 ~> (~Capturing /\ repeating = "preview") \/ []MeteringLost

\* A capture ends and the button works again; what can lock it for good is its
\* metering, taken away by the AF listener, or begun under the AE lock that a
\* burst with a lost increment has left, and nothing else.
ShutterFrees == isWorking ~> ~isWorking \/ []MeteringLost
------------------------------------------------------------------------------
\* A user who waits, with a camera that works.
Patient == SoundCamera /\ QuickPresses = FALSE /\ BusyUser = FALSE

\* The inductive invariant behind WorkIsReal and ResultKept: a capture keeps its
\* session, and one that is being metered is alone.
PatientInv ==
  /\ WorkIsReal
  /\ ResultKept
  /\ Capturing =>
       ui = "idle" /\ surfaceRdy /\ ~leaving /\ session = "live" /\ restarts = 0
  /\ session = "live" => posts = 0
  /\ \A s \in Savers : saver[s].pc = "saved" => ~isWorking
  /\ mState # "taken" => isWorking /\ imagesDue = 0 /\ Saving = {} /\ finishes = 0

\* The saving threads that still have to count their image.
Uncounted == {s \in Savers : saver[s].pc \in {"waiting", "loaded"}}

\* A count that stands, or will be stored, leaves room for this many more.
RoomAfter(count) == count + imagesDue + Cardinality(Uncounted) <= burst + 1

\* Why a patient user's capture is finished when all of its images have come: an
\* increment may be lost, but none is counted that has not come.
CountInv ==
  /\ finishes > 0 => imagesDue = 0 /\ Uncounted = {}
  /\ imagesDue > 0 \/ Uncounted # {} => RoomAfter(imagecount)
  /\ \A s \in Savers :
       /\ saver[s].pc = "loaded" => RoomAfter(saver[s].val)
       /\ saver[s].pc \in {"loaded", "saving", "saved"} => saver[s].total = burst + 1

\* What keeps PreviewComesBack from a dead end: where a single capture has
\* stopped the preview of a live session, its image is to come, is being saved or
\* is about to be finished, or the session will be replaced.
SingleIsDriven ==
  burst = 0 /\ session = "live" /\ repeating = "none" =>
    imagesDue > 0 \/ Saving # {} \/ finishes > 0 \/ restarts > 0

\* ... for the thread that saves its image finds it counted.
SingleInv ==
  /\ SingleIsDriven
  /\ burst = 0 =>
       \A s \in Savers : saver[s].pc \in {"saving", "saved"} => imagecount = 1
==============================================================================
