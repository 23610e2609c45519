--------------------------- MODULE VideoModuleApi2 ---------------------------
(***************************************************************************)
(* The video module of the Camera2 API (camera2/modules/VideoModuleApi2)   *)
(* on the camera of CameraHolderApi2, whose actions it composes with its   *)
(* own.                                                                    *)
(*                                                                         *)
(* A press prepares a MediaRecorder and asks the camera for a session with *)
(* the recorder's surface; the recording starts in the callback of that    *)
(* session, previewrdy.  Until then mCaptureSession is the session that    *)
(* was replaced, to which every request throws (session = "closed" in the  *)
(* holder's terms); the AF listener sends one when a frame still in flight *)
(* has a new AF state.  The recording is stopped by the next press, or by  *)
(* DestroyModule when the preview, the module or the surface goes.         *)
(*                                                                         *)
(* In a sound world the camera and the recorder make no error and the user *)
(* waits for the preview before the next act.  In the other world they do  *)
(* whatever the constants of the holder allow.                             *)
(***************************************************************************)
EXTENDS CameraHolderApi2

VARIABLES
  sound,        \* the world, chosen once
  loaded,       \* the module has been initialised
  isRecording,  \* VideoModuleApi2.isRecording
  recorder,     \* mediaRecorder: "none", "prepared", "running" or "failed"
  shown,        \* what the button shows: "rec" or "stop"
  video,        \* the newest session was asked for with previewrdy
  videoStale    \* how many of the stale sessions were (their order among the
                \* other stale ones is not kept)

recordVars == <<isRecording, recorder, shown>>
callbackVars == <<video, videoStale>>
videoVars == <<loaded, recordVars, callbackVars>>
vars == <<holderVars, sound, videoVars>>
------------------------------------------------------------------------------
Init ==
  /\ HolderInit
  /\ sound \in BOOLEAN
  /\ loaded = FALSE
  /\ isRecording = FALSE
  /\ recorder = "none"
  /\ shown = "stop"
  /\ video = FALSE
  /\ videoStale = 0

\* The preview runs on the newest session, which is what a user waits for.
Settled == session = "live" /\ ~fresh /\ stale = 0 /\ posts = 0

Waits == ~sound \/ Settled

\* A recorder in error throws when it is stopped.
Stoppable == isRecording => recorder = "running"

\* createCaptureSession, called n times in a row, the last time with previewrdy
\* or not.
CreateSessions(n, rdy) ==
  /\ stale' = Outdated + n - 1
  /\ fresh' = TRUE
  /\ video' = rdy
  /\ videoStale' = IF fresh /\ video THEN videoStale + 1 ELSE videoStale

\* The session being configured is of no use any more, if it is the newest.
SessionOutdated ==
  /\ video' = (video /\ fresh')
  /\ videoStale' = IF fresh /\ video /\ ~fresh' THEN videoStale + 1 ELSE videoStale

\* Slip: DestroyModule leaves the recorder alone.
StopRecordingNot == UNCHANGED recordVars

\* stopRecording, when there is something to stop.
StopRecording ==
  \/ /\ isRecording
     /\ isRecording' = FALSE
     /\ recorder' = "none"
     /\ shown' = "stop"
  \/ ~isRecording /\ UNCHANGED recordVars

Crash ==
  /\ ui' = "crashed"
  /\ UNCHANGED <<surfaceRdy, leaving, deviceVars, sessionVars, posts, videoVars>>
------------------------------------------------------------------------------
\* What DoWork needs.
UserPresses == ui = "idle" /\ surfaceRdy /\ ~leaving /\ loaded /\ Waits

\* Slip: the button is told only when the recording runs.
PressStartQuietly ==
  /\ UserPresses /\ ~isRecording /\ device = "open" /\ Room
  /\ recorder' = "prepared"
  /\ session' = IF session = "null" THEN "null" ELSE "closed"
  /\ CreateSessions(1, TRUE)
  /\ UNCHANGED <<ui, surfaceRdy, leaving, deviceVars, posts, loaded, isRecording, shown>>

\* startRecording: a recorder that was prepared before is dropped.
PressStart ==
  /\ UserPresses /\ ~isRecording /\ device = "open" /\ Room
  /\ shown' = "rec"
  /\ recorder' = "prepared"
  /\ session' = IF session = "null" THEN "null" ELSE "closed"
  /\ CreateSessions(1, TRUE)
  /\ UNCHANGED <<ui, surfaceRdy, leaving, deviceVars, posts, loaded, isRecording>>

\* startRecording when prepare throws: what was shown is taken back at once.
PressStartFails ==
  /\ UserPresses /\ ~isRecording
  /\ shown' = "stop"
  /\ recorder' = "failed"
  /\ UNCHANGED <<holderVars, loaded, isRecording, callbackVars>>

\* CreateCaptureSession(previewrdy) without a device.
PressStartThrows ==
  /\ UserPresses /\ ~isRecording /\ device = "null"
  /\ Crash

\* ... and with one in error, whose exception is caught.
PressStartLost ==
  /\ UserPresses /\ ~isRecording /\ device = "failed"
  /\ shown' = "rec"
  /\ recorder' = "prepared"
  /\ UNCHANGED <<holderVars, loaded, isRecording, callbackVars>>

\* stopRecording by the button.
PressStop ==
  /\ UserPresses /\ isRecording /\ Stoppable /\ Room
  /\ StopRecording
  /\ \/ /\ device = "open"
        /\ session' = IF session = "null" THEN "null" ELSE "closed"
        /\ CreateSessions(1, FALSE)
     \/ /\ device # "open"
        /\ UNCHANGED <<sessionVars, callbackVars>>
  /\ UNCHANGED <<ui, surfaceRdy, leaving, deviceVars, posts, loaded>>

\* Slip: the button goes on showing the recording.
RecorderErrorQuietly ==
  /\ ~sound /\ ui = "idle" /\ recorder = "running"
  /\ recorder' = "failed"
  /\ UNCHANGED <<holderVars, loaded, isRecording, shown, callbackVars>>

\* MediaRecorder.OnErrorListener: the button is told, isRecording is not cleared.
RecorderError ==
  /\ ~sound /\ ui = "idle" /\ recorder = "running"
  /\ recorder' = "failed"
  /\ shown' = "stop"
  /\ UNCHANGED <<holderVars, loaded, isRecording, callbackVars>>

\* Whatever comes to stop such a recorder.
StopThrows ==
  /\ ui = "idle" /\ surfaceRdy /\ loaded /\ ~Stoppable
  /\ Crash

\* previewrdy.onConfigured: the recording begins.
VideoConfigured ==
  /\ OnConfigured /\ video /\ recorder = "prepared"
  /\ recorder' = "running"
  /\ isRecording' = TRUE
  /\ video' = FALSE
  /\ UNCHANGED <<loaded, shown, videoStale>>

\* Of a session that was replaced, or of a recorder that was not prepared, it
\* throws.
VideoConfiguredThrows ==
  /\ ui = "idle" /\ posts = 0
  /\ videoStale > 0 \/ (fresh /\ stale = 0 /\ video /\ recorder # "prepared")
  /\ Crash

\* previewrdy.onConfigureFailed: nothing is done.
VideoConfigureFails ==
  /\ ~sound /\ ui = "idle" /\ posts = 0 /\ fresh /\ stale = 0 /\ video
  /\ fresh' = FALSE
  /\ video' = FALSE
  /\ UNCHANGED <<ui, surfaceRdy, leaving, deviceVars, session, stale, posts>>
  /\ UNCHANGED <<loaded, recordVars, videoStale>>
------------------------------------------------------------------------------
\* DestroyModule when the surface goes.  (In stopRecording a session is created
\* first if the camera is still open.)
SurfaceGone ==
  /\ ui = "idle" /\ surfaceRdy /\ Stoppable /\ Room
  /\ leaving \/ (Patience /\ Waits)
  /\ surfaceRdy' = FALSE
  /\ session' = "null"
  /\ ui' = "close"
  /\ StopRecording
  /\ \/ isRecording /\ device = "open" /\ CreateSessions(1, FALSE)
     \/ ~(isRecording /\ device = "open") /\ UNCHANGED <<configVars, callbackVars>>
  /\ UNCHANGED <<leaving, deviceVars, posts, loaded>>

\* DestroyModule and startPreview, or InitModule, which also does that: a new
\* size, or the module loaded when the camera has opened.
Restart ==
  /\ session' = "null"
  /\ StopRecording
  /\ \/ device = "open" /\ surfaceRdy /\ CreateSessions(IF isRecording THEN 2 ELSE 1, FALSE)
     \/ ~(device = "open" /\ surfaceRdy) /\ UNCHANGED <<configVars, callbackVars>>

ChangeVideoSize ==
  /\ ui = "idle" /\ surfaceRdy /\ ~leaving /\ loaded /\ Waits /\ Stoppable /\ Room
  /\ Restart
  /\ UNCHANGED <<ui, surfaceRdy, leaving, deviceVars, posts, loaded>>

ModuleLoaded ==
  /\ ui = "idle" /\ posts > 0 /\ session # "closed" /\ Stoppable
  /\ posts' = posts - 1
  /\ loaded' = TRUE
  /\ Restart
  /\ UNCHANGED <<ui, surfaceRdy, leaving, deviceVars>>

\* previewStateCallBackRestart.onConfigured.
PreviewConfigured ==
  /\ \/ OnConfigured /\ ~video
     \/ OnConfiguredStale /\ stale > videoStale
  /\ UNCHANGED <<loaded, recordVars, callbackVars>>

\* The camera is closed or lost; the recorder is not told.
CameraGone ==
  /\ CloseCamera \/ (~sound /\ (OnDisconnected \/ OnError))
  /\ SessionOutdated
  /\ UNCHANGED <<loaded, recordVars>>

\* The user leaves or switches the camera.
UserLeaves ==
  /\ Waits
  /\ UnloadFragment \/ SwitchCamera
  /\ UNCHANGED videoVars

\* SetParameterRepeating on the session that was replaced, by the AF listener or
\* by a touch, in a sound world too.
RequestThrows == ClosedSessionThrows /\ UNCHANGED videoVars

CameraOpens ==
  /\ SurfaceAvailable \/ OpenCamera \/ OnOpened \/ (~sound /\ OpenCameraThrows)
  /\ UNCHANGED videoVars

\* A new fragment has new modules; the recorder of the old one goes on, unless
\* the app was started again.
ModulesGone ==
  /\ NewFragment
  /\ loaded' = FALSE
  /\ isRecording' = FALSE
  /\ recorder' = IF ui = "crashed" THEN "none" ELSE recorder
  /\ shown' = "stop"
  /\ video' = FALSE /\ videoStale' = 0
------------------------------------------------------------------------------
Press ==
  PressStart \/ PressStartFails \/ PressStartThrows \/ PressStartLost \/ PressStop

Configured == VideoConfigured \/ VideoConfiguredThrows \/ PreviewConfigured

Next ==
  /\ \/ Press \/ RecorderError \/ StopThrows \/ Configured \/ VideoConfigureFails
     \/ SurfaceGone \/ ChangeVideoSize \/ ModuleLoaded \/ CameraGone
     \/ UserLeaves \/ RequestThrows \/ CameraOpens \/ ModulesGone
  /\ UNCHANGED sound

\* As in CameraHolderApi2: calls with a permit return, a removed fragment loses
\* its surface, the camera answers and the looper runs on.
Fairness ==
  /\ WF_vars((CameraGone \/ CameraOpens) /\ SemaphoreCalls /\ UNCHANGED sound)
  /\ WF_vars(CameraOpens /\ OnOpened /\ UNCHANGED sound)
  /\ WF_vars(leaving /\ SurfaceGone /\ UNCHANGED sound)
  /\ WF_vars(ModuleLoaded /\ UNCHANGED sound)
  /\ WF_vars(Configured /\ UNCHANGED sound)

Spec == Init /\ [][Next]_vars

FairSpec == Spec /\ Fairness
------------------------------------------------------------------------------
\* Every variable has its type.
TypeOK ==
  /\ HolderTypeOK
  /\ sound \in BOOLEAN
  /\ loaded \in BOOLEAN
  /\ isRecording \in BOOLEAN
  /\ recorder \in {"none", "prepared", "running", "failed"}
  /\ shown \in {"rec", "stop"}
  /\ video \in BOOLEAN
  /\ videoStale \in Nat

\* A running recorder is known to the module that will stop it: the next press,
\* the next DestroyModule.  So no recording outlives its fragment, whatever the
\* user, the recorder and the camera do.
NoSilentRecording == recorder = "running" => isRecording

\* The button follows the recorder in every world: what it shows has a recorder
\* that is prepared or runs, whoever refused or failed, and none runs behind it.
ButtonIsHonest ==
  /\ shown = "rec" => recorder \in {"prepared", "running"}
  /\ recorder = "running" => shown = "rec"

\* In a sound world a recording that is shown has a recorder that runs or will
\* start with the session being configured; the recorder is never stopped in a
\* state in which that throws, and the one crash there is, of a request to a
\* replaced session, loses no recording that runs.
ShownIsReal ==
  sound => /\ shown = "rec" <=> isRecording \/ (fresh /\ video)
           /\ isRecording <=> recorder = "running"
           /\ fresh /\ video => recorder = "prepared" /\ stale = 0
           /\ ui = "crashed" => session = "closed" /\ ~isRecording

\* What keeps NoSilentRecording: a recorder runs and a session is configured for
\* it only while there is a surface, or a call that will close the camera.
RecorderInv ==
  /\ NoSilentRecording
  /\ recorder = "running" => surfaceRdy \/ ui = "crashed"
  /\ fresh /\ video => surfaceRdy \/ ui \in {"close", "crashed"}

\* What keeps ButtonIsHonest: a prepared recorder whose session is configured is
\* the one that is shown.
ButtonInv ==
  /\ ButtonIsHonest
  /\ fresh /\ video /\ recorder = "prepared" => shown = "rec"

\* What keeps ShownIsReal: lock and device agree as in SoundInv, a session that
\* lives is the only one, and while one is configured for the recorder nothing
\* else is on its way.
ShownInv ==
  sound =>
    /\ ShownIsReal
    /\ LockIsMutex /\ PermitInv /\ NoOrphanedCamera
    /\ opening > 0 \/ ui = "open" => device = "null"
    /\ device # "failed" /\ (fresh => device = "open")
    /\ session = "live" => device = "open" /\ ~fresh /\ stale = 0
    /\ ui = "close" => ~surfaceRdy \/ leaving
    /\ videoStale = 0
    /\ fresh /\ video => ui \in {"idle", "crashed"} /\ surfaceRdy /\ ~leaving
    /\ fresh /\ video => posts = 0 /\ ~isRecording
    /\ session # "failed" /\ (session = "closed" => ~isRecording)
    /\ isRecording => surfaceRdy

\* It keeps the promise of Recording, as long as the world is sound.  The app that
\* crashes shows nothing any more.
Seen == sound /\ ui # "crashed"

R == INSTANCE Recording WITH
       shown <- IF Seen THEN shown ELSE "stop",
       writing <- Seen /\ recorder = "running"

ImplementsRecording == R!Spec

\* Leaving the app ends the recording.
LeavingStops == sound /\ leaving /\ recorder = "running" ~> recorder # "running"
==============================================================================
