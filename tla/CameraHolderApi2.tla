--------------------------- MODULE CameraHolderApi2 ---------------------------
(***************************************************************************)
(* Opening, closing and configuring the camera of the Camera2 API          *)
(* (camera2/CameraHolderApi2 and camera2/Camera2Fragment).                 *)
(*                                                                         *)
(* openCamera and createCaptureSession are given no handler, so that their *)
(* callbacks come to the UI looper, like the surface's callbacks, the      *)
(* user's touches and the posts of the holder itself.  The semaphore       *)
(* mCameraOpenCloseLock is acquired on that same thread: while it waits    *)
(* for a permit (ui # "idle") no callback can run and release one.         *)
(***************************************************************************)
EXTENDS Naturals

CONSTANTS
  HastyUser,    \* whether the user leaves or switches before the camera opened
  OpenFails,    \* whether openCamera may throw a CameraAccessException
  CameraFails,  \* whether the camera may disconnect or report an error
  MaxPermits,   \* bound of the model on the permits, out or in
  MaxPending    \* bound of the model on stale configurations

ASSUME HolderAssumption ==
  /\ HastyUser \in BOOLEAN
  /\ OpenFails \in BOOLEAN
  /\ CameraFails \in BOOLEAN
  /\ MaxPermits \in Nat \ {0}
  /\ MaxPending \in Nat \ {0}

VARIABLES
  ui,           \* the UI thread: "idle" on its looper, or inside CloseCamera
                \* ("close"; "switch" when OpenCamera follows) or OpenCamera
                \* ("open") at the semaphore, or "crashed"
  surfaceRdy,   \* CameraFragmentAbstract.PreviewSurfaceRdy
  leaving,      \* unloadCameraFragment has stopped the camera and removes the
                \* fragment; a surface it has is still to be destroyed
  permits,      \* permits of mCameraOpenCloseLock
  opening,      \* openCamera calls the camera has not answered
  device,       \* mCameraDevice: "null", "open", or "failed" after onError
  session,      \* mCaptureSession: "null", "live", of a "failed" device, "closed"
  stale,        \* onConfigured calls to come, of sessions already closed or
                \* replaced by a newer one
  fresh,        \* after them comes onConfigured of the newest session
  posts         \* posts of onCameraOpen on the looper (those of onCameraClose
                \* change nothing here)

deviceVars == <<permits, opening, device>>
configVars == <<stale, fresh>>
sessionVars == <<session, configVars>>
holderVars == <<ui, surfaceRdy, leaving, deviceVars, sessionVars, posts>>

\* The device closes, or creates another session: the one being configured is
\* of no use any more.
Outdated == IF fresh THEN stale + 1 ELSE stale
------------------------------------------------------------------------------
HolderInit ==
  /\ ui = "idle"
  /\ surfaceRdy = FALSE
  /\ leaving = FALSE
  /\ permits = 1
  /\ opening = 0
  /\ device = "null"
  /\ session = "null"
  /\ stale = 0
  /\ fresh = FALSE
  /\ posts = 0

\* The user may leave the camera that is being opened.
Patience == HastyUser \/ opening = 0

\* Bound of the model.
Room == stale < MaxPending

\* onSurfaceTextureAvailable: StartCamera.
SurfaceAvailable ==
  /\ ui = "idle" /\ ~surfaceRdy /\ ~leaving /\ Room
  /\ surfaceRdy' = TRUE
  /\ ui' = "open"
  /\ UNCHANGED <<leaving, deviceVars, sessionVars, posts>>

\* onSurfaceTextureDestroyed: StopPreview, by way of the module's
\* CloseCaptureSession, and StopCamera.
SurfaceDestroyed ==
  /\ ui = "idle" /\ surfaceRdy
  /\ leaving \/ Patience
  /\ surfaceRdy' = FALSE
  /\ session' = "null"
  /\ ui' = "close"
  /\ UNCHANGED <<leaving, deviceVars, configVars, posts>>

\* ActivityFreeDcamMain.unloadCameraFragment.
UnloadFragment ==
  /\ ui = "idle" /\ surfaceRdy /\ ~leaving /\ Patience
  /\ leaving' = TRUE
  /\ ui' = "close"
  /\ UNCHANGED <<surfaceRdy, deviceVars, sessionVars, posts>>

\* UiSettingsChildCameraSwitch.switchCamera: StopCamera and StartCamera.
SwitchCamera ==
  /\ ui = "idle" /\ surfaceRdy /\ ~leaving /\ Patience /\ Room
  /\ ui' = "switch"
  /\ UNCHANGED <<surfaceRdy, leaving, deviceVars, sessionVars, posts>>

\* Slips: the session is left for the next device; the permit is kept.
CloseCameraKeepsSession ==
  /\ ui \in {"close", "switch"} /\ permits > 0
  /\ device' = "null"
  /\ session' = IF session = "null" THEN "null" ELSE "closed"
  /\ stale' = Outdated
  /\ fresh' = FALSE
  /\ ui' = IF ui = "switch" THEN "open" ELSE "idle"
  /\ UNCHANGED <<surfaceRdy, leaving, permits, opening, posts>>

CloseCameraKeepsPermit ==
  /\ ui \in {"close", "switch"} /\ permits > 0
  /\ permits' = permits - 1
  /\ device' = "null"
  /\ session' = IF session \in {"live", "null"} THEN "null" ELSE "closed"
  /\ stale' = Outdated
  /\ fresh' = FALSE
  /\ ui' = IF ui = "switch" THEN "open" ELSE "idle"
  /\ UNCHANGED <<surfaceRdy, leaving, opening, posts>>

\* CloseCamera once it has the permit, which it gives back at its end.  Stopping
\* a session that does not live throws, and the session is not set to null.
CloseCamera ==
  /\ ui \in {"close", "switch"} /\ permits > 0
  /\ device' = "null"
  /\ session' = IF session \in {"live", "null"} THEN "null" ELSE "closed"
  /\ stale' = Outdated
  /\ fresh' = FALSE
  /\ ui' = IF ui = "switch" THEN "open" ELSE "idle"
  /\ UNCHANGED <<surfaceRdy, leaving, permits, opening, posts>>

\* OpenCamera once it has the permit.  (OpenNeverTimesOut: it always gets it
\* at once, so that the timeout of tryAcquire is not modelled.)
OpenCamera ==
  /\ ui = "open" /\ permits > 0
  /\ permits' = permits - 1
  /\ opening' = opening + 1
  /\ ui' = "idle"
  /\ UNCHANGED <<surfaceRdy, leaving, device, sessionVars, posts>>

\* The CameraAccessException of openCamera is caught; the permit is not released.
OpenCameraThrows ==
  /\ OpenFails
  /\ ui = "open" /\ permits > 0
  /\ permits' = permits - 1
  /\ ui' = "idle"
  /\ UNCHANGED <<surfaceRdy, leaving, opening, device, sessionVars, posts>>

\* Slip: the permit stays with the opened device.
OnOpenedKeepsPermit ==
  /\ ui = "idle" /\ opening > 0 /\ posts = 0
  /\ opening' = opening - 1
  /\ device' = "open"
  /\ posts' = posts + 1
  /\ UNCHANGED <<ui, surfaceRdy, leaving, permits, sessionVars>>

\* mStateCallback.onOpened.  The looper has run the post of an earlier one before.
OnOpened ==
  /\ ui = "idle" /\ opening > 0 /\ posts = 0
  /\ opening' = opening - 1
  /\ permits' = permits + 1
  /\ device' = "open"
  /\ posts' = posts + 1
  /\ UNCHANGED <<ui, surfaceRdy, leaving, sessionVars>>

\* What onDisconnected and onError have in common: they answer an openCamera, or
\* come on their own.
CameraLost ==
  /\ CameraFails /\ ui = "idle" /\ Room
  /\ \/ opening > 0 /\ opening' = opening - 1
     \/ device = "open" /\ permits + opening < MaxPermits /\ UNCHANGED opening
  /\ permits' = permits + 1
  /\ stale' = Outdated
  /\ fresh' = FALSE
  /\ UNCHANGED <<ui, surfaceRdy, leaving, posts>>

\* mStateCallback.onDisconnected: the device is closed and forgotten, its
\* session is closed with it but not forgotten.
OnDisconnected ==
  /\ CameraLost
  /\ device' = "null"
  /\ session' = IF session = "null" THEN "null" ELSE "closed"

\* mStateCallback.onError: the device is neither closed nor forgotten.
OnError ==
  /\ CameraLost
  /\ device' = IF device = "open" THEN "failed" ELSE device
  /\ session' = IF session = "live" THEN "failed" ELSE session

\* CaptureSessionHandler.CloseCaptureSession and CreateCaptureSession: a module
\* stops its preview and starts it, when the device and the surface are there.
RestartPreview ==
  /\ session' = "null"
  /\ \/ /\ device = "open" /\ surfaceRdy
        /\ stale' = Outdated
        /\ fresh' = TRUE
     \/ ~(device = "open" /\ surfaceRdy) /\ UNCHANGED configVars

\* The user changes the picture's size, its format or, with a post that may come
\* late, the burst.
ChangePictureSize ==
  /\ ui = "idle" /\ Room
  /\ RestartPreview
  /\ UNCHANGED <<ui, surfaceRdy, leaving, deviceVars, posts>>

\* The post of onCameraOpen: the settings are applied to the camera
\* (SetParameterRepeating throws on a closed session), the module is loaded.
PostedOpen ==
  /\ ui = "idle" /\ posts > 0 /\ session # "closed"
  /\ posts' = posts - 1
  /\ RestartPreview
  /\ UNCHANGED <<ui, surfaceRdy, leaving, deviceVars>>

\* Slip: a stale session is taken.
OnConfiguredUnchecked ==
  /\ ui = "idle" /\ stale > 0 /\ posts = 0
  /\ stale' = stale - 1
  /\ session' = "live"
  /\ UNCHANGED <<ui, surfaceRdy, leaving, deviceVars, fresh, posts>>

\* previewStateCallBackRestart.onConfigured does nothing when the camera is
\* closed.  The request of a stale session throws, also when a newer session
\* lives.  (The post of the camera's opening was on the looper before.)
OnConfiguredStale ==
  /\ ui = "idle" /\ stale > 0 /\ posts = 0
  /\ stale' = stale - 1
  /\ session' = IF device = "null" THEN session ELSE "null"
  /\ UNCHANGED <<ui, surfaceRdy, leaving, deviceVars, fresh, posts>>

\* Slip: the configured session is not taken.
OnConfiguredDropsSession ==
  /\ ui = "idle" /\ fresh /\ stale = 0 /\ posts = 0
  /\ fresh' = FALSE
  /\ UNCHANGED <<ui, surfaceRdy, leaving, deviceVars, session, stale, posts>>

OnConfigured ==
  /\ ui = "idle" /\ fresh /\ stale = 0 /\ posts = 0
  /\ fresh' = FALSE
  /\ session' = "live"
  /\ UNCHANGED <<ui, surfaceRdy, leaving, deviceVars, stale, posts>>

\* SetParameterRepeating on a closed session, by a touch of the user, by the post
\* of onCameraOpen or, for a new AF state in a frame still in flight, by
\* cameraBackroundValuesChangedListner: the IllegalStateException is not caught.
ClosedSessionThrows ==
  /\ ui = "idle" /\ session = "closed"
  /\ ui' = "crashed"
  /\ UNCHANGED <<surfaceRdy, leaving, deviceVars, sessionVars, posts>>

\* loadCameraFragment: a new fragment has a new holder.  (Also after a crash,
\* when the app is started again.)
NewFragment ==
  /\ ui = "crashed" \/ (ui = "idle" /\ ~surfaceRdy)
  /\ ui' = "idle"
  /\ surfaceRdy' = FALSE /\ leaving' = FALSE
  /\ permits' = 1 /\ opening' = 0 /\ device' = "null"
  /\ session' = "null" /\ stale' = 0 /\ fresh' = FALSE /\ posts' = 0
------------------------------------------------------------------------------
SemaphoreCalls == CloseCamera \/ OpenCamera \/ OpenCameraThrows

Callbacks ==
  \/ OnOpened \/ OnDisconnected \/ OnError \/ PostedOpen
  \/ OnConfiguredStale \/ OnConfigured

UserActs ==
  \/ SurfaceAvailable \/ SurfaceDestroyed \/ UnloadFragment
  \/ SwitchCamera \/ ChangePictureSize

HolderNext ==
  SemaphoreCalls \/ Callbacks \/ UserActs \/ ClosedSessionThrows \/ NewFragment

\* A thread that gets its permit goes on; a removed fragment loses its surface;
\* the camera answers and the looper runs whatever it is given.
HolderFairness ==
  /\ WF_holderVars(SemaphoreCalls)
  /\ WF_holderVars(leaving /\ SurfaceDestroyed)
  /\ WF_holderVars(OnOpened \/ OnDisconnected \/ OnError)
  /\ WF_holderVars(PostedOpen)
  /\ WF_holderVars(OnConfiguredStale \/ OnConfigured)

HolderSpec == HolderInit /\ [][HolderNext]_holderVars

HolderFairSpec == HolderSpec /\ HolderFairness
------------------------------------------------------------------------------
\* Every variable has its type.
HolderTypeOK ==
  /\ ui \in {"idle", "open", "close", "switch", "crashed"}
  /\ surfaceRdy \in BOOLEAN
  /\ leaving \in BOOLEAN
  /\ permits \in Nat
  /\ opening \in Nat
  /\ device \in {"null", "open", "failed"}
  /\ session \in {"null", "live", "failed", "closed"}
  /\ stale \in Nat
  /\ fresh \in BOOLEAN
  /\ posts \in Nat

\* "Time out waiting to lock camera opening." is never thrown: every OpenCamera
\* comes after a CloseCamera that found a permit and gave it back, whatever
\* failed in between.
OpenNeverTimesOut == ui = "open" => permits > 0

\* The lock does what it is for: one permit, with the holder or with the camera
\* that is being opened.
LockIsMutex == permits + opening = 1

\* When the surface is gone and the calls have returned, the camera is closed:
\* no late onOpened leaves it open for nobody.
NoOrphanedCamera == ui = "idle" /\ ~surfaceRdy => device = "null"

\* The session that requests are sent to belongs to the open device.
SessionHasDevice == session = "live" => device = "open"

\* No request is sent to a closed session: whoever closes the device forgets the
\* session first.
NoClosedSession == session # "closed"

\* A surface without a running preview is waiting for something that will start
\* it: the camera to open, the UI to be told, the session to be configured.
PreviewIsComing ==
  surfaceRdy /\ ~leaving /\ ui = "idle" =>
    session = "live" \/ opening > 0 \/ posts > 0 \/ fresh

\* CloseCamera returns.  Leaving the app relies on it (unloadCameraFragment).
CloseEnds == ui \in {"close", "switch"} ~> ui = "idle"

\* When the user lets it be, a surface gets its preview and keeps it.
UserRests == <>[][~UserActs]_holderVars

PreviewStarts == UserRests => <>[](surfaceRdy => session = "live")
------------------------------------------------------------------------------
\* A camera that opens whenever it is asked to, and stays.
SoundCamera == OpenFails = FALSE /\ CameraFails = FALSE

\* The inductive invariant behind OpenNeverTimesOut: where OpenCamera can be
\* called from, a permit is there.
PermitInv ==
  /\ ui = "open" => surfaceRdy /\ permits > 0
  /\ ui = "switch" => surfaceRdy
  /\ ui = "idle" /\ ~surfaceRdy => permits > 0

\* The inductive invariant of a sound camera: one permit, one device, one
\* session, each of the latter two known only while the former is.
SoundInv ==
  /\ LockIsMutex
  /\ PermitInv
  /\ NoOrphanedCamera
  /\ session = "live" => device = "open" /\ stale = 0 /\ ~fresh
  /\ session \in {"live", "null"}
  /\ fresh => device = "open"
  /\ opening > 0 => device = "null"
  /\ device # "failed"
  /\ ui = "close" => ~surfaceRdy \/ leaving
  /\ ui = "open" => device = "null"
  /\ ui = "idle" /\ surfaceRdy /\ ~leaving => opening > 0 \/ device = "open"
==============================================================================
