------------------------ MODULE CameraHolderApi2_proofs ------------------------
(***************************************************************************)
(* Proofs about the camera holder of the Camera2 API.  Whatever the camera *)
(* and the user do, OpenCamera never runs into its timeout; on a camera    *)
(* that opens and stays, the lock is a mutex, no request goes to a closed  *)
(* session, no camera is left open, and the preview is never forgotten.    *)
(***************************************************************************)
EXTENDS CameraHolderApi2, TLAPS

\* A step of the holder keeps the types.
LEMMA HolderTypeStep ==
  ASSUME HolderTypeOK, [HolderNext]_holderVars
  PROVE  HolderTypeOK'
<1> DEFINE Counted == /\ permits \in Nat /\ opening \in Nat
                      /\ stale \in Nat /\ posts \in Nat
<1> USE DEF HolderTypeOK, deviceVars, sessionVars, configVars
<1>1. CASE SemaphoreCalls
  <2>1. Counted'
    BY <1>1, SMT DEF SemaphoreCalls, CloseCamera, OpenCamera, OpenCameraThrows, Outdated
  <2> QED
    BY <1>1, <2>1, Zenon DEF SemaphoreCalls, CloseCamera, OpenCamera, OpenCameraThrows, Outdated
<1>2. CASE OnOpened
  <2>1. Counted'
    BY <1>2, SMT DEF OnOpened
  <2> QED
    BY <1>2, <2>1, Zenon DEF OnOpened
<1>3. CASE OnDisconnected
  <2>1. Counted'
    BY <1>3, SMT DEF OnDisconnected, CameraLost, Outdated
  <2> QED
    BY <1>3, <2>1, Zenon DEF OnDisconnected, CameraLost, Outdated
<1>4. CASE OnError
  <2>1. Counted'
    BY <1>4, SMT DEF OnError, CameraLost, Outdated
  <2> QED
    BY <1>4, <2>1, Zenon DEF OnError, CameraLost, Outdated
<1>5. CASE PostedOpen
  <2>1. Counted'
    BY <1>5, SMT DEF PostedOpen, RestartPreview, Outdated
  <2> QED
    BY <1>5, <2>1, Zenon DEF PostedOpen, RestartPreview, Outdated
<1>6. CASE OnConfiguredStale
  <2>1. Counted'
    BY <1>6, SMT DEF OnConfiguredStale
  <2> QED
    BY <1>6, <2>1, Zenon DEF OnConfiguredStale
<1>7. CASE OnConfigured
  <2>1. Counted'
    BY <1>7, SMT DEF OnConfigured
  <2> QED
    BY <1>7, <2>1, Zenon DEF OnConfigured
<1>8. CASE SurfaceAvailable \/ SurfaceDestroyed \/ UnloadFragment \/ SwitchCamera
  <2>1. Counted'
    BY <1>8, SMT DEF SurfaceAvailable, SurfaceDestroyed, UnloadFragment, SwitchCamera
  <2> QED
    BY <1>8, <2>1, Zenon DEF SurfaceAvailable, SurfaceDestroyed, UnloadFragment, SwitchCamera
<1>9. CASE ChangePictureSize
  <2>1. Counted'
    BY <1>9, SMT DEF ChangePictureSize, RestartPreview, Outdated
  <2> QED
    BY <1>9, <2>1, Zenon DEF ChangePictureSize, RestartPreview, Outdated
<1>10. CASE ClosedSessionThrows \/ NewFragment
  <2>1. Counted'
    BY <1>10, SMT DEF ClosedSessionThrows, NewFragment
  <2> QED
    BY <1>10, <2>1, Zenon DEF ClosedSessionThrows, NewFragment
<1>11. CASE UNCHANGED holderVars
  <2>1. Counted'
    BY <1>11, SMT DEF holderVars
  <2> QED
    BY <1>11, <2>1, Zenon DEF holderVars
<1> QED
  BY <1>1, <1>2, <1>3, <1>4, <1>5, <1>6, <1>7, <1>8, <1>9, <1>10, <1>11
  DEF HolderNext, Callbacks, UserActs

\* Every variable of the holder keeps its type.
THEOREM HolderTypeCorrect == HolderSpec => []HolderTypeOK
<1>1. HolderInit => HolderTypeOK
  <2>1. HolderInit => permits \in Nat /\ opening \in Nat /\ stale \in Nat /\ posts \in Nat
    BY DEF HolderInit
  <2> QED
    BY <2>1, Zenon DEF HolderInit, HolderTypeOK
<1>2. HolderTypeOK /\ [HolderNext]_holderVars => HolderTypeOK'
  BY HolderTypeStep
<1> QED
  BY <1>1, <1>2, PTL DEF HolderSpec

\* A permit is there wherever OpenCamera can be called from: opening gives the
\* only one away, and closing, which must come before the next opening, cannot
\* return without it.
THEOREM PermitCorrect == HolderSpec => []PermitInv
<1>1. HolderInit => PermitInv
  BY DEF HolderInit, PermitInv
<1>2. HolderTypeOK /\ PermitInv /\ [HolderNext]_holderVars => PermitInv'
  <2> SUFFICES ASSUME HolderTypeOK, PermitInv, [HolderNext]_holderVars
               PROVE  PermitInv'
    OBVIOUS
  <2> USE DEF HolderTypeOK, PermitInv, deviceVars, sessionVars, configVars
  <2>1. CASE SemaphoreCalls
    BY <2>1 DEF SemaphoreCalls, CloseCamera, OpenCamera, OpenCameraThrows
  <2>2. CASE OnOpened
    BY <2>2 DEF OnOpened
  <2>3. CASE OnDisconnected \/ OnError
    BY <2>3 DEF OnDisconnected, OnError, CameraLost
  <2>4. CASE PostedOpen \/ OnConfiguredStale \/ OnConfigured
    BY <2>4 DEF PostedOpen, OnConfiguredStale, OnConfigured
  <2>5. CASE UserActs
    BY <2>5 DEF UserActs, SurfaceAvailable, SurfaceDestroyed, UnloadFragment,
                SwitchCamera, ChangePictureSize
  <2>6. CASE ClosedSessionThrows \/ NewFragment
    BY <2>6 DEF ClosedSessionThrows, NewFragment
  <2>7. CASE UNCHANGED holderVars
    BY <2>7 DEF holderVars
  <2> QED
    BY <2>1, <2>2, <2>3, <2>4, <2>5, <2>6, <2>7 DEF HolderNext, Callbacks
<1> QED
  BY <1>1, <1>2, HolderTypeCorrect, PTL DEF HolderSpec

\* The RuntimeException of OpenCamera, "Time out waiting to lock camera opening.",
\* is never thrown, whatever fails.
THEOREM OpenIsPrompt == HolderSpec => []OpenNeverTimesOut
<1>1. PermitInv => OpenNeverTimesOut
  BY DEF PermitInv, OpenNeverTimesOut
<1> QED
  BY <1>1, PermitCorrect, PTL

\* The session that requests go to belongs to the open device, whatever fails.
THEOREM SessionCorrect == HolderSpec => []SessionHasDevice
<1> DEFINE Inv == SessionHasDevice /\ (fresh => device = "open")
<1>1. HolderInit => Inv
  BY DEF HolderInit, SessionHasDevice
<1>2. Inv /\ [HolderNext]_holderVars => Inv'
  <2> SUFFICES ASSUME Inv, [HolderNext]_holderVars
               PROVE  Inv'
    OBVIOUS
  <2> USE DEF SessionHasDevice, deviceVars, sessionVars, configVars
  <2>1. CASE SemaphoreCalls
    BY <2>1 DEF SemaphoreCalls, CloseCamera, OpenCamera, OpenCameraThrows
  <2>2. CASE OnOpened
    BY <2>2 DEF OnOpened
  <2>3. CASE OnDisconnected \/ OnError
    BY <2>3 DEF OnDisconnected, OnError, CameraLost
  <2>4. CASE PostedOpen \/ ChangePictureSize
    BY <2>4 DEF PostedOpen, ChangePictureSize, RestartPreview
  <2>5. CASE OnConfiguredStale \/ OnConfigured
    BY <2>5 DEF OnConfiguredStale, OnConfigured
  <2>6. CASE SurfaceAvailable \/ SurfaceDestroyed \/ UnloadFragment \/ SwitchCamera
    BY <2>6 DEF SurfaceAvailable, SurfaceDestroyed, UnloadFragment, SwitchCamera
  <2>7. CASE ClosedSessionThrows \/ NewFragment
    BY <2>7 DEF ClosedSessionThrows, NewFragment
  <2>8. CASE UNCHANGED holderVars
    BY <2>8 DEF holderVars
  <2> QED
    BY <2>1, <2>2, <2>3, <2>4, <2>5, <2>6, <2>7, <2>8
    DEF HolderNext, Callbacks, UserActs
<1>3. Inv => SessionHasDevice
  OBVIOUS
<1> QED
  BY <1>1, <1>2, <1>3, PTL DEF HolderSpec
------------------------------------------------------------------------------
\* One step of a sound camera.
LEMMA SoundStep ==
  ASSUME SoundCamera, HolderTypeOK, SoundInv, [HolderNext]_holderVars
  PROVE  SoundInv'
<1> USE DEF HolderTypeOK, SoundInv, PermitInv, NoOrphanedCamera, LockIsMutex,
            deviceVars, sessionVars, configVars
<1>1. CASE CloseCamera
  BY <1>1 DEF CloseCamera
<1>2. CASE OpenCamera
  BY <1>2 DEF OpenCamera
<1>3. CASE OpenCameraThrows
  BY <1>3 DEF OpenCameraThrows, SoundCamera
<1>4. CASE OnOpened
  BY <1>4 DEF OnOpened
<1>5. CASE OnDisconnected \/ OnError
  BY <1>5 DEF OnDisconnected, OnError, CameraLost, SoundCamera
<1>6. CASE PostedOpen \/ ChangePictureSize
  BY <1>6 DEF PostedOpen, ChangePictureSize, RestartPreview
<1>7. CASE OnConfiguredStale \/ OnConfigured
  BY <1>7 DEF OnConfiguredStale, OnConfigured
<1>8. CASE SurfaceAvailable \/ SurfaceDestroyed
  BY <1>8 DEF SurfaceAvailable, SurfaceDestroyed
<1>9. CASE UnloadFragment \/ SwitchCamera
  BY <1>9 DEF UnloadFragment, SwitchCamera
<1>10. CASE ClosedSessionThrows \/ NewFragment
  BY <1>10 DEF ClosedSessionThrows, NewFragment
<1>11. CASE UNCHANGED holderVars
  BY <1>11 DEF holderVars
<1> QED
  BY <1>1, <1>2, <1>3, <1>4, <1>5, <1>6, <1>7, <1>8, <1>9, <1>10, <1>11
  DEF HolderNext, SemaphoreCalls, Callbacks, UserActs

\* Lock, device and session of a sound camera agree.
THEOREM SoundCorrect == SoundCamera => (HolderSpec => []SoundInv)
<1> SUFFICES ASSUME SoundCamera
             PROVE  HolderSpec => []SoundInv
  OBVIOUS
<1>1. HolderInit => SoundInv
  BY DEF HolderInit, SoundInv, PermitInv, NoOrphanedCamera, LockIsMutex
<1>2. HolderTypeOK /\ SoundInv /\ [HolderNext]_holderVars => SoundInv'
  BY SoundStep
<1> QED
  BY <1>1, <1>2, HolderTypeCorrect, PTL DEF HolderSpec

\* The semaphore is a mutex between the holder and the camera being opened.
THEOREM SoundLock == SoundCamera => (HolderSpec => []LockIsMutex)
<1>1. SoundInv => LockIsMutex
  BY DEF SoundInv
<1> QED
  BY <1>1, SoundCorrect, PTL

\* No camera stays open once the surface is gone, however hasty the user is.
THEOREM SoundNoOrphan == SoundCamera => (HolderSpec => []NoOrphanedCamera)
<1>1. SoundInv => NoOrphanedCamera
  BY DEF SoundInv
<1> QED
  BY <1>1, SoundCorrect, PTL

\* No request is ever sent to a closed session: it would crash the app.
THEOREM SoundNoClosedSession == SoundCamera => (HolderSpec => []NoClosedSession)
<1>1. SoundInv => NoClosedSession
  BY DEF SoundInv, NoClosedSession
<1> QED
  BY <1>1, SoundCorrect, PTL

\* A surface without a preview always has something on its way that starts it.
THEOREM SoundPreview == SoundCamera => (HolderSpec => []PreviewIsComing)
<1> SUFFICES ASSUME SoundCamera
             PROVE  HolderSpec => []PreviewIsComing
  OBVIOUS
<1>1. HolderInit => PreviewIsComing
  BY DEF HolderInit, PreviewIsComing
<1>2. HolderTypeOK /\ SoundInv /\ PreviewIsComing /\ [HolderNext]_holderVars
      => PreviewIsComing'
  <2> SUFFICES ASSUME HolderTypeOK, SoundInv, PreviewIsComing,
                      [HolderNext]_holderVars
               PROVE  PreviewIsComing'
    OBVIOUS
  <2> USE DEF HolderTypeOK, SoundInv, PreviewIsComing,
              deviceVars, sessionVars, configVars
  <2>1. CASE SemaphoreCalls
    <3>1. CASE CloseCamera
      <4>1. ui = "close" \/ ui' = "open"
        BY <3>1 DEF CloseCamera
      <4> QED
        BY <3>1, <4>1, Zenon DEF CloseCamera
    <3>2. CASE OpenCamera
      <4>1. opening' > 0
        BY <3>2 DEF OpenCamera
      <4> QED
        BY <4>1
    <3> QED
      BY <2>1, <3>1, <3>2 DEF SemaphoreCalls, OpenCameraThrows, SoundCamera
  <2>2. CASE OnOpened
    BY <2>2 DEF OnOpened
  <2>3. CASE OnDisconnected \/ OnError
    BY <2>3 DEF OnDisconnected, OnError, CameraLost, SoundCamera
  <2>4. CASE PostedOpen \/ ChangePictureSize
    <3>1. CASE device = "open" /\ surfaceRdy
      <4>1. fresh'
        BY <2>4, <3>1 DEF PostedOpen, ChangePictureSize, RestartPreview
      <4> QED
        BY <4>1
    <3>2. CASE ~(device = "open" /\ surfaceRdy)
      <4>1. ui' = ui /\ surfaceRdy' = surfaceRdy /\ leaving' = leaving
            /\ opening' = opening /\ ui = "idle"
        BY <2>4, Zenon DEF PostedOpen, ChangePictureSize
      <4>2. surfaceRdy /\ ~leaving => opening > 0
        BY <4>1, <3>2
      <4> QED
        BY <4>1, <4>2
    <3> QED
      BY <3>1, <3>2
  <2>5. CASE OnConfiguredStale \/ OnConfigured
    <3>1. CASE OnConfiguredStale
      <4>1. session # "live"
        BY <3>1 DEF OnConfiguredStale
      <4> QED
        BY <3>1, <4>1, Zenon DEF OnConfiguredStale
    <3>2. CASE OnConfigured
      BY <3>2, Zenon DEF OnConfigured
    <3> QED
      BY <2>5, <3>1, <3>2
  <2>6. CASE SurfaceAvailable \/ SurfaceDestroyed \/ UnloadFragment \/ SwitchCamera
    BY <2>6 DEF SurfaceAvailable, SurfaceDestroyed, UnloadFragment, SwitchCamera
  <2>7. CASE ClosedSessionThrows \/ NewFragment
    BY <2>7 DEF ClosedSessionThrows, NewFragment
  <2>8. CASE UNCHANGED holderVars
    BY <2>8 DEF holderVars
  <2> QED
    BY <2>1, <2>2, <2>3, <2>4, <2>5, <2>6, <2>7, <2>8
    DEF HolderNext, Callbacks, UserActs
<1> QED
  BY <1>1, <1>2, SoundCorrect, HolderTypeCorrect, PTL DEF HolderSpec
==============================================================================
