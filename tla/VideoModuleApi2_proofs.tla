------------------------ MODULE VideoModuleApi2_proofs ------------------------
(***************************************************************************)
(* Proofs about the video module of the Camera2 API: no recording goes on  *)
(* that the module does not know, whatever fails, and the button follows   *)
(* the recorder; in a sound world what the button shows is true, and the   *)
(* module implements Recording.                                            *)
(***************************************************************************)
EXTENDS VideoModuleApi2, TLAPS

\* Every variable of the camera and the module keeps its type.
THEOREM VideoTypeCorrect == Spec => []TypeOK
<1> DEFINE Counted == /\ permits \in Nat /\ opening \in Nat
                      /\ stale \in Nat /\ posts \in Nat /\ videoStale \in Nat
<1> USE DEF TypeOK, HolderTypeOK, deviceVars, sessionVars, configVars, holderVars,
            recordVars, callbackVars, videoVars
<1>1. Init => TypeOK
  <2>1. Init => Counted
    BY DEF Init, HolderInit
  <2> QED
    BY <2>1, Zenon DEF Init, HolderInit
<1>2. TypeOK /\ [Next]_vars => TypeOK'
  <2> SUFFICES ASSUME TypeOK, [Next]_vars
               PROVE  TypeOK'
    OBVIOUS
  <2>a. CASE UNCHANGED vars
    <3>1. Counted'
      BY <2>a, SMT DEF vars
    <3>2. HolderTypeOK'
      BY <2>a, <3>1, Zenon DEF vars
    <3> QED
      BY <2>a, <3>1, <3>2, SMT DEF vars
  <2>b. CASE Next
    <3>0. sound' \in BOOLEAN
      BY <2>b, Zenon DEF Next
    <3>1. CASE PressStart
      <4>1. Counted'
        BY <3>1, SMT DEF PressStart, CreateSessions, Outdated
      <4> QED
        BY <3>0, <3>1, <4>1, Zenon DEF PressStart, CreateSessions
    <3>2. CASE PressStartFails \/ PressStartLost
      <4>1. Counted'
        BY <3>2, SMT DEF PressStartFails, PressStartLost
      <4> QED
        BY <3>0, <3>2, <4>1, Zenon DEF PressStartFails, PressStartLost
    <3>3. CASE PressStartThrows \/ StopThrows \/ VideoConfiguredThrows
      <4>1. Crash
        BY <3>3, Zenon DEF PressStartThrows, StopThrows, VideoConfiguredThrows
      <4>2. Counted'
        BY <4>1, SMT DEF Crash
      <4> QED
        BY <3>0, <4>1, <4>2, ZenonT(40) DEF Crash
    <3>4. CASE PressStop
      <4>1. Counted'
        BY <3>4, SMT DEF PressStop, CreateSessions, Outdated
      <4> QED
        BY <3>0, <3>4, <4>1, Zenon DEF PressStop, StopRecording, CreateSessions
    <3>5. CASE RecorderError
      <4>1. Counted'
        BY <3>5, SMT DEF RecorderError
      <4> QED
        BY <3>0, <3>5, <4>1, Zenon DEF RecorderError
    <3>6. CASE VideoConfigured
      <4>1. Counted'
        BY <3>6, SMT DEF VideoConfigured, OnConfigured
      <4> QED
        BY <3>0, <3>6, <4>1, Zenon DEF VideoConfigured, OnConfigured
    <3>7. CASE VideoConfigureFails
      <4>1. Counted'
        BY <3>7, SMT DEF VideoConfigureFails
      <4> QED
        BY <3>0, <3>7, <4>1, Zenon DEF VideoConfigureFails
    <3>8. CASE PreviewConfigured
      <4>1. Counted'
        BY <3>8, SMT DEF PreviewConfigured, OnConfigured, OnConfiguredStale
      <4> QED
        BY <3>0, <3>8, <4>1, ZenonT(40) DEF PreviewConfigured, OnConfigured, OnConfiguredStale
    <3>9. CASE SurfaceGone
      <4>1. Counted'
        BY <3>9, SMT DEF SurfaceGone, CreateSessions, Outdated
      <4> QED
        BY <3>0, <3>9, <4>1, Zenon DEF SurfaceGone, StopRecording, CreateSessions
    <3>10. CASE ChangeVideoSize \/ ModuleLoaded
      <4>1. Counted'
        BY <3>10, SMT DEF ChangeVideoSize, ModuleLoaded, Restart, CreateSessions, Outdated
      <4> QED
        BY <3>0, <3>10, <4>1, Zenon
        DEF ChangeVideoSize, ModuleLoaded, Restart, StopRecording, CreateSessions
    <3>11. CASE CameraGone
      <4>1. Counted'
        BY <3>11, SMT DEF CameraGone, CloseCamera, OnDisconnected, OnError, CameraLost,
                          SessionOutdated, Outdated
      <4> QED
        BY <3>0, <3>11, <4>1, ZenonT(40)
        DEF CameraGone, CloseCamera, OnDisconnected, OnError, CameraLost, SessionOutdated
    <3>12. CASE UserLeaves
      <4>1. Counted'
        BY <3>12, SMT DEF UserLeaves, UnloadFragment, SwitchCamera
      <4> QED
        BY <3>0, <3>12, <4>1, Zenon DEF UserLeaves, UnloadFragment, SwitchCamera
    <3>13. CASE RequestThrows
      <4>1. Counted'
        BY <3>13, SMT DEF RequestThrows, ClosedSessionThrows
      <4> QED
        BY <3>0, <3>13, <4>1, Zenon DEF RequestThrows, ClosedSessionThrows
    <3>14. CASE CameraOpens
      <4>1. Counted'
        BY <3>14, SMT DEF CameraOpens, SurfaceAvailable, OpenCamera, OnOpened, OpenCameraThrows
      <4> QED
        BY <3>0, <3>14, <4>1, Zenon
        DEF CameraOpens, SurfaceAvailable, OpenCamera, OnOpened, OpenCameraThrows
    <3>15. CASE ModulesGone
      <4>1. Counted'
        BY <3>15, SMT DEF ModulesGone, NewFragment
      <4> QED
        BY <3>0, <3>15, <4>1, Zenon DEF ModulesGone, NewFragment
    <3> QED
      BY <2>b, <3>1, <3>2, <3>3, <3>4, <3>5, <3>6, <3>7, <3>8, <3>9, <3>10, <3>11,
         <3>12, <3>13, <3>14, <3>15
      DEF Next, Press, Configured
  <2> QED
    BY <2>a, <2>b
<1> QED
  BY <1>1, <1>2, PTL DEF Spec

\* What NoSilentRecording rests on is kept by every step.
THEOREM RecorderCorrect == Spec => []RecorderInv
<1> USE DEF RecorderInv, NoSilentRecording, deviceVars, sessionVars, configVars,
            holderVars, recordVars, callbackVars, videoVars
<1>1. Init => RecorderInv
  BY DEF Init, HolderInit
<1>2. RecorderInv /\ [Next]_vars => RecorderInv'
  <2> SUFFICES ASSUME RecorderInv, [Next]_vars
               PROVE  RecorderInv'
    OBVIOUS
  <2>1. CASE PressStart
    BY <2>1 DEF PressStart, UserPresses, CreateSessions
  <2>2. CASE PressStartFails \/ PressStartLost
    BY <2>2 DEF PressStartFails, PressStartLost, UserPresses
  <2>3. CASE PressStartThrows \/ StopThrows \/ VideoConfiguredThrows
    BY <2>3 DEF PressStartThrows, StopThrows, VideoConfiguredThrows, Crash
  <2>4. CASE PressStop
    BY <2>4 DEF PressStop, UserPresses, StopRecording, CreateSessions
  <2>5. CASE RecorderError
    BY <2>5 DEF RecorderError
  <2>6. CASE VideoConfigured
    BY <2>6 DEF VideoConfigured, OnConfigured
  <2>7. CASE VideoConfigureFails
    BY <2>7 DEF VideoConfigureFails
  <2>8. CASE PreviewConfigured
    BY <2>8 DEF PreviewConfigured, OnConfigured, OnConfiguredStale
  <2>9. CASE SurfaceGone
    BY <2>9 DEF SurfaceGone, StopRecording, CreateSessions
  <2>10. CASE ChangeVideoSize \/ ModuleLoaded
    BY <2>10 DEF ChangeVideoSize, ModuleLoaded, Restart, StopRecording, CreateSessions
  <2>11. CASE CameraGone
    BY <2>11 DEF CameraGone, CloseCamera, OnDisconnected, OnError, CameraLost, SessionOutdated
  <2>12. CASE UserLeaves
    BY <2>12 DEF UserLeaves, UnloadFragment, SwitchCamera
  <2>13. CASE RequestThrows
    BY <2>13 DEF RequestThrows, ClosedSessionThrows
  <2>14. CASE CameraOpens
    BY <2>14 DEF CameraOpens, SurfaceAvailable, OpenCamera, OnOpened, OpenCameraThrows
  <2>15. CASE ModulesGone
    BY <2>15 DEF ModulesGone, NewFragment
  <2>16. CASE UNCHANGED vars
    BY <2>16 DEF vars
  <2> QED
    BY <2>1, <2>2, <2>3, <2>4, <2>5, <2>6, <2>7, <2>8, <2>9, <2>10, <2>11, <2>12,
       <2>13, <2>14, <2>15, <2>16
    DEF Next, Press, Configured
<1> QED
  BY <1>1, <1>2, PTL DEF Spec

\* No recording outlives the module that would stop it: whatever the user, the
\* camera and the recorder do, a recorder that runs is known as isRecording.
THEOREM RecordingIsKnown == Spec => []NoSilentRecording
<1>1. RecorderInv => NoSilentRecording
  BY DEF RecorderInv
<1> QED
  BY <1>1, RecorderCorrect, PTL

\* What ButtonIsHonest rests on is kept by every step.
THEOREM ButtonCorrect == Spec => []ButtonInv
<1> USE DEF ButtonInv, ButtonIsHonest, deviceVars, sessionVars, configVars,
            holderVars, recordVars, callbackVars, videoVars
<1>1. Init => ButtonInv
  BY DEF Init, HolderInit
<1>2. RecorderInv /\ ButtonInv /\ [Next]_vars => ButtonInv'
  <2> SUFFICES ASSUME RecorderInv, ButtonInv, [Next]_vars
               PROVE  ButtonInv'
    OBVIOUS
  <2>1. CASE PressStart
    BY <2>1 DEF PressStart, UserPresses, CreateSessions
  <2>2. CASE PressStartFails \/ PressStartLost
    BY <2>2 DEF PressStartFails, PressStartLost, UserPresses
  <2>3. CASE PressStartThrows \/ StopThrows \/ VideoConfiguredThrows
    BY <2>3 DEF PressStartThrows, StopThrows, VideoConfiguredThrows, Crash
  <2>4. CASE PressStop
    BY <2>4 DEF PressStop, UserPresses, StopRecording, CreateSessions
  <2>5. CASE RecorderError
    BY <2>5 DEF RecorderError
  <2>6. CASE VideoConfigured
    BY <2>6 DEF VideoConfigured, OnConfigured
  <2>7. CASE VideoConfigureFails
    BY <2>7 DEF VideoConfigureFails
  <2>8. CASE PreviewConfigured
    BY <2>8 DEF PreviewConfigured, OnConfigured, OnConfiguredStale
  <2>9. CASE SurfaceGone
    BY <2>9 DEF SurfaceGone, StopRecording, CreateSessions
  <2>10. CASE ChangeVideoSize \/ ModuleLoaded
    BY <2>10 DEF ChangeVideoSize, ModuleLoaded, Restart, StopRecording, CreateSessions
  <2>11. CASE CameraGone
    BY <2>11 DEF CameraGone, CloseCamera, OnDisconnected, OnError, CameraLost, SessionOutdated
  <2>12. CASE UserLeaves
    BY <2>12 DEF UserLeaves, UnloadFragment, SwitchCamera
  <2>13. CASE RequestThrows
    BY <2>13 DEF RequestThrows, ClosedSessionThrows
  <2>14. CASE CameraOpens
    BY <2>14 DEF CameraOpens, SurfaceAvailable, OpenCamera, OnOpened, OpenCameraThrows
  <2>15. CASE ModulesGone
    BY <2>15 DEF ModulesGone, NewFragment, RecorderInv
  <2>16. CASE UNCHANGED vars
    BY <2>16 DEF vars
  <2> QED
    BY <2>1, <2>2, <2>3, <2>4, <2>5, <2>6, <2>7, <2>8, <2>9, <2>10, <2>11, <2>12,
       <2>13, <2>14, <2>15, <2>16
    DEF Next, Press, Configured
<1> QED
  BY <1>1, <1>2, RecorderCorrect, PTL DEF Spec

\* Whatever the user, the camera and the recorder do, the button shows a recording
\* only with a recorder that is prepared or runs, and no recorder runs without it.
THEOREM ButtonFollows == Spec => []ButtonIsHonest
<1>1. ButtonInv => ButtonIsHonest
  BY DEF ButtonInv
<1> QED
  BY <1>1, ButtonCorrect, PTL
------------------------------------------------------------------------------
\* One step in a sound world.
LEMMA ShownStep ==
  ASSUME TypeOK, ShownInv, sound, [Next]_vars
  PROVE  ShownInv'
<1> USE DEF TypeOK, HolderTypeOK, ShownInv, ShownIsReal, PermitInv, NoOrphanedCamera,
            LockIsMutex, deviceVars, sessionVars, configVars, holderVars,
            recordVars, callbackVars, videoVars
<1>1. CASE PressStart
  BY <1>1 DEF PressStart, UserPresses, Waits, Settled, CreateSessions, Outdated
<1>2. CASE PressStartFails \/ PressStartLost
  BY <1>2 DEF PressStartFails, PressStartLost, UserPresses, Waits, Settled
<1>3. CASE PressStartThrows
  BY <1>3 DEF PressStartThrows, UserPresses, Waits, Settled
<1>4. CASE StopThrows \/ VideoConfiguredThrows
  BY <1>4 DEF StopThrows, VideoConfiguredThrows, Stoppable
<1>5. CASE PressStop
  BY <1>5 DEF PressStop, UserPresses, Waits, Settled, StopRecording, CreateSessions, Outdated
<1>6. CASE RecorderError \/ VideoConfigureFails
  BY <1>6 DEF RecorderError, VideoConfigureFails
<1>7. CASE VideoConfigured
  BY <1>7 DEF VideoConfigured, OnConfigured
<1>8. CASE PreviewConfigured
  BY <1>8 DEF PreviewConfigured, OnConfigured, OnConfiguredStale
<1>9. CASE SurfaceGone
  BY <1>9 DEF SurfaceGone, Waits, Settled, StopRecording, CreateSessions, Outdated
<1>10. CASE ChangeVideoSize
  BY <1>10 DEF ChangeVideoSize, Waits, Settled, Restart, StopRecording, CreateSessions, Outdated
<1>11. CASE ModuleLoaded
  BY <1>11 DEF ModuleLoaded, Restart, StopRecording, CreateSessions, Outdated
<1>12. CASE CameraGone
  BY <1>12 DEF CameraGone, CloseCamera, SessionOutdated, Outdated
<1>13. CASE UserLeaves
  BY <1>13 DEF UserLeaves, Waits, Settled, UnloadFragment, SwitchCamera
<1>14. CASE CameraOpens
  BY <1>14 DEF CameraOpens, SurfaceAvailable, OpenCamera, OnOpened
<1>15. CASE ModulesGone
  BY <1>15 DEF ModulesGone, NewFragment
<1>16. CASE UNCHANGED vars
  BY <1>16 DEF vars
<1>17. CASE RequestThrows
  BY <1>17 DEF RequestThrows, ClosedSessionThrows
<1> QED
  BY <1>1, <1>2, <1>3, <1>4, <1>5, <1>6, <1>7, <1>8, <1>9, <1>10, <1>11, <1>12,
     <1>13, <1>14, <1>15, <1>16, <1>17
  DEF Next, Press, Configured

\* In a sound world lock, device, session and recorder agree.
THEOREM ShownCorrect == Spec => []ShownInv
<1>1. Init => ShownInv
  BY DEF Init, HolderInit, ShownInv, ShownIsReal, LockIsMutex, PermitInv, NoOrphanedCamera
<1>2. TypeOK /\ ShownInv /\ [Next]_vars => ShownInv'
  <2> SUFFICES ASSUME TypeOK, ShownInv, [Next]_vars
               PROVE  ShownInv'
    OBVIOUS
  <2>1. CASE sound
    BY <2>1, ShownStep
  <2>2. CASE ~sound
    <3>1. sound' = sound
      BY DEF Next, vars
    <3> QED
      BY <2>2, <3>1 DEF ShownInv
  <2> QED
    BY <2>1, <2>2
<1> QED
  BY <1>1, <1>2, VideoTypeCorrect, PTL DEF Spec

\* In a sound world the button tells the truth, stopping never throws, and a crash
\* over a replaced session loses no recording that runs.
THEOREM ShownIsTrue == Spec => []ShownIsReal
<1>1. ShownInv => ShownIsReal
  BY DEF ShownInv, ShownIsReal
<1> QED
  BY <1>1, ShownCorrect, PTL

\* Every step of the module is one of Recording, or leaves what it shows and what
\* it writes alone.
LEMMA RecordingStep ==
  ASSUME TypeOK, ShownInv, [Next]_vars
  PROVE  [R!Next]_R!vars
<1> USE DEF TypeOK, HolderTypeOK, ShownInv, ShownIsReal, deviceVars, sessionVars,
            configVars, holderVars, recordVars, callbackVars, videoVars, Seen, R!vars
<1>1. sound' = sound
  BY DEF Next, vars
<1>2. CASE ~sound
  BY <1>1, <1>2
<1>3. CASE sound
  <2> USE <1>1, <1>3
  <2>1. CASE PressStart
    BY <2>1 DEF PressStart, UserPresses, Waits, Settled, R!Next, R!Start
  <2>2. CASE PressStartFails \/ PressStartLost
    BY <2>2 DEF PressStartFails, PressStartLost, UserPresses, Waits, Settled
  <2>3. CASE PressStartThrows \/ StopThrows \/ VideoConfiguredThrows
    BY <2>3 DEF PressStartThrows, UserPresses, Waits, Settled, StopThrows, Stoppable,
      VideoConfiguredThrows
  <2>4. CASE PressStop
    BY <2>4 DEF PressStop, UserPresses, StopRecording, R!Next, R!End
  <2>5. CASE VideoConfigured
    BY <2>5 DEF VideoConfigured, OnConfigured, R!Next, R!Write
  <2>6. CASE SurfaceGone \/ ChangeVideoSize \/ ModuleLoaded
    <3>1. StopRecording /\ ui = "idle" /\ ui' # "crashed"
      BY <2>6 DEF SurfaceGone, ChangeVideoSize, ModuleLoaded, Restart
    <3> QED
      BY <3>1 DEF StopRecording, R!Next, R!End
  <2>7. CASE ModulesGone
    BY <2>7 DEF ModulesGone, NewFragment
  <2>9. CASE RecorderError \/ VideoConfigureFails \/ PreviewConfigured
    BY <2>9 DEF RecorderError, VideoConfigureFails, PreviewConfigured, OnConfigured,
      OnConfiguredStale
  <2>10. CASE CameraGone \/ UserLeaves \/ CameraOpens
    BY <2>10 DEF CameraGone, CloseCamera, UserLeaves, UnloadFragment, SwitchCamera,
      CameraOpens, SurfaceAvailable, OpenCamera, OnOpened
  <2>12. CASE RequestThrows
    BY <2>12 DEF RequestThrows, ClosedSessionThrows, R!Next, R!End
  <2>11. CASE UNCHANGED vars
    BY <2>11 DEF vars
  <2> QED
    BY <2>1, <2>2, <2>3, <2>4, <2>5, <2>6, <2>7, <2>9, <2>10, <2>11, <2>12
    DEF Next, Press, Configured
<1> QED
  BY <1>2, <1>3

\* The module implements the safety part of Recording: nothing is written that is
\* not shown, before, while and until it is shown.
THEOREM RecordingIsShown == Spec => R!Init /\ [][R!Next]_R!vars
<1>1. Init => R!Init
  BY DEF Init, R!Init
<1>2. TypeOK /\ ShownInv /\ [Next]_vars => [R!Next]_R!vars
  BY RecordingStep
<1> QED
  BY <1>1, <1>2, VideoTypeCorrect, ShownCorrect, PTL DEF Spec
==============================================================================
