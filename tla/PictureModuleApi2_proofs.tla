------------------------ MODULE PictureModuleApi2_proofs ------------------------
(***************************************************************************)
(* Proofs about the Camera2 picture module: its types, that a patient      *)
(* user's captures are, for the camera holder, nothing but what            *)
(* CameraHolderApi2 describes, that a locked button has something going    *)
(* on, that a burst ends after its last image, and that a single capture   *)
(* is never at a dead end.                                                 *)
(***************************************************************************)
EXTENDS PictureModuleApi2, CameraHolderApi2_proofs, FiniteSetTheorems

\* What a step leaves of the module's flags.
LEMMA FlagStep ==
  ASSUME loaded \in BOOLEAN, isWorking \in BOOLEAN, mDngResult \in BOOLEAN,
         aeLock \in BOOLEAN, [PicNext]_picVars
  PROVE  /\ loaded' \in BOOLEAN /\ isWorking' \in BOOLEAN
         /\ mDngResult' \in BOOLEAN /\ aeLock' \in BOOLEAN
<1> USE DEF workVars, countVars, frameVars, captureVars
<1>1. CASE HolderStep
  <2>1. CASE ModuleLoaded \/ SessionReplaced \/ CameraGone
    BY <2>1, Zenon DEF ModuleLoaded, SessionReplaced, CameraGone, RequestGoes
  <2>2. CASE PreviewRuns \/ OtherHolderStep \/ CameraOpened
    BY <2>2, Zenon DEF PreviewRuns, OtherHolderStep, CameraOpened
  <2>3. CASE ModulesGone
    BY <2>3, Zenon DEF ModulesGone
  <2> QED
    BY <1>1, <2>1, <2>2, <2>3, Zenon DEF HolderStep
<1>2. CASE PostedRestart
  BY <1>2, Zenon DEF PostedRestart, RequestGoes
<1>3. CASE CaptureStep
  <2>1. CASE DoWork \/ Metered
    BY <2>1, Zenon DEF DoWork, Metered, AELocked, TakePicture, TakePictureMetered,
      captureStillPicture
  <2>2. CASE finishCapture \/ DoWorkThrows \/ MeteringBegins \/ MeteredThrows
    BY <2>2, Zenon DEF finishCapture, DoWorkThrows, MeteringBegins, MeteredThrows
  <2>3. CASE onCaptureCompleted \/ onImageAvailable
    BY <2>3, Zenon DEF onCaptureCompleted, onImageAvailable
  <2>4. CASE \E s \in Savers : Save(s)
    BY <2>4, Zenon DEF Save, SaverLoads, SaverCounts, SaverSaves, SaverEnds
  <2> QED
    BY <1>3, <2>1, <2>2, <2>3, <2>4, Zenon DEF CaptureStep
<1>4. CASE FrameStep \/ UserStep
  BY <1>4, Zenon DEF FrameStep, ListenerRepeats, FramesEnd, UserStep,
    SetParameterRepeating, SetBurst
<1>5. CASE UNCHANGED picVars
  BY <1>5, Zenon DEF picVars
<1> QED
  BY <1>1, <1>2, <1>3, <1>4, <1>5, Zenon DEF PicNext

\* Only the two callbacks are ever in flight.
LEMMA FlightStep ==
  ASSUME inFlight \subseteq {"preview", "ae"}, [PicNext]_picVars
  PROVE  inFlight' \subseteq {"preview", "ae"}
<1> USE DEF frameVars, captureVars
<1>1. CASE HolderStep
  BY <1>1 DEF HolderStep, ModuleLoaded, SessionReplaced, CameraOpened, CameraGone,
    PreviewRuns, OtherHolderStep, ModulesGone
<1>2. CASE PostedRestart
  BY <1>2 DEF PostedRestart
<1>3. CASE CaptureStep
  <2>1. CASE DoWork
    BY <2>1 DEF DoWork, TakePicture, TakePictureMetered
  <2>2. CASE Metered
    BY <2>2 DEF Metered, AELocked
  <2>3. CASE finishCapture
    BY <2>3 DEF finishCapture, PreviewRepeats
  <2>4. CASE \/ DoWorkThrows \/ MeteringBegins \/ MeteredThrows \/ onCaptureCompleted
             \/ onImageAvailable
    BY <2>4 DEF DoWorkThrows, MeteringBegins, MeteredThrows, onCaptureCompleted,
      onImageAvailable
  <2>5. CASE \E s \in Savers : Save(s)
    BY <2>5 DEF Save, SaverLoads, SaverCounts, SaverSaves, SaverEnds
  <2> QED
    BY <1>3, <2>1, <2>2, <2>3, <2>4, <2>5 DEF CaptureStep
<1>4. CASE FrameStep
  BY <1>4 DEF FrameStep, ListenerRepeats, FramesEnd
<1>5. CASE UserStep
  BY <1>5 DEF UserStep, SetParameterRepeating, PreviewRepeats, SetBurst
<1>6. CASE UNCHANGED picVars
  BY <1>6 DEF picVars
<1> QED
  BY <1>1, <1>2, <1>3, <1>4, <1>5, <1>6 DEF PicNext

\* Every variable of the module keeps its type.
THEOREM PicTypeCorrect == PicSpec => []PicTypeOK
<1> DEFINE FlagOK == /\ loaded \in BOOLEAN /\ isWorking \in BOOLEAN
                     /\ mDngResult \in BOOLEAN /\ aeLock \in BOOLEAN
           FramesOK == inFlight \subseteq {"preview", "ae"}
           DataOK == /\ mState \in {"precapture", "nonprecapture", "taken"}
                     /\ repeating \in {"none", "preview", "ae"}
                     /\ burst \in BurstValues
                     /\ imagecount \in Nat
                     /\ imagesDue \in Nat
                     /\ resultsDue \in Nat
                     /\ saver \in [Savers -> Saver]
                     /\ finishes \in Nat
                     /\ restarts \in Nat
<1>1. PicInit => FlagOK
  BY Zenon DEF PicInit
<1>2. FlagOK /\ [PicNext]_picVars => FlagOK'
  BY FlagStep, Zenon
<1>3. PicInit => DataOK
  BY PictureApi2Assumption DEF PicInit, Saver, IdleSaver
<1>4. DataOK /\ [PicNext]_picVars => DataOK'
  <2> USE PictureApi2Assumption DEF Saver, IdleSaver, workVars, countVars, dueVars,
        PreviewRepeats
  <2> SUFFICES ASSUME DataOK, [PicNext]_picVars
               PROVE  DataOK'
    OBVIOUS
  <2>1. CASE HolderStep
    <3>1. CASE CameraGone /\ UNCHANGED restarts
      BY <3>1 DEF CameraGone, RequestGoes
    <3>2. CASE (ModuleLoaded \/ SessionReplaced) /\ UNCHANGED restarts
      BY <3>2 DEF ModuleLoaded, SessionReplaced, RequestGoes
    <3>3. CASE (PreviewRuns \/ OtherHolderStep \/ CameraOpened) /\ UNCHANGED restarts
      BY <3>3 DEF PreviewRuns, OtherHolderStep, CameraOpened, captureVars
    <3>4. CASE ModulesGone
      BY <3>4 DEF ModulesGone
    <3> QED
      BY <2>1, <3>1, <3>2, <3>3, <3>4 DEF HolderStep
  <2>2. CASE PostedRestart
    BY <2>2 DEF PostedRestart, RequestGoes
  <2>3. CASE CaptureStep
    <3>1. CASE DoWork
      BY <3>1 DEF DoWork, TakePicture, TakePictureMetered, captureStillPicture
    <3>2. CASE Metered
      BY <3>2 DEF Metered, captureStillPicture
    <3>3. CASE finishCapture \/ DoWorkThrows \/ MeteringBegins \/ MeteredThrows
      BY <3>3 DEF finishCapture, DoWorkThrows, MeteringBegins, MeteredThrows, captureVars
    <3>4. CASE onCaptureCompleted \/ onImageAvailable
      BY <3>4 DEF onCaptureCompleted, onImageAvailable
    <3>5. CASE \E s \in Savers : Save(s)
      BY <3>5 DEF Save, SaverLoads, SaverCounts, SaverSaves, SaverEnds
    <3> QED
      BY <2>3, <3>1, <3>2, <3>3, <3>4, <3>5 DEF CaptureStep
  <2>4. CASE FrameStep \/ UserStep
    BY <2>4 DEF FrameStep, ListenerRepeats, FramesEnd, UserStep, SetParameterRepeating,
      SetBurst
  <2>5. CASE UNCHANGED picVars
    BY <2>5 DEF picVars, captureVars
  <2> QED
    BY <2>1, <2>2, <2>3, <2>4, <2>5 DEF PicNext
<1>5. PicInit => FramesOK
  BY DEF PicInit
<1>6. FramesOK /\ [PicNext]_picVars => FramesOK'
  BY FlightStep
<1>7. FlagOK /\ DataOK /\ FramesOK => PicTypeOK
  BY DEF PicTypeOK
<1> QED
  BY <1>1, <1>2, <1>3, <1>4, <1>5, <1>6, <1>7, PTL DEF PicSpec

\* Where a patient user's capture is going on the holder does nothing.
LEMMA HolderRests ==
  ASSUME Patient, HolderTypeOK, SoundInv, PatientInv, Capturing,
         HolderStep \/ PostedRestart
  PROVE  FALSE
<1> USE DEF PatientInv, SoundInv, SoundCamera, Patient
<1>1. /\ ui = "idle" /\ surfaceRdy /\ ~leaving /\ session = "live" /\ restarts = 0
      /\ posts = 0 /\ stale = 0 /\ ~fresh /\ device = "open" /\ opening = 0
  BY DEF HolderTypeOK
<1>2. ~Leaves
  BY DEF Leaves
<1>3. ~PostedRestart
  BY <1>1 DEF PostedRestart
<1>4. ~ModuleLoaded /\ ~PreviewRuns /\ ~ModulesGone /\ ~CameraOpened
  BY <1>1 DEF ModuleLoaded, PostedOpen, PreviewRuns, OnConfigured, ModulesGone,
    NewFragment, CameraOpened, OnOpened
<1>5. ~SessionReplaced
  BY <1>1, <1>2 DEF SessionReplaced, OnConfiguredStale
<1>6. ~CameraGone
  BY <1>1 DEF CameraGone, CloseCamera, OnDisconnected, OnError, CameraLost
<1>7. ~OtherHolderStep
  BY <1>1, <1>2 DEF OtherHolderStep, SurfaceAvailable, OpenCamera,
    OpenCameraThrows, ClosedSessionThrows
<1> QED
  BY <1>3, <1>4, <1>5, <1>6, <1>7 DEF HolderStep

\* What else the holder does leaves the module without a capture.
LEMMA HolderLeavesRest ==
  ASSUME Patient, HolderTypeOK, SoundInv, PicTypeOK, PatientInv,
         HolderStep \/ PostedRestart
  PROVE  /\ isWorking' = FALSE /\ mState' = "taken"
         /\ imagesDue' = 0 /\ resultsDue' = 0 /\ finishes' = 0
         /\ \A s \in Savers : saver'[s].pc = "idle"
<1>1. ~Capturing
  BY HolderRests
<1>2. /\ isWorking = FALSE /\ mState = "taken"
      /\ imagesDue = 0 /\ resultsDue = 0 /\ Saving = {} /\ finishes = 0
  BY <1>1 DEF Capturing, PicTypeOK, PatientInv
<1>3. \A s \in Savers : saver[s].pc = "idle"
  BY <1>2 DEF Saving
<1>4. /\ isWorking' = FALSE /\ mState' = "taken"
      /\ imagesDue' = 0 /\ resultsDue' = 0 /\ finishes' = 0
      /\ saver' = saver \/ saver' = [s \in Savers |-> IdleSaver]
  <2>1. CASE ModulesGone
    BY <2>1 DEF ModulesGone
  <2>2. CASE CameraGone
    BY <2>2, <1>2 DEF CameraGone, RequestGoes, workVars
  <2>3. CASE \/ ModuleLoaded \/ SessionReplaced \/ CameraOpened \/ PreviewRuns
             \/ OtherHolderStep \/ PostedRestart
    BY <2>3, <1>2 DEF ModuleLoaded, SessionReplaced, CameraOpened, PreviewRuns,
      OtherHolderStep, PostedRestart, RequestGoes, workVars, dueVars, captureVars
  <2> QED
    BY <2>1, <2>2, <2>3 DEF HolderStep
<1>5. \A s \in Savers : saver'[s].pc = "idle"
  BY <1>3, <1>4 DEF IdleSaver
<1> QED
  BY <1>4, <1>5

\* The holder's steps keep the invariant.
LEMMA HolderStepPatient ==
  ASSUME Patient, HolderTypeOK, SoundInv, PicTypeOK, PatientInv,
         HolderStep \/ PostedRestart
  PROVE  PatientInv'
<1>1. /\ isWorking' = FALSE /\ mState' = "taken"
      /\ imagesDue' = 0 /\ resultsDue' = 0 /\ finishes' = 0
  BY HolderLeavesRest, Zenon
<1>2. \A s \in Savers : saver'[s].pc = "idle"
  BY HolderLeavesRest, Zenon
<1>3. Saving' = {}
  BY <1>2 DEF Saving
<1>4. ~Capturing'
  BY <1>1, <1>3 DEF Capturing
<1>5. session' = "live" => posts' = 0
  <2> USE DEF PatientInv, HolderTypeOK
  <2>1. CASE CameraOpened
    BY <2>1 DEF CameraOpened, OnOpened, SoundInv, sessionVars
  <2>2. CASE ~CameraOpened
    BY <2>2 DEF HolderStep, ModuleLoaded, SessionReplaced, CameraGone, PreviewRuns,
      OtherHolderStep, ModulesGone, PostedRestart, PostedOpen, RestartPreview,
      ChangePictureSize, SurfaceDestroyed, OnConfiguredStale, CloseCamera,
      OnDisconnected, OnError, CameraLost, OnConfigured, NewFragment,
      SurfaceAvailable, UnloadFragment, SwitchCamera, OpenCamera,
      OpenCameraThrows, ClosedSessionThrows, sessionVars, SoundInv
  <2> QED
    BY <2>1, <2>2
<1> QED
  BY <1>1, <1>2, <1>4, <1>5 DEF PatientInv, WorkIsReal, ResultKept

\* The steps of a capture, other than those of a saving thread.
LEMMA LooperStepPatient ==
  ASSUME Patient, PicTypeOK, PatientInv,
         DoWork \/ DoWorkThrows \/ MeteringBegins \/ Metered \/ MeteredThrows
           \/ FrameStep \/ UserStep
           \/ onCaptureCompleted \/ onImageAvailable \/ finishCapture
  PROVE  PatientInv'
<1> USE DEF PatientInv, WorkIsReal, ResultKept, Capturing, Saving, holderVars,
            deviceVars, sessionVars, configVars, workVars, countVars, dueVars
<1>1. CASE DoWork
  <2>1. Ready
    BY <1>1 DEF DoWork, Patient
  <2>2. /\ ~isWorking /\ mState = "taken" /\ imagesDue = 0 /\ Saving = {}
        /\ finishes = 0 /\ session = "live" /\ restarts = 0
    BY <2>1 DEF Ready, PicTypeOK
  <2>3. /\ isWorking' = TRUE /\ saver' = saver /\ finishes' = 0 /\ restarts' = 0
        /\ ui' = ui /\ session' = session /\ posts' = posts
        /\ surfaceRdy' = surfaceRdy /\ leaving' = leaving
        /\ ui = "idle" /\ surfaceRdy /\ ~leaving
    BY <1>1, <2>2, Zenon DEF DoWork
  <2>4. \A s \in Savers : saver[s].pc = "idle"
    BY <2>2
  <2>5. CASE TakePicture
    <3>1. /\ imagesDue' = 0 + burst + 1 /\ repeating' = "none" /\ mState' = mState
          /\ burst \in Nat
      BY <2>2, <2>5, PictureApi2Assumption DEF TakePicture, captureStillPicture, PicTypeOK
    <3> QED
      BY <2>2, <2>3, <2>4, <3>1
  <2>6. CASE TakePictureMetered
    <3>1. imagesDue' = 0 /\ repeating' = "ae" /\ mState' = "precapture"
      BY <2>2, <2>6 DEF TakePictureMetered
    <3> QED
      BY <2>2, <2>3, <2>4, <3>1
  <2> QED
    BY <1>1, <2>5, <2>6 DEF DoWork
<1>2. CASE DoWorkThrows
  BY <1>2 DEF DoWorkThrows, Patient
<1>3. CASE MeteringBegins
  BY <1>3 DEF MeteringBegins
<1>4. CASE Metered
  <2>1. /\ isWorking /\ imagesDue = 0 /\ Saving = {} /\ finishes = 0
        /\ session = "live" /\ restarts = 0
    BY <1>4 DEF Metered
  <2>2. /\ isWorking' = isWorking /\ mState' = "taken" /\ saver' = saver /\ finishes' = 0 /\ restarts' = 0
        /\ ui' = ui /\ session' = session /\ posts' = posts
        /\ surfaceRdy' = surfaceRdy /\ leaving' = leaving
    BY <1>4, <2>1, Zenon DEF Metered
  <2>3. imagesDue' = 0 + burst + 1 /\ repeating' = "none" /\ burst \in Nat
    BY <1>4, <2>1, PictureApi2Assumption DEF Metered, captureStillPicture, PicTypeOK
  <2>4. \A s \in Savers : saver[s].pc = "idle"
    BY <2>1
  <2> QED
    BY <2>1, <2>2, <2>3, <2>4
<1>5. CASE UserStep
  <2>1. ~Capturing /\ mState = "taken"
    BY <1>5 DEF UserStep, SetParameterRepeating, SetBurst, Leaves, Patient
  <2> QED
    BY <1>5, <2>1 DEF UserStep, SetParameterRepeating, SetBurst
<1>6. CASE onCaptureCompleted
  BY <1>6 DEF onCaptureCompleted
<1>7. CASE onImageAvailable
  <2> PICK s \in Savers : /\ saver[s].pc = "idle"
                          /\ saver' = [saver EXCEPT ![s].pc = "waiting"]
    BY <1>7 DEF onImageAvailable
  <2>1. /\ saver'[s].pc = "waiting"
        /\ \A t \in Savers : t # s => saver'[t] = saver[t]
    BY DEF PicTypeOK, Saver
  <2>2. imagesDue > 0 /\ mState = "taken"
    BY <1>7 DEF onImageAvailable
  <2>3. /\ UNCHANGED <<holderVars, isWorking, mState, mDngResult, repeating>>
        /\ UNCHANGED <<finishes, restarts>>
    BY <1>7 DEF onImageAvailable
  <2>4. s \in Saving'
    BY <2>1
  <2> QED
    BY <2>1, <2>2, <2>3, <2>4
<1>8. CASE finishCapture
  BY <1>8 DEF finishCapture, PicTypeOK
<1>9. CASE MeteredThrows
  BY <1>9 DEF MeteredThrows
<1>10. CASE FrameStep
  BY <1>10 DEF FrameStep, ListenerRepeats, FramesEnd
<1> QED
  BY <1>1, <1>2, <1>3, <1>4, <1>5, <1>6, <1>7, <1>8, <1>9, <1>10

\* The steps of a saving thread.
LEMMA SaverStepPatient ==
  ASSUME Patient, PicTypeOK, PatientInv, NEW s \in Savers, Save(s)
  PROVE  PatientInv'
<1> USE DEF PatientInv, WorkIsReal, ResultKept, Capturing, Saving, holderVars,
            deviceVars, sessionVars, configVars, workVars, countVars, dueVars
<1>1. s \in Saving /\ mState = "taken"
  BY DEF Save, SaverLoads, SaverCounts, SaverSaves, SaverEnds
<1>2. \A t \in Savers : t # s => saver'[t] = saver[t]
  BY DEF Save, SaverLoads, SaverCounts, SaverSaves, SaverEnds, PicTypeOK
<1>3. /\ UNCHANGED <<holderVars, mState, mDngResult, repeating, imagesDue>>
      /\ UNCHANGED <<resultsDue, restarts>>
  BY DEF Save, SaverLoads, SaverCounts, SaverSaves, SaverEnds
<1>4. CASE SaverLoads(s)
  <2>1. saver'[s].pc = "loaded" /\ mDngResult /\ UNCHANGED <<isWorking, finishes>>
    BY <1>4 DEF SaverLoads, PicTypeOK
  <2> QED
    BY <1>1, <1>2, <1>3, <2>1
<1>5. CASE SaverCounts(s)
  <2>1. /\ saver[s].pc = "loaded" /\ saver'[s].pc = "saving"
        /\ UNCHANGED <<isWorking, finishes>>
    BY <1>5 DEF SaverCounts, PicTypeOK, Saver
  <2> QED
    BY <1>1, <1>2, <1>3, <2>1
<1>6. CASE SaverSaves(s)
  <2>1. saver'[s].pc = "saved" /\ isWorking' = FALSE /\ UNCHANGED finishes
    BY <1>6 DEF SaverSaves, PicTypeOK, Saver
  <2> QED
    BY <1>1, <1>2, <1>3, <2>1
<1>7. CASE SaverEnds(s)
  <2>1. saver[s].pc = "saved" /\ saver'[s].pc = "idle" /\ isWorking' = isWorking
    BY <1>7 DEF SaverEnds, PicTypeOK, IdleSaver
  <2>2. isWorking' = FALSE
    BY <2>1 DEF PicTypeOK
  <2> QED
    BY <1>1, <1>2, <1>3, <2>1, <2>2
<1> QED
  BY <1>4, <1>5, <1>6, <1>7 DEF Save

\* One step of a patient user's captures, of a looper that runs one callback after
\* the other.
LEMMA PatientStep ==
  ASSUME Patient, HolderTypeOK, SoundInv, PicTypeOK, PatientInv, [PicNext]_picVars
  PROVE  PatientInv'
<1>1. CASE HolderStep \/ PostedRestart
  BY <1>1, HolderStepPatient
<1>2. CASE CaptureStep \/ FrameStep \/ UserStep
  BY <1>2, LooperStepPatient, SaverStepPatient DEF CaptureStep
<1>3. CASE UNCHANGED picVars
  BY <1>3 DEF picVars, captureVars, holderVars, sessionVars, workVars, countVars,
    dueVars, PatientInv, WorkIsReal, ResultKept, Capturing, Saving
<1> QED
  BY <1>1, <1>2, <1>3 DEF PicNext

\* While a capture keeps its session, every step of the module leaves the holder
\* alone or is one of its steps: neither a press nor aecallback finds a session
\* that throws.
LEMMA HolderOrModule ==
  ASSUME Patient, PatientInv, [PicNext]_picVars
  PROVE  [HolderNext]_holderVars
<1>1. CASE HolderStep
  BY <1>1 DEF HolderStep, ModuleLoaded, SessionReplaced, CameraOpened, CameraGone,
    PreviewRuns, OtherHolderStep, ModulesGone, HolderNext, SemaphoreCalls, Callbacks,
    UserActs
<1>2. CASE PostedRestart
  BY <1>2 DEF PostedRestart, HolderNext, UserActs
<1>3. CASE CaptureStep
  <2>1. ~MeteredThrows /\ ~DoWorkThrows
    BY DEF MeteredThrows, DoWorkThrows, PatientInv, Capturing, Patient
  <2> QED
    BY <1>3, <2>1 DEF CaptureStep, DoWork, MeteringBegins, Metered, onCaptureCompleted,
      onImageAvailable, finishCapture, Save, SaverLoads, SaverCounts, SaverSaves,
      SaverEnds
<1>4. CASE FrameStep \/ UserStep
  BY <1>4 DEF FrameStep, ListenerRepeats, FramesEnd, UserStep, SetParameterRepeating,
    SetBurst
<1>5. CASE UNCHANGED picVars
  BY <1>5 DEF picVars
<1> QED
  BY <1>1, <1>2, <1>3, <1>4, <1>5 DEF PicNext

\* What holds together of a patient user's captures and of the holder under them:
\* the holder is left alone because a capture keeps its session, which it does
\* because the holder is left alone.
LEMMA PatientJointly == Patient => (PicSpec => [](HolderTypeOK /\ SoundInv /\ PatientInv))
<1> SUFFICES ASSUME Patient
             PROVE  PicSpec => [](HolderTypeOK /\ SoundInv /\ PatientInv)
  OBVIOUS
<1>1. PicInit => PatientInv
  BY DEF PicInit, HolderInit, PatientInv, WorkIsReal, ResultKept, Capturing, Saving,
    IdleSaver
<1>2. PicInit => HolderTypeOK /\ SoundInv
  <2>1. HolderInit => permits \in Nat /\ opening \in Nat /\ stale \in Nat /\ posts \in Nat
    BY DEF HolderInit
  <2>2. HolderInit => HolderTypeOK
    BY <2>1, Zenon DEF HolderInit, HolderTypeOK
  <2>3. HolderInit => SoundInv
    BY DEF HolderInit, SoundInv, PermitInv, NoOrphanedCamera, LockIsMutex
  <2> QED
    BY <2>2, <2>3 DEF PicInit
<1>3. HolderTypeOK /\ SoundInv /\ PicTypeOK /\ PatientInv /\ [PicNext]_picVars
      => HolderTypeOK' /\ SoundInv' /\ PatientInv'
  <2> SUFFICES ASSUME HolderTypeOK, SoundInv, PicTypeOK, PatientInv, [PicNext]_picVars
               PROVE  HolderTypeOK' /\ SoundInv' /\ PatientInv'
    OBVIOUS
  <2>1. [HolderNext]_holderVars
    BY HolderOrModule
  <2>2. SoundCamera
    BY DEF Patient
  <2>3. HolderTypeOK' /\ SoundInv'
    BY <2>1, <2>2, HolderTypeStep, SoundStep
  <2> QED
    BY <2>3, PatientStep
<1> QED
  BY <1>1, <1>2, <1>3, PicTypeCorrect, PTL DEF PicSpec

\* With a user who waits for the preview and a sound camera, what is proved of the
\* camera holder holds of the holder under the picture module.
THEOREM ModuleKeepsHolder == Patient => (PicSpec => HolderSpec)
<1> SUFFICES ASSUME Patient
             PROVE  PicSpec => HolderSpec
  OBVIOUS
<1>1. PicInit => HolderInit
  BY DEF PicInit
<1>2. PatientInv /\ [PicNext]_picVars => [HolderNext]_holderVars
  BY HolderOrModule
<1> QED
  BY <1>1, <1>2, PatientJointly, PTL DEF PicSpec, HolderSpec

\* The inductive invariant of a patient user's captures.
THEOREM PatientCorrect == Patient => (PicSpec => []PatientInv)
<1> QED
  BY PatientJointly, PTL

\* While a patient user's button is locked, an image is to come or is being saved,
\* or metering goes on, if only behind the back of the AF listener.
THEOREM PatientWork == Patient => (PicSpec => []WorkIsReal)
<1>1. PatientInv => WorkIsReal
  BY DEF PatientInv
<1> QED
  BY <1>1, PatientCorrect, PTL

\* A patient user's images are written with the result of their capture.
THEOREM PatientResult == Patient => (PicSpec => []ResultKept)
<1>1. PatientInv => ResultKept
  BY DEF PatientInv
<1> QED
  BY <1>1, PatientCorrect, PTL
------------------------------------------------------------------------------
\* The number of saving threads that still have to count is one of a finite set.
LEMMA UncountedType == Cardinality(Uncounted) \in Nat /\ IsFiniteSet(Uncounted)
<1>1. Uncounted \in SUBSET Savers /\ IsFiniteSet(Savers)
  BY PictureApi2Assumption DEF Uncounted
<1>2. IsFiniteSet(Uncounted)
  BY <1>1, FS_Subset, Zenon
<1> QED
  BY <1>2, FS_CardinalityType, Zenon

\* A module without a capture has nothing to count.
LEMMA NothingToCount ==
  ASSUME imagesDue' = 0, finishes' = 0, \A s \in Savers : saver'[s].pc = "idle"
  PROVE  CountInv'
<1>1. Uncounted' = {}
  BY DEF Uncounted
<1> QED
  BY <1>1 DEF CountInv

\* A capture begins: all of its images are to come, and none is counted.
LEMMA CaptureCounts ==
  ASSUME PicTypeOK, session = "live", captureStillPicture, UNCHANGED <<burst, saver, finishes>>,
         imagesDue = 0, finishes = 0, \A s \in Savers : saver[s].pc = "idle"
  PROVE  CountInv'
<1>1. /\ imagecount' = 0 /\ imagesDue' = 0 + burst + 1
      /\ \A s \in Savers : saver'[s].pc = "idle"
  BY DEF captureStillPicture
<1>2. Uncounted' = {} /\ burst \in Nat
  BY <1>1, PictureApi2Assumption DEF Uncounted, PicTypeOK
<1>3. Cardinality(Uncounted') = 0
  BY <1>2, FS_EmptySet
<1>4. RoomAfter(imagecount)'
  BY <1>1, <1>2, <1>3 DEF RoomAfter
<1> QED
  BY <1>1, <1>2, <1>4 DEF CountInv

\* A step that touches neither the images nor the saving threads.
LEMMA CountRests ==
  ASSUME CountInv, UNCHANGED <<burst, imagecount, imagesDue, saver>>,
         finishes' > 0 => finishes > 0
  PROVE  CountInv'
<1>1. Uncounted' = Uncounted
  BY DEF Uncounted
<1>2. Cardinality(Uncounted)' = Cardinality(Uncounted)
  BY <1>1
<1> QED
  BY <1>1, <1>2 DEF CountInv, RoomAfter

\* An image that comes is one less to come and one more to count.
LEMMA ImageCounts ==
  ASSUME PicTypeOK, CountInv, onImageAvailable
  PROVE  CountInv'
<1>1. PICK s \in Savers : /\ saver[s].pc = "idle"
                          /\ saver' = [saver EXCEPT ![s].pc = "waiting"]
  BY DEF onImageAvailable
<1>2. saver'[s].pc = "waiting" /\ \A t \in Savers : t # s => saver'[t] = saver[t]
  BY <1>1 DEF PicTypeOK, Saver
<1>3. Uncounted' = Uncounted \cup {s} /\ s \notin Uncounted
  BY <1>1, <1>2 DEF Uncounted
<1>4. Cardinality(Uncounted \cup {s}) = Cardinality(Uncounted) + 1
  BY <1>3, UncountedType, FS_AddElement, Zenon
<1>5. /\ imagesDue > 0 /\ imagesDue' = imagesDue - 1
      /\ UNCHANGED <<burst, imagecount, finishes>>
  BY DEF onImageAvailable, workVars, countVars
<1>6. /\ imagesDue \in Nat /\ burst \in Nat /\ imagecount \in Nat
      /\ \A t \in Savers : saver[t].val \in Nat
  BY PictureApi2Assumption DEF PicTypeOK, Saver
<1>7. imagesDue' + Cardinality(Uncounted') = imagesDue + Cardinality(Uncounted)
  BY <1>3, <1>4, <1>5, <1>6, UncountedType
<1>8. finishes' = 0
  BY <1>5 DEF CountInv, PicTypeOK
<1>9. Cardinality(Uncounted') \in Nat
  BY <1>3, <1>4, UncountedType
<1>10. ASSUME NEW v \in Nat, RoomAfter(v)
       PROVE  v + imagesDue' + Cardinality(Uncounted') <= burst' + 1
  BY <1>5, <1>6, <1>7, <1>9, <1>10, UncountedType DEF RoomAfter
<1>11. RoomAfter(imagecount)'
  <2>1. RoomAfter(imagecount)
    BY <1>5 DEF CountInv
  <2> QED
    BY <1>5, <1>6, <1>10, <2>1 DEF RoomAfter
<1>12. ASSUME NEW t \in Savers, t # s, saver[t].pc = "loaded"
       PROVE  RoomAfter(saver[t].val)'
  <2>1. RoomAfter(saver[t].val)
    BY <1>12 DEF CountInv
  <2>2. saver'[t] = saver[t]
    BY <1>2, <1>12
  <2> QED
    BY <1>6, <1>10, <2>1, <2>2 DEF RoomAfter
<1> QED
  BY <1>2, <1>5, <1>8, <1>11, <1>12 DEF CountInv

\* However the saving threads load and store, the count leaves room for the images
\* that are still to be counted.
LEMMA SaverCountsRoom ==
  ASSUME PicTypeOK, CountInv, NEW s \in Savers, Save(s)
  PROVE  CountInv'
<1>1. /\ imagesDue \in Nat /\ burst \in Nat /\ imagecount \in Nat /\ finishes \in Nat
      /\ \A t \in Savers : saver[t].val \in Nat
      /\ saver \in [Savers -> Saver]
  BY PictureApi2Assumption DEF PicTypeOK, Saver
<1>2. UNCHANGED <<imagesDue, burst>>
  BY DEF Save, SaverLoads, SaverCounts, SaverSaves, SaverEnds, dueVars
<1>3. \A t \in Savers : t # s => saver'[t] = saver[t]
  BY <1>1 DEF Save, SaverLoads, SaverCounts, SaverSaves, SaverEnds
<1>4. CASE SaverLoads(s)
  <2>1. /\ saver[s].pc = "waiting"
        /\ saver'[s] = [pc |-> "loaded", total |-> burst + 1, val |-> imagecount]
        /\ UNCHANGED <<imagecount, finishes>>
    BY <1>1, <1>4 DEF SaverLoads, workVars, countVars
  <2>2. Uncounted' = Uncounted /\ s \in Uncounted
    BY <1>3, <2>1 DEF Uncounted
  <2> QED
    BY <1>2, <1>3, <2>1, <2>2 DEF CountInv, RoomAfter
<1>5. CASE SaverCounts(s)
  <2>1. /\ saver[s].pc = "loaded" /\ saver'[s].pc = "saving"
        /\ saver'[s].total = saver[s].total /\ finishes' = finishes
    BY <1>1, <1>5 DEF SaverCounts, Saver
  <2>2. imagecount' \in Nat /\ imagecount' <= saver[s].val + 1
    BY <1>1, <1>5, PictureApi2Assumption DEF SaverCounts
  <2>3. Uncounted' = Uncounted \ {s} /\ s \in Uncounted
    BY <1>3, <2>1 DEF Uncounted
  <2>4. Cardinality(Uncounted \ {s}) = Cardinality(Uncounted) - 1
    BY <2>3, UncountedType, FS_RemoveElement, Zenon
  <2>5. Cardinality(Uncounted') = Cardinality(Uncounted) - 1
    BY <2>3, <2>4
  <2>6. RoomAfter(saver[s].val) /\ saver[s].total = burst + 1
    BY <2>1 DEF CountInv
  <2>7. RoomAfter(imagecount)'
    BY <1>1, <1>2, <2>2, <2>5, <2>6, UncountedType DEF RoomAfter
  <2>8. ASSUME NEW t \in Savers, t # s, saver[t].pc = "loaded"
        PROVE  RoomAfter(saver[t].val)'
    BY <1>1, <1>2, <1>3, <2>5, <2>8, UncountedType DEF CountInv, RoomAfter
  <2>9. finishes' = 0
    BY <1>1, <2>1, <2>3 DEF CountInv
  <2> QED
    BY <1>2, <1>3, <2>1, <2>6, <2>7, <2>8, <2>9 DEF CountInv
<1>6. CASE SaverSaves(s)
  <2>1. /\ saver[s].pc = "saving" /\ saver'[s].pc = "saved"
        /\ saver'[s].total = saver[s].total
        /\ UNCHANGED <<imagecount, finishes>>
    BY <1>1, <1>6 DEF SaverSaves, Saver, countVars
  <2>2. Uncounted' = Uncounted
    BY <1>3, <2>1 DEF Uncounted
  <2> QED
    BY <1>2, <1>3, <2>1, <2>2 DEF CountInv, RoomAfter
<1>7. CASE SaverEnds(s)
  <2>1. /\ saver[s].pc = "saved" /\ saver'[s].pc = "idle" /\ imagecount' = imagecount
        /\ finishes' = IF saver[s].total = imagecount THEN finishes + 1 ELSE finishes
    BY <1>1, <1>7 DEF SaverEnds, IdleSaver, workVars, countVars
  <2>2. Uncounted' = Uncounted
    BY <1>3, <2>1 DEF Uncounted
  <2>3. ASSUME imagecount = burst + 1
        PROVE  imagesDue = 0 /\ Uncounted = {}
    <3>1. ~RoomAfter(imagecount) \/ (imagesDue = 0 /\ Cardinality(Uncounted) = 0)
      BY <1>1, <2>3, UncountedType DEF RoomAfter
    <3>2. Cardinality(Uncounted) = 0 => Uncounted = {}
      BY UncountedType, FS_EmptySet, Zenon
    <3> QED
      BY <1>1, <3>1, <3>2 DEF CountInv
  <2>4. saver[s].total = burst + 1
    BY <2>1 DEF CountInv
  <2>5. finishes' > 0 => imagesDue = 0 /\ Uncounted = {}
    BY <2>1, <2>3, <2>4 DEF CountInv
  <2> QED
    BY <1>2, <1>3, <2>1, <2>2, <2>5 DEF CountInv, RoomAfter
<1> QED
  BY <1>4, <1>5, <1>6, <1>7 DEF Save

\* One step of a patient user's captures.
LEMMA CountStep ==
  ASSUME Patient, HolderTypeOK, SoundInv, PicTypeOK, PatientInv, CountInv,
         [PicNext]_picVars
  PROVE  CountInv'
<1> USE DEF workVars, countVars, dueVars
<1>1. CASE HolderStep \/ PostedRestart
  BY <1>1, HolderLeavesRest, NothingToCount, Zenon
<1>2. CASE DoWork
  <2>1. Ready
    BY <1>2 DEF DoWork, Patient
  <2>2. session = "live" /\ imagesDue = 0 /\ finishes = 0 /\ Saving = {}
    BY <2>1 DEF Ready, Capturing, PicTypeOK
  <2>3. \A s \in Savers : saver[s].pc = "idle"
    BY <2>2 DEF Saving
  <2>4. UNCHANGED <<burst, saver, finishes>>
    BY <1>2 DEF DoWork
  <2>5. CASE TakePicture
    BY <2>2, <2>3, <2>4, <2>5, CaptureCounts, Zenon DEF TakePicture
  <2>6. CASE TakePictureMetered
    <3>1. imagesDue' = 0 /\ finishes' = 0 /\ \A s \in Savers : saver'[s].pc = "idle"
      BY <2>2, <2>3, <2>4, <2>6 DEF TakePictureMetered
    <3> QED
      BY <3>1, NothingToCount, Zenon
  <2> QED
    BY <1>2, <2>5, <2>6 DEF DoWork
<1>3. CASE Metered
  <2>1. session = "live" /\ imagesDue = 0 /\ finishes = 0 /\ Saving = {}
    BY <1>3 DEF Metered, PatientInv, Capturing
  <2>2. \A s \in Savers : saver[s].pc = "idle"
    BY <2>1 DEF Saving
  <2>3. captureStillPicture /\ UNCHANGED <<burst, saver, finishes>>
    BY <1>3 DEF Metered
  <2> QED
    BY <2>1, <2>2, <2>3, CaptureCounts, Zenon
<1>4. CASE DoWorkThrows \/ MeteredThrows \/ MeteringBegins \/ onCaptureCompleted
  BY <1>4, CountRests DEF DoWorkThrows, MeteredThrows, MeteringBegins,
    onCaptureCompleted, captureVars
<1>5. CASE onImageAvailable
  BY <1>5, ImageCounts
<1>6. CASE finishCapture
  <2>1. finishes > 0 /\ UNCHANGED <<burst, imagecount, imagesDue, saver>>
    BY <1>6 DEF finishCapture
  <2> QED
    BY <2>1, CountRests, Zenon
<1>7. CASE \E s \in Savers : Save(s)
  BY <1>7, SaverCountsRoom
<1>8. CASE FrameStep \/ SetParameterRepeating
  BY <1>8, CountRests DEF FrameStep, ListenerRepeats, FramesEnd, SetParameterRepeating
<1>9. CASE SetBurst
  \* The user sets the burst of the next capture, once this one is over.
  <2>1. imagesDue = 0 /\ finishes = 0 /\ Saving = {}
    BY <1>9 DEF SetBurst, Leaves, Patient, Capturing, PicTypeOK
  <2>2. imagesDue' = 0 /\ finishes' = 0 /\ \A s \in Savers : saver'[s].pc = "idle"
    BY <1>9, <2>1 DEF SetBurst, Saving
  <2> QED
    BY <2>2, NothingToCount, Zenon
<1>10. CASE UNCHANGED picVars
  BY <1>10, CountRests DEF picVars, captureVars
<1> QED
  BY <1>1, <1>2, <1>3, <1>4, <1>5, <1>6, <1>7, <1>8, <1>9, <1>10, Zenon
  DEF PicNext, CaptureStep, UserStep

\* A patient user's burst, of any length, is not finished before its last image has
\* come, whichever increments its saving threads lose.
THEOREM FinishCorrect == Patient => (PicSpec => []FinishMeansDelivered)
<1> SUFFICES ASSUME Patient
             PROVE  PicSpec => []FinishMeansDelivered
  OBVIOUS
<1>1. PicInit => CountInv
  BY DEF PicInit, CountInv, Uncounted, IdleSaver
<1>2. HolderTypeOK /\ SoundInv /\ PicTypeOK /\ PatientInv /\ CountInv /\ [PicNext]_picVars
      => CountInv'
  BY CountStep, Zenon
<1>3. CountInv => FinishMeansDelivered
  BY DEF CountInv, FinishMeansDelivered
<1> QED
  BY <1>1, <1>2, <1>3, PicTypeCorrect, PatientJointly, PTL DEF PicSpec
------------------------------------------------------------------------------
\* A step that touches neither burst, count, images nor saving threads, and stops
\* no preview.
LEMMA SingleRests ==
  ASSUME SingleInv, UNCHANGED <<burst, imagecount, imagesDue, saver>>,
         session' = "live" => session = "live",
         repeating' = "none" => repeating = "none",
         finishes > 0 => finishes' > 0 \/ repeating' # "none" \/ session' # "live",
         restarts > 0 => restarts' > 0
  PROVE  SingleInv'
  BY DEF SingleInv, SingleIsDriven, Saving

\* Where no image is being saved, a module that has not stopped the preview of its
\* session, or will replace that session, is not at a dead end.
LEMMA SingleIdle ==
  ASSUME \A s \in Savers : saver'[s].pc = "idle",
         \/ session' # "live" \/ repeating' # "none" \/ burst' # 0
         \/ imagesDue' > 0 \/ restarts' > 0
  PROVE  SingleInv'
  BY DEF SingleInv, SingleIsDriven

\* The holder leaves or takes the session together with what repeats on it.
LEMMA SingleHolder ==
  ASSUME Patient, HolderTypeOK, SoundInv, PicTypeOK, PatientInv, SingleInv,
         HolderStep \/ PostedRestart
  PROVE  SingleInv'
<1>1. \A s \in Savers : saver'[s].pc = "idle"
  BY HolderLeavesRest, Zenon
<1>2. ~Capturing
  BY HolderRests
<1>3. \/ session' # "live" \/ repeating' # "none"
      \/ UNCHANGED <<session, repeating, burst, restarts>>
  <2> USE DEF sessionVars, captureVars
  <2>1. CASE ModuleLoaded \/ PostedRestart
    BY <2>1 DEF ModuleLoaded, PostedRestart, PostedOpen, ChangePictureSize, RestartPreview
  <2>2. CASE SessionReplaced /\ UNCHANGED restarts
    <3>1. session' # "live" \/ session' = session
      BY <2>2 DEF SessionReplaced, ChangePictureSize, RestartPreview, SurfaceDestroyed,
        OnConfiguredStale
    <3> QED BY <2>2, <3>1 DEF SessionReplaced, RequestGoes
  <2>3. CASE CameraGone
    BY <2>3 DEF CameraGone, CloseCamera, OnDisconnected, OnError, CameraLost, Patient,
      SoundCamera
  <2>4. CASE PreviewRuns
    BY <2>4 DEF PreviewRuns
  <2>5. CASE (OtherHolderStep \/ CameraOpened) /\ UNCHANGED restarts
    BY <2>5 DEF OtherHolderStep, SurfaceAvailable, UnloadFragment, SwitchCamera,
      OpenCamera, OpenCameraThrows, CameraOpened, OnOpened, ClosedSessionThrows
  <2>6. CASE ModulesGone
    BY <2>6 DEF ModulesGone, NewFragment
  <2> QED BY <2>1, <2>2, <2>3, <2>4, <2>5, <2>6 DEF HolderStep
<1>4. CASE UNCHANGED <<session, repeating, burst, restarts>>
  BY <1>1, <1>2, <1>4, SingleIdle DEF SingleInv, SingleIsDriven, Capturing
<1> QED BY <1>1, <1>3, <1>4, SingleIdle

\* The thread that saves a single image counts it, finds the count and posts the
\* finish.
LEMMA SingleSaver ==
  ASSUME PicTypeOK, CountInv, SingleInv, NEW s \in Savers, Save(s)
  PROVE  SingleInv'
<1> USE DEF SingleInv, SingleIsDriven, Saving
<1>1. /\ imagesDue \in Nat /\ imagecount \in Nat /\ finishes \in Nat
      /\ saver \in [Savers -> Saver]
      /\ \A t \in Savers : saver[t].val \in Nat
  BY DEF PicTypeOK, Saver
<1>2. UNCHANGED <<session, repeating, burst, imagesDue, restarts>>
  BY DEF Save, SaverLoads, SaverCounts, SaverSaves, SaverEnds, dueVars, holderVars,
    sessionVars
<1>3. \A t \in Savers : t # s => saver'[t] = saver[t]
  BY <1>1 DEF Save, SaverLoads, SaverCounts, SaverSaves, SaverEnds
<1>4. CASE SaverLoads(s)
  <2>1. saver'[s].pc = "loaded" /\ UNCHANGED imagecount
    BY <1>1, <1>4 DEF SaverLoads, workVars, countVars
  <2> QED BY <1>2, <1>3, <2>1
<1>5. CASE SaverCounts(s)
  <2>1. /\ saver[s].pc = "loaded" /\ saver'[s].pc = "saving"
        /\ imagecount' = IF saver[s].val > MaxDue THEN saver[s].val ELSE saver[s].val + 1
    BY <1>1, <1>5 DEF SaverCounts, Saver
  <2>2. ASSUME burst = 0 PROVE imagecount' = 1
    <3>1. Cardinality(Uncounted) \in Nat \ {0}
      <4>1. s \in Uncounted
        BY <2>1 DEF Uncounted
      <4> QED BY <4>1, UncountedType, FS_EmptySet
    <3>2. RoomAfter(saver[s].val)
      BY <2>1 DEF CountInv
    <3>3. saver[s].val = 0
      BY <1>1, <2>2, <3>1, <3>2 DEF RoomAfter
    <3> QED BY <2>1, <3>3, PictureApi2Assumption
  <2>3. s \in Saving'
    BY <2>1
  <2> QED BY <1>2, <1>3, <2>2, <2>3
<1>6. CASE SaverSaves(s)
  <2>1. saver[s].pc = "saving" /\ saver'[s].pc = "saved" /\ UNCHANGED imagecount
    BY <1>1, <1>6 DEF SaverSaves, Saver, countVars
  <2> QED BY <1>2, <1>3, <2>1
<1>7. CASE SaverEnds(s)
  <2>1. /\ saver[s].pc = "saved" /\ saver'[s].pc = "idle" /\ UNCHANGED imagecount
        /\ finishes' = IF saver[s].total = imagecount THEN finishes + 1 ELSE finishes
    BY <1>1, <1>7 DEF SaverEnds, IdleSaver, workVars, countVars
  <2>2. burst = 0 => imagecount = 1 /\ saver[s].total = 1
    BY <2>1 DEF CountInv
  <2>3. burst = 0 => finishes' > 0
    BY <1>1, <2>1, <2>2
  <2> QED BY <1>2, <1>3, <2>1, <2>3
<1> QED BY <1>4, <1>5, <1>6, <1>7 DEF Save

\* One step of a patient user's single captures.
LEMMA SingleStep ==
  ASSUME Patient, HolderTypeOK, SoundInv, PicTypeOK, PatientInv, CountInv, SingleInv,
         [PicNext]_picVars
  PROVE  SingleInv'
<1> USE DEF holderVars, sessionVars, workVars, countVars, dueVars
<1>1. CASE HolderStep \/ PostedRestart
  BY <1>1, SingleHolder
<1>2. CASE DoWork
  <2>1. \A s \in Savers : saver'[s].pc = "idle"
    BY <1>2 DEF DoWork, Patient, Ready, Capturing, Saving
  <2>2. session = "live" /\ imagesDue \in Nat /\ burst \in Nat
    BY <1>2, PictureApi2Assumption DEF DoWork, Patient, Ready, PicTypeOK
  <2>3. imagesDue' > 0 \/ repeating' # "none"
    BY <1>2, <2>2 DEF DoWork, TakePicture, TakePictureMetered, captureStillPicture
  <2> QED BY <2>1, <2>3, SingleIdle
<1>3. CASE Metered
  <2>1. \A s \in Savers : saver'[s].pc = "idle"
    BY <1>3 DEF Metered, PatientInv, Saving
  <2>2. session = "live" /\ imagesDue \in Nat /\ burst \in Nat
    BY <1>3, PictureApi2Assumption DEF Metered, PatientInv, Capturing, PicTypeOK
  <2>3. imagesDue' > 0
    BY <1>3, <2>2 DEF Metered, captureStillPicture
  <2> QED BY <2>1, <2>3, SingleIdle
<1>4. CASE DoWorkThrows \/ MeteredThrows \/ MeteringBegins \/ onCaptureCompleted
  BY <1>4, SingleRests DEF DoWorkThrows, MeteredThrows, MeteringBegins,
    onCaptureCompleted, captureVars
<1>5. CASE onImageAvailable
  <2> PICK s \in Savers : saver' = [saver EXCEPT ![s].pc = "waiting"]
    BY <1>5 DEF onImageAvailable
  <2>1. /\ saver'[s].pc = "waiting"
        /\ \A t \in Savers : t # s => saver'[t] = saver[t]
    BY DEF PicTypeOK, Saver
  <2>2. UNCHANGED <<burst, imagecount>>
    BY <1>5 DEF onImageAvailable
  <2> QED BY <2>1, <2>2 DEF SingleInv, SingleIsDriven, Saving
<1>6. CASE finishCapture
  <2>1. session = "live"
    BY <1>6 DEF finishCapture, PatientInv, Capturing
  <2>2. repeating' = "preview" /\ UNCHANGED <<burst, imagecount, imagesDue, saver, restarts>>
    BY <1>6, <2>1 DEF finishCapture, PreviewRepeats
  <2> QED BY <2>1, <2>2, SingleRests
<1>7. CASE \E s \in Savers : Save(s)
  BY <1>7, SingleSaver
<1>8. CASE FrameStep \/ SetParameterRepeating
  BY <1>8, SingleRests DEF FrameStep, ListenerRepeats, FramesEnd, SetParameterRepeating,
    PreviewRepeats
<1>9. CASE SetBurst
  <2>1. \A s \in Savers : saver'[s].pc = "idle"
    BY <1>9 DEF SetBurst, Leaves, Patient, Capturing, Saving
  <2>2. restarts' > 0
    BY <1>9 DEF SetBurst
  <2> QED BY <2>1, <2>2, SingleIdle
<1>10. CASE UNCHANGED picVars
  BY <1>10, SingleRests DEF picVars, captureVars
<1> QED
  BY <1>1, <1>2, <1>3, <1>4, <1>5, <1>6, <1>7, <1>8, <1>9, <1>10, Zenon
  DEF PicNext, CaptureStep, UserStep

\* A patient user's single capture, from the press to the restarted preview, never
\* comes to a dead end: as long as the preview of a live session is stopped, an
\* image is to come, is being saved, or is about to be finished.
THEOREM SingleComesBack == Patient => (PicSpec => []SingleIsDriven)
<1> SUFFICES ASSUME Patient
             PROVE  PicSpec => []SingleIsDriven
  OBVIOUS
<1>1. PicInit => CountInv /\ SingleInv
  BY DEF PicInit, HolderInit, CountInv, Uncounted, SingleInv, SingleIsDriven, IdleSaver
<1>2. /\ HolderTypeOK /\ SoundInv /\ PicTypeOK /\ PatientInv /\ CountInv /\ SingleInv
      /\ [PicNext]_picVars
      => CountInv' /\ SingleInv'
  BY CountStep, SingleStep, Zenon
<1>3. SingleInv => SingleIsDriven
  BY DEF SingleInv
<1> QED
  BY <1>1, <1>2, <1>3, PicTypeCorrect, PatientJointly, PTL DEF PicSpec
==============================================================================
