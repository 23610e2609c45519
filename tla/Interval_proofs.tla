--------------------------- MODULE Interval_proofs ---------------------------
(***************************************************************************)
(* Proofs about the interval module, for every burst, interval, bound and  *)
(* set of saving threads.                                                  *)
(*                                                                         *)
(* The first part holds whatever the user and the camera do.  The second   *)
(* needs a Calm system (single pictures, a camera that works and stays     *)
(* open, no reload of the picture module during the series) and shows that *)
(* such a series keeps what the module Series promises.                    *)
(***************************************************************************)
EXTENDS Interval, TLAPS

\* The variables have their types in every reachable state.
THEOREM TypeCorrect == Spec => []TypeOK
<1> USE PictureAssumption, IntervalAssumption
<1>1. Init => TypeOK
  <2> SUFFICES ASSUME Init PROVE TypeOK
    OBVIOUS
  <2> USE DEF Init, PicInit
  <2>1. saver \in [Savers -> Saver]
    BY DEF Saver, IdleSaver
  <2>2. /\ burstcount \in Nat /\ owed \in Nat /\ duration \in Nat
        /\ delayCounter \in Nat /\ shuttercounter \in Nat /\ runners \in Nat
    OBVIOUS
  <2>3. QED
    BY <2>1, <2>2, Zenon DEF TypeOK, PicTypeOK, CaptureStates
<1>2. TypeOK /\ [Next]_vars => TypeOK'
  <2> SUFFICES ASSUME TypeOK, [Next]_vars
               PROVE  TypeOK'
    OBVIOUS
  <2> USE DEF TypeOK, PicTypeOK, CaptureStates
  <2>a. ASSUME DoWork
        PROVE  /\ isWorking' \in BOOLEAN /\ waitForPicture' \in BOOLEAN
               /\ burstcount' \in Nat /\ cameraOpen' \in BOOLEAN
               /\ preview' \in BOOLEAN /\ owed' \in Nat
    <3>1. owed + burst \in Nat /\ 0 \in Nat
      OBVIOUS
    <3>2. QED
      BY <2>a, <3>1, Zenon DEF DoWork, TakePicture, moduleVars, cameraVars
  <2>b. ASSUME PictureStops
        PROVE  /\ seriesOn' \in BOOLEAN /\ workState' \in CaptureStates
               /\ working' \in BOOLEAN /\ duration' \in Nat
               /\ late' \in BOOLEAN /\ delayCounter' \in Nat
               /\ shuttercounter' \in Nat /\ runners' \in Nat
    <3>1. runners + 1 \in Nat /\ 0 \in Nat
      OBVIOUS
    <3>2. QED
      BY <2>b, <3>1, Zenon
      DEF PictureStops, SeriesHearsStop, DoNextInterval, seriesVars, timerVars
  <2>c. ASSUME SpawnSaver
        PROVE  saver' \in [Savers -> Saver]
    BY <2>c DEF SpawnSaver, Saver
  <2>d. ASSUME NEW m \in Modules, LoadModule(m)
        PROVE  /\ picListener' \in {"interval", "handler", "none"}
               /\ isWorking' \in BOOLEAN /\ waitForPicture' \in BOOLEAN
               /\ burstcount' \in Nat
    BY <2>d DEF LoadModule, InitModule, moduleVars
  <2>1. CASE StartSeries
    BY <2>1, <2>a DEF StartSeries
  <2>2. CASE StopSeries
    BY <2>2 DEF StopSeries, CancelInterval, picVars, moduleVars, cameraVars
  <2>3. CASE PressPicture
    BY <2>3, <2>a DEF PressPicture, seriesVars, timerVars
  <2>4. CASE RunnerWaits
    BY <2>4 DEF RunnerWaits, picVars, moduleVars, cameraVars
  <2>5. CASE RunnerShoots
    BY <2>5, <2>a DEF RunnerShoots
  <2>6. CASE TimePasses
    BY <2>6 DEF TimePasses, picVars, moduleVars, cameraVars
  <2>7. ASSUME NEW m \in Modules, SetModule(m)
        PROVE  TypeOK'
    BY <2>7, <2>d DEF SetModule, seriesVars, timerVars, cameraVars
  <2>e. ASSUME StartPreview
        PROVE  preview' \in BOOLEAN
    BY <2>e, Zenon DEF StartPreview
  <2>8. CASE CameraDelivers
    <3>1. CASE UnexpectedPicture
      BY <2>8, <2>b, <2>e, <3>1 DEF CameraDelivers, UnexpectedPicture, moduleVars
    <3>2. CASE SinglePicture
      <4>1. owed' \in Nat /\ saver' \in [Savers -> Saver]
        BY <3>2, <2>c DEF SinglePicture
      <4>2. QED
        BY <2>8, <2>b, <2>e, <3>2, <4>1, Zenon
        DEF CameraDelivers, SinglePicture, FinishCapture
    <3>3. QED
      BY <2>8, <3>1, <3>2 DEF CameraDelivers
  <2>9. CASE BurstDelivers
    BY <2>9, <2>c DEF BurstDelivers, BurstPicture, moduleVars, seriesVars,
       timerVars
  <2>10. CASE BurstCompares
    <3>1. CASE BurstGoesOn /\ UNCHANGED seriesVars
      <4>1. comparing' \in BOOLEAN
        BY <3>1 DEF BurstGoesOn
      <4>2. QED
        BY <2>10, <3>1, <4>1, ZenonT(60) DEF BurstCompares, BurstGoesOn, moduleVars,
           cameraVars, seriesVars, timerVars
    <3>2. CASE BurstDone /\ PictureStops
      BY <2>10, <2>b, <2>e, <3>2 DEF BurstCompares, BurstDone, FinishCapture
    <3>3. QED
      BY <2>10, <3>1, <3>2 DEF BurstCompares
  <2>11. ASSUME NEW s \in Savers, SaverRuns(s)
         PROVE  TypeOK'
    BY <2>11 DEF SaverRuns, Save, SaverLoads, SaverStores, Saver, IdleSaver,
       moduleVars, cameraVars, seriesVars, timerVars
  <2>12. CASE UserSetsBurst
    BY <2>12 DEF UserSetsBurst, SetBurst, moduleVars, cameraVars, seriesVars,
       timerVars
  <2>13. CASE CameraLost
    BY <2>13 DEF CameraLost, CloseCamera, moduleVars, seriesVars, timerVars
  <2>14. CASE CameraReopens
    BY <2>14, <2>d DEF CameraReopens, OpenCamera, seriesVars, timerVars
  <2>15. CASE UNCHANGED vars
    BY <2>15 DEF vars, picVars, moduleVars, cameraVars, seriesVars, timerVars
  <2>16. QED
    BY <2>1, <2>2, <2>3, <2>4, <2>5, <2>6, <2>7, <2>8, <2>9, <2>10, <2>11,
       <2>12, <2>13, <2>14, <2>15 DEF Next, Looper, User
<1>3. QED
  BY <1>1, <1>2, PTL DEF Spec
------------------------------------------------------------------------------
\* Stopping is final: with seriesOn cleared no post of the runner is left, so
\* that no timer takes a picture after the user has stopped the series; and the
\* handler never works for a module that has stopped.
THEOREM StopIsFinal == Spec => [](StoppedMeansStopped /\ HandlerWorksForModule)
<1> DEFINE Inv == StoppedMeansStopped /\ HandlerWorksForModule
<1> USE DEF StoppedMeansStopped, HandlerWorksForModule
<1>1. Init => Inv
  BY DEF Init
<1>2. TypeOK /\ Inv /\ [Next]_vars => Inv'
  <2> SUFFICES ASSUME TypeOK, Inv, [Next]_vars
               PROVE  Inv'
    OBVIOUS
  <2>a. ASSUME PictureStops
        PROVE  Inv'
    <3>1. CASE UNCHANGED seriesVars
      BY <3>1 DEF seriesVars, timerVars
    <3>2. CASE SeriesHearsStop /\ seriesOn
      BY <3>2 DEF SeriesHearsStop, DoNextInterval
    <3>3. CASE SeriesHearsStop /\ ~seriesOn
      BY <3>3 DEF SeriesHearsStop, timerVars
    <3>4. QED
      BY <2>a, <3>1, <3>2, <3>3 DEF PictureStops
  <2>b. ASSUME UNCHANGED seriesVars
        PROVE  Inv'
    BY <2>b DEF seriesVars, timerVars
  <2>1. CASE StartSeries
    BY <2>1 DEF StartSeries
  <2>2. CASE StopSeries
    BY <2>2 DEF StopSeries, CancelInterval
  <2>3. CASE PressPicture
    BY <2>3, <2>b DEF PressPicture
  <2>4. CASE RunnerWaits
    BY <2>4 DEF RunnerWaits
  <2>5. CASE RunnerShoots
    BY <2>5 DEF RunnerShoots, TypeOK
  <2>6. CASE TimePasses
    BY <2>6 DEF TimePasses
  <2>7. ASSUME NEW m \in Modules, SetModule(m)
        PROVE  Inv'
    BY <2>7, <2>b DEF SetModule
  <2>8. CASE CameraDelivers
    BY <2>8, <2>a DEF CameraDelivers
  <2>9. CASE BurstDelivers
    BY <2>9, <2>b DEF BurstDelivers
  <2>10. CASE BurstCompares
    BY <2>10, <2>a, <2>b DEF BurstCompares
  <2>11. ASSUME NEW s \in Savers, SaverRuns(s)
         PROVE  Inv'
    BY <2>11, <2>b DEF SaverRuns
  <2>12. CASE UserSetsBurst \/ CameraLost \/ CameraReopens
    BY <2>12, <2>b DEF UserSetsBurst, CameraLost, CameraReopens
  <2>13. CASE UNCHANGED vars
    BY <2>13, <2>b DEF vars
  <2>14. QED
    BY <2>1, <2>2, <2>3, <2>4, <2>5, <2>6, <2>7, <2>8, <2>9, <2>10, <2>11,
       <2>12, <2>13 DEF Next, Looper, User
<1>3. QED
  BY <1>1, <1>2, TypeCorrect, PTL DEF Spec

\* The handler never works for a module that has stopped: it would restart the
\* series with the next picture.
THEOREM HandlerStops == Spec => []HandlerWorksForModule
<1>1. StoppedMeansStopped /\ HandlerWorksForModule => HandlerWorksForModule
  OBVIOUS
<1>2. QED
  BY <1>1, StopIsFinal, PTL
------------------------------------------------------------------------------
\* In a calm system no burst code runs: what is left of the next-state relation.
LEMMA CalmSteps ==
  ASSUME Calm, TypeOK, CalmInv, [Next]_vars
  PROVE  \/ StartSeries \/ StopSeries \/ RunnerWaits \/ RunnerShoots \/ TimePasses
         \/ \E m \in Modules : SetModule(m)
         \/ SinglePicture /\ PictureStops /\ UNCHANGED <<module, picListener>>
         \/ \E s \in Savers : SaverRuns(s)
         \/ UNCHANGED vars
<1> USE DEF Calm, CalmInv, TypeOK, PicTypeOK
<1>1. ~PressPicture
  BY DEF PressPicture
<1>a. ~(burst > 1)
  <2>1. burst = 1
    OBVIOUS
  <2>2. QED
    BY <2>1
<1>2. ~BurstDelivers /\ ~BurstCompares
  BY <1>a, Zenon
  DEF BurstDelivers, BurstCompares, BurstPicture, BurstGoesOn, BurstDone
<1>3. ~UserSetsBurst /\ ~CameraLost /\ ~CameraReopens
  BY DEF UserSetsBurst, SetBurst, CameraLost, CloseCamera, CameraReopens, OpenCamera
<1>4. ~UnexpectedPicture
  <2>1. owed > 0 => waitForPicture
    OBVIOUS
  <2>2. QED
    BY <2>1, Zenon DEF UnexpectedPicture
<1>5. QED
  BY <1>1, <1>2, <1>3, <1>4, Zenon DEF Next, Looper, User, CameraDelivers

\* A press or a timer that finds the camera free takes a picture; one that finds
\* it busy changes nothing.
LEMMA CalmDoWork ==
  ASSUME Calm, TypeOK, CalmInv, DoWork
  PROVE  /\ isWorking' /\ waitForPicture' /\ ~preview' /\ cameraOpen'
         /\ owed' = 1
<1> USE DEF Calm, CalmInv, TypeOK, PicTypeOK
<1>1. CASE isWorking
  <2>1. UNCHANGED <<moduleVars, cameraVars>>
    BY <1>1 DEF DoWork
  <2>2. QED
    BY <1>1, <2>1 DEF moduleVars, cameraVars
<1>2. CASE ~isWorking
  <2>1. isWorking' = TRUE /\ waitForPicture' = TRUE /\ TakePicture
    BY <1>2 DEF DoWork
  <2>2. owed = 0 /\ preview /\ cameraOpen /\ burst = 1
    BY <1>2
  <2>3. owed' = owed + burst /\ preview' = FALSE /\ cameraOpen' = cameraOpen
    BY <2>1, <2>2, Zenon DEF TakePicture
  <2>4. QED
    BY <2>1, <2>2, <2>3
<1>3. QED
  BY <1>1, <1>2

\* The inductive invariant of a calm series.
THEOREM CalmCorrect == Calm => (Spec => []CalmInv)
<1> SUFFICES ASSUME Calm
             PROVE  Spec => []CalmInv
  OBVIOUS
<1>1. Init => CalmInv
  BY DEF Init, PicInit, CalmInv
<1>2. TypeOK /\ CalmInv /\ [Next]_vars => CalmInv'
  <2> SUFFICES ASSUME TypeOK, CalmInv, [Next]_vars
               PROVE  CalmInv'
    OBVIOUS
  <2> USE DEF CalmInv, TypeOK, PicTypeOK
  <2>1. CASE StartSeries
    <3>1. DoWork /\ UNCHANGED <<comparing, picListener, runners>> /\ working' /\ seriesOn'
      BY <2>1 DEF StartSeries
    <3>2. runners = 0
      BY <2>1 DEF StartSeries
    <3>3. QED
      BY <3>1, <3>2, CalmDoWork
  <2>2. CASE StopSeries
    BY <2>2 DEF StopSeries, CancelInterval, picVars, moduleVars, cameraVars
  <2>3. CASE RunnerWaits
    BY <2>3 DEF RunnerWaits, picVars, moduleVars, cameraVars
  <2>4. CASE RunnerShoots
    <3>1. DoWork /\ UNCHANGED <<comparing, picListener, working, seriesOn>>
          /\ runners' = runners - 1
      BY <2>4 DEF RunnerShoots
    <3>2. runners = 1
      BY <2>4 DEF RunnerShoots
    <3>3. QED
      BY <3>1, <3>2, CalmDoWork
  <2>5. CASE TimePasses
    BY <2>5 DEF TimePasses, picVars, moduleVars, cameraVars
  <2>6. ASSUME NEW m \in Modules, SetModule(m)
        PROVE  CalmInv'
    <3>1. m # "picture" /\ module # "picture"
      BY DEF Calm
    <3>2. picListener' = picListener /\ UNCHANGED moduleVars
      BY <2>6, <3>1 DEF SetModule, LoadModule
    <3>3. QED
      BY <2>6, <3>2 DEF SetModule, moduleVars, cameraVars, seriesVars, timerVars
  <2>7. CASE SinglePicture /\ PictureStops /\ UNCHANGED <<module, picListener>>
    <3>1. /\ ~comparing' /\ ~isWorking' /\ ~waitForPicture' /\ owed' = 0
          /\ cameraOpen' = cameraOpen /\ owed = 1
      BY <2>7 DEF SinglePicture, FinishCapture
    <3>2. preview'
      BY <2>7, Zenon DEF SinglePicture, FinishCapture, StartPreview
    <3>3. runners = 0
      BY <3>1
    <3>4. SeriesHearsStop
      BY <2>7 DEF PictureStops
    <3>5. /\ runners' > 0 => runners' = 1 /\ working'
          /\ working' => seriesOn' /\ runners' = 1
          /\ ~late' => working'
      <4>1. CASE ~seriesOn
        BY <3>3, <3>4, <4>1 DEF SeriesHearsStop, timerVars
      <4>2. CASE seriesOn /\ late
        BY <3>3, <3>4, <4>2 DEF SeriesHearsStop, DoNextInterval
      <4>3. CASE seriesOn /\ ~late
        <5>1. runners' = runners + 1 /\ seriesOn'
          BY <3>4, <4>3, Zenon DEF SeriesHearsStop, DoNextInterval
        <5>2. working' = working
          BY <3>4, <4>3, Zenon DEF SeriesHearsStop, DoNextInterval
        <5>3. working
          BY <4>3
        <5>4. QED
          BY <3>3, <5>1, <5>2, <5>3
      <4>4. QED
        BY <4>1, <4>2, <4>3
    <3>6. QED
      BY <2>7, <3>1, <3>2, <3>5
  <2>8. ASSUME NEW s \in Savers, SaverRuns(s)
        PROVE  CalmInv'
    <3>1. UNCHANGED <<isWorking, waitForPicture, comparing, cameraVars,
                      picListener, seriesVars>>
      BY <2>8 DEF SaverRuns, Save, SaverLoads, SaverStores, moduleVars
    <3>2. QED
      BY <3>1 DEF cameraVars, seriesVars, timerVars
  <2>9. CASE UNCHANGED vars
    BY <2>9 DEF vars, picVars, moduleVars, cameraVars, seriesVars, timerVars
  <2>10. QED
    BY <2>1, <2>2, <2>3, <2>4, <2>5, <2>6, <2>7, <2>8, <2>9, CalmSteps
<1>3. QED
  BY <1>1, <1>2, TypeCorrect, PTL DEF Spec
------------------------------------------------------------------------------
\* In a calm system a series has one timer at most, ...
THEOREM CalmOneRunner == Calm => (Spec => []OneRunner)
<1> SUFFICES ASSUME Calm
             PROVE  Spec => []OneRunner
  OBVIOUS
<1>1. TypeOK /\ CalmInv => OneRunner
  BY DEF TypeOK, CalmInv, OneRunner
<1>2. QED
  BY <1>1, TypeCorrect, CalmCorrect, PTL

\* ... is never left without a timer or a picture to carry it on, ...
THEOREM CalmSeriesIsDriven == Calm => (Spec => []SeriesIsDriven)
<1> SUFFICES ASSUME Calm
             PROVE  Spec => []SeriesIsDriven
  OBVIOUS
<1>1. TypeOK /\ CalmInv => SeriesIsDriven
  BY DEF TypeOK, CalmInv, SeriesIsDriven
<1>2. QED
  BY <1>1, TypeCorrect, CalmCorrect, PTL

\* ... and implements the promise of module Series.
THEOREM CalmImplements == Calm => (Spec => ImplementsSeries)
<1> SUFFICES ASSUME Calm
             PROVE  Spec => ImplementsSeries
  OBVIOUS
<1>1. Init => Promise!Init
  BY DEF Init, PicInit, Promise!Init, seriesPhase
<1>2. TypeOK /\ CalmInv /\ CalmInv' /\ [Next]_vars => [Promise!Next]_(Promise!vars)
  <2> SUFFICES ASSUME TypeOK, CalmInv, CalmInv', [Next]_vars
               PROVE  [Promise!Next]_(Promise!vars)
    OBVIOUS
  <2> USE DEF TypeOK, PicTypeOK, CalmInv, seriesPhase
  <2>s. ASSUME UNCHANGED <<working, owed, runners>>
        PROVE  UNCHANGED Promise!vars
    BY <2>s DEF Promise!vars
  <2>1. CASE StartSeries
    <3>1. ~working /\ working' /\ DoWork
      BY <2>1 DEF StartSeries
    <3>2. owed' = 1
      BY <3>1, CalmDoWork
    <3>3. Promise!Start
      BY <3>1, <3>2 DEF Promise!Start
    <3>4. QED
      BY <3>3 DEF Promise!Next
  <2>2. CASE StopSeries
    <3>1. working /\ ~working' /\ owed' = owed /\ runners' = 0
      BY <2>2 DEF StopSeries, CancelInterval, picVars, cameraVars
    <3>2. Promise!Stop
      BY <3>1 DEF Promise!Stop
    <3>3. QED
      BY <3>2 DEF Promise!Next
  <2>3. CASE RunnerWaits \/ TimePasses
    BY <2>3, <2>s DEF RunnerWaits, TimePasses, picVars, cameraVars
  <2>4. CASE RunnerShoots
    <3>1. runners = 1 /\ owed = 0 /\ working /\ working' = working /\ DoWork
      BY <2>4 DEF RunnerShoots
    <3>2. owed' = 1
      BY <3>1, CalmDoWork
    <3>3. Promise!Fire
      BY <3>1, <3>2 DEF Promise!Fire
    <3>4. QED
      BY <3>3 DEF Promise!Next
  <2>5. CASE \E m \in Modules : SetModule(m)
    BY <2>5, <2>s DEF SetModule, cameraVars, seriesVars, timerVars
  <2>6. CASE SinglePicture /\ PictureStops /\ UNCHANGED <<module, picListener>>
    <3>1. owed = 1 /\ owed' = 0
      BY <2>6 DEF SinglePicture
    <3>2. runners = 0
      BY <3>1
    <3>3. SeriesHearsStop
      BY <2>6 DEF PictureStops
    <3>4. \/ working /\ working' /\ runners' = 1
          \/ ~working' /\ runners' = 0
      <4>1. CASE ~seriesOn
        BY <3>2, <3>3, <4>1 DEF SeriesHearsStop, timerVars
      <4>2. CASE seriesOn /\ late
        BY <3>2, <3>3, <4>2 DEF SeriesHearsStop, DoNextInterval
      <4>3. CASE seriesOn /\ ~late
        <5>1. runners' = runners + 1
          BY <3>3, <4>3, Zenon DEF SeriesHearsStop, DoNextInterval
        <5>2. working' = working
          BY <3>3, <4>3, Zenon DEF SeriesHearsStop, DoNextInterval
        <5>3. QED
          BY <3>2, <4>3, <5>1, <5>2
      <4>4. QED
        BY <4>1, <4>2, <4>3
    <3>5. Promise!Arrive
      BY <3>1, <3>4 DEF Promise!Arrive
    <3>6. QED
      BY <3>5 DEF Promise!Next
  <2>7. CASE \E s \in Savers : SaverRuns(s)
    BY <2>7, <2>s DEF SaverRuns, Save, SaverLoads, SaverStores, cameraVars,
       seriesVars, timerVars
  <2>8. CASE UNCHANGED vars
    BY <2>8, <2>s DEF vars, picVars, cameraVars, seriesVars, timerVars
  <2>9. QED
    BY <2>1, <2>2, <2>3, <2>4, <2>5, <2>6, <2>7, <2>8, CalmSteps
<1>3. QED
  BY <1>1, <1>2, TypeCorrect, CalmCorrect, PTL DEF Spec, ImplementsSeries, Promise!Spec
------------------------------------------------------------------------------
\* The countdown the user of a calm series reads is the one that decides when
\* the next picture is taken, through every start, stop and end of a series.
THEOREM CalmCountdown == Calm => (Spec => []CountdownIsTrue)
<1> SUFFICES ASSUME Calm
             PROVE  Spec => []CountdownIsTrue
  OBVIOUS
<1> USE DEF CountdownInv, CountdownIsTrue
<1>1. Init => CountdownInv
  BY DEF Init
<1>2. TypeOK /\ CalmInv /\ CountdownInv /\ [Next]_vars => CountdownInv'
  <2> SUFFICES ASSUME TypeOK, CalmInv, CountdownInv, [Next]_vars
               PROVE  CountdownInv'
    OBVIOUS
  <2> USE DEF TypeOK
  <2>s. ASSUME UNCHANGED <<runners, shuttercounter, delayCounter, duration>>
        PROVE  CountdownInv'
    BY <2>s
  <2>1. CASE StartSeries
    \* The first picture is taken without a wait.
    <3>1. runners = 0
      BY <2>1 DEF StartSeries, CalmInv
    <3>2. QED
      BY <2>1, <3>1 DEF StartSeries
  <2>2. CASE StopSeries
    BY <2>2 DEF StopSeries, CancelInterval
  <2>3. CASE RunnerWaits
    BY <2>3 DEF RunnerWaits
  <2>4. CASE RunnerShoots
    <3>1. runners = 1
      BY <2>4 DEF RunnerShoots, CalmInv
    <3>2. runners' = 0 /\ shuttercounter' = 0
      BY <2>4, <3>1 DEF RunnerShoots
    <3>3. QED
      BY <3>2
  <2>5. CASE TimePasses
    BY <2>5, <2>s DEF TimePasses
  <2>6. CASE \E m \in Modules : SetModule(m)
    BY <2>6, <2>s DEF SetModule, seriesVars, timerVars
  <2>7. CASE SinglePicture /\ PictureStops /\ UNCHANGED <<module, picListener>>
    <3>1. runners = 0
      BY <2>7 DEF SinglePicture, CalmInv
    <3>2. SeriesHearsStop
      BY <2>7 DEF PictureStops, CalmInv
    <3>3. CASE seriesOn /\ ~late
      <4>1. shuttercounter' = 0 /\ delayCounter' = 0 /\ duration' = duration
        BY <3>1, <3>2, <3>3, Zenon DEF SeriesHearsStop, DoNextInterval
      <4>2. QED
        BY <4>1
    <3>4. CASE ~(seriesOn /\ ~late)
      <4>1. UNCHANGED <<runners, shuttercounter, delayCounter, duration>>
        BY <3>2, <3>4, Zenon DEF SeriesHearsStop, DoNextInterval, timerVars
      <4>2. QED
        BY <4>1, <2>s
    <3>5. QED
      BY <3>3, <3>4
  <2>8. CASE \E s \in Savers : SaverRuns(s)
    BY <2>8, <2>s DEF SaverRuns, seriesVars, timerVars
  <2>9. CASE UNCHANGED vars
    BY <2>9, <2>s DEF vars, seriesVars, timerVars
  <2>10. QED
    BY <2>1, <2>2, <2>3, <2>4, <2>5, <2>6, <2>7, <2>8, <2>9, CalmSteps
<1>3. CountdownInv => CountdownIsTrue
  OBVIOUS
<1>4. QED
  BY <1>1, <1>2, <1>3, TypeCorrect, CalmCorrect, PTL DEF Spec
==============================================================================
