------------------------------ MODULE Interval -------------------------------
(***************************************************************************)
(* The interval module (basecamera/modules/IntervalModule) and its timer   *)
(* (IntervalHandler), driving the Camera1 picture module, with the module  *)
(* handler's switch of the current module (ModuleHandlerAbstract).         *)
(*                                                                         *)
(* Everything here runs on the UI looper: a press of the shutter button, a *)
(* run of intervalDelayRunner, a callback of the camera, a module switch.  *)
(* The picture module reports the end of a capture to whoever is its       *)
(* listener; the interval module listens while it is loaded, and after it  *)
(* has been left for a module that does not reload the picture module.     *)
(*                                                                         *)
(* shutterDelay is never set (nothing calls StartShutterTime), so that     *)
(* startShutterDelay calls DoWork at once; shutterWaitCounter stays 0.     *)
(***************************************************************************)
EXTENDS PictureModule

CONSTANTS
  Modules,    \* modules the user can load, "interval" being the first one;
              \* "video" stands for those that leave the picture module alone
  Durations,  \* values of IntervalShutterSleep, in seconds
  MaxRunners  \* bound of the model on posted runners

ASSUME IntervalAssumption ==
  /\ "interval" \in Modules
  /\ Modules \subseteq {"interval", "picture", "video"}
  /\ Durations \subseteq Nat /\ Durations # {}
  /\ MaxRunners \in Nat \ {0}

VARIABLES
  module,          \* ModuleHandlerAbstract.currentModule
  picListener,     \* who hears the picture module: the interval module, the
                   \* module handler's workerListner, or nobody
  seriesOn,        \* IntervalModule.isWorking
  workState,       \* IntervalModule.currentWorkState
  working,         \* IntervalHandler.working
  duration,        \* intervalDuration / 1000
  late,            \* the minutes since startTime reach intervalToEndDuration
  delayCounter,    \* intervalDelayCounter
  shuttercounter,  \* the seconds the user is shown
  runners          \* pending posts of intervalDelayRunner

timerVars == <<working, duration, late, delayCounter, shuttercounter>>
seriesVars == <<seriesOn, workState, timerVars, runners>>
vars == <<picVars, module, picListener, seriesVars>>

CaptureStates ==
  {"none", "continouse_capture_start", "continouse_capture_stop",
   "continouse_capture_work_stop", "cont_capture_stop_while_working",
   "cont_capture_stop_while_notworking"}
------------------------------------------------------------------------------
Init ==
  /\ PicInit
  /\ module = "interval"
  /\ picListener = "interval"
  /\ seriesOn = FALSE
  /\ workState = "none"
  /\ working = FALSE
  /\ duration = 0
  /\ late = TRUE
  /\ delayCounter = 0
  /\ shuttercounter = 0
  /\ runners = 0

\* Slip: the series never asks for the time.
DoNextIntervalForever ==
  /\ runners < MaxRunners
  /\ delayCounter' = 0
  /\ runners' = runners + 1
  /\ UNCHANGED <<working, duration, late, shuttercounter>>

\* IntervalHandler.DoNextInterval: the time is up, or the next wait begins.
DoNextInterval ==
  \/ /\ late
     /\ working' = FALSE
     /\ UNCHANGED <<duration, late, delayCounter, shuttercounter, runners>>
  \/ /\ ~late /\ runners < MaxRunners
     /\ delayCounter' = 0
     /\ runners' = runners + 1
     /\ UNCHANGED <<working, duration, late, shuttercounter>>

\* Slip: the end of the picture is shown, but no next one is planned.
SeriesHearsStopOnly ==
  /\ workState' = "continouse_capture_work_stop"
  /\ UNCHANGED <<seriesOn, timerVars, runners>>

\* IntervalModule.onCaptureStateChanged(image_capture_stop).
SeriesHearsStop ==
  \/ /\ seriesOn
     /\ DoNextInterval
     /\ workState' = "continouse_capture_work_stop"
     /\ UNCHANGED seriesOn
  \/ /\ ~seriesOn
     /\ workState' = IF isWorking' THEN "continouse_capture_stop"
                                   ELSE "cont_capture_stop_while_notworking"
     /\ UNCHANGED <<seriesOn, timerVars, runners>>

\* ModuleAbstract.changeCaptureState(image_capture_stop) of the picture module.
PictureStops ==
  \/ picListener = "interval" /\ SeriesHearsStop
  \/ picListener # "interval" /\ UNCHANGED seriesVars

\* Slips: the posts of the runner stay on the looper; the handler goes on
\* working.
CancelIntervalKeepsPosts ==
  /\ working' = FALSE
  /\ duration' = 0
  /\ late' = TRUE
  /\ delayCounter' = 0
  /\ shuttercounter' = 0
  /\ UNCHANGED runners

CancelIntervalKeepsWorking ==
  /\ duration' = 0
  /\ late' = TRUE
  /\ delayCounter' = 0
  /\ shuttercounter' = 0
  /\ runners' = 0
  /\ UNCHANGED working

\* IntervalHandler.CancelInterval.  With intervalToEndDuration = 0 the time is
\* up from now on.
CancelInterval ==
  /\ working' = FALSE
  /\ duration' = 0
  /\ late' = TRUE
  /\ delayCounter' = 0
  /\ shuttercounter' = 0
  /\ runners' = 0

\* IntervalModule.DoWork on a handler that is not working: StartInterval, and
\* the first picture in the same call.
StartSeries ==
  /\ module = "interval" /\ ~comparing
  /\ ~working
  /\ seriesOn' = TRUE
  /\ working' = TRUE
  /\ late' = FALSE
  /\ duration' \in Durations
  /\ DoWork
  /\ workState' = "continouse_capture_start"
  /\ UNCHANGED <<burst, saver, comparing, module, picListener,
                 delayCounter, shuttercounter, runners>>

\* IntervalModule.DoWork on a working handler: the series is stopped.
StopSeries ==
  /\ module = "interval" /\ ~comparing
  /\ working
  /\ seriesOn' = FALSE
  /\ CancelInterval
  /\ workState' = IF isWorking THEN "cont_capture_stop_while_working"
                               ELSE "cont_capture_stop_while_notworking"
  /\ UNCHANGED <<picVars, module, picListener>>

\* The shutter button while the picture module is loaded.
PressPicture ==
  /\ module = "picture" /\ ~comparing
  /\ DoWork
  /\ UNCHANGED <<burst, saver, comparing, module, picListener, seriesVars>>

\* Slip: the second is shown, but not counted.
RunnerWaitsUncounted ==
  /\ runners > 0 /\ ~comparing
  /\ delayCounter < duration
  /\ shuttercounter' = (shuttercounter + 1) % 3
  /\ UNCHANGED <<picVars, module, picListener, seriesOn, workState, working,
                 duration, late, delayCounter, runners>>

\* intervalDelayRunner: another second of the wait, or the next picture.
RunnerWaits ==
  /\ runners > 0 /\ ~comparing
  /\ delayCounter < duration
  /\ delayCounter' = delayCounter + 1
  /\ shuttercounter' = shuttercounter + 1
  /\ UNCHANGED <<picVars, module, picListener, seriesOn, workState, working,
                 duration, late, runners>>

\* Slip: the countdown shown to the user is not started again.
RunnerShootsKeepsCountdown ==
  /\ runners > 0 /\ ~comparing
  /\ delayCounter >= duration
  /\ runners' = runners - 1
  /\ DoWork
  /\ UNCHANGED <<burst, saver, comparing, module, picListener, seriesOn,
                 workState, working, duration, late, delayCounter,
                 shuttercounter>>

RunnerShoots ==
  /\ runners > 0 /\ ~comparing
  /\ delayCounter >= duration
  /\ runners' = runners - 1
  /\ DoWork
  /\ shuttercounter' = 0
  /\ UNCHANGED <<burst, saver, comparing, module, picListener, seriesOn,
                 workState, working, duration, late, delayCounter>>

\* The end of the series comes.
TimePasses ==
  /\ ~late
  /\ late' = TRUE
  /\ UNCHANGED <<picVars, module, picListener, seriesOn, workState, working,
                 duration, delayCounter, shuttercounter, runners>>

\* Slip: every module change takes the listener of the picture module away.
LoadModuleDropsListener(m) ==
  /\ picListener' = CASE m = "interval" -> "interval"
                      [] m = "picture"  -> "handler"
                      [] OTHER          -> "none"
  /\ IF m = "picture" THEN InitModule ELSE UNCHANGED moduleVars

\* What ModuleHandlerAbstract.SetModule does to the picture module and its
\* listener.  The interval module's InitModule overrides the one that resets
\* isWorking, its DestroyModule is empty, and it is the only one besides the
\* picture module to set the listener.
LoadModule(m) ==
  /\ picListener' = CASE m = "interval"     -> "interval"
                      [] m = "picture"      -> "handler"
                      [] module = "picture" -> "none"
                      [] OTHER              -> picListener
  /\ IF m = "picture" THEN InitModule ELSE UNCHANGED moduleVars

\* The user picks another module.
SetModule(m) ==
  /\ m # module /\ ~comparing
  /\ module' = m
  /\ LoadModule(m)
  /\ UNCHANGED <<burst, saver, comparing, cameraVars, seriesVars>>

\* The camera answers, the test of burstcount, the saving threads.
CameraDelivers ==
  /\ UnexpectedPicture \/ SinglePicture
  /\ PictureStops
  /\ UNCHANGED <<module, picListener>>

BurstDelivers == BurstPicture /\ UNCHANGED <<module, picListener, seriesVars>>

BurstCompares ==
  /\ \/ BurstGoesOn /\ UNCHANGED seriesVars
     \/ BurstDone /\ PictureStops
  /\ UNCHANGED <<module, picListener>>

SaverRuns(s) == Save(s) /\ UNCHANGED <<module, picListener, seriesVars>>

UserSetsBurst == SetBurst /\ UNCHANGED <<module, picListener, seriesVars>>

\* The camera is closed under the series, and opened again: the parameters load
\* the current module once more.
CameraLost == CloseCamera /\ UNCHANGED <<moduleVars, module, picListener, seriesVars>>

CameraReopens ==
  /\ OpenCamera
  /\ LoadModule(module)
  /\ UNCHANGED <<module, seriesVars>>
------------------------------------------------------------------------------
Looper ==
  \/ RunnerWaits \/ RunnerShoots
  \/ CameraDelivers \/ BurstDelivers \/ BurstCompares

User ==
  \/ StartSeries \/ StopSeries \/ PressPicture \/ UserSetsBurst
  \/ CameraLost \/ CameraReopens
  \/ \E m \in Modules : SetModule(m)

Next == Looper \/ User \/ TimePasses \/ \E s \in Savers : SaverRuns(s)

\* The looper serves every message, the camera answers, time passes and the
\* threads are scheduled; the user does nothing of necessity.
Fairness ==
  /\ WF_vars(RunnerWaits \/ RunnerShoots)
  /\ WF_vars(CameraDelivers \/ BurstDelivers)
  /\ WF_vars(BurstCompares)
  /\ WF_vars(TimePasses)
  /\ \A s \in Savers : WF_vars(SaverRuns(s))

Spec == Init /\ [][Next]_vars

FairSpec == Spec /\ Fairness
------------------------------------------------------------------------------
\* Every variable has its type.
TypeOK ==
  /\ PicTypeOK
  /\ module \in Modules
  /\ picListener \in {"interval", "handler", "none"}
  /\ seriesOn \in BOOLEAN
  /\ workState \in CaptureStates
  /\ working \in BOOLEAN
  /\ duration \in Nat
  /\ late \in BOOLEAN
  /\ delayCounter \in Nat
  /\ shuttercounter \in Nat
  /\ runners \in Nat

\* No timer outlives its series: after a stop nothing is left on the looper that
\* would take another picture (CancelInterval removes the posts, and a picture
\* that arrives later must not post again).
StoppedMeansStopped == ~seriesOn => runners = 0

\* A handler that works for a module that does not would restart a series the
\* user has stopped.
HandlerWorksForModule == working => seriesOn

\* One timer per series: a second post would tick twice a second and take two
\* pictures per wait.
OneRunner == runners <= 1

\* A running series always has something that carries it on: a timer on the
\* looper, or a picture of the camera that will be reported to it.
SeriesIsDriven ==
  working => \/ runners > 0
             \/ picListener = "interval" /\ (owed > 0 \/ comparing)

\* The countdown the user reads (shuttercounter) is the one that decides
\* (intervalDelayCounter), and never passes the interval.
CountdownIsTrue ==
  runners > 0 => shuttercounter = delayCounter /\ delayCounter <= duration

\* A series ends by itself once its time is up.
SeriesEnds == (working /\ late) ~> ~working

\* A wait comes to an end: the next picture is taken, unless the series is over.
WaitEnds == (runners > 0) ~> (owed > 0 \/ ~seriesOn)

\* What the photographer sees of the series.
seriesPhase == IF owed > 0 THEN "shot" ELSE IF runners > 0 THEN "wait" ELSE "rest"

Promise == INSTANCE Series WITH on <- working, phase <- seriesPhase

\* The flags, posts and counters above implement the promise of module Series:
\* one picture at a time, a wait between two of them, none begun after the stop.
ImplementsSeries == Promise!Spec
------------------------------------------------------------------------------
\* A system without faults: single pictures, a camera that works and stays open,
\* and no reload of the picture module under the series.
Calm ==
  /\ BurstValues = {1}
  /\ CameraFails = FALSE
  /\ CameraCloses = FALSE
  /\ "picture" \notin Modules

\* The inductive invariant of a calm system: the three flags of the picture
\* module and the camera tell the same story, and a series is carried by exactly
\* one of a picture and a timer.
CalmInv ==
  /\ ~comparing /\ cameraOpen
  /\ owed \in {0, 1}
  /\ owed = 1 <=> isWorking
  /\ owed = 1 <=> waitForPicture
  /\ owed = 0 <=> preview
  /\ picListener = "interval"
  /\ runners > 0 => runners = 1 /\ owed = 0 /\ working
  /\ working => seriesOn /\ (runners = 1 \/ owed = 1)
  /\ ~late => working

\* Why the countdown is true: between two waits it stands at nought, where the
\* next wait begins.
CountdownInv == CountdownIsTrue /\ (runners = 0 => shuttercounter = 0)
==============================================================================
