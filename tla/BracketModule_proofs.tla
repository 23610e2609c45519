------------------------ MODULE BracketModule_proofs ------------------------
(***************************************************************************)
(* Proofs about the Camera1 modules that take pictures.  For every number  *)
(* of threads: a bracket that is not disturbed is always in one place and  *)
(* takes its three exposures in their order; the shutter button of a       *)
(* camera that works tells the truth; and a burst counts no picture twice, *)
(* however its increments are interleaved.                                 *)
(***************************************************************************)
EXTENDS BracketModule, FiniteSetTheorems, TLAPS

\* The steps of the picture module keep its types.
LEMMA PicTypeStep ==
  ASSUME PicTypeOK, PicNext
  PROVE  PicTypeOK'
<1> USE PictureAssumption DEF PicTypeOK, moduleVars, cameraVars
<1>1. CASE Press
  <2>1. owed + burst \in Nat /\ 0 \in Nat
    OBVIOUS
  <2> QED
    BY <1>1, <2>1, Zenon DEF Press, DoWork, TakePicture
<1>a. ASSUME SpawnSaver
      PROVE  saver' \in [Savers -> Saver]
  BY <1>a DEF SpawnSaver, Saver
<1>2. CASE UnexpectedPicture
  <2>1. owed' \in Nat
    BY <1>2 DEF UnexpectedPicture
  <2> QED
    BY <1>2, <2>1, Zenon DEF UnexpectedPicture, StartPreview
<1>3. CASE SinglePicture
  <2>1. owed' \in Nat
    BY <1>3 DEF SinglePicture
  <2> QED
    BY <1>3, <1>a, <2>1, Zenon DEF SinglePicture, FinishCapture, StartPreview
<1>4. CASE BurstPicture
  <2>1. owed' \in Nat
    BY <1>4 DEF BurstPicture
  <2> QED
    BY <1>4, <1>a, <2>1, Zenon DEF BurstPicture
<1>5. CASE Compare
  BY <1>5, Zenon DEF Compare, BurstGoesOn, BurstDone, FinishCapture, StartPreview
<1>6. CASE Pause \/ Resume
  <2>1. 0 \in Nat
    OBVIOUS
  <2> QED
    BY <1>6, <2>1, Zenon DEF Pause, CloseCamera, Resume, OpenCamera, InitModule
<1>7. ASSUME NEW s \in Savers, Save(s)
      PROVE  PicTypeOK'
  <2>1. saver' \in [Savers -> Saver] /\ burstcount' \in Nat
    BY <1>7 DEF Save, SaverLoads, SaverStores, Saver, IdleSaver
  <2> QED
    BY <1>7, <2>1, Zenon DEF Save, SaverLoads, SaverStores
<1> QED
  BY <1>1, <1>2, <1>3, <1>4, <1>5, <1>6, <1>7 DEF PicNext, OnPictureTaken

\* Every variable keeps its type.
THEOREM BracketTypeCorrect == Spec => []TypeOK
<1> USE PictureAssumption, BracketAssumption
<1> DEFINE Counts == /\ burstcount \in Nat /\ owed \in Nat /\ hdrCount \in Nat
                     /\ exposure \in 0..3 /\ taken \in Seq(0..3)
           Flags == /\ isWorking \in BOOLEAN /\ waitForPicture \in BOOLEAN
                    /\ cameraOpen \in BOOLEAN /\ preview \in BOOLEAN
                    /\ pressing \in BOOLEAN
           Rest == /\ burst \in BurstValues /\ saver \in [Savers -> Saver]
                   /\ comparing \in BOOLEAN
                   /\ kind \in {"picture"} \cup BracketKinds
                   /\ user \in {"patient", "hasty", "leaving"}
           Fixed == UNCHANGED <<burst, saver, comparing, kind, user>>
<1>1. TypeOK <=> Counts /\ Flags /\ Rest /\ task \in [Tasks -> Task]
  BY Zenon DEF TypeOK, PicTypeOK
<1>2. Init => TypeOK
  <2> SUFFICES ASSUME Init
               PROVE  TypeOK
    OBVIOUS
  <2>1. Counts
    BY DEF Init, PicInit
  <2>2. saver \in [Savers -> Saver] /\ task \in [Tasks -> Task]
    BY DEF Init, PicInit, Saver, IdleSaver, Task, IdleTask
  <2>3. kind \in {"picture"} \cup BracketKinds /\ user \in {"patient", "hasty", "leaving"}
    BY DEF Init
  <2>4. Flags /\ burst \in BurstValues /\ comparing \in BOOLEAN
    BY Zenon DEF Init, PicInit
  <2> QED
    BY <1>1, <2>1, <2>2, <2>3, <2>4, Zenon
<1>3. TypeOK /\ [Next]_vars => TypeOK'
  <2> SUFFICES ASSUME TypeOK, [Next]_vars
               PROVE  TypeOK'
    OBVIOUS
  <2>a. Counts /\ Flags /\ Rest /\ task \in [Tasks -> Task]
    BY <1>1
  <2>b. SUFFICES ASSUME ~PictureStep
                 PROVE  Counts' /\ Flags' /\ Rest' /\ task' \in [Tasks -> Task]
    BY PicTypeStep, Zenon DEF PictureStep, TypeOK, bracketVars, PicTypeOK
  <2> USE <2>a DEF moduleVars, cameraVars
  <2>c. Fixed => Rest'
    BY Zenon
  <2>1. ASSUME Fixed, PressAny
        PROVE  Counts' /\ Flags' /\ task' \in [Tasks -> Task]
    <3>1. /\ 0 \in Nat /\ 0 \in 0..3 /\ 3 \in 0..3 /\ 0 < 3 /\ owed + 3 \in Nat
          /\ <<>> \in Seq(0..3) /\ Whole \in Seq(0..3)
      BY DEF Whole
    <3> QED
      BY <2>1, <3>1, Zenon
      DEF PressAny, PressBracket, PressAeBracket, PressHardware, SetExposure
  <2>2. ASSUME Fixed, Pause \/ Resume, UNCHANGED <<hdrCount, exposure, taken, pressing, task>>
        PROVE  Counts' /\ Flags' /\ task' \in [Tasks -> Task]
    <3>1. Counts'
      BY <2>2 DEF Pause, CloseCamera, Resume, OpenCamera, InitModule
    <3> QED
      BY <2>2, <3>1, Zenon DEF Pause, CloseCamera, Resume, OpenCamera, InitModule
  <2>3. ASSUME PressShoots, Fixed
        PROVE  Counts' /\ Flags' /\ task' \in [Tasks -> Task]
    <3>1. owed + burst \in Nat /\ Append(taken, exposure) \in Seq(0..3) /\ 0 \in Nat
      OBVIOUS
    <3> HIDE DEF Counts
    <3>2. Counts'
      BY <2>3, <3>1, Zenon DEF PressShoots, Shoot, DoWork, TakePicture, Counts
    <3> QED
      BY <2>3, <3>2, Zenon DEF PressShoots, Shoot, DoWork, TakePicture
  <2>4. ASSUME HardwarePicture, Fixed
        PROVE  Counts' /\ Flags' /\ task' \in [Tasks -> Task]
    <3>1. owed' \in Nat
      BY <2>4 DEF HardwarePicture
    <3>2. hdrCount + 1 \in Nat /\ 3 \in Nat
      OBVIOUS
    <3> QED
      BY <2>4, <3>1, <3>2, Zenon DEF HardwarePicture, StartPreview
  <2>5. ASSUME BracketPicture, Fixed
        PROVE  Counts' /\ Flags' /\ task' \in [Tasks -> Task]
    <3>1. Counts'
      BY <2>5 DEF BracketPicture
    <3>2. task' \in [Tasks -> Task]
      BY <2>5 DEF BracketPicture, Task
    <3> QED
      BY <2>5, <3>1, <3>2, Zenon DEF BracketPicture
  <2>6. ASSUME NEW s \in Tasks, TaskStep(s)
        PROVE  Counts' /\ Flags' /\ task' \in [Tasks -> Task]
    <3>1. task' \in [Tasks -> Task]
      <4>1. IdleTask \in Task /\ [pc |-> "loaded", val |-> hdrCount] \in Task
            /\ [pc |-> "saved", val |-> 0] \in Task
        BY DEF IdleTask, Task
      <4>2. [task[s] EXCEPT !.pc = "previewed"] \in Task
            /\ [task[s] EXCEPT !.pc = "exposed"] \in Task
        BY DEF Task
      <4>3. \/ \E t \in Task : task' = [task EXCEPT ![s] = t]
            \/ task' = [task EXCEPT ![s].pc = "previewed"]
            \/ task' = [task EXCEPT ![s].pc = "exposed"]
        BY <2>6, <4>1, Zenon DEF TaskStep, TaskDrops, TaskLoads, TaskSaves, TaskPreviews,
                                 TaskEnds, TaskExposes, TaskShoots
      <4> QED
        BY <4>2, <4>3
    <3>2. CASE TaskDrops(s) \/ TaskLoads(s) \/ TaskPreviews(s) \/ TaskEnds(s)
      BY <2>6, <3>1, <3>2, Zenon
      DEF TaskStep, TaskDrops, TaskLoads, TaskPreviews, TaskEnds, StartPreview
    <3>3. CASE TaskSaves(s) \/ TaskExposes(s)
      <4>1. Counts'
        BY <3>3 DEF TaskSaves, TaskExposes, SetExposure, Task
      <4> QED
        BY <2>6, <3>1, <3>3, <4>1, Zenon DEF TaskStep, TaskSaves, TaskExposes
    <3>4. CASE TaskShoots(s)
      <4>1. owed + burst \in Nat /\ Append(taken, exposure) \in Seq(0..3)
        OBVIOUS
      <4> QED
        BY <2>6, <3>1, <3>4, <4>1, Zenon DEF TaskStep, TaskShoots, Shoot, TakePicture
    <3> QED
      BY <2>6, <3>2, <3>3, <3>4, Zenon DEF TaskStep
  <2>7. CASE UNCHANGED vars
    BY <2>7, Zenon DEF vars, picVars, bracketVars
  <2>8. ASSUME NEW s \in Tasks, TaskStep(s)
        PROVE  Fixed
    BY <2>8 DEF TaskStep
  <2> QED
    BY <2>b, <2>c, <2>1, <2>2, <2>3, <2>4, <2>5, <2>6, <2>7, <2>8, Zenon
    DEF Next, BracketUser, BracketLooper
<1> QED
  BY <1>2, <1>3, PTL DEF Spec
------------------------------------------------------------------------------
\* Three pictures of a bracket, one after the other.
LEMMA FirstGrows ==
  /\ Append(<<>>, 0) = First[1] /\ Append(First[1], 1) = First[2]
  /\ Append(First[2], 2) = First[3] /\ First[3] = Whole
  /\ Len(<<>>) < 4 /\ Len(First[1]) < 4 /\ Len(First[2]) < 4
<1>1. First[1] = <<0>> /\ First[2] = <<0, 1>> /\ First[3] = <<0, 1, 2>> /\ First[3] = Whole
  BY DEF First, Whole
<1>2. Append(<<>>, 0) = <<0>> /\ Len(<<>>) = 0
  OBVIOUS
<1>3. Append(<<0>>, 1) = <<0, 1>> /\ Len(<<0>>) = 1
  <2> DEFINE t == Append(<<0>>, 1)
  <2>1. t \in Seq(Nat) /\ Len(t) = 2
    OBVIOUS
  <2>2. t[1] = 0 /\ t[2] = 1
    OBVIOUS
  <2> HIDE DEF t
  <2>3. t = <<0, 1>>
    BY <2>1, <2>2
  <2> QED
    BY <2>3 DEF t
<1>4. Append(<<0, 1>>, 2) = <<0, 1, 2>> /\ Len(<<0, 1>>) = 2
  <2> DEFINE t == Append(<<0, 1>>, 2)
  <2>1. t \in Seq(Nat) /\ Len(t) = 3
    OBVIOUS
  <2>2. t[1] = 0 /\ t[2] = 1 /\ t[3] = 2
    OBVIOUS
  <2> HIDE DEF t
  <2>3. t = <<0, 1, 2>>
    BY <2>1, <2>2
  <2> QED
    BY <2>3 DEF t
<1>5. 0 < 4 /\ 1 < 4 /\ 2 < 4
  OBVIOUS
<1> QED
  BY <1>1, <1>2, <1>3, <1>4, <1>5, Zenon

\* A bracket of a camera that works.  Each action is about the one place where the
\* bracket is: the press, the camera or a thread.
LEMMA BracketStep ==
  ASSUME CameraFails = FALSE, TypeOK, BracketInv, [Next]_vars
  PROVE  BracketInv'
<1> DEFINE Fixed == UNCHANGED <<burst, saver, comparing, kind, user>>
           Free == \A s \in Tasks : task[s].pc = "idle"
           Calm == /\ cameraOpen /\ burst = 1
                   /\ isWorking <=> kind = "aebracket" /\ waitForPicture
                   /\ ~waitForPicture => preview
           Tasked == \A s \in Tasks : TaskInv(s)
<1>0. UNCHANGED <<kind, user>>
  BY Zenon DEF Next, PictureStep, BracketUser, BracketLooper, TaskStep, vars, bracketVars
<1> SUFFICES ASSUME Steady, Steady'
             PROVE  (BracketInPlace /\ Calm /\ PressInv /\ CameraInv /\ Tasked)'
  BY <1>0, Zenon DEF BracketInv, Steady
<1>1. BracketInPlace /\ Calm /\ PressInv /\ CameraInv /\ Tasked
  BY Zenon DEF BracketInv
<1>2. /\ owed \in Nat /\ hdrCount \in Nat /\ exposure \in 0..3
      /\ task \in [Tasks -> Task]
      /\ isWorking \in BOOLEAN /\ waitForPicture \in BOOLEAN /\ preview \in BOOLEAN
      /\ cameraOpen \in BOOLEAN /\ pressing \in BOOLEAN
  BY Zenon DEF TypeOK, PicTypeOK
<1>3. /\ kind \in BracketKinds
      /\ user = "patient" \/ (kind = "aebracket" /\ user = "hasty")
  BY Zenon DEF Steady
<1> USE DEF moduleVars, cameraVars
<1>4. CASE PressAny /\ Fixed
  <2>1. /\ ~pressing /\ ~waitForPicture /\ ~isWorking /\ preview /\ Fixed
        /\ UNCHANGED <<isWorking, cameraOpen, task>>
    BY <1>1, <1>3, <1>4, Zenon
    DEF PressAny, PressBracket, PressAeBracket, PressHardware, MayPress, Listens
  <2>2. Free /\ owed = 0
    BY <1>1, <1>2, <2>1 DEF BracketInPlace, Busy
  <2>3. CASE PressBracket \/ PressAeBracket
    <3>1. /\ pressing' /\ hdrCount' = 0 /\ exposure' = 0 /\ taken' = <<>>
          /\ UNCHANGED <<owed, preview>> /\ kind # "hardware"
          /\ kind = "bracket" <=> waitForPicture'
      <4>1. 0 < 3 /\ "bracket" # "hardware" /\ "aebracket" # "hardware"
            /\ "aebracket" # "bracket"
        OBVIOUS
      <4>2. CASE PressBracket
        BY <2>1, <4>1, <4>2, Zenon DEF PressBracket, SetExposure
      <4>3. CASE PressAeBracket
        <5>1. kind # "bracket" /\ ~waitForPicture'
          BY <2>1, <4>1, <4>3, Zenon DEF PressAeBracket
        <5> QED
          BY <4>1, <4>3, <5>1, Zenon DEF PressAeBracket, SetExposure
      <4> QED
        BY <2>3, <4>2, <4>3
    <3> QED
      BY <1>1, <1>2, <2>1, <2>2, <3>1
      DEF BracketInPlace, Busy, PressInv, CameraInv, TaskInv
  <2>4. CASE PressHardware
    <3>1. /\ UNCHANGED pressing /\ hdrCount' = 0 /\ owed' = 3 /\ taken' = Whole
          /\ kind = "hardware" /\ waitForPicture'
      BY <1>1, <2>1, <2>2, <2>4 DEF PressHardware
    <3> QED
      BY <1>1, <1>2, <2>1, <2>2, <3>1
      DEF BracketInPlace, Busy, PressInv, CameraInv, TaskInv
  <2> QED
    BY <1>4, <2>3, <2>4, Zenon DEF PressAny
<1>5. CASE PressShoots /\ Fixed
  <2>1. /\ pressing /\ ~pressing' /\ preview /\ owed = 0 /\ Free /\ kind # "hardware"
        /\ hdrCount = 0 /\ exposure = 0 /\ taken = <<>>
        /\ Fixed /\ UNCHANGED <<hdrCount, exposure, task>>
        /\ kind = "bracket" <=> waitForPicture
    BY <1>1, <1>2, <1>5 DEF PressShoots, BracketInPlace, PressInv, Busy
  <2>a. "aebracket" # "bracket" /\ 0 + 1 = 1 /\ 1 # 0
    OBVIOUS
  <2>b. (kind = "aebracket" => ~isWorking) /\ (kind = "bracket" => ~isWorking)
    BY <1>1, <2>1, <2>a, Zenon
  <2>2. owed' = 1 /\ taken' = First[1] /\ UNCHANGED cameraOpen
    BY <1>1, <1>5, <2>1, <2>a, <2>b, FirstGrows, Zenon
    DEF PressShoots, Shoot, DoWork, TakePicture
  <2>3. waitForPicture' /\ (isWorking' <=> kind = "aebracket")
    <3>1. CASE kind = "bracket"
      <4>1. UNCHANGED moduleVars
        BY <1>5, <2>a, <3>1, Zenon DEF PressShoots
      <4> QED
        BY <2>1, <2>a, <2>b, <3>1, <4>1, Zenon
    <3>2. CASE kind = "aebracket"
      <4>1. isWorking' = TRUE /\ waitForPicture' = TRUE
        BY <1>5, <2>a, <2>b, <3>2, Zenon DEF PressShoots, DoWork
      <4> QED
        BY <3>2, <4>1, Zenon
    <3> QED
      BY <1>5, <3>1, <3>2, Zenon DEF PressShoots
  <2> QED
    BY <1>1, <1>2, <2>1, <2>2, <2>3
    DEF BracketInPlace, Busy, PressInv, CameraInv, TaskInv
<1>6. CASE HardwarePicture /\ Fixed
  <2>1. /\ kind = "hardware" /\ ~pressing /\ UNCHANGED <<pressing, taken, task, cameraOpen>>
        /\ waitForPicture /\ Free /\ ~isWorking /\ ~isWorking' /\ Fixed
        /\ owed = 3 - hdrCount /\ hdrCount \in 0..2 /\ taken = Whole
    BY <1>1, <1>2, <1>6
    DEF HardwarePicture, Listens, CameraInv, BracketInPlace, TaskInv, Busy
  <2>2. CASE hdrCount # 2
    <3>1. hdrCount' = hdrCount + 1 /\ owed' = owed - 1 /\ waitForPicture'
      BY <1>6, <2>1, <2>2 DEF HardwarePicture
    <3> QED
      BY <1>1, <1>2, <2>1, <2>2, <3>1
      DEF BracketInPlace, Busy, PressInv, CameraInv, TaskInv
  <2>3. CASE hdrCount = 2
    <3>1. owed' = owed - 1 /\ ~waitForPicture' /\ preview'
      BY <1>1, <1>6, <2>1, <2>3, Zenon DEF HardwarePicture, StartPreview
    <3> QED
      BY <1>1, <1>2, <2>1, <2>3, <3>1
      DEF BracketInPlace, Busy, PressInv, CameraInv, TaskInv
  <2> QED
    BY <2>2, <2>3
<1>7. CASE BracketPicture /\ Fixed
  <2>1. /\ kind # "hardware" /\ ~pressing /\ Fixed /\ Free
        /\ UNCHANGED <<pressing, taken, cameraOpen, preview, hdrCount, exposure,
                       waitForPicture, isWorking>>
        /\ waitForPicture /\ owed = 1 /\ owed' = 0
        /\ hdrCount \in 0..2 /\ taken = First[hdrCount + 1]
    BY <1>1, <1>2, <1>7 DEF BracketPicture, Listens, CameraInv, BracketInPlace, Busy
  <2>2. PICK s \in Tasks : task' = [task EXCEPT ![s].pc = "spawned"]
    BY <1>7, Zenon DEF BracketPicture
  <2>3. task'[s].pc = "spawned" /\ \A t \in Tasks : t # s => task'[t].pc = "idle"
    BY <1>2, <2>1, <2>2 DEF Task
  <2> QED
    BY <1>1, <1>2, <2>1, <2>3
    DEF BracketInPlace, Busy, PressInv, CameraInv, TaskInv
<1>8. ASSUME NEW s \in Tasks, TaskStep(s)
      PROVE  (BracketInPlace /\ Calm /\ PressInv /\ CameraInv /\ Tasked)'
  <2>1. Fixed /\ UNCHANGED pressing /\ task[s].pc # "idle"
    BY <1>8 DEF TaskStep, TaskDrops, TaskLoads, TaskSaves, TaskPreviews, TaskEnds,
                TaskExposes, TaskShoots
  <2>2. /\ ~pressing /\ owed = 0 /\ waitForPicture /\ kind # "hardware"
        /\ \A t \in Tasks : t # s => task[t].pc = "idle"
    BY <1>1, <1>2, <2>1 DEF BracketInPlace, TaskInv, Busy
  <2>3. \A t \in Tasks : t # s => task'[t] = task[t]
    BY <1>2, <1>8 DEF TaskStep, TaskDrops, TaskLoads, TaskSaves, TaskPreviews,
                      TaskEnds, TaskExposes, TaskShoots
  <2>4. task[s] \in Task /\ TaskInv(s)
    BY <1>1, <1>2
  <2>5. CASE TaskLoads(s)
    <3>1. task'[s] = [pc |-> "loaded", val |-> hdrCount]
      BY <1>2, <2>5 DEF TaskLoads
    <3>2. UNCHANGED <<moduleVars, cameraVars, hdrCount, exposure, taken>> /\ task[s].pc = "spawned"
      BY <2>5, Zenon DEF TaskLoads
    <3> QED
      BY <1>1, <1>2, <2>1, <2>2, <2>3, <2>4, <3>1, <3>2
      DEF BracketInPlace, Busy, PressInv, CameraInv, TaskInv
  <2>6. CASE TaskSaves(s)
    <3>1. task'[s].pc = "saved"
      BY <1>2, <2>6 DEF TaskSaves
    <3>2. /\ UNCHANGED <<moduleVars, cameraVars, exposure, taken>>
          /\ hdrCount \in 0..2 /\ taken = First[hdrCount + 1]
      BY <2>4, <2>6 DEF TaskSaves, TaskInv
    <3>3. hdrCount' = hdrCount + 1
      <4>1. task[s].val = hdrCount
        BY <2>4, <2>6 DEF TaskSaves, TaskInv
      <4> QED
        BY <2>6, <3>2, <4>1, PictureAssumption, BracketAssumption DEF TaskSaves
    <3> QED
      BY <1>1, <1>2, <2>1, <2>2, <2>3, <2>4, <3>1, <3>2, <3>3
      DEF BracketInPlace, Busy, PressInv, CameraInv, TaskInv
  <2>7. CASE TaskPreviews(s)
    <3>1. task'[s].pc = "previewed" /\ task[s].pc = "saved"
      BY <1>2, <2>7 DEF TaskPreviews
    <3>2. /\ UNCHANGED <<moduleVars, cameraOpen, owed, hdrCount, exposure, taken>>
          /\ preview'
      BY <1>1, <2>7, Zenon DEF TaskPreviews, StartPreview
    <3> QED
      BY <1>1, <1>2, <2>1, <2>2, <2>3, <2>4, <3>1, <3>2
      DEF BracketInPlace, Busy, PressInv, CameraInv, TaskInv
  <2>8. CASE TaskExposes(s)
    <3>1. task'[s].pc = "exposed" /\ task[s].pc = "previewed" /\ hdrCount # 3
      BY <1>2, <2>8 DEF TaskExposes
    <3>2. UNCHANGED <<moduleVars, cameraVars, hdrCount, taken>>
      BY <2>8, Zenon DEF TaskExposes
    <3>3. hdrCount \in 1..2 /\ exposure' = hdrCount
      BY <2>4, <2>8, <3>1 DEF TaskExposes, SetExposure, TaskInv
    <3> QED
      BY <1>1, <1>2, <2>1, <2>2, <2>3, <2>4, <3>1, <3>2, <3>3
      DEF BracketInPlace, Busy, PressInv, CameraInv, TaskInv
  <2>9. CASE TaskEnds(s) \/ TaskDrops(s)
    <3>1. TaskEnds(s) /\ task'[s].pc = "idle" /\ task[s].pc = "previewed"
      BY <1>2, <2>2, <2>9 DEF TaskEnds, TaskDrops, IdleTask
    <3>2. /\ UNCHANGED <<cameraVars, hdrCount, exposure, taken>>
          /\ ~waitForPicture' /\ ~isWorking'
      BY <3>1, Zenon DEF TaskEnds
    <3>3. preview
      BY <2>4, <3>1 DEF TaskInv
    <3> QED
      BY <1>1, <1>2, <2>1, <2>2, <2>3, <3>1, <3>2, <3>3
      DEF BracketInPlace, Busy, PressInv, CameraInv, TaskInv
  <2>10. CASE TaskShoots(s)
    <3>1. /\ task'[s].pc = "idle" /\ task[s].pc = "exposed"
          /\ UNCHANGED <<moduleVars, hdrCount, exposure>>
      BY <1>2, <2>10 DEF TaskShoots, IdleTask
    <3>2. /\ preview /\ hdrCount \in 1..2 /\ exposure = hdrCount /\ taken = First[hdrCount]
      BY <2>4, <3>1 DEF TaskInv
    <3>3. 0 + 1 = 1 /\ 1 # 0
      OBVIOUS
    <3>4. owed' = 1 /\ UNCHANGED cameraOpen
          /\ taken' = (IF Len(taken) < 4 THEN Append(taken, exposure) ELSE taken)
      BY <1>1, <2>2, <2>10, <3>2, <3>3, Zenon DEF TaskShoots, Shoot, TakePicture
    <3>5. taken' = First[hdrCount + 1]
      <4>1. CASE hdrCount = 1
        <5>1. hdrCount + 1 = 2
          BY <4>1
        <5> QED
          BY <3>2, <3>4, <4>1, <5>1, FirstGrows, Zenon
      <4>2. CASE hdrCount = 2
        <5>1. hdrCount + 1 = 3
          BY <4>2
        <5> QED
          BY <3>2, <3>4, <4>2, <5>1, FirstGrows, Zenon
      <4> QED
        BY <3>2, <4>1, <4>2
    <3>6. /\ \A t \in Tasks : task'[t].pc = "idle"
          /\ waitForPicture' /\ ~pressing' /\ owed' = 1 /\ hdrCount' \in 0..2
          /\ exposure' = hdrCount' /\ taken' = First[hdrCount' + 1] /\ kind' # "hardware"
      <4>1. \A t \in Tasks : task'[t].pc = "idle"
        BY <2>2, <2>3, <3>1, Zenon
      <4>2. hdrCount' \in 0..2
        BY <3>1, <3>2
      <4> QED
        BY <2>1, <2>2, <3>1, <3>2, <3>4, <3>5, <4>1, <4>2, Zenon
    <3>7. Calm'
      BY <1>1, <2>1, <3>1, <3>4, <3>6, Zenon
    <3>8. BracketInPlace' /\ Tasked' /\ PressInv'
      BY <3>6 DEF BracketInPlace, Busy, PressInv, TaskInv
    <3>9. CameraInv'
      BY <3>6 DEF CameraInv
    <3> QED
      BY <3>7, <3>8, <3>9, Zenon
  <2> QED
    BY <1>8, <2>5, <2>6, <2>7, <2>8, <2>9, <2>10, Zenon DEF TaskStep
<1>9. CASE UNCHANGED vars
  BY <1>1, <1>9, Zenon DEF vars, picVars, bracketVars, BracketInPlace, Busy, PressInv,
                           CameraInv, TaskInv, Steady
<1>10. ~PictureStep /\ ~Resume /\ (user = "leaving" => FALSE)
  BY <1>1, <1>3, Zenon DEF PictureStep, BracketKinds, Resume, OpenCamera
<1> QED
  BY <1>4, <1>5, <1>6, <1>7, <1>8, <1>9, <1>10, Zenon
  DEF Next, BracketUser, BracketLooper

\* The invariant of an undisturbed bracket.
THEOREM BracketCorrect == CameraFails = FALSE => (Spec => []BracketInv)
<1> SUFFICES ASSUME CameraFails = FALSE
             PROVE  Spec => []BracketInv
  OBVIOUS
<1>1. Init => BracketInv
  BY DEF Init, PicInit, BracketInv, BracketInPlace, Steady, PressInv, CameraInv, TaskInv,
         Busy, IdleTask, BracketKinds
<1>2. TypeOK /\ BracketInv /\ [Next]_vars => BracketInv'
  BY BracketStep
<1> QED
  BY <1>1, <1>2, BracketTypeCorrect, PTL DEF Spec

\* The bracket is in one place, whatever the threads' speed: no two of them ever
\* count, and while it goes on somebody will take or report the next picture.
THEOREM BracketStaysInPlace == CameraFails = FALSE => (Spec => []BracketInPlace)
<1>1. BracketInv => BracketInPlace
  BY DEF BracketInv, BracketInPlace
<1> QED
  BY <1>1, BracketCorrect, PTL

\* A bracket is over when it has its three exposures, in their order, and no picture
\* is to come.
THEOREM BracketsAreWhole == CameraFails = FALSE => (Spec => BracketIsWhole)
<1> SUFFICES ASSUME CameraFails = FALSE
             PROVE  Spec => BracketIsWhole
  OBVIOUS
<1>1. ASSUME TypeOK, BracketInv, [Next]_vars, Steady, waitForPicture, ~waitForPicture'
      PROVE  taken = Whole /\ owed' = 0
  <2>1. \/ HardwarePicture
        \/ \E s \in Tasks : TaskEnds(s)
    BY <1>1, Zenon
    DEF Next, PictureStep, BracketUser, BracketLooper, TaskStep, PressAny, PressBracket,
        PressAeBracket, PressHardware, PressShoots, BracketPicture, TaskDrops, TaskLoads,
        TaskSaves, TaskPreviews, TaskExposes, TaskShoots, DoWork, Pause, Resume, InitModule,
        Shoot, Steady, BracketKinds, moduleVars, cameraVars, vars, picVars
  <2>2. CASE HardwarePicture
    <3>1. /\ kind = "hardware" /\ hdrCount = 2 /\ owed > 0 /\ owed' = owed - 1
          /\ UNCHANGED taken
      BY <1>1, <2>2, Zenon DEF HardwarePicture
    <3>2. owed = 3 - hdrCount /\ taken = Whole
      BY <1>1, <3>1, Zenon DEF BracketInv, CameraInv
    <3> QED
      BY <3>1, <3>2
  <2>3. ASSUME NEW s \in Tasks, TaskEnds(s)
        PROVE  taken = Whole /\ owed' = 0
    <3>1. owed = 0 /\ taken = First[3]
      BY <1>1, <2>3 DEF TaskEnds, BracketInv, BracketInPlace, TaskInv, Busy, TypeOK, PicTypeOK
    <3> QED
      BY <2>3, <3>1, FirstGrows, Zenon DEF TaskEnds, cameraVars
  <2> QED
    BY <2>1, <2>2, <2>3
<1>2. TypeOK /\ BracketInv /\ [Next]_vars
        => [Steady /\ waitForPicture /\ ~waitForPicture' => taken = Whole /\ owed' = 0]_vars
  BY <1>1
<1> QED
  BY <1>2, BracketTypeCorrect, BracketCorrect, PTL DEF Spec, BracketIsWhole
------------------------------------------------------------------------------
\* The picture module alone: no thread of a bracket is started.
LEMMA AloneStep ==
  ASSUME TypeOK, Alone, [Next]_vars
  PROVE  Alone' /\ (kind = "picture" => PictureStep \/ UNCHANGED vars)
<1> USE DEF Busy, Alone
<1>1. UNCHANGED <<kind, user>>
  BY Zenon DEF Next, PictureStep, BracketUser, BracketLooper, TaskStep, vars, bracketVars
<1>2. kind = "picture" => PictureStep \/ UNCHANGED vars
  <2> SUFFICES ASSUME kind = "picture"
               PROVE  PictureStep \/ UNCHANGED vars
    OBVIOUS
  <2>1. ~BracketUser
    BY DEF BracketUser, PressAny, PressBracket, PressAeBracket, PressHardware, MayPress, Listens
  <2>2. ~BracketLooper
    BY DEF BracketLooper, PressShoots, HardwarePicture, BracketPicture, Listens
  <2>3. \A s \in Tasks : ~TaskStep(s)
    BY DEF TaskStep, TaskDrops, TaskLoads, TaskSaves, TaskPreviews, TaskEnds, TaskExposes,
           TaskShoots
  <2> QED
    BY <2>1, <2>2, <2>3, Zenon DEF Next
<1>3. PictureStep \/ UNCHANGED vars => UNCHANGED <<pressing, task>>
  BY Zenon DEF PictureStep, bracketVars, vars
<1> QED
  BY <1>1, <1>2, <1>3

\* The shutter button of a camera that works, one step of the picture module.
LEMMA HonestStep ==
  ASSUME CameraFails = FALSE, TypeOK, HonestInv, [Next]_vars
  PROVE  HonestInv'
<1> SUFFICES ASSUME kind = "picture", PictureStep
             PROVE  (/\ isWorking => waitForPicture
                     /\ FreeMeansReady /\ NoLostCapture)'
  <2>1. CASE UNCHANGED vars
    BY <2>1, AloneStep, Zenon
    DEF HonestInv, FreeMeansReady, NoLostCapture, vars, picVars, bracketVars, moduleVars, cameraVars
  <2>2. CASE kind # "picture"
    <3>1. kind' # "picture"
      BY <2>2, Zenon
      DEF Next, PictureStep, BracketUser, BracketLooper, TaskStep, vars, bracketVars
    <3> QED
      BY <3>1, AloneStep, Zenon DEF HonestInv
  <2> QED
    BY <2>1, <2>2, AloneStep, Zenon DEF HonestInv
<1>1. /\ isWorking => waitForPicture
      /\ ~isWorking /\ cameraOpen => preview
      /\ isWorking /\ cameraOpen /\ burst = 1 => owed > 0
      /\ burst \in Nat /\ burst > 0 /\ owed \in Nat
  BY PictureAssumption DEF HonestInv, FreeMeansReady, NoLostCapture, TypeOK, PicTypeOK
<1> USE DEF FreeMeansReady, NoLostCapture, moduleVars, cameraVars
<1> DEFINE Owing == owed > 0
<1>a. ASSUME Owing' = Owing, UNCHANGED <<isWorking, waitForPicture, cameraOpen, preview, burst>>
      PROVE  (/\ isWorking => waitForPicture
              /\ FreeMeansReady /\ NoLostCapture)'
  <2>1. isWorking /\ cameraOpen /\ burst = 1 => Owing
    BY <1>1
  <2> HIDE DEF Owing
  <2>2. isWorking' /\ cameraOpen' /\ burst' = 1 => Owing'
    BY <1>a, <2>1, Zenon
  <2>3. (isWorking => waitForPicture)' /\ FreeMeansReady'
    BY <1>1, <1>a, Zenon
  <2> QED
    BY <2>2, <2>3, Zenon DEF Owing
<1>2. CASE Press
  <2>1. CASE isWorking
    <3>1. UNCHANGED <<owed, isWorking, waitForPicture, cameraOpen, preview, burst>>
      BY <1>2, <2>1, Zenon DEF Press, DoWork
    <3> QED
      BY <1>a, <3>1
  <2>2. CASE ~isWorking
    <3>1. isWorking' /\ waitForPicture' /\ UNCHANGED cameraOpen
      BY <1>2, <2>2, Zenon DEF Press, DoWork, TakePicture
    <3>2. cameraOpen => owed' = owed + burst
      BY <1>1, <1>2, <2>2, Zenon DEF Press, DoWork, TakePicture
    <3>3. owed + burst > 0
      BY <1>1
    <3> QED
      BY <3>1, <3>2, <3>3, Zenon
  <2> QED
    BY <2>1, <2>2
<1>3. CASE UnexpectedPicture
  BY <1>1, <1>3, Zenon DEF UnexpectedPicture, StartPreview
<1>4. CASE SinglePicture
  BY <1>4, Zenon DEF SinglePicture, FinishCapture, StartPreview
<1>5. CASE BurstPicture
  <2>1. burst # 1
    BY <1>5 DEF BurstPicture
  <2> QED
    BY <1>1, <1>5, <2>1, Zenon DEF BurstPicture
<1>6. CASE Compare
  <2>1. CASE BurstGoesOn
    <3>1. UNCHANGED <<owed, isWorking, waitForPicture, cameraOpen, preview, burst>>
      BY <2>1, Zenon DEF BurstGoesOn
    <3> QED
      BY <1>a, <3>1
  <2>2. CASE BurstDone
    BY <2>2, Zenon DEF BurstDone, FinishCapture, StartPreview
  <2> QED
    BY <1>6, <2>1, <2>2 DEF Compare
<1>7. CASE Pause \/ Resume
  <2>1. CASE Pause
    <3>1. ~cameraOpen' /\ (isWorking' => waitForPicture')
      BY <1>1, <2>1, Zenon DEF Pause, CloseCamera
    <3> QED
      BY <3>1, Zenon
  <2>2. CASE Resume
    <3>1. ~isWorking' /\ preview'
      BY <2>2, Zenon DEF Resume, OpenCamera, InitModule
    <3> QED
      BY <3>1, Zenon
  <2> QED
    BY <1>7, <2>1, <2>2
<1>8. ASSUME NEW s \in Savers, Save(s)
      PROVE  (/\ isWorking => waitForPicture
              /\ FreeMeansReady /\ NoLostCapture)'
  <2>1. UNCHANGED <<owed, isWorking, waitForPicture, cameraOpen, preview, burst>>
    BY <1>8, Zenon DEF Save, SaverLoads, SaverStores
  <2> QED
    BY <1>a, <2>1
<1> QED
  BY <1>2, <1>3, <1>4, <1>5, <1>6, <1>7, <1>8, Zenon DEF PictureStep, PicNext, OnPictureTaken

\* The invariant of the picture module's captures.
THEOREM CapturesCorrect == CameraFails = FALSE => (Spec => []HonestInv)
<1> SUFFICES ASSUME CameraFails = FALSE
             PROVE  Spec => []HonestInv
  OBVIOUS
<1>1. Init => HonestInv
  BY DEF Init, PicInit, HonestInv, Alone, FreeMeansReady, NoLostCapture, Busy, IdleTask
<1>2. TypeOK /\ HonestInv /\ [Next]_vars => HonestInv'
  BY HonestStep
<1> QED
  BY <1>1, <1>2, BracketTypeCorrect, PTL DEF Spec

\* The shutter button of a camera that works is honest: a single capture in progress
\* has its picture to come, and a module that takes presses can take pictures.
THEOREM ShutterCorrect == CameraFails = FALSE => (Spec => []ShutterIsHonest)
<1>1. TypeOK /\ HonestInv /\ BracketInv => ShutterIsHonest
  <2> SUFFICES ASSUME TypeOK, HonestInv, BracketInv
               PROVE  ShutterIsHonest
    OBVIOUS
  <2>1. kind = "picture" => NoLostCapture /\ FreeMeansReady
    BY Zenon DEF HonestInv
  <2>2. CASE kind = "aebracket" /\ user # "leaving"
    <3>1. Steady
      BY <2>2 DEF Steady, BracketKinds, TypeOK
    <3> QED
      BY <2>1, <2>2, <3>1, Zenon DEF ShutterIsHonest, BracketInv, FreeMeansReady
  <2> QED
    BY <2>1, <2>2, Zenon DEF ShutterIsHonest, Guarded
<1> QED
  BY <1>1, BracketTypeCorrect, BracketCorrect, CapturesCorrect, PTL
------------------------------------------------------------------------------
\* The number of savers that still have to count is one of a finite set.
LEMMA CountingType == Cardinality(Counting) \in Nat /\ IsFiniteSet(Counting)
<1>1. Counting \in SUBSET Savers /\ IsFiniteSet(Savers)
  BY PictureAssumption DEF Counting
<1>2. IsFiniteSet(Counting)
  BY <1>1, FS_Subset, Zenon
<1> QED
  BY <1>2, FS_CardinalityType, Zenon

\* A picture delivered to a burst is one more to count.
LEMMA SpawnCounts ==
  ASSUME TypeOK, SpawnSaver
  PROVE  /\ Cardinality(Counting') = Cardinality(Counting) + 1
         /\ \A s \in Savers : saver'[s].pc = "loaded" => saver'[s] = saver[s]
<1>1. PICK s \in Savers : saver[s].pc = "idle" /\ saver' = [saver EXCEPT ![s].pc = "spawned"]
  BY Zenon DEF SpawnSaver
<1>2. saver \in [Savers -> Saver]
  BY DEF TypeOK, PicTypeOK
<1>3. saver'[s].pc = "spawned" /\ \A t \in Savers : t # s => saver'[t] = saver[t]
  BY <1>1, <1>2 DEF Saver
<1>4. Counting' = Counting \cup {s} /\ s \notin Counting
  BY <1>1, <1>3 DEF Counting
<1>5. Cardinality(Counting \cup {s}) = Cardinality(Counting) + 1
  BY <1>4, CountingType, FS_AddElement, Zenon
<1> QED
  BY <1>3, <1>4, <1>5

\* However the savers of a burst load and store, a store adds one at most to what
\* bounds all the loaded values, and there is one saver less to count.
LEMMA SaveCounts ==
  ASSUME TypeOK, NEW s \in Savers, Save(s), NEW M \in Nat, BoundedBy(M)
  PROVE  \E N \in Nat : BoundedBy(N)'
<1>1. saver \in [Savers -> Saver] /\ burstcount \in Nat /\ owed \in Nat /\ burst \in Nat
  BY PictureAssumption DEF TypeOK, PicTypeOK
<1>2. UNCHANGED <<owed, burst>>
  BY DEF Save, SaverLoads, SaverStores, cameraVars
<1>3. CASE SaverLoads(s)
  <2>1. UNCHANGED burstcount /\ saver[s].pc = "spawned"
    BY <1>3 DEF SaverLoads, moduleVars
  <2>2. /\ saver'[s] = [pc |-> "loaded", val |-> burstcount]
        /\ \A t \in Savers : t # s => saver'[t] = saver[t]
    BY <1>1, <1>3 DEF SaverLoads
  <2>3. Counting' = Counting
    BY <2>1, <2>2 DEF Counting
  <2>4. BoundedBy(M)'
    BY <1>2, <2>1, <2>2, <2>3 DEF BoundedBy
  <2> QED
    BY <2>4
<1>4. CASE SaverStores(s)
  <2>1. saver[s].pc = "loaded" /\ saver[s].val \in Nat /\ saver[s].val <= M
    BY <1>1, <1>4 DEF SaverStores, BoundedBy, Saver
  <2>2. burstcount' <= M + 1
    BY <1>4, <2>1, PictureAssumption DEF SaverStores
  <2>3. saver'[s].pc = "idle" /\ \A t \in Savers : t # s => saver'[t] = saver[t]
    BY <1>1, <1>4 DEF SaverStores, IdleSaver
  <2>4. Counting' = Counting \ {s} /\ s \in Counting
    BY <2>1, <2>3 DEF Counting
  <2>5. Cardinality(Counting \ {s}) = Cardinality(Counting) - 1
    BY <2>4, CountingType, FS_RemoveElement, Zenon
  <2>6. Cardinality(Counting') = Cardinality(Counting) - 1
    BY <2>4, <2>5
  <2>7. \A t \in Savers : saver'[t].pc = "loaded" => saver'[t].val <= M + 1
    <3> SUFFICES ASSUME NEW t \in Savers, saver'[t].pc = "loaded"
                 PROVE  saver'[t].val <= M + 1
      OBVIOUS
    <3>1. saver'[t] = saver[t]
      BY <2>3
    <3>2. saver[t].val \in Nat /\ saver[t].val <= M
      BY <1>1, <3>1 DEF BoundedBy, Saver
    <3> QED
      BY <3>1, <3>2
  <2>8. (M + 1) + Cardinality(Counting') + owed' <= burst'
    BY <1>1, <1>2, <2>6, CountingType DEF BoundedBy
  <2>9. BoundedBy(M + 1)'
    BY <1>2, <2>2, <2>7, <2>8 DEF BoundedBy
  <2> QED
    BY <2>9
<1> QED
  BY <1>3, <1>4 DEF Save

\* One step of a burst that the camera is not closed under.
LEMMA BurstStep ==
  ASSUME TypeOK, BurstInv, [Next]_vars
  PROVE  BurstInv'
<1> DEFINE Bounded == \E M \in Nat : BoundedBy(M)
           Kept == /\ cameraOpen
                   /\ waitForPicture \/ comparing => isWorking
                   /\ ~isWorking => owed = 0 /\ Counting = {}
                   /\ isWorking => Bounded
<1> SUFFICES ASSUME Uncut, Uncut', PictureStep
             PROVE  Kept'
  <2>1. CASE UNCHANGED vars
    <3>1. Counting' = Counting
      BY <2>1 DEF vars, picVars, Counting
    <3>2. Bounded' <=> Bounded
      BY <2>1, <3>1, Zenon DEF vars, picVars, moduleVars, cameraVars, BoundedBy
    <3>3. Uncut' <=> Uncut
      BY <2>1, Zenon DEF vars, picVars, bracketVars, Uncut
    <3> HIDE DEF Bounded
    <3>4. Uncut => Kept'
      BY <2>1, <3>1, <3>2, Zenon DEF vars, picVars, moduleVars, cameraVars, BurstInv, Bounded
    <3> QED
      BY <3>3, <3>4, AloneStep, Zenon DEF BurstInv, Bounded
  <2>2. CASE kind # "picture"
    <3>1. kind' # "picture"
      BY <2>2, Zenon
      DEF Next, PictureStep, BracketUser, BracketLooper, TaskStep, vars, bracketVars
    <3> QED
      BY <3>1, AloneStep, Zenon DEF BurstInv, Uncut
  <2>3. CASE PictureStep
    <3>1. UNCHANGED burst
      BY <2>3, Zenon
      DEF PictureStep, PicNext, Press, OnPictureTaken, UnexpectedPicture, SinglePicture,
          BurstPicture, Compare, BurstGoesOn, BurstDone, Pause, CloseCamera, Resume,
          OpenCamera, Save, SaverLoads, SaverStores
    <3>2. Uncut' <=> Uncut
      BY <2>3, <3>1, Zenon DEF PictureStep, bracketVars, Uncut
    <3> QED
      BY <2>3, <3>2, AloneStep, Zenon DEF BurstInv
  <2> QED
    BY <2>1, <2>2, <2>3, AloneStep, Zenon DEF BurstInv
<1>1. Kept /\ cameraOpen'
  BY Zenon DEF BurstInv, PictureStep, Uncut
<1>2. burst > 1 /\ burst \in Nat /\ owed \in Nat /\ burstcount \in Nat
  BY PictureAssumption DEF Uncut, TypeOK, PicTypeOK
<1> HIDE DEF Bounded
<1> USE DEF moduleVars, cameraVars
<1>3. CASE Press
  <2>1. UNCHANGED <<saver, comparing, burst>> /\ Counting' = Counting
    BY <1>3 DEF Press, Counting
  <2>2. CASE isWorking
    <3>1. UNCHANGED <<isWorking, waitForPicture, burstcount, owed>>
      BY <1>3, <2>2, Zenon DEF Press, DoWork
    <3>2. Bounded' <=> Bounded
      BY <2>1, <3>1, Zenon DEF Bounded, BoundedBy
    <3> QED
      BY <1>1, <2>1, <2>2, <3>1, <3>2, Zenon
  <2>3. CASE ~isWorking
    <3>1. isWorking' /\ burstcount' = 0 /\ (owed' = owed + burst \/ owed' = owed)
      BY <1>3, <2>3, Zenon DEF Press, DoWork, TakePicture
    <3>2. Counting = {} /\ owed = 0
      BY <1>1, <2>3, Zenon
    <3>3. \A s \in Savers : saver'[s].pc # "loaded"
      BY <2>1, <3>2 DEF Counting
    <3>4. Cardinality(Counting') = 0
      BY <2>1, <3>2, FS_EmptySet
    <3>5. BoundedBy(0)'
      BY <1>2, <2>1, <3>1, <3>2, <3>3, <3>4 DEF BoundedBy
    <3> QED
      BY <1>1, <3>1, <3>5, Zenon DEF Bounded
  <2> QED
    BY <2>2, <2>3
<1>4. CASE OnPictureTaken
  <2>1. CASE UnexpectedPicture
    <3>1. owed > 0 /\ ~waitForPicture /\ owed' = owed - 1
      BY <2>1, Zenon DEF UnexpectedPicture
    <3>2. isWorking
      BY <1>1, <1>2, <3>1
    <3>3. UNCHANGED <<isWorking, waitForPicture, burstcount, burst, saver, comparing>>
      BY <2>1, Zenon DEF UnexpectedPicture
    <3>4. Counting' = Counting
      BY <3>3 DEF Counting
    <3>5. PICK M \in Nat : BoundedBy(M)
      BY <1>1, <3>2, Zenon DEF Bounded
    <3>6. BoundedBy(M)'
      BY <1>2, <3>1, <3>3, <3>4, <3>5, CountingType DEF BoundedBy
    <3> QED
      BY <1>1, <3>2, <3>3, <3>6, Zenon DEF Bounded
  <2>2. ~SinglePicture
    BY <1>2 DEF SinglePicture
  <2>3. CASE BurstPicture
    <3>1. owed > 0 /\ waitForPicture /\ owed' = owed - 1 /\ SpawnSaver
      BY <2>3, Zenon DEF BurstPicture
    <3>2. isWorking
      BY <1>1, <3>1, Zenon
    <3>3. UNCHANGED <<isWorking, waitForPicture, burstcount, burst>>
      BY <2>3, Zenon DEF BurstPicture
    <3>4. PICK M \in Nat : BoundedBy(M)
      BY <1>1, <3>2, Zenon DEF Bounded
    <3>5. \A s \in Savers : saver'[s].pc = "loaded" => saver'[s].val <= M
      BY <3>1, <3>4, SpawnCounts, Zenon DEF BoundedBy
    <3>6. M + Cardinality(Counting') + owed' <= burst'
      BY <1>2, <3>1, <3>3, <3>4, SpawnCounts, CountingType DEF BoundedBy
    <3>7. BoundedBy(M)'
      BY <3>3, <3>4, <3>5, <3>6, Zenon DEF BoundedBy
    <3> QED
      BY <1>1, <3>2, <3>3, <3>7, Zenon DEF Bounded
  <2> QED
    BY <1>4, <2>1, <2>2, <2>3, Zenon DEF OnPictureTaken
<1>5. CASE BurstGoesOn
  <2>1. UNCHANGED <<isWorking, waitForPicture, burstcount, burst, saver, owed>> /\ ~comparing'
    BY <1>5, Zenon DEF BurstGoesOn
  <2>2. Counting' = Counting
    BY <2>1 DEF Counting
  <2>3. Bounded' <=> Bounded
    BY <2>1, <2>2, Zenon DEF Bounded, BoundedBy
  <2> QED
    BY <1>1, <2>1, <2>2, <2>3, Zenon
<1>6. CASE BurstDone
  <2>1. /\ comparing /\ burstcount = burst /\ UNCHANGED <<saver, owed, burst>>
        /\ ~isWorking' /\ ~waitForPicture' /\ ~comparing'
    BY <1>6, Zenon DEF BurstDone, FinishCapture
  <2>2. PICK M \in Nat : BoundedBy(M)
    BY <1>1, <2>1, Zenon DEF Bounded
  <2>3. Cardinality(Counting) = 0 /\ owed = 0
    BY <1>2, <2>1, <2>2, CountingType DEF BoundedBy
  <2>4. Counting = {}
    BY <2>3, CountingType, FS_EmptySet, Zenon
  <2>5. Counting' = Counting
    BY <2>1 DEF Counting
  <2> QED
    BY <1>1, <2>1, <2>3, <2>4, <2>5, Zenon
<1>7. ~Pause /\ ~Resume
  BY <1>1, Zenon DEF Pause, CloseCamera, Resume, OpenCamera
<1>8. ASSUME NEW s \in Savers, Save(s)
      PROVE  Kept'
  <2>1. UNCHANGED <<isWorking, waitForPicture, comparing, owed>> /\ s \in Counting
    BY <1>8 DEF Save, SaverLoads, SaverStores, Counting
  <2>2. isWorking
    BY <1>1, <2>1, Zenon
  <2>3. Bounded'
    BY <1>1, <1>8, <2>2, SaveCounts, Zenon DEF Bounded
  <2> QED
    BY <1>1, <2>1, <2>2, <2>3, Zenon
<1> QED
  BY <1>3, <1>4, <1>5, <1>6, <1>7, <1>8, Zenon DEF PictureStep, PicNext, Compare

\* The invariant of a burst.
THEOREM BurstCorrect == Spec => []BurstInv
<1>1. Init => BurstInv
  <2> SUFFICES ASSUME Init
               PROVE  BurstInv
    OBVIOUS
  <2>1. Alone
    BY DEF Init, Alone, Busy, IdleTask
  <2>2. Counting = {}
    BY DEF Init, PicInit, Counting, IdleSaver
  <2> QED
    BY <2>1, <2>2, Zenon DEF Init, PicInit, BurstInv
<1>2. TypeOK /\ BurstInv /\ [Next]_vars => BurstInv'
  BY BurstStep
<1> QED
  BY <1>1, <1>2, BracketTypeCorrect, PTL DEF Spec

\* No picture of a burst is counted twice, and no saver of one is left for the next,
\* for every burst, any number of savers and any camera.
THEOREM BurstsAreCounted == Spec => []BurstCounted
<1>1. TypeOK /\ BurstInv => BurstCounted
  <2> SUFFICES ASSUME TypeOK, BurstInv, Uncut
               PROVE  BurstCountBounded /\ NoStaleSaver
    BY DEF BurstCounted
  <2>1. burst \in Nat /\ owed \in Nat /\ burstcount \in Nat
    BY PictureAssumption DEF TypeOK, PicTypeOK
  <2>2. ASSUME isWorking
        PROVE  burstcount + Cardinality(Counting) + owed <= burst
    <3>1. PICK M \in Nat : BoundedBy(M)
      BY <2>2, Zenon DEF BurstInv
    <3> QED
      BY <2>1, <3>1, CountingType DEF BoundedBy
  <2> QED
    BY <2>2, Zenon DEF BurstInv, BurstCountBounded, NoStaleSaver
<1> QED
  BY <1>1, BracketTypeCorrect, BurstCorrect, PTL

\* A burst is not reported done before its last picture has arrived.
THEOREM BurstsAreWhole == Spec => BurstIsWhole
<1>1. ASSUME TypeOK, BurstInv, Uncut, BurstDone
      PROVE  owed = 0
  <2>1. burst \in Nat /\ owed \in Nat /\ comparing /\ burstcount = burst
    BY <1>1, PictureAssumption DEF TypeOK, PicTypeOK, BurstDone
  <2>2. PICK M \in Nat : BoundedBy(M)
    BY <1>1, <2>1, Zenon DEF BurstInv
  <2> QED
    BY <2>1, <2>2, CountingType DEF BoundedBy
<1>2. TypeOK /\ BurstInv /\ [Next]_vars => [Uncut /\ BurstDone => owed = 0]_vars
  BY <1>1
<1> QED
  BY <1>2, BracketTypeCorrect, BurstCorrect, PTL DEF Spec, BurstIsWhole
=============================================================================
