------------------------ MODULE SonyConnection_proofs ------------------------
(***************************************************************************)
(* Proofs about the connection to a Sony remote camera, for any number of  *)
(* threads: the flags that let a search or an event loop refuse to start   *)
(* are never set for nothing, the camera is known before it is opened,     *)
(* and in a calm world there is never more than one event loop, and the    *)
(* threads implement Connection.                                           *)
(***************************************************************************)
EXTENDS SonyConnection, TLAPS

\* Every variable keeps its type.
THEOREM SonyTypeCorrect == Spec => []TypeOK
<1> DEFINE Counted == timeouts \in Nat /\ retries \in Nat
           Threads == /\ search \in [Searchers -> {"idle", "sending", "receiving", "found"}]
                      /\ opener \in [Openers -> {"idle", "open", "prepare", "event",
                                                "connect", "start"}]
                      /\ loop \in [Loops -> {"idle", "polling", "leaving"}]
<1> USE DEF TypeOK, uiVars, searchVars, eventVars
<1>1. Init => TypeOK
  <2>1. Init => Counted /\ Threads
    BY SMT DEF Init
  <2> QED
    BY <2>1, Zenon DEF Init
<1>2. TypeOK /\ [Next]_vars => TypeOK'
  <2> SUFFICES ASSUME TypeOK, [Next]_vars
               PROVE  TypeOK'
    OBVIOUS
  <2> USE DEF StartCamera, Spawn, Idle
  <2>1. CASE Resume /\ UNCHANGED calm
    BY <2>1 DEF Resume, StartWifiScanning, LookupAvailNetworks
  <2>2. CASE Pause /\ UNCHANGED calm
    BY <2>2 DEF Pause
  <2>3. CASE ScanResults /\ UNCHANGED calm
    BY <2>3 DEF ScanResults, LookupAvailNetworks
  <2>4. CASE StrayScanResults /\ UNCHANGED calm
    BY <2>4 DEF StrayScanResults, SearchSsdpClient
  <2>5. CASE SearchStarts /\ UNCHANGED calm
    BY <2>5 DEF SearchStarts
  <2>6. CASE TimeoutArrives /\ UNCHANGED calm
    BY <2>6 DEF TimeoutArrives
  <2>7. CASE Retry /\ UNCHANGED calm
    <3>1. Counted' /\ Threads'
      BY <2>7, SMT DEF Retry, StartWifiScanning, LookupAvailNetworks
    <3> QED
      BY <2>7, <3>1, Zenon DEF Retry, StartWifiScanning, LookupAvailNetworks
  <2>8. CASE WifiChanges /\ UNCHANGED calm
    BY <2>8 DEF WifiChanges
  <2>9. ASSUME NEW s \in Searchers, SearchStep(s), UNCHANGED calm
        PROVE  TypeOK'
    BY <2>9, ZenonT(60) DEF SearchStep, SearchSent, SearchNotSent, DeviceAnswers, DeviceFound, SearchEnds
  <2>10. ASSUME NEW o \in Openers, OpenerStep(o), UNCHANGED calm
         PROVE  TypeOK'
    <3>1. Counted' /\ Threads'
      BY <2>10, SMT DEF OpenerStep, OpenCamera, PrepareOpenConnection, GetEvent,
                        OpenConnection, StartMonitoring
    <3>2. UNCHANGED <<resumed, registered, state, device, direct, waiting, searching>>
      BY <2>10, Zenon DEF OpenerStep, OpenCamera, PrepareOpenConnection, GetEvent,
                          OpenConnection, StartMonitoring
    <3>3. active' \in BOOLEAN /\ monitoring' \in BOOLEAN
      BY <2>10, Zenon DEF OpenerStep, OpenCamera, PrepareOpenConnection, GetEvent,
                          OpenConnection, StartMonitoring
    <3> QED
      BY <2>10, <3>1, <3>2, <3>3, Zenon
  <2>11. ASSUME NEW l \in Loops, LoopStep(l), UNCHANGED calm
         PROVE  TypeOK'
    <3>1. Counted' /\ Threads'
      BY <2>11, SMT DEF LoopStep, PollFails, PollReturns, LoopLeaves, NextPoll
    <3>2. UNCHANGED <<resumed, registered, state, device, direct, waiting, searching, active>>
      BY <2>11, Zenon DEF LoopStep, PollFails, PollReturns, LoopLeaves
    <3>3. monitoring' \in BOOLEAN
      BY <2>11, Zenon DEF LoopStep, PollFails, PollReturns, LoopLeaves
    <3> QED
      BY <2>11, <3>1, <3>2, <3>3, Zenon
  <2>12. CASE UNCHANGED vars
    BY <2>12 DEF vars
  <2> QED
    BY <2>1, <2>2, <2>3, <2>4, <2>5, <2>6, <2>7, <2>8, <2>9, <2>10, <2>11, <2>12
    DEF Next, UiStep
<1> QED
  BY <1>1, <1>2, PTL DEF Spec

\* mSearching and mWhileEventMonitoring are set only while there is a thread that
\* receives, or polls again, however the threads interleave.
THEOREM FlagsCorrect == Spec => []FlagsAreTrue
<1> USE DEF TypeOK, FlagsAreTrue, uiVars, searchVars, eventVars
<1>1. Init => FlagsAreTrue
  BY DEF Init
<1>2. TypeOK /\ FlagsAreTrue /\ [Next]_vars => FlagsAreTrue'
  <2> SUFFICES ASSUME TypeOK, FlagsAreTrue, [Next]_vars
               PROVE  FlagsAreTrue'
    OBVIOUS
  <2> USE DEF Spawn, Idle
  <2>1. CASE Resume \/ ScanResults \/ StrayScanResults \/ TimeoutArrives \/ Retry \/ WifiChanges
    BY <2>1 DEF Resume, ScanResults, StrayScanResults, TimeoutArrives, Retry, WifiChanges
  <2>2. CASE Pause
    BY <2>2 DEF Pause
  <2>3. CASE SearchStarts
    BY <2>3 DEF SearchStarts
  <2>4. ASSUME NEW s \in Searchers, SearchStep(s)
        PROVE  FlagsAreTrue'
    BY <2>4 DEF SearchStep, SearchSent, SearchNotSent, DeviceAnswers, DeviceFound, SearchEnds
  <2>5. ASSUME NEW o \in Openers, OpenerStep(o)
        PROVE  FlagsAreTrue'
    BY <2>5 DEF OpenerStep, OpenCamera, PrepareOpenConnection, GetEvent,
                OpenConnection, StartMonitoring
  <2>6. ASSUME NEW l \in Loops, LoopStep(l)
        PROVE  FlagsAreTrue'
    BY <2>6 DEF LoopStep, PollFails, PollReturns, LoopLeaves, NextPoll
  <2>7. CASE UNCHANGED vars
    BY <2>7 DEF vars
  <2> QED
    BY <2>1, <2>2, <2>3, <2>4, <2>5, <2>6, <2>7 DEF Next, UiStep
<1> QED
  BY <1>1, <1>2, SonyTypeCorrect, PTL DEF Spec

\* A camera is opened only after it was found, so that every request has an
\* address to go to.
THEOREM OpenedCorrect == Spec => []OpenedIsKnown
<1> USE DEF TypeOK, OpenedIsKnown, uiVars, searchVars, eventVars
<1>1. Init => OpenedIsKnown
  BY DEF Init, Idle
<1>2. TypeOK /\ OpenedIsKnown /\ [Next]_vars => OpenedIsKnown'
  <2> SUFFICES ASSUME TypeOK, OpenedIsKnown, [Next]_vars
               PROVE  OpenedIsKnown'
    OBVIOUS
  <2> USE DEF StartCamera, Spawn, Idle
  <2>1. CASE Resume \/ ScanResults \/ Retry
    BY <2>1 DEF Resume, ScanResults, Retry, StartWifiScanning, LookupAvailNetworks
  <2>2. CASE StrayScanResults \/ SearchStarts \/ TimeoutArrives \/ Pause \/ WifiChanges
    BY <2>2 DEF StrayScanResults, SearchSsdpClient, SearchStarts, TimeoutArrives, Pause,
                WifiChanges
  <2>3. ASSUME NEW s \in Searchers, SearchStep(s)
        PROVE  OpenedIsKnown'
    BY <2>3 DEF SearchStep, SearchSent, SearchNotSent, DeviceAnswers, DeviceFound, SearchEnds
  <2>4. ASSUME NEW o \in Openers, OpenerStep(o)
        PROVE  OpenedIsKnown'
    BY <2>4 DEF OpenerStep, OpenCamera, PrepareOpenConnection, GetEvent,
                OpenConnection, StartMonitoring
  <2>5. ASSUME NEW l \in Loops, LoopStep(l)
        PROVE  OpenedIsKnown'
    BY <2>5 DEF LoopStep, PollFails, PollReturns, LoopLeaves
  <2>6. CASE UNCHANGED vars
    BY <2>6 DEF vars
  <2> QED
    BY <2>1, <2>2, <2>3, <2>4, <2>5, <2>6 DEF Next, UiStep
<1> QED
  BY <1>1, <1>2, SonyTypeCorrect, PTL DEF Spec
------------------------------------------------------------------------------
\* One step in a calm world.
LEMMA CalmStep ==
  ASSUME TypeOK, FlagsAreTrue, CalmInv, calm, [Next]_vars
  PROVE  CalmInv'
<1> USE DEF TypeOK, CalmInv, OneLoop, AllIdle, Idle, uiVars, searchVars, eventVars
<1>0. calm' = calm
  BY DEF Next, vars
<1>1. CASE Resume
  BY <1>0, <1>1 DEF Resume, Listens, Quiet, StartWifiScanning, LookupAvailNetworks,
                    StartCamera, Spawn
<1>2. CASE Pause
  BY <1>0, <1>2 DEF Pause, Listens, Quiet
<1>3. CASE ScanResults
  BY <1>0, <1>3 DEF ScanResults, Listens, Quiet, LookupAvailNetworks, StartCamera, Spawn
<1>4. CASE StrayScanResults
  BY <1>0, <1>4 DEF StrayScanResults, Listens, Quiet, SearchSsdpClient
<1>5. CASE SearchStarts
  BY <1>0, <1>5 DEF SearchStarts, Spawn
<1>6. CASE TimeoutArrives \/ Retry
  BY <1>6 DEF TimeoutArrives, Retry
<1>7. CASE WifiChanges
  BY <1>0, <1>7 DEF WifiChanges
<1>8. ASSUME NEW s \in Searchers, SearchStep(s)
      PROVE  CalmInv'
  <2>1. CASE SearchSent(s) \/ SearchNotSent(s) \/ SearchEnds(s)
    BY <1>0, <2>1 DEF SearchSent, SearchNotSent, SearchEnds
  <2>2. CASE DeviceAnswers(s)
    BY <1>0, <2>2 DEF DeviceAnswers
  <2>3. CASE DeviceFound(s)
    BY <1>0, <2>3 DEF DeviceFound, StartCamera, Spawn
  <2> QED
    BY <1>8, <2>1, <2>2, <2>3 DEF SearchStep
<1>9. ASSUME NEW o \in Openers, OpenerStep(o)
      PROVE  CalmInv'
  <2>1. CASE OpenCamera(o) \/ PrepareOpenConnection(o)
    BY <1>0, <2>1 DEF OpenCamera, PrepareOpenConnection
  <2>2. CASE GetEvent(o)
    BY <1>0, <2>2 DEF GetEvent
  <2>3. CASE OpenConnection(o)
    BY <1>0, <2>3 DEF OpenConnection
  <2>4. CASE StartMonitoring(o)
    BY <1>0, <2>4 DEF StartMonitoring, Spawn
  <2> QED
    BY <1>9, <2>1, <2>2, <2>3, <2>4 DEF OpenerStep
<1>10. ASSUME NEW l \in Loops, LoopStep(l)
       PROVE  CalmInv'
  <2>1. CASE PollFails(l)
    BY <2>1 DEF PollFails
  <2>2. CASE PollReturns(l)
    BY <1>0, <2>2 DEF PollReturns, NextPoll
  <2>3. CASE LoopLeaves(l)
    BY <1>0, <2>3 DEF LoopLeaves
  <2> QED
    BY <1>10, <2>1, <2>2, <2>3 DEF LoopStep
<1>11. CASE UNCHANGED vars
  BY <1>0, <1>11 DEF vars
<1> QED
  BY <1>1, <1>2, <1>3, <1>4, <1>5, <1>6, <1>7, <1>8, <1>9, <1>10, <1>11 DEF Next, UiStep

\* In a calm world search, opening and polling follow each other.
THEOREM CalmCorrect == Spec => []CalmInv
<1>1. Init => CalmInv
  BY DEF Init, CalmInv, OneLoop, AllIdle, Idle
<1>2. TypeOK /\ FlagsAreTrue /\ CalmInv /\ [Next]_vars => CalmInv'
  <2> SUFFICES ASSUME TypeOK, FlagsAreTrue, CalmInv, [Next]_vars
               PROVE  CalmInv'
    OBVIOUS
  <2>1. CASE calm
    BY <2>1, CalmStep
  <2>2. CASE ~calm
    <3>1. calm' = calm
      BY DEF Next, vars
    <3> QED
      BY <2>2, <3>1 DEF CalmInv
  <2> QED
    BY <2>1, <2>2
<1> QED
  BY <1>1, <1>2, SonyTypeCorrect, FlagsCorrect, PTL DEF Spec

\* In a calm world a connection has one thread that opens it or one that polls,
\* and none when the fragment is in the background.
THEOREM CalmOneLoop == Spec => []OneLoop
<1>1. CalmInv => OneLoop
  BY DEF CalmInv, OneLoop
<1> QED
  BY <1>1, CalmCorrect, PTL
------------------------------------------------------------------------------
\* Every step of a calm world is one of Connection, or leaves the connection alone.
LEMMA LinkStep ==
  ASSUME TypeOK, FlagsAreTrue, CalmInv, calm, [Next]_vars
  PROVE  [C!Next]_C!vars
<1> USE DEF TypeOK, CalmInv, OneLoop, AllIdle, Idle, uiVars, searchVars, eventVars,
            linkState, C!vars
<1>0. calm' = calm
  BY DEF Next, vars
<1>1. CASE Resume
  <2>1. ~resumed /\ resumed' /\ linkState = "down"
    BY <1>1 DEF Resume, Listens, Quiet
  <2>2. linkState' \in {"down", "opening"}
    BY <1>0, <1>1 DEF Resume, Listens, Quiet
  <2> QED BY <1>0, <2>1, <2>2 DEF C!Next, C!Appear
<1>2. CASE Pause
  <2>1. /\ resumed /\ resumed' = FALSE /\ monitoring' = FALSE
        /\ AllIdle(opener) /\ UNCHANGED <<opener, loop>>
        /\ monitoring \/ AllIdle(loop)
    BY <1>2 DEF Pause, Listens, Quiet
  <2>2. monitoring => ~AllIdle(loop)
    BY DEF FlagsAreTrue
  <2>3. /\ linkState \in {"down", "up"}
        /\ linkState' = IF linkState = "up" THEN "ending" ELSE "down"
    BY <1>0, <2>1, <2>2
  <2> QED BY <1>0, <2>1, <2>3 DEF C!Next, C!Vanish
<1>3. ASSUME UNCHANGED <<resumed, monitoring, loop>>, resumed, ~monitoring,
             AllIdle(opener), AllIdle(loop)
      PROVE  [C!Next]_C!vars
  BY <1>0, <1>3 DEF C!Next, C!Find
<1>4. CASE ScanResults
  <2>1. CASE opener' = opener
    <3>1. UNCHANGED <<resumed, monitoring, opener, loop>>
      BY <1>4, <2>1 DEF ScanResults
    <3> QED BY <1>0, <3>1
  <2>2. CASE opener' # opener
    <3>1. /\ UNCHANGED <<resumed, monitoring, loop>> /\ resumed
          /\ ~monitoring /\ AllIdle(opener) /\ AllIdle(loop)
      BY <1>4 DEF ScanResults, Listens, Quiet
    <3> QED BY <1>3, <3>1
  <2> QED BY <2>1, <2>2
<1>5. CASE StrayScanResults \/ SearchStarts \/ WifiChanges
  <2>1. UNCHANGED <<resumed, monitoring, opener, loop>>
    BY <1>5 DEF StrayScanResults, SearchSsdpClient, SearchStarts, WifiChanges
  <2> QED BY <1>0, <2>1
<1>6. CASE TimeoutArrives \/ Retry
  BY <1>6 DEF TimeoutArrives, Retry
<1>7. ASSUME NEW s \in Searchers, SearchStep(s)
      PROVE  [C!Next]_C!vars
  <2>1. CASE DeviceFound(s)
    <3>1. /\ UNCHANGED <<resumed, monitoring, loop>> /\ resumed
          /\ ~monitoring /\ AllIdle(opener) /\ AllIdle(loop)
      BY <2>1 DEF DeviceFound
    <3> QED BY <1>3, <3>1
  <2>2. CASE ~DeviceFound(s)
    <3>1. UNCHANGED <<resumed, monitoring, opener, loop>>
      BY <1>7, <2>2 DEF SearchStep, SearchSent, SearchNotSent, DeviceAnswers, SearchEnds
    <3> QED BY <1>0, <3>1
  <2> QED BY <2>1, <2>2
<1>8. ASSUME NEW o \in Openers, OpenerStep(o)
      PROVE  [C!Next]_C!vars
  <2>1. CASE OpenCamera(o) \/ PrepareOpenConnection(o) \/ GetEvent(o)
    <3>1. /\ ~Idle(opener, o) /\ ~Idle(opener, o)' /\ resumed' = resumed
          /\ DOMAIN opener' = Openers
      BY <1>0, <2>1 DEF OpenCamera, PrepareOpenConnection, GetEvent
    <3>2. linkState = "opening" /\ linkState' = "opening"
      BY <1>0, <3>1
    <3> QED BY <1>0, <3>1, <3>2
  <2>2. CASE OpenConnection(o)
    <3>1. active /\ ~monitoring
      BY <2>2 DEF OpenConnection
    <3>2. /\ ~Idle(opener, o) /\ ~Idle(opener, o)' /\ resumed' = resumed
          /\ DOMAIN opener' = Openers
      BY <2>2, <3>1 DEF OpenConnection
    <3>3. linkState = "opening" /\ linkState' = "opening"
      BY <1>0, <3>2
    <3> QED BY <1>0, <3>2, <3>3
  <2>3. CASE StartMonitoring(o)
    <3>1. resumed /\ resumed' = resumed /\ linkState = "opening"
      BY <2>3 DEF StartMonitoring
    <3>2. AllIdle(opener)' /\ monitoring' = TRUE
      BY <2>3 DEF StartMonitoring
    <3>3. linkState' = "up"
      BY <1>0, <3>2
    <3> QED BY <1>0, <3>1, <3>3 DEF C!Next, C!Connect
  <2> QED BY <1>8, <2>1, <2>2, <2>3 DEF OpenerStep
<1>9. ASSUME NEW l \in Loops, LoopStep(l)
      PROVE  [C!Next]_C!vars
  <2>1. CASE PollFails(l)
    BY <2>1 DEF PollFails
  <2>2. CASE PollReturns(l)
    <3>1. /\ ~Idle(loop, l) /\ ~Idle(loop, l)' /\ DOMAIN loop' = Loops
          /\ UNCHANGED <<resumed, monitoring, opener>>
      BY <2>2 DEF PollReturns, NextPoll
    <3> QED BY <1>0, <3>1
  <2>3. CASE LoopLeaves(l)
    <3>1. ~Idle(loop, l) /\ ~monitoring /\ AllIdle(opener) /\ ~resumed
      BY <2>3 DEF LoopLeaves
    <3>2. linkState = "ending"
      BY <3>1
    <3>3. AllIdle(loop)' /\ UNCHANGED <<resumed, opener>> /\ monitoring' = FALSE
      BY <2>3, <3>1 DEF LoopLeaves
    <3>4. linkState' = "down"
      BY <1>0, <3>1, <3>3
    <3> QED BY <1>0, <3>1, <3>2, <3>3, <3>4 DEF C!Next, C!End
  <2> QED BY <1>9, <2>1, <2>2, <2>3 DEF LoopStep
<1>10. CASE UNCHANGED vars
  BY <1>0, <1>10 DEF vars
<1> QED
  BY <1>1, <1>2, <1>4, <1>5, <1>6, <1>7, <1>8, <1>9, <1>10 DEF Next, UiStep

\* In a calm world the threads of search, opening and polling implement Connection.
THEOREM CalmImplementsConnection == Spec => ImplementsConnection
<1>1. Init => C!Init
  BY DEF Init, C!Init, linkState, AllIdle, Idle
<1>2. TypeOK /\ FlagsAreTrue /\ CalmInv /\ [Next]_vars => [C!Next]_C!vars
  <2> SUFFICES ASSUME TypeOK, FlagsAreTrue, CalmInv, [Next]_vars
               PROVE  [C!Next]_C!vars
    OBVIOUS
  <2>1. CASE calm
    BY <2>1, LinkStep
  <2>2. CASE ~calm
    <3>1. calm' = calm
      BY DEF Next, vars
    <3> QED BY <2>2, <3>1 DEF C!vars, linkState
  <2> QED BY <2>1, <2>2
<1> QED
  BY <1>1, <1>2, SonyTypeCorrect, FlagsCorrect, CalmCorrect, PTL
  DEF Spec, ImplementsConnection, C!Spec
==============================================================================
