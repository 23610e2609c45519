--------------------------- MODULE SonyConnection ---------------------------
(***************************************************************************)
(* The connection to a Sony remote camera: the states of the fragment      *)
(* (SonyCameraFragment), the search for the camera on its wifi network     *)
(* (SimpleSsdpClient), the opening of the connection (CameraHolderSony)    *)
(* and the loop that polls the camera for events                           *)
(* (SimpleCameraEventObserver).                                            *)
(*                                                                         *)
(* Searches, openings and event loops are threads of their own.  They and  *)
(* the UI thread share the flags mSearching, mWhileEventMonitoring and     *)
(* mIsActive without a lock (search tests mSearching under one, but its    *)
(* thread sets it 200 ms later), and an event loop looks at its flag only  *)
(* between two polls of up to twenty seconds.                              *)
(*                                                                         *)
(* In a calm world the remote camera answers, and broadcasts, pauses and   *)
(* resumes come one at a time, when the threads have done what the one     *)
(* before started.  The other world has no such rule.                      *)
(***************************************************************************)
EXTENDS Naturals

CONSTANTS
  Searchers,  \* search threads alive at once (bound of the model)
  Openers,    \* opening threads alive at once (bound of the model)
  Loops,      \* event loops alive at once (bound of the model)
  MaxPosts    \* posted timeouts, and delayed retries (bound of the model)

ASSUME SonyAssumption == MaxPosts \in Nat

VARIABLES
  calm,        \* the world, chosen once
  resumed,     \* the fragment is between onResume and onPause
  registered,  \* the receiver of scan results is registered
  state,       \* SonyCameraFragment.STATE
  device,      \* serverDevice # null
  direct,      \* the wifi is connected to the network of the camera
  waiting,     \* the UI thread waits for wifi in searchSsdpClient
  timeouts,    \* onTimout posted to the UI thread
  retries,     \* startWifiScanning posted with a delay by onCameraError
  searching,   \* SimpleSsdpClient.mSearching
  search,      \* the search threads
  active,      \* SimpleCameraEventObserver.mIsActive
  monitoring,  \* SimpleCameraEventObserver.mWhileEventMonitoring
  opener,      \* the threads of OpenCamera and openConnection
  loop         \* the event loops

uiVars == <<resumed, registered, state, device, direct, waiting, timeouts, retries>>
searchVars == <<searching, search>>
eventVars == <<active, monitoring, loop>>
vars == <<calm, uiVars, searchVars, eventVars, opener>>

Idle(threads, t) == threads[t] = "idle"
AllIdle(threads) == \A t \in DOMAIN threads : Idle(threads, t)
------------------------------------------------------------------------------
Init ==
  /\ calm \in BOOLEAN
  /\ resumed = FALSE /\ registered = FALSE
  /\ state = "idle"
  /\ device = FALSE
  /\ direct \in BOOLEAN
  /\ waiting = FALSE
  /\ timeouts = 0 /\ retries = 0
  /\ searching = FALSE
  /\ search = [s \in Searchers |-> "idle"]
  /\ active = FALSE /\ monitoring = FALSE
  /\ opener = [o \in Openers |-> "idle"]
  /\ loop = [l \in Loops |-> "idle"]

\* The threads have done what there was to do: an event loop may be polling.
Quiet ==
  /\ AllIdle(search) /\ AllIdle(opener)
  /\ \A l \in Loops : loop[l] # "leaving"
  /\ monitoring \/ AllIdle(loop)

\* The UI thread handles its next message.
Listens == ~waiting /\ (calm => Quiet)

Spawn(threads, first) == \E t \in DOMAIN threads :
  Idle(threads, t) /\ threads' = [threads EXCEPT ![t] = first]

\* StartCamera: the opening runs on a thread.
StartCamera ==
  /\ state' = "connected"
  /\ Spawn(opener, "open")

\* searchSsdpClient up to its wait for the wifi connection.
SearchSsdpClient ==
  /\ waiting' = (state # "connected")
  /\ UNCHANGED opener

\* lookupAvailNetworks: without wifi it gives up, on another network it scans.
LookupAvailNetworks ==
  \/ ~direct /\ state' \in {"idle", "scan"} /\ UNCHANGED <<waiting, opener>>
  \/ direct /\ ~device /\ waiting' = TRUE /\ state' = "idle" /\ UNCHANGED opener
  \/ direct /\ device /\ StartCamera /\ UNCHANGED waiting

StartWifiScanning ==
  /\ registered' = TRUE
  /\ LookupAvailNetworks
------------------------------------------------------------------------------
\* onResume; without the permission to see networks nothing is looked for.
Resume ==
  /\ Listens /\ ~resumed
  /\ resumed' = TRUE
  /\ \/ StartWifiScanning
     \/ UNCHANGED <<registered, state, waiting, opener>>
  /\ UNCHANGED <<device, direct, timeouts, retries, searchVars, eventVars>>

\* Slip: the observer is stopped but stays active.
PauseKeepsMonitoring ==
  /\ Listens /\ resumed
  /\ resumed' = FALSE
  /\ registered' = FALSE
  /\ active' = FALSE
  /\ state' = "idle"
  /\ UNCHANGED <<device, direct, waiting, timeouts, retries, searchVars, monitoring, loop, opener>>

\* onPause: StopCamera releases the observer.
Pause ==
  /\ Listens /\ resumed
  /\ resumed' = FALSE
  /\ registered' = FALSE
  /\ active' = FALSE
  /\ monitoring' = FALSE
  /\ state' = "idle"
  /\ UNCHANGED <<device, direct, waiting, timeouts, retries, searchVars, loop, opener>>

\* WifiScanReceiver.onReceive while a scan is waited for: the network of the
\* camera is not known, is not there, cannot be joined, or is being joined.
ScanResults ==
  /\ Listens /\ registered /\ state = "scan"
  /\ \/ state' = "idle" /\ UNCHANGED <<direct, waiting, opener>>
     \/ LookupAvailNetworks /\ UNCHANGED direct
     \/ UNCHANGED <<state, direct, waiting, opener>>
     \/ state' = "idle" /\ direct' = FALSE /\ waiting' = TRUE /\ UNCHANGED opener
  /\ UNCHANGED <<resumed, registered, device, timeouts, retries, searchVars, eventVars>>

\* WifiScanReceiver.onReceive of anybody's scan, the wifi being connected.
StrayScanResults ==
  /\ Listens /\ registered /\ state = "idle"
  /\ SearchSsdpClient
  /\ UNCHANGED <<resumed, registered, state, device, direct, timeouts, retries,
                 searchVars, eventVars>>

\* Slip: the flag is set by search itself, long before its thread can fail.
SearchStartsFlagged ==
  /\ waiting
  /\ waiting' = FALSE
  /\ \/ searching /\ UNCHANGED searchVars
     \/ ~searching /\ Spawn(search, "sending") /\ searching' = TRUE
  /\ UNCHANGED <<resumed, registered, state, device, direct, timeouts, retries,
                 eventVars, opener>>

\* searchSsdpClient after its wait, for whatever network, and
\* SimpleSsdpClient.search.
SearchStarts ==
  /\ waiting
  /\ waiting' = FALSE
  /\ \/ searching /\ UNCHANGED search
     \/ ~searching /\ Spawn(search, "sending")
  /\ UNCHANGED <<resumed, registered, state, device, direct, timeouts, retries,
                 searching, eventVars, opener>>

\* onTimout and onCameraError, which retries after five seconds.
TimeoutArrives ==
  /\ Listens /\ timeouts > 0 /\ retries < MaxPosts
  /\ timeouts' = timeouts - 1
  /\ retries' = retries + 1
  /\ state' = "idle"
  /\ UNCHANGED <<resumed, registered, device, direct, waiting, searchVars, eventVars, opener>>

\* The delayed post, which onPause does not remove.
Retry ==
  /\ Listens /\ retries > 0
  /\ retries' = retries - 1
  /\ StartWifiScanning
  /\ UNCHANGED <<resumed, device, direct, timeouts, searchVars, eventVars>>

\* The phone joins the network of the camera or leaves it, which a calm phone
\* does not.
WifiChanges ==
  /\ direct' = ~direct
  /\ calm => direct'
  /\ UNCHANGED <<resumed, registered, state, device, waiting, timeouts, retries,
                 searchVars, eventVars, opener>>
------------------------------------------------------------------------------
\* The thread of SimpleSsdpClient.search: the requests are sent or not ...
SearchSent(s) ==
  /\ search[s] = "sending"
  /\ search' = [search EXCEPT ![s] = "receiving"]
  /\ searching' = TRUE
  /\ UNCHANGED <<uiVars, eventVars, opener>>

SearchNotSent(s) ==
  /\ search[s] = "sending"
  /\ search' = [search EXCEPT ![s] = "idle"]
  /\ UNCHANGED <<uiVars, searching, eventVars, opener>>

\* ... and a camera answers: onDeviceFound tests STATE, then sets it.
DeviceAnswers(s) ==
  /\ search[s] = "receiving" /\ direct /\ state # "connected"
  /\ search' = [search EXCEPT ![s] = "found"]
  /\ UNCHANGED <<uiVars, searching, eventVars, opener>>

DeviceFound(s) ==
  /\ search[s] = "found"
  /\ device' = TRUE
  /\ StartCamera
  /\ search' = [search EXCEPT ![s] = "receiving"]
  /\ UNCHANGED <<resumed, registered, direct, waiting, timeouts, retries, searching, eventVars>>

\* The end of the reception: timeout, error, or mSearching cleared by another.
SearchEnds(s) ==
  /\ search[s] = "receiving"
  /\ search' = [search EXCEPT ![s] = "idle"]
  /\ searching' = FALSE
  /\ UNCHANGED <<uiVars, eventVars, opener>>
------------------------------------------------------------------------------
\* The threads of CameraHolderSony: OpenCamera activates the observer ...
OpenCamera(o) ==
  /\ opener[o] = "open"
  /\ opener' = [opener EXCEPT ![o] = "prepare"]
  /\ active' = TRUE
  /\ UNCHANGED <<uiVars, searchVars, monitoring, loop>>

\* ... prepareOpenConnection stops the loop there may be ...
PrepareOpenConnection(o) ==
  /\ opener[o] = "prepare"
  /\ opener' = [opener EXCEPT ![o] = "event"]
  /\ monitoring' = FALSE
  /\ UNCHANGED <<uiVars, searchVars, active, loop>>

\* ... and asks for the state of the camera, which may not answer.
GetEvent(o) ==
  /\ opener[o] = "event"
  /\ \/ opener' = [opener EXCEPT ![o] = "connect"]
     \/ ~calm /\ opener' = [opener EXCEPT ![o] = "idle"]
  /\ UNCHANGED <<uiVars, searchVars, eventVars>>

\* Slip: the connection is opened without the activation of the observer.
OpenConnectionUnlessStarted(o) ==
  /\ opener[o] = "connect"
  /\ opener' = [opener EXCEPT ![o] = IF active THEN "idle" ELSE "start"]
  /\ UNCHANGED <<uiVars, searchVars, eventVars>>

\* openConnection: startRecMode may fail; otherwise start, which refuses when
\* the observer was released or a loop is going on.
OpenConnection(o) ==
  /\ opener[o] = "connect"
  /\ \/ /\ active /\ ~monitoring
        /\ opener' = [opener EXCEPT ![o] = "start"]
     \/ /\ ~calm \/ ~active \/ monitoring
        /\ opener' = [opener EXCEPT ![o] = "idle"]
  /\ UNCHANGED <<uiVars, searchVars, eventVars>>

\* SimpleCameraEventObserver.start after its tests.
StartMonitoring(o) ==
  /\ opener[o] = "start"
  /\ opener' = [opener EXCEPT ![o] = "idle"]
  /\ monitoring' = TRUE
  /\ Spawn(loop, "polling")
  /\ UNCHANGED <<uiVars, searchVars, active>>
------------------------------------------------------------------------------
\* An event loop between two polls: it goes on while the flag is set.
NextPoll == IF monitoring THEN "polling" ELSE "leaving"

\* A poll fails: the timeout is posted to the UI thread.
PollFails(l) ==
  /\ loop[l] = "polling" /\ ~calm /\ timeouts < MaxPosts
  /\ timeouts' = timeouts + 1
  /\ loop' = [loop EXCEPT ![l] = NextPoll]
  /\ UNCHANGED <<resumed, registered, state, device, direct, waiting, retries,
                 searchVars, active, monitoring, opener>>

\* A poll returns.
PollReturns(l) ==
  /\ loop[l] = "polling"
  /\ loop' = [loop EXCEPT ![l] = NextPoll]
  /\ UNCHANGED <<uiVars, searchVars, active, monitoring, opener>>

\* The assignment after the loop.
LoopLeaves(l) ==
  /\ loop[l] = "leaving"
  /\ loop' = [loop EXCEPT ![l] = "idle"]
  /\ monitoring' = FALSE
  /\ UNCHANGED <<uiVars, searchVars, active, opener>>
------------------------------------------------------------------------------
SearchStep(s) ==
  \/ SearchSent(s) \/ SearchNotSent(s)
  \/ DeviceAnswers(s) \/ DeviceFound(s) \/ SearchEnds(s)

OpenerStep(o) ==
  \/ OpenCamera(o) \/ PrepareOpenConnection(o) \/ GetEvent(o)
  \/ OpenConnection(o) \/ StartMonitoring(o)

LoopStep(l) == PollFails(l) \/ PollReturns(l) \/ LoopLeaves(l)

UiStep ==
  \/ Resume \/ Pause \/ ScanResults \/ StrayScanResults \/ SearchStarts
  \/ TimeoutArrives \/ Retry

Next ==
  /\ \/ UiStep \/ WifiChanges
     \/ \E s \in Searchers : SearchStep(s)
     \/ \E o \in Openers : OpenerStep(o)
     \/ \E l \in Loops : LoopStep(l)
  /\ UNCHANGED calm

\* Some thread of each sort runs, and each of their calls to the network returns or times out.
\* Nothing is assumed of the user, the wifi and the broadcasts.
Fairness ==
  /\ WF_vars(\E s \in Searchers : SearchStep(s) /\ UNCHANGED calm)
  /\ WF_vars(\E o \in Openers : OpenerStep(o) /\ UNCHANGED calm)
  /\ WF_vars(\E l \in Loops : LoopStep(l) /\ UNCHANGED calm)

Spec == Init /\ [][Next]_vars

FairSpec == Spec /\ Fairness
------------------------------------------------------------------------------
\* Every variable has its type.
TypeOK ==
  /\ calm \in BOOLEAN /\ resumed \in BOOLEAN /\ registered \in BOOLEAN
  /\ state \in {"idle", "scan", "connected"}
  /\ device \in BOOLEAN
  /\ direct \in BOOLEAN
  /\ waiting \in BOOLEAN
  /\ timeouts \in Nat /\ retries \in Nat
  /\ searching \in BOOLEAN
  /\ search \in [Searchers -> {"idle", "sending", "receiving", "found"}]
  /\ active \in BOOLEAN /\ monitoring \in BOOLEAN
  /\ opener \in [Openers -> {"idle", "open", "prepare", "event", "connect", "start"}]
  /\ loop \in [Loops -> {"idle", "polling", "leaving"}]

\* The flags that make search and start refuse never refuse for nothing: while
\* mSearching is set some thread is receiving, and while mWhileEventMonitoring
\* is set some loop will poll again, however the threads, the user and the
\* network interleave.  (The converses fail: see README.)
FlagsAreTrue ==
  /\ searching => \E s \in Searchers : search[s] \in {"receiving", "found"}
  /\ monitoring => \E l \in Loops : loop[l] = "polling"

\* The camera is only opened once it is known which camera it is: OpenCamera
\* keeps the device it is given first, and every request goes to it.
OpenedIsKnown ==
  state = "connected" \/ active \/ (\E o \in Openers : ~Idle(opener, o)) => device

\* In a calm world a connection has one opening thread or one event loop, a
\* fragment in the state DEVICE_CONNECTED is served by one of them, and a fragment
\* in the background has an observer that is released and will stay so.
OneLoop ==
  calm =>
    /\ \A l, k \in Loops : ~Idle(loop, l) /\ ~Idle(loop, k) => l = k
    /\ \A o, p \in Openers : ~Idle(opener, o) /\ ~Idle(opener, p) => o = p
    /\ ~AllIdle(opener) => AllIdle(loop)
    /\ state = "connected" => resumed /\ (monitoring \/ ~AllIdle(opener))
    /\ ~resumed => ~active /\ ~monitoring

\* What keeps OneLoop: the search, the opening and the loop of one connection come
\* one after the other, each between a step of the UI thread and the next.
CalmInv ==
  calm =>
    /\ OneLoop
    /\ timeouts = 0 /\ retries = 0
    /\ registered \/ waiting \/ ~AllIdle(search) => resumed
    /\ \A s, u \in Searchers : ~Idle(search, s) /\ ~Idle(search, u) => s = u
    /\ waiting => state # "connected" /\ AllIdle(search)
    /\ \A s \in Searchers : search[s] = "found" => state # "connected"
    /\ monitoring \/ ~AllIdle(opener) => state = "connected"
    /\ ~AllIdle(opener) => ~monitoring
    /\ \A o \in Openers : opener[o] \in {"prepare", "event", "connect", "start"} => active
    /\ resumed /\ ~monitoring => AllIdle(loop)
    /\ \A l \in Loops : loop[l] = "leaving" => ~monitoring

\* What the threads and the flags of a calm world are together.
linkState ==
  IF ~calm THEN "down"
  ELSE IF ~AllIdle(opener) THEN "opening"
  ELSE IF monitoring THEN "up"
  ELSE IF ~AllIdle(loop) THEN "ending" ELSE "down"

C == INSTANCE Connection WITH front <- calm /\ resumed, link <- linkState

\* In a calm world search, opening and polling keep the promise of Connection: no
\* camera is opened over the remains of a connection, none is left half open, and
\* none lasts longer than the fragment.
ImplementsConnection == C!Spec

\* A camera that was found is monitored, unless the user leaves.
ConnectionComes ==
  calm /\ state = "connected" ~> monitoring \/ ~resumed

\* A fragment in the background comes to have no event loop.
PauseSilences ==
  calm /\ ~resumed ~> AllIdle(loop)
==============================================================================
