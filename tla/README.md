# FreeDcam in TLA+

FreeDcam is an Android camera application. It drives a camera through one of
three programming interfaces (`android.hardware.camera`, here Camera1; `camera2`,
here Camera2; and the Sony Camera Remote API over Wi-Fi), lets the user choose
among modules (single pictures and bursts, interval series, brackets, stacking,
video), and has a viewer with a cache of thumbnails on disk. Its own code is Java
under `src/app/src/main/java/freed`, with a DNG writer in C++ and some
RenderScript kernels. The repository has no tests.

What is hard in it is not an algorithm but an order: the user's touches, the
callbacks of the camera and the posts of the application share the UI looper,
every picture is saved on a thread of its own (`FreeDPool` starts one per task,
in this version), flags are fields without locks, and Android destroys the
surface, or kills the process, when it likes. This directory models that.

Paths below are relative to `src/app/src/main/java/freed/`; `A/` stands for
`cam/apis/`.

## 1. Inventory

| Component | State | Operations | Talks to | Hard behaviour |
|---|---|---|---|---|
| Camera1 picture module, holder (`A/camera1/modules/PictureModule`, `A/camera1/CameraHolder`) | `isWorking`, `waitForPicture`, `burstcount`; the open camera, whether it previews | DoWork, onPictureTaken, InitModule; OpenCamera, CloseCamera, TakePicture, StartPreview | camera (callbacks on the looper), saving threads, its listener | `burstcount++` on racing threads, takePicture that throws, camera closed during a capture |
| Interval module (`A/basecamera/modules/IntervalModule`, `IntervalHandler`) | `isWorking` of the series, `working` of the handler, counters, the posted runner | DoWork (start and stop), runner, onCaptureStateChanged, DoNextInterval, CancelInterval | picture module (calls it, listens to it), module handler, shutter button | stop during a picture, module switch during a series, timer and picture in turn |
| Camera2 holder, fragment (`A/camera2/CameraHolderApi2`, `Camera2Fragment`) | semaphore, device, session, surface | OpenCamera, CloseCamera, CreateCaptureSession, CloseCaptureSession, the callbacks of device, session and surface | modules, camera, activity | a lock taken on the thread that has to release it, callbacks of outdated sessions and of frames still in flight, disconnection |
| Camera2 picture module (`A/camera2/modules/PictureModuleApi2`) | `isWorking`, metering state, `imagecount`, `mDngResult`, image readers | DoWork, aecallback, onImageAvailable, onCaptureCompleted, saving, finishCapture | holder, saving threads, burst parameter | images and results in any order, racing counts, a flag cleared before the work is over, an AF listener that replaces the metering request |
| Thumbnail cache (`viewer/helper/DiskLruCache`, `CacheHelper`) | index, access order, size, journal and its buffered writer, files | get, edit, commit, abort, remove, trimToSize, rebuildJournal, open | bitmap helper, clean-up thread, file system | kill with lines in the buffer, failing writes, eviction of entries in use, two caches on one directory |
| Bitmap helper (`viewer/helper/BitmapHelper`) | list of files to process, `workInProgress` | getBitmap, the worker, DeleteCache | cache, views | list and flag shared without a lock |
| Module handler, shutter button (`A/basecamera/modules/ModuleHandlerAbstract`, `cam/ui/themesample/cameraui/ShutterButton`) | current module, listeners, state shown | SetModule, posting of state changes | every module, UI | posts that look a listener up by index later |
| Brackets, stacking (`A/camera1/modules/{Bracket,AeBracket,Stacking}Module`, `PictureModuleMTK`, `A/camera2/modules/{AeBracket,AfBracket}Api2`, `StackingModuleApi2`) | `hdrCount`, `waitForPicture`, the exposure set; frames in progress | DoWork, onPictureTaken, the processing task | holders, saving threads | each picture of a bracket is started from the thread of the one before; a second press during a bracket; result copied while a frame is drawn |
| Video (`A/camera1/modules/AbstractVideoModule`, `VideoModule`, `A/camera2/modules/VideoModuleApi2`) | `isWorking`, `isRecording`, the recorder | start, stop, onConfigured | holder, recorder | start that fails half way, second press before onConfigured |
| Sony remote (`A/sonyremote/`) | `STATE`, `mSearching`, `mIsActive`, `mWhileEventMonitoring`, status of the remote camera | search, connect, event loop, take picture, live view | Wi-Fi, HTTP, UI posts | two searches at once, stop and start within a long poll, state that follows events |
| Parameters, focus, settings (`A/*/parameters`, `FocusHandler`, `utils/AppSettingsManager`) | a value per key | Get/SetValue | camera, UI | effects on sessions and bursts, modelled where they happen |
| Viewer, UI, activities | lists, views | gestures | everything | what the user can do is in the actions of the modules |
| DNG writer (`src/app/src/main/jni/freedcam/RawToDng.cpp`) | the `DngWriter` and its position in the data | Create, SetRawData, WriteDNG, the five process functions, RELEASE | saving threads | bits regrouped by masks over rows with room behind them |
| RenderScript, libraries | none between calls | conversion | saving threads | out of scope, pure computation or third-party code |

What makes them correct, in a sentence each:

* A picture module: a press that was taken ends; the button is free again and the
  camera previews; a burst is not over before its last picture. (On Camera2 a metered press may
  not end: sections 2 and 6.)
* The series: one timer, one picture at a time, always something that carries it
  on until it is stopped or its time is up, and nothing after that.
* The holder: it never waits for ever, never leaves a camera open for nobody,
  never sends a request to a closed session, and a surface gets its preview.
* A bracket: its three exposures are taken once each, in their order, and it ends.
* A recording: a recorder that runs is known to the module that will stop it, and the
  button shows what is true or becomes so.
* The remote connection: a set flag has its thread, one event loop per connection, a
  found camera gets monitored, silence in the background.
* The DNG writer: a reader of the file gets back every pixel with all of its bits.
* The cache: whatever is killed whenever, the files on disk are known, whole and
  of the length the journal gives, and what they use is counted.

`PROJECT.json` lists every component with its state here (modelled, partly, not)
and the hazards of the whole code, each at its line, with the properties that
cover it or the reason why none does.

## 2. Modules

```
                               BracketModule --EXTENDS--> PictureModule
                               BracketModule_proofs
Series <----- refined by ----- Interval      --EXTENDS--> PictureModule
                               Interval_proofs

CameraHolderApi2 <--EXTENDS-- PictureModuleApi2          Recording
        ^                     PictureModuleApi2_proofs       ^ refined by
        +-----------EXTENDS------------------------- VideoModuleApi2
CameraHolderApi2_proofs                              VideoModuleApi2_proofs

Connection                    ThumbnailStore
    ^ refined by                  ^ refined by
SonyConnection                DiskLruCache <--INSTANCE, twice-- DiskLruCaches
SonyConnection_proofs         DiskLruCache_proofs

RawToDng <--EXTENDS-- MCRawToDng
RawToDng_proofs
```

The constants of every module are sets and flags (may the camera fail, is the user
hasty), so that one module serves the sound world that can be proved correct and
the faulty one in which less holds. Where both worlds fit one run, the world is a
variable chosen once (`user`, `kind`, `sound`, `calm`) and each property says in
which it holds. Operators named after a slip
(`DoWorkKeepsCount`, `CloseCameraKeepsPermit`) are not used by the specifications:
they are the plausible mistakes that `PROJECT.json` lists as mutants, one or more
per property, to show that the property would notice.

### PictureModule: Camera1 captures

One action per callback or press. `DoWork` is taken or refused by `isWorking`, and
ends in `TakePicture`, whose exception the holder swallows: that leaves `isWorking`
set. `onPictureTaken` is three actions, by its branches: a picture nobody waits for,
a single one, one of a burst. In a burst the call spawns a saver and then compares
`burstcount` with the value of Burst; as the saver increments the field at the same
time, the call is split there (`comparing`), and the increment into load and store.
The camera owes `burst` callbacks per `takePicture` (`owed`) and previews or not
(`preview`): that is the environment, as `CameraHolder` uses it.

### BracketModule: the Camera1 modules together

It extends PictureModule and runs it (`kind = "picture"`) or one of the three ways to
take a bracket of three. `BracketModule.DoWork` does not set `isWorking`, and sleeps
on the UI thread while the exposure settles (`pressing`): the press has a first and a
second half, and the threads run on in between. Each picture has a thread (`task`),
which loads and stores `hdrCount`, saves, starts the preview, sets the next exposure
and takes the next picture, or reports the end; for MediaTek (`"aebracket"`) the
exposures are set before and `isWorking` guards the press; with a hardware bracket the
camera delivers three pictures for one `takePicture`. `taken` is a history: the exposures of the
pictures since the press. `user` is patient, hasty, or leaves by closing the camera.

### Interval and Series

`Interval` extends it with the series: `StartSeries` and `StopSeries` are the two
halves of `IntervalModule.DoWork`, `RunnerWaits` and `RunnerShoots` those of
`intervalDelayRunner`, `SeriesHearsStop` is `onCaptureStateChanged` with
`DoNextInterval` in it, `LoadModule` what `SetModule` does to the picture module and
its listener (`picListener`). Only two things of the clock matter, whether the time
is up (`late`) and the seconds of the wait. `runners` counts the posts of the runner:
it is the number `removeCallbacks` brings to zero. `shutterDelay` is not modelled,
because nothing calls `StartShutterTime`, which alone sets it.

`Series` is the promise to the photographer, with the two variables `on` and `phase`;
`Interval` implements it by `on <- working`, `phase <- seriesPhase`.

### CameraHolderApi2

`ui` says where the UI thread is. While it waits for the semaphore (`"open"`,
`"close"`, `"switch"`) no callback runs, since openCamera and createCaptureSession
are given no handler and answer on the same looper. `permits` and `opening` are the
semaphore and the unanswered openCamera calls; `session` is what `mCaptureSession`
refers to, a live session, one of a closed device, or one of a device that failed;
`stale` and `fresh` are the onConfigured calls to come, of sessions that were
replaced and of the newest one, in this order. `NewFragment` starts over with a new
holder, also after a crash.

### PictureModuleApi2

Its `Next` composes the holder's actions with its own: `CameraGone`, `SessionReplaced`,
`ModuleLoaded` and the others say what each action of the holder does to a capture (a
closed session takes its repeating request, and with it the metering callback, along;
images that were captured may or may not come). `repeating` is the callback of the repeating request,
`inFlight` the callbacks that frames in flight will still call: while the one of the preview is
among them, which a metered capture sees to by its precapture trigger (line 145), the AF listener
may find a new AF state and repeat the preview's request (`ListenerRepeats`, `CameraHolderApi2.java:487`,
494 and 506), in place of the request that metering waits for. The frames of that one may be over
already (`FramesEnd`), and `mState` then stays where it is. `aeLock` is CONTROL_AE_LOCK in the
request builder: set when metering ends (319), cleared in `finishCapture` (394) and with a new
builder (`CameraOpened`). A saver waits for `mDngResult`, counts
(load, store), saves, clears `isWorking`, and then compares and posts `finishCapture`:
five steps, each of its own. The guard `Ready` is the user who waits for the preview;
`QuickPresses` and `BusyUser` are the users who do not.

### VideoModuleApi2 and Recording

The recorder is none, prepared, running or failed. A press prepares it, closes the
session and asks for a new one; `Configured` of that session (`video`) starts it and sets
`isRecording`. The holder's actions are composed with what they do to the module:
`CameraGone`, `SurfaceGone` and `ModuleLoaded` call DestroyModule, which stops the
recorder if `isRecording`; `RecorderError` is the listener of the recorder, which
changes the button but not the flag. `shown` is what the button says. From a press to
`previewrdy.onConfigured`, `mCaptureSession` is the session that was replaced (`session = "closed"`); the AF
listener of a frame in flight sends it a request all the same, whose exception nobody catches
(`RequestThrows`), in every world. `Recording` is the
promise: a recording is shown before there is a file, and as long as there is one; a crash of
the app ends both (`Seen`).

### SonyConnection and Connection

UI thread, search threads, opening threads and event loops share `mSearching`,
`mIsActive` and `mWhileEventMonitoring` without a lock. A search tests its flag 200 ms before
it sets it (`sending` to `receiving`); an event loop reads its flag only between polls
(`NextPoll`), and assigns it once more behind the loop (`LoopLeaves`). Opening is five
steps of `CameraHolderSony` and the observer. `waiting` is the UI thread in
`searchSsdpClient`, which busy-waits for the wifi. `onDeviceFound` sets STATE before
`serverDevice` and is one step here. In the calm world broadcasts, pauses and resumes
come when the threads have done what the last one started, and the camera answers.

`Connection` is the promise of that world: the link goes from down by opening to up, and ends
when the fragment leaves; `linkState` reads it off the threads and the flag.

### RawToDng

One step is one group of bytes copied into the strip (`Mipi`, `Mipi12`), or one unpacked
scanline (the other types), with the byte arithmetic of the process functions and
the bit depth the tag is given. `Pixel` is the reference: how `DngProfile`'s formats hold
a pixel; `Read` is a reader of the file. `MCRawToDng` gives pictures of every type,
with bytes whose neighbours differ in their high and in their low bits.

### DiskLruCache, ThumbnailStore and DiskLruCaches

The journal on disk is modelled by the index that reading it yields; the lines in the
`BufferedWriter` are kept one by one and leave it in order (`Spill`), since a kill
(`Crash`) loses them, perhaps in the middle of a line (`tail = "torn"`); the next line
appended behind that makes the journal corrupt, and the next open empties the
directory. An addition goes through get, edit, flush, create, compress, commit
(`adder[k]`), holding the cache's lock only where the code does (`Free`); writing may
fail (hidden by `hasErrors` until the commit) or throw out of CacheHelper, which
leaves the editor open. `remove` can find an entry that is being edited, or a file that
is gone; `trimToSize` evicts on its own thread.

`ThumbnailStore` is what the viewer may rely on, without index, journal and buffer: a thumbnail is
published whole under a key that has none, does not change, and goes by removal alone; some of
what is stored is settled, and a kill costs nothing that is settled. `Promise` is the refinement: stored are the files `<key>.0`,
settled those that the journal on disk lists as published.

`DiskLruCaches` is two instances, the camera's and the viewer's, on the same files and
journal, as `ActivityAbstract.onCreate` makes them.

## 3. Runs

Passing runs, with their distinct states:

| Run | Module | Shows | States |
|---|---|---|---|
| Camera1Captures | BracketModule | picture module and brackets under patient, hasty and leaving users: a free module has a camera that can take pictures, a working one a picture to wait for; bursts counted by racing threads and brackets passed from thread to thread take all their pictures, in order, and end | 285,563 |
| IntervalSeries | Interval | a calm series implements `Series`; always driven, true countdown; waits and series end | 2,628 |
| IntervalFaults | Interval | with bursts, failing and closing cameras and all module switches: a stopped series has no post left on the looper, and the handler works for no module that has stopped | 75,088 |
| Api2Captures | PictureModuleApi2 | a patient user, a sound camera: opening, resizing, switching, leaving, captures and bursts, metered or not, with the AF listener among them; the camera closes, the preview comes; a button locked for good has lost its metering (`MeteringLost`), and so has a preview that does not come back | 35,013 |
| Api2Faults | PictureModuleApi2 | a hasty user on a camera that throws, disconnects and fails: the timeout of OpenCamera never fires, a live session has its device | 6,133,330 |
| CacheRestarts | DiskLruCache | kills, failing writes, deletions, eviction, compaction: the cache implements `ThumbnailStore`; no leak, true lengths, true usage, clean-ups end | 128,053 |
| VideoRecords | VideoModuleApi2 | every user, recorder and camera: no recorder runs that the module will not stop, and the button follows the recorder; in a sound world the module implements `Recording` until the app crashes over a replaced session, and leaving ends the recording | 4,897 |
| SonyConnects | SonyConnection | set flags have their threads in every world; in a calm one a single loop, a found camera is monitored, a paused fragment falls silent, and the threads implement `Connection` | 258,785 |
| DngUnpacks | MCRawToDng | every raw type, one to three rows, with and without room behind them: the strip is right at every step, and every pixel is read back | 3,294 |

Runs that must find a violation (section 6), each on a specification with fairness where
the property is one of liveness: CameraHolderLeave, Api2HitTwice, CacheTwoActivities.

Bounds, all named in the modules, and why they suffice:

* `BurstValues` up to 3 pictures, as many `Savers`: the race on a counter needs two
  threads, the third shows a burst that goes on after a lost increment. `MaxOwed` and
  `MaxCount` are above every burst (assumed), so that the camera is never held back in
  a burst; `burstcount` saturates where no comparison can tell.
* Two `Tasks`: in a steady bracket one picture is handled at a time, which two threads suffice to
  refute; a hasty user's bracket fills both. `CameraFails` is FALSE in Camera1Captures, since
  a takePicture that throws leaves `isWorking` set (section 6) and is in IntervalFaults.
* Two searches and two event loops, the numbers at which they can disturb one another; one
  opening thread and one posted timeout. With two opening threads the run passes as
  well (1.5 million states).
* DNG pictures of up to two groups and three rows, with room of 0, 1 or 3 bytes behind
  a row: a group that is not the first, a row that is neither first nor last, room that
  is and is not a multiple of anything. The theorems have no such bound.
* `Durations` 0 and 2 seconds: no wait, and a wait with a second that is not the last.
  `MaxRunners` = 2 allows the second post that `OneRunner` excludes.
* `MaxPermits` = 2, `MaxPending` = 1 or 2: a second permit and an outdated session
  beside the new one are the anomalies; more of them behave like the first.
* `MaxDue` leaves room for one capture in the run of the patient user, who has one,
  and for two overlapping single captures in that of the hasty one.
* Two keys, lengths 1 and 2, capacity 3: two thumbnails of length 2 overflow it, so
  that eviction happens; `RebuildAt` = 3 redundant lines, so that compaction happens; a
  buffer of two lines holds two keys' lines, or the DIRTY and REMOVE of one.
  `MaxPinned` bounds the bytes of published entries whose later edit was given up:
  `trimToSize` cannot evict these, and would not end if they alone exceeded the
  capacity (200 MB in the application).
* The two caches are run with one key, no kill and no rebuild: the violation needs no
  more.

Deadlock is checked where the system runs for ever. Runs with `CHECK_DEADLOCK FALSE`
are those where it may really stop: at the semaphore (CameraHolderLeave, Api2Faults, VideoRecords) or after a crash,
when a picture is written (DngUnpacks), or at a bound when the user goes on without
waiting (SonyConnects in its hasty world).

Type invariants are not in the runs: they are proved (section 4) for the modules that
have proofs. So are inductive invariants and their weaker consequences (`CalmInv`, `OneRunner`,
`PreviewIsComing`, `WorkIsReal`, `OpenedIsKnown`, `WholeFiles`, `TrimFindsEldest`, `TrimCanEvict`,
`SingleIsDriven`); TLC agreed with each on the run of its module.

Fairness: the looper serves its messages and the camera answers (weak fairness of
callbacks and posts), threads are scheduled (each saver, the writer, the clean-up), time
passes, metering ends where it can (below), a thread that can acquire its permit goes on, and Android destroys the surface
of a removed fragment. None is assumed of the user, of failures or of kills. Of the threads of
the remote connection only this much is assumed: some thread of each sort runs, and its
calls to the network return or time out. Strong fairness is not used. `PreviewStarts` is stated for a user who comes to rest.

Of metering, weak fairness of `Metered` is assumed only while `MeteringEnds`: the ae request repeats, and AE was
not locked before metering began. The code sees it end in a frame whose AE state is converged, or
is precapture (or flash required) and in a later frame is not precapture; AE that is locked already reports neither. What is
assumed of the camera is that it ends metering although the builder keeps
the trigger START in every later request (line 145 sets it and nothing sets it back). Nothing is assumed of
the AF listener. So `ShutterFrees` and `PreviewComesBack` name the one way out, `[]MeteringLost`: without that
disjunct TLC finds both violated, by a patient user on a sound camera. A capture whose request was
replaced may still end, if a frame of it comes late, and both cases are in the run.

## 4. Theorems

`*_proofs.tla` hold the proofs, checked by tlapm, for every value of the constants.

* **BracketModule**. `BracketTypeCorrect`. For every burst, number of savers and camera, `BurstCorrect`
  proves `BurstInv`: there is a number M that bounds the count and all that savers have loaded, and M, the
  savers and the pictures to come stay within the burst. The count alone will not do, for a late store
  lowers it and a later one raises it again by more than one. `BurstsAreCounted` and `BurstsAreWhole` follow.
  For a camera that does not throw, `BracketCorrect` proves `BracketInv` (count, exposure and exposures
  taken agree with the one place where the bracket is), and from it `BracketStaysInPlace` and
  `BracketsAreWhole`; `ShutterCorrect` adds `HonestInv`, that a capture that works also waits.
* **Interval**. `TypeCorrect`. `StopIsFinal`: without any assumption on camera and
  user, a stopped series has no post on the looper, and the handler does not work for a
  stopped module (`HandlerStops`); the two are inductive together, since only a working handler posts.
  `CalmCorrect`: for single pictures on a camera that works, and no reload of the picture
  module under the series (`Calm`), `CalmInv` is inductive: `isWorking`, `waitForPicture`
  and the picture owed say the same, the preview runs exactly when none is owed, and a
  working series has either one timer or one picture. `OneRunner` and `SeriesIsDriven`
  are not inductive without it: whether a second timer can be posted depends on whether
  a picture can arrive. `CalmOneRunner`, `CalmSeriesIsDriven` and the refinement
  `CalmImplements` follow, the last with one step of `Series` (or a stutter) per action.
  `CalmCountdown` adds that the countdown stands at nought whenever no timer is on the looper.
* **CameraHolderApi2**. `HolderTypeCorrect`; `OpenIsPrompt`, through `PermitInv`: every
  OpenCamera comes after a CloseCamera on the same thread that found a permit, or on a new
  holder; `SessionCorrect`. For a camera that opens and stays (`SoundCamera`) and however
  hasty a user, `SoundCorrect` proves `SoundInv`, and from it `SoundLock` (the semaphore is
  a mutex), `SoundNoOrphan`, `SoundNoClosedSession`, `SoundPreview`.
* **PictureModuleApi2**. `PicTypeCorrect` without assumptions. For a patient
  user on a sound camera, with the AF listener at work at any time, `PatientCorrect` proves
  `PatientInv` (a capture keeps its session, one that is being metered is alone, a saver that has its
  result keeps it), for bursts of any length and any number of savers. `PatientWork` follows: a locked
  button has an image to come or being saved, a finish that is posted, or metering that is not over (which may
  be for good, see `MeteringLost`), and nothing else locks it. `PatientResult` follows too.
  `ModuleKeepsHolder`: the composition implements the holder's specification, so that all of the above
  holds under the module. It needs the same patience: the callback of metering throws if it finds no session,
  and that it finds one rests on `PatientInv`, which rests on the holder's invariants in turn; the lemma
  `PatientJointly` proves both together. `FinishCorrect`
  adds `CountInv`: the count, and every value a saver has loaded and will store, leaves room in
  the burst for the images that are to come or to be counted. Lost increments only add room,
  so that a count that reaches the burst leaves nothing to come. `SingleComesBack` is the safety half of
  `PreviewComesBack`: while the preview of a live session is stopped, a single capture has an image to come, one
  being saved, or a finish on its way (`SingleIsDriven`). It rests on `SingleInv`: the thread that saves a
  single image finds the count at one, for by `CountInv` what it loaded was nought.
* **DiskLruCache**. `CacheTypeCorrect`; `CacheInvariant` proves `CacheInv`; `CacheNeverLeaks`,
  `CacheServesWholeFiles`, `CacheRecoversTruly` follow. A statement about the files after a
  kill cannot be inductive alone: what the journal will say depends on the lines still in
  the buffer, and which lines can be there depends on how far each addition is.
  `MemoryKnows(k)` therefore relates addition, index and files, and `JournalKnows(k)` the
  files to the journal with its pending lines. No assumption but that one cache works in
  the directory.

  `UsageInvariant` proves `UsageInv`, and `CacheCountsUsage` follows: the size is the sum of the lengths, and the
  order lists every entry once. A restart takes order and index from the journal, so that both have to hold of
  what the journal will say as well; its lines are read one by one, and `LinesInv` says that on the way
  every key that is read is known and that in the end every entry is. Sums and orders are
  recursive functions over sets and prefixes. What is needed of them (that there is such a function, that it adds up, splits,
  and changes by what one element changes) is proved without induction, by the smallest
  counterexample: the strict subset order of a finite set is well founded (`SmallestSet`,
  `SmallestNumber`).

  `CacheImplementsStore` is the refinement, one step of `ThumbnailStore` or a stutter per action; it needs
  `LengthsInv` (only what `compress` can write is ever published) and that no DIRTY or REMOVE of a file that can be read
  is pending. `EvictionFindsEntry` and `EvictionIsPossible` are the safety half of `TrimEnds`: a cache that is too
  large has an eldest entry, and one that nobody edits. The second rests on `PinnedInv`: what is published of entries whose
  edit was given up stays within `MaxPinned`, and besides these only the one addition in progress keeps an
  entry from being evicted. That there is room for it is the hypothesis of `TrimCanEvict`, without
  which `trimToSize` does go round for ever.
* **VideoModuleApi2**. `VideoTypeCorrect`; `RecordingIsKnown`, for every user, recorder and camera,
  from `RecorderInv`: a recorder runs, or a session is configured for it, only while there is a surface
  or a call that will close the camera. `ButtonFollows`, as general, from `ButtonInv`: the
  button shows a recording only with a recorder that is prepared or runs, and no recorder runs without it,
  although an error of the recorder leaves `isRecording` set. In a sound world `ShownCorrect` proves `ShownInv`, which
  repeats what `SoundInv` says of lock and session, since the module's sessions come and go
  with the holder's; `ShownIsTrue` and the safety part of the refinement, `RecordingIsShown`, follow. A sound
  world has no fault of camera and recorder, but it has the AF listener: `ShownIsTrue` says that the crash over a
  replaced session finds no recording that runs (the session is replaced by a press, which stops what runs
  or starts what does not run yet), and the refinement that it takes back what was shown.
* **SonyConnection**. `SonyTypeCorrect`; `FlagsCorrect` without any assumption on user, network
  and number of threads; `OpenedCorrect`. `CalmCorrect` proves `CalmInv`, where search, opening and
  loop come one after the other; `CalmOneLoop` and the refinement `CalmImplementsConnection` follow.
* **RawToDng**. `CopyCorrect` proves `CopyInv`, the place of the loop in the data and in the
  strip and the lines written, with what the strip holds; `StripCorrect` and `PixelsCorrect`
  follow by the arithmetic of the groups, for pictures of any size whose rows are whole groups, and for
  all bytes (`PicturesAssumption` states what a picture is).

Only model-checked: liveness (`CaptureEndsGuarded`, `BracketEnds`, `ConnectionComes`, `PauseSilences`,
`LeavingStops`, `SeriesEnds`, `WaitEnds`, `CloseEnds`,
`PreviewStarts`, `ShutterFrees`, `PreviewComesBack`, `TrimEnds`, and the fairness in `ImplementsRecording`), which
the prover does not reach. Every safety property of a passing run is a theorem.

## 5. What the models leave out

* File formats, ZSL, GPS, metadata: no property is about them. A saver's writing is one step.
* On Camera1 the camera is taken to owe one callback per picture of a burst. Loading the picture
  module again under a burst is in `Interval` and, after a reopened camera, in `PictureModule`.
* The setting "20 min " has a blank too many after the unit is removed, and starting a series
  with it throws; the models start series with values that parse.
* openCamera that throws keeps its permit; `OpenCameraThrows` models it, and the next
  CloseCamera then waits for ever. `OpenNeverTimesOut` holds even so, because no OpenCamera is
  reached.
* onDisconnected and onError of an open camera add a permit nobody holds; the lock is no mutex
  then (`SoundCamera` excludes it, `Api2Faults` includes it).
* SetParameterRepeating on a session that is closed throws an exception nobody catches
  (`ClosedSessionThrows`; `CameraHolderApi2.java:738` catches CameraAccessException only). With the picture
  module the field holds such a session only after a fault of the camera, as `CloseCaptureSession` sets it to null;
  with the video module from every press to `onConfigured`, when the AF listener may come.
* The AF listener's own state (`afState`, which it compares with) is left out: the model lets every frame of the
  preview in flight bring a new AF state.
* `MeteringEnds` is an assumption about cameras (section 3).
* A MediaTek bracket clears no `burstcount` (`PictureModuleMTK.java:51`); the model's press of a bracket
  does, and nothing reads it there. `OpenCamera` of Camera1 that fails (`CameraHolder.java:98`) is not modelled.
* A Camera1 burst that loses an increment never ends by itself, and a Camera2 one leaves the
  preview stopped: `CaptureEndsGuarded` and `PreviewComesBack` are stated for single pictures,
  `ShutterFrees` for all.
* onConfigured is delivered after the posts of onCameraOpen that were on the looper before it;
  the model lets it wait for all of them.
* Emptying a corrupt cache directory is one step; Android emptying it under the application is
  not modelled; keys have no blanks (with blanks, `addBitmapToCache` is always refused).
* Sequence numbers of cache entries: `CacheHelper` never edits through a snapshot.
* Brackets start from the picture module's looper as it is; no closing of the camera is
  offered while the UI thread sleeps in DoWork, for it is the same thread.
* A recorder writes from start to stop; file, size limits and audio are left out. The order of video
  sessions among the outdated ones is not kept (`videoStale` counts them).
* The Sony fragment's `cancelSearching` and `WifiConnectedReceiver` are not used by the code, and not
  modelled. What the events say is handed to listeners that are not modelled.
* DNG rows that are not whole groups: the code writes a last group that reaches into the next row.
* The loops of `process10tight` and `process12tight` overrun their buffers where there is room behind the rows: they go on
  while `i` is within the data, and write a whole group behind the last row past the end of `out`,
  which is allocated for the rows exactly (`RawToDng.cpp:597`, 609-613; 637, 650-652), more than one if what is
  left of the data allows, and may read past its end. The model takes those rounds
  but has no memory behind the strip to write to: `StripInPlace` and `ReadsBack` are about the strip, whose
  contents are right, and say nothing of what is overwritten.
* Optional matrices of the profile are uninitialised unless set; the other tags are
  copied.

## 6. Where the code and its comments disagree

* **CameraHolderLeave**: leaving or switching the camera before it has opened blocks the UI
  thread at the semaphore; the permit would come back in a callback of the same thread.
* **Api2HitTwice**: `isWorking` is cleared by the saver before the capture is over; a press in
  between is taken and resets the counters of the capture in progress.
* **CacheTwoActivities**: "This directory must be exclusive to the cache", but every activity
  opens one of its own; a half-written file is published.

Met while modelling, without a run of their own:

* `A/basecamera/modules/IntervalModule.java:103`: when the time of a series is up, the module
  still reports `continouse_capture_work_stop`, for which `ShutterButton` shows a stop
  button; the next press starts a new series.
* `A/camera2/modules/PictureModuleApi2.java:136`: a metered capture waits for a callback of the repeating
  request; the AF listener (`A/camera2/CameraHolderApi2.java:487`, 494, 506), a touch or a new session replaces
  the request, and `isWorking` stays set for the life of the fragment, for the most patient of users.
  `ShutterFrees` says that there is no other way to that, but one: a burst that lost an increment
  leaves AE locked (line 319), and the next metering may not end.
* `A/camera2/CameraHolderApi2.java:738`: StopRepeatingCaptureSession above catches IllegalStateException,
  StartRepeatingCaptureSession does not. Between a press of the video module and `onConfigured` the AF listener
  can crash the app.
* `A/basecamera/CameraWrapperInterface.java:49` leaves it to the module to handle a second press. So
  does `ShutterButton` (line 67), but `BracketModule` and `VideoModuleApi2` do not: a second press during a hardware
  bracket clears `hdrCount`, which then never reaches three, and the preview stays
  stopped; `isRecording` is set only in onConfigured. `Steady` leaves this user out for
  `BracketModule`, `sound` for the video module.
* `A/sonyremote/sonystuff/SimpleCameraEventObserver.java:249` promises false "if a monitoring is already
  started"; after stop and start within a poll there are two loops, and line 310 of the
  old one can clear the flag of the new. The retry posted by onCameraError (`SonyCameraFragment.java:319`)
  survives onPause and starts the camera in the background. A getEvent that fails while opening leaves STATE
  connected and nothing that tries again. `OneLoop` and `ConnectionComes` are stated for the calm world.
* `src/app/src/main/jni/freedcam/RawToDng.cpp:653`: process12tight shifts the low bits of each pixel out, and the tag
  says 16 bits for `Mipi12` (the branch for twelve asks for a raw type below zero). `ReadsBack` leaves that
  type out. The white level is 0x3ff for every type.

## 7. Not modelled

* User interface, viewer, settings, parameters, focus, storage: views, maps of keys to strings and
  arithmetic of rectangles, on one thread. What they cause is in the actions of the modules.
* `BitmapHelper`: its lists and its flag are shared without a lock; whether a bitmap is drawn twice is
  all that depends on it, and `DiskLruCache` takes any order of its calls.
* Stacking, on both interfaces: frames are computed by RenderScript on threads the code does not name.
* The Camera1 video modules, which record on one thread without callbacks; the Camera2 brackets, which are bursts of
  the picture module with one request per exposure.
* The Sony modules and live view: their state is what the events of the remote camera say.
* Vendored libraries (LibRaw, libtiff, libjpeg), by far the most of the C and C++ in the repository: third-party
  code, called by the DNG writer only.

## 8. Plan

Done: the Camera1 modules and the series with its promise; the Camera2 holder with picture and video module;
the thumbnail cache; the remote connection; the DNG writer; the theorems of section 4.

Next:

1. `IntervalApi2`: the timer of `Interval` driven by `PictureModuleApi2`, whose end of capture is
   reported on the saving thread, beside CancelInterval on the UI thread.
2. The Camera1 `AbstractVideoModule` as a second implementation of `Recording`: a prepareRecorder that fails is
   reported as a start.
3. `ModuleHandler`: posting to listeners by index.
4. The promise of a capture, one abstract module that the Camera1 and the Camera2 picture module both implement.
