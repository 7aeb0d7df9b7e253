# TLA+ models of the PV player driver

This directory holds TLA+ models of the Android OpenCORE player driver,
`src/android/playerdriver.cpp`, and of the code around it. TLC checks the
models. `PROJECT.json` lists the components, runs, mutants, the map from each
definition to the source lines it models, the findings and the hazards.

## The system

- **PVPlayer** (`playerdriver.cpp` 1819-2209) is the `MediaPlayerInterface` that
  the application calls. Each API call builds a `PlayerCommand` and hands it to
  `PlayerDriver::enqueueCommand`.
  - Most calls are synchronous: they pass no callback.
  - `seekTo` passes `do_nothing`, so it is asynchronous.
  - `prepareAsync` chains `run_init`, `run_set_video_surface`,
    `run_set_audio_output` and `run_prepare` through callbacks.
  - `prepare` ends with a `PlayerPrepare` whose callback is
    `check_for_live_streaming`, which in turn enqueues
    `PlayerCheckLiveStreaming`.
  - `reset` enqueues CancelAll, Reset and RemoveDataSource.
- **Command queue** (`enqueueCommand` and `dequeueCommand`, 244-316). This is
  `mCommandQueue`, guarded by `mQueueLock`. Producers `push_front`; the
  consumer pops the back, so the queue is FIFO.
  - A command without a callback gets `syncCompletion`, and its caller waits on
    the shared `mSyncSem`, then returns the shared `mSyncStatus`.
  - The first push into an empty queue wakes the AO with `PendComplete`.
- **Executor** (`Run`, 326-471). The player thread runs an OSCL scheduler, and
  `PlayerDriver` is an active object (AO) on it. Each `Run()` does one of three
  things:
  - with `mDoLoop` set, it restarts looping playback;
  - while the engine is in `PVP_STATE_ERROR`, it returns at once;
  - otherwise it dequeues one command, re-arms itself (`RunIfNotReady`) when
    more commands remain, and dispatches the command to a `handleXxx` method.

  The dispatch has its own special cases:
  - Live streams deny Pause and Seek.
  - GetPosition, GetStatus and SetLoop finish in the same turn.
  - Stop becomes Reset when the engine is not paused, prepared or started.
- **Completion bridge** (`CommandCompleted` 1165-1267, `commandFailed`
  473-490). The PV engine completes each request on the player thread with the
  command as context. The bridge does the following, in order:
  - swallows the completion while `mDoLoop` is set;
  - drops a NULL context;
  - masks benign errors while `mSeekPending` is set;
  - runs the post-processing for success;
  - maps the status to a `status_t` and calls the command's callback.

  An engine call that leaves fails the command at once through
  `commandFailed`.
- **Engine events** (`HandleInformationalEvent` and `HandleErrorEvent`,
  1269-1422).
  - End of data starts the loop restart, or sends `MEDIA_PLAYBACK_COMPLETE`.
  - ErrorHandlingComplete re-runs the AO.
  - DataReady sends `MEDIA_PREPARED`.
  - Buffering and content events are forwarded to the application.
- **Player thread lifecycle** (`PlayerDriver::PlayerDriver` 165-230,
  `playerThread` 1030-1110, `PVPlayer::PVPlayer` 1819-1852, `handleSetup` and
  `handleHelper` 492-507, `handleQuit` 1012-1016, `~PVPlayer` 1860-1866).
  - The PVPlayer constructor creates the driver. The driver's constructor
    starts the player thread and waits on `mSyncSem`.
  - The thread's start-up can go two ways. If `InitializeForThread` or
    `CreatePlayer` fails, it sets `mPlayer = NULL`, signals and returns -1.
    Otherwise it schedules the AO and starts the scheduler, which signals.
  - The PVPlayer constructor then sends a synchronous `PLAYER_SETUP` and, if
    that returned OK, a synchronous `PLAYER_HELPER`. These are engine
    `QueryInterface` requests. The last status becomes `mInit`
    (`initCheck`).
  - With `mPlayer` NULL, `enqueueCommand` returns `NO_INIT` at once.
  - `~PVPlayer` enqueues a synchronous `PLAYER_QUIT`. `handleQuit` stops the
    scheduler without completing the command. The thread then deletes the
    engine, sets `mSyncStatus = OK`, signals `mSyncSem` and deletes the
    driver. The woken caller closes and deletes the semaphore
    (`enqueueCommand` 305-311).
  - After a failed start-up, PLAYER_QUIT also gets `NO_INIT`, so nothing
    deletes the driver.
- **A2DP switch** (`handleSetAudioSink` 741-778, `canSetA2DPDirectMode`
  1495-1523, `checkA2dpDirect`/`checkA2dpOn` 1423-1452, `A2dpDirectToNormal`
  1454-1493). When the platform allows it, the audio sink streams A2DP direct
  (`mIsA2DPMode`). If the device goes away, `start` (when paused) or `pause`
  runs a saga of synchronous commands on the application thread: GetPosition
  (its failure is ignored), Stop, RemoveAudioSink, SetAudioSink, Prepare and
  Seek. Its SetAudioSink sees `mIsA2DPMode` and sets `mSwitchFromA2DPDirect`,
  so that the internal Prepare's completion does not send `MEDIA_PREPARED`
  again.
- **Extensions** (`PVPlayerExtHandler.cpp` and `extension_handler_registry.cpp`).
  `PVPlayer::invoke` enqueues a synchronous `PlayerExtensionCommand`, and Run()
  hands it to `callPlayerExtension`. A query creates an extension (an
  `IDispatch`) from the registry by UID and writes its handle to the reply. An
  API call hands the command to that extension's `invoke`, and a release deletes
  the extension. An extension may issue engine requests with the command as
  context and name itself as the command's completion handle; `CommandCompleted`
  then offers it the completion before its own. The registry behind the
  queries is filled when the driver's constructor creates the handler
  (`populate`, `loadPVPlayerExtensions`): each configured library is loaded
  and registers its entries (`PVPlayerExtnInfo`, a UID and a create function
  that may be NULL) in `mType`, or fails and is closed. The driver's
  destructor, at the player thread's exit, unloads them again (`depopulate`).
- **MP4 atoms** (`audiosampleentry.cpp` and `qcelpatom.cpp`). Size accounting
  for the 3GPP2 speech sample entry in the parser, and for the QCELP atom in the
  composer.

The PV engine, the OSCL scheduler and the semaphore are not in this
repository. They form the environment of the model, which assumes the
following:
- `PendComplete` completes only a pending request.
- `RunIfNotReady` acts only on an idle AO.
- A ready AO is eventually run.
- The engine completes its requests in the order they were submitted.
- After `PVMFInfoErrorHandlingComplete` the engine is idle.
- The engine reports `PVMFInfoDataReady` once for each network source after
  Init.
- The engine's Reset does not remove its data source; RemoveDataSource does.
- The application's audio sink is realtime (MediaPlayerService's
  AudioOutput); what `canSetA2DPDirectMode` answers (stream type, the
  `persist.mot.a2dp.direct` property, metadata, `isA2dpCapable`) is a choice
  from `A2dpDirect`, and whether the device is gone at a start or pause is a
  choice when `A2dpMayDrop`.
- The engine's RemoveDataSink is valid in the idle and initialized states.
- The engine answers a `QueryInterface` (PLAYER_SETUP, PLAYER_HELPER) in any
  state but error.
- An extension (vendor code) finishes every command handed to its `invoke`.
  It does so in the same turn, or later, in its `commandCompleted` or by the
  default completion. Any completion it claims, it finishes itself.

## Modules

### `PlayerDriver.tla`: the queue, executor, completion bridge, engine events and lifecycle

State:
- `mCommandQueue` holds command ids (push at the front, pop at the back).
- `ao` is the AO's request state: idle, pending or ready.
- `cmds` holds the `PlayerCommand` objects. Each one has a code, its callback
  (`syncCompletion` for a command without one), and its fate: the engine
  status, the result, the cancelled flag and how often it was notified.
- `mSyncSem` and `mSyncStatus`.
- `caller`: the position of each caller thread in `enqueueCommand`.
- The driver flags `mIsLooping`, `mDoLoop`, `mEndOfData`, `mSeekPending`,
  `mSeekComp`, `mIsLiveStreaming` and `mPrepareDone`.
- The source flags `mDownloadContextData`, `mDataReadyReceived` and `mFormat`.
- The engine: its request FIFO `engine`, its `PVPlayerState` and the end of
  data already reported.
- `sched`: the player thread. It is starting, running its scheduler, stopped
  by `handleQuit`, exited, or failed (returned -1 from its start-up).
- `mPlayer`: the engine exists. `semDeleted`: the quitting caller has deleted
  `mSyncSem`. A caller's position `ctor` is the creating thread waiting in
  the driver's constructor.
- `exts`: the extensions created so far, live or deleted; a handle is an index
  into it, and 0 is NULL. `held`: the handle each thread holds. A command
  also records the handle it carries (`handle`), its completion handle
  (`chandle`) and the handle written to its reply (`reply`). `extLib` is the
  library whose create function made each extension.
- The registry: `mType`, the `PVPlayerExtnInfo` records in registration
  order, each with the library that registered it; `mExtnIfaceInfoList`, the
  libraries the registry keeps, newest first; `opened`, the libraries whose
  `OsclSharedLibrary` is loaded. The constant `ExtnLibs` is the environment:
  in load order, what each configured library's `registerExtensions`
  registers. When `LibLoadMayFail`, any of them may fail `LoadLib`,
  `QueryInterface` or `oscl_malloc`.
- `mIsA2DPMode` and `mSwitchFromA2DPDirect`.
- History and ghost variables:
  - `dispatched` is the order of dequeues;
  - `srcKind`, `srcReady` and `srcPrepared` are what the engine knows of its
    source: the kind, whether data-ready was reported, and whether it is
    prepared;
  - `preparedSent` records whether `MEDIA_PREPARED` has been sent for it;
  - `prepareByApp` records whether the source's current preparation came from
    a PLAYER_PREPARE with a PVPlayer callback (prepare or prepareAsync), not
    from the synchronous one of `A2dpDirectToNormal`.

  A successful AddDataSource, RemoveDataSource, Reset or Stop unprepares the
  source (`Unprepares`). So does the end of error handling.

Actions:

| Action | Code |
|---|---|
| `PlayerThreadStart` | `playerThread` up to `StartScheduler`: the start-up succeeds or fails (1030-1067) |
| `PlayerDriverConstructed` | the constructor's `mSyncSem->Wait()` for the player thread, then the extension handler, whose constructor populates the registry (`loadPVPlayerExtensions` with `Registrations`) (225-230) |
| `enqueueCommand` | the `NO_INIT` return without an engine (`NoInit`), or the push and the wake-up (`enqueueCommand` 272-301) |
| `SyncReturn` | the semaphore wait, `return mSyncStatus`, and after `PLAYER_QUIT` the semaphore's deletion (303-316) |
| `RunLoopRestart`, `RunInErrorState`, `RunDequeue` | the three branches of `Run()`, with `dequeueCommand` and the `Dispatch` switch |
| `CommandCompleted` | the completion bridge (`CompletionBridge`, `SendsPrepared`) |
| `EndOfData`, `ErrorHandlingComplete`, `DataReady` | `HandleInformationalEvent` |
| `EngineError` | `HandleErrorEvent` |
| `ThreadExit` | the end of `playerThread` after the scheduler stops; `delete this` deletes the extension handler (`DeleteExtensionHandler`: `removePVPlayerExtensions`, then the registry's destructor clears `mType`) |

Each handler that the switch calls is one operator named after its method:
- `handleSetDataSource`, `handleInit`, `handleSetAudioSink` (leaving A2DP
  direct mode, or `canSetA2DPDirectMode`), `handleRemoveAudioSink`,
  `handlePrepare`;
- `handleStart`, `handleStop`, `handlePause`, `handleSeek`, `handleReset`;
- `handleGetDuration`, `handleCheckLiveStreaming`, `handleCancelAllCommands`;
- `handleRemoveDataSource`, `handleQuit`, `handleSetup`, `handleHelper`;
- `handleExtensionCommand`, which calls `callPlayerExtension`. That in turn uses
  `queryExtnIface` (with the registry's `createExtension`, the first entry of
  `mType` with the UID, `SelectInSeq`) or
  `ExtInvoke`, the extension's `invoke`;
- the set-loop case, and the commands that finish in the same turn.

Each engine call inside `OSCL_TRY` (`Submit`) either queues the request, or,
when `SubmitMayLeave`, fails the command through `commandFailed`.

Engine statuses are abstracted to four values:
- Success;
- a benign error, which stands for Argument, InvalidState and NotSupported;
- another failure;
- Cancelled, which is possible for a request queued ahead of
  `CancelAllCommands`.

`CompletionBridge` clears `mSeekPending` first. For an extension command it
then runs `ExtensionCompletion`: with a completion handle, the extension may
claim the completion (`ExtensionHandled`); otherwise `DefaultCompletion` runs,
as for every other command. A successful PLAYER_PREPARE clears
`mSwitchFromA2DPDirect` there, and sends `MEDIA_PREPARED` (`SendsPrepared`)
only if the flag was clear.

`CallAllowed` is the application's side of the lifetime. `MediaPlayerService`
holds a reference to the player for the length of each call, so `~PVPlayer`
runs only when no thread is inside a call, and nothing is called after it.
`HeldAfter` is the application's side of `invoke`. After a query it keeps the
handle read from the reply. That handle is NULL if the reply was not yet
written, which happens when the thread was woken by another thread's
completion. After a release it drops the handle.

### `CommandQueue.tla`: what the executor promises

An abstract specification with no engine. Its state is:
- `queue`: commands handed in and not yet taken;
- `running`: commands taken and not yet completed;
- `done`: completed commands;
- `issued`: a counter of commands handed in.

Its single step, `Turn`, may take the oldest queued command, complete commands
already taken (the one just taken included), and hand in a new one. Weak
fairness of taking says that queued commands are always taken.

`PlayerDriver` instantiates it as `CQ == INSTANCE CommandQueue WITH ...`,
under this mapping:
- `queue` is `mCommandQueue` read from its back;
- `running` is the dequeued commands not yet notified;
- `done` is the notified commands;
- `issued` is `Len(cmds)`.

`ImplementsCommandQueue == CQ!Spec` is checked as a property. Several commands
may be running at once, because the code allows it: `dequeueCommand` re-arms the
AO whenever commands remain, although spec section 8 has the driver run one
command at a time. The `uaf` and `exterr` traces both depend on it.

### `PVPlayer.tla`: the API layer

`PVPlayer.tla` extends `PlayerDriver`. An application thread runs an API call
as the sequence of steps its body makes: one operator per method, named
after it (`prepare`, `prepareAsync`, `reset`, `start`, `stop`, `pause`,
`seekTo`, `getCurrentPosition`, `setLooping`), chosen by `Body`. Each step
is one of:
- an `enqueueCommand`;
- a check of the status the last synchronous command returned;
- setting or clearing `mIsDataSourceSet`.

`RunStep` takes the steps one at a time. A failed check does one of two things:
- in `prepare`, it returns from the call;
- in `reset`, it skips the remaining commands (`RemoveDataSource` after a
  failed `Reset`).

`start` and `pause` read `mIsA2DPMode` and the engine state on entry
(`checkA2dpDirect`, `checkA2dpOn`), with the device's absence as a choice
(`A2dpMayDrop`). When the check fails, their body is `A2dpDirectToNormal`, a
step sequence with a return after each failed step but the first; `start`
then checks the saga's status and queues its Start.

The creating thread starts with the constructor's steps (`PVPlayerCtor`):
PLAYER_SETUP, a check that skips PLAYER_HELPER on failure, and `SetInit`,
which stores the last status in `mInit`. `MediaPlayerService` calls the API
only when `initCheck()` is OK. It destroys the player whatever `mInit` is
(`Destroy`), when no thread is inside a call. The destructor's body is the
PLAYER_QUIT. `destroyer` records the thread that entered it.

`setDataSource(url)` only keeps the URL. The module assumes one thing: the
`MediaPlayer` state machine above `PVPlayer` calls `prepare` and
`prepareAsync` only after `setDataSource`.

### `SpeechSampleEntry.tla`: the 3GPP2 speech sample entry

This module covers `SpeechSampleEntry3GPP2` of the MP4 parser, fed with bytes
laid out as the composer writes them.

The file is a byte sequence. The constructor is one operator,
`SpeechSampleEntry3GPP2(f, size, type)`. It does the following:
- reads and counts the fixed fields;
- reads the decoder-specific box (EVRC-like, VMR, or an unknown atom that is
  skipped);
- performs the `end_of_atom` recovery.

It returns the entry's fields and the file position. The composer side is
modelled too:
- `QcelpAtomSize` is `recomputeSize`;
- `QcelpAtomRender` and `DecoderBox` are `renderToFileStream`;
- `FixedFields` is the fields `PVA_FF_QcelpSampleEntry` declares.

`Construct` runs the parser on one input, chosen in `Init` from `Inputs`.
Several helpers are not in the repository and are assumed:
- `AtomUtils` reads are big-endian and fail at the end of the file;
- `getNextAtomType` leaves `UNKNOWN_ATOM` and size 0 when it cannot read;
- the four-character codes are those of the 3GPP2 format.

### MC modules

- `MC_PlayerDriver` defines each caller's requests, following `PVPlayer`'s
  calling conventions.
- `MC_PVPlayer` defines each thread's API calls.
- `MC_SpeechSampleEntry` defines the input files.

## Runs

### Passing runs

| Run | Setup | Properties |
|---|---|---|
| `fifo` | one thread: start, pause, seekTo, stop, getCurrentPosition, CancelAll, reset; 3 commands; the engine may fail, reject or leave; one engine error | `DequeueInEnqueueOrder`, `CompletedAtMostOnce`, `QueueDrains`, `ImplementsCommandQueue` |
| `sync` | one synchronous thread (which also queries extension A) beside the asynchronous prepare, check-live and seek commands, on a live, looping source with Cancelled completions; either of two extension libraries may fail to load, and the second registers A again after a UID without create function | `SyncRoundTrip`, `CompletedAtMostOnce`, `DequeueInEnqueueOrder` |
| `session` | the constructor (the player thread may fail to start), then one thread: setDataSource (http or rtsp), prepareAsync, prepare, start, reset, and the destructor between any two calls; 6 commands; the engine rejects requests invalid in its state and reports one error | `PreparedOnlyWhenReady`, `PreparedEventuallySent`, `DestructorReturns` |
| `quit` | two threads: one calls start and pause and then destroys the player; the other queries an extension (a registered UID, or one without a create function), calls the handle it holds and releases it; 4 commands | `QuitReturnsAfterExit`, `CompletedAtMostOnce`, `QuitCompletes`, `ExtensionCommandsComplete` |
| `entry` | all six entry types with each box (devc, dvmr, dqcp, none), both layouts, frames 1 or 10, files cut 0, 3, 12 or 30 bytes short | `ReadsBackWhatWasWritten` |

`fifo`, `session` and `entry` also check their module's type invariant;
`sync` and `quit` check the same `PlayerDriver` states as `fifo`, so they do not
repeat it.

What the properties say:
- `DequeueInEnqueueOrder`: commands run in the order they were enqueued.
- `CompletedAtMostOnce`: no handler path both completes a command and hands it
  on (Stop→Reset, commands finished in the turn, live-stream denials, leaves).
- `QueueDrains`: every enqueued command is eventually dequeued, through the
  error-state return and ErrorHandlingComplete.
- `SyncRoundTrip`: a synchronous caller returns only after its own command has
  completed, and returns that command's status.
- `PreparedOnlyWhenReady`: `MEDIA_PREPARED` is sent only after the engine has
  prepared the current source and, for HTTP, reported data ready.
- `PreparedEventuallySent`: once the source is prepared for the application's
  prepare or prepareAsync, `MEDIA_PREPARED` is eventually sent, unless the
  source is unprepared or the player destroyed first. The re-prepare inside `A2dpDirectToNormal` owes
  no `MEDIA_PREPARED`: its caller was told before.
- `QuitReturnsAfterExit`: the quitting caller deletes `mSyncSem` only after the
  exiting thread's last signal. `spec.md` requires that the quit handle
  outlive the executor.
- `QuitCompletes`: `~PVPlayer` always returns.
- `DestructorReturns`: the same, at the API level. It covers a player thread
  that failed to start, where PLAYER_QUIT gets `NO_INIT` and must not wait.
  It also covers a destructor that arrives while the prepareAsync chain is in
  flight. Then callbacks queue commands behind PLAYER_QUIT, or the engine
  still holds a request when the scheduler stops.
- `ImplementsCommandQueue`: the executor refines `CommandQueue`. The pushes by
  callers and callbacks, the pops, the handlers, the completions and the AO
  wake-ups together take commands in FIFO order, complete only taken
  commands, and keep taking while commands are queued.
- `ExtensionCommandsComplete`: while the player thread runs, every dispatched
  extension command completes. A query or a release finishes it in the turn;
  a NULL handle or an unknown opcode fails it; an API call is finished by the
  extension, by its claimed completion, or by the default completion. In the
  `quit` run, `CompletedAtMostOnce` also shows that a claimed completion is not
  completed a second time.
- `ReadsBackWhatWasWritten`: a whole entry in the constructor's own layout
  (26 bytes of fixed fields) is accepted, and `data_reference_index`, the time
  scale and the `frames_per_sample` of an EVRC-like or VMR box are read back
  as written. It follows the reads through the nested boxes at their own
  widths. The 28-byte layout that the writer uses is the `decoder` violation
  run. An accepted entry always ends at `end_of_atom`, because `count` is never
  updated after the fixed fields; no property restates that. A size field of
  9 to 33 (`MC_ShortSize`) is accepted with the file past the entry's end.
  `PROJECT.json` lists this as a hazard, because the parent atom, which is not
  in the repository, may reject such entries.

### Violation runs

Each violation run checks one property, and `findings` in `PROJECT.json` lists
what it shows.

| Run | Property | What TLC finds |
|---|---|---|
| `exterr` | `InvalidExtensionRequestFails` | After an asynchronous seekTo, `mSeekPending` is still set. An `invoke` with an API call on a NULL handle then fails through `commandFailed`, which turns the failure into `NO_ERROR`. Spec §4.4 makes such a request an invalid-operation error. |
| `lost` | `CompletionNotLost` | A user command is outstanding when end of data arrives in looping mode. Its completion is taken for the loop restart, so a synchronous caller blocks forever. |
| `uaf` | `NoCompletionToReleased` | An extension's API call is at the engine with the extension as completion handle. Another thread's synchronous start completes, and on the shared `mSyncSem` it wakes the extension's thread instead of its own. That thread releases the extension, which is deleted, and the engine's completion is then delivered through the freed pointer. |
| `stale` | `PreparedOnlyWhenReady` | `mPrepareDone` survives reset. After reset, a second HTTP source's DataReady sends `MEDIA_PREPARED` before its Prepare completes. |
| `unprepared` | `PreparedEventuallySent` | `mDownloadContextData` survives reset. A local file prepared after an HTTP session never gets `MEDIA_PREPARED`. |
| `a2dp` | `PreparedEventuallySent` | `mIsA2DPMode` survives reset. After a session that streamed A2DP direct, the next session's SetAudioSink is taken for a switch from direct mode, and its PLAYER_PREPARE completes without `MEDIA_PREPARED`. |
| `decoder` | `DecoderConfigRecovered` | The parser accounts for 26 fixed bytes where the 3GPP2 layout (and the composer's fields) has 28. It reads the box header 2 bytes early, recovers by seeking, and accepts the entry with `frames_per_sample` 0. |

### Bounds

| Constant | Value | Why |
|---|---|---|
| `MaxCmds` | 3 or 4; 6 in `session`; 12 in `stale`, `unprepared` and `a2dp` | PLAYER_QUIT, always the last command, is not counted. The PVPlayer runs spend two on the constructor's PLAYER_SETUP and PLAYER_HELPER. Enough for a command to be queued behind another, to be dispatched while another is outstanding, and to complete after a loop restart. The two-session runs need a whole setup chain twice. In `quit`, 4 commands allow a query, a call through the handle with the engine still busy, a release and PLAYER_QUIT. |
| `MaxEngine` | 4 | Room for the two NULL-context requests of a loop restart together with user requests. |
| `MaxEngineErrors` | 0 or 1 | One error covers the error-state path. |
| `ExtnLibs` | two libraries: A with a create function; then B without one and A again | A UID both libraries register, and one without a create function: with `LibLoadMayFail` (in `sync`) every subset of them loads, so a query for A finds the first library's entry, the second's, or none. |
| Parser inputs | see `entry` | Each input yields one parse. The cuts fall after the box, inside the box, inside the box header, and inside the fixed fields. |

Every passing run finishes within about two and a half minutes, with more than 100
distinct states. Every mutant listed in `PROJECT.json` is killed by its run.

### Fairness

`Spec` assumes weak fairness of the following:
- `Run`: the OSCL scheduler runs a ready AO.
- `CommandCompleted`: the engine completes each request it accepted.
- `ErrorHandlingComplete`: the engine finishes its error handling.
- `DataReady`: the engine reports data ready for a network source it was
  given.
- `ThreadExit`: a player thread whose scheduler stopped runs to its end.
- `SyncReturn` for each caller: a thread whose semaphore was signalled returns
  from `Wait`.
- `PlayerThreadStart` and `PlayerDriverConstructed`: the new player thread
  runs its start-up, and the constructor, once signalled, returns.

`Spec_PVPlayer` has the same fairness, together with weak fairness of
`RunStep` for each thread: a thread inside an API call goes on to its next
step. It has no fairness for starting a call.

The abstract `CommandQueue` assumes only weak fairness of taking a queued
command, which follows from the fairness of `Run`. The extensions get no
fairness of their own: their `invoke` and `commandCompleted` run inside the
driver's fair steps.

Callers get no fairness to call, since the application may stop calling. For
the same reason the runs do not check deadlock, because the player
legitimately idles once its callers stop. The parser runs stop after one
parse.

With looping on, `QueueDrains` fails. If the clip ends again before the AO's
next turn, `Run()` keeps choosing the loop restart. Whether that can happen
depends on the clip's length compared with a scheduler turn, so `QueueDrains`
and `QuitCompletes` are checked only without looping. `PROJECT.json` lists this
as a hazard.

## Not modelled yet (plan for later sittings)

1. **A passing run through the A2DP saga.** One local session with A2DP
   direct, a device that may drop, and setDataSource, prepare, start and pause
   needs 12 commands. That is 1.1 million states and about two and a half
   minutes for `PreparedOnlyWhenReady` and `PreparedEventuallySent`, with no
   engine failures. The project keeps twelve runs, and the place the saga
   would take holds `a2dp`, whose state space has no start or pause. So no
   listed run exercises `A2dpDirectToNormal` or `handleRemoveAudioSink`.
2. **Extension libraries as files.** The configuration files and the
   dynamic linker are abstracted to `ExtnLibs` and a load that succeeds or
   fails; two configuration files listing one library are not modelled.
   A reused (released) handle is undefined behaviour and is not modelled
   either. Extensions left unreleased at exit outlive their library's
   unloading; showing it needs a violation run, and no run slot is free.
3. **`AudioSampleEntry`** (ESDS): its `ESDAtom` is not in the repository.
4. The video surface, and the DRM branch of `CommandCompleted`. The video
   path has a hazard of its own. `mVideoOutputMIO` survives reset, so a
   second session with a surface never re-adds the video sink that Reset
   discarded. Only a violation run could show this, since a passing run stops
   before a second session, and no run slot is free (`PROJECT.json` lists it
   as a hazard).

5. The leak after a failed start-up (the driver, `mSyncSem` and
   `mLibHandle` are never freed). The model reaches this state, but a run
   that checks it would need a thirteenth slot.

Left out: track selection, metadata retrieval, `getFD`, logging and
`toString`. These are pure data handling with no interaction.
