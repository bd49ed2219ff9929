# PalletScan verification

TLA+ models of PalletScan's concurrent and stateful core, TLC runs that check
them on small instances, and TLAPS proofs about the pipeline in both its modes, the
frame queue, the watchdog, the buses, the deduper, the outbox, the evidence, the
processes, the camera and the smaller components for every configuration.
Source paths are relative to the repository; `PROJECT.json` maps every definition to the lines it models.

    tlc -workers 2 -config MCPipeline.cfg MCPipeline.tla     # one run
    tlapm PipelineProofs.tla                                 # the proofs

## 1. The system

A camera's frames are read by a source thread, queued, and processed by a
pipeline thread: a motion gate cuts the stream into segments (something moved
through the view), a decoder reads the moving region, and a tracker turns each
segment into a *pass* (a payload was read) or a *miss* (none was) with an
evidence burst. The promise of the program is "account for everything": every
segment becomes an event, every drop is counted, every event reaches every
sink, and a run that lost something does not exit 0. The following parts work
towards it, in the order an event meets them.

| part | state | operations | interacts by | hard because |
|---|---|---|---|---|
| `CameraSource`, `WatchdogSource` (`sources/camera.py`, `reliability/watchdog.py`) | capture handle, generation, handoff queue, zombie count, outage clock | `frames`, `_read_loop`, `_recover`, `close` | a reader thread per connection, the source thread, a closing thread | a read can hang for ever and return later; `close` races a reopen |
| `DroppingQueue`, `PipelineRunner` (`reliability/queues.py`, `app.py`) | frame queue, carried discontinuity, stop/dead flags | `put`, `put_blocking`, `get`, `stop`, `_source_loop`, `_pipeline_loop`, `run` | two threads over one queue | eviction is not atomic; either thread may die while the other waits for it |
| motion gate (`pipeline/motion_gate.py`) | streak counters, open segment | `update`, `break_segment`, `flush` | called by the pipeline thread | debouncing across discontinuities |
| `PassTracker` (`pipeline/pass_tracker.py`), rolling buffer | open segments, pending misses, dedup window | `on_segment_open/close`, `on_decode`, `on_frame`, `flush_pending`, `flush`, `seed_recent` | called by the pipeline thread; publishes on the camera's bus | deadlines, evictions, failures in mid-frame, restarts |
| `EventBus`, `StationRunner` (`events/bus.py`, `station.py`) | queues, worker threads, shutdown flags, errors and summaries | `publish`, `_run`, `shutdown`, `run` | a bus per camera feeding a business bus | ends with bounded joins, failing and hanging sinks, partial failure of a station |
| `CrossCameraDeduper`, `SqliteSink` (`events/dedup.py`, `events/sinks.py`) | window entries per payload, high-water marks, event rows | `submit`, `seed`, `handle`, `load_restart_seeds` | bus threads of all cameras; publishes outside its lock | out-of-order sightings, overtaken publications, restarts, clock steps |
| `HttpSink` (`events/http_sink.py`) | outbox table, in-flight shield, counters | `handle`, `_prune`, `_upload_loop`, `close` | bus thread and uploader over one table | pruner against uploader, lost replies, crashes |
| supervisor, instance lock, stop-file, scripts (`reliability/supervisor.py`, `reliability/instance_lock.py`, `cli.py`, `deploy/*.ps1`) | processes, locks, latch, backoff | `run`, `request_stop`, `stop_child_gracefully`, watches, start and stop scripts | processes, signals, files | any of them can be killed at any point; two signals mean something else than one |
| multi-object gate (`pipeline/motion_gate.py`), recorder (`pipeline/segment_recorder.py`) | live tracks with streaks and merge counters; queue of bursts, writer thread | `update`, `_associate`; `submit`, `_run`, `shutdown` | called by the pipeline thread; a writer thread | two pallets become one blob and part again; a writer that hangs |
| decode engine (`pipeline/decode_engine.py`) | decode context of each pass, budget of each frame | `decode_frame`, fallback tasks | called by the pipeline thread, an executor | decoders that starve each other |
| evidence (`events/evidence.py`) | burst directories | `write_burst`, `prune` | a file system others use too | names after a restart, deletions that fail |
| `CameraSource`, controls, devices (`sources/camera.py`, `controls.py`, `devices.py`) | published capture, enumeration, pinned identity | `_resolve`, `_connect`, `apply_mode`, `apply_settings`, `_guard_identity`, `reopen`, `close` | the watchdog's threads, the driver | an index that is stale when used, controls that lie |
| `PyGrabberCapture` (`sources/pygrabber_capture.py`) | COM graph owned by a thread, command queue | open, `read`, `set`, `release` | timeouts against a late owner thread | late results after a give-up |
| calibration, saved configuration (`calibrate.py`, `sources/probe.py`, `config.py`) | candidate modes, the YAML file | `run_calibration`, `choose_mode`, `upsert_camera_yaml` | the driver, later the run path | a mode that never streamed, a crash while saving |
| dashboard (`web/`) | sessions, manifest, preview and its cache | `session_start`, `session_close`; `update`, `render_jpeg` | thread pools over SQLite, live events and frames | counts computed before the commit, pictures drawn outside the lock |
| ground truth (`sources/inject.py`, `sources/synthetic.py`, `app.py`, `tools/soak.py`) | planned passes, truth records, collected events | `frames`, `_retire`, `reconcile_truth`, `run_soak` | compares what was shown with what was reported | ends of streams, slack |
| bench (`tools/bench.py`) | passes, pending verdicts, work queue | capture loop, decode workers, commands | three threads and a lock that not all take | verdicts while reads are on their way |
| metrics, logging, rendering of reports, self-test, install scripts | | | | display, image work or one-shot commands |

What makes each part correct is stated as the properties of section 3; the
hazards they answer, each at its line, are listed in `PROJECT.json`, with the properties that cover it.

## 2. The modules

| module | models | checked by run |
|---|---|---|
| `MotionGate` | the single-track gate as a record and its methods as operators | |
| `GateSegments` | that gate over an arbitrary stream, with a reference definition of the stream's segments | `components` |
| `PassTracker` | the tracker as a record and its methods as operators, with the reservoir of each segment's evidence | |
| `RollingBuffer` | the rolling buffer: a time horizon and a maximal length | |
| `Sorting` | orders of small sets, for the buffer's frames and the gate's tracks | |
| `Pipeline` | the pipeline thread: gate, decoder, tracker and rolling buffer, one frame per action; `EXTENDS MotionGate, PassTracker` (which `EXTENDS RollingBuffer, Sorting`) | `pipeline` |
| `SegmentLedger` | the abstract promise the pipeline implements | `pipeline` |
| `MultiGate` | the gate in multi-object mode: blobs, association, merges, tracks | |
| `SegmentRecorder` | the recorder: drop-newest queue, writer thread, bounded shutdown | |
| `MultiPipeline` | the pipeline thread in multi-object mode with recording on; `EXTENDS MultiGate, PassTracker, SegmentRecorder` | `multi` |
| `FrameFlow` | the frame queue between source and pipeline thread, statement by statement, and the end of a run | `frame_flow`, `frame_flow_marks` |
| `Watchdog` | the reconnecting source: reader threads, consumer, two closers | `watchdog` |
| `PyGrabber` | the captures of a DirectShow-only camera: owner thread, command queue, timeouts | |
| `LiveCamera` | `CameraSource` on such captures: connect, settings, reads, reopen, `close()` from another thread; `EXTENDS PyGrabber` | `camera` |
| `EventDelivery` | buses, sinks, shutdown and the verdict of a station | `delivery`, `delivery_wedged` |
| `CrossCameraDedup` | merge, publication, upsert and restart seeds | `dedup` |
| `HttpOutbox` | bus thread and uploader over the outbox table | `outbox` |
| `Supervision` | processes, locks, latch, signals and scripts | `supervision` |
| `DecodeEngine` | the cascade of decoders of one frame under its budget | `components` |
| `Evidence` | burst directories and their prune | `components` |
| `Bench` | the bench's capture thread, decode workers and commands | `components` |
| `DeviceIdentity` | enumeration, resolution, fingerprint and identity guard across replugs | `components` |
| `ModeChoice` | probe, choose, verify, lock, and the run that streams what was locked | `components` |
| `Sessions` | reporting windows over events that are still being stored | `components` |
| `GroundTruth` | planned passes, truth records, the capped collector, `reconcile_truth`, soak segments | `components` |
| `LivePreview` | the newest picture, its JPEG cache and its streams | `components` |
| `StationStart` | construction of a station, its undoing, who owns a capture | `components` |
| `ConfigSave` | merge, backup and replacement of the configuration file | `components` |
| `TrackerProofs` | lemmas about each method of the tracker, used in both modes | |
| `PipelineProofs`, `MultiProofs` | the theorems about the pipeline, in single and in multi-object mode | |
| `WatchdogProofs`, `StationProofs` (events and processes), `SinkProofs` (deduper, outbox, evidence, ground truth), `ComponentProofs` (frame queue, camera and the other components of `components`) | the other theorems | |
| `Iteration` | two ways to reason about a loop, instantiated with its body and invariant | |
| `MC*` | model values and small sets for TLC | |

`MCComponents` puts the components that share no state into one state machine:
`subject` says which of them the behavior is of, the others stay in one initial
state. Each of them is `<X>Init` and `<X>Next` over its own variables, so the run
is eleven state spaces side by side.

How state and actions correspond to the code:

* **MotionGate, PassTracker.** Both objects are called by one thread, so a
  method is an operator from the object's record to its new record. A frame is
  its timestamp and whether its motion mask is big enough; a decode is a set of
  payloads. The evidence of a segment is its `_FrameReservoir`: the frames kept,
  the stride, and, where the code has their number only, the frames it was fed.
  `AddFrame` keeps every stride-th frame and drops every second one above the cap;
  the pre-roll and the frames of the open segment both go through it. What a burst
  shows is the frames kept and the post-roll `WithPostRoll` takes from the buffer.
* **RollingBuffer.** `append` to a full deque drops the oldest frame, then what
  the new one puts over the horizon; both together are `Held`: not over the horizon,
  and with fewer than `MaxLen` newer ones.
* **Pipeline.** `ProcessFrame` is `_process_frame` with the order of its calls:
  `AtBoundary` (break the segment, flush pending misses), `AdvanceClock`
  (`on_frame`, before the frame enters the buffer), `buffer.append`,
  `gate.update`, opens, decode, closes. `fault` cuts it short where the gate or
  the decoder can raise; `_pipeline_loop` counts the frame and goes on.
  `EndOfStream` is the `finally` block.
* **SegmentLedger** knows only ids and statuses. `StatusOf` in `Pipeline` is the
  refinement mapping.
* **MultiGate.** The scene is a line of cells and a mask a set of them; overlap,
  distance and area are computed from the cells as the code computes them from
  boxes. `View` is what one frame's association looks at (`Candidates`, the greedy
  `Matching`, the blob each track has in `Focus`); `Contending` and `Absorbed` are
  the merge hysteresis, `MergeOrder` the order in which merges are committed.
* **MultiPipeline.** `ProcessFrame` is the same method on the path `result.tracks`:
  `Cut` (the discontinuity), `Clocked`, then `Classified` with the opens, the
  decodes of the live tracks starting at `Turn` (`DecodeStep`, cut short by the
  budget or by a decode that raises) and the closes. `CloseOne` and `Harvest` are the
  recording half of the tracker. `RecorderStep` is the recorder's writer and, once the
  stream is done, `shutdown()`.
* **FrameFlow.** `put` is three producer steps (`PutFits`/`PutFull`, `Evict`,
  `FlagVictim`), `get` is `Take`, `CheckCarry`, `MarkItem`. `live` chooses the
  drop-oldest policy of a camera or the blocking one of a replay. `told` stands
  for the watchdog-wrapped source having been closed, which is what makes its
  iterator end.
* **Watchdog.** `reader[g]` is the reader thread of generation `g`; `Bind`
  captures the camera's handle when the generator first runs. `ConsumerStep` is
  `frames()` with `_recover` spelled out (release, reap, check, back off,
  reopen, connect, spawn); `close()` is four steps of each of its two callers.
  The capture published by a connect that then fails stays until the next
  reopen or the source thread's final `close()`.
* **PyGrabber, LiveCamera.** A capture is a record with the pc of its owner thread;
  while the pc names a COM call the call is in flight, and it hangs for as long as
  the owner does not step. The constructor, `read` and `set` wait with timeouts
  that may strike at any moment. `LiveCamera` has two more threads: the consumer,
  which connects, applies settings, reads and reopens, and the stopper, which
  closes; `Publish` is the publication of the handle before any blocking I/O.
* **EventDelivery.** A camera's bus has one sink, the forwarder to the business
  bus; `Forward`/`Forwarded` are its look at the shutdown flag and its blocking
  put. `shutdown` is `BeginShutdown`, `PutEnd`, `Join`; a join that times out is
  a choice. `Verdict` and `Tolerable` are the end of `StationRunner.run`;
  `stopAll` is `station.on_arm_failure`.
* **CrossCameraDedup.** `SubmitPass` is `_absorb` under the lock (note the high
  water, evict, match the nearest anchor, emit, merge or suppress); `Publish` is
  what happens outside it. `Restart` drops the process and loads the seeds.
* **HttpOutbox.** One step per autocommitted statement, per change of the
  shield and per change of a counter.
* **Supervision.** Slots for supervisor and writer processes; the two instance
  locks are not variables but follow from where the processes are
  (`HoldsWriterLock`, `HoldsSupLock`). `SupGone` is the death of a supervisor
  with everything the operating system does then. The stop script is a program
  counter with one step per probe and per kill.
* **DecodeEngine.** Time is the ticks left of the frame's budget, of which any
  call takes any number; the variant tasks answer in any order or too late.
* **Evidence.** One `write_burst` with the prune behind it is one step, every
  failure inside it an outcome; other programs may hold or delete directories.
* **Bench.** The lock that the capture thread holds from `Moves`/`Rests` to the
  verdicts also stands between the workers' test and their update; commands do
  not take it, as in the code.
* **DeviceIdentity, ModeChoice.** A device is what the code can see of it: name, path,
  product; formats, areas and rates. Replugging reorders the bus at any time.
* **Sessions.** A desk is a dashboard process with the request it is serving; each
  SQL statement or transaction is a step; events are stored some time after they
  happened.
* **GroundTruth.** The pipeline between source and reconciliation is any that reads
  a pass, reports a miss off by a frame at either end, or loses it. Passes in flight and
  collected events are sets; which pass a miss is about is a ghost.
* **LivePreview.** `Poll` copies the references under the lock, `Encoded` publishes
  into the cache, `Sent` is what the browser gets; any number of viewers.
* **StationStart, ConfigSave.** One step per camera opened, per runner built, per
  file operation; both can end after any of them.

## 3. What the runs check

One run per question. All state spaces are exhausted.

| run | question | properties |
|---|---|---|
| `components` | Is each component right on its own? | see below |
| `camera` | Does a camera survive a driver that hangs, and does a stop free it? | `NoOrphanGraph`, `SettingsAreHonest`, `StopFreesDevice` |
| `multi` | Do two pallets in one picture stay two? | `ReadsStayOnTrack`, `RecordsAccounted`, `StandingObjectsKeepTracks`, `RecorderStops` |
| `pipeline` | Does each segment get one outcome, with whole evidence, on time, and is the dedup window exact? | `EverySegmentAccounted`, `ImplementsLedger`, `NoEventSpansDiscontinuity`, `EvidenceComplete`, `EmittedWhenDue`, `PassesKeepTheWindow` |
| `frame_flow` | Does the queue account for each frame and keep its marks, and does a run end? | `DropsAreCounted`, `RunEnds` |
| `watchdog` | Are reconnects safe from zombies and from `close()`? | `FirstOfConnectionMarked`, `ZombiesCannotPoison`, `OutageIsBounded`, `StopEndsEverything` |
| `delivery` | Is a clean exit true? | `CleanRunLostNothing` |
| `dedup` | Is each pallet counted once, and does the store keep up? | `NoDoubleCount`, `StoreIsCurrent` |
| `supervision` | Is there one writer, and does stopped mean stopped? | `OneWriter`, `OneRequestDrains`, `StoppedIsTrue`, `LatchStops` |
| `outbox` | Do the counters balance, and is what is stored sent? | `LedgerBalances`, `StoredIsSent` |

What `components` checks:

| property | says |
|---|---|
| `SegmentsMatchReference` | the debounced segments are those of the reference definition, for every stream with a break anywhere |
| `NoDecoderIsHidden` | a frame reported unreadable while the budget lasted was shown to every inline decoder it is owed and, in each variant, to every decoder up to the first with raw hits; a confirmed pass keeps its Data Matrix probes |
| `BurstsAreKept` | a burst is on disk as its reference says, alone and over nothing unless the search for a free name failed, and is pruned when, and only when, the caps demand it |
| `PassesAreJudged` | every bench pass gets one verdict, after its grace, and the counters are the verdicts since the last reset |
| `OpensTheNamedCamera` | a connect by name streams a unit of that name, and one that can be told from the calibrated or pinned unit is refused or counted |
| `LockedModeStreams` | where readback can be trusted a locked mode is never refused by the run, which reads the luma plane of what the device streams |
| `SummaryIsSound`, `ClosedIsFinal` | a closed session's counts are those of its window, no pallet is in two windows, and whoever closes a session first has closed it, on a wall clock that does not step back |
| `TruthReconciles` | each drawn pass that is over has one record; an accounted one is never reported lost, a lost one always is |
| `PicturesAreTheirStamps` | cache, copies and streams hold the picture that was shown under the stamp they carry |
| `EveryCaptureHasAnOwner` | every open device belongs to a runner or to the constructor that will still close it, and the cameras of a station tell one time |
| `SavedConfigSurvives` | a killed save leaves the old file or the new one, and saves that do not overlap lose no entry and no former configuration |

Every property has a mutant of the code (a definition beside the one it
changes, marked `Mutant:`) that violates it: a reset forgotten, an off-by-one, a
dropped guard, two statements swapped.

Two more runs check what a comment or a docstring says and TLC refutes; each is
a finding of `PROJECT.json`.

| run | statement | what the code does |
|---|---|---|
| `frame_flow_marks` | `ConnectionsAreMarked`: a discarded mark rides on the next item handed out | the consumer can take a frame between the producer's eviction and its note; that frame goes out unmarked |
| `delivery_wedged` | `ShutdownReturns`: `shutdown()` returns False for a hung sink | with the queue full the end marker's blocking put never returns |

Definitions marked `Refuted` state further sentences of the sources that do not
hold in the models; they are kept beside the properties without a run of
their own (section 5).

### Bounds, and why they are enough

* `components`, by subject. Gate: `OpenFrames` 3, `QuietFrames` 2, nine frames: two
  segments with a gap in between, a run too short to open, a break anywhere.
  Decode: budget 2, two fallback variants, stride 5 with eleven attempts, so that the
  strided decoder comes up three times; a variant's task asks one decoder or two.
  Evidence: three writes of one or two frames, of one id, under caps of two frames and
  one step of the clock, so that a write may push out the one before it by size and
  the one before that by age, and a failed probe may meet either.
  Bench: nine frames, a pass that opens, closes and waits its grace of two, three
  commands. Identity: five units (a twin of the same product, another product of the
  name, one without a path, a virtual one), three replugs among six buses. Mode: four
  candidates, four capability lists, rates below, at and above what was asked.
  Sessions: two desks, two sessions, two events on a clock of two ticks. Truth: two
  passes, overlapping or not, half a tick of jitter, a tail, a collector of one.
  Preview: two viewers, four updates. Station: three starts of three lineups, one
  with a duplicate id. Save: three saves of two cameras, two of them in one second.
* `camera`: two captures, the first of which may hang for ever, so that a
  reconnect meets the owner of the connection before.
* `multi`: four cells, two pallets that are apart, alone or fused, an absorption
  after two frames, a queue of one, five frames: open, meet, part, quiet, close. A
  reservoir of four thins a segment that is there in all five. The buffer's four frames
  are never too few for a post-roll here; in `pipeline` they are.
* `pipeline`: one payload (payloads never meet in the tracker but in the set of
  confirmed ones), two confirmations, timestamps to 12, steps of 1 and 6, gaps
  of 1 and 5, pre-roll 1, post-roll 6, slack 1, window 8. A step of 6 behind a close
  reaches its deadline and evicts the first frames of its post-roll, a gap of 1 lies
  inside the post-roll. The reservoir holds four frames, so a longer segment is
  thinned, more than once; the buffer holds three, so that more frames than that
  can follow a close before its deadline. Passes can close at 4, 8 and 12. A warm start has the payload at ts 0, so that a merge and an
  emission after it are both reached; after a cold start the third close is
  still within the window of the first, and must merge with it although the
  second did.
* `frame_flow`: capacity 2, five frames (four in the violation run), every set
  of marks: the queue fills, evicts repeatedly and drains.
* `watchdog`: handoff 4, one zombie allowed, outage cap 1, three connections: a
  zombie of the first one meets the third, and both valves trip. The handoff
  must hold the two blocked puts a wake-up can meet, as in the code.
* `delivery`: two cameras, two events each, two sinks, a capacity of 1 for the
  cameras' buses, which are full and empty in turn, and of 3 for the business bus:
  only from 2 on can an event get behind the end marker while the marker waits.
* `dedup`: two cameras, two payloads, window 1, slack 1, timestamps to 3, four
  passes, cap 2, one restart after 0 or 1 ticks or with the clock 2 back.
* `supervision`: two supervisor and two writer slots (a successor meets the
  orphan of its predecessor), two stop requests, backoff of two levels, Windows
  and POSIX.
* `outbox`: four events, cap 1, one crash.

Deadlock is checked except in `components`, `camera`, `multi` and `pipeline`: their
streams, commands and captures end.

### Fairness

* `FrameFlow`: both threads keep running; a replay keeps yielding; a camera need
  not yield, but its iterator ends once it was told to close.
* `Watchdog`: threads run and device calls of a connect return. A read need not
  return and no stall timeout is assumed, so `StopEndsEverything` shows that
  `close()` does not depend on either.
* `LiveCamera`: consumer, stopper and the owners outside `Wedging` run; the owner of
  a capture in `Wedging` may hang in the driver for ever. `StopFreesDevice` asks of
  those owners only what the code can do without them.
* `MultiPipeline`: the steps of `shutdown()` happen (both of its waits are bounded);
  nothing is asked of the writer, which may hang.
* `EventDelivery`: safety needs none; `SpecWedged` has every thread running but
  lets a sink hang for ever.
* `HttpOutbox`: threads run; strong fairness of an answered POST and of the
  DELETE says that the endpoint answers if asked again and again and the table
  is not locked for ever.
* `Supervision`: processes that are not killed run. Nobody needs to start, stop
  or fail. A drain ends by itself, or the supervisor's grace period kills it.

## 4. What is proved

TLAPS proves the following for every value of the constants that the modules'
named assumptions allow.

| theorem | says | for every |
|---|---|---|
| `PipelineProofs!TypeCorrect` | `Spec => []TypeOK` | debounce, windows, seeds, stream |
| `PipelineProofs!SegmentsAccounted` | `Spec => []EverySegmentAccounted` | the same |
| `PipelineProofs!LedgerImplemented` | `Spec => ImplementsLedger` | the same |
| `PipelineProofs!DiscontinuitiesSeparate` | `Spec => []NoEventSpansDiscontinuity` | the same |
| `PipelineProofs!BurstsComplete` | `Spec => EvidenceComplete` | the same |
| `PipelineProofs!MissesEmittedWhenDue` | `Spec => EmittedWhenDue` | the same |
| `PipelineProofs!WindowHolds` | `Spec => []PassesKeepTheWindow` | the same |
| `MultiProofs!ReadsKeepToTheirTrack` | `Spec => []ReadsStayOnTrack` | tracks, payloads, masks, thresholds, debounces, windows, queue |
| `MultiProofs!RecordsAreAccounted` | `Spec => []RecordsAccounted` | the same |
| `MultiProofs!StandingObjects` | `Spec => StandingObjectsKeepTracks` | the same |
| `WatchdogProofs!OutagesAreBounded` | `Spec => []OutageIsBounded` | limits, handoff size, number of connections |
| `WatchdogProofs!ZombiesAreHarmless` | `Spec => ZombiesCannotPoison` | the same |
| `WatchdogProofs!FirstFramesAreMarked` | `Spec => FirstOfConnectionMarked` | the same |
| `StationProofs!CleanRunsLoseNothing` | `Spec => []CleanRunLostNothing` | number of cameras, sinks and events, capacities |
| `SinkProofs!NoPassCountedTwice` | `Spec => []NoDoubleCount` | number of cameras, payloads, passes and restarts, window, slack, cap |
| `SinkProofs!StoreStaysCurrent` | `Spec => []StoreIsCurrent` | the same |
| `StationProofs!ProcessInvariance` | `SupervisionSpec => []ProcessInv` | number of supervisors, writers and requests; Windows or POSIX |
| `StationProofs!WritersExcludeEachOther` | `SupervisionSpec => []OneWriter` | the same |
| `StationProofs!VerifiedStopIsTrue` | `SupervisionSpec => []StoppedIsTrue` | the same |
| `StationProofs!OneSignalNeverForces` | `SupervisionSpec => []OneRequestDrains` | the same |
| `ComponentProofs!PicturesStayUnderTheirStamps` | `PreviewSpec => []PicturesAreTheirStamps` | number of streams, updates and overlays |
| `ComponentProofs!SaveNeverBricks` | `SaveSpec => []SavedConfigSurvives` | cameras, number of saves and seconds |
| `ComponentProofs!LockedModesStream` | `ModeSpec => []LockedModeStreams` | modes, capabilities, rates |
| `ComponentProofs!CapturesHaveOwners` | `StationSpec => []EveryCaptureHasAnOwner` | lineups, number of starts |
| `ComponentProofs!SummariesAreSound` | `SessionsSpec => []SummaryIsSound` | desks, payloads, events, sessions |
| `ComponentProofs!ClosedStaysClosed` | `SessionsSpec => ClosedIsFinal` | the same |
| `ComponentProofs!NoDecoderHides` | `DecodeSpec => []NoDecoderIsHidden` | budget, stride, variants, attempts |
| `ComponentProofs!NamesOpenTheirCameras` | `IdentitySpec => []OpensTheNamedCamera` | units, their paths and products, buses |
| `ComponentProofs!GraphsHaveHolders` | `Spec => []NoOrphanGraph` of `LiveCamera` | number of captures, whichever of them hang |
| `ComponentProofs!ReportsAreHonest` | `Spec => []SettingsAreHonest` | the same |
| `ComponentProofs!BenchJudges` | `BenchSpec => []PassesAreJudged` | streaks, grace, queue, workers, frames |
| `ComponentProofs!SegmentsAreExact` | `GateSpec => []SegmentsMatchReference` | debounce, length of the stream |
| `SinkProofs!EvidenceKeepsBursts` | `EvidenceInit /\ [][EvidenceNext]_evidenceVars => BurstsAreKept` | ids, sizes, caps, number of writes |
| `SinkProofs!TruthIsReconciled` | `TruthSpec => []TruthReconciles` | plans, slots, passes, jitter, collector, runs |
| `SinkProofs!OutboxBalances` | `OutboxSpec => []LedgerBalances` | number of events, cap, number of crashes |
| `ComponentProofs!FramesAreAccounted` | `FlowSpec => []DropsAreCounted` | capacity, number of frames, marks |
| `ComponentProofs!FlowTyped` | `FlowSpec => []TypeOK` of `FrameFlow` | the same |

**The pipeline.** Assumed are `GateAssumption`, `TrackerAssumption` and
`PipelineAssumption`: positive debounce and confirmation counts, natural windows,
positive time steps, seeds that are not in the future. The inductive invariant
is `TypeOK`, `Consistent(gate, tracker)`, and that a finished run has nothing open
or waiting. `Consistent` adds to the account of segments what it needs to be
inductive: the tracker has at most one open segment, it is the gate's open one,
and that is the latest id the gate has given. Without it an `OPEN` could replace
a segment the tracker holds, or a `CLOSE` could miss it, and the account would be
off by one: the two objects keep the open segment each on its own and only
agree because `_process_frame` applies every gate event to the tracker, on
every path a failure leaves open. Part 1 of the module holds the lemmas about each
tracker method (its type, which ids it moves where, that ids are not
duplicated), part 2 those about the gate and the composition. The refinement
follows from how each method moves an id (`Settles`): an id in the
ledger only goes to a successor status.

**The pipeline's times.** The four properties about time rest on one more
invariant, `TimesInv` (part 3, theorem `TimesInvariance`). `Timely` orders
everything the two objects hold: a segment opened before the gate's last active
frame, with no discontinuity since; the waiting misses are sorted by close,
the last of them closed no later than the open segment's last active frame; an event's segment
lies on one side of each discontinuity, its later frames with it. Sortedness is what
makes the prefix `on_frame_ts` pops the set of all due misses, and it is not a
property of the list alone: a `CLOSE` appends with the gate's `lastActive`, which
must not be older than the close before it. `buffer = Held(seen, now, Horizon)` says that
the rolling buffer is the newest `MaxLen` delivered frames within the horizon, although it
drops for two reasons in turn (`HeldGoesOn`), and `Complete` that a miss is
emitted only when no later frame belongs to its evidence: its deadline is over or a
discontinuity has ended it. That a reservoir is an even sample of what it was fed
(`Sampled`) is part of the tracker's type: `AddFrameType` shows it of a frame that is
skipped, of one that is kept, and of one that makes the reservoir drop every second
and double its stride; a pre-roll is a fold of that step (`PreRolledType`). `WindowKept` ties
`recent` to what was emitted: an entry is the last emit or seed of its payload.
`EvidenceComplete` and `EmittedWhenDue` are action properties: they are proved
of a step that starts in the invariant.

**Multi-object mode.** Assumed are `MultiGateAssumption`, `TrackerAssumption`,
`RecorderAssumption` and `MultiAssumption`: a finite picture, positive debounces and
hysteresis, at least one payload, natural post-rolls. A step of this model is a whole
frame, with four loops in it: the greedy matching, the merges in their order, the opens,
the decodes and the closes. Part 1 of `MultiProofs` says what a frame does to the gate:
the matching is one to one and every candidate it leaves clashes with a better one;
each track is either kept, with its streaks moved by what the frame showed of it, or
absorbed, or quiet; new segments are numbered in the order of the tracks. Part 2 takes the
tracker and the recorder through the loops. A loop is a fold, whose invariant is
proved with `Iteration!FoldInvariant` for each body (`Opening`, `Closing`, `Decoding`).
The inductive invariant `IInv` has, beside types, three parts. `Sound` places
each segment id: open, pending, missed, read or merged in the tracker, and waiting,
queued, in the writer's hands, written, failed or dropped in the recorder. `Timely` says what
each waiting burst has been given: every frame of its side of a discontinuity since its close,
up to its own post-roll, except what its reservoir has thinned or a crowded buffer has
dropped; closes fall due out of order, so unlike in
`PipelineProofs` a burst behind another one may be overdue, and what holds is that it
has not been given less. `GateOk` and `HitsOk` tie
the two objects together: an id in the tracker that the gate no longer carries is one whose
close a raising decode took along, and a decode lies between the opening of its
track and the present frame. `StandingObjects` needs no invariant but the tracks' shapes: the
candidate of a track with its own unmoved blob overlaps it wholly, so no other
is better (`SelfFit`), the greedy matching takes it (`OwnBlobTaken`), and a gate all of whose tracks
hold their own blobs merges none (`OwnBlobsNoMerge`).
Two statements changed with the proofs. `ReadsStayOnTrack` speaks of misses only when one decode
confirms: with more, a decoded segment may rightly be a miss. And the
post-rolls of `RecordsAccounted` are stated for a debounce shorter
than the rolling buffer (`DebounceFits`): `flush()` closes a segment whose CLOSE was lost
at its last decode, or with none at its backdated opening, and what the buffer had
dropped by the time it opened cannot be in the burst. Nothing in the code
compares the two; the default configuration satisfies it.

**The watchdog.** Assumed is `WatchdogAssumption`: a handoff of positive size, at
least one zombie allowed, any outage limit. A reader tells the consumer by messages that may
arrive after it was given up, so the invariant says what each message is worth:
`MessagesTrue` (an end or error of generation `g` in the handoff means that reader
`g` has ended; a frame carries the connection its reader is bound to),
`ConnectionsCounted` and `Bound` (generations and connections only go up; a reader
that runs is bound to a connection of its generation), `MarkPending` (the mark is
pending as long as no frame of the present connection was yielded),
`OutageRuns` (an outage that has started is not restarted by a reopen that brings no
frame, and every attempt costs a tick of it) and `WithinLimits`. The proof led to
a tighter bound than the one that was checked: `tries <= MaxOutage`.

**Delivery.** Assumed is `DeliveryAssumption`: finitely many cameras, none of them the
business bus, positive capacities. `Conserved` places each event: published, it
is in the arm's queue, in the forwarder's hands, in the business queue, in the
hands of the sinks or handled, in one of them, once. `MarkersLast` says that a
camera's end marker is the last thing in its queue, because its pipeline has ended
before the flag goes up; `Behind` says that on the business bus only stragglers of
arms that did not drain come after it. Together they give the first part of
`CleanRunLostNothing`: what a drained arm published cannot be in the arm, nor behind
the marker. `Counted` bounds the events nobody counted, and it was the step
`Forward` that showed the bound to be one for each undrained bus and not zero
(section 5). `SinksAccounted` counts errors while an event is half handled:
`Missed` is over the sinks that have had their turn.

**The deduper.** Assumed is `DedupAssumption`, with at least one camera. That anchors
of a payload are a window apart (`AnchorsApart`) is inductive by the matching on both
sides. That stored rows are, is not: an entry leaves the window while its row stays.
`Covered` says that each row stored or on its way still has its entry, against whose
anchor the next sighting is matched, or is `Gone`: out of reach of every camera's
clock, which is what the eviction concludes from the high-water marks
(`HighWaters`). `NewestKept` says that an entry holds the newest revision of its row
and has handed it on, `IdsFresh` that a new pass gets an id no row has. A restart has to establish `Covered`
again from the seeds alone.

**The processes.** Assumed is `SupervisionAssumption`: natural bounds, and `Nobody`
not the name of a slot. `OneWriter` is not inductive: that a second writer stops at
the lock says nothing of who may still hold it. The invariant is `Typed`,
`LockIsExclusive` (at most one writer is anywhere between acquiring and
releasing), `ChildrenAreWatched` (where children die with their supervisor, a
live writer is in its supervisor's job, and that supervisor watches it) and
`LatchIsHeld` (from the moment the script waits, the latch is set; once it has
reported a stop, no supervisor is past its startup check). The last two are what
`StoppedIsTrue` rests on: a writer that scans after the report would need a
supervisor that watches it, and that one would have had to pass a set latch.
`OneRequestDrains` has an invariant of its own, `SignalledOnce`. Before the first
request all is `Quiet`: no supervisor has been told to stop, none that has passed
its startup check has a latch before it, no writer has been signalled. After the
first one every supervisor that will still forward a stop has an `Unsignalled`
child, its own alone (`OwnChildren`), so that its one signal is the child's first.

**The preview.** The statement holds of every cache entry and copy because all
of them are `Stamped`: a stamp names a position of `shown`, and the picture is
that one. It needs in addition that the newest picture is the last shown, since
that is what a stream copies under the lock.

**The camera.** Assumed is `PyGrabberAssumption`. The invariant `CameraInv` says in
`OwnersFit` what a capture's stage means: a graph runs alone, a capture is open
while it serves and nobody has stopped it, and one that does not serve yet has an opener that
waits, or has been told to stop. `HandsFit` is about the races of `close()` with a
connect: the stopper leaves a capture in the camera only if the consumer has published it
after the stopper looked, which means that `reopen()` has cleared `closed` in
between; the consumer has then still to pass `Completed`, which looks at the stop. For the
settings, `Alone` says that no other owner carries commands out while this one
is connected, because the device is exclusive; `NoneLate` that, as long as no
setting has failed, the command under way is the one the consumer waits for, so that the
answer it gets is about the value it asked. A timeout breaks exactly that, and sets
`failed`.

**The components.** `MCComponents` runs them side by side, so each has a
specification of its own in `ComponentProofs` (`SaveSpec` and so on: `<X>Init` and
`<X>Next` over its variables) and an assumption in its module that says what
its constants are.
* *Save*, `SaveInv`. That each former file is there or backed up and no entry older than
  before (`NothingLost`) survives a `Replaced` only because the one saver under way
  holds at least the versions of the file as it still is, and has put that
  file into a backup name nobody had taken (`AloneAndBackedUp`). Both are stated while
  nothing has `spoiled` the premise: two savers at once, two saves in a second.
* *Mode*, `ModeInv`. A result says of the device what its backend lets it say
  (`Answer`); at most one result is in the entry, and calibrate's has the geometry
  that was asked for (`LockedSoundly`); the run reads the plane it derives from that
  result (`RunsOnIt`). On PyGrabber the geometry is that of the format list
  (`ChoosesTheGeometry`). The proof needed two facts about the model's constants: an
  offer is a sequence, and no mode asks for the format that stands for garbage.
* *Station*, `StationInv`. `AllOwned` follows each open device through the steps of the
  constructor; `OneAnchor` says that all sources of a configured station have its epoch.
* *Sessions*, `SessionsInv`. What a desk holds between two statements is worth
  something only against what the tables were then (`Deskwork`): the counts of a
  close lie between those of the rows there when it began and those of the rows now. `InTurn` says that at most
  the last session is open and that windows follow each other.
* *Decoding*, `DecodeInv`. `CascadeFits` says of each point of the cascade which
  decoders have been shown the frame; `GapFits` that the frames since the last probe
  of a confirmed pass are at most the remainder of the attempts by the stride.
* *Identity*, `IdentityInv`. While the bus is `Undisturbed` since the enumeration, the
  index a connect holds is the place of a unit of the name, and the one identity the list
  has for the name, if any, is that unit's (`ListedWell`): the list leaves out
  units it cannot read without renumbering the others.
* *Bench*, `BenchInv`. `PassesFit` says that deadlines are in order and ahead of the
  present frame by at most the grace, that a live pass is open or pending, once,
  and that what was read belongs to live passes; `VerdictsFit` that the counters are the verdicts since the
  reset. Sums over sets of verdicts are counted by bijections, since a fold would
  need induction. The pending verdicts are therefore popped as a set of ids: what
  `_finalize` does for one pass does not depend on the others.
* *Gate*, `GateInv`. The reference sees the whole history, the gate two counters, so the
  invariant says what the counters know of the history (`StreakFits`, `OpenFits`). A
  reported segment `Spans` from its first to its last active frame, and behind
  a closed one the stream has `Ended` where no later frame can join it. While
  nothing is open, every earlier run of motion is `Cut` off from the present frame
  (`NothingReachesHere`), which is why an OPEN is a new segment and not the
  continuation of a run that was too short.
* *Evidence*, `DiskTyped`. Each write has its own step of the clock, so bursts are told
  apart by their mtime, there are at most as many as steps, and the search for a free
  suffix ends in range. The prune goes by sizes that only fall as bursts go
  (`FewerFrames`): what it leaves is judged against the state before
  the write, the new burst and the directories that could not be removed.
* *Ground truth*, `TruthInv`. Assumed is `TruthAssumption`: idle gaps longer than slack
  and wiggle, passes of more than one frame. `PassesFit` and `RecordsFit` say that each launched
  pass is in flight, with no record, event or loss to its name, or over, with one
  record. `AllHeard` is the first half of the claim. The second half, that no neighbor's
  miss vouches for a lost pass, is `OwnMisses`, and `GapsKept` is what it rests
  on: all that is over lies four frames before the pass in flight, or will when
  the countdown lets the next one in. That is the countdown's rule to run only while
  a slot is open, and it fails with the mutant that always counts.

**The outbox.** The counters balance only between operations. `Books` states
the balance at every step: the rows the pruner has deleted and not yet counted
are in `bus.pruned`, and the uploader is one ahead after its deletion
(`acked`) or one behind after it counted a row the pruner had taken
(`reconcile`). It also needs that `pruned` is zero until the age cap has run.
For the order of receipt, `Queued` says that every stored row, and the one under
way, was received before or is beyond everything that was received (a retry or
the future, never the past), and that the row under way is not beyond any
stored one. The proof that `ORDER BY seq LIMIT 1` finds a row goes by the
well-foundedness of strict inclusion between finite sets.

**The frame flow.** Assumed is `FlowAssumption`: a positive capacity, a natural
number of frames. `Books` is the balance with the queue's frames counted as its
length, less the end marker: `EndIsLast` justifies it, since the marker is the
last thing the source puts and the last the pipeline takes. `InOrder` says that
frames are older the further they have come (handed out, taken, queued, in the
source's hands, not yet pulled), so that none is handed out twice although
`put` evicts between two steps of `get`. `ReplayIsWhole` says that only a live
source evicts and that a replay nobody stops puts its end marker after its last
frame. `MarksKept` follows a dropped mark: it is in the producer's hands, in
`carry`, in the consumer's hands, or on a frame handed out after the drop.

Only model-checked are the remaining properties of section 3. Liveness under fairness
(`RunEnds`, `StopEndsEverything`, `StopFreesDevice`, `RecorderStops`,
`LatchStops`, `StoredIsSent`, `ShutdownReturns`) is out of the prover's reach.
Every safety invariant and every action property of a passing run has a theorem.

## 5. Disagreements between text and code

Two have a run (section 3). TLC also refutes the following sentences, whose
statements stay in the modules, marked `Refuted`:

* `Supervision!NotRunningIsTrue`: `stop_palletscan.ps1` probes both locks first
  and writes the latch afterwards (line 123), so a supervisor started in between
  has its writer scan while the script reports "not running (instance locks
  free)"; the synopsis says "never report "stopped" while anything still scans".
* `HttpOutbox!EveryDropIsCounted`: rows the size cap deleted one by one are added
  to `dropped` after the loop (`http_sink.py:186`); when a later statement of the
  loop raises they are never counted. "Account-for-everything applies to the
  outbox too." `LedgerBalances` has them as `uncounted`.
* `EventDelivery!StragglersAreCounted`: events behind the end marker are "counted +
  logged, never silent" (`bus.py:42-45`). `publish` looks at the flag before its
  blocking put, so one event of each arm whose bus did not drain can get there
  after a look at a flag that was still down. The run fails all the same.
  `CleanRunLostNothing` has the bound that holds.
* `MultiPipeline!OwnBlobKeepsTrack`: "A track matched 1:1 to its own distinct blob
  is NEVER a merge candidate" (`motion_gate.py`, `_associate`). The matching is
  greedy, so a neighbor can take the blob of a track whose object stands still.
* `MultiPipeline!ClosedSegmentsSettle`: a decode that raises loses the frame's
  CLOSE events (`app.py:497-553`), although the handler says that "the pallets
  behind it still need accounting". The segment stays open in the tracker until
  the next boundary or the end.

Others were met on the way and are modelled as the code has them:

* In multi mode the first decode of a frame rotates with the frame's index
  (`app.py:494-497`), not with the frames that run over budget; when those come at
  a stride the number of tracks divides, a track is starved all the same. Misses
  fall due out of order there, and one can come later than its deadline.
* `_session_counts` speaks of "cross-camera-deduped passes/misses"
  (`web/app.py:311-313`); `compute_ab_report` dedupes passes only. A session closed
  before a late miss is stored keeps the smaller count (`web/app.py:406`).
* A stop that arrives between `_check_stop` and `graph.run()` of a PyGrabber owner
  runs the graph after all ("NEVER calls graph.run()"); it is torn down at once. A
  buffer shorter than the frame ends the stream rather than the read.
* `CameraSource.close()` sets `_closed` outside the lock, so that a reopen under way
  can still publish a capture; the watchdog's own final close covers it.
* `decode_engine.py:56-60` promises that a second pallet "is still caught within ~N
  frames"; not while the first pallet's QR code is read on every frame, which is
  why `NoDecoderIsHidden` is about unreadable frames and confirmed passes.
* A directory that cannot be removed counts as freed in the evidence prune; `rmtree`
  may have deleted part of it, and its new mtime sends it to the end of the line.
* A same-day restart "must never merge into (and byte-overwrite) an existing burst's
  directory" (`evidence.py:64-67`). When the probe for it fails, `mkdir` with
  `exist_ok` accepts the directory all the same (lines 73-74, 81) and the frames go
  into it, over those of the same name. `BurstsAreKept` has that as its one exception
  (`blind`).
* `_variant_task` of the legacy decoders returns at the first one with raw hits
  (`decode_engine.py:146-158`), before the gate of `decode_frame` has seen them. The
  fan-out goes on, as the comment there says, but in that variant a phantom hides
  the decoders behind it. `NoDecoderIsHidden` has that as its exception (`Shadowed`).
* A segment of more than 256 frames keeps every second of them, and its last active
  frame need not be one of those it keeps; `_harvest_post` restores later frames only
  (`pass_tracker.py:418-419`). `EvidenceComplete` and `RecordsAccounted` say so.
* "Per-camera event timestamps are monotonic" (`dedup.py:36`). In multi mode a track
  that went quiet closes at its last active frame, after one that was absorbed later has
  closed, so they may step back by the quiet time. `CrossCameraDedup` has them
  in order; with a step back, `NoDoubleCount` would have to widen its window by it.
* The bench's docstring holds for reads within a pass's grace only; `toggle_misses`
  and the stop flag bypass the lock; a pass that is open spans a reconnect.
* `_guard_identity` (`camera.py:416-421`): a strict MSMF pin without a comparable
  field proceeds on the name. The enumeration is taken before the open, so a
  replug in between opens another index; `OpensTheNamedCamera` asks of a connect
  what the enumeration could tell.
* On the backends whose readback cannot be trusted (MSMF, AVFoundation) calibrate
  may lock a geometry that never streamed.
* `app.py:671-674` reconciles with the fps of the configuration, `inject.py:19-22`
  names the source's nominal one; passes under way when a stream ends have no
  truth record; with more than one pass at a time a neighbor's miss vouches for a
  lost one (`config.py:141-146`). `TruthReconciles` is stated over passes that are
  over and farther apart than the slack, as the comment at `app.py:152-156` asks.
* The overlays of an idle scan carry their own time and can outlive fresher ones.
* A failed station construction closes its captures, not the threads of a sink
  already built; a runner whose constructor fails does not close its source.
* `upsert_camera_yaml` keeps "every other key" of the file it read, not of a
  save in between; two saves within a second share one backup name.

## 6. Not modelled

* Pixels, codecs and wording. Background subtraction is "moved or not", decoding
  a set of payloads or an exception. The idle scan only reads.
* Metrics, statistics and logging: counters read without locks for display.
* Reports, review marks, listings, evidence pages and the HTTP surface:
  presentation of rows that `Sessions` and `CrossCameraDedup` account for.
* The self-test, probes, exposure sweeps, the bench's grids and the install
  scripts: one-shot operator commands with their result on the screen.
* The images of a burst and the fields of its metadata: a frame is its timestamp.
* The other checks of `run_soak` (frame and sink errors, memory, restart gap, drift):
  `GroundTruth` has those that come from `reconcile_truth` and the collector.
* When a merge of two contending tracks is wrong: the sentence of the source about
  it is refuted (section 5), and no property takes its place; `RecordsAccounted` and
  `ReadsStayOnTrack` hold of what a merge does with the segments.
* A wall clock that steps back while sessions are open: `Sessions` has windows that
  follow each other. (Steps between two runs are in `CrossCameraDedup`.)
* `SqliteSink._migrate`: its `ALTER TABLE` and `PRAGMA user_version` are separate
  autocommits; a crash between the two makes the next start fail on a duplicate
  column. One step of one process, once per installation.
* Store failures are modelled where they can lose an event (`EventDelivery`,
  `HttpOutbox`), not in `CrossCameraDedup`.
* `continue_others` forgives an arm whose own bus failed to drain;
  `CleanRunLostNothing` leaves out arms the policy has given up.
* The deduper's cap is enforced before the new entry is appended, so one more
  than `_MAX_TRACKED` entries may exist.
* On Windows the job assignment is taken to succeed (it is best effort in the
  code). On POSIX the stop script stands for any operator who follows the same
  steps.
* Power loss under the configuration file: `os.replace` is atomic in the model,
  and the file is not synced in the code.

## 7. Order of work

The pipeline of one camera came first, with its ledger and proof, then frame
flow, watchdog, delivery, deduper, outbox and supervision; then the camera
and its PyGrabber captures, the multi-object pipeline with the recorder, and the
components of `components`; last the proofs about processes, preview, outbox and
frame flow.

Then the pipeline's times, the watchdog, delivery, the deduper, eight of the
components and the camera were proved, then the pipeline in multi-object mode, and last
the gate's segments, the bursts and the ground truth.
