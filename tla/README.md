# Trossen SDK: specifications

TLA+ models of the Trossen SDK (`src/`), the TLC configurations that check them
on small instances, and TLAPS proofs of what they say for every instance.

Paths below are relative to the repository root. `session_manager.cpp` is
`src/runtime/session_manager.cpp`, `sink.hpp` is `include/trossen_sdk/io/sink.hpp`.

To run everything, in this directory:

    tlc -workers 2 -config Recording.cfg Recording       # likewise the other .cfg files
    tlapm RecordingProofs.tla                            # likewise the other *Proofs modules

## 1. The system

The SDK records robot episodes. Producers emit records (joint states, images,
odometry); a session manager brings a pipeline up for each episode and takes it
down again; a sink's own thread writes the records to a backend, which keeps one
file per episode. Around it, teleoperation mirrors a leader arm to a follower, a
policy client drives arms from a remote model, and observers show a live view.

| Component | State | Operations | Talks to |
|---|---|---|---|
| Sink and queue (`io/sink.hpp`, `queue_adapter.hpp`) | `running_`, drain thread, queue, batch, processed count | `enqueue` (any thread), `start`, `stop`, drain loop | backend; fed by producers |
| Backends (`backends/trossen_mcap`, `backends/lerobot_v2`, `null`) | open file, episode index; LeRobot: image queue and workers | `open`, `write_batch`, `close`, `discard_episode`, `scan_existing_episodes` | file system |
| Scheduler (`runtime/scheduler.hpp`) | `running_`, two threads, tasks with deadlines | `add_task`, `start`, `stop` | polled producers |
| Push producers (`hw/camera/*_push_producer.cpp`) | `running_`, own thread | `start(emit)`, `stop` | sink, observers, through `emit` |
| Session manager (`runtime/session_manager.cpp`) | episode flags, index, total, path, pipeline; duration monitor and async monitor threads; four mutexes, two condition variables | `start_episode`, `stop_episode`, `discard_current_episode`, `discard_last_episode`, `shutdown`, `stats`, `wait_for_auto_stop`, `monitor_episode`, `wait_for_reset`, `request_rerecord`, `signal_reset_complete`, async monitoring | everything |
| Operator loop (`examples/*`, Python demos) | `g_stop_requested`, last `UserAction` | the loop start, monitor, stop or discard, reset | session manager |
| Observers (`observer/observer_base.hpp`, `rerun_observer.cpp`) | one latest-wins slot per subscription, worker thread, counters; the viewer's: a request to clear, what it knows of each subscription | `start`, `stop`, `offer`, worker loop; dispatch to the viewer | called by emit and by the session |
| Teleop controller (`hw/teleop/teleop_controller.cpp`) | `running_`, mirror thread | `prepare_teleop`, `teleop`, `reset_teleop`, `pause_teleop`, `stop_teleop` | arms; driven by the session |
| Policy client (`hw/policy/policy_client.cpp`, `action_chunk.hpp`) | inference thread, observation cache, chunk slot, epoch and targets | `set_inference_active`, inference loop, `swap_in`, `read` | transports, teleop mirror |
| Policy transports (`openpi_websocket_transport.cpp`, `lerobot_grpc_transport.cpp`) | connection flag, outbox, inbox, worker threads | `connect`, `push_observation`, `try_poll_chunk`, `disconnect` | policy server |
| Wire codecs (`hw/policy/lerobot_codec.cpp`, `msgpack_ndarray.cpp`) | the pickle machine's stack, marks and memo | encode setup and observation, decode replies | policy server, through a transport |
| Video encoders (`utils/video_encoder.cpp`) | an encoder per stream, its place in a group of pictures | `create`, `encode` | MCAP backend |
| Registries, configuration (`hw/active_hardware_registry.cpp`, `configuration/`) | live components by id, maps of factories, parsed JSON | parse, create, register, release | policy client, teleop factory; start-up only |
| Arm, base, camera drivers | device handles | device I/O | hardware |
| LeRobot converter (`scripts/trossen_mcap_to_lerobot_v2`) | the ordered folder, the global index offset; a cursor per stream | a run over a folder; a conversion; the alignment of rows | files, shared with the LeRobot backend's format functions |
| Replay script (`scripts/replay_trossen_mcap_jointstate`) | an index per stream | play an episode back | files, arms and bases |
| Python bindings | none | forward to the classes above | |

What is hard here:

- **Interleavings.** Up to seven kinds of threads touch one episode: the caller of
  the session, the duration monitor, the scheduler's two loops, each camera, the
  drain thread, anyone calling `stats()`. `start_episode` takes no lock except for
  one line; `teardown_episode` may run on two threads for the same episode.
- **Order.** Bringing the pipeline up and down in the wrong order shows no error:
  a closed backend drops a batch silently.
- **Stale state.** Flags are read by one thread while another is between two of
  its writes (`stats_emitted_`, `episode_active_`, `next_episode_index_`).
- **Waiting.** Condition variables notified without their mutex, joins against
  locks, waits that look at Ctrl+C in some places only.
- **The remote end.** A policy server answers late, badly or never; sockets close and
  RPCs are cancelled while threads are about to use them; the program pauses and
  resumes meanwhile.
- **Files.** A dataset is a data file and three files of lines and counters that are
  written one after the other; a process may end between any two.
- **Partial failure.** Every step of `start_episode` may fail after the ones before; a
  policy client registers several faces, or none.
- **Time.** A polled task may be late, a wait for fresh observations may time out, a
  callback may take longer than its period.
- **Foreign formats.** What goes to a policy server is read by Python, what comes back was
  written by it: any of it may be cut, of another type or out of range.

What makes each part correct is stated with its module below, and every hazard is
listed, at its line and with the properties that cover it, in `PROJECT.json`.

## 2. The modules

    EpisodeLog            the promise of one recording, abstractly
        ^ refines
    Recording  -- EXTENDS --> Sink
        ^ EXTENDS
    RecordingProofs

    EpisodeLoop -- EXTENDS --> SessionManager
                                     ^ EXTENDS
                                  Teleop  <----- EXTENDS ---- SessionProofs
    AsyncMonitor -- EXTENDS --> EpisodeLoop
        ^ EXTENDS
    UseProofs    -- EXTENDS --> SessionProofs

    Observer <-- EXTENDS -- ObserverProofs

    PolicyTransport       what a transport promises the inference loop
        ^ refines
    PolicyClient -- EXTENDS --> Transports -- EXTENDS --> ChunkSlot
        ^ EXTENDS
    PolicyProofs

    DatasetTools -- EXTENDS --> LerobotBackend -- EXTENDS --> Dataset
                 -- EXTENDS --> Converter      -- EXTENDS --> Dataset
                 -- EXTENDS --> RowAligner
    Peripherals -- EXTENDS --> McapFile, Scheduler, Observation, Replay, PolicySetup,
                               Viewer, Codec -- EXTENDS --> OpenpiCodec
    PeripheralProofs -- EXTENDS --> Viewer, Observation, Replay, McapFile, Scheduler,
                                    PolicySetup
    ConverterProofs -- EXTENDS --> Converter
    DatasetProofs   -- EXTENDS --> DatasetTools, ConverterProofs

`Recording` is the data path with one control thread; `SessionManager` is the
session's control with the data path as one step (`StopPipeline`), which is what
`Recording` shows it may be: a teardown terminates and leaves a complete file.

### Sink, Recording, EpisodeLog

`Sink` has the state of `io::Sink` and the steps of its operations. A record is its
sequence number within its stream. The queue is kept per stream: the lock-free
queue is FIFO per enqueuing thread and promises nothing across threads, each
stream is emitted by one thread, and a dequeue takes the head of *some* stream.
`DrainTest`, `DrainTake`, `DrainWrite` are the drain loop; `TailTake`, `TailWrite`
and `TailEnd` the final flush, whose loop is a different one in the code.
`BackendWriteBatch` drops the batch if the backend is closed, as `write_batch` does.

`Recording` adds the producers and the control thread. `ctl` walks through
`start_episode` (`open`, `startPush`, `recording`, or `abort` on any failure) and
`teardown_episode` (`stopPush`, `stopSched`, `joinSched`, `stopSink`, `joinSink`,
`finish`). A producer's thread tests its flag (`LoopTest`), then emits or does not
(`Emit`, `NoRecord`); `sinkOf` is the sink its emit callback captured. The
scheduler's two threads poll the other streams; each polled stream has a loop of
its own here, a superset of what two threads can do, stopped by one flag.

`EpisodeLog` is what the path promises: records are accepted while the episode is
open, each stream's log is always a prefix of what was accepted, an episode is
sealed only when complete, and a sealed one does not change. `Recording` maps
`accepted` to the records emitted, `logged` to the file, `sealed` to an idle control
thread.

### SessionManager, EpisodeLoop

A step is what a thread does between two points where another can see or change
what it uses. `pc["main"]` walks through `start_episode` (`prepare`, `open`,
`path`, `bringUp`, `stage`, `activate`, `autoReset`, `reap`, `reapJoin`, `spawn`,
`teleop`) and `teardown_episode` (`join`, `lock`, `stop`, `deactivate`, `count`,
`announce`, `final`, `hooks`, `callbacks`); the monitor thread walks through
`monitor_duration` (`test`, `sleep`) and the same teardown without the join.
`lock` is `episode_mutex_`. Episode files are numbered in the order of their last
write; `fate` and `ended` are history variables for the properties only. The scan of
the folder and the comparison with `max_episodes` (256-269) are one step: an auto-stop's
increment of the index (583) that falls between them would only complete the session a
file early.

`SessionManager` allows the orchestrating thread any order of calls;
`EpisodeLoop` replaces that by the loop the examples share and adds the two waits
with keys (`WatchReRecord`, `WatchSkip`, `ResetByUser`), requests from other threads
and Ctrl+C. The announcement ("Episode N complete") is a step of its own because it
waits for the speech to end while the mutex is held: the window is seconds long.

### Teleop

`Teleop` puts a mirror thread beside the session: `mirror` is where `control_loop` stands
(`test`, `act`, `throw` between an exception and the handler's own store, `over` until it
is joined), `running` the flag, `inside` where main stands in the controller while
`SessionManager` has it at `stage`, `teleop` or `finish`: the session's single steps there
become pause (signal, join), staging, preparation, and start (exchange, join, spawn). All
other steps of the session are taken as they are (`Elsewhere`), so the hooks of the last
episode may still run on the monitor thread meanwhile. `arms` remembers what the pair was
last prepared for. One controller stands for all, as main goes through them one by one.

### AsyncMonitor

`AsyncMonitor` adds to the session what else may stand beside it: the thread of
`start_async_monitoring` (`async`: `watch`, `poll` and `update` are the loop of
`monitor_episode`, `wait` the loop after it, `store` and `clear` the end), a thread in
`wait_for_auto_stop` (`waiter`: the predicate `test`, the moment before the sleep
`falling`, the sleep `asleep`), and the destructor, whose joins are places of main
(`call`). The test and the sleep share `auto_stop_mutex_`: a notification that takes the
mutex cannot fall between them, one that does not can (`Hears`). `captured` is the file
whose records the stored stats count, `watched` the episode the thread was started for.
The run `session_use` chooses at the start which of two programs uses the session: the
operator loop of `EpisodeLoop`, or this one (`program`).

### Observer

`Observer` is `ObserverBase`: `owner` walks through `start()` (`hook`, `spawn`,
`spawned`) and `stop()` (`latch`, `notify`, `join`, `close`) in the thread that owns
the observer (the class forbids calling the two concurrently), `offering[i]` through
`offer()` in the producer of stream `i`, and `worker` through the worker loop: `test`,
`scan` with the subscriptions `left` to look at, `handle` while a handler runs, and
the wait, split into the predicate (`pred`), the moment between predicate and sleep
(`falling`) and the sleep (`blocked`). Only `blocked` hears a notification; that is
where a notification without the mutex can be lost. A handler may stop its own
observer (`HandlerStops`). Time is abstract: a scan finds any subscription due or not
(`WTake`, `WPass`) and a deadline passes some time (`WElapsed`), so the throttle's rate
is not modelled, and neither are the counters of offered records and of handler
exceptions. Offers come only once `start()` has returned, as in a session, which
starts its observers before its producers. A record is its number in its stream.

### ChunkSlot, Transports, PolicyClient, PolicyTransport

`ChunkSlot` has the slot of `action_chunk.hpp` as a record and its methods, each under
`mu_` from start to end, as operators from slot to slot. A chunk is named after the
observation it answers, its rows are numbers, time is counted in control ticks.

`Transports` has both transports over the same variables. The openpi worker takes an
observation from the one-deep `box`, sends it and waits (`pack`, `wait`); a timeout or a
closed socket ends the connection ("die on disconnect"). The lerobot sender packs,
publishes the context of its RPC, looks at `sender_running_` again and only then calls
(`pack`, `publish`, `rpc`); the receiver likewise. `close()` is three steps: the flags,
the socket or the contexts that are published *now*, the joins. The server is external:
it answers the oldest request well, badly, late or never, loses the socket whenever it
likes, and forgets a connection's requests when the next one is made. The worker's look at
the socket's pointer and its use (541, 552) are one step, so `close()`, which resets it (387)
before the join, does not come between the two. A third kind, `fake`, is no particular
transport: it does all that the contract allows and nothing more.

`PolicyClient` adds the inference thread (`loop`: `top`, the pause's `check`, `block` and
`parked`, `observe`, `poll`, `apply`), the program of
`examples/trossen_stationary_ai_policy` (`at`), the monitor thread that ends an episode
by itself (`AutoStop`), and the readers of the slot (`Readers`): the mirrors (`Mirrors`)
through their faces, the recorder's scheduler through `current_command()`. A reader takes the
time first (`ReadClock`, 1530 and 333) and samples the slot for that time when it has the
slot's mutex (`SampleSlot`), whatever others did in between; `reading` is the time it holds,
and `overtaken` has the readers of which another has since sampled for a later time. The
scheduler is joined before an episode's end is announced, so the recorder is in no call then
(`NotReading`); a mirror may be. The pause is two steps, the predicate
and the sleep, since the flags change without `inference_mu_`; `missed` says that
`stop()` notified between them. `drain` is the drain threshold in rows: at 0 a chunk
waits for the one that plays (consume-fully), above 0 it takes over at once, aligned to
the timestep clock, and the overlap is faded. The fire target is derived from the
exhaustion target. The two waits before an observation is packed are one step, left when
the target has passed. `chunk_playable_` is left out: `apply_chunk_` refuses such chunks
before the slot sees them. A gate that finds no chunk in 30 s discards at once.

`PolicyTransport` is the comment of `policy_transport.hpp` as a specification: a one-deep
mailbox, answers only to what was pushed on this connection, each newer than the last,
nothing handed out while not connected.

### Dataset, LerobotBackend, Converter, RowAligner, DatasetTools

`Dataset` is a LeRobot v2 dataset on disk and the format functions that the backend and
the converter share. A data file is absent, `partial` (opened, without its footer: no
reader takes it) or `whole`.

`LerobotBackend` is an episode: frames are queued for the image workers (`worker[w]`:
`top`, `lock`, `block`, `asleep`, `encode`; after the flag `drain` and `flush`), then
`close_resources` and the files of `meta/`, one step each, or the discard of the open
episode, or of the last one by a backend that was never opened. Files may fail
(`Fails`), the first `info.json` among them, whose making `open` does not check, and the
process may end at any step and start again (`Crash`). An image may fail to be written, which
is warned about in the worker's loop and ignored in its drain: the job is then `unwritten`, not
`written`. Statistics of a data file that was not closed throw out of `close()` (`StatisticsThrow`). The joint
rows are not written by this backend (its own TODO), so its episodes have length 0.
History variables name the steps after which two files may disagree: `torn`, a discard
that removed the data and did not reach the list; `skewed`, a step between the list and
`info.json` that failed or was the last, an open episode discarded (uncounted though it
was never counted), or an episode without video streams discarded (it stays counted).

`Converter` is the offline script: a run orders the folder by start time, skips the
indices that have a readable data file and adds their rows to the offset, and converts
the rest step by step; conversions fail, the process ends, recordings are added and the
script is run again. A conversion that fails after its writer is open leaves what the writer's
destructor makes of it: a file without its footer, or a readable one with fewer rows.
`RowAligner` is the loop that makes the rows: a forward cursor per
stream, the leaders asked in order until one has nothing near, then the followers; two
messages of a log may have the same time, and a log may be empty. Log times are those of the
machine's clock and taken not to go back within a log; the base's part of a row (1143-1164),
which moves a cursor of its own, is left out.
`DatasetTools` is the choice of one of the three, each with a dataset of its own.

### Peripherals and its parts

Seven parts of the SDK that share no state with the others, nor with one another. Each is a
module with its own variables, `Init`, `Next` and an `Idle` in which it does nothing;
`Peripherals` puts them side by side, and `part` says which one a behaviour is about, so
one run explores the sum of their states and not the product.

`McapFile` is the MCAP backend from a record to what a reader finds in the file. A record
is its stamp; a stream's messages are kept per file (`content`), as raw messages or as
packets, each with its number in its encoder's life, whether it is a key packet, and the
bitstream it is in. `encoder` maps a stream to its encoder or to the failure to make one,
`Chosen` is the probing order over what opens on this machine (`usable`). Any call of a
library may fail (`mishaps`). `write_batch` holds the mutex over the batch, so `batch` is
what is left of it, and one record is written plane by plane.

`Scheduler` is one loop of the scheduler with its thread: the pass over the tasks
(`RunTask`, `PassOver`), the plan of the next sleep (`Plan`), the sleep, the spin before a
deadline. `Tick` may come between any two steps, so callbacks are slow and threads late by
any amount. `Recording` has the same loops as mere emitters, without time.

`Observation` is the policy client between its sources and the transport: the cache with a
generation per source, the freshness barrier (`top`, `test`, `sleep`, `asleep`, `woken`,
`check`), and the packing with its zero images. It spells out the wait that
`PolicyClient` takes in one step. `telling` holds the threads between a change and their
notification. The callbacks run on the observer's one worker, so one delivery is told
before the next is made, and none comes after `stop()` has joined that worker.

`Replay` is the main function of the replay script, from the arms it can open to the stop
commands of the bases. A message is its index in its stream.

`PolicySetup` goes from a file to registered components: parsing of `policy_clients`
entries and their layouts, creation of hardware, of clients with their faces, of teleop
controllers, and release. The layout check sorts the entries, here one of the bijections that
order them by offset, and compares each offset with a running total, here the number of columns
of the entries before. What is wrong with a file is one odd value of one field (`odd`),
an entry, a subscription, or an id used twice.

`Codec` and `OpenpiCodec` are what passes between the transports and their servers. A
message is chosen with all that can be wrong with it (`flaw`), encoded by one side and read
by the other, in one step. `Codec` has the pickle machine of `lerobot_codec.cpp`, opcode by
opcode, over a program that is a sequence of opcodes; a server's pickler and unpickler are
external definitions. Values are on a heap, so that a memo entry or a storage shared by
several tensors is one value. A byte has `Base` values; `BINPUT` and `BINGET` stand for their
long forms too. `OpenpiCodec` has the JSON
observation, its msgpack form, and the checks of a reply, with `size_t` and `int` of a small
width. A reply's map may name a key more than once: the test for an array stops at the first,
and the JSON object keeps the last, as in the code. Both are recursive over nested data, so no theorem is stated about them.

`Viewer` is `RerunObserver` behind one slot per subscription: `EpisodeShown` is the hook
on the session's thread, `TakeShow`, `ClearDisplay` and `Draw` the worker. `display` is
what the viewer shows: paths with the records logged there since they were last cleared.

## 3. What the runs check

| Run | Module, cfg | Checks | States |
|---|---|---|---|
| `recording` | Recording | `Conservation`, `TeardownTerminates`, `ImplementsLog` | 121,748 |
| `session` | Teleop | `ArmsInOrder`, `NoOrphanPipeline`, `EndedOnce`, `MonitorThreadFree`, `CallsReturn` | 447,092 |
| `session_use` | AsyncMonitor, SessionUse | `TotalMatchesDisk`, `ManualSession`, `LimitedSessionEnds`, `NothingOutlives`, `WaiterWakes` | 152,620 |
| `observer` | Observer | `Accounting`, `OnStopOnce`, `SilentAfterStop`, `Fresher`, `NoStarvation`, `StopReturns` | 44,428 |
| `policy` | PolicyClient, Policy | `AnswersOwn`, `ClosePrompt`, `MirrorHasChunk`, `ConsumeFully`, `RowsForward`, `ImplementsContract`, `StopReturns` | 1,435,258 |
| `dataset` | DatasetTools, Dataset | `ListedHaveData`, `InfoMatches`, `EveryFrameWritten`, `IndicesDisjoint`, `IndexStable`, `RowsCurrent`, `CloseReturns` | 806,087 |
| `parts` | Peripherals | `EpisodeDecodes`, `PacedRuns`, `FreshObservation`, `ReplayFaithful`, `FacesOwned`, `CodecFaithful`, `EpisodesApart` | 2,762,518 |
| `final_stats` | EpisodeLoop, FinalStats | violates `FinalStatsMeanEnded` | |
| `rerecord` | EpisodeLoop, ReRecord | violates `ReRecordHonoured` | |
| `discard_last` | SessionManager, DiscardLast | violates `DiscardsLastCompleted` | |
| `observer_stop` | Observer, ObserverStop | violates `StopReturns` | |
| `stale_action` | PolicyClient, StaleAction | violates `NoStaleAction` | |

The type invariants, `Pipeline`, `CompleteWhenIdle` and `PathExists` are proved (section 4)
and in no run.

The properties:

- `Conservation`: what a stream emitted is its file, then the batch, then the queue.
  `CompleteWhenIdle`: when teardown has returned, the file is all that was emitted.
  `Pipeline`: which threads and parts may exist where the control thread stands.
  `TeardownTerminates`: stopping, discarding and aborting come back.
- `NoOrphanPipeline`: a backend with its sink and producers exists exactly for an
  active episode or inside start and teardown. `EndedOnce`: however a manual stop
  and the auto-stop meet, callbacks fire once for a kept episode and never for
  another. `PathExists`: the published path names an existing file.
  `MonitorThreadFree`: the monitor's thread object is joined before it is reused.
  `CallsReturn`: no call waits for ever, wherever the monitor thread and the mirror are.
  `ArmsInOrder`: the mirror drives the arms only when they were last prepared for it, so
  neither during staging ("so this hook may move the hardware freely",
  `hw/hardware_component.hpp:79`) nor after shutdown released them, and no hook of an
  episode runs after that.
- `TotalMatchesDisk`: the session's total is the number of its kept files.
  `ManualSession`: without `max_duration`, final stats mean an ended episode,
  re-record removes the take, and the index is the number of files.
  `LimitedSessionEnds`: with `max_duration`, Ctrl+C ends the session.
- `NothingOutlives`: when the destructor is through, no thread of the session runs and no
  pipeline is up. `WaiterWakes`: a thread in `wait_for_auto_stop` learns of every end of an episode
  but a discard.
- `Accounting`: every accepted record was consumed or overwritten, or is in a slot or an
  unfinished `offer()`. `OnStopOnce`: one `on_stop()` for one successful `on_start()`,
  after the worker, through failed starts, repeated stops and stops by a handler.
  `SilentAfterStop`: no handler is called after `stop()` returned. `Fresher`: a
  handler's records come in order, none twice. `NoStarvation`: the newest record of a
  stream reaches its handler, or the observer is stopped. `StopReturns`: `stop()` does.
- `AnswersOwn`: a chunk is stamped with the observation it was computed from, though
  requests are given up and replies come late. `ClosePrompt`: when `close()` joins, every
  call to the server has been cut off, wherever the threads stood. `MirrorHasChunk`:
  from the gate to the end of the episode the slot has a chunk. `ConsumeFully`: with
  threshold 0 a chunk leaves when its rows had their time, or by a pause. `RowsForward`:
  the arm is never told a row of an older observation's chunk, whichever thread samples and
  however late it gets the mutex; nor an older row of the same chunk, unless the reader was
  overtaken (`SetBack`) between the clock and the slot. `ImplementsContract`:
  each transport refines `PolicyTransport`. `StopReturns`: `stop()` of the client does,
  unless its only notification fell between the paused thread's test and its sleep.
- `ListedHaveData`: a listed episode is listed once and has its data file with as many
  rows. `InfoMatches`: at rest the counters are those of the list. Both but for the steps
  named above. `EveryFrameWritten`: once the workers are joined, every colour frame that was
  handed over, whatever the length of the queue, and every depth frame that was queued is an
  image file, or its write was tried and failed. `CloseReturns`: `close()` and discard return, unless the notification was lost
  (the flag changes without the queue's mutex). `IndicesDisjoint`: no two episodes share
  a global index, unless a conversion failed with its number of rows unknown and is
  repaired by a later run. `IndexStable`: an index keeps its recording when recordings
  are added, as the comment at `trossen_mcap_to_lerobot_v2.cpp:397` says. `RowsCurrent`:
  the cursors find what a search of the whole logs finds.
- `EpisodeDecodes`: each video stream of a file decodes from that file alone, in the
  bitstream its channel names, and each stream has its records in order, but for packets
  that a library refused and for an encoder asked for by its literal name. `PacedRuns`:
  deadlines keep the phase of `start()`; three runs of a task span a period, however late;
  no sleep passes a deadline; nothing runs after `stop()`. `FreshObservation`: when the
  barrier was passed, the observation holds, of every source, a record that came after the
  wait began; it has an image for every camera; the thread never sleeps on a full set.
  `ReplayFaithful`: streams stay in step, all is played, arms end asleep and bases at rest,
  and a replay that failed has moved no base. `FacesOwned`: the registered faces are those
  of the living clients, all or none; each column of the action row drives one face; the joint
  names a policy is told are the named keys of the observations, in their order; a controller
  mirrors components that can work together. `CodecFaithful`: a server reads
  what was meant; a reply is accepted exactly when it is well formed, and its rows are then
  the elements its views name; a reply ends the program exactly when it is of the one form
  described below (`Unforeseen`). `EpisodesApart`: once a record of
  an episode was handled, the viewer shows nothing of the episodes before, but for records
  that were still waiting when it began.

### Where the code and its documents disagree

Five runs expect a violation; `PROJECT.json` "findings" quotes both sides.

1. `final_stats`. An auto-stop makes the episode inactive, then speaks, then marks
   its stats final. If the loop starts the next episode meanwhile, the late mark
   falls on that one, and `monitor_episode` returns at once from an episode that
   runs: the loop then stops it.
2. `rerecord`. The left arrow just before `max_duration`: the discard waits for the
   auto-stop and then finds nothing to discard. The rejected take is kept.
3. `discard_last`. Its guard counts the files of earlier sessions.
4. `observer_stop`. An observer without subscriptions waits with no deadline; a
   `stop()` that notifies just before the worker sleeps then joins for ever. With a
   subscription the same race only delays `stop()` by at most one period, which is why
   `StopReturns` holds in the run `observer`.
5. `stale_action`. The inference thread goes on polling while the client is paused, and
   applies what arrives: the slot emptied by the pause is full at the next resume, and
   the mirror starts with an action for an observation of the last episode.

Met while modelling. The models contain these, the properties are stated beside them, and
no run of its own is spent on them.

Session:

- `monitor_episode` looks at `g_stop_requested` only after its loop (1003): without
  `max_duration`, Ctrl+C alone ends no episode.
- A second `start_async_monitoring` after the first thread ended by itself finds the flag
  down and assigns over a thread that was never joined (1045).
- `stats()` answers with zero records once the final stats were given out, and the async
  thread asks after that (1058): what it keeps as final may count nothing.
- The episode is inactive (549) before `auto_stop_triggered_` is set (600): a waiter whose
  predicate is tested in between is told that there was no auto-stop. A discard notifies
  without the mutex of the wait (567).
- The destructor joins the async thread before it shuts the session down (87); with an
  episode active and no `max_duration`, that thread waits for the shutdown.
- `prepare_teleop` (`session_manager.cpp:404`) is called after the `try` that protects the
  staging hooks, so an arm that throws there leaves `start_episode` by an exception, with
  the pipeline up and no episode active (the model lets only the hooks throw).

Dataset:

- After `info.json` exists, `write_metadata` returns before it fills the camera names, so
  later episodes get no image statistics.
- An image that could not be written is counted nowhere (a failed write in the loop is even
  counted as encoded), and the episode is closed without it.
- An episode whose conversion failed after its data file was closed is skipped by every
  later run and never listed; a data file without rows is a failure but stays.

Policy:

- `action_chunk.hpp:79-87` allows one sampler ("Use one sampler"); the mirrors and the
  recorder all sample the one slot. The recorder takes the time in one tick, a mirror takes it in
  the next and samples first, and the recorder's sample then sets the last command back to the
  row before (`SetBack`). Without that exception `RowsForward` fails in the run's own bounds. It
  never crosses to an older chunk.
- A map with `__ndarray__` twice, first false and then true, is no array to
  `is_ndarray` (`msgpack_ndarray.cpp:114-124`), so its fields are not checked, and is one to
  `decode_reply_`, since `unpack_object` keeps the last
  (`openpi_websocket_transport.cpp:192-198`). A type or dimension of another kind then throws
  (475, 491-492) on the worker thread, where the call (680) is outside a `try`.
- A discarded episode leaves the policy client active.
- A pause and a resume within one wait of the barrier cut it short, and the loop, which
  looks only at what the flag is by then (`policy_client.cpp:649-729`), packs what it has.
- A joint layout listed out of offset order is accepted; groups and motor names follow the
  list, the columns of the action row follow the offsets, and the k-th state subscription
  is paired with the k-th entry by position.
- A second `configure()` after one that threw leaves pointers of the first.
- Two teleop pairs may name one follower (`teleop_factory.cpp:44-92`).
- At the end of the process the destructors of clients use registries that are static
  objects of other files (`policy_client.cpp:119-121`), in an order the language leaves open.

Elsewhere:

- An encoder asked for by its literal name is used for colour and depth alike, whatever
  the channel says of the codec (`trossen_mcap_backend_config.hpp:51`).
- Replay takes its frame rate from the alphabetically first stream (411-422), and two equal
  stamps there make it infinite; a base that has run out of messages keeps its last velocity
  until the end; the early returns leave arms staged.
- `docs/visualize.rst:254` says that the viewer "does not blend the previous episode's
  plots": a record that still waited when the episode began may consume the request to
  clear, and is then on display in the new one (`EpisodesApart` names those).

### Bounds

- `recording`: one pushed and one polled stream (every role a stream can have),
  `MaxBatch = 2` with `MaxSeq = 3` records per stream, so that batches fill, overflow
  and stay partial in both loops; two episodes, so that a thread or a record of the
  first could leak into the second.
- `session`, `session_use`: `OldFiles = 1`, three episode files, `MaxCount = 4` so that
  `max_episodes` is reached by the files of both sessions. Three episodes are enough
  for one to end while a second is starting and a third reuses what they left. Both
  values of `limited` (`max_duration` set or not) are initial states. The program with
  async monitoring has one episode (`AsyncTakes`), of either kind, beside one waiter and an
  async thread that may be started again; two episodes (3.8 million states) were explored
  once, without the temporal properties, and hold.
- `observer`: two subscribed streams, so that one is handled or stopped from while the
  other fills and overwrites its slot; two records each, so that one displaces the
  other; one stream nobody subscribed to. Three records per stream were tried too
  (284,767 states) and show nothing new.
- `policy`: chunks of two rows, two instants after the first, two requests, two episodes,
  one start of the client: a second chunk can queue, take over, come late or be all past,
  and a second episode can inherit. One mirror and the recorder read, the recorder in the first
  episode (`MaxRecorded`), and up to `MaxLate = 1` tick passes between a reading and its sample:
  each can overtake the other. The transports in all their detail are run with
  threshold 0, one episode and `ShortNow` ticks; the thresholds and the second episode
  are run with `fake`, which may do all that the contract allows. A cross-fade lasts
  one tick and comes with overlap.
- `dataset`: two workers, a queue limit of one, two frames in the first episode and one
  in the others, three episodes, one fault; two dated recordings and an undated one, up
  to two rows each, three runs, two troubles: enough for an interrupted run, a repaired
  file and an added recording in one behaviour. The aligner is run from every log of at
  most two messages in three instants, equal ones too, for the reference, two leaders and a
  follower: a cursor can stay behind at one row and have to catch up at the next. (With three
  messages, 1.4 million states, it holds as well.)
- `parts`. MCAP: groups of two pictures, three records, two files, one failing call: a group
  is cut by the end of a file, and a stream comes back in the next one. Scheduler: two tasks
  of 1, 1.5 and 3 ms about the 1 ms cutover, with and without spinning, over 4 ms in steps
  of 0.5 ms: a task can be late by several periods while the other is due. Observation: one
  arm and two cameras, one of them resized, two records each, two barriers, a pause and a
  resume. Replay: two arms and a base, up to two messages each. Setup: layouts of up
  to two entries with offset and count up to two, one client with each odd thing in turn, a
  second client that may collide with it, and a component that takes an id already used. Codec: bytes of two values, with the integers about each change of opcode; three
  numbers in a storage; `size_t` of 512 values and `int` up to 7, so that each overflows
  separately. Viewer: an arm with a field filter and a camera, one record each per episode,
  two episodes: one record may wait, one be in hand, when the second begins.
- The violation runs of the session need two takes; `observer_stop` needs one stream.
- `CHECK_DEADLOCK FALSE`: sessions end, and the bounds end them earlier.

### Fairness

`Recording`: weak fairness of the drain thread, of each producer's loop and of the
control thread during a teardown, which are threads the operating system
schedules; nothing is assumed of when an episode is stopped.
`SessionManager`: weak fairness of main inside an operation and of the monitor
thread. The mutex is a plain lock that the monitor holds once per episode, so weak
fairness suffices. Nobody is assumed to call anything.
`Teleop`: the same, and weak fairness of the mirror thread, whose drivers answer.
`AsyncMonitor`: in the threads' program the same, and weak fairness of the async thread, of
the waiter inside its call and of the destructor's steps; no Ctrl+C and no spurious wake-up.
In the operator loop, weak fairness of main and of the monitor thread, and strong fairness
of `MonitorTimeout`, which is that `max_duration` passes; no key and no Ctrl+C is assumed to
be pressed.
`Observer`: weak fairness of the worker, of a started `start()`, `stop()` or `offer()`,
which includes that handlers and hooks return; strong fairness of `WTake` for each
subscription and of `WElapsed`, which is that periods pass: a period is finite, so a
subscription scanned again and again is due again, and a deadline waited for comes.
No fairness of `WSpurious`: nothing may rely on a spurious wake-up.
`PolicyClient`: weak fairness of the inference thread, of the transport's threads, whose
waits have deadlines, and of a started `stop()`. The server, the program, the clock and
the readers owe nothing.
`DatasetTools`: weak fairness of each image worker and of a started close or discard.
`Peripherals`: none, its properties are all of safety.

## 4. What is proved

`RecordingProofs` proves, for every set of streams, any split into pushed and polled
ones, every batch size and every bound:

| Theorem | Statement |
|---|---|
| `Invariance` | `Spec => []Inv`, `Inv == TypeOK /\ Pipeline /\ Conservation` |
| `TypeCorrect`, `PipelineHolds`, `ConservationHolds` | its parts |
| `CompleteHolds` | `Spec => []CompleteWhenIdle` |
| `Refinement` | `Spec => ImplementsLog`, that is, `Recording` implements `EpisodeLog` |

Assumptions: `MaxBatchAssumption` (a positive batch size), `PushAssumption` (pushed
streams are streams), `BoundAssumption` (the bounds are naturals).

The argument: `Conservation` alone is not inductive. An `Emit` keeps it only if the
emitting thread holds the *current* sink, and a write keeps it only if the backend is
*open*. `Pipeline` says both, by the control thread's place: a running thread's
`sinkOf` is the current episode (`ThreadsByControl`), and the drain thread exists only
while the backend is open (`SinkByControl`). `Pipeline` in turn is inductive with the
types. From `Inv`, an idle control thread means no drain thread, hence an empty batch
and queue, hence a complete file. For the refinement an emit is an `Accept`, a write is
a `Persist` because by `Conservation` the file grows to a longer prefix of what was
emitted, `Finish` is a `Seal` because the file is complete, and the rest stutters.

`ObserverProofs` proves, for every finite set of ids, every set of subscriptions among
them and every `MaxSeq` (`ObserverConstants`):

| Theorem | Statement |
|---|---|
| `ObserverInvariance` | `Spec => []IInv`, `IInv == TypeOK /\ Life /\ Order /\ Accounting` |
| `AccountingHolds`, `OnStopOnceHolds` | `Spec => []Accounting`, `Spec => []OnStopOnce` |
| `SilentAfterStopHolds`, `FresherHolds` | `Spec => SilentAfterStop`, `Spec => Fresher` |

`OnStopOnce` says nothing of where the debt of `on_stop()` stands while `start()` or
`stop()` is under way; `Life` does, place by place: not taken on, owed, or paid. It is
also what makes a closed observer silent: at `down` there is no worker. `Fresher` needs
`Order`: what is in a slot is newer than what was seen, and what an unfinished `offer()`
holds is newer than both. For `Accounting`, each step moves one stream into or out of
the finite sets `InSlots` and `InFlight`, so a count changes by one (`Counting`).

`ConverterProofs` proves, for every number of recordings, every length and every bound:

| Theorem | Statement |
|---|---|
| `InvIsInvariant` | `ConverterSpec => []Inv`, `Inv == ConverterTypeOK /\ (failed \/ (Chain /\ Progress))` |
| `ConverterIndicesDisjoint` | `ConverterSpec => []IndicesDisjoint` |

Disjointness is not inductive: the step that writes a data file knows only the offset.
`Chain` says that the readable files are a prefix of the indices, numbered without a gap
from 0, and `Progress` that the offset is where the file at `place` begins, or would. A
skip then moves along the chain, a commit extends it, and an interrupted run starts again
at its beginning. A conversion that fails before its file is closed breaks the chain
(`failed`), as it does in the code.

The same module keeps two more invariants of the converter by the same steps, which
`DatasetProofs` needs. `Recorded` is what a run lists and counts: the step that lists an
episode knows its rows from the step that closed its file, and that it is not listed from the
file that was not readable before (`Converted`); between the line and `info.json` the counts
are behind by that one (`Tallied`). `Numbering` is the order: the readable files hold the
recordings from the first on, each at its place in the order of start times, because the
recordings already numbered are older than any that is added, unless a dated one joined the
undated one (`displaced`).

What would be inductions over sequences (that the frames listed are a sum that grows by what
is appended, that a folder's order is unique) are arguments about a least counterexample: by
`WFMin` of the library a set of naturals has a least element (`Least`), and the step from its
predecessor refutes it. The folds of the model are stated with functions (`IsSum`), not with
operators that recur.

`PolicyProofs` proves, for every number of requests, episodes and rows, and for each
transport:

| Theorem | Statement |
|---|---|
| `PolicyInvariance` | `PolicySpec => []Inv`, `Inv == Standing /\ Ordered /\ Replies /\ Owned /\ Closed /\ ClosePrompt` |
| `AnswersOwnHolds`, `ClosePromptHolds` | `PolicySpec => []AnswersOwn`, `PolicySpec => []ClosePrompt` |
| `ContractRefinement` | `PolicySpec => ImplementsContract` |

`AnswersOwn` needs an order of everything under way on one connection: what was answered
is older than what the server owes, that older than what the sender holds, that older than
what waits in the box (`Ordered`). openpi, which tells replies apart by nothing at all,
never has more than its own request outstanding (`Replies`); a reply belongs to the
connection it came on (`Owned`), and close runs only while the client stops (`Closed`).
`ClosePrompt` is inductive with `Standing`, which says what a thread at each place has
published. For the refinement, every publication by a worker is an `Answer` of the
contract, every end of a connection a loss, and the rest stutters.

The second half of the module proves, under the same assumptions:

| Theorem | Statement |
|---|---|
| `SlotInvariance` | `PolicySpec => []SlotInv` |
| `MirrorHasChunkHolds`, `RowsForwardHolds`, `ConsumeFullyHolds` | the slot's properties of the run |

The argument: from the box over the server to the inference thread's hand and to the slot's
queued and playing chunks, each place holds chunks older than the one before it (`Fresh`). In
the slot, what was last commanded is of the playing chunk or of an older one, and the row a
cross-fade leaves from is the last commanded one (`Sound`): so no sample, for whatever time,
goes back to an older chunk. Within the playing chunk, the last commanded row is not beyond the
row of the present time, nor beyond that of any reading which was not overtaken (`Behind`,
`Forward`): a sample keeps this for the readings as late as its own, and those before it are
the ones it overtakes. Any number of mirrors is allowed (`MirrorsAssumption`: none is the
recorder).
`ConsumeFully` needs no more than the types.

`DatasetProofs` proves, for every number of frames, episodes, image workers (at least one),
recordings, streams and faults:

| Theorem | Statement |
|---|---|
| `WorkersInvariance` | `DatasetToolsSpec => []WInv` |
| `EveryFrameWrittenHolds` | `DatasetToolsSpec => []EveryFrameWritten` |
| `ToolInvariance` | `DatasetToolsSpec => []ToolInv` |
| `ListedHaveDataHolds`, `InfoMatchesHolds`, `IndexStableHolds` | `DatasetToolsSpec => []ListedHaveData`, and so on |
| `RowsCurrentHolds` | `DatasetToolsSpec => []RowsCurrent` |

The workers: a job that was queued is queued, held by one worker, written, or could not be
written (`NoJobLost`), and every colour frame that was handed over is such a job
(`EveryColour`); a worker that ended left an empty queue behind a flag that is down, and
nothing is added to the queue after that (`WInv`).

The metadata: `ToolInv` is the backend's `BackendInv` or the converter's `Inv`, `Recorded` and
`Numbering`, whichever program has the dataset. `ListedHaveData` is not inductive for the
backend: its list is repaired by the number of an episode, so a line must be the episode's and
the only one. `Increasing` says the lines are in the order of their episodes, and `Bounded`
where the session's own episode stands to them, place by place: above all until it is listed,
and the last from then on. A discard takes the data, then the line, then the counts; what may
be listed without its data in between is that episode alone (`Present`). `Uncounted` is how
many lines `info.json` is behind (one after the line of a close, one too many after that of a
discard), and `Counting` that nothing else moves it apart from the list unless `skewed`. While
there is no `info.json` no episode was ever counted (`Made`), though the list may have lines.

The rows: `AlignStep` needs of a cursor only that it is at the first message or at one that was
already there at the row before (`Behind`); log times do not go back, so all it has passed or
could have been at is in the past of this row, and `AdvanceIsCurrent` follows: the search
onward from the cursor ends where a search from the start would.

`SessionProofs` proves, for every number of old files, of takes and of episodes allowed:

| Theorem | Statement |
|---|---|
| `SessionInvariance` | `Spec => []Inv`, `Inv == Standing /\ Flags /\ Pipeline /\ Store /\ Counts /\ Debts /\ MonitorThreadFree` |
| `SessionTypes` | `Spec => []TypeOK` |
| `NoOrphanHolds`, `EndedOnceHolds`, `PathExistsHolds`, `MonitorThreadFreeHolds` | the properties of the run |

The argument: the thread inside the locked part of the teardown is the holder of the mutex,
and an active episode has a pipeline unless that thread has just taken it down
(`Pipeline`); this is what makes the second of two teardowns harmless. A published path is
on disk but for the instant of a discard (`Store`). Every closed file is owed its callbacks
by the thread that closed it, until it pays (`Debts`), and the two threads never owe for
one file. The counters are bounded by the files, less those still `Due` to be counted
(`Counts`).

The second half of the module composes: `TeleopImplementsSession` (`TeleopSpec => Spec`)
carries every theorem above over to the session with its mirror. `ArmsInOrderHolds` and
`TeleopTypes` rest on `TeleopInvariance`: past its own join main is alone, a session that is
shut has neither an episode nor a monitor thread (`Terminal`), and from the pause to the
spawn there is no mirror and its flag is down (`Mirror`), so `teleop()` never finds the flag
up and `prepare_teleop()` never skips the arms.

What goes on beside the session's own steps is given once (`Aside`: main waits for an
operator, other threads look at the stats or wait for an auto-stop, the monitor is told to end
and is joined when it has), and every step of the proof is for `Next \/ Aside`, so that whoever
uses a session has its invariant.

`UseProofs` proves, of the operator loop and of the program with async monitoring, for every
number of old files, of takes and of episodes allowed:

| Theorem | Statement |
|---|---|
| `UseInvariance` | `UseSpec => []UInv`, `UInv == Inv /\ Terminal /\ Programs /\ Destructor /\ Rounds /\ Tally` |
| `UseKeepsSession` | `UseSpec => [](NoOrphanPipeline /\ EndedOnce /\ PathExists /\ MonitorThreadFree)` |
| `TotalHolds`, `NothingOutlivesHolds` | `UseSpec => []TotalMatchesDisk`, `UseSpec => []NothingOutlives` |
| `ManualHolds` | `ASSUME ~Readers, ~Faults PROVE UseSpec => []ManualSession` |

The argument: every step of either program is the session's, or `Aside` (`UseIsSession`). For
the count, an episode is counted while its teardown holds the mutex, so the sum of the total and
of what is still to be counted is the number of kept files (`Tally`). The step that could break
it is `discard_last_episode`, which takes one off the total and the newest file off the disk;
in the loop that file is this session's and was counted, because from its opening to its reset
the loop is about the newest file, still open or kept (`Rounds`). This is what fails where
`SessionManager` allows any order of calls (finding `discard_last`). For the destructor: main
has come to the shutdown only past the join of the async thread (`Destructor`), and a session
that is shut has no monitor thread (`Terminal`).

`ManualSession` is a theorem of sessions without `max_duration` under two assumptions that the
run makes too: no other thread calls `stats()` (its first look at the end of an episode would
answer the operator's next one), and creating a backend does not fail (`discard_last_episode`
then deletes nothing, and returns nothing that the loop could ask). There is then
no monitor thread (`Unwatched`); what main watches is active with stats that are not final
(`Watching`); a rejected take is on disk only until main has carried the request out (`Redone`);
and the index is the number of files but for the one being recorded (`Indexed`), which is also
why the guard of `discard_last_episode` does not refuse.

`PeripheralProofs` proves, for every set of views, sources, arms, bases, streams, tasks and
entries and every bound:

| Theorem | Statement |
|---|---|
| `EpisodesApartHolds` | `ViewerSpec => []EpisodesApart` |
| `FreshObservationHolds` | `ObservationSpec => []FreshObservation` |
| `ReplayFaithfulHolds` | `ReplaySpec => []ReplayFaithful` |
| `EpisodeDecodesHolds` | `McapSpec => []EpisodeDecodes` |
| `PacedRunsHolds` | `SchedulerSpec => []PacedRuns` |
| `RegistryOwnedHolds` | `SetupSpec => []RegistryOwned`, the part of `FacesOwned` about registry and controllers |
| `FacesOwnedHolds` | `SetupSpec => []FacesOwned` |

Each is about its part alone, which is all that a behaviour of `Peripherals` moves. The
assumptions used are that `Cameras` is a sequence (`ObservationAssumption`), that no stream
is of an arm and of a base (`ReplayAssumption`), and the types of the other constants
(`McapAssumption`, `SchedulerAssumption`, `SetupAssumption`). The viewer: a record on its way is of the
episode that shows or was waiting when that began (`Underway`), and while the request to
clear is pending no record of the new one was handled (`Uncleared`); so what is drawn over a
cleared display is of the one kind or of the other. The observation: generations only grow,
so a barrier that was passed stays passed until the packing (`Passed`), and the test and the
sleep have no delivery between them, so a thread sleeping on a full set has a notification on
its way (`Sleeping`). The replay: until it plays nothing has moved on (`NotPlayed`), and then
each driven stream stands at the frame or at its end, whichever comes first.

The MCAP file: an encoder that is kept is one of the file that is open, in the bitstream its
channel names, and the last packet it made is the last one logged or was refused
(`Continued`); so a packet that is not a key packet comes after the one it refers to. Stamps
grow along a log and from the log to the batch (`LogsInOrder`), and a stream that can be
written was handed what it has logged and what the batch still holds for it
(`NothingMissing`). The scheduler: a deadline is not before the task's last run and at least a
period after the one before that (`Spaced`), so the next run is at least a period after the
last but one; deadlines stay in phase through the rounding of `execute_task` by facts about
division, which are lemmas of their own (`MultiplesAdd`, `NextDeadlineIs`). A pass that is over
has seen every deadline at or after the wake-up it plans (`NoneBefore`). That the longest spin
window exists takes an induction on the tasks, made from the well-foundedness of the naturals
(`LeastIn`). The registry: the faces of a client that is being made are under ids that were
free and differ from each other (`FacesDiffer`), so taking components out by the ids of the
faces, in the rollback and in the destructor, takes out these faces and nothing else; an entry
of the kind client names the client it stands for (`ClientsKnown`), so a client whose entry is
gone has left none behind. Of the files only their shape is used (`FileShape`).

What `FacesOwned` says of layouts and names is proved of layouts of every length, and then of
the living clients, which were made after their file was parsed (`FilePassed`). The width of
some entries is the number of their columns, so that the library's facts about finite sets
give the sum of the counts without an induction (`WidthGrows`). The entries before the k-th by
offset take the columns up to where the k-th begins (`ExpectedIs`); a column belongs to the
first entry that ends after it, and to no other since ends and beginnings grow along the order
(`TilesCover`). `configure` lists the names and `map_observation_` the keys, each in a loop of
its own over the layout. An entry names all of its joints or none, so entry by entry the names
are the named keys (`EntryCarries`); concatenation keeps that (`CarriedJoin`), and so does the
whole of the list, by an induction on the entries again made with `LeastIn` (`FlattenIs`,
`FlatCarried`).

Only model-checked: `CodecFaithful` of `parts` (recursive definitions, beyond the prover); and
everything that must eventually happen, which is liveness under fairness (`TeardownTerminates`,
`CallsReturn`, `LimitedSessionEnds`, `NoStarvation`, `StopReturns`, `CloseReturns`, `WaiterWakes`).

## 5. Not modelled, and the plan

What could come next, in this order:

1. The images of the converter beside its rows.
2. `WaiterWakes` with more than one waiter.

Not modelled, and why:

- Drivers of arms, bases and cameras, announcements, key decoding: device I/O. What the
  session, the mirror and the replay ask of arms and bases are steps of their models.
- The ZED and RealSense conversions, depth quantization, statistics, the contents of videos:
  numeric. Text encodings and the fixed-width framing of the codecs: the repository's
  fixtures test these better. The protobuf files are descriptions of records.
- The other configuration types, the command line and the loader: fields read one by one.
  The producer and backend registries: maps filled before `main`.
- The Python bindings and the null backend: no behaviour of their own.
- In the dataset, the directories: their creation is taken to succeed. In the converter, a
  single file as input (430-431): one conversion at index 0, with none of the order among
  recordings that its properties are about.
- `wait_for_auto_stop`'s timeout variant is the same wait left early. The four plain
  registration calls refuse while an episode is active and append to a list otherwise.
