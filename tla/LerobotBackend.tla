----------------------------- MODULE LerobotBackend -----------------------------
(***************************************************************************)
(* backends/lerobot_v2/lerobot_v2_backend.cpp as the session uses it: an   *)
(* episode is opened at the next free index, its frames are handed to the  *)
(* image workers, and it is closed, or discarded while open, or discarded  *)
(* later by a backend of its own.  The session's thread and the sink's are *)
(* one here: the sink is joined before the backend is closed.  The process *)
(* may end at every step and be started again.                             *)
(*                                                                         *)
(* The joint rows are not written by this backend (its own comment says    *)
(* so): its parquet files have no rows.                                    *)
(***************************************************************************)
EXTENDS Dataset

CONSTANTS
  Encoders,   \* the image workers
  MaxQueue,   \* max_image_queue
  MaxFrames,  \* bound: frames of the first episode
  LaterFrames, \* bound: frames of the episodes after it
  MaxTakes,   \* bound: episodes opened
  MaxFaults   \* bound: ends of the process, and files that cannot be opened or closed

ASSUME BackendAssumption ==
  /\ Encoders # {}   \* encoder_threads = 0 means one
  /\ MaxQueue \in Nat /\ MaxFrames \in Nat /\ LaterFrames \in Nat
  /\ MaxTakes \in Nat /\ MaxFaults \in Nat

VARIABLES
  session,  \* where the caller stands
  why,      \* what the workers are joined for: "close" or "discard"
  ep,       \* episode_index_
  next,     \* the session's next_episode_index_
  frames,   \* frames of the episode handed over
  working,  \* image_worker_running_
  jobs,     \* image_queue_
  worker,   \* where each worker stands
  job,      \* what each worker has popped
  pushed,   \* history: jobs queued for this episode
  written,  \* the image files of this episode
  unwritten, \* history: jobs whose image could not be written
  takes,    \* history: episodes opened
  cameras,  \* a camera's image directory exists
  revert,   \* discarded_frame_count, and whether a stream was counted
  faults,   \* history: their number
  missed,   \* history: close notified a worker between its test and its sleep
  torn,     \* history: a discard removed the data and did not come to the list
  skewed    \* history: info.json may disagree with the list (see Skews)

workers == <<working, jobs, worker, job, cameras, missed>>
encoding == <<workers, pushed, written, unwritten>>
caller == <<why, ep, next, frames, revert>>
past == <<takes, faults, torn, skewed>>
backendVars == <<session, encoding, caller, past>>

NoJob == [frame |-> 0, depth |-> FALSE]
NoRevert == [frames |-> 0, due |-> FALSE]

BackendInit ==
  /\ session = "idle" /\ why = "close" /\ ep = 0 /\ next = 0 /\ frames = 0
  /\ working = FALSE /\ jobs = << >> /\ pushed = {} /\ written = {} /\ unwritten = {} /\ cameras = FALSE
  /\ worker = [w \in Encoders |-> "off"] /\ job = [w \in Encoders |-> NoJob]
  /\ revert = NoRevert
  /\ takes = 0 /\ faults = 0 /\ missed = FALSE /\ torn = FALSE /\ skewed = FALSE

At(from, to) == session = from /\ session' = to

(* A file cannot be opened or closed: warned about, and the caller goes on. *)
Fails == faults < MaxFaults /\ faults' = faults + 1

Finalising == {"videos", "stats", "entry", "task", "info"}
Discarding == {"data", "images", "length", "line", "statsline", "revert"}

(***************************************************************************)
(* An episode.                                                             *)
(***************************************************************************)

(* The session scans, then opens at that index; the file of a crashed or failed
   discard would be overwritten.  Whether info.json could be made is not looked at. *)
Open ==
  /\ At("idle", "open")
  /\ takes < MaxTakes /\ takes' = takes + 1
  /\ NextIndex \in Indices
  /\ next' = NextIndex /\ ep' = NextIndex
  /\ working' = TRUE /\ worker' = [w \in Encoders |-> "top"]
  /\ frames' = 0 /\ jobs' = << >> /\ pushed' = {} /\ written' = {} /\ unwritten' = {}
  /\ parquet' = [parquet EXCEPT ![NextIndex] = Partial]
  /\ \/ CreateInfo /\ UNCHANGED faults
     \/ ~info.made /\ Fails /\ UNCHANGED info
  /\ missed' = FALSE
  /\ UNCHANGED <<why, revert, job, cameras, listed, stats, tasks, streams, torn, skewed>>

(* A worker that evaluates its predicate holds the mutex until it sleeps. *)
QueueFree == \A w \in Encoders : worker[w] # "block"

(* notify_one: a sleeping worker, when there is one, tests again. *)
NotifyOne ==
  IF \E w \in Encoders : worker[w] = "asleep"
    THEN \E w \in Encoders : worker[w] = "asleep" /\ worker' = [worker EXCEPT ![w] = "lock"]
    ELSE UNCHANGED worker

Enqueue(j) == jobs' = Append(jobs, j) /\ pushed' = pushed \union {j}

(* The colour frame is queued whatever the length of the queue. *)
WriteColour ==
  /\ session = "open" /\ frames < (IF takes = 1 THEN MaxFrames ELSE LaterFrames)
  /\ session' \in {"open", "depth"}
  /\ QueueFree
  /\ frames' = frames + 1 /\ cameras' = TRUE
  /\ Enqueue([frame |-> frames + 1, depth |-> FALSE])
  /\ NotifyOne
  /\ UNCHANGED <<why, ep, next, revert, working, job, written, unwritten, missed, dataset, past>>

(* Its depth frame is dropped when the queue is at its limit. *)
WriteDepth ==
  /\ At("depth", "open")
  /\ QueueFree
  /\ IF MaxQueue > 0 /\ Len(jobs) >= MaxQueue
       THEN UNCHANGED <<jobs, pushed>>
       ELSE Enqueue([frame |-> frames, depth |-> TRUE])
  /\ NotifyOne
  /\ UNCHANGED <<caller, working, job, written, unwritten, cameras, missed, dataset, past>>

(***************************************************************************)
(* image_worker_loop                                                       *)
(***************************************************************************)
Goes(w, from, to) == worker[w] = from /\ worker' = [worker EXCEPT ![w] = to]

Untouched == UNCHANGED <<session, caller, dataset, past>>

(* Faulty variant: a stopped worker leaves the queue as it is. *)
WorkerTestsAndLeaves(w) ==
  /\ Goes(w, "top", IF working THEN "lock" ELSE "off")
  /\ UNCHANGED <<working, jobs, job, pushed, written, unwritten, cameras, missed>> /\ Untouched

WorkerTests(w) ==
  /\ Goes(w, "top", IF working THEN "lock" ELSE "drain")
  /\ UNCHANGED <<working, jobs, job, pushed, written, unwritten, cameras, missed>> /\ Untouched

(* The predicate of the wait, under the mutex: sleep, or leave the loop. *)
WorkerFindsNothing(w) ==
  /\ QueueFree /\ jobs = << >>
  /\ Goes(w, "lock", IF working THEN "block" ELSE "drain")
  /\ UNCHANGED <<working, jobs, job, pushed, written, unwritten, cameras, missed>> /\ Untouched

WorkerSleeps(w) ==
  /\ Goes(w, "block", "asleep")
  /\ UNCHANGED <<working, jobs, job, pushed, written, unwritten, cameras, missed>> /\ Untouched

(* One job is popped, in the loop or after it. *)
WorkerPops(w) ==
  /\ QueueFree /\ jobs # << >>
  /\ \/ Goes(w, "lock", "encode")
     \/ Goes(w, "drain", "flush")
  /\ job' = [job EXCEPT ![w] = Head(jobs)] /\ jobs' = Tail(jobs)
  /\ UNCHANGED <<working, pushed, written, unwritten, cameras, missed>> /\ Untouched

(* imwrite makes the file, or returns false or throws: warned about in the loop, and
   passed over in silence in the drain. *)
WorkerEncodes(w) ==
  /\ \/ Goes(w, "encode", "top")
     \/ Goes(w, "flush", "drain")
  /\ \/ written' = written \union {job[w]} /\ UNCHANGED unwritten
     \/ unwritten' = unwritten \union {job[w]} /\ UNCHANGED written
  /\ job' = [job EXCEPT ![w] = NoJob]
  /\ UNCHANGED <<working, jobs, pushed, cameras, missed>> /\ Untouched

WorkerEnds(w) ==
  /\ QueueFree /\ jobs = << >>
  /\ Goes(w, "drain", "off")
  /\ UNCHANGED <<working, jobs, job, pushed, written, unwritten, cameras, missed>> /\ Untouched

Worker(w) ==
  \/ WorkerTests(w) \/ WorkerFindsNothing(w) \/ WorkerSleeps(w)
  \/ WorkerPops(w) \/ WorkerEncodes(w) \/ WorkerEnds(w)

(***************************************************************************)
(* close_resources, close and discard_episode                              *)
(***************************************************************************)

(* The writer is closed, or fails to: warned about. *)
CloseWriter ==
  /\ At("open", "signal")
  /\ why' \in {"close", "discard"}
  /\ \/ /\ parquet' = [parquet EXCEPT ![ep] = Whole(0, 0, ep)]
        /\ faults' = faults
     \/ Fails /\ UNCHANGED parquet
  /\ skewed' = (skewed \/ why' = "discard")
  /\ UNCHANGED <<ep, next, frames, revert, encoding, meta, streams, takes, torn>>

(* Faulty variant: the workers are not told. *)
StopWorkersSilently ==
  /\ At("signal", "notify")
  /\ UNCHANGED <<encoding, caller, dataset, past>>

(* The flag changes without the queue's mutex ... *)
StopWorkers ==
  /\ At("signal", "notify")
  /\ working' = FALSE
  /\ UNCHANGED <<jobs, worker, job, pushed, written, unwritten, cameras, missed, caller, dataset, past>>

(* ... and so does the wake-up: a worker about to sleep does not get it. *)
NotifyAll ==
  /\ At("notify", "join")
  /\ worker' = [w \in Encoders |-> IF worker[w] = "asleep" THEN "lock" ELSE worker[w]]
  /\ missed' = (~QueueFree)
  /\ UNCHANGED <<working, jobs, job, pushed, written, unwritten, cameras, caller, dataset, past>>

JoinWorkers ==
  /\ \A w \in Encoders : worker[w] = "off"
  /\ At("join", IF why = "close" THEN "videos" ELSE "data")
  /\ UNCHANGED <<encoding, caller, dataset, past>>

(* convert_to_videos makes a directory for every camera; an encoding that fails is
   reported and no more. *)
ConvertToVideos ==
  /\ At("videos", "stats")
  /\ streams' = (streams \/ cameras)
  /\ UNCHANGED <<encoding, caller, parquet, meta, past>>

(* The backend object is gone. *)
Gone ==
  /\ why' = "close" /\ ep' = 0 /\ frames' = 0 /\ revert' = NoRevert
  /\ pushed' = {} /\ written' = {} /\ unwritten' = {}

(* The session counts the episode whatever the backend could write. *)
Closed == session' = "idle" /\ next' = next + 1 /\ Gone

GivesUp == Fails /\ Closed /\ skewed' = TRUE

(* compute_statistics reads the rows back (see StatisticsThrow). *)
WriteStats ==
  /\ session = "stats" /\ Readable(ep)
  /\ \/ /\ AppendStats(ep) /\ session' = "entry"
        /\ UNCHANGED <<caller, pushed, written, unwritten, faults, skewed>>
     \/ GivesUp /\ UNCHANGED stats
  /\ UNCHANGED <<workers, parquet, listed, tasks, info, streams, takes, torn>>

WriteEntry ==
  /\ session = "entry"
  /\ \/ /\ AppendEntry(ep, parquet[ep].rows) /\ session' = "task"
        /\ UNCHANGED <<caller, pushed, written, unwritten, faults, skewed>>
     \/ GivesUp /\ UNCHANGED listed
  /\ UNCHANGED <<workers, parquet, stats, tasks, info, streams, takes, torn>>

WriteTask ==
  /\ session = "task"
  /\ \/ /\ tasks' = TRUE /\ session' = "info"
        /\ UNCHANGED <<caller, pushed, written, unwritten, faults, skewed>>
     \/ ~tasks /\ GivesUp /\ UNCHANGED tasks
  /\ UNCHANGED <<workers, parquet, listed, stats, info, streams, takes, torn>>

WriteInfo ==
  /\ session = "info"
  /\ \/ /\ info.made /\ info' = UpdateInfo(parquet[ep].rows) /\ Closed
        /\ UNCHANGED <<faults, skewed>>
     \/ /\ ~info.made /\ Closed /\ skewed' = TRUE
        /\ UNCHANGED <<faults, info>>
     \/ GivesUp /\ UNCHANGED info
  /\ UNCHANGED <<workers, parquet, listed, stats, tasks, streams, takes, torn>>

(* discard_last_episode: a backend that was never opened. *)
DiscardLast ==
  /\ At("idle", "data") /\ next > 0
  /\ ep' = next - 1 /\ why' = "last"
  /\ skewed' = (skewed \/ ~streams \/ ~\E n \in 1 .. Len(listed) : listed[n].episode = next - 1)
  /\ UNCHANGED <<next, frames, revert, encoding, dataset, faults, takes, torn>>

RemoveData ==
  /\ At("data", "images")
  /\ \/ parquet' = [parquet EXCEPT ![ep] = NoFile] /\ faults' = faults
     \/ Fails /\ UNCHANGED parquet
  /\ UNCHANGED <<encoding, caller, meta, streams, takes, torn, skewed>>

(* The episode's images and videos; the directories of the cameras stay. *)
RemoveImages ==
  /\ At("images", "length")
  /\ written' = IF why = "discard" THEN {} ELSE written
  /\ UNCHANGED <<working, jobs, worker, job, pushed, unwritten, cameras, missed, caller, dataset, past>>

(* What revert_info_json will take away, read before the line goes. *)
ReadLength ==
  /\ At("length", "line")
  /\ LET length == IF LastOf(ep) THEN listed[Len(listed)].length ELSE 0
     IN  revert' = [frames |-> length, due |-> length > 0 \/ streams]
  /\ UNCHANGED <<why, ep, next, frames, encoding, dataset, past>>

RemoveEntry ==
  /\ At("line", "statsline")
  /\ \/ /\ listed' = IF LastOf(ep) THEN WithoutLast(listed) ELSE listed
        /\ UNCHANGED <<faults, torn, skewed>>
     \/ /\ LastOf(ep) /\ Fails /\ UNCHANGED listed
        /\ torn' = TRUE /\ skewed' = TRUE
  /\ UNCHANGED <<encoding, caller, parquet, stats, tasks, info, streams, takes>>

RemoveStats ==
  /\ At("statsline", "revert")
  /\ \/ /\ stats' = IF IsLast(stats, ep) THEN WithoutLast(stats) ELSE stats
        /\ faults' = faults
     \/ IsLast(stats, ep) /\ Fails /\ UNCHANGED stats
  /\ UNCHANGED <<encoding, caller, parquet, listed, tasks, info, streams, takes, torn, skewed>>

(* The session goes back to the index of the last episode. *)
Revert ==
  /\ At("revert", "idle")
  /\ next' = IF why = "last" THEN ep ELSE next
  /\ \/ info' = (IF revert.due THEN RevertInfo(revert.frames) ELSE info)
        /\ UNCHANGED <<faults, skewed>>
     \/ revert.due /\ Fails /\ skewed' = TRUE /\ UNCHANGED info
  /\ Gone
  /\ UNCHANGED <<workers, parquet, listed, stats, tasks, streams, takes, torn>>

(***************************************************************************)
(* The end of the process, and a new one.                                  *)
(***************************************************************************)
Dies ==
  /\ session' = "idle" /\ next' = 0 /\ Gone
  /\ working' = FALSE /\ jobs' = << >> /\ job' = [w \in Encoders |-> NoJob]
  /\ worker' = [w \in Encoders |-> "off"] /\ missed' = FALSE
  /\ torn' = (torn \/ session \in Discarding)
  /\ skewed' = (skewed \/ session \in Finalising \union Discarding)
  /\ UNCHANGED <<cameras, takes, dataset>>

Crash == Fails /\ session # "idle" /\ Dies

(* A file that was not closed cannot be read back: the exception leaves close(), and
   nobody catches it. *)
StatisticsThrow == session = "stats" /\ ~Readable(ep) /\ Dies /\ UNCHANGED faults

Finalise ==
  \/ StopWorkers \/ NotifyAll \/ JoinWorkers
  \/ ConvertToVideos \/ WriteStats \/ WriteEntry \/ WriteTask \/ WriteInfo \/ StatisticsThrow
  \/ RemoveData \/ RemoveImages \/ ReadLength \/ RemoveEntry \/ RemoveStats \/ Revert

BackendNext ==
  \/ Open \/ WriteColour \/ WriteDepth \/ CloseWriter \/ DiscardLast
  \/ Finalise \/ Crash
  \/ \E w \in Encoders : Worker(w)

(***************************************************************************)
(* What it should do.                                                      *)
(***************************************************************************)

(* Once the workers are joined, every colour frame that was handed over, whatever the
   length of the queue, and every depth frame that was queued, is an image file or could
   not be written: nothing is left behind by workers that come and go, nor by the queue's
   limit, and the frames still waiting when close_resources() clears the flag are
   drained. *)
Settled == written \union unwritten
EveryFrameWritten ==
  session \in Finalising =>
    /\ \A f \in 1 .. frames : [frame |-> f, depth |-> FALSE] \in Settled
    /\ pushed \subseteq Settled

(* close() and discard_episode() return, unless notify_all came between a worker's test
   and its sleep (the flag is changed without the mutex). *)
CloseReturns == session \in {"signal", "notify", "join"} ~> session = "idle" \/ missed
=============================================================================
