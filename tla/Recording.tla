------------------------------ MODULE Recording ------------------------------
(***************************************************************************)
(* One recording session's data path: SessionManager's control thread      *)
(* brings a backend, a sink, the push producers and the scheduler up for   *)
(* each episode and takes them down again, while producer threads emit     *)
(* records into the sink and the sink's thread drains them to the backend. *)
(*                                                                         *)
(* SessionManager::start_episode and teardown_episode are modelled here by *)
(* what they do to this path, in their order; the session's flags,         *)
(* callbacks and other threads are in SessionManager.                      *)
(***************************************************************************)
EXTENDS Sink, FiniteSetsExt

CONSTANTS
  PushStreams,  \* streams emitted by a push producer's own thread
  MaxSeq,       \* bound: records a stream emits in a behaviour
  MaxEpisodes   \* bound: episodes started in a behaviour

(* The other streams are polled by the scheduler's two threads.  A stream is
   polled from one of them, at most once a pass; each is given a pass of its
   own, which allows every interleaving the two threads have. *)
PolledStreams == Streams \ PushStreams

ASSUME PushAssumption == PushStreams \subseteq Streams
ASSUME BoundAssumption == MaxSeq \in Nat /\ MaxEpisodes \in Nat

Records == 0 .. MaxSeq

VARIABLES
  ctl,      \* where the control thread stands
  episode,  \* number of sinks created
  fate,     \* what teardown was asked to do with the episode
  flag,     \* per stream, its thread's running_ flag
  thread,   \* per stream, where its thread's loop stands
  sinkOf,   \* per stream, the sink its emit callback captured
  seq,      \* per stream, the next RecordBase::seq
  emitted,  \* history: per stream, the records emitted in this episode
  final     \* final_records_written_

ctlVars == <<ctl, episode, fate, final>>
prodVars == <<flag, thread, sinkOf, seq, emitted>>
vars == <<sinkVars, ctlVars, prodVars>>

Controls == {"idle", "open", "startPush", "recording", "stopPush", "abort",
             "stopSched", "joinSched", "stopSink", "joinSink", "finish"}

TypeOK ==
  /\ SinkTypeOK
  /\ ctl \in Controls
  /\ episode \in Nat
  /\ fate \in {"none", "kept", "discarded", "aborted"}
  /\ final \in Nat
  /\ flag \in [Streams -> BOOLEAN]
  /\ thread \in [Streams -> {"none", "check", "pass"}]
  /\ sinkOf \in [Streams -> Nat]
  /\ seq \in [Streams -> Records]
  /\ emitted \in [Streams -> Seq(Records)]

Init ==
  /\ SinkInit
  /\ ctl = "idle"
  /\ episode = 0
  /\ fate = "none"
  /\ final = 0
  /\ flag = [s \in Streams |-> FALSE]
  /\ thread = [s \in Streams |-> "none"]
  /\ sinkOf = [s \in Streams |-> 0]
  /\ seq = [s \in Streams |-> 0]
  /\ emitted = Empty
-----------------------------------------------------------------------------
(* The threads that emit records: a push producer's push_loop, or a polled
   producer's task in the scheduler's loop. *)

(* Faulty variant: a loop that does not look at its flag. *)
LoopTestIgnoringFlag(s) ==
  /\ thread[s] = "check"
  /\ thread' = [thread EXCEPT ![s] = "pass"]
  /\ UNCHANGED <<sinkVars, ctlVars, flag, sinkOf, seq, emitted>>

(* while (running_): a pass begins, or the thread ends. *)
LoopTest(s) ==
  /\ thread[s] = "check"
  /\ thread' = [thread EXCEPT ![s] = IF flag[s] THEN "pass" ELSE "none"]
  /\ UNCHANGED <<sinkVars, ctlVars, flag, sinkOf, seq, emitted>>

(* The pass yields a record, and fan_out_record_ enqueues it in the sink that
   the emit callback captured; nobody drains the sink of an earlier episode. *)
Emit(s) ==
  /\ thread[s] = "pass"
  /\ seq[s] < MaxSeq
  /\ IF sinkOf[s] = episode THEN Enqueue(s, seq[s]) ELSE UNCHANGED queue
  /\ emitted' = [emitted EXCEPT ![s] = Append(@, seq[s])]
  /\ seq' = [seq EXCEPT ![s] = @ + 1]
  /\ thread' = [thread EXCEPT ![s] = "check"]
  /\ UNCHANGED <<running, worker, batch, count, processed, opened, file,
                 ctlVars, flag, sinkOf>>

(* No frame arrived, or the task was not due. *)
NoRecord(s) ==
  /\ thread[s] = "pass"
  /\ thread' = [thread EXCEPT ![s] = "check"]
  /\ UNCHANGED <<sinkVars, ctlVars, flag, sinkOf, seq, emitted>>

(* start() of the producers in S: the flag is set, the thread spawned, and the
   emit callback bound to the current sink. *)
StartThreads(S) ==
  /\ flag' = [s \in Streams |-> s \in S \/ flag[s]]
  /\ thread' = [s \in Streams |-> IF s \in S THEN "check" ELSE thread[s]]
  /\ sinkOf' = [s \in Streams |-> IF s \in S THEN episode ELSE sinkOf[s]]

(* stop() of the producers in S, up to the join. *)
SignalThreads(S) ==
  /\ flag' = [s \in Streams |-> s \notin S /\ flag[s]]
  /\ UNCHANGED <<thread, sinkOf>>

Joined(S) == \A s \in S : ~flag[s] /\ thread[s] = "none"
-----------------------------------------------------------------------------
(* SessionManager::start_episode. *)

(* The backend opens a file of its own. *)
OpenEpisode ==
  /\ ctl = "idle"
  /\ episode < MaxEpisodes
  /\ ctl' = "open"
  /\ fate' = "none"
  /\ BackendOpen
  /\ emitted' = Empty
  /\ UNCHANGED <<running, worker, queue, batch, count, processed, episode, final,
                 flag, thread, sinkOf, seq>>

StartSink ==
  /\ ctl = "open"
  /\ ctl' = "startPush"
  /\ episode' = episode + 1
  /\ SinkStart
  /\ UNCHANGED <<fate, final, prodVars>>

StartPush(s) ==
  /\ ctl = "startPush"
  /\ s \in PushStreams
  /\ ~flag[s]
  /\ StartThreads({s})
  /\ UNCHANGED <<sinkVars, ctlVars, seq, emitted>>

(* A push producer's start() returned false, a pre-episode callback refused or
   threw, or a staging hook threw: cleanup_and_abort(). *)
AbortStart ==
  /\ ctl = "startPush"
  /\ ctl' = "abort"
  /\ fate' = "aborted"
  /\ UNCHANGED <<sinkVars, episode, final, prodVars>>

(* All push producers run and every pre-episode hook agreed. *)
StartScheduler ==
  /\ ctl = "startPush"
  /\ \A s \in PushStreams : flag[s]
  /\ ctl' = "recording"
  /\ StartThreads(PolledStreams)
  /\ UNCHANGED <<sinkVars, episode, fate, final, seq, emitted>>
-----------------------------------------------------------------------------
(* SessionManager::teardown_episode, and cleanup_and_abort from "abort". *)

Teardown(f) ==
  /\ ctl = "recording"
  /\ f \in {"kept", "discarded"}
  /\ ctl' = "stopPush"
  /\ fate' = f
  /\ UNCHANGED <<sinkVars, episode, final, prodVars>>

(* PushProducer::stop, one producer after another: the flag is cleared once the
   producer before has been joined. *)
StopPush(s) ==
  /\ ctl \in {"stopPush", "abort"}
  /\ s \in PushStreams
  /\ flag[s]
  /\ Joined({q \in PushStreams : ~flag[q]})
  /\ SignalThreads({s})
  /\ UNCHANGED <<sinkVars, ctlVars, seq, emitted>>

(* The last push producer is joined.  An aborted start has no scheduler. *)
PushStopped ==
  /\ ctl \in {"stopPush", "abort"}
  /\ Joined(PushStreams)
  /\ ctl' = IF ctl = "stopPush" THEN "stopSched" ELSE "stopSink"
  /\ UNCHANGED <<sinkVars, episode, fate, final, prodVars>>

(* Scheduler::stop: one flag for both threads, then both are joined. *)
StopScheduler ==
  /\ ctl = "stopSched"
  /\ ctl' = "joinSched"
  /\ SignalThreads(PolledStreams)
  /\ UNCHANGED <<sinkVars, episode, fate, final, seq, emitted>>

SchedulerStopped ==
  /\ ctl = "joinSched"
  /\ Joined(PolledStreams)
  /\ ctl' = "stopSink"
  /\ UNCHANGED <<sinkVars, episode, fate, final, prodVars>>

StopSink ==
  /\ ctl = "stopSink"
  /\ SinkStopSignal
  /\ ctl' = "joinSink"
  /\ UNCHANGED <<episode, fate, final, prodVars>>

SinkStopped ==
  /\ ctl = "joinSink"
  /\ SinkStopJoin
  /\ ctl' = "finish"
  /\ UNCHANGED <<episode, fate, final, prodVars>>

(* The record count is kept for the statistics of a kept episode; the backend
   is closed again (a no-op), its file deleted if the episode is discarded. *)
Finish ==
  /\ ctl = "finish"
  /\ ctl' = "idle"
  /\ final' = IF fate = "kept" THEN processed ELSE final
  /\ opened' = FALSE
  /\ UNCHANGED <<running, worker, queue, batch, count, processed, file,
                 episode, fate, prodVars>>
-----------------------------------------------------------------------------
DrainStep == Drain /\ UNCHANGED <<ctlVars, prodVars>>

StreamStep(s) == LoopTest(s) \/ Emit(s) \/ NoRecord(s)

ControlStep ==
  \/ OpenEpisode \/ StartSink \/ AbortStart \/ StartScheduler
  \/ \E s \in PushStreams : StartPush(s) \/ StopPush(s)
  \/ \E f \in {"kept", "discarded"} : Teardown(f)
  \/ PushStopped \/ StopScheduler \/ SchedulerStopped
  \/ StopSink \/ SinkStopped \/ Finish

(* The control thread's own progress once an episode is being taken down. *)
TeardownStep ==
  \/ \E s \in PushStreams : StopPush(s)
  \/ PushStopped \/ StopScheduler \/ SchedulerStopped
  \/ StopSink \/ SinkStopped \/ Finish

Next == DrainStep \/ ControlStep \/ \E s \in Streams : StreamStep(s)

Spec == Init /\ [][Next]_vars

(* Every thread is scheduled: the drain thread and the producers' loops keep
   running, and teardown does not stop half way. *)
Fairness ==
  /\ WF_vars(DrainStep)
  /\ WF_vars(TeardownStep)
  /\ \A s \in Streams : WF_vars(StreamStep(s))

FairSpec == Spec /\ Fairness
-----------------------------------------------------------------------------
(* Nothing is lost, duplicated or reordered inside the sink: at every instant
   what a stream emitted is what its file has, then what the drain thread
   holds, then what still waits in the queue. *)
Conservation ==
  \A s \in Streams : emitted[s] = file[s] \o batch[s] \o queue[s]

(* When teardown returns, the file of the episode holds all that was emitted,
   whichever thread was in the middle of a pass when it was asked to stop. *)
CompleteWhenIdle == ctl = "idle" => file = emitted

(* Stopping, discarding or aborting an episode always comes back. *)
Stopping == ctl \in {"stopPush", "abort", "stopSched", "joinSched", "stopSink", "joinSink", "finish"}
TeardownTerminates == Stopping ~> (ctl = "idle")

(* Which producer threads may exist, by where the control thread stands: every
   running one emits into the sink of the current episode, and a raised flag
   has a thread that will see it cleared. *)
ThreadsByControl ==
  /\ \A s \in Streams : thread[s] # "none" => sinkOf[s] = episode
  /\ \A s \in Streams : flag[s] => thread[s] # "none"
  /\ ctl \in {"startPush", "abort"} => \A s \in PolledStreams : thread[s] = "none"
  /\ ctl \in {"stopSched", "joinSched"} => \A s \in PushStreams : thread[s] = "none"
  /\ ctl \in {"idle", "open", "stopSink", "joinSink", "finish"} =>
       \A s \in Streams : thread[s] = "none"

(* The drain thread exists exactly from the sink's start to its join, the
   backend is open all that time (so write_batch never drops a batch), and
   outside it the sink holds no record. *)
SinkByControl ==
  /\ worker = "loop" => batch = Empty /\ count = 0
  /\ worker \in {"none", "done"} => batch = Empty /\ queue = Empty
  /\ worker \in {"tail", "done"} => ctl = "joinSink"
  /\ worker = "none" <=> ctl \in {"idle", "open", "finish"}
  /\ running <=> ctl \notin {"idle", "open", "joinSink", "finish"}
  /\ opened <=> ctl \notin {"idle", "finish"}

(* The pipeline is brought up and taken down in an order that leaves no thread
   without the part it needs: with Conservation, this is what makes the file
   complete, and it is the inductive invariant of RecordingProofs. *)
Pipeline == ThreadsByControl /\ SinkByControl

Log == INSTANCE EpisodeLog WITH accepted <- emitted, logged <- file, sealed <- (ctl = "idle")
(* The data path keeps the promise of EpisodeLog. *)
ImplementsLog == Log!Spec
=============================================================================
