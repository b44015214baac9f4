---------------------------- MODULE SessionManager ----------------------------
(***************************************************************************)
(* runtime/session_manager.cpp as a concurrent object: the orchestrating   *)
(* thread ("main") calls its operations, the duration monitor ("monitor")  *)
(* ends an episode by itself when max_duration has passed, and any number  *)
(* of other threads call stats().  What an episode does to the data path   *)
(* between open and close is one step here; Recording has its detail.      *)
(*                                                                         *)
(* A step is what a thread does between two points where another thread    *)
(* can see or change what it uses.                                         *)
(***************************************************************************)
EXTENDS Naturals, FiniteSets

CONSTANTS
  OldFiles,   \* episodes an earlier session left in the dataset directory
  MaxTakes,   \* bound: episode files this session creates
  MaxCount,   \* cfg_->max_episodes
  Readers,    \* whether other threads call stats()
  Faults      \* whether creating a backend may fail

ASSUME SessionAssumption == OldFiles \in Nat /\ MaxTakes \in Nat /\ MaxCount \in Nat /\ Readers \in BOOLEAN
                            /\ Faults \in BOOLEAN

(* Episode files, numbered in the order of their last write. *)
Files == 1 .. (OldFiles + MaxTakes)
NoFile == 0

Threads == {"main", "monitor"}

VARIABLES
  limited,     \* cfg_->max_duration.has_value()
  pc,          \* where each thread stands
  after,       \* where main goes on when teardown_episode returns
  discard,     \* main's argument to teardown_episode
  lock,        \* episode_mutex_: its holder, or "free"
  active,      \* episode_active_
  emitted,     \* stats_emitted_
  monitoring,  \* monitoring_active_
  autoStop,    \* auto_stop_triggered_
  shut,        \* shutdown_called_
  index,       \* next_episode_index_
  total,       \* total_episodes_completed_
  path,        \* current_episode_path_
  take,        \* the file of current_backend_, with its sink and producers
  last,        \* the number of the newest file
  disk,        \* the episode files in the dataset directory
  result,      \* what the last call returned
  fate,        \* history: what became of each file
  ended,       \* history: per file, how often on_episode_ended was dispatched
  closing      \* per thread, the file its teardown_episode is closing

frame == <<limited, after, discard, lock, closing>>
flags == <<active, emitted, monitoring, autoStop, shut>>
books == <<index, total, path>>
store == <<take, last, disk>>
hist == <<fate, ended>>
vars == <<frame, pc, result, flags, books, store, hist>>

Starting == {"prepare", "open", "path", "bringUp", "stage", "activate",
             "autoReset", "reap", "reapJoin", "spawn", "teleop"}
Closing == {"lock", "stop", "deactivate", "count", "announce", "final", "hooks", "callbacks"}
Labels == Starting \cup Closing \cup {"client", "join", "finish", "watch", "poll", "update",
                                      "reset", "discardLast", "waitAuto"}
Results == {"none", "true", "false", "continue", "rerecord", "stop"}

TypeOK ==
  /\ limited \in BOOLEAN
  /\ pc \in [Threads -> Labels \cup {"none", "test", "sleep", "ended"}]
  /\ after \in {"client", "finish"}
  /\ discard \in BOOLEAN
  /\ lock \in Threads \cup {"free"}
  /\ active \in BOOLEAN /\ emitted \in BOOLEAN /\ monitoring \in BOOLEAN
  /\ autoStop \in BOOLEAN /\ shut \in BOOLEAN
  /\ index \in 0 .. Cardinality(Files) + 1
  /\ total \in 0 .. MaxTakes
  /\ path \in Files \cup {NoFile} /\ take \in Files \cup {NoFile} /\ last \in Files \cup {NoFile}
  /\ disk \subseteq Files
  /\ result \in Results
  /\ fate \in [Files -> {"absent", "open", "kept", "discarded", "aborted"}]
  /\ ended \in [Files \cup {NoFile} -> Nat]
  /\ closing \in [Threads -> Files \cup {NoFile}]

Init ==
  /\ limited \in BOOLEAN
  /\ pc = [t \in Threads |-> IF t = "main" THEN "client" ELSE "none"]
  /\ after = "client" /\ discard = FALSE /\ lock = "free"
  /\ active = FALSE /\ emitted = FALSE /\ monitoring = FALSE
  /\ autoStop = FALSE /\ shut = FALSE
  /\ index = 0 /\ total = 0 /\ path = NoFile
  /\ take = NoFile /\ last = OldFiles /\ disk = 1 .. OldFiles
  /\ result = "none"
  /\ fate = [k \in Files |-> IF k <= OldFiles THEN "kept" ELSE "absent"]
  /\ ended = [k \in Files \cup {NoFile} |-> 0]
  /\ closing = [t \in Threads |-> NoFile]

Go(t, label) == pc' = [pc EXCEPT ![t] = label]
At(t, label) == pc[t] = label

(* main enters an operation, and returns from it to its caller. *)
Call(label) ==
  /\ Go("main", label)
  /\ result' = "none"

Return(r) ==
  /\ Go("main", "client")
  /\ result' = r
-----------------------------------------------------------------------------
(* start_episode, on main. *)

(* Terminal or already active: refused.  Otherwise the final-stats flag of the
   last episode is cleared, with no lock held. *)
CallStart ==
  /\ At("main", "client")
  /\ IF shut \/ active
       THEN Return("false") /\ UNCHANGED emitted
       ELSE Call("prepare") /\ emitted' = FALSE
  /\ UNCHANGED <<frame, active, monitoring, autoStop, shut, books, store, hist>>

(* The backend is created and counts the files of the dataset; at max_episodes
   the session is complete.  Creating the backend may fail.  Count and comparison are one
   step: an auto-stop's increment of the index between them makes the session complete one
   file early, which nothing here depends on. *)
Prepare ==
  /\ At("main", "prepare")
  /\ \/ /\ index' = Cardinality(disk)
        /\ IF index' >= MaxCount
             THEN Return("false")
             ELSE Go("main", "open") /\ UNCHANGED result
     \/ Faults /\ Return("false") /\ UNCHANGED index
  /\ UNCHANGED <<frame, flags, total, path, store, hist>>

OpenFile ==
  /\ At("main", "open")
  /\ last < OldFiles + MaxTakes
  /\ Go("main", "path")
  /\ take' = last + 1 /\ last' = last + 1 /\ disk' = disk \cup {last + 1}
  /\ fate' = [fate EXCEPT ![last + 1] = "open"]
  /\ UNCHANGED <<frame, flags, books, result, ended>>

OpenFails ==
  /\ At("main", "open")
  /\ Return("false")
  /\ UNCHANGED <<frame, flags, books, store, hist>>

(* The path is published under the mutex: the one point where start_episode
   waits for a teardown that still runs on the monitor thread. *)
PublishPath ==
  /\ At("main", "path")
  /\ lock = "free"
  /\ path' = take
  /\ Go("main", "bringUp")
  /\ UNCHANGED <<frame, flags, index, total, store, result, hist>>

(* Sink, observers, push producers, pre-episode callbacks; then teleop paused,
   the staging hooks, prepare_teleop. *)
BringUp(from, to) ==
  /\ At("main", from)
  /\ Go("main", to)
  /\ UNCHANGED <<frame, flags, books, store, result, hist>>

(* Faulty variant: an aborted start that leaves the backend behind. *)
AbortKeepingPipeline ==
  /\ pc["main"] \in {"bringUp", "stage"}
  /\ Return("false")
  /\ fate' = [fate EXCEPT ![take] = "aborted"]
  /\ UNCHANGED <<frame, flags, books, store, ended>>

(* cleanup_and_abort: everything started is stopped, the file stays behind. *)
Abort ==
  /\ pc["main"] \in {"bringUp", "stage"}
  /\ Return("false")
  /\ take' = NoFile
  /\ fate' = [fate EXCEPT ![take] = "aborted"]
  /\ UNCHANGED <<frame, flags, books, last, disk, ended>>

(* The scheduler runs and the episode is active. *)
Activate ==
  /\ At("main", "activate")
  /\ active' = TRUE
  /\ Go("main", "autoReset")
  /\ UNCHANGED <<frame, emitted, monitoring, autoStop, shut, books, store, result, hist>>

ResetAutoStop ==
  /\ At("main", "autoReset")
  /\ autoStop' = FALSE
  /\ Go("main", IF limited THEN "reap" ELSE "teleop")
  /\ UNCHANGED <<frame, active, emitted, monitoring, shut, books, store, result, hist>>

(* Faulty variant: the next monitor starts without the last one's join. *)
ReapWithoutJoin ==
  /\ At("main", "reapJoin")
  /\ Go("main", "spawn")
  /\ UNCHANGED <<frame, flags, books, store, result, hist>>

(* The last episode's monitor thread, if it was never joined, is told to end
   and joined. *)
ReapSignal ==
  /\ At("main", "reap")
  /\ IF At("monitor", "none")
       THEN Go("main", "spawn") /\ UNCHANGED monitoring
       ELSE Go("main", "reapJoin") /\ monitoring' = FALSE
  /\ UNCHANGED <<frame, active, emitted, autoStop, shut, books, store, result, hist>>

ReapJoin ==
  /\ At("main", "reapJoin")
  /\ At("monitor", "ended")
  /\ pc' = [pc EXCEPT !["main"] = "spawn", !["monitor"] = "none"]
  /\ UNCHANGED <<frame, flags, books, store, result, hist>>

SpawnMonitor ==
  /\ At("main", "spawn")
  /\ monitoring' = TRUE
  /\ pc' = [pc EXCEPT !["main"] = "teleop", !["monitor"] = "test"]
  /\ UNCHANGED <<frame, active, emitted, autoStop, shut, books, store, result, hist>>

(* teleop() and the episode-started hooks; start_episode returns true. *)
Started ==
  /\ At("main", "teleop")
  /\ Return("true")
  /\ UNCHANGED <<frame, flags, books, store, hist>>
-----------------------------------------------------------------------------
(* teardown_episode, on main (stop, discard, shutdown) or on the monitor. *)

Discarding(t) == t = "main" /\ discard

(* stop_episode, discard_current_episode, and the first line of shutdown. *)
CallTeardown(d, then) ==
  /\ At("main", "client")
  /\ Call("join")
  /\ monitoring' = FALSE
  /\ discard' = d
  /\ after' = then
  /\ UNCHANGED <<limited, lock, closing, active, emitted, autoStop, shut, books, store, hist>>

CallStop == CallTeardown(FALSE, "client")
CallDiscard == CallTeardown(TRUE, "client")
CallShutdown == CallTeardown(FALSE, "finish")

(* The monitor thread is joined before the mutex is taken; the monitor does not
   join itself. *)
Join(t) ==
  /\ At(t, "join")
  /\ pc["monitor"] \in {"none", "ended"}
  /\ pc' = [pc EXCEPT ![t] = "lock", !["monitor"] = "none"]
  /\ UNCHANGED <<frame, flags, books, store, result, hist>>

(* The locals of main's call live on. *)
Stay == UNCHANGED <<after, discard>>

(* Back to the caller, or the end of the monitor thread. *)
Leave(t) ==
  /\ Go(t, IF t = "main" THEN after ELSE "ended")
  /\ closing' = [closing EXCEPT ![t] = NoFile]
  /\ IF t = "main" THEN discard' = FALSE /\ after' = "client" ELSE Stay


(* Faulty variant: no early return when the episode has ended meanwhile. *)
AcquireUnchecked(t) ==
  /\ At(t, "lock")
  /\ lock = "free"
  /\ Go(t, "stop") /\ lock' = t
  /\ UNCHANGED <<limited, after, discard, closing, flags, books, store, result, hist>>

(* With the mutex: nothing to do if the episode has ended meanwhile. *)
Acquire(t) ==
  /\ At(t, "lock")
  /\ lock = "free"
  /\ IF active
       THEN Go(t, "stop") /\ lock' = t /\ Stay /\ UNCHANGED closing
       ELSE Leave(t) /\ UNCHANGED lock
  /\ UNCHANGED <<limited, flags, books, store, result, hist>>

(* Producers, scheduler and sink stop (Recording); the file is closed, or
   deleted. *)
StopPipeline(t) ==
  /\ At(t, "stop")
  /\ Go(t, "deactivate")
  /\ closing' = [closing EXCEPT ![t] = take]
  /\ take' = NoFile
  /\ fate' = [fate EXCEPT ![take] = IF Discarding(t) THEN "discarded" ELSE "kept"]
  /\ disk' = IF Discarding(t) THEN disk \ {take} ELSE disk
  /\ UNCHANGED <<limited, after, discard, lock, flags, books, last, result, ended>>

(* Faulty variant: a discarded episode is counted like a kept one. *)
DeactivateCountingDiscards(t) ==
  /\ At(t, "deactivate")
  /\ active' = FALSE
  /\ Go(t, "count")
  /\ UNCHANGED <<limited, after, discard, lock, closing, emitted, monitoring, autoStop, shut,
                 books, store, result, hist>>

(* The episode is no longer active: seen at once by is_episode_active(), before
   anything below.  A discard has nothing to report. *)
Deactivate(t) ==
  /\ At(t, "deactivate")
  /\ active' = FALSE
  /\ IF Discarding(t)
       THEN Go(t, "hooks") /\ path' = NoFile /\ emitted' = TRUE /\ lock' = "free"
       ELSE Go(t, "count") /\ UNCHANGED <<path, emitted, lock>>
  /\ UNCHANGED <<limited, after, discard, closing, monitoring, autoStop, shut, index, total,
                 store, result, hist>>

Count(t) ==
  /\ At(t, "count")
  /\ Go(t, "announce")
  /\ total' = total + 1
  /\ index' = index + 1
  /\ UNCHANGED <<frame, flags, path, store, result, hist>>

(* "Episode N complete" is spoken to its end, with the mutex held; then waiters
   learn of an auto-stop. *)
Announce(t) ==
  /\ At(t, "announce")
  /\ Go(t, "final")
  /\ autoStop' = (autoStop \/ t = "monitor")
  /\ UNCHANGED <<frame, active, emitted, monitoring, shut, books, store, result, hist>>

(* stats_unlocked: the first look at an ended episode makes its stats final. *)
ReadStats == emitted' = (emitted \/ ~active)

FinalStats(t) ==
  /\ At(t, "final")
  /\ Go(t, "hooks")
  /\ ReadStats
  /\ lock' = "free"
  /\ UNCHANGED <<limited, after, discard, closing, active, monitoring, autoStop, shut,
                 books, store, result, hist>>

(* Observers', arms' and components' hooks, then the user's callbacks with the
   final stats, which a discarded episode does not get.  No mutex is held. *)
Hooks(t) ==
  /\ At(t, "hooks")
  /\ IF Discarding(t) THEN Leave(t) ELSE Go(t, "callbacks") /\ Stay /\ UNCHANGED closing
  /\ UNCHANGED <<limited, lock, flags, books, store, result, hist>>

Callbacks(t) ==
  /\ At(t, "callbacks")
  /\ Leave(t)
  /\ ended' = [ended EXCEPT ![closing[t]] = @ + 1]
  /\ UNCHANGED <<limited, lock, flags, books, store, result, fate>>

(* The rest of shutdown: terminal, observers and teleop stopped. *)
FinishShutdown ==
  /\ At("main", "finish")
  /\ Go("main", "client")
  /\ shut' = TRUE
  /\ UNCHANGED <<frame, active, emitted, monitoring, autoStop, books, store, result, hist>>
-----------------------------------------------------------------------------
(* monitor_duration, on its own thread. *)

(* while (monitoring_active_ && episode_active_) *)
MonitorTest ==
  /\ At("monitor", "test")
  /\ Go("monitor", IF monitoring /\ active THEN "sleep" ELSE "ended")
  /\ UNCHANGED <<frame, flags, books, store, result, hist>>

MonitorTooSoon ==
  /\ At("monitor", "sleep")
  /\ Go("monitor", "test")
  /\ UNCHANGED <<frame, flags, books, store, result, hist>>

(* Faulty variant: the monitor's own teardown joins the monitor. *)
MonitorTimeoutJoiningItself ==
  /\ At("monitor", "sleep")
  /\ monitoring' = FALSE
  /\ Go("monitor", "join")
  /\ UNCHANGED <<frame, active, emitted, autoStop, shut, books, store, result, hist>>

(* Faulty variant: the monitor ends itself and not the episode. *)
MonitorTimeoutForNothing ==
  /\ At("monitor", "sleep")
  /\ monitoring' = FALSE
  /\ Go("monitor", "test")
  /\ UNCHANGED <<frame, active, emitted, autoStop, shut, books, store, result, hist>>

(* max_duration has passed: stop_episode, here, without a second look at
   monitoring_active_. *)
MonitorTimeout ==
  /\ At("monitor", "sleep")
  /\ monitoring' = FALSE
  /\ Go("monitor", "lock")
  /\ UNCHANGED <<frame, active, emitted, autoStop, shut, books, store, result, hist>>
-----------------------------------------------------------------------------
(* discard_last_episode, on main. *)

CallDiscardLast ==
  /\ At("main", "client")
  /\ Call("discardLast")
  /\ UNCHANGED <<frame, flags, books, store, hist>>

Newest == CHOOSE k \in disk : \A j \in disk : j <= k

(* Under the mutex, unless next_episode_index_ is 0: a fresh backend, which has
   no file of its own, deletes the newest of the directory; creating it may fail. *)
DiscardLast ==
  /\ At("main", "discardLast")
  /\ lock = "free"
  /\ Go("main", "client")
  /\ \/ /\ index # 0
        /\ index' = index - 1
        /\ total' = IF total = 0 THEN 0 ELSE total - 1
        /\ path' = NoFile
        /\ disk' = IF disk = {} THEN disk ELSE disk \ {Newest}
     \/ (index = 0 \/ Faults) /\ UNCHANGED <<books, disk>>
  /\ UNCHANGED <<frame, flags, take, last, result, hist>>
-----------------------------------------------------------------------------
(* wait_for_auto_stop, on main: wakes for an auto-stop or for an episode that is
   not active, and takes the auto-stop flag down. *)
CallWaitAutoStop ==
  /\ At("main", "client")
  /\ Call("waitAuto")
  /\ UNCHANGED <<frame, flags, books, store, hist>>

WaitAutoStopEnds ==
  /\ At("main", "waitAuto")
  /\ autoStop \/ ~active
  /\ Return(IF autoStop THEN "true" ELSE "false")
  /\ autoStop' = FALSE
  /\ UNCHANGED <<frame, active, emitted, monitoring, shut, books, store, hist>>
-----------------------------------------------------------------------------
(* stats() on any other thread. *)

OtherStats ==
  /\ Readers
  /\ lock = "free"
  /\ ReadStats
  /\ UNCHANGED <<frame, pc, active, monitoring, autoStop, shut, books, store, result, hist>>

-----------------------------------------------------------------------------
TeardownStep(t) ==
  \/ Join(t) \/ Acquire(t) \/ StopPipeline(t) \/ Deactivate(t) \/ Count(t)
  \/ Announce(t) \/ FinalStats(t) \/ Hooks(t) \/ Callbacks(t)

StartStep ==
  \/ Prepare \/ OpenFile \/ OpenFails \/ PublishPath
  \/ BringUp("bringUp", "stage") \/ BringUp("stage", "activate") \/ Abort
  \/ Activate \/ ResetAutoStop \/ ReapSignal \/ ReapJoin \/ SpawnMonitor \/ Started

MonitorStep == MonitorTest \/ MonitorTooSoon \/ MonitorTimeout \/ TeardownStep("monitor")

(* main inside an operation, and every other thread. *)
Inside ==
  \/ StartStep \/ TeardownStep("main") \/ FinishShutdown \/ DiscardLast \/ WaitAutoStopEnds
  \/ MonitorStep
  \/ OtherStats

(* Any order of calls from the one orchestrating thread; discard_last_episode
   is for the time between episodes. *)
Calls ==
  \/ CallStart \/ CallStop \/ CallDiscard \/ CallShutdown \/ CallWaitAutoStop
  \/ ~active /\ CallDiscardLast

Next == Inside \/ Calls

Spec == Init /\ [][Next]_vars

(* Every thread is scheduled and no mutex is held for ever; nobody is assumed
   to call, to press a key, or to let an episode run into max_duration. *)
Fairness ==
  /\ WF_vars(StartStep)
  /\ WF_vars(TeardownStep("main"))
  /\ WF_vars(FinishShutdown)
  /\ WF_vars(DiscardLast)
  /\ WF_vars(MonitorStep)

FairSpec == Spec /\ Fairness
-----------------------------------------------------------------------------
(* A pipeline is up exactly for an active episode, except while start_episode
   brings it up and while teardown_episode, under the mutex, takes it down: an
   aborted or raced call never leaves a sink, a backend or producers behind. *)
NoOrphanPipeline ==
  /\ active /\ lock = "free" => take # NoFile
  /\ take # NoFile /\ ~active => pc["main"] \in {"path", "bringUp", "stage", "activate"}

(* However main's stop, discard or shutdown and the monitor's auto-stop meet,
   each kept episode gets its ended callbacks exactly once and a discarded or
   aborted one never does. *)
EndedOnce ==
  /\ \A k \in Files : ended[k] <= 1 /\ (ended[k] = 1 => fate[k] = "kept")
  /\ ended[NoFile] = 0
  /\ At("main", "client") /\ pc["monitor"] \in {"none", "ended"} =>
       \A k \in Files : k > OldFiles /\ fate[k] = "kept" => ended[k] = 1

(* The path stats() reports is that of a file that exists. *)
PathExists == lock = "free" /\ path # NoFile => path \in disk

(* The monitor's std::thread is free when the next monitor is assigned to it:
   assigning over a joinable one ends the program. *)
MonitorThreadFree == At("main", "spawn") => At("monitor", "none")

(* start_episode, stop_episode, discard_*_episode and shutdown always return,
   with the monitor thread wherever it may be. *)
Inner == Starting \cup Closing \cup {"join", "finish", "discardLast"}
CallsReturn == (pc["main"] \in Inner) ~> At("main", "client")

(* discard_last_episode deletes the episode this session completed last. *)
LastCompleted == {k \in disk : /\ k > OldFiles /\ fate[k] = "kept"
                               /\ \A j \in disk : fate[j] = "kept" => j <= k}
DiscardsLastCompleted ==
  [][At("main", "discardLast") /\ disk' # disk => disk \ disk' = LastCompleted]_vars
=============================================================================
