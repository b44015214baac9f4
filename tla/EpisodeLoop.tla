------------------------------ MODULE EpisodeLoop ------------------------------
(***************************************************************************)
(* The operator's side of a session: monitor_episode and wait_for_reset,   *)
(* the two waits that answer to keys, to Ctrl+C and to other threads, and  *)
(* the loop of the examples (trossen_mobile_ai.cpp, trossen_solo_ai.cpp,   *)
(* the Python demos) that drives SessionManager with their answers.        *)
(***************************************************************************)
EXTENDS SessionManager

VARIABLES
  rerecord,  \* rerecord_requested_
  signaled,  \* reset_signaled_
  stopReq,   \* g_stop_requested
  redo,      \* history: files the operator asked to record again
  at         \* where the loop stands while main is in client code: top, started, watched,
             \* stopped, waited, closing, done

asked == <<rerecord, signaled, stopReq, redo>>
session == <<frame, flags, books, store, hist>>
loopVars == <<vars, asked, at>>

LoopInit ==
  /\ Init
  /\ rerecord = FALSE /\ signaled = FALSE /\ stopReq = FALSE /\ redo = {}
  /\ at = "top"
-----------------------------------------------------------------------------
(* monitor_episode. *)

CallMonitor ==
  /\ At("main", "client")
  /\ Call("watch")
  /\ rerecord' = FALSE
  /\ UNCHANGED <<session, signaled, stopReq, redo>>

(* while (!are_final_stats_emitted()); Ctrl+C is looked at after the loop. *)
WatchTest ==
  /\ At("main", "watch")
  /\ IF emitted
       THEN Return(IF stopReq THEN "stop" ELSE "continue")
       ELSE Go("main", "poll") /\ UNCHANGED result
  /\ UNCHANGED <<session, asked>>

(* A re-record request or the left arrow: this take is to be recorded again. *)
WatchReRecord ==
  /\ At("main", "poll")
  /\ Return("rerecord")
  /\ rerecord' = TRUE
  /\ redo' = redo \cup {last}
  /\ UNCHANGED <<session, signaled, stopReq>>

(* The right arrow. *)
WatchSkip ==
  /\ At("main", "poll") /\ ~rerecord
  /\ Return("continue")
  /\ UNCHANGED <<session, asked>>

(* Nothing pressed: back to the test, or first the periodic stats(). *)
WatchNoKey ==
  /\ At("main", "poll") /\ ~rerecord
  /\ \E next \in {"update", "watch"} : Go("main", next)
  /\ UNCHANGED <<session, result, asked>>

(* stats() waits for the mutex. *)
WatchUpdate ==
  /\ At("main", "update")
  /\ lock = "free"
  /\ ReadStats
  /\ Go("main", "watch")
  /\ UNCHANGED <<frame, active, monitoring, autoStop, shut, books, store, result, hist, asked>>
-----------------------------------------------------------------------------
(* wait_for_reset. *)

CallWaitReset ==
  /\ At("main", "client")
  /\ Call("reset")
  /\ rerecord' = FALSE
  /\ signaled' = FALSE
  /\ UNCHANGED <<session, stopReq, redo>>

ResetStop ==
  /\ stopReq
  /\ Return("stop")
  /\ UNCHANGED <<rerecord, redo>>

ResetReRecord ==
  /\ Return("rerecord")
  /\ rerecord' = TRUE
  /\ redo' = redo \cup {last}

ResetContinue ==
  /\ ~rerecord
  /\ Return("continue")
  /\ UNCHANGED <<rerecord, redo>>

(* What ends the wait by itself: Ctrl+C, a request, a signal, in this order. *)
ResetNoticed ==
  /\ At("main", "reset")
  /\ \/ ResetStop
     \/ ~stopReq /\ rerecord /\ ResetReRecord
     \/ ~stopReq /\ signaled /\ ResetContinue
  /\ UNCHANGED <<session, signaled, stopReq>>

(* A key, the end of the countdown, or no reset phase at all. *)
ResetByUser ==
  /\ At("main", "reset")
  /\ ~stopReq
  /\ ResetReRecord \/ ResetContinue
  /\ UNCHANGED <<session, signaled, stopReq>>
-----------------------------------------------------------------------------
(* Other threads and the signal handler. *)

RequestReRecord == rerecord' = TRUE /\ UNCHANGED <<vars, signaled, stopReq, redo, at>>

SignalReset == signaled' = TRUE /\ UNCHANGED <<vars, rerecord, stopReq, redo, at>>

CtrlC == stopReq' = TRUE /\ UNCHANGED <<vars, rerecord, signaled, redo, at>>
-----------------------------------------------------------------------------
(* The loop. *)

Shutdown == CallShutdown /\ at' = "closing" /\ UNCHANGED asked

(* while (true): Ctrl+C ends it, otherwise the next episode starts. *)
Top ==
  /\ at = "top"
  /\ IF stopReq THEN Shutdown ELSE CallStart /\ at' = "started" /\ UNCHANGED asked

(* A refused start ends the loop. *)
AfterStart ==
  /\ at = "started"
  /\ IF result = "true" THEN CallMonitor /\ at' = "watched" ELSE Shutdown

(* A take to record again is discarded; one that still runs is stopped; one that
   has auto-stopped needs nothing. *)
AfterMonitor ==
  /\ at = "watched"
  /\ At("main", "client")
  /\ IF result = "rerecord"
       THEN CallDiscard /\ at' = "top"
       ELSE at' = "stopped" /\ (IF active THEN CallStop ELSE UNCHANGED vars)
  /\ UNCHANGED asked

AfterStop ==
  /\ at = "stopped"
  /\ At("main", "client")
  /\ IF stopReq THEN Shutdown ELSE CallWaitReset /\ at' = "waited"

(* Faulty variant: the episode to record again is not deleted. *)
AfterResetKeepingLast ==
  /\ at = "waited"
  /\ At("main", "client")
  /\ \/ result = "stop" /\ Shutdown
     \/ result # "stop" /\ at' = "top" /\ UNCHANGED <<vars, asked>>

AfterReset ==
  /\ at = "waited"
  /\ At("main", "client")
  /\ \/ result = "stop" /\ Shutdown
     \/ result = "rerecord" /\ CallDiscardLast /\ at' = "top" /\ UNCHANGED asked
     \/ result = "continue" /\ at' = "top" /\ UNCHANGED <<vars, asked>>

Done ==
  /\ at = "closing"
  /\ At("main", "client")
  /\ at' = "done"
  /\ UNCHANGED <<vars, asked>>

LoopStep == Top \/ AfterStart \/ AfterMonitor \/ AfterStop \/ AfterReset \/ Done
-----------------------------------------------------------------------------
(* What main does when nobody touches a key. *)
MainStep ==
  \/ LoopStep
  \/ /\ StartStep \/ TeardownStep("main") \/ FinishShutdown \/ DiscardLast
     /\ UNCHANGED <<asked, at>>
  \/ /\ WatchTest \/ (rerecord /\ WatchReRecord) \/ WatchNoKey \/ WatchUpdate \/ ResetNoticed
     /\ UNCHANGED at

Keys == (WatchReRecord \/ WatchSkip \/ ResetByUser) /\ UNCHANGED at

Background == (MonitorStep \/ OtherStats) /\ UNCHANGED <<asked, at>>

LoopNext == MainStep \/ Keys \/ Background \/ RequestReRecord \/ SignalReset \/ CtrlC

LoopSpec == LoopInit /\ [][LoopNext]_loopVars

-----------------------------------------------------------------------------
(* total_episodes_completed_ is the number of this session's completed episodes
   that were not discarded afterwards, whoever ended them. *)
TotalMatchesDisk ==
  lock = "free" => total = Cardinality({k \in disk : k > OldFiles /\ fate[k] = "kept"})

(* are_final_stats_emitted() says that the episode has ended: monitor_episode
   leaves an active one only for a key. *)
FinalStatsMeanEnded == pc["main"] \in {"watch", "poll", "update"} /\ emitted => ~active

(* A take the operator asked to record again is gone before the next one starts. *)
ReRecordHonoured == at = "top" /\ At("main", "client") => redo \cap disk = {}

(* Without max_duration there is no monitor thread to race with: the final
   stats, the re-record key and the episode index can be relied on. *)
ManualSession ==
  ~limited =>
    /\ FinalStatsMeanEnded
    /\ ReRecordHonoured
    /\ at = "top" /\ At("main", "client") /\ last > OldFiles => index = Cardinality(disk)

(* With max_duration Ctrl+C ends the session, at the latest when the episode has run out. *)
LimitedSessionEnds == (limited /\ stopReq) ~> (at = "done")
=============================================================================
