------------------------------- MODULE UseProofs -------------------------------
(***************************************************************************)
(* The two programs that use a session, the operator loop and the one with *)
(* async monitoring, for any number of files, takes and episodes allowed.  *)
(*                                                                         *)
(* Both are the session's own steps and some beside them (Aside), so the   *)
(* session's invariant is theirs.  To it each adds where it stands: which  *)
(* episode the loop is about, and how far the destructor has come.         *)
(* (Of what SessionProofs extends, Teleop has no part in this.)            *)
(***************************************************************************)
EXTENDS AsyncMonitor, SessionProofs

(***************************************************************************)
(* Where everybody stands.                                                 *)
(***************************************************************************)
AsyncCalls == {"no", "startSignal", "startJoin", "getJoin", "assign", "terminated", "monitorJoin",
          "asyncJoin", "shutdown", "dying", "destroyed"}
Ending == Closing \cup {"join"}

(* Where main may stand, by the loop's own place; with no loop, anywhere but in its waits. *)
LoopStanding ==
  /\ at = "top" => pc["main"] \in {"client", "discardLast"} \cup Ending
  /\ at = "started" => pc["main"] \in {"client"} \cup Starting
  /\ at = "watched" => pc["main"] \in {"client", "watch", "poll", "update"}
  /\ at = "stopped" => pc["main"] \in {"client"} \cup Ending
  /\ at = "waited" => pc["main"] \in {"client", "reset"}
  /\ at = "closing" => pc["main"] \in {"client", "finish"} \cup Ending
  /\ at = "done" => pc["main"] \notin {"discardLast", "watch", "poll", "update", "reset"}

Programs ==
  /\ program \in {"loop", "threads"} /\ call \in AsyncCalls
  /\ at \in {"top", "started", "watched", "stopped", "waited", "closing", "done"}
  /\ program = "threads" => at = "done"
  /\ program = "loop" => call = "no"
  /\ LoopStanding
  /\ pc["main"] \notin Ending => ~discard /\ after = "client"
  /\ at \in {"top", "stopped"} => after = "client"
  /\ at = "stopped" => ~discard

(* The destructor: main is in client code but for the shutdown it ends with. *)
Destructor ==
  /\ call \notin {"no", "dying"} => At("main", "client")
  /\ call \in {"shutdown", "dying", "destroyed"} => async = "none"
  /\ call = "dying" =>
       \/ pc["main"] \in Ending /\ after = "finish"
       \/ pc["main"] = "finish"
       \/ At("main", "client") /\ shut
  /\ call = "destroyed" => shut

(* The episode the loop is about: still open, or ended and kept. *)
Taken ==
  /\ last > OldFiles /\ last \in disk
  /\ take = last \/ fate[last] = "kept"

Begun == at = "started" /\ (pc["main"] \in Starting \ {"prepare", "open"} \/ (At("main", "client") /\ result = "true"))

Rounds ==
  /\ Begun \/ at \in {"watched", "stopped", "waited"} \/ At("main", "discardLast") => Taken
  /\ at = "waited" \/ (at = "stopped" /\ At("main", "client")) => ~active

(* An episode is counted while its teardown holds the mutex. *)
Kept == {k \in disk : k > OldFiles /\ fate[k] = "kept"}
Uncounting(t) == IF pc[t] \in Uncounted /\ ~Discarding(t) THEN 1 ELSE 0
Tally == total + Uncounting("main") + Uncounting("monitor") = Cardinality(Kept)

UInv == Inv /\ Terminal /\ Programs /\ Destructor /\ Rounds /\ Tally

(***************************************************************************)
(* Without max_duration.                                                   *)
(***************************************************************************)
Unwatched == At("monitor", "none") /\ pc["main"] \notin {"reap", "reapJoin", "spawn"}

(* The episode main watches is active and its stats are not final. *)
Live == /\ active /\ take = last
        /\ ~emitted
Watching ==
  /\ (at = "started" /\ pc["main"] \in {"autoReset", "teleop"}) => Live
  /\ (at = "started" /\ At("main", "client") /\ result = "true") => Live
  /\ at = "watched" => Live
  /\ at = "started" /\ pc["main"] \in Starting => ~emitted
  /\ at = "started" /\ pc["main"] \in Bringing => take = last
  /\ at = "top" /\ pc["main"] \in {"client", "discardLast"} => ~active

(* A take to record again is on disk only until main has carried the request out. *)
Requested ==
  \/ at \in {"watched", "waited"} /\ At("main", "client") /\ result = "rerecord"
  \/ at = "top" /\ pc["main"] \in {"join", "lock", "stop", "discardLast"}
Redone ==
  /\ redo \subseteq 1 .. last
  /\ at \notin {"closing", "done"} => redo \cap disk \subseteq {last}
  /\ at \notin {"closing", "done"} /\ ~Requested => redo \cap disk = {}
  /\ at = "top" /\ pc["main"] \in Ending => discard
  /\ at = "top" /\ pc["main"] \in {"join", "lock", "stop"} => active /\ take = last

(* next_episode_index_ is the number of files but for the one that is being recorded. *)
Pending == (IF take # NoFile THEN 1 ELSE 0) + Uncounting("main")
Indexed ==
  \/ at = "top" /\ last > OldFiles
  \/ at = "started" /\ pc["main"] \in Starting \ {"prepare"}
  \/ Begun
  \/ at \in {"watched", "stopped", "waited"}
  => index + Pending = Cardinality(disk)

ManualInv == ~limited => Unwatched /\ Watching /\ Redone /\ Indexed

LEMMA UseStarts == AsyncInit => UInv
<1> SUFFICES ASSUME AsyncInit PROVE UInv
  OBVIOUS
<1>1. Inv
  BY Initially DEF AsyncInit
<1>2. Terminal
  BY DEF AsyncInit, Init, Terminal, Alone, Quiet, Waits, Threads
<1>3. Programs /\ Destructor
  BY DEF AsyncInit, Init, Programs, AsyncCalls, LoopStanding, Destructor, Ending, Closing, At, Threads
<1>4. Rounds
  BY DEF AsyncInit, Init, Rounds, Begun, At, Threads
<1>5. Tally
  <2>1. Kept = {}
    BY SessionAssumption DEF AsyncInit, Init, Kept
  <2>2. Uncounting("main") = 0 /\ Uncounting("monitor") = 0 /\ total = 0
    BY DEF AsyncInit, Init, Uncounting, Uncounted, Threads
  <2>. QED
    BY <2>1, <2>2, FS_EmptySet DEF Tally
<1>. QED
  BY <1>1, <1>2, <1>3, <1>4, <1>5 DEF UInv

(***************************************************************************)
(* The steps, sorted: those of the session itself, with nothing beside     *)
(* them; the loop's moves, its waits, and the requests to it; the calls,   *)
(* and the rest, of the other program.                                     *)
(***************************************************************************)
SessionStep ==
  /\ StartStep \/ OtherStep \/ \E t \in Threads : TeardownStep(t)
  /\ UNCHANGED <<asked, at, program, call, async>>

LoopMove == LoopStep /\ UNCHANGED <<program, call, async>>

LoopWait ==
  /\ WatchTest \/ WatchReRecord \/ WatchSkip \/ WatchNoKey \/ WatchUpdate \/ ResetNoticed \/ ResetByUser
  /\ UNCHANGED <<at, program, call, async>>

ProgramCall ==
  /\ program = "threads" /\ call = "no"
  /\ CallStart \/ CallStop \/ CallDiscard \/ CallShutdown
  /\ UNCHANGED <<asked, at, program, call, async>>

AsyncMove ==
  /\ Ask \/ AsyncMain \/ AsyncStep \/ WaiterStep
  /\ UNCHANGED <<redo, at, program>>

Nothing == UNCHANGED <<vars, redo, at, program, call, async>>

LEMMA UseParts ==
  ASSUME [UseNext]_useVars
  PROVE  \/ SessionStep
         \/ program = "loop" /\ (LoopMove \/ LoopWait)
         \/ program = "threads" /\ (ProgramCall \/ AsyncMove)
         \/ Nothing
<1>1. CASE InLoop(LoopNext)
  <2>. USE <1>1 DEF InLoop, threadsOnly
  <2>1. CASE MainStep
    BY <2>1 DEF MainStep, SessionStep, LoopMove, LoopWait, OtherStep, Threads
  <2>2. CASE Keys \/ Background
    BY <2>2 DEF Keys, Background, LoopWait, SessionStep, MonitorStep, OtherStep, Threads
  <2>3. CASE RequestReRecord \/ SignalReset \/ CtrlC
    BY <2>3 DEF RequestReRecord, SignalReset, CtrlC, Nothing
  <2>. QED
    BY <2>1, <2>2, <2>3 DEF LoopNext
<1>2. CASE InThreads(AsyncNext)
  <2>. USE <1>2 DEF InThreads, loopOnly, asyncVars, asked
  <2>1. CASE Session(Inside)
    BY <2>1 DEF Session, Inside, SessionStep, MonitorStep, OtherStep, Threads
  <2>2. CASE Session(Idle /\ Record)
    BY <2>2 DEF Session, Idle, Record, ProgramCall
  <2>3. CASE Ask \/ AsyncMain \/ AsyncStep \/ WaiterStep
    BY <2>3 DEF AsyncMove
  <2>4. CASE AsyncCtrlC \/ WaiterCalls \/ WaiterSpurious
    BY <2>4 DEF AsyncCtrlC, WaiterCalls, WaiterSpurious, Nothing
  <2>. QED
    BY <2>1, <2>2, <2>3, <2>4 DEF AsyncNext
<1>3. CASE UNCHANGED useVars
  BY <1>3 DEF useVars, loopVars, threadsOnly, asked, Nothing
<1>. QED
  BY <1>1, <1>2, <1>3 DEF UseNext

(* What the async thread, the waiter and the destructor do beside the session; they move
   main only by the destructor's shutdown. *)
Held == <<frame, active, shut, books, store, hist, result, pc["main"]>>

LEMMA Resting == ASSUME UNCHANGED vars PROVE UNCHANGED Held
BY DEF vars, frame, flags, Held

LEMMA AsyncIsAside ==
  ASSUME UInv, AsyncMove
  PROVE  (Calls \/ Aside \/ UNCHANGED vars) /\ (DestroyShutdown \/ UNCHANGED Held)
<1>. USE DEF AsyncMove
<1>1. CASE Ask
  <2>1. CASE Destroy
    <3>1. monitoring' \in BOOLEAN /\ UNCHANGED <<emitted, autoStop>>
      BY <2>1, Zenon DEF Destroy
    <3>2. emitted' \in BOOLEAN /\ autoStop' \in BOOLEAN
      BY <3>1, Zenon DEF UInv, Inv, Flags
    <3>. QED
      BY <2>1, <3>1, <3>2 DEF Destroy, Aside, UInv, Inv, Standing, Held
  <2>2. CASE StartAsync \/ GetStats
    BY <2>2, Resting DEF StartAsync, GetStats, Enter
  <2>. QED
    BY <1>1, <2>1, <2>2 DEF Ask
<1>2. CASE AsyncMain
  <2>1. CASE JoinMonitor
    <3>1. UNCHANGED flags
      BY <2>1 DEF JoinMonitor
    <3>2. monitoring' \in BOOLEAN /\ emitted' \in BOOLEAN /\ autoStop' \in BOOLEAN
      BY <3>1, Zenon DEF UInv, Inv, Flags, flags
    <3>3. At("main", "client")
      BY <2>1 DEF JoinMonitor, UInv, Destructor
    <3>. QED
      BY <2>1, <3>1, <3>2, <3>3 DEF JoinMonitor, Aside, UInv, Inv, Standing, flags, Go, Threads, Held
  <2>2. CASE SignalOld \/ JoinAsync \/ AssignAsync \/ Destroyed
    BY <2>2, Resting DEF SignalOld, JoinAsync, AssignAsync, Destroyed, Enter
  <2>3. CASE DestroyShutdown
    BY <2>3 DEF DestroyShutdown, Calls
  <2>. QED
    BY <1>2, <2>1, <2>2, <2>3 DEF AsyncMain
<1>3. CASE AsyncStep
  <2>1. UNCHANGED <<frame, pc, result, active, monitoring, autoStop, shut, books, store, hist>>
    BY <1>3 DEF AsyncStep, AsyncTest, AsyncPoll, AsyncUpdate, AsyncWait, AsyncStore, AsyncClear, AsyncGoes
  <2>2. emitted' \in BOOLEAN /\ monitoring' \in BOOLEAN /\ autoStop' \in BOOLEAN
    <3>1. emitted' = emitted \/ ReadStats
      BY <1>3 DEF AsyncStep, AsyncTest, AsyncPoll, AsyncUpdate, AsyncWait, AsyncStore, AsyncClear
    <3>2. emitted \in BOOLEAN /\ monitoring \in BOOLEAN /\ autoStop \in BOOLEAN
      BY Zenon DEF UInv, Inv, Flags
    <3>3. emitted' \in BOOLEAN
      BY <3>1, <3>2, Zenon DEF ReadStats
    <3>. QED
      BY <2>1, <3>2, <3>3
  <2>. QED
    BY <2>1, <2>2 DEF Aside, UInv, Inv, Standing, Held
<1>4. CASE WaiterStep
  <2>1. UNCHANGED <<frame, pc, result, active, emitted, monitoring, shut, books, store, hist>>
    BY <1>4 DEF WaiterStep, WaiterTests, WaiterSleeps, vars, flags
  <2>2. autoStop' \in BOOLEAN /\ emitted \in BOOLEAN /\ monitoring \in BOOLEAN
    <3>1. autoStop' = autoStop \/ autoStop' = FALSE
      BY <1>4 DEF WaiterStep, WaiterTests, WaiterSleeps, vars, flags
    <3>2. autoStop \in BOOLEAN /\ emitted \in BOOLEAN /\ monitoring \in BOOLEAN
      BY Zenon DEF UInv, Inv, Flags
    <3>. QED
      BY <3>1, <3>2, Zenon
  <2>. QED
    BY <2>1, <2>2 DEF Aside, UInv, Inv, Standing, Held
<1>. QED
  BY <1>1, <1>2, <1>3, <1>4

(* What the loop's waits do beside the session. *)
LEMMA WaitIsAside == ASSUME UInv, LoopWait PROVE Aside
<1>1. /\ UNCHANGED <<frame, active, monitoring, autoStop, shut, books, store, hist>>
      /\ emitted' = emitted \/ ReadStats
  BY DEF LoopWait, WatchTest, WatchReRecord, WatchSkip, WatchNoKey, WatchUpdate, ResetNoticed, ResetByUser,
     session, flags
<1>2. emitted' \in BOOLEAN /\ monitoring' \in BOOLEAN /\ autoStop' \in BOOLEAN
  <2>1. emitted \in BOOLEAN /\ monitoring \in BOOLEAN /\ autoStop \in BOOLEAN
    BY Zenon DEF UInv, Inv, Flags
  <2>2. emitted' \in BOOLEAN
    BY <1>1, <2>1, Zenon DEF ReadStats
  <2>. QED
    BY <1>1, <2>1, <2>2
<1>3. result' \in Results
  BY DEF UInv, Inv, Standing, LoopWait, WatchTest, WatchReRecord, WatchSkip, WatchNoKey, WatchUpdate, ResetNoticed,
     ResetByUser, ResetStop, ResetReRecord, ResetContinue, Return, Results
<1>4. pc["main"] \in Waits /\ \E w \in Waits : Go("main", w)
  BY DEF LoopWait, WatchTest, WatchReRecord, WatchSkip, WatchNoKey, WatchUpdate, ResetNoticed,
     ResetByUser, ResetStop, ResetReRecord, ResetContinue, Return, Go, At, Waits
<1>. QED
  BY <1>1, <1>2, <1>3, <1>4 DEF Aside

LEMMA UseIsSession == ASSUME UInv, [UseNext]_useVars PROVE [Next \/ Aside]_vars
<1>1. CASE SessionStep
  BY <1>1 DEF SessionStep, OtherStep, Next, Inside, MonitorStep, Threads
<1>2. CASE LoopMove
  <2>1. CASE CallStart \/ CallStop \/ CallDiscard \/ CallShutdown
    BY <2>1 DEF Next, Calls
  <2>2. CASE CallMonitor \/ CallWaitReset
    <3>1. /\ UNCHANGED <<frame, flags, books, store, hist>> /\ result' = "none"
          /\ At("main", "client") /\ \E w \in Waits : Go("main", w)
      BY <2>2 DEF CallMonitor, CallWaitReset, Call, session, Waits
    <3>2. emitted' \in BOOLEAN /\ monitoring' \in BOOLEAN /\ autoStop' \in BOOLEAN
      BY <3>1, Zenon DEF UInv, Inv, Flags, flags
    <3>. QED
      BY <3>1, <3>2 DEF Aside, flags, Results, Waits, At
  <2>3. CASE at = "waited" /\ CallDiscardLast
    BY <2>3 DEF UInv, Rounds, Next, Calls
  <2>4. CASE UNCHANGED vars
    BY <2>4
  <2>. QED
    BY <1>2, <2>1, <2>2, <2>3, <2>4 DEF LoopMove, LoopStep, Top, AfterStart, AfterMonitor, AfterStop, AfterReset,
       Done, Shutdown
<1>3. CASE LoopWait
  BY <1>3, WaitIsAside
<1>4. CASE ProgramCall
  BY <1>4 DEF ProgramCall, Next, Calls
<1>5. CASE AsyncMove
  BY <1>5, AsyncIsAside DEF Next
<1>6. CASE Nothing
  BY <1>6 DEF Nothing
<1>. QED
  BY <1>1, <1>2, <1>3, <1>4, <1>5, <1>6, UseParts

(* A teardown on the monitor thread leaves main and its call alone. *)
LEMMA MonitorLeavesMain ==
  ASSUME Inv, TeardownStep("monitor")
  PROVE  pc'["main"] = pc["main"] /\ UNCHANGED <<after, discard, shut, result, last>>
<1>. USE DEF Inv, Standing, MonitorPlaces, Locked, frame, flags, store, Go, At, Leave, Stay, Threads
<1>1. ~Join("monitor")
  BY DEF Join
<1>2. CASE Acquire("monitor") \/ StopPipeline("monitor") \/ Deactivate("monitor") \/ Count("monitor")
  BY <1>2 DEF Acquire, StopPipeline, Deactivate, Count, Discarding
<1>3. CASE Announce("monitor") \/ FinalStats("monitor") \/ Hooks("monitor") \/ Callbacks("monitor")
  BY <1>3 DEF Announce, FinalStats, Hooks, Callbacks, Discarding
<1>. QED
  BY <1>1, <1>2, <1>3 DEF TeardownStep

(* On main it goes on to its end, and then to where the call was made for. *)
LEMMA MainTearsDown ==
  ASSUME Inv, Terminal, TeardownStep("main")
  PROVE  /\ pc["main"] \in Ending /\ UNCHANGED <<shut, result, last>>
         /\ \/ pc'["main"] \in Ending /\ UNCHANGED <<after, discard>>
            \/ pc'["main"] = after /\ after' = "client" /\ discard' = FALSE /\ ~active'
<1>. USE DEF Inv, Standing, Terminal, Ending, Closing, frame, flags, store, Go, At, Leave, Stay, Threads
<1>1. CASE Join("main") \/ Acquire("main") \/ StopPipeline("main") \/ Deactivate("main") \/ Count("main")
  BY <1>1 DEF Join, Acquire, StopPipeline, Deactivate, Count
<1>2. CASE Announce("main") \/ FinalStats("main") \/ Hooks("main") \/ Callbacks("main")
  BY <1>2 DEF Announce, FinalStats, Hooks, Callbacks
<1>. QED
  BY <1>1, <1>2 DEF TeardownStep

(* The steps inside the session, whoever drives it. *)
LEMMA ProgramsInside == ASSUME UInv, SessionStep PROVE Programs'
<1>. USE DEF UInv, Inv, Standing, Programs, LoopStanding, SessionStep, Ending, Closing, Starting, frame, Go, At, Call,
     Return, Leave, Stay, Threads
<1>1. CASE StartStep
  BY <1>1 DEF StartStep, Prepare, OpenFile, OpenFails, PublishPath, BringUp, Abort, Activate,
     ResetAutoStop, ReapSignal, ReapJoin, SpawnMonitor, Started
<1>2. CASE OtherStep
  BY <1>2 DEF OtherStep, MonitorTest, MonitorTooSoon, MonitorTimeout, FinishShutdown, DiscardLast,
     WaitAutoStopEnds, OtherStats
<1>3. CASE TeardownStep("monitor")
  BY <1>3, MonitorLeavesMain
<1>4. CASE TeardownStep("main")
  <2>1. pc["main"] \in Ending
    BY <1>4, MainTearsDown
  <2>2. CASE pc'["main"] \in Ending /\ UNCHANGED <<after, discard>>
    BY <1>4, <2>1, <2>2
  <2>3. CASE pc'["main"] = after /\ after' = "client" /\ discard' = FALSE
    BY <1>4, <2>1, <2>3
  <2>. QED
    BY <1>4, <2>2, <2>3, MainTearsDown
<1>. QED
  BY <1>1, <1>2, <1>3, <1>4

LEMMA ProgramsStep == ASSUME UInv, [UseNext]_useVars PROVE Programs'
<1>. USE DEF UInv, Inv, Standing, Programs, LoopStanding, AsyncCalls, Ending, Closing, Starting, frame, Go, At, Call,
     Return, Threads
<1>1. CASE SessionStep
  BY <1>1, ProgramsInside
<1>2. CASE program = "loop" /\ LoopMove
  BY <1>2 DEF LoopMove, LoopStep, Top, AfterStart, AfterMonitor, AfterStop, AfterReset, Done, Shutdown, CallStart,
     CallStop, CallDiscard, CallShutdown, CallTeardown, CallMonitor, CallWaitReset, CallDiscardLast, session, vars
<1>3. CASE program = "loop" /\ LoopWait
  BY <1>3 DEF LoopWait, WatchTest, WatchReRecord, WatchSkip, WatchNoKey, WatchUpdate, ResetNoticed, ResetByUser,
     ResetStop, ResetReRecord, ResetContinue, session
<1>4. CASE program = "threads" /\ ProgramCall
  BY <1>4 DEF ProgramCall, CallStart, CallStop, CallDiscard, CallShutdown, CallTeardown
<1>5. CASE program = "threads" /\ AsyncMove
  <2>1. UNCHANGED <<at, program>> /\ call' \in AsyncCalls
    BY <1>5 DEF AsyncMove, Ask, StartAsync, GetStats, Destroy, Enter, AsyncMain, SignalOld, JoinAsync, AssignAsync,
       JoinMonitor, DestroyShutdown, Destroyed, Joining, AsyncStep, AsyncTest, AsyncPoll, AsyncUpdate, AsyncWait,
       AsyncStore, AsyncClear, AsyncGoes, WaiterStep, WaiterTests, WaiterSleeps
  <2>2. CASE DestroyShutdown
    BY <1>5, <2>1, <2>2 DEF DestroyShutdown, CallShutdown, CallTeardown
  <2>3. CASE UNCHANGED Held
    BY <1>5, <2>1, <2>3 DEF Held
  <2>. QED
    BY <1>5, <2>2, <2>3, AsyncIsAside
<1>6. CASE Nothing
  BY <1>6 DEF Nothing, vars
<1>. QED
  BY <1>1, <1>2, <1>3, <1>4, <1>5, <1>6, UseParts

LEMMA DestructorStep == ASSUME UInv, [UseNext]_useVars PROVE Destructor'
<1>. USE DEF UInv, Inv, Standing, Programs, Destructor, Ending, Closing, Go, At, Call, Return, Threads
<1>1. CASE SessionStep
  <2>. USE DEF SessionStep, Leave, Stay, frame, flags
  <2>1. CASE StartStep
    BY <1>1, <2>1 DEF StartStep, Prepare, OpenFile, OpenFails, PublishPath, BringUp, Abort, Activate,
       ResetAutoStop, ReapSignal, ReapJoin, SpawnMonitor, Started
  <2>2. CASE OtherStep
    BY <1>1, <2>2 DEF OtherStep, MonitorTest, MonitorTooSoon, MonitorTimeout, FinishShutdown, DiscardLast,
       WaitAutoStopEnds, OtherStats
  <2>3. ASSUME NEW t \in Threads, TeardownStep(t) PROVE Destructor'
    BY <1>1, <2>3, MonitorLeavesMain, MainTearsDown
  <2>. QED
    BY <1>1, <2>1, <2>2, <2>3
<1>2. CASE program = "loop" /\ (LoopMove \/ LoopWait)
  BY <1>2 DEF LoopMove, LoopWait
<1>3. CASE program = "threads" /\ ProgramCall
  BY <1>3 DEF ProgramCall
<1>4. CASE program = "threads" /\ AsyncMove
  <2>1. CASE Ask
    BY <2>1 DEF Ask, StartAsync, GetStats, Destroy, Idle, Enter, vars
  <2>2. CASE AsyncMain
    BY <2>2 DEF AsyncMain, SignalOld, JoinAsync, AssignAsync, JoinMonitor, DestroyShutdown, Destroyed, Joining, Enter,
       CallShutdown, CallTeardown, vars, flags, asyncVars, frame
  <2>3. CASE AsyncStep
    BY <2>3 DEF AsyncStep, AsyncTest, AsyncPoll, AsyncUpdate, AsyncWait, AsyncStore, AsyncClear, AsyncGoes, frame
  <2>4. CASE WaiterStep
    BY <2>4 DEF WaiterStep, WaiterTests, WaiterSleeps, vars, frame, flags, asyncVars
  <2>. QED
    BY <1>4, <2>1, <2>2, <2>3, <2>4 DEF AsyncMove
<1>5. CASE Nothing
  BY <1>5 DEF Nothing, vars, frame, flags
<1>. QED
  BY <1>1, <1>2, <1>3, <1>4, <1>5, UseParts

(* The loop is about an episode from its opening to its reset. *)
LEMMA RoundsInside == ASSUME UInv, SessionStep PROVE Rounds'
<1>. USE DEF UInv, Inv, Standing, Rounds, Begun, Taken, SessionStep, frame, store, hist, Go, At, Threads
<1>1. CASE StartStep
  <2>. USE DEF Programs, LoopStanding, Ending, Closing, Starting, Return
  <2>1. CASE OpenFile
    BY <1>1, <2>1, SessionAssumption DEF OpenFile, Store
  <2>2. CASE Abort
    BY <1>1, <2>2 DEF Abort
  <2>3. CASE Prepare \/ OpenFails \/ PublishPath \/ Started
    BY <1>1, <2>3 DEF Prepare, OpenFails, PublishPath, Started
  <2>4. CASE BringUp("bringUp", "stage") \/ BringUp("stage", "activate") \/ Activate \/ ResetAutoStop
    BY <1>1, <2>4 DEF BringUp, Activate, ResetAutoStop
  <2>5. CASE ReapSignal \/ ReapJoin \/ SpawnMonitor
    BY <1>1, <2>5 DEF ReapSignal, ReapJoin, SpawnMonitor
  <2>. QED
    BY <1>1, <2>1, <2>2, <2>3, <2>4, <2>5 DEF StartStep
<1>2. CASE OtherStep
  <2>1. CASE DiscardLast \/ FinishShutdown \/ WaitAutoStopEnds
    BY <1>2, <2>1 DEF Programs, LoopStanding, Starting, Ending, Closing, Return, FinishShutdown, DiscardLast,
       WaitAutoStopEnds
  <2>2. CASE MonitorTest \/ MonitorTooSoon \/ MonitorTimeout \/ OtherStats
    <3>1. UNCHANGED <<last, disk, take, fate, result, active, pc["main"]>>
      BY <2>2 DEF MonitorTest, MonitorTooSoon, MonitorTimeout, OtherStats, flags
    <3>. QED
      BY <1>2, <3>1
  <2>. QED
    BY <1>2, <2>1, <2>2 DEF OtherStep
<1>3. ASSUME NEW t \in Threads, TeardownStep(t) PROVE Rounds'
  <2>1. /\ UNCHANGED <<last, result>> /\ (~active => ~active')
        /\ UNCHANGED disk \/ (t = "main" /\ discard)
        /\ \/ UNCHANGED <<take, fate>>
           \/ At(t, "stop") /\ take' = NoFile /\ fate' = [fate EXCEPT ![take] = IF Discarding(t) THEN "discarded" ELSE "kept"]
    BY <1>3 DEF TeardownStep, Join, Acquire, StopPipeline, Deactivate, Count, Announce, FinalStats, Hooks, Callbacks,
       flags, Discarding
  <2>2. At(t, "stop") => take # NoFile /\ take \in Files /\ fate[take] = "open"
    BY SessionAssumption DEF Pipeline, Store, Files, NoFile
  <2>3. CASE t = "monitor"
    <3>1. UNCHANGED disk /\ pc'["main"] = pc["main"]
      BY <1>3, <2>1, <2>3, MonitorLeavesMain
    <3>2. Taken => Taken'
      BY <2>1, <2>2, <2>3, <3>1, SessionAssumption DEF Store, Files, Discarding
    <3>. HIDE DEF Taken, Inv, Standing, frame, store, hist
    <3>. QED
      BY <1>3, <2>1, <3>1, <3>2 DEF Starting
  <2>4. CASE t = "main"
    <3>1. /\ pc["main"] \in Ending
          /\ \/ pc'["main"] \in Ending
             \/ pc'["main"] = after /\ ~active'
      BY <1>3, <2>4, MainTearsDown
    <3>2. at = "stopped" => (Taken => Taken')
      BY <2>1, <2>2, <2>4, <3>1, SessionAssumption DEF Programs, Store, Files, Discarding
    <3>. QED
      BY <2>1, <3>1, <3>2 DEF Programs, LoopStanding, Ending, Closing, Starting
  <2>. QED
    BY <2>3, <2>4
<1>. QED
  BY <1>1, <1>2, <1>3

LEMMA RoundsStep == ASSUME UInv, [UseNext]_useVars PROVE Rounds'
<1>. USE DEF UInv, Rounds, Begun, Taken, At
<1>1. CASE SessionStep
  BY <1>1, RoundsInside
<1>2. CASE program = "loop" /\ LoopMove
  BY <1>2 DEF LoopMove, LoopStep, Top, AfterStart, AfterMonitor, AfterStop, AfterReset, Done, Shutdown, CallStart,
     CallStop, CallDiscard, CallShutdown, CallTeardown, CallMonitor, CallWaitReset, CallDiscardLast, session, vars,
     store, hist, flags, Go, Call, Return, Starting, Inv, Standing, Threads
<1>3. CASE program = "loop" /\ LoopWait
  <2>1. Aside /\ UNCHANGED at /\ at \in {"watched", "waited", "done"}
    BY <1>3, WaitIsAside DEF LoopWait, WatchTest, WatchReRecord, WatchSkip, WatchNoKey, WatchUpdate, ResetNoticed,
       ResetByUser, Programs, LoopStanding, Starting, Ending, Closing
  <2>2. ~At("main", "discardLast")'
    BY <2>1 DEF Aside, Waits, Go, Inv, Standing, Threads, Programs, LoopStanding, Ending, Closing
  <2>. QED
    BY <2>1, <2>2 DEF Aside, store, hist
<1>4. CASE program = "threads" /\ (ProgramCall \/ AsyncMove)
  <2>1. UNCHANGED at /\ at = "done" /\ ~At("main", "discardLast")'
    BY <1>4, ProgramsStep DEF Programs, LoopStanding, ProgramCall, AsyncMove
  <2>. QED
    BY <2>1
<1>5. CASE Nothing
  BY <1>5 DEF Nothing, vars, store, hist, flags
<1>. QED
  BY <1>1, <1>2, <1>3, <1>4, <1>5, UseParts

(* The count goes with the files that are kept. *)
LEMMA KeptIsFinite ==
  ASSUME Store
  PROVE  IsFiniteSet(Kept) /\ Kept \subseteq disk /\ disk \subseteq 1 .. last
<1>1. IsFiniteSet(1 .. last)
  BY FS_Interval, SessionAssumption DEF Store
<1>. QED
  BY <1>1, FS_Subset DEF Kept, Store

LEMMA TallyElsewhere ==
  ASSUME Tally, UNCHANGED total, Kept' = Kept, \A t \in Threads : Uncounting(t)' = Uncounting(t)
  PROVE  Tally'
BY DEF Tally, Threads

LEMMA TallyTeardown == ASSUME UInv, NEW t \in Threads, TeardownStep(t) PROVE Tally'
<1>. USE DEF UInv, Inv, Standing, Go, At, Leave, Stay, Uncounted, Discarding, Threads
<1>1. CASE StopPipeline(t)
  <2>1. /\ take \in Files /\ take \in disk /\ fate[take] = "open" /\ take > OldFiles /\ take # NoFile
        /\ Uncounting(t) = 0
        /\ \A u \in Threads : u # t => Uncounting(u)' = Uncounting(u)
    BY <1>1, SessionAssumption DEF StopPipeline, Pipeline, Store, Files, NoFile, Uncounting
  <2>2. CASE Discarding(t)
    <3>1. Kept' = Kept
      BY <1>1, <2>1, <2>2 DEF StopPipeline, Kept, Store
    <3>2. Uncounting(t)' = 0 /\ UNCHANGED total
      BY <1>1, <2>2 DEF StopPipeline, Uncounting, books
    <3>. QED
      BY <2>1, <3>1, <3>2, TallyElsewhere
  <2>3. CASE ~Discarding(t)
    <3>1. Kept' = Kept \cup {take} /\ take \notin Kept
      BY <1>1, <2>1, <2>3 DEF StopPipeline, Kept, Store
    <3>2. Cardinality(Kept') = Cardinality(Kept) + 1
      BY <3>1, KeptIsFinite, FS_AddElement
    <3>3. Uncounting(t)' = 1 /\ UNCHANGED total
      BY <1>1, <2>3 DEF StopPipeline, Uncounting, books
    <3>. QED
      BY <2>1, <3>2, <3>3, KeptIsFinite, FS_CardinalityType DEF Tally, Counts, Uncounting
  <2>. QED
    BY <2>2, <2>3
<1>2. CASE Count(t)
  <2>1. Kept' = Kept
    BY <1>2 DEF Count, Kept, store, hist
  <2>2. Uncounting(t) = 1 /\ Uncounting(t)' = 0 /\ total' = total + 1
    BY <1>2 DEF Count, Uncounting, Pipeline, frame
  <2>3. \A u \in Threads : u # t => Uncounting(u)' = Uncounting(u)
    BY <1>2 DEF Count, Uncounting, frame
  <2>. QED
    BY <2>1, <2>2, <2>3 DEF Tally, Counts, Uncounting
<1>3. CASE Deactivate(t)
  BY <1>3, TallyElsewhere DEF Deactivate, Kept, store, hist, Uncounting
<1>4. CASE Join(t) \/ Acquire(t) \/ Announce(t) \/ FinalStats(t) \/ Hooks(t) \/ Callbacks(t)
  <2>1. UNCHANGED total /\ Kept' = Kept
    BY <1>4 DEF Join, Acquire, Announce, FinalStats, Hooks, Callbacks, Kept, store, hist, books
  <2>2. \A u \in Threads : Uncounting(u)' = Uncounting(u)
    BY <1>4 DEF Join, Acquire, Announce, FinalStats, Hooks, Callbacks, Uncounting, frame, MonitorPlaces, Locked
  <2>. QED
    BY <2>1, <2>2, TallyElsewhere
<1>. QED
  BY <1>1, <1>2, <1>3, <1>4 DEF TeardownStep

(* The episode discard_last_episode deletes is the loop's last one, and was counted. *)
LEMMA NewestIsLast == ASSUME UInv, DiscardLast PROVE Newest = last /\ last \in Kept /\ last \in Nat /\ take = NoFile
<1>1. last \in disk /\ last > OldFiles /\ (take = last \/ fate[last] = "kept")
  BY DEF UInv, Rounds, Taken, DiscardLast
<1>2. take = NoFile
  BY DEF UInv, Inv, Pipeline, DiscardLast, At, Bringing
<1>3. last \in Nat /\ \A k \in disk : k \in Nat /\ k <= last
  BY SessionAssumption DEF UInv, Inv, Store
<1>4. Newest = last
  <2>1. Newest \in disk /\ \A j \in disk : j <= Newest
    BY <1>1, <1>3, Zenon DEF Newest
  <2>. QED
    BY <1>1, <1>3, <2>1
<1>. QED
  BY <1>1, <1>2, <1>3, <1>4, SessionAssumption DEF Kept, NoFile

LEMMA TallyStep == ASSUME UInv, [Next \/ Aside]_vars PROVE Tally'
<1>. USE DEF UInv, Inv, Standing, Go, At, Call, Return, Leave, Stay, frame, Uncounted, Discarding, Threads
<1>1. CASE Calls
  BY <1>1, TallyElsewhere DEF Calls, CallStart, CallStop, CallDiscard, CallShutdown, CallTeardown, CallWaitAutoStop,
     CallDiscardLast, Kept, Uncounting, store, hist, books
<1>2. CASE StartStep
  <2>1. \A t \in Threads : Uncounting(t)' = Uncounting(t)
    <3>1. UNCHANGED discard /\ \A t \in Threads : (pc[t] \in Uncounted) = (pc'[t] \in Uncounted)
      BY <1>2 DEF StartStep, Prepare, OpenFile, OpenFails, PublishPath, BringUp, Abort, Activate,
         ResetAutoStop, ReapSignal, ReapJoin, SpawnMonitor, Started, MonitorThreadFree
    <3>. QED
      BY <3>1 DEF Uncounting
  <2>2. UNCHANGED total
    BY <1>2 DEF StartStep, Prepare, OpenFile, OpenFails, PublishPath, BringUp, Abort, Activate,
       ResetAutoStop, ReapSignal, ReapJoin, SpawnMonitor, Started, books
  <2>3. Kept' = Kept
    <3>1. CASE OpenFile
      BY <3>1, SessionAssumption DEF OpenFile, Kept, Store, Files
    <3>2. CASE Abort
      BY <3>2 DEF Abort, Kept, Store, Pipeline, Bringing, Files
    <3>3. CASE ~OpenFile /\ ~Abort
      BY <1>2, <3>3 DEF StartStep, Prepare, OpenFails, PublishPath, BringUp, Activate,
         ResetAutoStop, ReapSignal, ReapJoin, SpawnMonitor, Started, Kept, store, hist
    <3>. QED
      BY <3>1, <3>2, <3>3
  <2>. QED
    BY <2>1, <2>2, <2>3, TallyElsewhere
<1>3. CASE DiscardLast
  <2>1. \A t \in Threads : Uncounting(t) = 0 /\ Uncounting(t)' = 0
    BY <1>3 DEF DiscardLast, Pipeline, Locked, Uncounting
  <2>2. CASE UNCHANGED <<books, disk>>
    BY <1>3, <2>1, <2>2, TallyElsewhere DEF DiscardLast, Kept, books, hist
  <2>3. CASE ~UNCHANGED <<books, disk>>
    <3>1. Kept' = Kept \ {last} /\ last \in Kept
      BY <1>3, <2>3, NewestIsLast DEF DiscardLast, Kept, hist, books
    <3>2. Cardinality(Kept') = Cardinality(Kept) - 1 /\ Cardinality(Kept) \in Nat /\ Cardinality(Kept') \in Nat
      BY <3>1, KeptIsFinite, FS_RemoveElement, FS_CardinalityType, FS_Subset
    <3>3. total = Cardinality(Kept)
      BY <2>1 DEF Tally, Counts
    <3>4. total' = total - 1
      BY <1>3, <2>3, <3>2, <3>3 DEF DiscardLast
    <3>. QED
      BY <2>1, <3>2, <3>3, <3>4 DEF Tally
  <2>. QED
    BY <2>2, <2>3
<1>4. CASE OtherStep /\ ~DiscardLast
  BY <1>4, TallyElsewhere DEF OtherStep, MonitorTest, MonitorTooSoon, MonitorTimeout, FinishShutdown,
     WaitAutoStopEnds, OtherStats, Kept, Uncounting, store, hist, books, flags
<1>5. ASSUME NEW t \in Threads, TeardownStep(t) PROVE Tally'
  BY <1>5, TallyTeardown
<1>6. CASE UNCHANGED vars \/ Aside
  BY <1>6, TallyElsewhere DEF vars, Aside, Waits, Kept, Uncounting, store, hist, books
<1>. QED
  BY <1>1, <1>2, <1>3, <1>4, <1>5, <1>6, Parts

(***************************************************************************)
(* The session's properties, whoever uses it.                              *)
(***************************************************************************)
THEOREM UseInvariance == UseSpec => []UInv
<1>1. AsyncInit => UInv
  BY UseStarts
<1>2. ASSUME UInv, [UseNext]_useVars PROVE UInv'
  <2>1. [Next \/ Aside]_vars
    BY <1>2, UseIsSession
  <2>2. Inv' /\ Terminal'
    BY <1>2, <2>1, InvStep, TerminalStep DEF UInv
  <2>3. Tally'
    BY <1>2, <2>1, TallyStep
  <2>. QED
    BY <1>2, <2>2, <2>3, ProgramsStep, DestructorStep, RoundsStep DEF UInv
<1>. QED
  BY <1>1, <1>2, PTL DEF UseSpec

(* What was proved of the session alone holds in both programs, with an operator's waits,
   an async thread, a waiter and a destructor beside it: no pipeline is left behind, a kept
   episode's callbacks run once, the path in the stats exists, no joinable thread is
   assigned over. *)
THEOREM UseKeepsSession == UseSpec => [](NoOrphanPipeline /\ EndedOnce /\ PathExists /\ MonitorThreadFree)
<1>1. UInv => NoOrphanPipeline /\ EndedOnce /\ PathExists /\ MonitorThreadFree
  BY InvMeans DEF UInv, Inv
<1>. QED
  BY <1>1, UseInvariance, PTL

(* total_episodes_completed_ is the number of this session's completed episodes that were
   not discarded afterwards, whoever ended them. *)
THEOREM TotalHolds == UseSpec => []TotalMatchesDisk
<1>1. UInv => TotalMatchesDisk
  BY DEF UInv, Inv, Pipeline, Locked, Tally, Counts, Uncounting, Uncounted, Kept, Threads, TotalMatchesDisk
<1>. QED
  BY <1>1, UseInvariance, PTL

(* When the destructor is through, no thread of the session runs and no pipeline is up. *)
THEOREM NothingOutlivesHolds == UseSpec => []NothingOutlives
<1>1. UInv => NothingOutlives
  <2> SUFFICES ASSUME UInv, call = "destroyed"
               PROVE  async = "none" /\ At("monitor", "none") /\ take = NoFile /\ ~active /\ lock = "free"
    BY DEF NothingOutlives
  <2>1. async = "none" /\ At("main", "client") /\ shut
    BY DEF UInv, Destructor
  <2>. QED
    BY <2>1 DEF UInv, Terminal, Quiet, Inv, Standing, Pipeline, Bringing, Locked, At, Threads
<1>. QED
  BY <1>1, UseInvariance, PTL

(***************************************************************************)
(* A session without max_duration, with nobody else at its stats and a     *)
(* backend that can always be created: one thread, whose flags can be      *)
(* relied on.                                                              *)
(***************************************************************************)
LEMMA LimitedStays == ASSUME [Next \/ Aside]_vars PROVE limited' = limited
<1>. USE DEF frame
<1>1. CASE Calls \/ StartStep
  BY <1>1 DEF Calls, CallStart, CallStop, CallDiscard, CallShutdown, CallTeardown, CallWaitAutoStop, CallDiscardLast,
     StartStep, Prepare, OpenFile, OpenFails, PublishPath, BringUp, Abort, Activate,
     ResetAutoStop, ReapSignal, ReapJoin, SpawnMonitor, Started
<1>2. CASE OtherStep
  BY <1>2 DEF OtherStep, MonitorTest, MonitorTooSoon, MonitorTimeout, FinishShutdown, DiscardLast,
     WaitAutoStopEnds, OtherStats
<1>3. ASSUME NEW t \in Threads, TeardownStep(t) PROVE limited' = limited
  BY <1>3 DEF TeardownStep, Join, Acquire, StopPipeline, Deactivate, Count, Announce, FinalStats, Hooks, Callbacks
<1>4. CASE UNCHANGED vars \/ Aside
  BY <1>4 DEF vars, Aside
<1>. QED
  BY <1>1, <1>2, <1>3, <1>4, Parts

LEMMA UnwatchedStep == ASSUME Inv, ~limited, Unwatched, [Next \/ Aside]_vars PROVE ~limited' /\ Unwatched'
<1>. USE DEF Inv, Standing, Unwatched, frame, Go, At, Call, Return, Leave, Stay, Threads
<1>1. CASE Calls
  BY <1>1 DEF Calls, CallStart, CallStop, CallDiscard, CallShutdown, CallTeardown, CallWaitAutoStop, CallDiscardLast
<1>2. CASE StartStep
  BY <1>2 DEF StartStep, Prepare, OpenFile, OpenFails, PublishPath, BringUp, Abort, Activate,
     ResetAutoStop, ReapSignal, ReapJoin, SpawnMonitor, Started
<1>3. CASE OtherStep
  BY <1>3 DEF OtherStep, MonitorTest, MonitorTooSoon, MonitorTimeout, FinishShutdown, DiscardLast,
     WaitAutoStopEnds, OtherStats
<1>4. ASSUME NEW t \in Threads, TeardownStep(t) PROVE ~limited' /\ Unwatched'
  BY <1>4 DEF TeardownStep, Join, Acquire, StopPipeline, Deactivate, Count, Announce, FinalStats, Hooks, Callbacks
<1>5. CASE UNCHANGED vars \/ Aside
  BY <1>5 DEF vars, Aside, Waits
<1>. QED
  BY <1>1, <1>2, <1>3, <1>4, <1>5, Parts

Manual == ~limited /\ Unwatched /\ Watching /\ Redone /\ Indexed

LEMMA DiskIsFinite == ASSUME Store PROVE IsFiniteSet(disk) /\ Cardinality(disk) \in Nat
<1>1. IsFiniteSet(1 .. last)
  BY FS_Interval, SessionAssumption DEF Store
<1>. QED
  BY <1>1, FS_Subset, FS_CardinalityType DEF Store

(* start_episode: the index counts the files that were there, the take is the newest. *)
LEMMA ManualStart == ASSUME UInv, Manual, StartStep, UNCHANGED <<asked, at>> PROVE Watching' /\ Redone' /\ Indexed'
<1>. USE DEF UInv, Inv, Standing, Manual, asked, frame, flags, store, hist, books, Go, At, Return, Threads
<1>1. pc["main"] \in Starting /\ at \in {"started", "done"}
  BY DEF StartStep, Prepare, OpenFile, OpenFails, PublishPath, BringUp, Abort, Activate,
     ResetAutoStop, ReapSignal, ReapJoin, SpawnMonitor, Started, Starting, Programs, LoopStanding, Ending, Closing
<1>2. Watching'
  <2>1. CASE OpenFile
    BY <1>1, <2>1 DEF OpenFile, Watching, Live, Bringing, Starting
  <2>2. CASE Activate
    BY <1>1, <2>2 DEF Activate, Watching, Live, Bringing, Starting
  <2>3. CASE ~OpenFile /\ ~Activate
    BY <1>1, <2>3 DEF StartStep, Prepare, OpenFails, PublishPath, BringUp, Abort,
       ResetAutoStop, ReapSignal, ReapJoin, SpawnMonitor, Started, Watching, Live, Bringing, Starting, Unwatched
  <2>. QED
    BY <2>1, <2>2, <2>3
<1>3. Redone'
  <2>1. CASE OpenFile
    BY <1>1, <2>1, SessionAssumption DEF OpenFile, Redone, Requested, Store
  <2>2. CASE ~OpenFile
    <3>1. UNCHANGED <<last, disk>>
      BY <2>2 DEF StartStep, Prepare, OpenFails, PublishPath, BringUp, Abort, Activate,
         ResetAutoStop, ReapSignal, ReapJoin, SpawnMonitor, Started
    <3>. QED
      BY <1>1, <3>1 DEF Redone, Requested
  <2>. QED
    BY <2>1, <2>2
<1>4. Indexed'
  <2>1. CASE Prepare
    <3>1. take = NoFile /\ Uncounting("main")' = 0
      BY <2>1 DEF Prepare, Pipeline, Bringing, Uncounting, Uncounted
    <3>2. index' = Cardinality(disk) \/ (result' = "false" /\ At("main", "client")')
      BY <2>1 DEF Prepare
    <3>. QED
      BY <1>1, <2>1, <3>1, <3>2, DiskIsFinite DEF Prepare, Indexed, Pending, Begun, Starting
  <2>2. CASE OpenFile
    <3>1. Cardinality(disk') = Cardinality(disk) + 1 /\ Cardinality(disk) \in Nat
      <4>1. disk' = disk \cup {last + 1} /\ last + 1 \notin disk
        BY <2>2, SessionAssumption DEF OpenFile, Store
      <4>. QED
        BY <4>1, DiskIsFinite, FS_AddElement
    <3>2. Pending = 0 /\ Pending' = 1 /\ UNCHANGED index
      BY <2>2, SessionAssumption DEF OpenFile, Pipeline, Bringing, Pending, Uncounting, Uncounted, NoFile, Store
    <3>3. at = "started" => index = Cardinality(disk)
      BY <2>2, <3>1, <3>2 DEF OpenFile, Indexed, Starting, Counts
    <3>. QED
      BY <1>1, <3>1, <3>2, <3>3 DEF Indexed, Begun
  <2>3. CASE Abort \/ OpenFails
    BY <1>1, <2>3 DEF Abort, OpenFails, Indexed, Begun, Starting
  <2>4. CASE ~Prepare /\ ~OpenFile /\ ~Abort /\ ~OpenFails
    <3>1. UNCHANGED <<take, disk, index, discard>> /\ pc["main"] \notin {"prepare", "open"}
      BY <2>4 DEF StartStep, PublishPath, BringUp, Activate,
         ResetAutoStop, ReapSignal, ReapJoin, SpawnMonitor, Started
    <3>2. pc'["main"] \in Starting \cup {"client"}
      BY <2>4 DEF StartStep, PublishPath, BringUp, Activate,
         ResetAutoStop, ReapSignal, ReapJoin, SpawnMonitor, Started, Starting
    <3>3. Uncounting("main")' = Uncounting("main")
      BY <1>1, <3>1, <3>2 DEF Uncounting, Uncounted, Starting
    <3>. QED
      BY <1>1, <3>1, <3>3 DEF Indexed, Pending, Begun, Starting
  <2>. QED
    BY <2>1, <2>2, <2>3, <2>4
<1>. QED
  BY <1>2, <1>3, <1>4

(* A teardown: what is discarded at the top is the take to record again, the newest. *)
LEMMA ManualTeardown ==
  ASSUME UInv, Manual, TeardownStep("main"), UNCHANGED <<asked, at>>
  PROVE  Watching' /\ Redone' /\ Indexed'
<1>. USE DEF UInv, Inv, Standing, Manual, asked, Go, At, Threads
<1>1. /\ pc["main"] \in Ending /\ UNCHANGED <<result, last>>
      /\ \/ pc'["main"] \in Ending /\ UNCHANGED <<after, discard>>
         \/ pc'["main"] = after /\ after' = "client" /\ discard' = FALSE /\ ~active'
  BY MainTearsDown
<1>2. at \in {"top", "stopped", "closing", "done"}
  BY <1>1 DEF Programs, LoopStanding, Ending, Closing, Starting
<1>3. Watching'
  BY <1>1, <1>2 DEF Watching, Live, Ending, Closing, Programs
<1>4. CASE StopPipeline("main")
  <2>1. /\ take # NoFile /\ take \in disk /\ take > OldFiles /\ At("main", "deactivate")'
        /\ disk' = (IF discard THEN disk \ {take} ELSE disk) /\ take' = NoFile /\ UNCHANGED <<discard, last, index>>
    BY <1>4 DEF StopPipeline, Pipeline, Store, Discarding, frame, books
  <2>2. Redone'
    BY <1>2, <1>4, <2>1 DEF StopPipeline, Redone, Requested, Ending, Closing
  <2>3. Pending = 1 /\ Pending' = (IF discard THEN 0 ELSE 1)
    BY <1>4, <2>1 DEF StopPipeline, Pending, Uncounting, Uncounted, Discarding
  <2>4. Cardinality(disk \ {take}) = Cardinality(disk) - 1 /\ Cardinality(disk) \in Nat
    BY <2>1, DiskIsFinite, FS_RemoveElement
  <2>5. (at \in {"top", "stopped"} /\ Indexed) => index + Pending' = Cardinality(disk')
    BY <1>4, <2>1, <2>3, <2>4 DEF StopPipeline, Indexed, Counts, Redone
  <2>. QED
    BY <1>2, <1>3, <2>1, <2>2, <2>5 DEF Indexed, Begun
<1>5. CASE ~StopPipeline("main")
  <2>1. UNCHANGED <<take, disk>>
    BY <1>5 DEF TeardownStep, Join, Acquire, Deactivate, Count, Announce, FinalStats, Hooks, Callbacks, store
  <2>2. Redone'
    <3>1. at = "top" /\ pc'["main"] \in {"join", "lock", "stop"} => pc["main"] \in {"join", "lock"} /\ UNCHANGED active
      BY <1>1, <1>5 DEF TeardownStep, Join, Acquire, Deactivate, Count, Announce, FinalStats, Hooks, Callbacks, flags,
         Leave, Programs
    <3>2. at = "top" /\ Requested => Requested'
      BY <1>1, <1>5 DEF TeardownStep, Join, Acquire, Deactivate, Count, Announce, FinalStats, Hooks, Callbacks,
         Leave, Programs, Redone, Requested, Ending, Closing
    <3>. QED
      BY <1>1, <1>2, <2>1, <3>1, <3>2 DEF Redone, Requested, Ending, Closing, Programs
  <2>3. index' + Pending' = index + Pending
    <3>1. CASE Count("main")
      BY <2>1, <3>1 DEF Count, Pending, Uncounting, Uncounted, Discarding, Pipeline, frame, Counts
    <3>2. CASE ~Count("main")
      <4>1. UNCHANGED index /\ Uncounting("main")' = Uncounting("main")
        BY <1>5, <3>2 DEF TeardownStep, Join, Acquire, Deactivate, Announce, FinalStats, Hooks, Callbacks, books, frame,
           Leave, Stay, Uncounting, Uncounted, Discarding
      <4>. QED
        BY <2>1, <4>1 DEF Pending
    <3>. QED
      BY <3>1, <3>2
  <2>. QED
    BY <1>2, <1>3, <2>1, <2>2, <2>3, <1>1 DEF Indexed, Begun
<1>. QED
  BY <1>4, <1>5

LEMMA ManualOther ==
  ASSUME UInv, Manual, ~Readers, ~Faults, OtherStep, UNCHANGED <<asked, at>>
  PROVE  Watching' /\ Redone' /\ Indexed'
<1>. USE DEF UInv, Inv, Standing, Manual, asked, frame, flags, Go, At, Return, Threads
<1>1. CASE DiscardLast
  <2>1. at \in {"top", "closing", "done"} /\ At("main", "client")' /\ UNCHANGED <<take, last, active, discard>>
    BY <1>1 DEF DiscardLast, Programs, LoopStanding, Starting, Ending, Closing
  <2>2. CASE at = "top"
    <3>1. take = NoFile /\ Newest = last /\ last \in disk /\ last > OldFiles
      BY <1>1, NewestIsLast DEF Kept
    <3>2. Cardinality(disk \ {last}) = Cardinality(disk) - 1 /\ Cardinality(disk) \in Nat
          /\ Cardinality(disk \ {last}) \in Nat
      BY <3>1, DiskIsFinite, FS_RemoveElement, FS_CardinalityType
    <3>3. Pending = 0 /\ Pending' = 0
      BY <1>1, <2>1, <3>1 DEF DiscardLast, Pending, Uncounting, Uncounted
    <3>4. index = Cardinality(disk) /\ index # 0
      BY <2>2, <3>1, <3>2, <3>3 DEF Indexed, Counts
    <3>5. disk' = disk \ {last} /\ index' = index - 1
      BY <1>1, <3>1, <3>4 DEF DiscardLast
    <3>6. Watching'
      BY <1>1, <2>1, <2>2 DEF DiscardLast, Watching, Live
    <3>7. Redone'
      BY <2>1, <2>2, <3>5 DEF Redone, Requested, Ending, Closing
    <3>8. Indexed'
      BY <2>1, <2>2, <3>2, <3>3, <3>4, <3>5 DEF Indexed
    <3>. QED
      BY <3>6, <3>7, <3>8
  <2>3. CASE at # "top"
    BY <2>1, <2>3 DEF Watching, Redone, Indexed, Begun, Live
  <2>. QED
    BY <2>2, <2>3
<1>2. CASE FinishShutdown \/ WaitAutoStopEnds
  BY <1>2 DEF FinishShutdown, WaitAutoStopEnds, Watching, Redone, Indexed, Begun, Live, Programs, LoopStanding, Starting,
     Ending, Closing, store
<1>3. CASE MonitorTest \/ MonitorTooSoon \/ MonitorTimeout \/ OtherStats
  BY <1>3 DEF MonitorTest, MonitorTooSoon, MonitorTimeout, OtherStats, Unwatched
<1>. QED
  BY <1>1, <1>2, <1>3 DEF OtherStep

(* The loop's own moves: each ends an operation main has returned from. *)
LEMMA ManualMove ==
  ASSUME UInv, Manual, program = "loop", LoopMove
  PROVE  Watching' /\ Redone' /\ Indexed'
<1>. USE DEF UInv, Inv, Standing, Manual, asked, session, store, flags, frame, books, Go, At, Call, Return, Threads, LoopMove
<1>1. At("main", "client") /\ UNCHANGED <<take, last, disk, index, redo, active>>
  BY DEF LoopStep, Top, AfterStart, AfterMonitor, AfterStop, AfterReset, Done, Shutdown, CallStart,
     CallStop, CallDiscard, CallShutdown, CallTeardown, CallMonitor, CallWaitReset, CallDiscardLast, vars
<1>2. Pending' = Pending
  <2>1. Uncounting("main") = 0
    BY <1>1 DEF Uncounting, Uncounted
  <2>2. pc'["main"] \in {"client", "prepare", "join", "watch", "reset", "discardLast"}
    BY DEF LoopStep, Top, AfterStart, AfterMonitor, AfterStop, AfterReset, Done, Shutdown, CallStart,
       CallStop, CallDiscard, CallShutdown, CallTeardown, CallMonitor, CallWaitReset, CallDiscardLast, vars
  <2>3. Uncounting("main")' = 0
    BY <2>2 DEF Uncounting, Uncounted
  <2>. QED
    BY <1>1, <2>1, <2>3 DEF Pending
<1>3. CASE Top
  BY <1>1, <1>2, <1>3 DEF Top, CallStart, Shutdown, CallShutdown, CallTeardown, Watching, Live, Redone, Requested,
     Indexed, Begun, Starting, Bringing, Ending, Closing
<1>4. CASE AfterStart
  BY <1>1, <1>2, <1>4 DEF AfterStart, CallMonitor, Shutdown, CallShutdown, CallTeardown, Watching, Live, Redone,
     Requested, Indexed, Begun, Starting, Bringing, Ending, Closing
<1>5. CASE AfterMonitor
  BY <1>1, <1>2, <1>5 DEF AfterMonitor, CallDiscard, CallStop, CallTeardown, vars, Watching, Live, Redone,
     Requested, Indexed, Begun, Starting, Bringing, Ending, Closing
<1>6. CASE AfterStop
  BY <1>1, <1>2, <1>6 DEF AfterStop, CallWaitReset, Shutdown, CallShutdown, CallTeardown, Watching, Live, Redone,
     Requested, Indexed, Begun, Starting, Bringing, Ending, Closing
<1>7. CASE AfterReset
  <2>1. at = "waited" /\ ~active
    BY <1>1, <1>7 DEF AfterReset, Rounds
  <2>. QED
    BY <1>1, <1>2, <1>7, <2>1 DEF AfterReset, CallDiscardLast, Shutdown, CallShutdown, CallTeardown, vars, Watching, Live,
       Redone, Requested, Indexed, Begun, Starting, Bringing, Ending, Closing
<1>8. CASE Done
  BY <1>1, <1>2, <1>8 DEF Done, vars, Watching, Live, Redone, Indexed, Begun
<1>. QED
  BY <1>3, <1>4, <1>5, <1>6, <1>7, <1>8 DEF LoopStep

LEMMA ManualWait ==
  ASSUME UInv, Manual, program = "loop", LoopWait
  PROVE  Watching' /\ Redone' /\ Indexed'
<1>1. /\ UNCHANGED <<frame, active, store, books, at>>
      /\ pc["main"] \in {"watch", "poll", "update", "reset"}
      /\ pc'["main"] \in {"watch", "poll", "update", "reset", "client"}
      /\ \/ redo' = redo
         \/ redo' = redo \cup {last} /\ At("main", "client")' /\ result' = "rerecord"
  BY DEF UInv, Inv, Standing, LoopWait, WatchTest, WatchReRecord, WatchSkip, WatchNoKey, WatchUpdate, ResetNoticed,
     ResetByUser, ResetStop, ResetReRecord, ResetContinue, Return, Go, At, session, flags, asked, Threads
<1>2. active /\ ~emitted => ~emitted'
  BY DEF LoopWait, WatchTest, WatchReRecord, WatchSkip, WatchNoKey, WatchUpdate, ReadStats, ResetNoticed,
     ResetByUser, session, flags
<1>3. at \in {"watched", "waited"} /\ (at = "watched" => Live)
  BY <1>1 DEF UInv, Programs, LoopStanding, Starting, Ending, Closing, Manual, Watching
<1>4. Watching'
  BY <1>1, <1>2, <1>3 DEF Watching, Live, store
<1>5. Redone'
  <2>1. last > OldFiles /\ ~Requested
    BY <1>1, <1>3 DEF UInv, Rounds, Taken, Requested, At
  <2>2. redo \subseteq 1 .. last /\ redo \cap disk = {}
    BY <1>3, <2>1 DEF Manual, Redone
  <2>3. last \in 1 .. last
    BY <2>1, SessionAssumption DEF UInv, Inv, Store
  <2>4. redo' \subseteq 1 .. last /\ redo' \cap disk \subseteq {last}
    BY <1>1, <2>2, <2>3
  <2>5. redo' = redo \/ Requested'
    BY <1>1, <1>3 DEF Requested
  <2>. QED
    BY <1>1, <1>3, <2>2, <2>4, <2>5 DEF Redone, store
<1>6. Indexed'
  <2>1. Pending' = Pending
    BY <1>1 DEF Pending, Uncounting, Uncounted, store, frame
  <2>. QED
    BY <1>1, <1>3, <2>1 DEF Indexed, Begun, Manual, store, books
<1>. QED
  BY <1>4, <1>5, <1>6

LEMMA ManualStep ==
  ASSUME ~Readers, ~Faults, UInv, Manual, [UseNext]_useVars
  PROVE  Manual'
<1>1. ~limited' /\ Unwatched'
  BY UnwatchedStep, UseIsSession DEF UInv, Manual
<1>2. CASE SessionStep
  <2>1. ~TeardownStep("monitor")
    BY DEF Manual, Unwatched, TeardownStep, Join, Acquire, StopPipeline, Deactivate, Count, Announce, FinalStats, Hooks,
       Callbacks, At
  <2>. QED
    BY <1>1, <1>2, <2>1, ManualStart, ManualOther, ManualTeardown DEF SessionStep, Manual, Threads
<1>3. CASE program = "loop" /\ (LoopMove \/ LoopWait)
  BY <1>1, <1>3, ManualMove, ManualWait DEF Manual
<1>4. CASE program = "threads" /\ (ProgramCall \/ AsyncMove)
  <2>1. at = "done" /\ at' = "done" /\ redo' = redo
    BY <1>4 DEF UInv, Programs, ProgramCall, AsyncMove, asked
  <2>2. last \in Nat /\ last' \in Nat /\ last <= last'
    <3>1. UNCHANGED last
      <4>1. CASE ProgramCall
        BY <4>1 DEF ProgramCall, CallStart, CallStop, CallDiscard, CallShutdown, CallTeardown, store
      <4>2. CASE AsyncMove
        BY <4>2, AsyncIsAside DEF DestroyShutdown, CallShutdown, CallTeardown, Held, store
      <4>. QED
        BY <1>4, <4>1, <4>2
    <3>. QED
      BY <3>1, SessionAssumption DEF UInv, Inv, Store
  <2>. QED
    BY <1>1, <2>1, <2>2 DEF Manual, Watching, Live, Redone, Indexed, Begun
<1>5. CASE Nothing
  BY <1>1, <1>5 DEF Nothing, vars, store, books, flags, frame, Manual, Watching, Live, Redone, Requested, Indexed, Pending,
     Uncounting, Discarding, Begun, At
<1>. QED
  BY <1>2, <1>3, <1>4, <1>5, UseParts

(* Without max_duration there is no monitor thread to race with: the final stats, the
   re-record key and the episode index can be relied on.  It needs that nobody else calls
   stats(), whose first look at the end of an episode would be taken for the operator's,
   and that creating a backend does not fail under discard_last_episode. *)
THEOREM ManualHolds == ASSUME ~Readers, ~Faults PROVE UseSpec => []ManualSession
<1>1. AsyncInit => (~limited => Manual)
  BY SessionAssumption DEF AsyncInit, Init, Manual, Unwatched, Watching, Live, Redone, Indexed, Begun, At, Starting, Bringing, Ending, Closing,
     Threads
<1>2. ASSUME UInv, ~limited => Manual, [UseNext]_useVars PROVE (~limited => Manual)'
  <2>1. limited' = limited
    <3>1. [Next \/ Aside]_vars
      BY <1>2, UseIsSession
    <3>. QED
      BY <3>1, LimitedStays
  <2>. QED
    BY <1>2, <2>1, ManualStep
<1>3. UInv /\ (~limited => Manual) => ManualSession
  <2> SUFFICES ASSUME UInv, ~limited, Manual
               PROVE  /\ FinalStatsMeanEnded /\ ReRecordHonoured
                      /\ at = "top" /\ At("main", "client") /\ last > OldFiles => index = Cardinality(disk)
    BY DEF ManualSession
  <2>1. FinalStatsMeanEnded
    BY DEF UInv, Programs, LoopStanding, Starting, Ending, Closing, Manual, Watching, Live, FinalStatsMeanEnded
  <2>2. ReRecordHonoured
    BY DEF Manual, Redone, Requested, ReRecordHonoured, At
  <2>3. at = "top" /\ At("main", "client") /\ last > OldFiles => index = Cardinality(disk)
    <3>1. at = "top" /\ At("main", "client") => Pending = 0
      BY DEF Manual, Watching, UInv, Inv, Pipeline, Bringing, Pending, Uncounting, Uncounted, At
    <3>. QED
      BY <3>1 DEF Manual, Indexed, UInv, Inv, Counts
  <2>. QED
    BY <2>1, <2>2, <2>3
<1>. QED
  BY <1>1, <1>2, <1>3, UseInvariance, PTL DEF UseSpec
=============================================================================
