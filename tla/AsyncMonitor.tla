------------------------------ MODULE AsyncMonitor ------------------------------
(***************************************************************************)
(* The session's other threads: the one of start_async_monitoring, one     *)
(* that stands in wait_for_auto_stop while main records, and the           *)
(* destructor, which has to end what still runs. A program either is the   *)
(* operator loop or uses these; Init chooses.                              *)
(***************************************************************************)
EXTENDS EpisodeLoop

CONSTANT AsyncTakes  \* bound: episode files a program with these threads creates

ASSUME AsyncAssumption == AsyncTakes \in 0 .. MaxTakes

VARIABLES
  program,   \* which of the two programs it is: loop, threads
  async,     \* async_monitor_thread_: where it stands
  asyncOn,   \* async_monitoring_active_
  captured,  \* async_monitor_final_stats_: the file whose records it counts
  watched,   \* history: the episode the async thread was started for
  call,    \* where main stands in the operations of this module
  waiter,    \* where the waiting thread stands
  missed     \* history: a discard notified it between its test and its sleep

asyncVars == <<async, asyncOn, captured, watched, stopReq>>
waiterVars == <<waiter, missed>>
loopOnly == <<rerecord, signaled, redo, at>>
threadsOnly == <<async, asyncOn, captured, watched, call, waiter, missed>>
useVars == <<loopVars, threadsOnly, program>>

Joining == {"startJoin", "getJoin", "asyncJoin"}

AsyncInit ==
  /\ Init
  /\ \/ program = "loop" /\ at = "top"
     \/ program = "threads" /\ at = "done"
  /\ rerecord = FALSE /\ signaled = FALSE /\ stopReq = FALSE /\ redo = {}
  /\ async = "none" /\ asyncOn = FALSE /\ captured = NoFile /\ watched = NoFile
  /\ call = "no"
  /\ waiter = "out" /\ missed = FALSE
-----------------------------------------------------------------------------
(* start_async_monitoring, get_async_monitor_stats and ~SessionManager, on main. *)

Idle == At("main", "client") /\ call = "no"

Enter(from, to) ==
  /\ call = from /\ call' = to
  /\ UNCHANGED <<vars, waiterVars, async, captured, watched, stopReq>>

(* A thread whose flag is up is stopped first. *)
StartAsync == Idle /\ Enter("no", IF asyncOn THEN "startSignal" ELSE "assign") /\ UNCHANGED asyncOn

GetStats == Idle /\ Enter("no", "getJoin") /\ asyncOn' = FALSE

SignalOld == Enter("startSignal", "startJoin") /\ asyncOn' = FALSE

(* The flag that was taken down is read by nobody: the join waits for the episode. *)
JoinAsync ==
  /\ call \in Joining
  /\ async \in {"none", "ended"} /\ async' = "none"
  /\ call' = CASE call = "startJoin" -> "assign"
                 [] call = "getJoin" -> "no"
                 [] call = "asyncJoin" -> "shutdown"
  /\ UNCHANGED <<vars, waiterVars, asyncOn, captured, watched, stopReq>>

(* A new thread is assigned; over a joinable one, that ends the program. *)
AssignAsync ==
  /\ call = "assign"
  /\ asyncOn' = TRUE
  /\ IF async = "none"
       THEN async' = "watch" /\ call' = "no" /\ watched' = IF active THEN take ELSE NoFile
       ELSE call' = "terminated" /\ UNCHANGED <<async, watched>>
  /\ UNCHANGED <<vars, waiterVars, captured, stopReq>>

Destroy ==
  /\ Idle
  /\ monitoring' = FALSE
  /\ call' = "monitorJoin"
  /\ UNCHANGED <<frame, pc, result, active, emitted, autoStop, shut, books, store, hist, asyncVars, waiterVars>>

JoinMonitor ==
  /\ call = "monitorJoin"
  /\ pc["monitor"] \in {"none", "ended"} /\ Go("monitor", "none")
  /\ asyncOn' = FALSE
  /\ call' = "asyncJoin"
  /\ UNCHANGED <<frame, result, flags, books, store, hist, async, captured, watched, stopReq, waiterVars>>

(* Faulty variant: the destructor joins and does not shut down. *)
DestroyWithoutShutdown ==
  /\ call = "shutdown"
  /\ call' = "destroyed"
  /\ UNCHANGED <<vars, asyncVars, waiterVars>>

DestroyShutdown ==
  /\ call = "shutdown"
  /\ CallShutdown
  /\ call' = "dying"
  /\ UNCHANGED <<asyncVars, waiterVars>>

Destroyed == At("main", "client") /\ Enter("dying", "destroyed") /\ UNCHANGED asyncOn

AsyncMain == SignalOld \/ JoinAsync \/ AssignAsync \/ JoinMonitor \/ DestroyShutdown \/ Destroyed
-----------------------------------------------------------------------------
(* The async thread: monitor_episode, the wait for the end, the last stats. *)
AsyncGoes(from, to) ==
  /\ async = from /\ async' = to
  /\ UNCHANGED <<frame, pc, result, active, monitoring, autoStop, shut, books, store, hist,
                 watched, stopReq, call, waiterVars>>

AsyncTest ==
  /\ AsyncGoes("watch", IF emitted THEN "wait" ELSE "poll")
  /\ UNCHANGED <<emitted, asyncOn, captured>>

(* A key or a request leaves the loop; otherwise the periodic stats may be due. *)
AsyncPoll ==
  /\ \E to \in {"wait", "update", "watch"} : AsyncGoes("poll", to)
  /\ UNCHANGED <<emitted, asyncOn, captured>>

AsyncUpdate ==
  /\ lock = "free" /\ ReadStats
  /\ AsyncGoes("update", "watch")
  /\ UNCHANGED <<asyncOn, captured>>

AsyncWait ==
  /\ emitted \/ stopReq
  /\ AsyncGoes("wait", "store")
  /\ UNCHANGED <<emitted, asyncOn, captured>>

(* final_records_written_ is that of the last episode that was stopped. *)
LastStopped ==
  LET stopped == {k \in Files : k > OldFiles /\ fate[k] = "kept"}
  IN  IF stopped = {} THEN NoFile ELSE CHOOSE k \in stopped : \A j \in stopped : j <= k

(* stats(): records are counted until the first look after the end, and then 0. *)
Counted ==
  IF active \/ ~emitted
    THEN IF take # NoFile THEN take ELSE LastStopped
    ELSE NoFile

AsyncStore ==
  /\ lock = "free" /\ ReadStats
  /\ captured' = Counted
  /\ AsyncGoes("store", "clear")
  /\ UNCHANGED asyncOn

AsyncClear ==
  /\ asyncOn' = FALSE
  /\ AsyncGoes("clear", "ended")
  /\ UNCHANGED <<emitted, captured>>

AsyncStep == AsyncTest \/ AsyncPoll \/ AsyncUpdate \/ AsyncWait \/ AsyncStore \/ AsyncClear

AsyncCtrlC ==
  /\ stopReq' = TRUE
  /\ UNCHANGED <<vars, async, asyncOn, captured, watched, call, waiterVars>>
-----------------------------------------------------------------------------
(* wait_for_auto_stop, without a timeout, on a thread that is not main. *)
WaiterCalls ==
  /\ waiter = "out" /\ waiter' = "test"
  /\ UNCHANGED <<vars, asyncVars, call, missed>>

(* The predicate and the sleep share auto_stop_mutex_ (see Hears); the answer is the
   flag, which is taken down. *)
WaiterTests ==
  /\ waiter = "test"
  /\ IF autoStop \/ ~active
       THEN waiter' = "out" /\ autoStop' = FALSE
       ELSE waiter' = "falling" /\ UNCHANGED autoStop
  /\ UNCHANGED <<frame, pc, result, active, emitted, monitoring, shut, books, store, hist,
                 asyncVars, call, missed>>

WaiterSleeps ==
  /\ waiter = "falling" /\ waiter' = "asleep"
  /\ UNCHANGED <<vars, asyncVars, call, missed>>

WaiterSpurious ==
  /\ waiter = "asleep" /\ waiter' = "test"
  /\ UNCHANGED <<vars, asyncVars, call, missed>>

WaiterStep == WaiterTests \/ WaiterSleeps

Woken == IF waiter = "asleep" THEN "test" ELSE waiter

(* Faulty variant: the end of an episode is notified without the mutex. *)
HearsUnlocked ==
  IF \E t \in Threads : At(t, "announce") /\ pc'[t] = "final"
    THEN waiter' = Woken /\ missed' = FALSE
    ELSE UNCHANGED <<waiter, missed>>

(* The end of a kept episode is notified after the mutex was taken, that of a discarded
   one without it. *)
Hears ==
  IF \E t \in Threads : At(t, "announce") /\ pc'[t] = "final"
    THEN waiter # "falling" /\ waiter' = Woken /\ missed' = FALSE
    ELSE IF \E t \in Threads : At(t, "deactivate") /\ pc'[t] = "hooks"
      THEN waiter' = Woken /\ missed' = (waiter = "falling")
      ELSE UNCHANGED <<waiter, missed>>
-----------------------------------------------------------------------------
(* The session's own steps. *)
Session(step) == step /\ Hears /\ UNCHANGED <<asyncVars, call>>

Ask == StartAsync \/ GetStats \/ Destroy

Record == (last < OldFiles + AsyncTakes /\ CallStart) \/ CallStop \/ CallDiscard \/ CallShutdown

(* std::terminate *)
Over == call = "terminated"

AsyncNext ==
  /\ ~Over
  /\ \/ Session(Inside) \/ Session(Idle /\ Record)
     \/ Ask \/ AsyncMain \/ AsyncStep \/ AsyncCtrlC
     \/ WaiterCalls \/ WaiterStep \/ WaiterSpurious

InLoop(step) == program = "loop" /\ step /\ UNCHANGED <<threadsOnly, program>>

InThreads(step) == program = "threads" /\ step /\ UNCHANGED <<loopOnly, program>>

UseNext == InLoop(LoopNext) \/ InThreads(AsyncNext)

UseSpec == AsyncInit /\ [][UseNext]_useVars

(* In the operator loop main and the monitor thread are scheduled, and max_duration passes;
   nobody has to press a key. In the other program every thread that is inside an operation
   is scheduled, and a mutex is not held for ever. *)
UseFairness ==
  /\ WF_useVars(InLoop(MainStep))
  /\ WF_useVars(InLoop(MonitorStep /\ UNCHANGED <<asked, at>>))
  /\ SF_useVars(InLoop(MonitorTimeout /\ UNCHANGED <<asked, at>>))
  /\ WF_useVars(InThreads(~Over /\ Session(StartStep)))
  /\ WF_useVars(InThreads(~Over /\ Session(TeardownStep("main"))))
  /\ WF_useVars(InThreads(~Over /\ Session(FinishShutdown)))
  /\ WF_useVars(InThreads(~Over /\ Session(MonitorStep)))
  /\ WF_useVars(InThreads(~Over /\ AsyncMain))
  /\ WF_useVars(InThreads(~Over /\ AsyncStep))
  /\ WF_useVars(InThreads(~Over /\ WaiterStep))

FairUseSpec == UseSpec /\ UseFairness
-----------------------------------------------------------------------------
(* When the destructor is through, no thread of the session runs and no pipeline is up,
   whatever was under way when it was called. *)
NothingOutlives ==
  call = "destroyed" =>
    /\ async = "none" /\ At("monitor", "none")
    /\ take = NoFile /\ ~active /\ lock = "free"

(* A thread that waits for an auto-stop learns of every end of an episode that was not a
   discard: the test, the sleep and the notification share a mutex. *)
WaiterWakes == (waiter # "out" /\ ~active /\ ~missed) ~> (waiter = "out" \/ active \/ Over)
=============================================================================
