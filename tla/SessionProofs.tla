------------------------------ MODULE SessionProofs ------------------------------
(***************************************************************************)
(* The session manager for any number of old files, of takes and of        *)
(* episodes allowed, however main's calls and the monitor's auto-stop      *)
(* meet.                                                                   *)
(*                                                                         *)
(* All of it rests on what the mutex protects: who is inside the teardown  *)
(* holds it, an active episode has a pipeline unless its teardown is under *)
(* way, and a closed file is owed its callbacks by the thread that closed  *)
(* it.                                                                     *)
(***************************************************************************)
EXTENDS Teleop, FiniteSetTheorems, TLAPS

Bringing == {"path", "bringUp", "stage", "activate"}
Locked == {"stop", "deactivate", "count", "announce", "final"}
Owing == {"deactivate", "count", "announce", "final", "hooks", "callbacks"}
Uncounted == {"deactivate", "count"}

(* What may go on beside the session's own steps: main waits for an operator, other threads
   look at the stats or wait for an auto-stop, the monitor is told to end, and joined once
   it has. *)
Waits == {"client", "watch", "poll", "update", "reset"}

Aside ==
  /\ UNCHANGED <<frame, active, shut, books, store, hist>>
  /\ emitted' \in BOOLEAN /\ monitoring' \in BOOLEAN /\ autoStop' \in BOOLEAN
  /\ result' \in Results
  /\ \/ UNCHANGED pc
     \/ pc["main"] \in Waits /\ \E w \in Waits : Go("main", w)
     \/ At("main", "client") /\ pc["monitor"] \in {"none", "ended"} /\ Go("monitor", "none")

(* The two threads, each at places of its own. *)
MainPlaces == Labels
MonitorPlaces == {"none", "test", "sleep", "ended", "lock"} \cup Locked \cup {"hooks", "callbacks"}

Standing ==
  /\ pc \in [Threads -> MainPlaces \cup MonitorPlaces]
  /\ pc["main"] \in MainPlaces /\ pc["monitor"] \in MonitorPlaces
  /\ after \in {"client", "finish"}
  /\ lock \in Threads \cup {"free"}
  /\ result \in Results

Flags ==
  /\ limited \in BOOLEAN /\ discard \in BOOLEAN
  /\ active \in BOOLEAN /\ emitted \in BOOLEAN /\ monitoring \in BOOLEAN
  /\ autoStop \in BOOLEAN /\ shut \in BOOLEAN

(* Where a pipeline is up, by the episode's state, the mutex and main's place. *)
Pipeline ==
  /\ \A t \in Threads : (pc[t] \in Locked) <=> (lock = t)
  /\ pc["main"] \in Bringing \cup {"prepare", "open", "discardLast"} => ~active
  /\ pc["main"] \in Bringing \ {"path"} => lock = "free"
  /\ pc["main"] \in Bringing => take # NoFile
  /\ take # NoFile => active \/ pc["main"] \in Bringing
  /\ active /\ lock = "free" => take # NoFile
  /\ \A t \in Threads :
       /\ pc[t] = "stop" => active /\ take # NoFile
       /\ pc[t] = "deactivate" => active /\ take = NoFile
       /\ pc[t] \in {"count", "announce", "final"} => ~active
  /\ pc["main"] \in {"count", "announce", "final", "callbacks"} => ~discard

(* The files of the directory, and what became of each. *)
Store ==
  /\ last \in OldFiles .. OldFiles + MaxTakes
  /\ take \in 0 .. last /\ path \in 0 .. last
  /\ disk \subseteq 1 .. last
  /\ fate \in [Files -> {"absent", "open", "kept", "discarded", "aborted"}]
  /\ \A k \in Files : k > last => fate[k] = "absent"
  /\ take # NoFile => take \in disk /\ fate[take] = "open" /\ take > OldFiles
  /\ path # NoFile => path \in disk \/ (pc["main"] = "deactivate" /\ discard)

(* An episode is counted once: so far uncounted are the one whose pipeline is up and
   the one whose teardown has not come to it. *)
Due == (IF take # NoFile THEN 1 ELSE 0)
       + (IF pc["main"] \in Uncounted THEN 1 ELSE 0) + (IF pc["monitor"] \in Uncounted THEN 1 ELSE 0)
Counts ==
  /\ index \in Nat /\ total \in Nat
  /\ index + Due <= last + 1
  /\ total + Due <= last - OldFiles

(* The callbacks owed for a closed file are owed by the thread that closed it. *)
Debts ==
  /\ closing \in [Threads -> Files \cup {NoFile}]
  /\ ended \in [Files \cup {NoFile} -> Nat]
  /\ ended[NoFile] = 0
  /\ \A t \in Threads :
       IF pc[t] \in Owing
         THEN /\ closing[t] \in Files
              /\ ended[closing[t]] = 0
              /\ fate[closing[t]] = IF Discarding(t) THEN "discarded" ELSE "kept"
         ELSE closing[t] = NoFile
  /\ closing["main"] = closing["monitor"] => closing["main"] = NoFile
  /\ \A k \in Files : ended[k] <= 1 /\ (ended[k] = 1 => fate[k] = "kept")
  /\ \A k \in Files : k > OldFiles /\ fate[k] = "kept" =>
       ended[k] = 1 \/ \E t \in Threads : closing[t] = k

(* The inductive invariant. *)
Inv == Standing /\ Flags /\ Pipeline /\ Store /\ Counts /\ Debts /\ MonitorThreadFree

LEMMA Initially == Init => Inv
<1> SUFFICES ASSUME Init PROVE Inv
  OBVIOUS
<1>. USE SessionAssumption DEF Init, NoFile, Files, Threads
<1>1. Standing /\ MonitorThreadFree
  BY DEF Standing, MonitorThreadFree, MainPlaces, MonitorPlaces, Labels, Starting, Closing, Locked, Results, At
<1>2. Flags
  BY Zenon DEF Flags
<1>3. Pipeline
  BY DEF Pipeline, Bringing, Locked
<1>4. Store
  BY DEF Store
<1>5. Counts
  BY DEF Counts, Due, Uncounted
<1>6. Debts
  BY DEF Debts, Owing, Discarding
<1>. QED
  BY <1>1, <1>2, <1>3, <1>4, <1>5, <1>6 DEF Inv

(* The steps that belong neither to a call, nor to start_episode, nor to a teardown. *)
OtherStep == MonitorTest \/ MonitorTooSoon \/ MonitorTimeout \/ FinishShutdown \/ DiscardLast
             \/ WaitAutoStopEnds \/ OtherStats

LEMMA NextParts ==
  ASSUME [Next]_vars
  PROVE  \/ Calls \/ StartStep \/ OtherStep \/ (\E t \in Threads : TeardownStep(t))
         \/ UNCHANGED vars
BY DEF Next, Inside, MonitorStep, OtherStep, Threads

LEMMA Parts ==
  ASSUME [Next \/ Aside]_vars
  PROVE  \/ Calls \/ StartStep \/ OtherStep \/ (\E t \in Threads : TeardownStep(t))
         \/ UNCHANGED vars \/ Aside
BY NextParts

LEMMA FlagsStep == ASSUME Inv, [Next \/ Aside]_vars PROVE Flags'
<1>. USE Zenon DEF Inv, Flags, frame, flags, Go, At, Call, Return, Leave, Stay, ReadStats
<1>1. CASE Calls
  BY <1>1 DEF Calls, CallStart, CallStop, CallDiscard, CallShutdown, CallTeardown, CallWaitAutoStop, CallDiscardLast
<1>2. CASE StartStep
  BY <1>2 DEF StartStep, Prepare, OpenFile, OpenFails, PublishPath, BringUp, Abort, Activate,
     ResetAutoStop, ReapSignal, ReapJoin, SpawnMonitor, Started
<1>3. CASE OtherStep
  BY <1>3 DEF OtherStep, MonitorTest, MonitorTooSoon, MonitorTimeout, FinishShutdown, DiscardLast,
     WaitAutoStopEnds, OtherStats
<1>4. ASSUME NEW t \in Threads, TeardownStep(t) PROVE Flags'
  BY <1>4 DEF TeardownStep, Join, Acquire, StopPipeline, Deactivate, Count, Announce, FinalStats, Hooks, Callbacks
<1>5. CASE UNCHANGED vars
  BY <1>5 DEF vars
<1>6. CASE Aside
  BY <1>6 DEF Aside, Waits
<1>. QED
  BY <1>1, <1>2, <1>3, <1>4, <1>5, <1>6, Parts

LEMMA StandingStep == ASSUME Inv, [Next \/ Aside]_vars PROVE Standing'
<1>. USE DEF Inv, Standing, frame, Go, At, Call, Return, Leave, Stay, Threads, MainPlaces, MonitorPlaces,
     Labels, Starting, Closing, Locked, Results
<1>1. CASE Calls
  BY <1>1 DEF Calls, CallStart, CallStop, CallDiscard, CallShutdown, CallTeardown, CallWaitAutoStop, CallDiscardLast
<1>2. CASE StartStep
  BY <1>2 DEF StartStep, Prepare, OpenFile, OpenFails, PublishPath, BringUp, Abort, Activate,
     ResetAutoStop, ReapSignal, ReapJoin, SpawnMonitor, Started
<1>3. CASE OtherStep
  BY <1>3 DEF OtherStep, MonitorTest, MonitorTooSoon, MonitorTimeout, FinishShutdown, DiscardLast,
     WaitAutoStopEnds, OtherStats
<1>4. ASSUME NEW t \in Threads, TeardownStep(t) PROVE Standing'
  <2>1. CASE Join(t) \/ Acquire(t) \/ StopPipeline(t) \/ Deactivate(t)
    BY <1>4, <2>1 DEF Join, Acquire, StopPipeline, Deactivate
  <2>2. CASE Count(t) \/ Announce(t) \/ FinalStats(t) \/ Hooks(t) \/ Callbacks(t)
    BY <1>4, <2>2 DEF Count, Announce, FinalStats, Hooks, Callbacks
  <2>. QED
    BY <1>4, <2>1, <2>2 DEF TeardownStep
<1>5. CASE UNCHANGED vars
  BY <1>5 DEF vars
<1>6. CASE Aside
  BY <1>6 DEF Aside, Waits
<1>. QED
  BY <1>1, <1>2, <1>3, <1>4, <1>5, <1>6, Parts

(* The monitor's std::thread stays free from its join to the next assignment. *)
LEMMA ThreadFreeStep == ASSUME Inv, [Next \/ Aside]_vars PROVE MonitorThreadFree'
<1>. USE DEF Inv, Standing, MonitorThreadFree, Go, At, Call, Return, Leave, Threads
<1>1. CASE Calls
  BY <1>1 DEF Calls, CallStart, CallStop, CallDiscard, CallShutdown, CallTeardown, CallWaitAutoStop, CallDiscardLast
<1>2. CASE StartStep
  BY <1>2 DEF StartStep, Prepare, OpenFile, OpenFails, PublishPath, BringUp, Abort, Activate,
     ResetAutoStop, ReapSignal, ReapJoin, SpawnMonitor, Started
<1>3. CASE OtherStep
  BY <1>3 DEF OtherStep, MonitorTest, MonitorTooSoon, MonitorTimeout, FinishShutdown, DiscardLast,
     WaitAutoStopEnds, OtherStats
<1>4. ASSUME NEW t \in Threads, TeardownStep(t) PROVE MonitorThreadFree'
  BY <1>4 DEF TeardownStep, Join, Acquire, StopPipeline, Deactivate, Count, Announce, FinalStats, Hooks, Callbacks
<1>5. CASE UNCHANGED vars
  BY <1>5 DEF vars
<1>6. CASE Aside
  BY <1>6 DEF Aside, Waits
<1>. QED
  BY <1>1, <1>2, <1>3, <1>4, <1>5, <1>6, Parts

LEMMA PipelineStep == ASSUME Inv, [Next \/ Aside]_vars PROVE Pipeline'
<1>. USE DEF Inv, Standing, Pipeline, Go, At, Call, Return, Leave, Stay, frame, flags, store, Threads,
     Bringing, Locked, NoFile
<1>1. CASE Calls
  BY <1>1 DEF Calls, CallStart, CallStop, CallDiscard, CallShutdown, CallTeardown, CallWaitAutoStop, CallDiscardLast
<1>2. CASE StartStep
  <2>1. CASE Prepare \/ OpenFails \/ PublishPath
    BY <1>2, <2>1 DEF Prepare, OpenFails, PublishPath
  <2>2. CASE OpenFile
    <3>1. take' # NoFile
      BY <2>2, SessionAssumption DEF OpenFile, Store
    <3>. QED
      BY <2>2, <3>1 DEF OpenFile
  <2>3. CASE BringUp("bringUp", "stage") \/ BringUp("stage", "activate") \/ Abort \/ Activate
    BY <1>2, <2>3 DEF BringUp, Abort, Activate
  <2>4. CASE ResetAutoStop \/ ReapSignal \/ ReapJoin \/ Started
    BY <1>2, <2>4 DEF ResetAutoStop, ReapSignal, ReapJoin, Started
  <2>5. CASE SpawnMonitor
    <3>1. pc'["main"] = "teleop" /\ pc'["monitor"] = "test" /\ pc["main"] = "spawn" /\ pc["monitor"] = "none"
      BY <2>5 DEF SpawnMonitor, MonitorThreadFree
    <3>. QED
      BY <2>5, <3>1 DEF SpawnMonitor
  <2>. QED
    BY <1>2, <2>1, <2>2, <2>3, <2>4, <2>5 DEF StartStep
<1>3. CASE OtherStep
  BY <1>3 DEF OtherStep, MonitorTest, MonitorTooSoon, MonitorTimeout, FinishShutdown, DiscardLast,
     WaitAutoStopEnds, OtherStats
<1>4. ASSUME NEW t \in Threads, TeardownStep(t) PROVE Pipeline'
  <2>1. CASE Join(t) \/ Hooks(t) \/ Callbacks(t)
    BY <1>4, <2>1 DEF Join, Hooks, Callbacks, Discarding
  <2>2. CASE Acquire(t)
    BY <1>4, <2>2 DEF Acquire
  <2>3. CASE StopPipeline(t)
    BY <1>4, <2>3 DEF StopPipeline
  <2>4. CASE Deactivate(t)
    BY <1>4, <2>4 DEF Deactivate, Discarding
  <2>5. CASE Count(t) \/ Announce(t) \/ FinalStats(t)
    BY <1>4, <2>5 DEF Count, Announce, FinalStats
  <2>. QED
    BY <1>4, <2>1, <2>2, <2>3, <2>4, <2>5 DEF TeardownStep
<1>5. CASE UNCHANGED vars
  BY <1>5 DEF vars
<1>6. CASE Aside
  BY <1>6 DEF Aside, Waits
<1>. QED
  BY <1>1, <1>2, <1>3, <1>4, <1>5, <1>6, Parts

(* Most steps leave the directory and the published path alone. *)
LEMMA StoreElsewhere ==
  ASSUME Store, UNCHANGED <<store, path, fate>>,
         pc["main"] = "deactivate" /\ discard => (pc["main"] = "deactivate" /\ discard)'
  PROVE  Store'
BY DEF Store, store

LEMMA StoreStep == ASSUME Inv, [Next \/ Aside]_vars PROVE Store'
<1>. USE DEF Inv, Standing, frame, Go, At, Call, Return, Leave, Stay, Threads, books, hist
<1>1. CASE Calls
  BY <1>1, StoreElsewhere DEF Calls, CallStart, CallStop, CallDiscard, CallShutdown, CallTeardown,
     CallWaitAutoStop, CallDiscardLast
<1>2. CASE StartStep
  <2>1. CASE Prepare \/ OpenFails \/ Activate \/ ResetAutoStop \/ ReapSignal \/ ReapJoin \/ SpawnMonitor \/ Started
    BY <1>2, <2>1, StoreElsewhere DEF Prepare, OpenFails, Activate, ResetAutoStop, ReapSignal, ReapJoin,
       SpawnMonitor, Started
  <2>2. CASE BringUp("bringUp", "stage") \/ BringUp("stage", "activate")
    BY <2>2, StoreElsewhere DEF BringUp
  <2>3. CASE OpenFile
    <3>1. last' = last + 1 /\ last + 1 \in Files /\ last' \in OldFiles .. OldFiles + MaxTakes
      BY <2>3, SessionAssumption DEF OpenFile, Store, Files
    <3>2. disk' \subseteq 1 .. last' /\ take' \in disk' /\ path' \in 0 .. last'
      BY <2>3, <3>1, SessionAssumption DEF OpenFile, Store
    <3>3. fate' \in [Files -> {"absent", "open", "kept", "discarded", "aborted"}]
          /\ fate'[take'] = "open" /\ \A k \in Files : k > last' => fate'[k] = "absent"
      BY <2>3, <3>1, SessionAssumption DEF OpenFile, Store, Files
    <3>4. path' # NoFile => path' \in disk'
      BY <2>3 DEF OpenFile, Store
    <3>. QED
      BY <2>3, <3>1, <3>2, <3>3, <3>4, SessionAssumption DEF OpenFile, Store, NoFile
  <2>4. CASE PublishPath
    BY <2>4 DEF PublishPath, Store, store, Pipeline, Bringing
  <2>5. CASE Abort
    <3>1. take # NoFile /\ take \in disk /\ take \in Files
      BY <2>5, SessionAssumption DEF Abort, Store, Pipeline, Bringing, Files
    <3>2. fate' \in [Files -> {"absent", "open", "kept", "discarded", "aborted"}]
          /\ \A k \in Files : k > last => fate'[k] = "absent"
      BY <2>5, <3>1, SessionAssumption DEF Abort, Store, Files
    <3>. QED
      BY <2>5, <3>1, <3>2, SessionAssumption DEF Abort, Store, NoFile
  <2>. QED
    BY <1>2, <2>1, <2>2, <2>3, <2>4, <2>5 DEF StartStep
<1>3. CASE OtherStep
  <2>1. CASE DiscardLast
    <3>1. take = NoFile /\ UNCHANGED <<take, last, fate>>
      BY <2>1 DEF DiscardLast, Pipeline, Bringing
    <3>2. disk' \subseteq disk /\ (disk' # disk => path' = NoFile) /\ path' \in {path, NoFile}
      BY <2>1 DEF DiscardLast
    <3>3. path' # NoFile => path' = path /\ disk' = disk
      BY <3>2
    <3>. QED
      BY <2>1, <3>1, <3>2, <3>3, SessionAssumption DEF DiscardLast, Store, NoFile
  <2>2. CASE MonitorTest \/ MonitorTooSoon \/ MonitorTimeout \/ FinishShutdown \/ WaitAutoStopEnds \/ OtherStats
    BY <2>2, StoreElsewhere DEF MonitorTest, MonitorTooSoon, MonitorTimeout, FinishShutdown, WaitAutoStopEnds, OtherStats
  <2>. QED
    BY <1>3, <2>1, <2>2 DEF OtherStep
<1>4. ASSUME NEW t \in Threads, TeardownStep(t) PROVE Store'
  <2>1. CASE Join(t) \/ Acquire(t) \/ Count(t) \/ Announce(t) \/ FinalStats(t) \/ Hooks(t) \/ Callbacks(t)
    BY <1>4, <2>1, StoreElsewhere DEF Join, Acquire, Count, Announce, FinalStats, Hooks, Callbacks
  <2>2. CASE StopPipeline(t)
    <3>1. take # NoFile /\ take \in disk /\ take \in Files
      BY <1>4, <2>2, SessionAssumption DEF StopPipeline, Store, Pipeline, Files
    <3>2. fate' \in [Files -> {"absent", "open", "kept", "discarded", "aborted"}]
          /\ \A k \in Files : k > last => fate'[k] = "absent"
      BY <2>2, <3>1, SessionAssumption DEF StopPipeline, Store, Files
    <3>3. disk' \subseteq disk /\ UNCHANGED <<path, last, discard>> /\ take' = NoFile /\ pc'[t] = "deactivate"
      BY <1>4, <2>2 DEF StopPipeline, books
    <3>4. path' # NoFile => path' \in disk' \/ (pc'["main"] = "deactivate" /\ discard')
      <4>1. CASE Discarding(t)
        BY <2>2, <3>3, <4>1 DEF Discarding, Store
      <4>2. CASE ~Discarding(t)
        BY <1>4, <2>2, <3>3, <4>2 DEF StopPipeline, Store, Pipeline
      <4>. QED
        BY <4>1, <4>2
    <3>. QED
      BY <3>2, <3>3, <3>4, SessionAssumption DEF Store, NoFile
  <2>3. CASE Deactivate(t)
    BY <1>4, <2>3, SessionAssumption DEF Deactivate, Store, store, Discarding, NoFile, Pipeline
  <2>. QED
    BY <1>4, <2>1, <2>2, <2>3 DEF TeardownStep
<1>5. CASE UNCHANGED vars
  BY <1>5, StoreElsewhere DEF vars
<1>6. CASE Aside
  BY <1>6, StoreElsewhere DEF Aside, Waits
<1>. QED
  BY <1>1, <1>2, <1>3, <1>4, <1>5, <1>6, Parts

(* What is in the directory is at most what was ever numbered. *)
LEMMA DiskSize == Store => Cardinality(disk) \in 0 .. last
<1> SUFFICES ASSUME Store PROVE Cardinality(disk) \in 0 .. last
  OBVIOUS
<1>1. last \in Nat /\ disk \subseteq 1 .. last
  BY SessionAssumption DEF Store
<1>2. IsFiniteSet(1 .. last) /\ Cardinality(1 .. last) = last
  BY <1>1, FS_Interval
<1>3. IsFiniteSet(disk) /\ Cardinality(disk) <= last /\ Cardinality(disk) \in Nat
  BY <1>1, <1>2, FS_Subset, FS_CardinalityType
<1>. QED
  BY <1>1, <1>3

LEMMA CountsStep == ASSUME Inv, [Next \/ Aside]_vars PROVE Counts'
<1>. USE SessionAssumption DEF Inv, Standing, Counts, Due, Uncounted, frame, Go, At, Call, Return, Leave, Stay,
     Threads, books, store, NoFile
<1>0. last \in Nat /\ OldFiles \in Nat /\ take \in Nat
  BY DEF Store
<1>1. CASE Calls
  BY <1>1 DEF Calls, CallStart, CallStop, CallDiscard, CallShutdown, CallTeardown, CallWaitAutoStop, CallDiscardLast
<1>2. CASE StartStep
  <2>1. CASE Prepare
    <3>1. take = NoFile /\ index' \in {index, Cardinality(disk)} /\ UNCHANGED <<total, take, last>>
          /\ pc'["main"] \in {"client", "open"} /\ pc'["monitor"] = pc["monitor"]
      BY <2>1 DEF Prepare, Pipeline, Bringing
    <3>2. index' \in Nat /\ index' + Due' <= last + 1
      <4>1. Due' = Due /\ Due' \in {0, 1}
        BY <2>1, <3>1 DEF Prepare
      <4>2. Cardinality(disk) \in 0 .. last
        BY DiskSize
      <4>3. CASE index' = index
        BY <3>1, <4>1, <4>3
      <4>4. CASE index' = Cardinality(disk)
        BY <1>0, <4>1, <4>2, <4>4
      <4>. QED
        BY <3>1, <4>3, <4>4
    <3>. QED
      BY <2>1, <3>1, <3>2 DEF Prepare
  <2>2. CASE OpenFile
    <3>1. take = NoFile /\ take' # NoFile /\ last' = last + 1 /\ UNCHANGED <<index, total>>
      BY <1>0, <2>2 DEF OpenFile, Pipeline, Bringing
    <3>2. Due' = Due + 1
      BY <2>2, <3>1 DEF OpenFile
    <3>. QED
      BY <1>0, <3>1, <3>2
  <2>3. CASE OpenFails \/ PublishPath \/ Activate \/ ResetAutoStop \/ ReapSignal \/ ReapJoin \/ SpawnMonitor \/ Started
    BY <2>3 DEF OpenFails, PublishPath, Activate, ResetAutoStop, ReapSignal, ReapJoin, SpawnMonitor, Started,
       MonitorThreadFree
  <2>4. CASE BringUp("bringUp", "stage") \/ BringUp("stage", "activate")
    BY <2>4 DEF BringUp
  <2>5. CASE Abort
    BY <1>0, <2>5 DEF Abort
  <2>. QED
    BY <1>2, <2>1, <2>2, <2>3, <2>4, <2>5 DEF StartStep
<1>3. CASE OtherStep
  BY <1>0, <1>3 DEF OtherStep, MonitorTest, MonitorTooSoon, MonitorTimeout, FinishShutdown, DiscardLast,
     WaitAutoStopEnds, OtherStats
<1>4. ASSUME NEW t \in Threads, TeardownStep(t) PROVE Counts'
  <2>1. CASE Join(t) \/ Acquire(t) \/ Announce(t) \/ FinalStats(t) \/ Hooks(t) \/ Callbacks(t)
    BY <2>1 DEF Join, Acquire, Announce, FinalStats, Hooks, Callbacks
  <2>2. CASE StopPipeline(t)
    BY <1>0, <2>2 DEF StopPipeline, Pipeline
  <2>3. CASE Deactivate(t)
    BY <1>0, <2>3 DEF Deactivate
  <2>4. CASE Count(t)
    BY <1>0, <2>4 DEF Count
  <2>. QED
    BY <1>4, <2>1, <2>2, <2>3, <2>4 DEF TeardownStep
<1>5. CASE UNCHANGED vars
  BY <1>5 DEF vars
<1>6. CASE Aside
  BY <1>6 DEF Aside, Waits
<1>. QED
  BY <1>1, <1>2, <1>3, <1>4, <1>5, <1>6, Parts

(* Most steps neither open, close nor lose a file, and leave each thread on its side
   of the callbacks. *)
LEMMA DebtsElsewhere ==
  ASSUME Debts, UNCHANGED <<closing, ended, fate>>,
         \A t \in Threads : pc'[t] \in Owing <=> pc[t] \in Owing,
         pc["main"] \in Owing => discard' = discard
  PROVE  Debts'
BY DEF Debts, Discarding

LEMMA DebtsStep == ASSUME Inv, [Next \/ Aside]_vars PROVE Debts'
<1>. USE DEF Inv, Standing, frame, hist, Go, At, Call, Return, Stay, Threads, Owing
<1>1. CASE Calls
  BY <1>1, DebtsElsewhere DEF Calls, CallStart, CallStop, CallDiscard, CallShutdown, CallTeardown,
     CallWaitAutoStop, CallDiscardLast
<1>2. CASE StartStep
  <2>1. CASE Prepare \/ OpenFails \/ PublishPath \/ Activate \/ ResetAutoStop \/ ReapSignal \/ ReapJoin \/ Started
    BY <2>1, DebtsElsewhere DEF Prepare, OpenFails, PublishPath, Activate, ResetAutoStop, ReapSignal, ReapJoin, Started
  <2>2. CASE BringUp("bringUp", "stage") \/ BringUp("stage", "activate")
    BY <2>2, DebtsElsewhere DEF BringUp
  <2>3. CASE SpawnMonitor
    BY <2>3, DebtsElsewhere DEF SpawnMonitor, MonitorThreadFree
  <2>4. CASE OpenFile
    <3>1. last + 1 \in Files /\ fate[last + 1] = "absent"
      BY <2>4, SessionAssumption DEF OpenFile, Store, Files
    <3>2. UNCHANGED <<closing, ended, discard>> /\ fate' = [fate EXCEPT ![last + 1] = "open"]
      BY <2>4 DEF OpenFile
    <3>3. \A k \in Files : fate'[k] = "kept" <=> fate[k] = "kept"
      BY <3>1, <3>2 DEF Store
    <3>4. ASSUME NEW t \in Threads
          PROVE  /\ pc'[t] \in Owing <=> pc[t] \in Owing
                 /\ pc[t] \in Owing => fate'[closing[t]] = fate[closing[t]]
      BY <2>4, <3>1, <3>2 DEF OpenFile, Debts, Store, Discarding
    <3>. QED
      BY <3>2, <3>3, <3>4 DEF Debts, Discarding
  <2>5. CASE Abort
    <3>1. take \in Files /\ fate[take] = "open"
      BY <2>5, SessionAssumption DEF Abort, Store, Pipeline, Bringing, Files
    <3>2. UNCHANGED <<closing, ended, discard>> /\ fate' = [fate EXCEPT ![take] = "aborted"]
      BY <2>5 DEF Abort
    <3>3. \A k \in Files : fate'[k] = "kept" <=> fate[k] = "kept"
      BY <3>1, <3>2 DEF Store
    <3>4. ASSUME NEW t \in Threads
          PROVE  /\ pc'[t] \in Owing <=> pc[t] \in Owing
                 /\ pc[t] \in Owing => fate'[closing[t]] = fate[closing[t]]
      BY <2>5, <3>1, <3>2 DEF Abort, Debts, Store, Discarding
    <3>. QED
      BY <3>2, <3>3, <3>4 DEF Debts, Discarding
  <2>. QED
    BY <1>2, <2>1, <2>2, <2>3, <2>4, <2>5 DEF StartStep
<1>3. CASE OtherStep
  BY <1>3, DebtsElsewhere DEF OtherStep, MonitorTest, MonitorTooSoon, MonitorTimeout, FinishShutdown, DiscardLast,
     WaitAutoStopEnds, OtherStats
<1>4. ASSUME NEW t \in Threads, TeardownStep(t) PROVE Debts'
  <2>1. CASE Join(t) \/ Deactivate(t) \/ Count(t) \/ Announce(t) \/ FinalStats(t)
    BY <1>4, <2>1, DebtsElsewhere DEF Join, Deactivate, Count, Announce, FinalStats
  <2>2. CASE Acquire(t)
    BY <1>4, <2>2 DEF Acquire, Leave, Debts, Discarding
  <2>3. CASE StopPipeline(t)
    <3>1. take \in Files /\ fate[take] = "open" /\ pc[t] = "stop" /\ pc'[t] = "deactivate"
      BY <1>4, <2>3, SessionAssumption DEF StopPipeline, Store, Pipeline, Files
    <3>2. closing' = [closing EXCEPT ![t] = take] /\ UNCHANGED <<ended, discard>>
          /\ fate' = [fate EXCEPT ![take] = IF Discarding(t) THEN "discarded" ELSE "kept"]
          /\ pc' = [pc EXCEPT ![t] = "deactivate"]
      BY <2>3 DEF StopPipeline
    <3>3. ended[take] = 0
      BY <3>1 DEF Debts
    <3>4. \A u \in Threads : closing[u] # take
      BY <1>4, <3>1 DEF Debts, Discarding, NoFile, Files
    <3>5. \A k \in Files \ {take} : fate'[k] = fate[k]
      BY <3>2 DEF Store
    <3>6. fate'[take] = (IF Discarding(t) THEN "discarded" ELSE "kept") /\ closing'[t] = take
      BY <1>4, <3>1, <3>2 DEF Debts, Store
    <3>7. ASSUME NEW u \in Threads \ {t}
          PROVE  closing'[u] = closing[u] /\ pc'[u] = pc[u] /\ closing[u] \in (Files \ {take}) \cup {NoFile}
      BY <1>4, <3>2, <3>4, <3>7 DEF Debts
    <3>8. ASSUME NEW u \in Threads
          PROVE  IF pc'[u] \in Owing
                   THEN /\ closing'[u] \in Files
                        /\ ended'[closing'[u]] = 0
                        /\ fate'[closing'[u]] = IF Discarding(u)' THEN "discarded" ELSE "kept"
                   ELSE closing'[u] = NoFile
      <4>1. CASE u = t
        BY <3>1, <3>2, <3>3, <3>6, <4>1 DEF Discarding
      <4>2. CASE u # t
        <5>1. closing'[u] = closing[u] /\ pc'[u] = pc[u] /\ Discarding(u)' = Discarding(u)
          BY <3>2, <3>7, <4>2 DEF Discarding
        <5>2. CASE pc[u] \in Owing
          <6>1. closing[u] \in Files \ {take} /\ ended[closing[u]] = 0
                /\ fate[closing[u]] = IF Discarding(u) THEN "discarded" ELSE "kept"
            BY <3>4, <5>2 DEF Debts
          <6>2. fate'[closing[u]] = fate[closing[u]]
            BY <3>5, <6>1
          <6>. QED
            BY <3>2, <5>1, <5>2, <6>1, <6>2
        <5>3. CASE pc[u] \notin Owing
          BY <5>1, <5>3 DEF Debts
        <5>. QED
          BY <5>2, <5>3
      <4>. QED
        BY <4>1, <4>2
    <3>9. closing'["main"] = closing'["monitor"] => closing'["main"] = NoFile
      BY <1>4, <3>4, <3>6, <3>7
    <3>10. ASSUME NEW k \in Files
           PROVE  /\ ended'[k] <= 1 /\ (ended'[k] = 1 => fate'[k] = "kept")
                  /\ k > OldFiles /\ fate'[k] = "kept" => ended'[k] = 1 \/ \E u \in Threads : closing'[u] = k
      <4>1. CASE k = take
        BY <1>4, <3>2, <3>3, <3>6, <4>1
      <4>2. CASE k # take
        <5>1. ASSUME NEW u \in Threads, closing[u] = k PROVE closing'[u] = k
          <6>1. u # t
            BY <1>4, <3>1, <4>2, <5>1 DEF Debts, NoFile, Files
          <6>. QED
            BY <3>7, <5>1, <6>1
        <5>. QED
          BY <3>2, <3>5, <4>2, <5>1 DEF Debts
      <4>. QED
        BY <4>1, <4>2
    <3>11. closing' \in [Threads -> Files \cup {NoFile}] /\ ended' \in [Files \cup {NoFile} -> Nat] /\ ended'[NoFile] = 0
      BY <3>1, <3>2 DEF Debts
    <3>. QED
      BY <3>8, <3>9, <3>10, <3>11 DEF Debts
  <2>4. CASE Hooks(t)
    BY <1>4, <2>4 DEF Hooks, Leave, Debts, Discarding
  <2>5. CASE Callbacks(t)
    BY <1>4, <2>5 DEF Callbacks, Leave, Debts, Discarding, Pipeline, Files, NoFile
  <2>. QED
    BY <1>4, <2>1, <2>2, <2>3, <2>4, <2>5 DEF TeardownStep
<1>5. CASE UNCHANGED vars
  BY <1>5, DebtsElsewhere DEF vars
<1>6. CASE Aside
  BY <1>6, DebtsElsewhere DEF Aside, Waits
<1>. QED
  BY <1>1, <1>2, <1>3, <1>4, <1>5, <1>6, Parts

LEMMA InvStep == ASSUME Inv, [Next \/ Aside]_vars PROVE Inv'
BY StandingStep, FlagsStep, PipelineStep, StoreStep, CountsStep, DebtsStep, ThreadFreeStep DEF Inv

(* The standing of the threads, the pipeline, the directory, the counters and the
   callbacks owed are invariant. *)
THEOREM SessionInvariance == Spec => []Inv
<1>1. Inv /\ [Next]_vars => Inv'
  BY InvStep
<1>. QED
  BY Initially, <1>1, PTL DEF Spec

(* Every variable has its type: above all, no counter outgrows the files. *)
THEOREM SessionTypes == Spec => []TypeOK
<1>1. Inv => TypeOK
  <2> SUFFICES ASSUME Inv PROVE TypeOK
    OBVIOUS
  <2>. USE SessionAssumption DEF Inv
  <2>1. IsFiniteSet(Files) /\ Cardinality(Files) = OldFiles + MaxTakes
    <3>1. 1 \in Int /\ OldFiles + MaxTakes \in Int /\ OldFiles + MaxTakes >= 0
      OBVIOUS
    <3>. QED
      BY <3>1, FS_Interval DEF Files
  <2>2. Due \in Nat
    BY DEF Due
  <2>3. index \in 0 .. Cardinality(Files) + 1 /\ total \in 0 .. MaxTakes
    <3>. HIDE DEF Inv
    <3>. QED
      BY <2>1, <2>2 DEF Inv, Counts, Store
  <2>4. take \in Files \cup {NoFile} /\ path \in Files \cup {NoFile} /\ last \in Files \cup {NoFile} /\ disk \subseteq Files
    BY DEF Store, Files, NoFile
  <2>5. pc \in [Threads -> Labels \cup {"none", "test", "sleep", "ended"}]
    BY DEF Standing, MainPlaces, MonitorPlaces, Labels, Closing, Locked
  <2>6. after \in {"client", "finish"} /\ lock \in Threads \cup {"free"} /\ result \in Results
    BY DEF Standing
  <2>7. fate \in [Files -> {"absent", "open", "kept", "discarded", "aborted"}]
        /\ ended \in [Files \cup {NoFile} -> Nat] /\ closing \in [Threads -> Files \cup {NoFile}]
    BY DEF Store, Debts
  <2>. QED
    BY <2>3, <2>4, <2>5, <2>6, <2>7, Zenon DEF TypeOK, Flags
<1>. QED
  BY <1>1, SessionInvariance, PTL

LEMMA InvMeans == Inv => NoOrphanPipeline /\ EndedOnce /\ PathExists
<1>1. Inv => NoOrphanPipeline
  BY DEF Inv, Pipeline, NoOrphanPipeline, Bringing
<1>2. Inv => EndedOnce
  BY DEF Inv, Debts, EndedOnce, At, Owing, NoFile, Threads, Files
<1>3. Inv => PathExists
  BY DEF Inv, Store, Pipeline, PathExists, Locked, Threads
<1>. QED
  BY <1>1, <1>2, <1>3

(* No aborted or raced call leaves a pipeline behind. *)
THEOREM NoOrphanHolds == Spec => []NoOrphanPipeline
BY InvMeans, SessionInvariance, PTL

(* However the calls and the auto-stop meet, a kept episode's callbacks run once. *)
THEOREM EndedOnceHolds == Spec => []EndedOnce
BY InvMeans, SessionInvariance, PTL

(* The path stats() reports exists. *)
THEOREM PathExistsHolds == Spec => []PathExists
BY InvMeans, SessionInvariance, PTL

(* No joinable std::thread is assigned over. *)
THEOREM MonitorThreadFreeHolds == Spec => []MonitorThreadFree
<1>1. Inv => MonitorThreadFree
  BY DEF Inv
<1>. QED
  BY <1>1, SessionInvariance, PTL

(***************************************************************************)
(* The mirror under the session manager: the composed system is the        *)
(* session with steps of its own, so whatever is proved of the session     *)
(* holds of it; and the mirror drives the arms only when they were         *)
(* prepared for it, for any number of files and episodes.                  *)
(*                                                                         *)
(* It rests on the joins: a paused mirror is over before the arms are      *)
(* staged, and shutdown has no monitor thread left to run hooks.           *)
(***************************************************************************)
(* Every step of the composed system is one of the session, or none of its business. *)
LEMMA TeleopIsSession == ASSUME [TeleopNext]_allVars PROVE [Next]_vars
<1>1. CASE MirrorStep \/ UNCHANGED allVars
  BY <1>1 DEF MirrorStep, MirrorTest, MirrorActs, MirrorDies, allVars
<1>2. CASE Elsewhere(Next)
  BY <1>2 DEF Elsewhere
<1>3. CASE StagingThrows \/ PrepareTeleop
  BY <1>3 DEF StagingThrows, PrepareTeleop, Next, Inside, StartStep
<1>4. CASE SignalMirror("stage") \/ Pause \/ Staged
  BY <1>4 DEF SignalMirror, Pause, Staged
<1>5. CASE ExchangeRunning \/ SpawnMirror
  BY <1>5 DEF ExchangeRunning, SpawnMirror, Next, Inside, StartStep
<1>6. CASE Finish
  BY <1>6 DEF Finish, StopTeleop, SignalMirror, Next, Inside
<1>. QED
  BY <1>1, <1>2, <1>3, <1>4, <1>5, <1>6 DEF TeleopNext, TeleopCall

(* The composed system implements the session: every property of the session alone is its own. *)
THEOREM TeleopImplementsSession == TeleopSpec => Spec
<1>1. TeleopInit => Init
  BY DEF TeleopInit
<1>. QED
  BY <1>1, TeleopIsSession, PTL DEF TeleopSpec, Spec

(* main past the join of its own teardown: no monitor thread until the next start. *)
Alone == {"lock", "stop", "deactivate", "count", "announce", "final", "hooks", "callbacks", "finish"}
Quiet == {"join", "lock", "finish", "discardLast", "waitAuto"} \cup Waits

Terminal ==
  /\ pc["main"] \in Alone => pc["monitor"] = "none"
  /\ pc["main"] \in {"hooks", "callbacks", "finish"} => ~active
  /\ shut => ~active /\ pc["monitor"] = "none" /\ pc["main"] \in Quiet

(* The places of main at which the mirror is stopped and the arms stand ready. *)
Ready == {"activate", "autoReset", "reap", "reapJoin", "spawn", "teleop"}

Flag == running \in BOOLEAN
Mirror ==
  /\ arms \in {"configured", "staged", "teleop", "released"}
  /\ mirror \in MirrorPlaces /\ inside \in {"no", "join", "hooks", "prepare"}
  /\ inside = "join" => pc["main"] \in {"stage", "teleop", "finish"}
  /\ inside = "join" /\ pc["main"] = "stage" => ~running
  /\ inside \in {"hooks", "prepare"} => pc["main"] = "stage" /\ mirror = "none" /\ ~running
  /\ pc["main"] \in Ready => mirror = "none" /\ arms = "teleop" /\ (inside = "no" => ~running)
  /\ mirror \in {"test", "act", "throw"} => arms = "teleop"
  /\ arms = "released" => shut /\ mirror = "none" /\ inside = "no"

TInv == Inv /\ Terminal /\ Flag /\ Mirror

LEMMA TerminalStep == ASSUME Inv, Terminal, [Next \/ Aside]_vars PROVE Terminal'
<1>. USE DEF TInv, Inv, Standing, Pipeline, Terminal, Go, At, Call, Return, Leave, Stay, flags, Threads,
     Alone, Quiet, Waits, Locked, Bringing
<1>1. CASE Calls
  BY <1>1 DEF Calls, CallStart, CallStop, CallDiscard, CallShutdown, CallTeardown, CallWaitAutoStop, CallDiscardLast
<1>2. CASE StartStep
  BY <1>2 DEF StartStep, Prepare, OpenFile, OpenFails, PublishPath, BringUp, Abort, Activate,
     ResetAutoStop, ReapSignal, ReapJoin, SpawnMonitor, Started
<1>3. CASE OtherStep
  BY <1>3 DEF OtherStep, MonitorTest, MonitorTooSoon, MonitorTimeout, FinishShutdown, DiscardLast,
     WaitAutoStopEnds, OtherStats
<1>4. ASSUME NEW t \in Threads, TeardownStep(t) PROVE Terminal'
  <2>1. CASE Join(t) \/ Acquire(t) \/ StopPipeline(t) \/ Deactivate(t)
    BY <1>4, <2>1 DEF Join, Acquire, StopPipeline, Deactivate
  <2>2. CASE Count(t) \/ Announce(t) \/ FinalStats(t) \/ Hooks(t) \/ Callbacks(t)
    BY <1>4, <2>2 DEF Count, Announce, FinalStats, Hooks, Callbacks
  <2>. QED
    BY <1>4, <2>1, <2>2 DEF TeardownStep
<1>5. CASE UNCHANGED vars
  BY <1>5 DEF vars
<1>6. CASE Aside
  BY <1>6 DEF Aside, Waits
<1>. QED
  BY <1>1, <1>2, <1>3, <1>4, <1>5, <1>6, Parts

(* The steps of the session alone keep main where it is while it is inside the controller, and
   bring it among the places of Ready only from there. *)
LEMMA MainMoves ==
  ASSUME TInv, Elsewhere(Next)
  PROVE  /\ pc["main"] \in {"stage", "teleop", "finish"} => pc'["main"] = pc["main"]
         /\ pc'["main"] \in Ready => pc["main"] \in Ready
         /\ shut => shut'
<1>. USE DEF TInv, Inv, Standing, Elsewhere, Ready, Go, At, Call, Return, Leave, Stay, flags, Threads
<1>0. [Next]_vars
  BY DEF Next
<1>1. CASE Calls
  BY <1>1 DEF Calls, CallStart, CallStop, CallDiscard, CallShutdown, CallTeardown, CallWaitAutoStop, CallDiscardLast
<1>2. CASE StartStep
  BY <1>2 DEF StartStep, Prepare, OpenFile, OpenFails, PublishPath, BringUp, Abort, Activate,
     ResetAutoStop, ReapSignal, ReapJoin, SpawnMonitor, Started
<1>3. CASE OtherStep
  BY <1>3 DEF OtherStep, MonitorTest, MonitorTooSoon, MonitorTimeout, FinishShutdown, DiscardLast,
     WaitAutoStopEnds, OtherStats
<1>4. ASSUME NEW t \in Threads, TeardownStep(t)
      PROVE  /\ pc["main"] \in {"stage", "teleop", "finish"} => pc'["main"] = pc["main"]
             /\ pc'["main"] \in Ready => pc["main"] \in Ready
             /\ shut => shut'
  <2>1. CASE Join(t) \/ Acquire(t) \/ StopPipeline(t) \/ Deactivate(t)
    BY <1>4, <2>1 DEF Join, Acquire, StopPipeline, Deactivate
  <2>2. CASE Count(t) \/ Announce(t) \/ FinalStats(t) \/ Hooks(t) \/ Callbacks(t)
    BY <1>4, <2>2 DEF Count, Announce, FinalStats, Hooks, Callbacks
  <2>. QED
    BY <1>4, <2>1, <2>2 DEF TeardownStep
<1>5. CASE UNCHANGED vars
  BY <1>5 DEF vars
<1>. QED
  BY <1>0, <1>1, <1>2, <1>3, <1>4, <1>5, NextParts

LEMMA MirrorInv == ASSUME TInv, [TeleopNext]_allVars PROVE Mirror'
<1>. USE DEF TInv, Inv, Standing, Terminal, Quiet, Waits, Mirror, MirrorPlaces, MirrorJoined, Ready, Go, At, Return, Threads, flags
<1>1. CASE MirrorStep
  BY <1>1 DEF MirrorStep, MirrorTest, MirrorActs, MirrorDies, vars
<1>2. CASE SignalMirror("stage") \/ Pause \/ Staged
  BY <1>2 DEF SignalMirror, Pause, Staged, vars
<1>3. CASE StagingThrows \/ PrepareTeleop
  BY <1>3 DEF StagingThrows, Abort, PrepareTeleop, BringUp
<1>4. CASE ExchangeRunning \/ SpawnMirror
  BY <1>4 DEF ExchangeRunning, SpawnMirror, Started, vars
<1>5. CASE Finish
  BY <1>5 DEF Finish, SignalMirror, StopTeleop, FinishShutdown, teleopVars, vars
<1>6. CASE Elsewhere(Next)
  BY <1>6, MainMoves DEF Elsewhere, teleopVars
<1>7. CASE UNCHANGED allVars
  BY <1>7 DEF allVars, teleopVars, vars
<1>. QED
  BY <1>1, <1>2, <1>3, <1>4, <1>5, <1>6, <1>7 DEF TeleopNext, TeleopCall

LEMMA FlagStep == ASSUME Flag, [TeleopNext]_allVars PROVE Flag'
BY Zenon DEF Flag, TeleopNext, MirrorStep, MirrorTest, MirrorActs, MirrorDies, TeleopCall, SignalMirror, Pause, Staged,
   StagingThrows, PrepareTeleop, ExchangeRunning, SpawnMirror, Finish, StopTeleop, Elsewhere, teleopVars, allVars

LEMMA TeleopInitially == TeleopInit => TInv
<1> SUFFICES ASSUME TeleopInit PROVE TInv
  OBVIOUS
<1>1. Flag
  BY Zenon DEF TeleopInit, Flag
<1>2. Terminal /\ Mirror
  BY DEF TeleopInit, Init, Threads, Terminal, Alone, Quiet, Waits, Mirror, MirrorPlaces, Ready
<1>. QED
  BY <1>1, <1>2, Initially DEF TInv, TeleopInit

(* The inductive invariant of the composed system. *)
THEOREM TeleopInvariance == TeleopSpec => []TInv
<1>1. TInv /\ [TeleopNext]_allVars => TInv'
  <2> SUFFICES ASSUME TInv, [TeleopNext]_allVars PROVE TInv'
    OBVIOUS
  <2>1. [Next]_vars
    BY TeleopIsSession
  <2>2. Inv'
    BY <2>1, InvStep DEF TInv
  <2>. QED
    BY <2>1, <2>2, TerminalStep, FlagStep, MirrorInv DEF TInv
<1>. QED
  BY TeleopInitially, <1>1, PTL DEF TeleopSpec

(* The mirror drives the arms only when they were last prepared for it: the joins of
   pause_teleop and stop_teleop in teleop_controller.cpp, and the order of shutdown. *)
THEOREM ArmsInOrderHolds == TeleopSpec => []ArmsInOrder
<1>1. TInv => ArmsInOrder
  BY DEF TInv, Mirror, Terminal, Quiet, Waits, ArmsInOrder, At, Threads
<1>. QED
  BY TeleopInvariance, <1>1, PTL

(* The composed system is well typed. *)
THEOREM TeleopTypes == TeleopSpec => []TeleopTypeOK
<1>1. TInv /\ TypeOK => TeleopTypeOK
  BY Zenon DEF TInv, Flag, Mirror, TeleopTypeOK
<1>. QED
  BY <1>1, TeleopInvariance, TeleopImplementsSession, SessionTypes, PTL
=============================================================================
