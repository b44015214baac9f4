----------------------------- MODULE DatasetProofs -----------------------------
(***************************************************************************)
(* The programs that keep a LeRobot v2 dataset, for any number of image    *)
(* workers, any limit of their queue, any number of frames, episodes,      *)
(* failing files and ends of the process, any recordings and any streams:  *)
(*   - no frame is left behind when the image workers are joined: a job is *)
(*     queued, held by a worker, written, or one that could not be         *)
(*     written, and a worker that has ended left an empty queue behind, to *)
(*     which nothing is added; every colour frame was queued;              *)
(*   - what the metadata list is what is there: by the place of a session  *)
(*     in its close or discard, and by the order of the converter's writes *)
(*     (ConverterProofs);                                                  *)
(*   - the rows are those that a search of every stream would make.        *)
(***************************************************************************)
EXTENDS DatasetTools, ConverterProofs, SequenceTheorems

AnyJob == [frame : Nat, depth : BOOLEAN]
WorkerPlaces == {"top", "lock", "block", "asleep", "encode", "drain", "flush", "off"}

(* The workers exist from open() to their join. *)
Recording == {"open", "depth", "signal"}
Ending == {"notify", "join"}
Places == Recording \cup Ending \cup Finalising \cup Discarding \cup {"idle"}

Queued == {jobs[n] : n \in 1 .. Len(jobs)}
Holding == {w \in Encoders : worker[w] \in {"encode", "flush"}}
Held == {job[w] : w \in Holding}

Kinds ==
  /\ session \in Places /\ frames \in Nat
  /\ jobs \in Seq(AnyJob)
  /\ worker \in [Encoders -> WorkerPlaces] /\ job \in [Encoders -> AnyJob]

WorkersBySession ==
  /\ session \in Recording =>
       working /\ \A w \in Encoders : worker[w] \notin {"drain", "flush", "off"}
  /\ session \in Ending => ~working /\ \A w \in Encoders : worker[w] = "off" => jobs = << >>
  /\ session \notin Recording \cup Ending => \A w \in Encoders : worker[w] = "off"

NoJobLost ==
  /\ session \in Recording \cup Ending => pushed = Settled \cup Queued \cup Held
  /\ session \in Finalising => pushed = Settled

Colour(f) == [frame |-> f, depth |-> FALSE]
EveryColour ==
  session \in Recording \cup Ending \cup Finalising => \A f \in 1 .. frames : Colour(f) \in pushed

WInv == Kinds /\ WorkersBySession /\ NoJobLost /\ EveryColour

USE DEF Recording, Ending, Finalising, Discarding

LEMMA Queueing ==
  ASSUME jobs \in Seq(AnyJob), NEW j \in AnyJob, jobs' = Append(jobs, j)
  PROVE  jobs' \in Seq(AnyJob) /\ Queued' = Queued \cup {j}
BY DEF Queued

LEMMA Popping ==
  ASSUME jobs \in Seq(AnyJob), jobs # << >>, jobs' = Tail(jobs)
  PROVE  jobs' \in Seq(AnyJob) /\ Head(jobs) \in AnyJob /\ Queued = Queued' \cup {Head(jobs)}
<1>1. /\ Len(jobs) \in Nat /\ Len(jobs) >= 1
      /\ jobs' \in Seq(AnyJob) /\ Head(jobs) = jobs[1] /\ Head(jobs) \in AnyJob
      /\ Len(jobs') = Len(jobs) - 1
      /\ \A n \in 1 .. Len(jobs') : jobs'[n] = jobs[n + 1]
  OBVIOUS
<1>2. ASSUME NEW n \in 1 .. Len(jobs) PROVE jobs[n] \in Queued' \cup {Head(jobs)}
  <2>1. CASE n = 1
    BY <1>1, <2>1
  <2>2. CASE n # 1
    <3>1. n - 1 \in 1 .. Len(jobs') /\ jobs'[n - 1] = jobs[n]
      BY <1>1, <2>2
    <3>. QED
      BY <3>1 DEF Queued
  <2>. QED
    BY <2>1, <2>2
<1>3. ASSUME NEW n \in 1 .. Len(jobs') PROVE jobs'[n] \in Queued
  <2>1. n + 1 \in 1 .. Len(jobs)
    BY <1>1
  <2>. QED
    BY <1>1, <2>1 DEF Queued
<1>4. Head(jobs) \in Queued
  <2>1. 1 \in 1 .. Len(jobs)
    BY <1>1
  <2>. QED
    BY <1>1, <2>1 DEF Queued
<1>. QED
  BY <1>1, <1>2, <1>3, <1>4 DEF Queued

LEMMA Initially == DatasetToolsInit => WInv
<1> SUFFICES ASSUME DatasetToolsInit PROVE WInv
  OBVIOUS
<1>. USE DEF DatasetToolsInit, BackendInit
<1>1. Kinds
  BY DEF Kinds, Places, AnyJob, NoJob, WorkerPlaces
<1>2. WorkersBySession
  BY DEF WorkersBySession
<1>. QED
  BY <1>1, <1>2 DEF WInv, NoJobLost, EveryColour

(* The steps at which no worker runs, before and after. *)
LEMMA WithoutWorkers ==
  ASSUME WInv, session \notin Recording \cup Ending, session' \in Finalising \cup Discarding \cup {"idle"},
         UNCHANGED <<jobs, worker, job>>, frames' \in Nat,
         session' \in Finalising => session \in Finalising /\ UNCHANGED <<pushed, Settled, frames>>
  PROVE  WInv'
BY DEF WInv, Kinds, Places, WorkersBySession, NoJobLost, EveryColour

LEMMA OpenStep == ASSUME WInv, Open PROVE WInv'
<1>1. /\ session' = "open" /\ frames' = 0 /\ jobs' = << >> /\ pushed' = {} /\ Settled' = {}
      /\ working' = TRUE /\ worker' = [w \in Encoders |-> "top"] /\ job' = job
  BY DEF Open, At, Settled
<1>2. Kinds' /\ WorkersBySession'
  BY <1>1 DEF WInv, Kinds, Places, WorkerPlaces, WorkersBySession
<1>3. Held' = {} /\ Queued' = {}
  BY <1>1 DEF Held, Holding, Queued
<1>. QED
  BY <1>1, <1>2, <1>3 DEF WInv, NoJobLost, EveryColour

(* A notified worker tests again: it holds what it held. *)
LEMMA Notified ==
  ASSUME WInv, NotifyOne, UNCHANGED job
  PROVE  /\ worker' \in [Encoders -> WorkerPlaces] /\ Held' = Held
         /\ \A w \in Encoders : worker'[w] \in {"drain", "flush", "off"} => worker'[w] = worker[w]
<1>1. CASE UNCHANGED worker
  BY <1>1 DEF WInv, Kinds, Held, Holding
<1>2. ASSUME NEW w \in Encoders, worker[w] = "asleep", worker' = [worker EXCEPT ![w] = "lock"]
      PROVE  /\ worker' \in [Encoders -> WorkerPlaces] /\ Held' = Held
             /\ \A v \in Encoders : worker'[v] \in {"drain", "flush", "off"} => worker'[v] = worker[v]
  <2>1. worker' \in [Encoders -> WorkerPlaces]
        /\ \A v \in Encoders : worker'[v] = worker[v] \/ (v = w /\ worker'[v] = "lock")
    BY <1>2 DEF WInv, Kinds, WorkerPlaces
  <2>2. Holding' = Holding
    BY <1>2, <2>1 DEF Holding
  <2>. QED
    BY <2>1, <2>2 DEF Held
<1>. QED
  BY <1>1, <1>2 DEF NotifyOne

LEMMA WriteStep == ASSUME WInv, WriteColour \/ WriteDepth PROVE WInv'
<1>1. /\ session \in Recording /\ session' \in Recording /\ NotifyOne
      /\ UNCHANGED <<working, job, Settled>> /\ frames' \in {frames, frames + 1}
  BY DEF WriteColour, WriteDepth, At, caller, Settled
<1>2. /\ worker' \in [Encoders -> WorkerPlaces] /\ Held' = Held
      /\ \A w \in Encoders : worker'[w] \in {"drain", "flush", "off"} => worker'[w] = worker[w]
  BY <1>1, Notified
<1>3. jobs' \in Seq(AnyJob) /\ pushed' = Settled \cup Queued' \cup Held
  <2>0. jobs \in Seq(AnyJob) /\ pushed = Settled \cup Queued \cup Held /\ frames \in Nat
    BY <1>1 DEF WInv, Kinds, NoJobLost
  <2>1. CASE UNCHANGED <<jobs, pushed>>
    BY <2>0, <2>1 DEF Queued
  <2>2. ASSUME NEW j \in AnyJob, Enqueue(j) PROVE jobs' \in Seq(AnyJob) /\ pushed' = Settled \cup Queued' \cup Held
    BY <2>0, <2>2, Queueing DEF Enqueue
  <2>3. [frame |-> frames + 1, depth |-> FALSE] \in AnyJob /\ [frame |-> frames, depth |-> TRUE] \in AnyJob
    BY <2>0 DEF AnyJob
  <2>. QED
    BY <2>1, <2>2, <2>3 DEF WriteColour, WriteDepth
<1>4. EveryColour'
  <2>1. frames \in Nat /\ \A f \in 1 .. frames : Colour(f) \in pushed
    BY <1>1 DEF WInv, Kinds, EveryColour
  <2>2. CASE WriteColour
    <3>1. frames' = frames + 1 /\ pushed' = pushed \cup {Colour(frames + 1)}
      BY <2>2 DEF WriteColour, Enqueue, Colour
    <3>. QED
      BY <2>1, <3>1 DEF EveryColour
  <2>3. CASE WriteDepth
    <3>1. frames' = frames /\ pushed \subseteq pushed'
      BY <2>3 DEF WriteDepth, Enqueue, caller
    <3>. QED
      BY <2>1, <3>1 DEF EveryColour
  <2>. QED
    BY <2>2, <2>3
<1>. QED
  BY <1>1, <1>2, <1>3, <1>4 DEF WInv, Kinds, Places, WorkersBySession, NoJobLost

(* What one step of a worker does to the holders. *)
LEMMA HoldersMove ==
  ASSUME WInv, NEW w \in Encoders, NEW from \in WorkerPlaces, NEW to \in WorkerPlaces,
         worker[w] = from, worker' = [worker EXCEPT ![w] = to]
  PROVE  /\ worker' \in [Encoders -> WorkerPlaces] /\ worker[w] = from /\ worker'[w] = to
         /\ \A v \in Encoders : v # w => worker'[v] = worker[v]
         /\ to \in {"encode", "flush"} => Holding' = Holding \cup {w}
         /\ to \notin {"encode", "flush"} => Holding' = Holding \ {w}
<1>1. /\ worker' \in [Encoders -> WorkerPlaces] /\ worker[w] = from /\ worker'[w] = to
      /\ \A v \in Encoders : v # w => worker'[v] = worker[v]
  BY DEF WInv, Kinds
<1>2. ASSUME to \in {"encode", "flush"} PROVE Holding' = Holding \cup {w}
  <2>1. \A v \in Encoders : worker'[v] \in {"encode", "flush"} <=> v = w \/ worker[v] \in {"encode", "flush"}
    BY <1>1, <1>2
  <2>. QED
    BY <2>1 DEF Holding
<1>3. ASSUME to \notin {"encode", "flush"} PROVE Holding' = Holding \ {w}
  <2>1. \A v \in Encoders : worker'[v] \in {"encode", "flush"} <=> v # w /\ worker[v] \in {"encode", "flush"}
    BY <1>1, <1>3
  <2>. QED
    BY <2>1 DEF Holding
<1>. QED
  BY <1>1, <1>2, <1>3

LEMMA WorkerStep == ASSUME WInv, NEW w \in Encoders, Worker(w) PROVE WInv'
<1>0. /\ UNCHANGED <<session, frames, working, pushed>> /\ worker[w] # "off"
      /\ session \in Recording \cup Ending
  BY DEF Worker, WorkerTests, WorkerFindsNothing, WorkerSleeps, WorkerPops, WorkerEncodes, WorkerEnds,
     Untouched, caller, Goes, WInv, WorkersBySession
<1>01. EveryColour'
  BY <1>0 DEF WInv, EveryColour
<1>1. CASE WorkerTests(w) \/ WorkerFindsNothing(w) \/ WorkerSleeps(w) \/ WorkerEnds(w)
  <2>1. UNCHANGED <<jobs, job, Settled>>
    BY <1>1 DEF Settled, WorkerTests, WorkerFindsNothing, WorkerSleeps, WorkerEnds
  <2>2. /\ worker[w] \notin {"encode", "flush"}
        /\ \E from, to \in WorkerPlaces :
             /\ to \notin {"encode", "flush"} /\ Goes(w, from, to)
             /\ to = "drain" => ~working
             /\ to = "off" => from = "drain" /\ jobs = << >>
    BY <1>1 DEF WorkerTests, WorkerFindsNothing, WorkerSleeps, WorkerEnds, Goes, WorkerPlaces
  <2>3. PICK from \in WorkerPlaces, to \in WorkerPlaces :
             /\ to \notin {"encode", "flush"} /\ Goes(w, from, to)
             /\ to = "drain" => ~working
             /\ to = "off" => from = "drain" /\ jobs = << >>
    BY <2>2
  <2>4. /\ worker' \in [Encoders -> WorkerPlaces] /\ worker[w] = from /\ worker'[w] = to
        /\ \A v \in Encoders : v # w => worker'[v] = worker[v]
        /\ Holding' = Holding
    <3>1. Goes(w, from, to) /\ from \in WorkerPlaces /\ to \in WorkerPlaces /\ to \notin {"encode", "flush"}
      BY <2>3
    <3>2. Holding \ {w} = Holding
      BY <2>2 DEF Holding
    <3>. QED
      BY <3>1, <3>2, HoldersMove DEF Goes
  <2>5. Held' = Held /\ Queued' = Queued
    BY <2>1, <2>4 DEF Held, Queued
  <2>6. Kinds' /\ NoJobLost'
    BY <1>0, <2>1, <2>4, <2>5 DEF WInv, Kinds, NoJobLost
  <2>7. WorkersBySession'
    BY <1>0, <2>1, <2>3, <2>4 DEF WInv, WorkersBySession
  <2>. QED
    BY <1>01, <2>6, <2>7 DEF WInv
<1>2. CASE WorkerPops(w)
  <2>. DEFINE h == Head(jobs)
  <2>1. /\ jobs # << >> /\ jobs' = Tail(jobs) /\ job' = [job EXCEPT ![w] = h] /\ Settled' = Settled
        /\ worker[w] \in {"lock", "drain"}
        /\ \E from \in {"lock", "drain"}, to \in {"encode", "flush"} :
             Goes(w, from, to) /\ (to = "flush" => from = "drain")
    BY <1>2 DEF WorkerPops, Goes, Settled
  <2>2. jobs' \in Seq(AnyJob) /\ h \in AnyJob /\ Queued = Queued' \cup {h}
    BY <2>1, Popping DEF WInv, Kinds
  <2>3. PICK from \in {"lock", "drain"}, to \in {"encode", "flush"} :
             Goes(w, from, to) /\ (to = "flush" => from = "drain")
    BY <2>1
  <2>4. /\ worker' \in [Encoders -> WorkerPlaces] /\ worker[w] = from /\ worker'[w] = to
        /\ \A v \in Encoders : v # w => worker'[v] = worker[v]
        /\ Holding' = Holding \cup {w} /\ w \notin Holding
    <3>1. Goes(w, from, to) /\ from \in WorkerPlaces /\ to \in WorkerPlaces /\ to \in {"encode", "flush"}
      BY <2>3 DEF WorkerPlaces
    <3>2. w \notin Holding
      BY <2>1 DEF Holding
    <3>. QED
      BY <3>1, <3>2, HoldersMove DEF Goes
  <2>5. /\ job' \in [Encoders -> AnyJob] /\ job'[w] = h
        /\ \A v \in Encoders : v # w => job'[v] = job[v]
    BY <2>1, <2>2 DEF WInv, Kinds
  <2>6. Held' = Held \cup {h}
    <3>. HIDE DEF h
    <3>. QED
      BY <2>4, <2>5 DEF Held, Holding
  <2>. HIDE DEF h
  <2>7. Kinds' /\ NoJobLost'
    BY <1>0, <2>1, <2>2, <2>4, <2>5, <2>6 DEF WInv, Kinds, NoJobLost
  <2>8. WorkersBySession'
    BY <1>0, <2>1, <2>3, <2>4 DEF WInv, WorkersBySession
  <2>. QED
    BY <1>01, <2>7, <2>8 DEF WInv
<1>3. CASE WorkerEncodes(w)
  <2>1. /\ jobs' = jobs /\ job' = [job EXCEPT ![w] = NoJob] /\ Settled' = Settled \cup {job[w]}
        /\ worker[w] \in {"encode", "flush"}
        /\ \E from \in {"encode", "flush"}, to \in {"top", "drain"} :
             Goes(w, from, to) /\ (to = "drain" => from = "flush")
    BY <1>3 DEF WorkerEncodes, Goes, Settled
  <2>2. PICK from \in {"encode", "flush"}, to \in {"top", "drain"} :
             Goes(w, from, to) /\ (to = "drain" => from = "flush")
    BY <2>1
  <2>3. /\ worker' \in [Encoders -> WorkerPlaces] /\ worker[w] = from /\ worker'[w] = to
        /\ \A v \in Encoders : v # w => worker'[v] = worker[v]
        /\ Holding' = Holding \ {w} /\ w \in Holding
    <3>1. Goes(w, from, to) /\ from \in WorkerPlaces /\ to \in WorkerPlaces /\ to \notin {"encode", "flush"}
      BY <2>2 DEF WorkerPlaces
    <3>2. w \in Holding
      BY <2>1 DEF Holding
    <3>. QED
      BY <3>1, <3>2, HoldersMove DEF Goes
  <2>4. job' \in [Encoders -> AnyJob] /\ \A v \in Encoders : v # w => job'[v] = job[v]
    BY <2>1 DEF WInv, Kinds, NoJob, AnyJob
  <2>5. Held = Held' \cup {job[w]} /\ Queued' = Queued
    BY <2>1, <2>3, <2>4 DEF Held, Holding, Queued
  <2>6. Kinds' /\ NoJobLost'
    BY <1>0, <2>1, <2>3, <2>4, <2>5 DEF WInv, Kinds, NoJobLost
  <2>7. WorkersBySession'
    BY <1>0, <2>1, <2>2, <2>3 DEF WInv, WorkersBySession
  <2>. QED
    BY <1>01, <2>6, <2>7 DEF WInv
<1>. QED
  BY <1>1, <1>2, <1>3 DEF Worker

(* From the end of the recording to the join. *)
LEMMA JoinStep == ASSUME WInv, CloseWriter \/ StopWorkers \/ NotifyAll \/ JoinWorkers PROVE WInv'
<1>1. CASE CloseWriter \/ StopWorkers
  <2>1. /\ \/ session = "open" /\ session' = "signal" /\ working' = working
           \/ session = "signal" /\ session' = "notify" /\ working' = FALSE
        /\ UNCHANGED <<frames, jobs, worker, job, pushed, Settled>>
    BY <1>1 DEF CloseWriter, StopWorkers, At, encoding, workers, caller, Settled
  <2>2. Held' = Held /\ Queued' = Queued
    BY <2>1 DEF Held, Holding, Queued
  <2>. QED
    BY <2>1, <2>2 DEF WInv, Kinds, Places, WorkersBySession, NoJobLost, EveryColour
<1>2. CASE NotifyAll
  <2>1. /\ session = "notify" /\ session' = "join" /\ UNCHANGED <<frames, working, jobs, job, pushed, Settled>>
        /\ worker' = [w \in Encoders |-> IF worker[w] = "asleep" THEN "lock" ELSE worker[w]]
    BY <1>2 DEF NotifyAll, At, caller, Settled
  <2>2. /\ worker' \in [Encoders -> WorkerPlaces] /\ Holding' = Holding
        /\ \A w \in Encoders : worker'[w] = "off" => worker[w] = "off"
    BY <2>1 DEF WInv, Kinds, WorkerPlaces, Holding
  <2>3. Held' = Held /\ Queued' = Queued
    BY <2>1, <2>2 DEF Held, Queued
  <2>. QED
    BY <2>1, <2>2, <2>3 DEF WInv, Kinds, Places, WorkersBySession, NoJobLost, EveryColour
<1>3. CASE JoinWorkers
  <2>1. /\ session = "join" /\ session' \in {"videos", "data"} /\ \A w \in Encoders : worker[w] = "off"
        /\ UNCHANGED <<frames, jobs, worker, job, pushed, Settled>>
    BY <1>3 DEF JoinWorkers, At, encoding, workers, caller, Settled
  <2>2. jobs = << >> /\ Held = {} /\ Queued = {}
    <3>1. PICK w \in Encoders : TRUE
      BY BackendAssumption
    <3>2. jobs = << >>
      BY <2>1, <3>1 DEF WInv, WorkersBySession
    <3>3. Holding = {}
      BY <2>1 DEF Holding
    <3>. QED
      BY <3>2, <3>3 DEF Held, Queued
  <2>3. pushed = Settled
    BY <2>1, <2>2 DEF WInv, NoJobLost
  <2>. QED
    BY <2>1, <2>3 DEF WInv, Kinds, Places, WorkersBySession, NoJobLost, EveryColour
<1>. QED
  BY <1>1, <1>2, <1>3

LEMMA MetaStep ==
  ASSUME WInv,
         ConvertToVideos \/ WriteStats \/ WriteEntry \/ WriteTask \/ WriteInfo \/ DiscardLast \/ RemoveData
         \/ RemoveImages \/ ReadLength \/ RemoveEntry \/ RemoveStats \/ Revert
  PROVE  WInv'
<1>1. /\ session \notin Recording \cup Ending /\ session' \in Finalising \cup Discarding \cup {"idle"}
      /\ UNCHANGED <<jobs, worker, job>>
      /\ session' \in Finalising => session \in Finalising /\ UNCHANGED <<pushed, Settled, frames>>
  BY DEF ConvertToVideos, WriteStats, WriteEntry, WriteTask, WriteInfo, DiscardLast, RemoveData, RemoveImages,
     ReadLength, RemoveEntry, RemoveStats, Revert, At, GivesUp, Closed, encoding, workers, caller, Settled
<1>2. frames' \in Nat
  BY DEF ConvertToVideos, WriteStats, WriteEntry, WriteTask, WriteInfo, DiscardLast, RemoveData, RemoveImages,
     ReadLength, RemoveEntry, RemoveStats, Revert, GivesUp, Closed, Gone, caller, WInv, Kinds
<1>. QED
  BY <1>1, <1>2, WithoutWorkers

LEMMA EndStep == ASSUME WInv, Dies PROVE WInv'
BY DEF Dies, Gone, WInv, Kinds, Places, AnyJob, NoJob, WorkerPlaces, WorkersBySession, NoJobLost, EveryColour

LEMMA Elsewhere == ASSUME WInv, UNCHANGED backendVars PROVE WInv'
<1>1. UNCHANGED <<session, frames, working, jobs, worker, job, pushed, Settled>>
  BY DEF backendVars, encoding, workers, caller, Settled
<1>2. Held' = Held /\ Queued' = Queued
  BY <1>1 DEF Held, Holding, Queued
<1>. QED
  BY <1>1, <1>2 DEF WInv, Kinds, WorkersBySession, NoJobLost, EveryColour

LEMMA StepKeeps == WInv /\ [DatasetToolsNext]_toolVars => WInv'
<1> SUFFICES ASSUME WInv, [DatasetToolsNext]_toolVars PROVE WInv'
  OBVIOUS
<1>1. CASE BackendNext
  <2>1. CASE Finalise
    BY <2>1, JoinStep, MetaStep, EndStep DEF Finalise, StatisticsThrow
  <2>. QED
    BY <1>1, <2>1, OpenStep, WriteStep, JoinStep, MetaStep, EndStep, WorkerStep DEF BackendNext, Crash
<1>2. CASE UNCHANGED backendVars
  BY <1>2, Elsewhere
<1>. QED
  BY <1>1, <1>2 DEF DatasetToolsNext, toolVars

(* Where the workers may stand, and where every job is, by the session's place. *)
THEOREM WorkersInvariance == DatasetToolsSpec => []WInv
BY Initially, StepKeeps, PTL DEF DatasetToolsSpec

(* Once close_resources() has joined the image workers, every colour frame handed over
   and every depth frame that was queued is an image file, or one whose writing failed. *)
THEOREM EveryFrameWrittenHolds == DatasetToolsSpec => []EveryFrameWritten
<1>1. WInv => EveryFrameWritten
  BY DEF WInv, NoJobLost, EveryColour, Colour, EveryFrameWritten
<1>. QED
  BY <1>1, WorkersInvariance, PTL

(***************************************************************************)
(* What the backend lists and counts.                                      *)
(***************************************************************************)
Increasing == \A m, n \in Lines : m < n => listed[m].episode < listed[n].episode
Below(e) == \A n \in Lines : listed[n].episode < e

DataTypes == ListTypes /\ parquet \in [Indices -> File]

(* Where the backend's index and the session's stand, and what a discard is for. *)
Indexed ==
  /\ next \in 0 .. MaxEpisodes /\ ep \in Nat
  /\ session = "idle" => ep = 0
  /\ session # "idle" => ep \in Indices
  /\ session \in Recording \cup Ending \cup Finalising => next = ep
  /\ session \in {"signal", "notify", "join"} => why \in {"close", "discard"}
  /\ session \in Discarding => \/ (why = "discard" /\ next = ep)
                               \/ (why = "last" /\ next = ep + 1)

(* This backend writes no rows. *)
NoRows ==
  /\ \A e \in Indices : parquet[e].rows = 0
  /\ \A n \in Lines : listed[n].length = 0
  /\ revert.frames = 0 /\ info.frames = 0

(* An episode is listed at the end of its close, and no longer at the end of its discard. *)
Bounded ==
  /\ session = "idle" /\ next # 0 => Below(next)
  /\ session \in Recording \cup Ending \cup {"videos", "stats", "entry", "statsline", "revert"} => Below(ep)
  /\ session \in {"task", "info"} => Below(ep + 1)
  /\ session \in {"data", "images", "length", "line"} => Below(ep + 1) /\ (why = "discard" => Below(ep))

Present == \A n \in Lines : (session \in Discarding /\ listed[n].episode = ep) \/ Backed(n)

Listing == ~torn => Increasing /\ Bounded /\ Present /\ (session = "entry" => Readable(ep))

(* Counters that do not exist count nothing, though there may be lines. *)
Made == ~info.made => info.episodes = 0

(* How many more lines there are than info.json says. *)
Uncounted ==
  IF session \in {"task", "info"} THEN 1 ELSE IF session \in {"statsline", "revert"} THEN -1 ELSE 0

Counting ==
  ~skewed =>
    /\ ~torn
    /\ session \in {"signal", "notify", "join"} => why = "close"
    /\ session \in {"data", "images", "length", "line"} => why = "last" /\ LastOf(ep) /\ streams
    /\ session \in {"line", "statsline", "revert"} => revert.due
    /\ info.episodes = Len(listed) - Uncounted

BackendInv == DataTypes /\ Indexed /\ NoRows /\ Listing /\ Made /\ Counting

(* Every file there is has an index below the next one. *)
LEMMA NextIndexFree ==
  ASSUME parquet \in [Indices -> File]
  PROVE  NextIndex \in Nat /\ \A e \in Indices : parquet[e].state # "none" => e < NextIndex
<1>. DEFINE used == {e \in Indices : parquet[e].state # "none"}
<1>1. CASE used = {}
  BY <1>1 DEF NextIndex
<1>2. CASE used # {}
  <2>1. used \in SUBSET Nat /\ MaxEpisodes \in Nat /\ \A e \in used : e <= MaxEpisodes
    BY DatasetAssumption DEF Indices
  <2>2. \E m \in used : \A e \in used : e <= m
    <3>. HIDE DEF used
    <3>. QED
      BY <1>2, <2>1, Greatest
  <2>. DEFINE top == CHOOSE m \in used : \A e \in used : e <= m
  <2>3. top \in used /\ \A e \in used : e <= top
    BY <2>2
  <2>4. NextIndex = 1 + top
    BY <1>2 DEF NextIndex
  <2>5. top \in Nat
    BY <2>1, <2>3
  <2>. HIDE DEF top
  <2>. QED
    BY <2>1, <2>3, <2>4, <2>5
<1>. QED
  BY <1>1, <1>2

LEMMA BackendInitially == DatasetToolsInit => BackendInv
<1>. SUFFICES ASSUME DatasetToolsInit PROVE BackendInv
  OBVIOUS
<1>. USE DEF DatasetToolsInit, DatasetInit, BackendInit
<1>1. listed = << >> /\ Len(listed) = 0 /\ listed \in Seq(Entry) /\ Lines = {}
  BY DEF Lines
<1>2. info \in [made : BOOLEAN, episodes : Int, frames : Int] /\ info.episodes = 0 /\ info.frames = 0
  BY DEF NoInfo
<1>3. parquet \in [Indices -> File] /\ \A e \in Indices : parquet[e].rows = 0
  BY DEF NoFile, File
<1>4. DataTypes /\ Indexed /\ NoRows
  BY <1>1, <1>2, <1>3, DatasetAssumption DEF DataTypes, ListTypes, Indexed, NoRows, NoRevert
<1>5. Listing /\ Made
  BY <1>1, <1>2 DEF Listing, Increasing, Bounded, Below, Present, Made
<1>6. Counting
  BY <1>1, <1>2 DEF Counting, Uncounted
<1>. QED
  BY <1>4, <1>5, <1>6 DEF BackendInv

(* A step from place to place that leaves the lists and the files. *)
LEMMA BackendStays ==
  ASSUME BackendInv, UNCHANGED <<parquet, listed, info, ep, next, why, revert>>,
         torn' <=> torn, ~skewed' => ~skewed, streams => streams',
         \/ session' = session
         \/ session \in {"open", "depth"} /\ session' \in {"open", "depth"}
         \/ session \in {"signal", "notify"} /\ session' \in {"notify", "join"}
         \/ session = "join" /\ session' = IF why = "close" THEN "videos" ELSE "data"
         \/ session = "videos" /\ session' = "stats"
         \/ session = "stats" /\ session' = "entry" /\ Readable(ep)
         \/ session = "task" /\ session' = "info"
         \/ session = "images" /\ session' = "length"
         \/ session = "statsline" /\ session' = "revert"
  PROVE  BackendInv'
<1>1. DataTypes' /\ NoRows' /\ Lines' = Lines
  BY DEF BackendInv, DataTypes, ListTypes, NoRows, Lines
<1>2. Indexed'
  BY DEF BackendInv, Indexed
<1>3. ASSUME ~torn'
      PROVE Increasing' /\ Bounded' /\ Present' /\ (session' = "entry" => Readable(ep)')
  <2>1. Increasing /\ Bounded /\ Present /\ (session = "entry" => Readable(ep))
    BY <1>3 DEF BackendInv, Listing
  <2>2. Increasing' /\ \A e : Below(e)' <=> Below(e)
    BY <1>1, <2>1 DEF Increasing, Below
  <2>3. Bounded'
    <3>1. Below(ep) => Below(ep + 1)
      BY LinesAre DEF Below, BackendInv, DataTypes, ListTypes, Indexed
    <3>. QED
      BY <2>1, <2>2, <3>1 DEF Bounded, BackendInv, Indexed
  <2>4. Present'
    BY <1>1, <2>1 DEF Present, Backed, Readable
  <2>. QED
    BY <2>1, <2>2, <2>3, <2>4 DEF Readable
<1>4. Made'
  BY DEF BackendInv, Made
<1>5. Counting'
  <2>. SUFFICES ASSUME ~skewed' PROVE Counting'
    BY DEF Counting
  <2>1. /\ ~torn
        /\ session \in {"signal", "notify", "join"} => why = "close"
        /\ session \in {"data", "images", "length", "line"} => why = "last" /\ LastOf(ep) /\ streams
        /\ session \in {"line", "statsline", "revert"} => revert.due
        /\ info.episodes = Len(listed) - Uncounted
    BY DEF BackendInv, Counting
  <2>2. Uncounted' = Uncounted
    BY <2>1 DEF Uncounted
  <2>3. ~torn' /\ (LastOf(ep) => LastOf(ep)')
    BY <2>1 DEF LastOf
  <2>. QED
    BY <2>1, <2>2, <2>3 DEF Counting
<1>. QED
  BY <1>1, <1>2, <1>3, <1>4, <1>5 DEF BackendInv, Listing

(* Another data file leaves the listed ones alone. *)
LEMMA FilesElsewhere ==
  ASSUME DataTypes, NoRows, UNCHANGED <<listed, info>>, revert' = revert,
         NEW e \in Indices, NEW f \in File, f.rows = 0, parquet' = [parquet EXCEPT ![e] = f]
  PROVE  /\ parquet' \in [Indices -> File] /\ NoRows'
         /\ \A n \in Lines : listed[n].episode # e /\ Backed(n) => Backed(n)'
<1>1. /\ parquet' \in [Indices -> File] /\ parquet'[e] = f
      /\ \A i \in Indices : i # e => parquet'[i] = parquet[i]
  BY DEF DataTypes
<1>2. NoRows'
  BY <1>1 DEF NoRows, Lines
<1>3. \A n \in Lines : listed[n].episode \in Indices
  BY LinesAre DEF DataTypes, ListTypes
<1>. QED
  BY <1>1, <1>2, <1>3 DEF Backed, Readable

LEMMA OpenLists == ASSUME BackendInv, Open PROVE BackendInv'
<1>1. /\ session = "idle" /\ session' = "open" /\ NextIndex \in Indices /\ NextIndex \in Nat
      /\ next' = NextIndex /\ ep' = NextIndex
      /\ parquet' = [parquet EXCEPT ![NextIndex] = Partial]
      /\ info' = [info EXCEPT !.made = TRUE] \/ info' = info
      /\ UNCHANGED <<revert, listed, torn, skewed, why, streams>>
  BY DatasetAssumption DEF Open, At, CreateInfo, Indices
<1>. DEFINE e == NextIndex
<1>2. \A i \in Indices : parquet[i].state # "none" => i < e
  BY NextIndexFree DEF BackendInv, DataTypes
<1>0. e = NextIndex /\ ep' = e /\ session' = "open"
  BY <1>1
<1>. HIDE DEF e
<1>3. Partial \in File /\ Partial.rows = 0
  BY DEF Partial, NoFile, File
<1>4. /\ parquet' \in [Indices -> File] /\ \A i \in Indices : i # e => parquet'[i] = parquet[i]
      /\ parquet'[e].rows = 0
  BY <1>1, <1>3 DEF BackendInv, DataTypes, e
<1>5. /\ info' \in [made : BOOLEAN, episodes : Int, frames : Int]
      /\ info'.episodes = info.episodes /\ info'.frames = info.frames
  BY <1>1 DEF BackendInv, DataTypes, ListTypes
<1>6. DataTypes' /\ NoRows' /\ Lines' = Lines
  BY <1>1, <1>4, <1>5 DEF BackendInv, DataTypes, ListTypes, NoRows, Lines
<1>7. Indexed'
  BY <1>1, DatasetAssumption DEF Indexed, Indices
<1>8. ASSUME ~torn
      PROVE  Increasing' /\ Bounded' /\ Present'
  <2>1. Increasing /\ Present
    BY <1>8 DEF BackendInv, Listing
  <2>2. \A n \in Lines : Backed(n) /\ listed[n].episode \in Indices
    BY <1>1, <2>1, LinesAre DEF Present, BackendInv, DataTypes, ListTypes
  <2>3. \A n \in Lines : listed[n].episode < e
    BY <1>2, <2>2 DEF Backed, Readable
  <2>4. Below(ep)'
    BY <1>0, <1>1, <1>6, <2>3 DEF Below
  <2>5. \A n \in Lines : Backed(n)'
    <3>1. ASSUME NEW n \in Lines PROVE Backed(n)'
      <4>1. listed[n].episode # e /\ listed[n].episode \in Indices /\ Backed(n) /\ e \in Nat
        BY <1>0, <1>1, <2>2, <2>3, LinesAre DEF BackendInv, DataTypes, ListTypes
      <4>. QED
        BY <1>1, <1>4, <4>1 DEF Backed, Readable
    <3>. QED
      BY <3>1
  <2>. QED
    BY <1>0, <1>1, <1>6, <2>1, <2>4, <2>5 DEF Increasing, Bounded, Present
<1>9. Counting' /\ Made'
  BY <1>1, <1>5 DEF BackendInv, Counting, Uncounted, Made
<1>. QED
  BY <1>1, <1>6, <1>7, <1>8, <1>9 DEF BackendInv, Listing

LEMMA CloseLists == ASSUME BackendInv, CloseWriter PROVE BackendInv'
<1>1. /\ session = "open" /\ session' = "signal" /\ why' \in {"close", "discard"}
      /\ UNCHANGED <<ep, next, revert, listed, info, streams, torn>>
      /\ skewed' = (skewed \/ why' = "discard")
      /\ (parquet' = parquet \/ parquet' = [parquet EXCEPT ![ep] = Whole(0, 0, ep)])
  BY DEF CloseWriter, At, meta
<1>2. ep \in Indices /\ ep \in Nat /\ Whole(0, 0, ep) \in File /\ Whole(0, 0, ep).rows = 0
  BY <1>1 DEF BackendInv, Indexed, Whole, File
<1>3. /\ parquet' \in [Indices -> File] /\ NoRows'
      /\ \A n \in Lines : listed[n].episode # ep /\ Backed(n) => Backed(n)'
  <2>1. CASE parquet' = parquet
    BY <1>1, <2>1 DEF BackendInv, DataTypes, NoRows, Lines, Backed, Readable
  <2>2. CASE parquet' = [parquet EXCEPT ![ep] = Whole(0, 0, ep)]
    BY <1>1, <1>2, <2>2, FilesElsewhere DEF BackendInv
  <2>. QED
    BY <1>1, <2>1, <2>2
<1>4. DataTypes' /\ Indexed' /\ Made' /\ Lines' = Lines
  BY <1>1, <1>3 DEF BackendInv, DataTypes, ListTypes, Indexed, Made, Lines
<1>5. ASSUME ~torn
      PROVE  Increasing' /\ Bounded' /\ Present'
  <2>1. Increasing /\ Present /\ Below(ep)
    BY <1>1, <1>5 DEF BackendInv, Listing, Bounded
  <2>2. \A n \in Lines : Backed(n) /\ listed[n].episode # ep
    BY <1>1, <1>2, <2>1 DEF Present, Below
  <2>. QED
    BY <1>1, <1>3, <1>4, <2>1, <2>2 DEF Increasing, Below, Bounded, Present
<1>6. Counting'
  BY <1>1 DEF BackendInv, Counting, Uncounted
<1>. QED
  BY <1>1, <1>3, <1>4, <1>5, <1>6 DEF BackendInv, Listing

LEMMA RemoveLists == ASSUME BackendInv, RemoveData PROVE BackendInv'
<1>1. /\ session = "data" /\ session' = "images"
      /\ UNCHANGED <<ep, next, why, revert, listed, info, streams, torn, skewed>>
      /\ (parquet' = parquet \/ parquet' = [parquet EXCEPT ![ep] = NoFile])
  BY DEF RemoveData, At, caller, meta
<1>2. ep \in Indices /\ NoFile \in File /\ NoFile.rows = 0
  BY <1>1 DEF BackendInv, Indexed, NoFile, File
<1>3. /\ parquet' \in [Indices -> File] /\ NoRows'
      /\ \A n \in Lines : listed[n].episode # ep /\ Backed(n) => Backed(n)'
  <2>1. CASE parquet' = parquet
    BY <1>1, <2>1 DEF BackendInv, DataTypes, NoRows, Lines, Backed, Readable
  <2>2. CASE parquet' = [parquet EXCEPT ![ep] = NoFile]
    BY <1>1, <1>2, <2>2, FilesElsewhere DEF BackendInv
  <2>. QED
    BY <1>1, <2>1, <2>2
<1>4. DataTypes' /\ Indexed' /\ Made' /\ Lines' = Lines
  BY <1>1, <1>3 DEF BackendInv, DataTypes, ListTypes, Indexed, Made, Lines
<1>5. ASSUME ~torn
      PROVE  Increasing' /\ Bounded' /\ Present'
  <2>1. Increasing /\ Present /\ Bounded
    BY <1>5 DEF BackendInv, Listing
  <2>. QED
    BY <1>1, <1>3, <1>4, <2>1 DEF Increasing, Below, Bounded, Present
<1>6. Counting'
  BY <1>1 DEF BackendInv, Counting, Uncounted, LastOf
<1>. QED
  BY <1>1, <1>3, <1>4, <1>5, <1>6 DEF BackendInv, Listing

(* The entry of the episode goes to the end, and all before it are older. *)
LEMMA EntryLists == ASSUME BackendInv, WriteEntry, session' = "task" PROVE BackendInv'
<1>. DEFINE e == [episode |-> ep, length |-> parquet[ep].rows]
<1>1. /\ session = "entry" /\ listed' = Append(listed, e)
      /\ UNCHANGED <<ep, next, why, revert, parquet, info, streams, torn, skewed>>
  BY DEF WriteEntry, AppendEntry, GivesUp, Closed, caller
<1>2. /\ ep \in Indices /\ ep \in Nat /\ parquet[ep].rows = 0 /\ next = ep /\ listed \in Seq(Entry)
  BY <1>1, DatasetAssumption DEF BackendInv, Indexed, NoRows, DataTypes, ListTypes, Indices
<1>3. e \in Entry /\ e.episode = ep /\ e.length = 0
  BY <1>2 DEF Entry
<1>. HIDE DEF e
<1>4. /\ Len(listed) \in Nat /\ Len(listed') = Len(listed) + 1 /\ listed' \in Seq(Entry)
      /\ \A n \in Lines : listed'[n] = listed[n]
      /\ listed'[Len(listed) + 1] = e /\ Lines' = Lines \cup {Len(listed) + 1}
  <2>1. /\ Len(listed) \in Nat /\ Len(listed') = Len(listed) + 1 /\ listed' \in Seq(Entry)
        /\ \A n \in 1 .. Len(listed) : listed'[n] = listed[n]
        /\ listed'[Len(listed) + 1] = e
    BY <1>1, <1>2, <1>3
  <2>. QED
    BY <2>1 DEF Lines
<1>5. DataTypes' /\ Indexed' /\ NoRows' /\ Made'
  BY <1>1, <1>3, <1>4 DEF BackendInv, DataTypes, ListTypes, Indexed, NoRows, Made
<1>6. ASSUME ~torn
      PROVE  Increasing' /\ Bounded' /\ Present'
  <2>1. Increasing /\ Present /\ Below(ep) /\ Readable(ep)
    BY <1>1, <1>6 DEF BackendInv, Listing, Bounded
  <2>2. Increasing'
    <3>1. ASSUME NEW m \in Lines', NEW n \in Lines', m < n
          PROVE listed'[m].episode < listed'[n].episode
      <4>1. m \in Lines /\ listed'[m] = listed[m]
        BY <1>4, <3>1 DEF Lines
      <4>2. CASE n \in Lines
        BY <1>4, <2>1, <3>1, <4>1, <4>2 DEF Increasing
      <4>3. CASE n = Len(listed) + 1
        BY <1>3, <1>4, <2>1, <4>1, <4>3 DEF Below
      <4>. QED
        BY <1>4, <4>2, <4>3
    <3>. QED
      BY <3>1 DEF Increasing
  <2>3. Below(ep + 1)'
    <3>1. \A n \in Lines : listed[n].episode < ep + 1
      BY <1>2, <2>1, LinesAre DEF Below
    <3>2. ASSUME NEW n \in Lines' PROVE listed'[n].episode < ep + 1
      BY <1>2, <1>3, <1>4, <3>1, <3>2
    <3>3. ep' = ep
      BY <1>1
    <3>. QED
      BY <3>2, <3>3 DEF Below
  <2>4. \A n \in Lines' : Backed(n)'
    <3>1. \A n \in Lines : Backed(n)
      BY <1>1, <2>1 DEF Present
    <3>. QED
      BY <1>1, <1>2, <1>3, <1>4, <2>1, <3>1 DEF Backed, Readable
  <2>. QED
    BY <1>1, <2>2, <2>3, <2>4 DEF Bounded, Present
<1>7. Counting'
  BY <1>1, <1>4 DEF BackendInv, Counting, Uncounted, DataTypes, ListTypes
<1>. QED
  BY <1>1, <1>5, <1>6, <1>7 DEF BackendInv, Listing

(* The close ends: with its last step, or with one that failed. *)
LEMMA ClosedLists ==
  ASSUME BackendInv, session \in {"stats", "entry", "task", "info"}, Closed,
         UNCHANGED <<parquet, listed, torn>>, streams' = streams,
         \/ info' = info /\ skewed'
         \/ info.made /\ info' = UpdateInfo(parquet[ep].rows) /\ session = "info" /\ skewed' = skewed
  PROVE  BackendInv'
<1>1. session' = "idle" /\ next' = next + 1 /\ ep' = 0 /\ revert' = NoRevert
  BY DEF Closed, Gone
<1>2. next = ep /\ ep \in Indices /\ ep \in Nat /\ parquet[ep].rows = 0
  BY DEF BackendInv, Indexed, NoRows
<1>3. info \in [made : BOOLEAN, episodes : Int, frames : Int] /\ info.frames = 0
  BY DEF BackendInv, DataTypes, ListTypes, NoRows
<1>4. /\ info' \in [made : BOOLEAN, episodes : Int, frames : Int]
      /\ info'.frames = 0 /\ Made'
      /\ ~skewed' => info'.episodes = info.episodes + 1
  <2>1. CASE info' = info /\ skewed'
    BY <1>3, <2>1 DEF BackendInv, Made
  <2>2. CASE info.made /\ info' = UpdateInfo(parquet[ep].rows)
    <3>1. info' = [made |-> info.made, episodes |-> info.episodes + 1, frames |-> info.frames + 0]
      BY <1>2, <1>3, <2>2 DEF UpdateInfo
    <3>2. info'.made /\ info'.frames = 0 /\ info'.episodes = info.episodes + 1
      BY <1>3, <2>2, <3>1
    <3>3. Made'
      BY <3>2 DEF Made
    <3>4. info' \in [made : BOOLEAN, episodes : Int, frames : Int]
      BY <1>3, <3>1
    <3>. QED
      BY <3>2, <3>3, <3>4
  <2>. QED
    BY <2>1, <2>2
<1>5. DataTypes' /\ NoRows' /\ Lines' = Lines /\ Indexed' /\ Made'
  BY <1>1, <1>2, <1>4, DatasetAssumption
  DEF BackendInv, DataTypes, ListTypes, Indexed, NoRows, NoRevert, Made, Lines, Indices
<1>6. ASSUME ~torn
      PROVE  Increasing' /\ Bounded' /\ Present'
  <2>1. Increasing /\ Present /\ (Below(ep) \/ Below(ep + 1))
    BY <1>6 DEF BackendInv, Listing, Bounded
  <2>2. Below(next)'
    <3>1. \A n \in Lines : listed[n].episode < ep + 1
      BY <1>2, <2>1, LinesAre DEF Below, BackendInv, DataTypes, ListTypes
    <3>. QED
      BY <1>1, <1>2, <1>5, <3>1 DEF Below
  <2>. QED
    BY <1>1, <1>5, <2>1, <2>2 DEF Increasing, Bounded, Present, Backed, Readable
<1>7. Counting'
  BY <1>1, <1>2, <1>3, <1>4, LinesAre DEF BackendInv, Counting, Uncounted, DataTypes, ListTypes
<1>. QED
  BY <1>1, <1>5, <1>6, <1>7 DEF BackendInv, Listing

LEMMA DiesLists == ASSUME BackendInv, Dies PROVE BackendInv'
<1>1. /\ session' = "idle" /\ next' = 0 /\ ep' = 0 /\ revert' = NoRevert
      /\ UNCHANGED <<parquet, listed, info, streams>>
      /\ torn' <=> torn \/ session \in Discarding
      /\ skewed' <=> skewed \/ session \in Finalising \cup Discarding
  BY DEF Dies, Gone, dataset
<1>2. DataTypes' /\ NoRows' /\ Lines' = Lines /\ Indexed' /\ Made'
  BY <1>1, DatasetAssumption
  DEF BackendInv, DataTypes, ListTypes, Indexed, NoRows, NoRevert, Made, Lines
<1>3. ASSUME ~torn'
      PROVE  Increasing' /\ Bounded' /\ Present'
  BY <1>1, <1>2, <1>3 DEF BackendInv, Listing, Increasing, Bounded, Present, Backed, Readable
<1>4. Counting'
  <2>. SUFFICES ASSUME ~skewed' PROVE ~torn' /\ info'.episodes = Len(listed') - Uncounted'
    BY <1>1 DEF Counting
  <2>1. ~torn /\ info.episodes = Len(listed) - Uncounted /\ session \notin Finalising \cup Discarding
    BY <1>1 DEF BackendInv, Counting
  <2>2. Uncounted = 0 /\ Uncounted' = 0
    BY <1>1, <2>1 DEF Uncounted
  <2>3. ~torn'
    BY <2>1, <1>1
  <2>. QED
    BY <1>1, <2>1, <2>2, <2>3
<1>. QED
  BY <1>1, <1>2, <1>3, <1>4 DEF BackendInv, Listing

LEMMA DiscardLists == ASSUME BackendInv, DiscardLast PROVE BackendInv'
<1>1. /\ session = "idle" /\ session' = "data" /\ next > 0 /\ ep' = next - 1 /\ why' = "last"
      /\ UNCHANGED <<next, revert, parquet, listed, info, streams, torn>>
      /\ ~skewed' => ~skewed /\ streams /\ \E n \in Lines : listed[n].episode = next - 1
  BY DEF DiscardLast, At, dataset, Lines
<1>2. next \in 1 .. MaxEpisodes /\ ep' \in Indices /\ ep' \in Nat /\ next = ep' + 1
  BY <1>1, DatasetAssumption DEF BackendInv, Indexed, Indices
<1>3. DataTypes' /\ NoRows' /\ Lines' = Lines /\ Indexed' /\ Made'
  BY <1>1, <1>2 DEF BackendInv, DataTypes, ListTypes, Indexed, NoRows, Made, Lines
<1>4. ASSUME ~torn
      PROVE  Increasing' /\ Bounded' /\ Present' /\ \A n \in Lines : listed[n].episode < next
  BY <1>1, <1>2, <1>3, <1>4 DEF BackendInv, Listing, Increasing, Bounded, Below, Present, Backed, Readable
<1>5. ASSUME ~skewed' PROVE ~torn /\ LastOf(ep)'
  <2>1. ~torn /\ Increasing
    BY <1>1, <1>5 DEF BackendInv, Counting, Listing
  <2>2. PICK n \in Lines : listed[n].episode = next - 1
    BY <1>1, <1>5
  <2>3. Len(listed) \in Nat /\ \A m \in Lines : listed[m].episode \in Nat
    BY LinesAre DEF BackendInv, DataTypes, ListTypes
  <2>4. Len(listed) \in Lines /\ listed # << >>
    BY <2>2, <2>3 DEF Lines
  <2>5. n = Len(listed)
    <3>1. CASE n < Len(listed)
      BY <1>2, <1>4, <2>1, <2>2, <2>3, <2>4, <3>1 DEF Increasing
    <3>. QED
      BY <2>2, <2>3, <3>1 DEF Lines
  <2>. QED
    BY <1>1, <2>1, <2>2, <2>4, <2>5 DEF LastOf
<1>6. Counting'
  BY <1>1, <1>5 DEF BackendInv, Counting, Uncounted
<1>. QED
  BY <1>1, <1>3, <1>4, <1>6 DEF BackendInv, Listing

LEMMA LengthLists == ASSUME BackendInv, ReadLength PROVE BackendInv'
<1>. DEFINE frames_ == IF LastOf(ep) THEN listed[Len(listed)].length ELSE 0
<1>1. /\ session = "length" /\ session' = "line"
      /\ UNCHANGED <<ep, next, why, parquet, listed, info, streams, torn, skewed>>
      /\ revert' = [frames |-> frames_, due |-> frames_ > 0 \/ streams]
  BY DEF ReadLength, At, dataset, past
<1>2. frames_ = 0
  <2>1. LastOf(ep) => Len(listed) \in Lines
    BY LinesAre DEF LastOf, Lines, BackendInv, DataTypes, ListTypes
  <2>. QED
    BY <2>1 DEF BackendInv, NoRows
<1>3. revert'.frames = 0 /\ (streams => revert'.due)
  BY <1>1, <1>2
<1>. HIDE DEF frames_
<1>4. DataTypes' /\ NoRows' /\ Lines' = Lines /\ Indexed' /\ Made'
  BY <1>1, <1>3 DEF BackendInv, DataTypes, ListTypes, Indexed, NoRows, Made, Lines
<1>5. ASSUME ~torn
      PROVE  Increasing' /\ Bounded' /\ Present'
  BY <1>1, <1>4, <1>5 DEF BackendInv, Listing, Increasing, Bounded, Below, Present, Backed, Readable
<1>6. Counting'
  BY <1>1, <1>3 DEF BackendInv, Counting, Uncounted, LastOf
<1>. QED
  BY <1>1, <1>4, <1>5, <1>6 DEF BackendInv, Listing

(* The line of the episode goes: the last one, and no other was its. *)
LEMMA LineLists == ASSUME BackendInv, RemoveEntry PROVE BackendInv'
<1>1. /\ session = "line" /\ session' = "statsline"
      /\ UNCHANGED <<ep, next, why, revert, parquet, info, streams>>
      /\ \/ LastOf(ep) /\ listed' = WithoutLast(listed) /\ torn' = torn /\ skewed' = skewed
         \/ ~LastOf(ep) /\ listed' = listed /\ torn' = torn /\ skewed' = skewed
         \/ listed' = listed /\ torn' /\ skewed'
  BY DEF RemoveEntry, At, caller
<1>2. ep \in Nat /\ ep \in Indices /\ next \in Nat
  BY <1>1 DEF BackendInv, Indexed
<1>3. listed \in Seq(Entry) /\ Len(listed) \in Nat /\ \A m \in Lines : listed[m].episode \in Nat
  BY LinesAre DEF BackendInv, DataTypes, ListTypes
<1>4. ASSUME ~torn PROVE Increasing /\ Present /\ \A n \in Lines : listed[n].episode < ep + 1
  BY <1>1, <1>4 DEF BackendInv, Listing, Bounded, Below
<1>5. CASE LastOf(ep) /\ listed' = WithoutLast(listed) /\ torn' = torn /\ skewed' = skewed
  <2>1. /\ listed' \in Seq(Entry) /\ Len(listed') = Len(listed) - 1 /\ Len(listed) >= 1
        /\ \A n \in 1 .. Len(listed') : listed'[n] = listed[n]
        /\ listed[Len(listed)].episode = ep
    <3>1. listed # << >> /\ listed[Len(listed)].episode = ep /\ listed' = SubSeq(listed, 1, Len(listed) - 1)
      BY <1>5 DEF WithoutLast, LastOf
    <3>2. Len(listed) >= 1 /\ \A n \in 1 .. Len(listed) : listed[n] \in Entry
      BY <1>3, <3>1
    <3>3. /\ listed' \in Seq(Entry)
          /\ Len(listed') = IF 1 <= Len(listed) - 1 THEN Len(listed) - 1 - 1 + 1 ELSE 0
          /\ \A n \in 1 .. Len(listed) - 1 - 1 + 1 : listed'[n] = listed[1 + n - 1]
      <4>1. \A n \in 1 .. Len(listed) - 1 : listed[n] \in Entry
        BY <1>3, <3>2
      <4>. QED
        BY <1>3, <3>1, <4>1, SubSeqProperties
    <3>4. Len(listed') = Len(listed) - 1
      <4>1. Len(listed) \in Nat /\ Len(listed) >= 1
        BY <1>3, <3>2
      <4>2. Len(listed') = IF 1 <= Len(listed) - 1 THEN Len(listed) - 1 - 1 + 1 ELSE 0
        BY <3>3
      <4>. QED
        BY <4>1, <4>2
    <3>5. ASSUME NEW n \in 1 .. Len(listed') PROVE listed'[n] = listed[n]
      <4>1. n \in 1 .. Len(listed) - 1 - 1 + 1 /\ 1 + n - 1 = n
        BY <1>3, <3>4
      <4>. QED
        BY <3>3, <4>1
    <3>. QED
      BY <3>1, <3>2, <3>3, <3>4, <3>5
  <2>2. Lines' = 1 .. Len(listed) - 1 /\ \A n \in Lines' : n \in Lines /\ n < Len(listed) /\ listed'[n] = listed[n]
    BY <1>3, <2>1 DEF Lines
  <2>3. DataTypes' /\ NoRows' /\ Indexed' /\ Made'
    BY <1>1, <1>2, <2>1, <2>2 DEF BackendInv, DataTypes, ListTypes, Indexed, NoRows, Made
  <2>4. ASSUME ~torn PROVE Increasing' /\ Bounded' /\ Present'
    <3>1. ASSUME NEW n \in Lines' PROVE listed'[n].episode < ep
      <4>1. n \in Lines /\ n < Len(listed) /\ listed'[n] = listed[n]
        BY <2>2, <3>1
      <4>2. Len(listed) \in Lines /\ listed[Len(listed)].episode = ep
        BY <1>3, <2>1 DEF Lines
      <4>3. listed[n].episode < listed[Len(listed)].episode
        BY <1>4, <2>4, <4>1, <4>2 DEF Increasing
      <4>. QED
        BY <4>1, <4>2, <4>3
    <3>2. Increasing'
      BY <1>4, <2>2, <2>4 DEF Increasing
    <3>. QED
      BY <1>1, <1>4, <2>2, <2>4, <3>1, <3>2 DEF Bounded, Below, Present, Backed, Readable
  <2>5. Counting'
    BY <1>1, <1>3, <1>5, <2>1 DEF BackendInv, Counting, Uncounted
  <2>. QED
    BY <1>1, <1>5, <2>3, <2>4, <2>5 DEF BackendInv, Listing
<1>6. CASE listed' = listed /\ ((~LastOf(ep) /\ torn' = torn /\ skewed' = skewed) \/ (torn' /\ skewed'))
  <2>1. DataTypes' /\ NoRows' /\ Lines' = Lines /\ Indexed' /\ Made'
    BY <1>1, <1>2, <1>6 DEF BackendInv, DataTypes, ListTypes, Indexed, NoRows, Made, Lines
  <2>2. ASSUME ~torn' PROVE Increasing' /\ Bounded' /\ Present'
    <3>1. ~LastOf(ep) /\ ~torn
      BY <1>6, <2>2
    <3>2. ASSUME NEW n \in Lines, ~(listed[n].episode < ep) PROVE FALSE
      <4>1. listed[n].episode = ep /\ n <= Len(listed) /\ Len(listed) \in Lines /\ listed # << >>
        BY <1>2, <1>3, <1>4, <3>1, <3>2 DEF Lines
      <4>2. listed[n].episode < listed[Len(listed)].episode \/ n = Len(listed)
        BY <1>3, <1>4, <3>1, <3>2, <4>1 DEF Increasing, Lines
      <4>. QED
        BY <1>2, <1>3, <1>4, <3>1, <4>1, <4>2 DEF LastOf
    <3>. QED
      BY <1>1, <1>4, <1>6, <2>1, <3>1, <3>2 DEF Increasing, Bounded, Below, Present, Backed, Readable
  <2>3. Counting'
    BY <1>1, <1>6 DEF BackendInv, Counting
  <2>. QED
    BY <1>1, <2>1, <2>2, <2>3 DEF BackendInv, Listing
<1>. QED
  BY <1>1, <1>5, <1>6

LEMMA RevertLists == ASSUME BackendInv, Revert PROVE BackendInv'
<1>1. /\ session = "revert" /\ session' = "idle" /\ ep' = 0 /\ revert' = NoRevert
      /\ next' = IF why = "last" THEN ep ELSE next
      /\ UNCHANGED <<parquet, listed, streams, torn>>
      /\ \/ info' = (IF revert.due THEN RevertInfo(revert.frames) ELSE info) /\ skewed' = skewed
         \/ info' = info /\ skewed'
  BY DEF Revert, At, Gone
<1>2. /\ ep \in Indices /\ ep \in Nat /\ Made /\ revert.frames = 0 /\ info.frames = 0
      /\ info \in [made : BOOLEAN, episodes : Int, frames : Int]
      /\ (why = "discard" /\ next = ep) \/ why = "last"
  BY <1>1 DEF BackendInv, Indexed, NoRows, DataTypes, ListTypes
<1>3. next' = ep
  BY <1>1, <1>2
<1>4. RevertInfo(0) = [made |-> info.made, episodes |-> AtLeastZero(info.episodes - 1), frames |-> AtLeastZero(info.frames - 0)]
  <2>1. CASE info.made
    BY <1>2, <2>1 DEF RevertInfo
  <2>2. CASE ~info.made
    <3>1. info.episodes = 0 /\ AtLeastZero(info.episodes - 1) = 0 /\ AtLeastZero(info.frames - 0) = 0
      BY <1>2, <2>2 DEF Made, AtLeastZero
    <3>2. RevertInfo(0) = info
      BY <2>2 DEF RevertInfo
    <3>3. info = [made |-> info.made, episodes |-> info.episodes, frames |-> info.frames]
      BY <1>2
    <3>. QED
      BY <1>2, <3>1, <3>2, <3>3
  <2>. QED
    BY <2>1, <2>2
<1>5. /\ info' \in [made : BOOLEAN, episodes : Int, frames : Int]
      /\ info'.frames = 0 /\ Made'
      /\ ~skewed' => skewed' = skewed /\ (revert.due => info'.episodes = AtLeastZero(info.episodes - 1))
  <2>1. CASE info' = info /\ (skewed' \/ (~revert.due /\ skewed' = skewed))
    BY <1>2, <2>1 DEF Made
  <2>2. CASE revert.due /\ info' = RevertInfo(0) /\ skewed' = skewed
    <3>. DEFINE n == AtLeastZero(info.episodes - 1)
    <3>1. n \in Int /\ AtLeastZero(info.frames - 0) = 0
      BY <1>2 DEF AtLeastZero
    <3>. HIDE DEF n
    <3>2. info' = [made |-> info.made, episodes |-> n, frames |-> 0]
      BY <1>4, <2>2, <3>1 DEF n
    <3>3. info'.episodes = n /\ info'.frames = 0 /\ info'.made = info.made
      BY <3>2
    <3>4. info' \in [made : BOOLEAN, episodes : Int, frames : Int]
      BY <1>2, <3>1, <3>2
    <3>5. Made'
      <4>1. CASE info.made
        BY <3>3, <4>1 DEF Made
      <4>2. CASE ~info.made
        <5>1. info.episodes = 0
          BY <1>2, <4>2 DEF Made
        <5>2. n = 0
          BY <5>1 DEF n, AtLeastZero
        <5>. QED
          BY <3>3, <5>2 DEF Made
      <4>. QED
        BY <4>1, <4>2
    <3>. QED
      BY <1>2, <2>2, <3>3, <3>4, <3>5 DEF n
  <2>. QED
    BY <1>1, <1>2, <2>1, <2>2
<1>6. DataTypes' /\ NoRows' /\ Lines' = Lines /\ Indexed' /\ Made'
  BY <1>1, <1>2, <1>3, <1>5, DatasetAssumption
  DEF BackendInv, DataTypes, ListTypes, Indexed, NoRows, NoRevert, Made, Lines, Indices
<1>7. ASSUME ~torn
      PROVE  Increasing' /\ Bounded' /\ Present'
  BY <1>1, <1>2, <1>3, <1>6, <1>7 DEF BackendInv, Listing, Increasing, Bounded, Below, Present, Backed, Readable
<1>8. Counting'
  <2>. SUFFICES ASSUME ~skewed' PROVE ~torn' /\ info'.episodes = Len(listed')
    BY <1>1 DEF Counting, Uncounted
  <2>1. ~torn /\ revert.due /\ info.episodes = Len(listed) + 1
    <3>1. Counting /\ ~skewed /\ Len(listed) \in Nat
      BY <1>5, LinesAre DEF BackendInv, DataTypes, ListTypes
    <3>. QED
      BY <1>1, <3>1 DEF Counting, Uncounted
  <2>. QED
    BY <1>1, <1>5, <2>1, LinesAre DEF AtLeastZero, BackendInv, DataTypes, ListTypes
<1>. QED
  BY <1>1, <1>6, <1>7, <1>8 DEF BackendInv, Listing

LEMMA BackendLists == ASSUME WInv, BackendInv, BackendNext PROVE BackendInv'
<1>1. CASE Open
  BY <1>1, OpenLists
<1>2. CASE WriteColour \/ WriteDepth
  <2>1. /\ session \in {"open", "depth"} /\ session' \in {"open", "depth"}
        /\ UNCHANGED <<parquet, listed, info, ep, next, why, revert, torn, skewed, streams>>
    BY <1>2 DEF WriteColour, WriteDepth, At, caller, dataset, past
  <2>. QED
    BY <2>1, BackendStays
<1>3. CASE CloseWriter
  BY <1>3, CloseLists
<1>4. CASE DiscardLast
  BY <1>4, DiscardLists
<1>5. CASE \E w \in Encoders : Worker(w)
  <2>1. UNCHANGED <<parquet, listed, info, ep, next, why, revert, torn, skewed, streams, session>>
    BY <1>5 DEF Worker, WorkerTests, WorkerFindsNothing, WorkerSleeps, WorkerPops, WorkerEncodes, WorkerEnds,
       Untouched, caller, dataset, past
  <2>. QED
    BY <2>1, BackendStays
<1>6. CASE Crash \/ StatisticsThrow
  BY <1>6, DiesLists DEF Crash, StatisticsThrow
<1>7. CASE StopWorkers \/ NotifyAll \/ JoinWorkers \/ RemoveImages
  <2>1. UNCHANGED <<parquet, listed, info, ep, next, why, revert, torn, skewed, streams>>
    BY <1>7 DEF StopWorkers, NotifyAll, JoinWorkers, RemoveImages, caller, dataset, past
  <2>2. \/ session = "signal" /\ session' = "notify"
        \/ session = "notify" /\ session' = "join"
        \/ session = "join" /\ session' = IF why = "close" THEN "videos" ELSE "data"
        \/ session = "images" /\ session' = "length"
    BY <1>7 DEF StopWorkers, NotifyAll, JoinWorkers, RemoveImages, At
  <2>. QED
    BY <2>1, <2>2, BackendStays
<1>8. CASE ConvertToVideos \/ RemoveStats
  <2>1. /\ UNCHANGED <<parquet, listed, info, ep, next, why, revert, torn, skewed>>
        /\ streams => streams'
    <3>1. CASE ConvertToVideos
      BY <3>1 DEF ConvertToVideos, caller, meta, past
    <3>2. CASE RemoveStats
      BY <3>2 DEF RemoveStats, caller
    <3>. QED
      BY <1>8, <3>1, <3>2
  <2>2. \/ session = "videos" /\ session' = "stats"
        \/ session = "statsline" /\ session' = "revert"
    BY <1>8 DEF ConvertToVideos, RemoveStats, At
  <2>. QED
    BY <2>1, <2>2, BackendStays
<1>9. CASE (WriteStats \/ WriteEntry \/ WriteTask) /\ GivesUp
  <2>1. /\ session \in {"stats", "entry", "task"} /\ Closed /\ skewed' /\ session' = "idle"
        /\ UNCHANGED <<parquet, torn, streams, info>>
    BY <1>9 DEF WriteStats, WriteEntry, WriteTask, GivesUp, Closed
  <2>2. listed' = listed
    BY <1>9, <2>1 DEF WriteStats, WriteEntry, WriteTask
  <2>. QED
    BY <2>1, <2>2, ClosedLists
<1>10. CASE WriteStats /\ ~GivesUp
  <2>1. /\ session = "stats" /\ session' = "entry" /\ Readable(ep)
        /\ UNCHANGED <<parquet, listed, info, ep, next, why, revert, torn, skewed, streams>>
    BY <1>10 DEF WriteStats, caller
  <2>. QED
    BY <2>1, BackendStays
<1>11. CASE WriteEntry /\ ~GivesUp
  BY <1>11, EntryLists DEF WriteEntry
<1>12. CASE WriteTask /\ ~GivesUp
  <2>1. /\ session = "task" /\ session' = "info"
        /\ UNCHANGED <<parquet, listed, info, ep, next, why, revert, torn, skewed, streams>>
    BY <1>12 DEF WriteTask, caller
  <2>. QED
    BY <2>1, BackendStays
<1>13. CASE WriteInfo
  <2>1. /\ session = "info" /\ Closed /\ UNCHANGED <<parquet, listed, torn, streams>>
        /\ \/ info' = info /\ skewed'
           \/ info.made /\ info' = UpdateInfo(parquet[ep].rows) /\ skewed' = skewed
    BY <1>13 DEF WriteInfo, GivesUp
  <2>. QED
    BY <2>1, ClosedLists
<1>14. CASE RemoveData
  BY <1>14, RemoveLists
<1>15. CASE ReadLength
  BY <1>15, LengthLists
<1>16. CASE RemoveEntry
  BY <1>16, LineLists
<1>17. CASE Revert
  BY <1>17, RevertLists
<1>. QED
  BY <1>1, <1>2, <1>3, <1>4, <1>5, <1>6, <1>7, <1>8, <1>9, <1>10, <1>11, <1>12, <1>13, <1>14, <1>15, <1>16, <1>17
  DEF BackendNext, Finalise

(***************************************************************************)
(* The tools share the files' format; a dataset is written by one of them. *)
(***************************************************************************)
ToolInv ==
  /\ tool \in {"backend", "converter", "aligner"}
  /\ tool = "backend" => BackendInv /\ converter = "off" /\ ~unsettled
  /\ tool = "converter" => Inv /\ Recorded /\ Numbering /\ session = "idle" /\ ~torn /\ ~skewed
  /\ tool = "aligner" => Len(listed) = 0 /\ Lines = {} /\ info = NoInfo /\ FramesListed = 0

LEMMA ToolInitially == DatasetToolsInit => ToolInv
<1>. SUFFICES ASSUME DatasetToolsInit PROVE ToolInv
  OBVIOUS
<1>1. DatasetInit /\ BackendInit
  BY DEF DatasetToolsInit
<1>2. tool = "backend" => BackendInv /\ converter = "off" /\ ~unsettled
  BY BackendInitially DEF DatasetToolsInit, ConverterIdle
<1>3. tool = "converter" => Inv /\ Recorded /\ Numbering /\ session = "idle" /\ ~torn /\ ~skewed
  BY <1>1, InitInv, RecordedInit, NumberingInit DEF DatasetToolsInit, BackendInit
<1>4. tool = "aligner" => Len(listed) = 0 /\ Lines = {} /\ info = NoInfo /\ FramesListed = 0
  <2>1. listed = << >> /\ listed \in Seq(Entry) /\ Len(listed) = 0 /\ info = NoInfo
    BY <1>1 DEF DatasetInit
  <2>. DEFINE f == [n \in 0 .. 0 |-> 0]
  <2>2. IsSum(f, listed) /\ f[Len(listed)] = 0
    BY <2>1 DEF IsSum
  <2>. HIDE DEF f
  <2>. QED
    BY <2>1, <2>2, SumIs DEF Lines
<1>. QED
  BY <1>2, <1>3, <1>4 DEF ToolInv, DatasetToolsInit

LEMMA ToolStep == ASSUME WInv, ToolInv, [DatasetToolsNext]_toolVars PROVE ToolInv'
<1>1. CASE Use("backend") /\ BackendNext /\ UNCHANGED <<converterVars, aligner>>
  BY <1>1, BackendLists DEF ToolInv, Use, converterVars, converterPast
<1>2. CASE Use("converter") /\ ConverterNext /\ UNCHANGED <<backendVars, aligner>>
  BY <1>2, StepInv, RecordedStep, NumberingStep DEF ToolInv, Use, backendVars, past
<1>3. CASE UNCHANGED <<tool, dataset, backendVars, converterVars>>
  <2>1. UNCHANGED <<dataset, converterVars>> /\ tool' = tool /\ UNCHANGED <<session, torn, skewed, unsettled, converter>>
    BY <1>3 DEF backendVars, past, converterVars, converterPast
  <2>2. tool = "converter" => Inv' /\ Recorded' /\ Numbering'
    BY <2>1, StepInv, RecordedStep, NumberingStep DEF ToolInv
  <2>3. tool = "backend" => BackendInv'
    <3>1. UNCHANGED <<parquet, listed, info, ep, next, why, revert, torn, skewed, streams, session>>
      BY <1>3 DEF backendVars, caller, past, dataset
    <3>. QED
      BY <3>1, BackendStays DEF ToolInv
  <2>4. UNCHANGED <<listed, info>>
    BY <2>1 DEF dataset
  <2>. QED
    BY <2>1, <2>2, <2>3, <2>4 DEF ToolInv, FramesListed, Lines
<1>4. CASE Use("aligner") /\ AlignRow /\ UNCHANGED <<dataset, backendVars, converterVars>>
  BY <1>3, <1>4 DEF Use
<1>. QED
  BY <1>1, <1>2, <1>3, <1>4 DEF DatasetToolsNext, toolVars

LEMMA ListsMean == ToolInv => ListedHaveData /\ InfoMatches
<1>. SUFFICES ASSUME ToolInv PROVE ListedHaveData /\ InfoMatches
  OBVIOUS
<1>1. CASE tool = "backend"
  <2>1. BackendInv /\ converter = "off"
    BY <1>1 DEF ToolInv
  <2>2. Len(listed) \in Nat /\ listed \in Seq(Entry)
    BY <2>1, LinesAre DEF BackendInv, DataTypes, ListTypes
  <2>3. ListedHaveData
    <3>. SUFFICES ASSUME ~torn PROVE ListedHaveData
      BY DEF ListedHaveData
    <3>1. Increasing /\ Present
      BY <2>1 DEF BackendInv, Listing
    <3>2. \A m, n \in Lines : m # n => listed[m].episode # listed[n].episode
      <4>1. ASSUME NEW m \in Lines, NEW n \in Lines, m < n PROVE listed[m].episode # listed[n].episode
        BY <2>2, <3>1, <4>1, LinesAre DEF Increasing
      <4>2. \A m, n \in Lines : m # n => m < n \/ n < m
        BY DEF Lines
      <4>. QED
        BY <4>1, <4>2
    <3>. QED
      BY <3>1, <3>2 DEF Present, Backed, Lines, ListedHaveData
  <2>4. FramesListed = 0
    <3>. DEFINE f == [n \in 0 .. Len(listed) |-> 0]
    <3>1. IsSum(f, listed) /\ f[Len(listed)] = 0
      BY <2>1, <2>2 DEF IsSum, BackendInv, NoRows, Lines
    <3>. HIDE DEF f
    <3>. QED
      BY <2>2, <3>1, SumIs
  <2>5. InfoMatches
    BY <2>1, <2>2, <2>4 DEF InfoMatches, BackendInv, NoRows, Counting, Uncounted
  <2>. QED
    BY <2>3, <2>5
<1>2. CASE tool = "converter"
  <2>1. Converted /\ Tallied
    BY <1>2 DEF ToolInv, Recorded
  <2>. QED
    BY <2>1 DEF ListedHaveData, InfoMatches, Converted, Tallied, Distinct, Backed, Lines
<1>3. CASE tool = "aligner"
  BY <1>3 DEF ToolInv, ListedHaveData, InfoMatches, Lines, NoInfo
<1>. QED
  BY <1>1, <1>2, <1>3 DEF ToolInv

(* Either program keeps its files: the recording backend in the order of its calls, the
   converter in the order of its runs. *)
THEOREM ToolInvariance == DatasetToolsSpec => []ToolInv
<1>1. WInv /\ ToolInv /\ [DatasetToolsNext]_toolVars => ToolInv'
  BY ToolStep
<1>. QED
  BY <1>1, ToolInitially, Initially, StepKeeps, PTL DEF DatasetToolsSpec

(* A listed episode has its data file, with as many rows, and is listed once: close() lists
   it when the file is closed, discard_episode() takes the line that is the episode's. *)
THEOREM ListedHaveDataHolds == DatasetToolsSpec => []ListedHaveData
BY ToolInvariance, ListsMean, PTL

(* info.json counts what is listed whenever neither program is between the two. *)
THEOREM InfoMatchesHolds == DatasetToolsSpec => []InfoMatches
BY ToolInvariance, ListsMean, PTL

(* A recording keeps the index of its place, from run to run and however many are added. *)
THEOREM IndexStableHolds == DatasetToolsSpec => []IndexStable
<1>1. ToolInv => IndexStable
  BY NumberingMeans DEF ToolInv, IndexStable
<1>. QED
  BY <1>1, ToolInvariance, PTL

(***************************************************************************)
(* The rows of a recording.                                                *)
(***************************************************************************)
Row == [reference : Nat, of : [Streams -> Nat]]

AlignTypes ==
  /\ reference \in Seq(Nat) /\ messages \in [Streams -> Seq(Nat)]
  /\ \A p, q \in 1 .. Len(reference) : p < q => reference[p] <= reference[q]
  /\ limit \in 0 .. Len(reference) /\ row \in 1 .. limit + 1
  /\ rows \in Seq(Row)

(* A cursor is at the first message, or at one that was there when the last row was made. *)
Behind ==
  cursor \in [Streams -> Nat] /\ \A s \in Streams :
    \/ cursor[s] = 1
    \/ /\ cursor[s] \in 1 .. Len(messages[s]) /\ row > 1
       /\ messages[s][cursor[s]] <= reference[row - 1]

AlignInv == AlignTypes /\ Behind /\ RowsCurrent

(* The reference stream is in the order of its log times. *)
LEMMA LastRow ==
  ASSUME AlignTypes, row \in 1 .. Len(reference), row > 1
  PROVE  reference[row - 1] \in Nat /\ reference[row] \in Nat /\ reference[row - 1] <= reference[row]
<1>1. row - 1 \in 1 .. Len(reference) /\ row - 1 < row /\ reference \in Seq(Nat)
  BY DEF AlignTypes
<1>2. reference[row - 1] <= reference[row]
  BY <1>1 DEF AlignTypes
<1>. QED
  BY <1>1, <1>2

LEMMA AlignInitially == DatasetToolsInit => AlignInv
<1>. SUFFICES ASSUME DatasetToolsInit PROVE AlignInv
  OBVIOUS
<1>1. AlignerIdle \/ AlignerInit
  BY DEF DatasetToolsInit
<1>2. row = 1 /\ cursor = [s \in Streams |-> 1] /\ rows = << >>
  BY <1>1 DEF AlignerIdle, AlignerInit
<1>3. \A log \in Logs : log \in Seq(Nat) /\ \A i, j \in 1 .. Len(log) : i < j => log[i] <= log[j]
  <2>. SUFFICES ASSUME NEW log \in Logs
                PROVE log \in Seq(Nat) /\ \A i, j \in 1 .. Len(log) : i < j => log[i] <= log[j]
    OBVIOUS
  <2>1. PICK n \in 0 .. MaxLog : log \in [1 .. n -> 0 .. MaxStamp]
    BY DEF Logs
  <2>2. log \in Seq(Nat) /\ Len(log) = n
    BY <2>1, AlignerAssumption
  <2>. QED
    BY <2>1, <2>2 DEF Logs
<1>4. AlignTypes
  <2>1. rows \in Seq(Row)
    BY <1>2
  <2>2. CASE AlignerIdle
    <3>1. reference = << >> /\ Len(reference) = 0 /\ reference \in Seq(Nat) /\ limit = 0
          /\ messages \in [Streams -> Seq(Nat)]
      BY <2>2 DEF AlignerIdle
    <3>. QED
      BY <1>2, <2>1, <3>1 DEF AlignTypes
  <2>3. CASE AlignerInit
    <3>1. reference \in Logs /\ messages \in [Streams -> Logs] /\ limit \in 1 .. Len(reference)
      BY <2>3 DEF AlignerInit
    <3>2. messages \in [Streams -> Seq(Nat)] /\ Len(reference) \in Nat
      BY <1>3, <3>1
    <3>. QED
      BY <1>2, <1>3, <2>1, <3>1, <3>2 DEF AlignTypes
  <2>. QED
    BY <1>1, <2>2, <2>3
<1>5. RowsCurrent
  <2>1. Len(rows) = 0 /\ 1 .. Len(rows) = {} /\ 1 .. row - 1 = {}
    BY <1>2
  <2>. QED
    BY <2>1 DEF RowsCurrent
<1>. QED
  BY <1>2, <1>4, <1>5 DEF AlignInv, Behind

LEMMA MaxIs == ASSUME NEW S \in SUBSET Nat, NEW x \in S, \A y \in S : y <= x PROVE MaxOf(S) = x
<1>1. MaxOf(S) \in S /\ \A y \in S : y <= MaxOf(S)
  BY DEF MaxOf
<1>2. MaxOf(S) \in Nat /\ x \in Nat /\ x <= MaxOf(S) /\ MaxOf(S) <= x
  BY <1>1
<1>. HIDE <1>1
<1>. QED
  BY <1>2

(* The cursor finds what a search from the start would: what it passed was not current. *)
LEMMA AdvanceIsCurrent ==
  ASSUME AlignTypes, Behind, row <= limit, NEW s \in Streams
  PROVE  /\ Advance(s, reference[row]) = Current(s, reference[row])
         /\ Current(s, reference[row]) \in Nat
         /\ \/ Current(s, reference[row]) = 1
            \/ /\ Current(s, reference[row]) \in 1 .. Len(messages[s])
               /\ messages[s][Current(s, reference[row])] <= reference[row]
<1>. DEFINE t == reference[row]
            c == cursor[s]
            L == Len(messages[s])
            All == {1} \union {j \in 1 .. L : messages[s][j] <= t}
            Ahead == {c} \union {j \in c .. L : messages[s][j] <= t}
<1>1. /\ L \in Nat /\ t \in Nat /\ c \in Nat /\ row \in 1 .. Len(reference)
      /\ \A j \in 1 .. L : messages[s][j] \in Nat
  BY DEF AlignTypes, Behind
<1>2. All \in SUBSET Nat /\ Ahead \in SUBSET Nat /\ All # {}
  BY <1>1
<1>3. \A y \in All : y <= L + 1
  BY <1>1
<1>4. PICK x \in All : \A y \in All : y <= x
  <2>1. L + 1 \in Nat
    BY <1>1
  <2>. HIDE DEF All, L
  <2>. QED
    BY <1>2, <1>3, <2>1, Greatest
<1>5. Current(s, t) = x
  <2>1. Current(s, t) = MaxOf(All)
    BY DEF Current
  <2>. HIDE DEF All
  <2>. QED
    BY <1>2, <1>4, <2>1, MaxIs
<1>6. c = 1 \/ (c \in 1 .. L /\ messages[s][c] <= t)
  <2>1. c = 1 \/ (c \in 1 .. L /\ row > 1 /\ messages[s][c] <= reference[row - 1])
    BY DEF Behind
  <2>2. row > 1 => reference[row - 1] <= t /\ reference[row - 1] \in Nat
    BY <1>1, LastRow
  <2>. HIDE DEF t, c, L
  <2>3. c \in 1 .. L => messages[s][c] \in Nat
    BY <1>1
  <2>. QED
    BY <1>1, <2>1, <2>2, <2>3
<1>7. c \in All /\ Ahead \subseteq All
  BY <1>1, <1>6
<1>8. x \in Ahead
  <2>1. c <= x
    BY <1>4, <1>7
  <2>2. x = c \/ x \in c .. L
    <3>1. x = 1 \/ x \in 1 .. L
      OBVIOUS
    <3>2. x \in Nat /\ (c = 1 \/ c \in 1 .. L)
      BY <1>2, <1>6
    <3>. HIDE DEF c, L, All, Ahead
    <3>. QED
      BY <1>1, <2>1, <3>1, <3>2
  <2>3. x = 1 \/ (x \in 1 .. L /\ messages[s][x] <= t)
    OBVIOUS
  <2>4. x = 1 => x = c
    <3>. HIDE DEF c, L, All, Ahead
    <3>. QED
      BY <1>1, <1>6, <2>1
  <2>5. x \in 1 .. L /\ x \in c .. L /\ messages[s][x] <= t => x \in Ahead
    OBVIOUS
  <2>6. x = c => x \in Ahead
    OBVIOUS
  <2>. HIDE DEF c, L, All, Ahead, t
  <2>. QED
    BY <2>2, <2>3, <2>4, <2>5, <2>6
<1>9. Advance(s, t) = x
  <2>1. Advance(s, t) = MaxOf(Ahead)
    BY DEF Advance
  <2>. HIDE DEF All, Ahead
  <2>. QED
    BY <1>2, <1>4, <1>7, <1>8, <2>1, MaxIs
<1>. QED
  BY <1>1, <1>4, <1>5, <1>9

LEMMA AlignStep == ASSUME AlignInv, AlignRow PROVE AlignInv'
<1>. DEFINE t == reference[row]
<1>1. /\ row <= limit /\ row' = row + 1 /\ UNCHANGED <<reference, messages, limit>>
      /\ cursor' = [s \in Streams |-> IF Asked(s, t) THEN Advance(s, t) ELSE cursor[s]]
      /\ rows' = IF \A s \in Streams : Found(s, t)
                   THEN Append(rows, [reference |-> row, of |-> cursor']) ELSE rows
  BY DEF AlignRow
<1>2. \A s \in Streams :
        /\ Advance(s, t) = Current(s, t) /\ Current(s, t) \in Nat
        /\ Current(s, t) = 1 \/ (Current(s, t) \in 1 .. Len(messages[s]) /\ messages[s][Current(s, t)] <= t)
  BY <1>1, AdvanceIsCurrent DEF AlignInv
<1>3. /\ row \in Nat /\ row \in 1 .. Len(reference) /\ t \in Nat /\ rows \in Seq(Row) /\ limit \in Nat
      /\ row + 1 \in 1 .. limit + 1
  BY <1>1 DEF AlignInv, AlignTypes
<1>. HIDE DEF t
<1>4. Behind'
  <2>1. cursor' \in [Streams -> Nat]
    BY <1>1, <1>2 DEF AlignInv, Behind
  <2>2. ASSUME NEW s \in Streams
        PROVE  cursor'[s] = 1 \/ (cursor'[s] \in 1 .. Len(messages[s]) /\ messages[s][cursor'[s]] <= t)
    <3>1. CASE Asked(s, t)
      BY <1>1, <1>2, <3>1
    <3>2. CASE ~Asked(s, t)
      <4>1. cursor'[s] = cursor[s]
        BY <1>1, <3>2
      <4>2. row > 1 => reference[row - 1] <= t /\ reference[row - 1] \in Nat
        BY <1>3, LastRow DEF AlignInv, t
      <4>3. cursor[s] \in 1 .. Len(messages[s]) => messages[s][cursor[s]] \in Nat
        BY DEF AlignInv, AlignTypes
      <4>. QED
        BY <1>3, <4>1, <4>2, <4>3 DEF AlignInv, Behind
    <3>. QED
      BY <3>1, <3>2
  <2>3. row' > 1 /\ reference'[row' - 1] = t
    BY <1>1, <1>3 DEF t
  <2>. QED
    BY <1>1, <2>1, <2>2, <2>3 DEF Behind
<1>. DEFINE Ready(r) == {q \in 1 .. r : Complete(q)}
<1>5. (\A s \in Streams : Found(s, t)) <=> Complete(row)
  BY <1>2 DEF Found, Complete, t
<1>6. \A q : RowOf(q)' = RowOf(q) /\ (Complete(q)' <=> Complete(q))
  BY <1>1 DEF RowOf, Complete, Current
<1>7. {rows[n] : n \in 1 .. Len(rows)} = {RowOf(r) : r \in {q \in 1 .. row - 1 : Complete(q)}}
  BY DEF AlignInv, RowsCurrent
<1>8. CASE ~Complete(row)
  <2>1. rows' = rows
    BY <1>1, <1>5, <1>8
  <2>2. {q \in 1 .. row' - 1 : Complete(q)'} = {q \in 1 .. row - 1 : Complete(q)}
    BY <1>1, <1>3, <1>6, <1>8
  <2>3. RowsCurrent'
    BY <1>6, <1>7, <2>1, <2>2 DEF AlignInv, RowsCurrent
  <2>. QED
    BY <1>1, <1>3, <1>4, <2>1, <2>3 DEF AlignInv, AlignTypes
<1>9. CASE Complete(row)
  <2>1. \A s \in Streams : Asked(s, t)
    <3>1. \A s \in Streams : Found(s, t)
      BY <1>5, <1>9
    <3>2. \A s \in Streams : \A p \in 1 .. s - 1 : p \in Streams
      BY AlignerAssumption DEF Streams
    <3>3. \A s \in Streams : messages[s] # << >>
      BY <3>1 DEF Found
    <3>. QED
      BY <3>1, <3>2, <3>3 DEF Asked
  <2>2. cursor' = [s \in Streams |-> Current(s, t)]
    BY <1>1, <1>2, <2>1
  <2>3. rows' = Append(rows, RowOf(row))
    BY <1>1, <1>5, <1>9, <2>2 DEF RowOf, t
  <2>4. RowOf(row) \in Row /\ RowOf(row).reference = row
    BY <1>2, <1>3 DEF RowOf, Row, t
  <2>5. /\ Len(rows) \in Nat /\ rows' \in Seq(Row) /\ Len(rows') = Len(rows) + 1
        /\ \A n \in 1 .. Len(rows) : rows'[n] = rows[n]
        /\ rows'[Len(rows) + 1] = RowOf(row)
    BY <1>3, <2>3, <2>4
  <2>6. \A n \in 1 .. Len(rows) : rows[n].reference < row
    <3>1. ASSUME NEW n \in 1 .. Len(rows) PROVE rows[n].reference < row
      <4>1. PICK r \in 1 .. row - 1 : rows[n] = RowOf(r)
        BY <1>7
      <4>. QED
        BY <1>3, <4>1 DEF RowOf
    <3>. QED
      BY <3>1
  <2>7. {rows'[n] : n \in 1 .. Len(rows')} = {rows[n] : n \in 1 .. Len(rows)} \union {RowOf(row)}
    BY <2>5
  <2>8. {q \in 1 .. row' - 1 : Complete(q)'} = {q \in 1 .. row - 1 : Complete(q)} \union {row}
    BY <1>1, <1>3, <1>6, <1>9
  <2>9. RowsCurrent'
    <3>1. {rows'[n] : n \in 1 .. Len(rows')} = {RowOf(r)' : r \in {q \in 1 .. row' - 1 : Complete(q)'}}
      BY <1>6, <1>7, <2>7, <2>8
    <3>2. \A m, n \in 1 .. Len(rows') : m < n => rows'[m].reference < rows'[n].reference
      BY <2>4, <2>5, <2>6 DEF AlignInv, RowsCurrent
    <3>. QED
      BY <3>1, <3>2 DEF RowsCurrent
  <2>. QED
    BY <1>1, <1>3, <1>4, <2>5, <2>9 DEF AlignInv, AlignTypes
<1>. QED
  BY <1>8, <1>9

(* The loop over the reference stream writes a row for each of its messages that has a
   current one in every stream, in order and with those, whatever cursors stayed behind. *)
THEOREM RowsCurrentHolds == DatasetToolsSpec => []RowsCurrent
<1>1. AlignInv /\ [DatasetToolsNext]_toolVars => AlignInv'
  <2>. SUFFICES ASSUME AlignInv, [DatasetToolsNext]_toolVars PROVE AlignInv'
    OBVIOUS
  <2>1. CASE UNCHANGED aligner
    <3>1. UNCHANGED <<reference, messages, limit, row, cursor, rows>>
      BY <2>1 DEF aligner
    <3>2. AlignTypes' /\ Behind'
      BY <3>1 DEF AlignInv, AlignTypes, Behind
    <3>3. \A q : RowOf(q)' = RowOf(q) /\ (Complete(q)' <=> Complete(q))
      BY <3>1 DEF RowOf, Complete, Current
    <3>4. {rows[n] : n \in 1 .. Len(rows)}' = {rows[n] : n \in 1 .. Len(rows)}
      BY <3>1
    <3>5. {RowOf(r) : r \in {q \in 1 .. row - 1 : Complete(q)}}'
            = {RowOf(r) : r \in {q \in 1 .. row - 1 : Complete(q)}}
      BY <3>1, <3>3
    <3>6. RowsCurrent'
      BY <3>1, <3>4, <3>5 DEF AlignInv, RowsCurrent
    <3>. QED
      BY <3>2, <3>6 DEF AlignInv
  <2>. QED
    BY <2>1, AlignStep DEF DatasetToolsNext, toolVars
<1>2. AlignInv => RowsCurrent
  BY DEF AlignInv
<1>. QED
  BY <1>1, <1>2, AlignInitially, PTL DEF DatasetToolsSpec
===============================================================================
