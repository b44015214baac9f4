--------------------------- MODULE RecordingProofs ---------------------------
(***************************************************************************)
(* Recording's safety for any set of streams, any split of them into       *)
(* pushed and polled ones, any batch size and any bounds.                  *)
(*                                                                         *)
(* Inv is inductive.  Conservation needs Pipeline: a record survives an    *)
(* emit because the emitting thread holds the current sink, and survives a *)
(* write because the backend is open.                                      *)
(***************************************************************************)
EXTENDS Recording, SequenceTheorems, TLAPS

(* The inductive invariant. *)
Inv == TypeOK /\ Pipeline /\ Conservation

(* Appending to the last of three pieces appends to the whole. *)
LEMMA AppendToLast ==
  ASSUME NEW a \in Seq(Nat), NEW b \in Seq(Nat), NEW c \in Seq(Nat), NEW e \in Nat
  PROVE  Append((a \o b) \o c, e) = (a \o b) \o Append(c, e)
<1>1. (a \o b) \in Seq(Nat) /\ ((a \o b) \o c) \in Seq(Nat) /\ <<e>> \in Seq(Nat)
  BY ConcatProperties
<1>2. Append((a \o b) \o c, e) = ((a \o b) \o c) \o <<e>>
  BY <1>1, AppendIsConcat
<1>3. Append(c, e) = c \o <<e>>
  BY AppendIsConcat
<1>4. ((a \o b) \o c) \o <<e>> = (a \o b) \o (c \o <<e>>)
  BY <1>1, ConcatAssociative
<1>. QED
  BY <1>2, <1>3, <1>4

(* Moving the head of the last piece to the end of the middle one leaves the
   whole as it was. *)
LEMMA MoveHead ==
  ASSUME NEW a \in Seq(Nat), NEW b \in Seq(Nat), NEW c \in Seq(Nat), c # << >>
  PROVE  (a \o Append(b, Head(c))) \o Tail(c) = (a \o b) \o c
<1> DEFINE h == <<Head(c)>>
<1>1. Head(c) \in Nat /\ Tail(c) \in Seq(Nat)
  BY HeadTailProperties
<1>2. h \in Seq(Nat)
  BY <1>1
<1>3. Append(b, Head(c)) = b \o h
  BY <1>1, AppendIsConcat
<1>4. c = h \o Tail(c)
  BY <1>1
<1>5. (a \o b) \in Seq(Nat) /\ (b \o h) \in Seq(Nat)
  BY <1>2, ConcatProperties
<1>6. a \o (b \o h) = (a \o b) \o h
  BY <1>2, ConcatAssociative
<1>7. ((a \o b) \o h) \o Tail(c) = (a \o b) \o (h \o Tail(c))
  BY <1>1, <1>2, <1>5, ConcatAssociative
<1>. HIDE DEF h
<1>. QED
  BY <1>3, <1>4, <1>6, <1>7

(* Emptying the middle piece into the first one leaves the whole as it was. *)
LEMMA MoveMiddle ==
  ASSUME NEW a \in Seq(Nat), NEW b \in Seq(Nat), NEW c \in Seq(Nat)
  PROVE  ((a \o b) \o << >>) \o c = (a \o b) \o c
<1>1. (a \o b) \in Seq(Nat)
  BY ConcatProperties
<1>. QED
  BY <1>1, ConcatEmptySeq
-----------------------------------------------------------------------------
(* A session starts with everything empty, closed and stopped. *)
LEMMA InitInv == Init => Inv
<1> SUFFICES ASSUME Init PROVE Inv
  OBVIOUS
<1>0. Empty \in [Streams -> Seq(Nat)] /\ Empty \in [Streams -> Seq(Records)]
  BY DEF Empty
<1>1. TypeOK
  <2>1. SinkTypeOK
    <3>1. running \in BOOLEAN
      BY DEF Init, SinkInit
    <3>11. opened \in BOOLEAN
      BY DEF Init, SinkInit
    <3>2. count \in 0 .. MaxBatch
      BY MaxBatchAssumption DEF Init, SinkInit
    <3>3. worker \in {"none", "loop", "collect", "tail", "done"} /\ processed \in Nat
      BY DEF Init, SinkInit
    <3>4. queue \in [Streams -> Seq(Nat)] /\ batch \in [Streams -> Seq(Nat)] /\ file \in [Streams -> Seq(Nat)]
      BY <1>0 DEF Init, SinkInit
    <3>. QED
      BY <3>1, <3>11, <3>2, <3>3, <3>4 DEF SinkTypeOK
  <2>2. emitted \in [Streams -> Seq(Records)]
    BY <1>0 DEF Init
  <2>3. seq \in [Streams -> Records]
    BY BoundAssumption DEF Init, Records
  <2>. QED
    BY <2>1, <2>2, <2>3 DEF Init, TypeOK, Controls
<1>2. Pipeline
  <2>1. ThreadsByControl
    BY DEF Init, ThreadsByControl
  <2>2. SinkByControl
    BY DEF Init, SinkInit, SinkByControl
  <2>. QED
    BY <2>1, <2>2 DEF Pipeline
<1>3. Conservation
  BY EmptySeq, ConcatEmptySeq DEF Init, SinkInit, Conservation, Empty
<1>. QED
  BY <1>1, <1>2, <1>3 DEF Inv

(* Every step keeps the types. *)
LEMMA TypeStep == TypeOK /\ [Next]_vars => TypeOK'
<1> SUFFICES ASSUME TypeOK, [Next]_vars PROVE TypeOK'
  OBVIOUS
<1> USE MaxBatchAssumption, BoundAssumption
<1>0. Empty \in [Streams -> Seq(Nat)] /\ Empty \in [Streams -> Seq(Records)]
  BY DEF Empty
<1>1. CASE DrainTest /\ UNCHANGED <<ctlVars, prodVars>>
  BY <1>1 DEF DrainTest, TypeOK, SinkTypeOK, ctlVars, prodVars
<1>2. CASE (DrainTake \/ TailTake) /\ UNCHANGED <<ctlVars, prodVars>>
  <2>1. PICK s \in Streams :
          /\ queue[s] # << >>
          /\ queue' = [queue EXCEPT ![s] = Tail(@)]
          /\ batch' = [batch EXCEPT ![s] = Append(@, Head(queue[s]))]
    BY <1>2 DEF DrainTake, TailTake, Take
  <2>2. queue[s] \in Seq(Nat) /\ batch[s] \in Seq(Nat)
    BY DEF TypeOK, SinkTypeOK
  <2>3. Tail(queue[s]) \in Seq(Nat) /\ Append(batch[s], Head(queue[s])) \in Seq(Nat)
    BY <2>1, <2>2, HeadTailProperties, AppendProperties
  <2>4. queue' \in [Streams -> Seq(Nat)] /\ batch' \in [Streams -> Seq(Nat)]
    BY <2>1, <2>3 DEF TypeOK, SinkTypeOK
  <2>5. /\ count < MaxBatch /\ count' = count + 1
        /\ UNCHANGED <<running, worker, processed, opened, file>>
    BY <1>2 DEF DrainTake, TailTake, Take
  <2>6. count' \in 0 .. MaxBatch
    BY <2>5 DEF TypeOK, SinkTypeOK
  <2>. QED
    BY <1>2, <2>4, <2>5, <2>6 DEF TypeOK, SinkTypeOK, ctlVars, prodVars
<1>3. CASE (DrainWrite \/ TailWrite \/ TailEnd) /\ UNCHANGED <<ctlVars, prodVars>>
  <2>1. WriteOut /\ worker' \in {"none", "loop", "collect", "tail", "done"}
    BY <1>3 DEF DrainWrite, TailWrite, TailEnd, TypeOK, SinkTypeOK
  <2>2. [s \in Streams |-> file[s] \o batch[s]] \in [Streams -> Seq(Nat)]
    BY ConcatProperties DEF TypeOK, SinkTypeOK
  <2>3. file' \in [Streams -> Seq(Nat)]
    BY <2>1, <2>2 DEF WriteOut, BackendWriteBatch, TypeOK, SinkTypeOK
  <2>4. batch' \in [Streams -> Seq(Nat)] /\ count' \in 0 .. MaxBatch /\ processed' \in Nat
    BY <2>1, <1>0 DEF WriteOut, TypeOK, SinkTypeOK
  <2>. QED
    BY <1>3, <2>1, <2>3, <2>4 DEF WriteOut, TypeOK, SinkTypeOK, ctlVars, prodVars
<1>4. CASE OpenEpisode
  BY <1>4, <1>0 DEF OpenEpisode, BackendOpen, TypeOK, SinkTypeOK, Controls
<1>5. CASE StartSink
  BY <1>5, <1>0 DEF StartSink, SinkStart, BackendOpen, TypeOK, SinkTypeOK, Controls, prodVars
<1>6. ASSUME NEW s \in PushStreams, StartPush(s) \/ StopPush(s) PROVE TypeOK'
  BY <1>6 DEF StartPush, StopPush, StartThreads, SignalThreads, TypeOK, SinkTypeOK, sinkVars, ctlVars
<1>7. CASE StartScheduler \/ StopScheduler
  BY <1>7 DEF StartScheduler, StopScheduler, StartThreads, SignalThreads, TypeOK, SinkTypeOK, sinkVars, Controls
<1>8. CASE AbortStart \/ PushStopped \/ SchedulerStopped \/ \E f \in {"kept", "discarded"} : Teardown(f)
  BY <1>8 DEF AbortStart, PushStopped, SchedulerStopped, Teardown, TypeOK, SinkTypeOK, sinkVars, prodVars, Controls
<1>9. CASE StopSink \/ SinkStopped \/ Finish
  BY <1>9 DEF StopSink, SinkStopped, Finish, SinkStopSignal, SinkStopJoin, TypeOK, SinkTypeOK, prodVars, Controls
<1>10. ASSUME NEW s \in Streams, LoopTest(s) \/ NoRecord(s) PROVE TypeOK'
  BY <1>10 DEF LoopTest, NoRecord, TypeOK, SinkTypeOK, sinkVars, ctlVars
<1>11. ASSUME NEW s \in Streams, Emit(s) PROVE TypeOK'
  <2>1. seq[s] \in Records /\ seq[s] \in Nat /\ seq[s] + 1 \in Records
    BY <1>11 DEF Emit, TypeOK, Records
  <2>2. Append(queue[s], seq[s]) \in Seq(Nat) /\ Append(emitted[s], seq[s]) \in Seq(Records)
    BY <2>1, AppendProperties DEF TypeOK, SinkTypeOK
  <2>3. queue' \in [Streams -> Seq(Nat)]
    BY <1>11, <2>2 DEF Emit, Enqueue, TypeOK, SinkTypeOK
  <2>4. emitted' \in [Streams -> Seq(Records)] /\ seq' \in [Streams -> Records]
    BY <1>11, <2>1, <2>2 DEF Emit, TypeOK
  <2>. QED
    BY <1>11, <2>3, <2>4 DEF Emit, TypeOK, SinkTypeOK, ctlVars
<1>12. CASE UNCHANGED vars
  BY <1>12 DEF vars, sinkVars, ctlVars, prodVars, TypeOK, SinkTypeOK
<1>. QED
  BY <1>1, <1>2, <1>3, <1>4, <1>5, <1>6, <1>7, <1>8, <1>9, <1>10, <1>11, <1>12
     DEF Next, DrainStep, Drain, ControlStep, StreamStep
-----------------------------------------------------------------------------
(* Every step keeps the threads in the places the control thread's own place
   allows. *)
LEMMA ThreadsStep == Inv /\ [Next]_vars => ThreadsByControl'
<1> SUFFICES ASSUME Inv, [Next]_vars PROVE ThreadsByControl'
  OBVIOUS
<1> USE PushAssumption DEF Inv, Pipeline, TypeOK
<1>1. CASE DrainStep
  BY <1>1 DEF DrainStep, ThreadsByControl, ctlVars, prodVars
<1>2. CASE OpenEpisode
  BY <1>2 DEF OpenEpisode, ThreadsByControl
<1>3. CASE StartSink
  BY <1>3 DEF StartSink, ThreadsByControl, prodVars, PolledStreams
<1>4. ASSUME NEW s \in PushStreams, StartPush(s) PROVE ThreadsByControl'
  BY <1>4 DEF StartPush, StartThreads, ThreadsByControl, ctlVars, PolledStreams
<1>5. ASSUME NEW s \in PushStreams, StopPush(s) PROVE ThreadsByControl'
  BY <1>5 DEF StopPush, SignalThreads, ThreadsByControl, ctlVars
<1>6. CASE StartScheduler
  BY <1>6 DEF StartScheduler, StartThreads, ThreadsByControl, PolledStreams
<1>7. CASE StopScheduler
  BY <1>7 DEF StopScheduler, SignalThreads, ThreadsByControl
<1>8. CASE AbortStart \/ \E f \in {"kept", "discarded"} : Teardown(f)
  BY <1>8 DEF AbortStart, Teardown, ThreadsByControl, prodVars
<1>9. CASE PushStopped
  BY <1>9 DEF PushStopped, Joined, ThreadsByControl, prodVars, PolledStreams
<1>10. CASE SchedulerStopped
  BY <1>10 DEF SchedulerStopped, Joined, ThreadsByControl, prodVars, PolledStreams
<1>11. CASE StopSink \/ SinkStopped \/ Finish
  BY <1>11 DEF StopSink, SinkStopped, Finish, ThreadsByControl, prodVars
<1>12. ASSUME NEW s \in Streams, LoopTest(s) PROVE ThreadsByControl'
  BY <1>12 DEF LoopTest, ThreadsByControl, ctlVars
<1>13. ASSUME NEW s \in Streams, Emit(s) \/ NoRecord(s) PROVE ThreadsByControl'
  BY <1>13 DEF Emit, NoRecord, ThreadsByControl, ctlVars, PolledStreams
<1>14. CASE UNCHANGED vars
  BY <1>14 DEF vars, ctlVars, prodVars, ThreadsByControl
<1>. QED
  BY <1>1, <1>2, <1>3, <1>4, <1>5, <1>6, <1>7, <1>8, <1>9, <1>10, <1>11, <1>12, <1>13, <1>14
     DEF Next, ControlStep, StreamStep

(* Every step keeps the drain thread and the backend in the places the control
   thread's own place allows. *)
LEMMA SinkStep == Inv /\ [Next]_vars => SinkByControl'
<1> SUFFICES ASSUME Inv, [Next]_vars PROVE SinkByControl'
  OBVIOUS
<1> USE DEF Inv, Pipeline, TypeOK, SinkTypeOK
<1>1. CASE DrainTest /\ UNCHANGED <<ctlVars, prodVars>>
  BY <1>1 DEF DrainTest, SinkByControl, ctlVars
<1>2. CASE (DrainTake \/ TailTake) /\ UNCHANGED <<ctlVars, prodVars>>
  <2>1. /\ worker \in {"collect", "tail"}
        /\ UNCHANGED <<running, worker, opened, ctl>>
    BY <1>2 DEF DrainTake, TailTake, Take, ctlVars
  <2>. QED
    BY <2>1 DEF SinkByControl
<1>3. CASE (DrainWrite \/ TailWrite) /\ UNCHANGED <<ctlVars, prodVars>>
  BY <1>3 DEF DrainWrite, TailWrite, WriteOut, SinkByControl, ctlVars
<1>4. CASE TailEnd /\ UNCHANGED <<ctlVars, prodVars>>
  BY <1>4 DEF TailEnd, WriteOut, SinkByControl, QueueEmpty, Empty, ctlVars
<1>5. CASE OpenEpisode
  BY <1>5 DEF OpenEpisode, BackendOpen, SinkByControl
<1>6. CASE StartSink
  BY <1>6 DEF StartSink, SinkStart, BackendOpen, SinkByControl
<1>7. ASSUME NEW s \in PushStreams, StartPush(s) \/ StopPush(s) PROVE SinkByControl'
  BY <1>7 DEF StartPush, StopPush, SinkByControl, sinkVars, ctlVars
<1>8. CASE AbortStart \/ StartScheduler \/ \E f \in {"kept", "discarded"} : Teardown(f)
  BY <1>8 DEF AbortStart, StartScheduler, Teardown, SinkByControl, sinkVars
<1>9. CASE PushStopped \/ StopScheduler \/ SchedulerStopped
  BY <1>9 DEF PushStopped, StopScheduler, SchedulerStopped, SinkByControl, sinkVars
<1>10. CASE StopSink
  BY <1>10 DEF StopSink, SinkStopSignal, SinkByControl
<1>11. CASE SinkStopped \/ Finish
  BY <1>11 DEF SinkStopped, SinkStopJoin, Finish, SinkByControl
<1>12. ASSUME NEW s \in Streams, LoopTest(s) \/ NoRecord(s) PROVE SinkByControl'
  BY <1>12 DEF LoopTest, NoRecord, SinkByControl, sinkVars, ctlVars
<1>13. ASSUME NEW s \in Streams, Emit(s) PROVE SinkByControl'
  BY <1>13 DEF Emit, Enqueue, SinkByControl, ThreadsByControl, ctlVars
<1>14. CASE UNCHANGED vars
  BY <1>14 DEF vars, sinkVars, ctlVars, SinkByControl
<1>. QED
  BY <1>1, <1>2, <1>3, <1>4, <1>5, <1>6, <1>7, <1>8, <1>9, <1>10, <1>11, <1>12, <1>13, <1>14
     DEF Next, DrainStep, Drain, ControlStep, StreamStep
-----------------------------------------------------------------------------
(* Conservation, action by action: a record enters at the end of the queue,
   moves from the queue's head to the batch's end, and from the batch to the
   file's end. *)
LEMMA ConservationStep == Inv /\ [Next]_vars => Conservation'
<1> SUFFICES ASSUME Inv, [Next]_vars, NEW s \in Streams
             PROVE  emitted'[s] = (file'[s] \o batch'[s]) \o queue'[s]
  BY DEF Conservation
<1>0. /\ emitted[s] = (file[s] \o batch[s]) \o queue[s]
      /\ file[s] \in Seq(Nat) /\ batch[s] \in Seq(Nat) /\ queue[s] \in Seq(Nat)
  BY DEF Inv, Conservation, TypeOK, SinkTypeOK
<1>1. CASE DrainTest /\ UNCHANGED <<ctlVars, prodVars>>
  BY <1>0, <1>1 DEF DrainTest, prodVars
<1>2. CASE (DrainTake \/ TailTake) /\ UNCHANGED <<ctlVars, prodVars>>
  <2>1. PICK q \in Streams :
          /\ queue[q] # << >>
          /\ queue' = [queue EXCEPT ![q] = Tail(@)]
          /\ batch' = [batch EXCEPT ![q] = Append(@, Head(queue[q]))]
    BY <1>2 DEF DrainTake, TailTake, Take
  <2>2. file' = file /\ emitted' = emitted
    BY <1>2 DEF DrainTake, TailTake, Take, prodVars
  <2>3. CASE s # q
    BY <1>0, <2>1, <2>2, <2>3 DEF Inv, TypeOK, SinkTypeOK
  <2>4. CASE s = q
    <3>1. queue'[s] = Tail(queue[s]) /\ batch'[s] = Append(batch[s], Head(queue[s]))
      BY <2>1, <2>4 DEF Inv, TypeOK, SinkTypeOK
    <3>2. (file[s] \o Append(batch[s], Head(queue[s]))) \o Tail(queue[s]) = (file[s] \o batch[s]) \o queue[s]
      <4>1. queue[s] # << >>
        BY <2>1, <2>4
      <4>. QED
        BY <1>0, <4>1, MoveHead
    <3>. QED
      BY <1>0, <2>2, <3>1, <3>2
  <2>. QED
    BY <2>3, <2>4
<1>3. CASE (DrainWrite \/ TailWrite \/ TailEnd) /\ UNCHANGED <<ctlVars, prodVars>>
  <2>1. WriteOut /\ emitted' = emitted
    BY <1>3 DEF DrainWrite, TailWrite, TailEnd, prodVars
  <2>2. opened
    BY <1>3 DEF DrainWrite, TailWrite, TailEnd, Inv, Pipeline, SinkByControl
  <2>3. file'[s] = file[s] \o batch[s] /\ batch'[s] = << >> /\ queue'[s] = queue[s]
    BY <2>1, <2>2 DEF WriteOut, BackendWriteBatch, Empty
  <2>4. ((file[s] \o batch[s]) \o << >>) \o queue[s] = (file[s] \o batch[s]) \o queue[s]
    BY <1>0, MoveMiddle
  <2>. QED
    BY <1>0, <2>1, <2>3, <2>4
<1>4. CASE OpenEpisode
  <2>1. ~opened /\ batch = Empty /\ queue = Empty
    BY <1>4 DEF OpenEpisode, Inv, Pipeline, SinkByControl
  <2>2. file'[s] = << >> /\ batch'[s] = << >> /\ queue'[s] = << >> /\ emitted'[s] = << >>
    BY <1>4, <2>1 DEF OpenEpisode, BackendOpen, Empty
  <2>. QED
    BY <2>2, EmptySeq, ConcatEmptySeq
<1>5. CASE StartSink
  <2>1. opened /\ batch = Empty /\ queue = Empty
    BY <1>5 DEF StartSink, Inv, Pipeline, SinkByControl
  <2>. QED
    BY <1>0, <1>5, <2>1 DEF StartSink, SinkStart, BackendOpen, prodVars
<1>6. CASE \E q \in PushStreams : StartPush(q) \/ StopPush(q)
  BY <1>0, <1>6 DEF StartPush, StopPush, sinkVars
<1>7. CASE AbortStart \/ StartScheduler \/ PushStopped \/ StopScheduler \/ SchedulerStopped
  BY <1>0, <1>7 DEF AbortStart, StartScheduler, PushStopped, StopScheduler, SchedulerStopped, sinkVars, prodVars
<1>8. CASE \E f \in {"kept", "discarded"} : Teardown(f)
  BY <1>0, <1>8 DEF Teardown, sinkVars, prodVars
<1>9. CASE StopSink \/ SinkStopped \/ Finish
  BY <1>0, <1>9 DEF StopSink, SinkStopSignal, SinkStopped, SinkStopJoin, Finish, prodVars
<1>10. CASE \E q \in Streams : LoopTest(q) \/ NoRecord(q)
  BY <1>0, <1>10 DEF LoopTest, NoRecord, sinkVars
<1>11. ASSUME NEW q \in Streams, Emit(q) PROVE emitted'[s] = (file'[s] \o batch'[s]) \o queue'[s]
  <2>1. sinkOf[q] = episode
    <3>1. thread[q] = "pass"
      BY <1>11 DEF Emit
    <3>2. thread[q] # "none" => sinkOf[q] = episode
      BY DEF Inv, Pipeline, ThreadsByControl
    <3>. QED
      BY <3>1, <3>2
  <2>2. /\ queue' = [queue EXCEPT ![q] = Append(@, seq[q])]
        /\ emitted' = [emitted EXCEPT ![q] = Append(@, seq[q])]
        /\ file' = file /\ batch' = batch
    BY <1>11, <2>1 DEF Emit, Enqueue
  <2>3. CASE s # q
    BY <1>0, <2>2, <2>3 DEF Inv, TypeOK, SinkTypeOK
  <2>4. CASE s = q
    <3>1. seq[s] \in Nat
      BY <1>11, <2>4, BoundAssumption DEF Emit, Inv, TypeOK, Records
    <3>2. queue'[s] = Append(queue[s], seq[s]) /\ emitted'[s] = Append(emitted[s], seq[s])
      BY <2>2, <2>4 DEF Inv, TypeOK, SinkTypeOK
    <3>3. Append((file[s] \o batch[s]) \o queue[s], seq[s]) = (file[s] \o batch[s]) \o Append(queue[s], seq[s])
      BY <1>0, <3>1, AppendToLast
    <3>. QED
      BY <1>0, <2>2, <3>2, <3>3
  <2>. QED
    BY <2>3, <2>4
<1>12. CASE UNCHANGED vars
  BY <1>0, <1>12 DEF vars, sinkVars, prodVars
<1>. QED
  BY <1>1, <1>2, <1>3, <1>4, <1>5, <1>6, <1>7, <1>8, <1>9, <1>10, <1>11, <1>12
     DEF Next, DrainStep, Drain, ControlStep, StreamStep

(* Every step keeps the invariant. *)
LEMMA Inductive == Inv /\ [Next]_vars => Inv'
  BY TypeStep, ThreadsStep, SinkStep, ConservationStep DEF Inv, Pipeline

(* The invariant holds in every reachable state, for every set of streams and
   every batch size. *)
THEOREM Invariance == Spec => []Inv
<1>1. Init => Inv
  BY InitInv
<1>2. Inv /\ [Next]_vars => Inv'
  BY Inductive
<1>. QED
  BY <1>1, <1>2, PTL DEF Spec

(* The counters, loops and queues of the data path stay within their types; for
   count this says that no batch ever exceeds MaxBatch. *)
THEOREM TypeCorrect == Spec => []TypeOK
  BY Invariance, PTL DEF Inv

(* start_episode and teardown_episode bring the pipeline up and down in an
   order that never leaves a thread without the part it needs. *)
THEOREM PipelineHolds == Spec => []Pipeline
  BY Invariance, PTL DEF Inv

(* The sink neither loses, duplicates nor reorders a record. *)
THEOREM ConservationHolds == Spec => []Conservation
  BY Invariance, PTL DEF Inv
-----------------------------------------------------------------------------
(* When an episode is over its file holds every record that was emitted. *)
THEOREM CompleteHolds == Spec => []CompleteWhenIdle
<1>1. Inv => CompleteWhenIdle
  <2> SUFFICES ASSUME Inv, ctl = "idle" PROVE file = emitted
    BY DEF CompleteWhenIdle
  <2>1. batch = Empty /\ queue = Empty
    BY DEF Inv, Pipeline, SinkByControl
  <2>2. ASSUME NEW s \in Streams PROVE file[s] = emitted[s]
    <3>1. file[s] \in Seq(Nat) /\ batch[s] = << >> /\ queue[s] = << >>
      BY <2>1 DEF Inv, TypeOK, SinkTypeOK, Empty
    <3>2. emitted[s] = (file[s] \o << >>) \o << >>
      BY <3>1 DEF Inv, Conservation
    <3>. QED
      BY <3>1, <3>2, ConcatEmptySeq
  <2>3. file \in [Streams -> Seq(Nat)] /\ emitted \in [Streams -> Seq(Records)]
    BY DEF Inv, TypeOK, SinkTypeOK
  <2>. QED
    BY <2>2, <2>3
<1>. QED
  BY <1>1, Invariance, PTL
-----------------------------------------------------------------------------
(* The first piece of a sequence is a prefix of it, over the same elements. *)
LEMMA FirstPiece ==
  ASSUME NEW a \in Seq(Nat), NEW b \in Seq(Nat)
  PROVE  Log!IsPrefix(a, a \o b)
<1>1. /\ Len(a) \in Nat /\ Len(b) \in Nat /\ (a \o b) \in Seq(Nat)
      /\ Len(a \o b) = Len(a) + Len(b)
      /\ \A i \in 1 .. Len(a) : (a \o b)[i] = a[i]
  BY ConcatProperties, LenProperties
<1>2. SubSeq(a, 1, Len(a)) = a
  BY SubSeqFull
<1>3. SubSeq(a \o b, 1, Len(a)) = a
  <2>1. \A i \in 1 .. Len(a) : (a \o b)[i] \in Nat
    BY <1>1, ElementOfSeq
  <2>2. /\ SubSeq(a \o b, 1, Len(a)) \in Seq(Nat)
        /\ Len(SubSeq(a \o b, 1, Len(a))) = Len(a)
        /\ \A i \in 1 .. Len(a) : SubSeq(a \o b, 1, Len(a))[i] = (a \o b)[i]
    BY <1>1, <2>1, SubSeqProperties
  <2>. QED
    BY <1>1, <2>2, SeqEqual
<1>. QED
  BY <1>1, <1>2, <1>3 DEF Log!IsPrefix

(* ... and has no element the whole does not have. *)
LEMMA FirstPieceElements ==
  ASSUME NEW a \in Seq(Nat), NEW b \in Seq(Nat), (a \o b) \in Seq(Records)
  PROVE  a \in Seq(Records)
<1>1. /\ Len(a) \in Nat /\ Len(b) \in Nat /\ Len(a \o b) = Len(a) + Len(b)
      /\ \A i \in 1 .. Len(a) : (a \o b)[i] = a[i]
  BY ConcatProperties, LenProperties
<1>2. \A i \in 1 .. Len(a) : a[i] \in Records
  BY <1>1, ElementOfSeq
<1>. QED
  BY <1>2

(* A write is a step of the abstract log: the file grows to a longer prefix of
   what was emitted. *)
LEMMA WritePersists ==
  ASSUME Inv, Inv', WriteOut, opened, emitted' = emitted, ctl' = ctl, ctl # "idle"
  PROVE  Log!Persist
<1>1. ASSUME NEW s \in Streams
      PROVE  /\ file'[s] \in Seq(Records)
             /\ Log!IsPrefix(file[s], file'[s])
             /\ Log!IsPrefix(file'[s], emitted[s])
  <2>1. file[s] \in Seq(Nat) /\ batch[s] \in Seq(Nat) /\ queue[s] \in Seq(Nat)
    BY DEF Inv, TypeOK, SinkTypeOK
  <2>2. file'[s] = file[s] \o batch[s]
    BY DEF WriteOut, BackendWriteBatch
  <2>3. file'[s] \in Seq(Nat)
    BY <2>1, <2>2, ConcatProperties
  <2>4. emitted[s] = file'[s] \o queue[s] /\ emitted[s] \in Seq(Records)
    BY <2>2 DEF Inv, Conservation, TypeOK
  <2>5. file'[s] \in Seq(Records)
    BY <2>1, <2>3, <2>4, FirstPieceElements
  <2>6. Log!IsPrefix(file[s], file[s] \o batch[s]) /\ Log!IsPrefix(file'[s], file'[s] \o queue[s])
    BY <2>1, <2>3, FirstPiece
  <2>. QED
    BY <2>2, <2>4, <2>5, <2>6
<1>2. file' \in [Streams -> Seq(Records)]
  <2>1. file' \in [Streams -> Seq(Nat)]
    BY DEF Inv, TypeOK, SinkTypeOK
  <2>. QED
    BY <1>1, <2>1
<1>. QED
  BY <1>1, <1>2 DEF Log!Persist

(* Every step of the data path is a step of the abstract log, or a stutter. *)
LEMMA StepRefines == Inv /\ Inv' /\ CompleteWhenIdle' /\ [Next]_vars => [Log!Next]_Log!logVars
<1> SUFFICES ASSUME Inv, Inv', CompleteWhenIdle', [Next]_vars
             PROVE  Log!Next \/ UNCHANGED <<emitted, file, ctl = "idle">>
  BY DEF Log!logVars
<1>1. CASE (DrainTest \/ DrainTake \/ TailTake) /\ UNCHANGED <<ctlVars, prodVars>>
  BY <1>1 DEF DrainTest, DrainTake, TailTake, Take, ctlVars, prodVars
<1>2. CASE (DrainWrite \/ TailWrite \/ TailEnd) /\ UNCHANGED <<ctlVars, prodVars>>
  <2>1. WriteOut /\ emitted' = emitted /\ ctl' = ctl
    BY <1>2 DEF DrainWrite, TailWrite, TailEnd, ctlVars, prodVars
  <2>2. opened /\ ctl # "idle"
    BY <1>2 DEF DrainWrite, TailWrite, TailEnd, Inv, Pipeline, SinkByControl
  <2>. QED
    BY <2>1, <2>2, WritePersists DEF Log!Next
<1>3. CASE OpenEpisode
  <2>1. ~opened
    BY <1>3 DEF OpenEpisode, Inv, Pipeline, SinkByControl
  <2>2. Log!Begin
    BY <1>3, <2>1 DEF OpenEpisode, BackendOpen, Log!Begin, Log!None, Empty
  <2>. QED
    BY <2>2 DEF Log!Next
<1>4. CASE StartSink
  <2>1. opened
    BY <1>4 DEF StartSink, Inv, Pipeline, SinkByControl
  <2>. QED
    BY <1>4, <2>1 DEF StartSink, SinkStart, BackendOpen, prodVars
<1>5. CASE \E q \in PushStreams : StartPush(q) \/ StopPush(q)
  BY <1>5 DEF StartPush, StopPush, sinkVars, ctlVars
<1>6. CASE AbortStart \/ StartScheduler \/ PushStopped \/ StopScheduler \/ SchedulerStopped
  BY <1>6 DEF AbortStart, StartScheduler, PushStopped, StopScheduler, SchedulerStopped, sinkVars, prodVars
<1>7. CASE \E f \in {"kept", "discarded"} : Teardown(f)
  BY <1>7 DEF Teardown, sinkVars, prodVars
<1>8. CASE StopSink \/ SinkStopped
  BY <1>8 DEF StopSink, SinkStopSignal, SinkStopped, SinkStopJoin, prodVars
<1>9. CASE Finish
  <2>1. /\ ctl = "finish" /\ ctl' = "idle"
        /\ file' = file /\ emitted' = emitted
    BY <1>9 DEF Finish, prodVars
  <2>2. file = emitted
    BY <2>1 DEF CompleteWhenIdle
  <2>. QED
    BY <2>1, <2>2 DEF Log!Next, Log!Seal
<1>10. CASE \E q \in Streams : LoopTest(q) \/ NoRecord(q)
  BY <1>10 DEF LoopTest, NoRecord, sinkVars, ctlVars
<1>11. ASSUME NEW q \in Streams, Emit(q) PROVE Log!Next
  <2>1. thread[q] = "pass" /\ file' = file /\ ctl' = ctl
    BY <1>11 DEF Emit, ctlVars
  <2>2. ctl # "idle"
    BY <2>1 DEF Inv, Pipeline, ThreadsByControl
  <2>3. seq[q] \in Records
    BY DEF Inv, TypeOK
  <2>4. emitted' = [emitted EXCEPT ![q] = Append(@, seq[q])]
    BY <1>11 DEF Emit
  <2>5. Log!Accept
    BY <2>1, <2>2, <2>3, <2>4 DEF Log!Accept
  <2>. QED
    BY <2>5 DEF Log!Next
<1>12. CASE UNCHANGED vars
  BY <1>12 DEF vars, sinkVars, ctlVars, prodVars
<1>. QED
  BY <1>1, <1>2, <1>3, <1>4, <1>5, <1>6, <1>7, <1>8, <1>9, <1>10, <1>11, <1>12
     DEF Next, DrainStep, Drain, ControlStep, StreamStep

(* The data path implements the abstract episode log: what is durable is always
   a prefix of what was accepted, an episode is sealed only when complete, and
   a sealed episode never changes. *)
THEOREM Refinement == Spec => ImplementsLog
<1>1. Init => Log!Init
  BY DEF Init, SinkInit, Log!Init, Log!None, Empty
<1>2. Inv /\ Inv' /\ CompleteWhenIdle' /\ [Next]_vars => [Log!Next]_Log!logVars
  BY StepRefines
<1>. QED
  BY <1>1, <1>2, Invariance, CompleteHolds, PTL DEF Spec, ImplementsLog, Log!Spec
=============================================================================
