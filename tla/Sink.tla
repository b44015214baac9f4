-------------------------------- MODULE Sink --------------------------------
(***************************************************************************)
(* The recording sink (io/sink.hpp): producers enqueue records without     *)
(* blocking, one drain thread takes them in batches and hands each batch   *)
(* to the backend.  The queue is the lock-free ConcurrentQueue of          *)
(* queue_adapter.hpp, which is FIFO per enqueuing thread and promises      *)
(* nothing across threads; every stream is emitted by one thread, so the   *)
(* queue, the batch and the file are kept per stream.                      *)
(*                                                                         *)
(* This module holds the sink's state and the steps of its operations; who *)
(* calls them, and when, is Recording.                                     *)
(***************************************************************************)
EXTENDS Naturals, Sequences

CONSTANTS
  Streams,   \* the record streams (RecordBase::id)
  MaxBatch   \* kMaxBatch, 64 in the code

ASSUME MaxBatchAssumption == MaxBatch \in Nat \ {0}

VARIABLES
  running,    \* Sink::running_
  worker,     \* where drain_loop() stands; "none" when there is no thread
  queue,      \* per stream, the records enqueued and not yet dequeued
  batch,      \* per stream, the records dequeued into batch_storage_
  count,      \* the drain loop's local count of the records of the batch
  processed,  \* num_records_processed_
  opened,     \* Backend::opened_
  file        \* per stream, the records handed to the open writer

sinkVars == <<running, worker, queue, batch, count, processed, opened, file>>

Empty == [s \in Streams |-> << >>]

SinkTypeOK ==
  /\ running \in BOOLEAN
  /\ worker \in {"none", "loop", "collect", "tail", "done"}
  /\ queue \in [Streams -> Seq(Nat)]
  /\ batch \in [Streams -> Seq(Nat)]
  /\ count \in 0 .. MaxBatch
  /\ processed \in Nat
  /\ opened \in BOOLEAN
  /\ file \in [Streams -> Seq(Nat)]

SinkInit ==
  /\ running = FALSE
  /\ worker = "none"
  /\ queue = Empty
  /\ batch = Empty
  /\ count = 0
  /\ processed = 0
  /\ opened = FALSE
  /\ file = Empty
-----------------------------------------------------------------------------
(* Backend::open: a new, empty file; a second call finds it open and keeps it. *)
BackendOpen ==
  /\ opened' = TRUE
  /\ file' = IF opened THEN file ELSE Empty

(* Backend::write_batch: under the writer's mutex, all of it or, when the
   backend is closed, silently none of it. *)
BackendWriteBatch ==
  file' = IF opened THEN [s \in Streams |-> file[s] \o batch[s]] ELSE file

(* Sink::enqueue, from any thread. *)
Enqueue(s, r) == queue' = [queue EXCEPT ![s] = Append(@, r)]

(* A new Sink on an open backend, then Sink::start: opens again (a no-op) and
   spawns the drain thread. *)
SinkStart ==
  /\ running' = TRUE
  /\ worker' = "loop"
  /\ queue' = Empty
  /\ batch' = Empty
  /\ count' = 0
  /\ processed' = 0
  /\ BackendOpen

(* Faulty variant: the backend closed before the drain thread is joined. *)
SinkStopClosingFirst ==
  /\ running
  /\ running' = FALSE
  /\ opened' = FALSE
  /\ UNCHANGED <<worker, queue, batch, count, processed, file>>

(* Sink::stop, first half: running_.exchange(false). *)
SinkStopSignal ==
  /\ running
  /\ running' = FALSE
  /\ UNCHANGED <<worker, queue, batch, count, processed, opened, file>>

(* Sink::stop, second half: the thread is joined, then the backend closed. *)
SinkStopJoin ==
  /\ ~running
  /\ worker = "done"
  /\ worker' = "none"
  /\ opened' = FALSE
  /\ UNCHANGED <<running, queue, batch, count, processed, file>>
-----------------------------------------------------------------------------
QueueEmpty == \A s \in Streams : queue[s] = << >>

(* Some stream's oldest record moves from the queue to the batch. *)
Take ==
  /\ count < MaxBatch
  /\ \E s \in Streams :
       /\ queue[s] # << >>
       /\ queue' = [queue EXCEPT ![s] = Tail(@)]
       /\ batch' = [batch EXCEPT ![s] = Append(@, Head(queue[s]))]
  /\ count' = count + 1
  /\ UNCHANGED <<running, worker, processed, opened, file>>

(* Faulty variant: the batch is kept after it was written. *)
WriteOutKeepingBatch ==
  /\ BackendWriteBatch
  /\ processed' = processed + count
  /\ count' = 0
  /\ UNCHANGED <<running, queue, batch, opened>>

(* The batch goes to the backend, is counted, and is released. *)
WriteOut ==
  /\ BackendWriteBatch
  /\ processed' = processed + count
  /\ batch' = Empty
  /\ count' = 0
  /\ UNCHANGED <<running, queue, opened>>

(* while (running_): one more batch, or on to the final flush. *)
DrainTest ==
  /\ worker = "loop"
  /\ worker' = IF running THEN "collect" ELSE "tail"
  /\ UNCHANGED <<running, queue, batch, count, processed, opened, file>>

DrainTake == worker = "collect" /\ Take

(* The batch is full, or the queue was seen empty: write, or sleep 1 ms. *)
DrainWrite ==
  /\ worker = "collect"
  /\ count = MaxBatch \/ QueueEmpty
  /\ WriteOut
  /\ worker' = "loop"

TailTake == worker = "tail" /\ Take

(* A full batch of the final flush is written and the flush goes on. *)
TailWrite ==
  /\ worker = "tail"
  /\ count = MaxBatch
  /\ WriteOut
  /\ UNCHANGED worker

(* The queue is empty: what is left is written and the thread ends. *)
TailEnd ==
  /\ worker = "tail"
  /\ count < MaxBatch
  /\ QueueEmpty
  /\ WriteOut
  /\ worker' = "done"

Drain == DrainTest \/ DrainTake \/ DrainWrite \/ TailTake \/ TailWrite \/ TailEnd
=============================================================================
