------------------------------ MODULE PolicyClient ------------------------------
(***************************************************************************)
(* hw/policy/policy_client.cpp between its transport, the mirrors that     *)
(* read its faces, and the program that pauses and resumes it              *)
(* (examples/trossen_stationary_ai_policy).  The inference thread, the     *)
(* transport's threads, the server, the mirrors, the recorder's scheduler, *)
(* the program's main thread and the monitor thread that ends an episode   *)
(* by itself all run at their own pace.                                    *)
(*                                                                         *)
(* Instants are control ticks.  One client stands for all: they share      *)
(* nothing but the program's loop over them.                               *)
(***************************************************************************)
EXTENDS Transports

CONSTANTS
  Mirrors,      \* the mirror loops, one per arm pair
  MaxNow,       \* bound: control ticks
  ShortNow,     \* bound: control ticks, with a transport in all its detail
  MaxLate,      \* bound: control ticks that pass between a reading of the clock and its sample
  MaxRequests,  \* bound: observations packed
  MaxEpisodes,  \* bound: episodes (one, with a transport in all its detail)
  MaxRecorded,  \* bound: episodes in which the commands are recorded too
  MaxStarts     \* bound: starts of the client

ASSUME PolicyAssumption == MaxNow \in Nat /\ ShortNow \in 0 .. MaxNow /\ MaxLate \in Nat /\ MaxRequests \in Nat /\ MaxEpisodes \in Nat /\ MaxRecorded \in Nat /\ MaxStarts \in Nat

ASSUME MirrorsAssumption == "recorder" \notin Mirrors

Requests == 1 .. MaxRequests
Never == -1   \* a target that is not set, a reading that was not taken

(* Whose threads sample the slot: every mirror's, and the scheduler's for the recorded
   stream.  (ChunkSlot's own comment allows exactly one thread.) *)
Readers == Mirrors \union {"recorder"}

VARIABLES
  drain,      \* rows left to play when the next observation is due (theta * T)
  now,        \* steady_clock
  slot,       \* SharedState::chunk_slot
  running,    \* inference_running_
  active,     \* inference_active_
  loop,       \* where the inference thread stands
  hand,       \* the chunk it has polled
  epoch,      \* inference_epoch_
  exhaustAt,  \* next_chunk_exhaust_target_
  sent,       \* req_seq
  ticks,      \* per observation, its timestep
  before,     \* history: observations packed before the last pause
  at,         \* where the program stands
  episode,    \* history: number of the episode
  ended,      \* the monitor thread has ended this episode
  mirror,     \* the mirror loops run
  starts,     \* history: starts of the client
  reading,    \* per reader, the clock's value it is about to sample the slot for
  overtaken,  \* history: readers whose reading is older than one sampled since
  missed      \* history: stop() notified the thread between its test and its sleep

(* chunk_boundary_blend_s, in ticks.  Bound: a cross-fade comes with overlap. *)
blend == IF drain > 0 THEN 1 ELSE 0

schedule == <<epoch, exhaustAt>>
requests == <<sent, ticks>>
thread == <<loop, hand, schedule, requests>>
program == <<at, episode, before, ended, mirror, starts>>
sampling == <<reading, overtaken>>
clientVars == <<drain, now, slot, running, active, thread, program, sampling, missed>>
policyVars == <<clientVars, transport>>

Overlap == drain > 0

LoopPlaces == {"off", "top", "check", "block", "parked", "observe", "poll", "apply", "done"}
Places == {"down", "idle", "resume", "gate", "ready", "episode",
           "stopping", "join"}

Chunks == [stamped : {0} \cup Requests, answers : {0} \cup Requests, at : 0 .. MaxNow]
Commands == [obs : {0} \cup Requests, row : -1 .. Rows - 1]

(* The client is built, configured and paused; teleop and session wait. *)
PolicyInit ==
  /\ TransportInit
  /\ drain \in 0 .. Rows - 1
  /\ ~Fake => drain = 0   \* bound: no overlap with a transport in all its detail
  /\ now = 0 /\ slot = EmptySlot
  /\ running = FALSE /\ active = FALSE
  /\ loop = "off" /\ hand = NoChunk
  /\ epoch = 0 /\ exhaustAt = Never
  /\ sent = 0
  /\ ticks = [o \in Requests |-> 0] /\ before = 0
  /\ at = "down" /\ episode = 0 /\ ended = FALSE /\ mirror = FALSE /\ starts = 0
  /\ reading = [r \in Readers |-> Never] /\ overtaken = {}
  /\ missed = FALSE
-----------------------------------------------------------------------------
(* The inference thread. *)

Goto(place) == loop' = place

LoopOnly == UNCHANGED <<drain, now, running, active, program, sampling, missed>>

(* next_chunk_fire_target_: when only `drain` rows are left. *)
Due == exhaustAt - drain <= now

(* while (running): paused, or on to the next observation. *)
LoopTop ==
  /\ loop = "top"
  /\ Goto(IF ~running THEN "done" ELSE IF active THEN "observe" ELSE "check")
  /\ UNCHANGED <<slot, hand, schedule, requests, transport>> /\ LoopOnly

(* The timestep clock; only the overlapping mode reads it. *)
ResetEpoch == epoch' = IF Overlap THEN now ELSE 0

(* The predicate of the pause's wait, under inference_mu_ ... *)
LoopChecks ==
  /\ loop = "check"
  /\ \/ ~running /\ Goto("done") /\ UNCHANGED schedule
     \/ /\ running /\ active
        /\ Goto("observe")
        /\ ResetEpoch
        /\ exhaustAt' = Never
     \/ running /\ ~active /\ Goto("block") /\ UNCHANGED schedule
  /\ UNCHANGED <<slot, hand, requests, transport>> /\ LoopOnly

(* ... and the sleep.  Who changes the flags does not hold the mutex. *)
LoopSleeps ==
  /\ loop = "block"
  /\ Goto("parked")
  /\ UNCHANGED <<slot, hand, schedule, requests, transport>> /\ LoopOnly

(* The waits, for the target and for fresh observations, end early on shutdown and on
   a pause. *)
WaitCutShort ==
  /\ \/ ~running /\ Goto("done")
     \/ running /\ ~active /\ Goto("top")
  /\ UNCHANGED <<requests, transport>>

(* pack_observation_, then the push; or a camera that cannot be represented yet. *)
Pack ==
  \/ Goto("top") /\ UNCHANGED <<requests, transport>>
  \/ /\ sent < MaxRequests
     /\ Goto("poll")
     /\ sent' = sent + 1
     /\ ticks' = [ticks EXCEPT ![sent + 1] = IF Overlap THEN now - epoch ELSE 0]
     /\ Push(sent + 1)

(* The target passes, and every source has delivered or is waited for no longer. *)
LoopObserves ==
  /\ loop = "observe"
  /\ \/ WaitCutShort
     \/ running /\ active /\ Due /\ Pack
  /\ UNCHANGED <<slot, hand, schedule>> /\ LoopOnly

(* The poll loop ends with a chunk, with the connection, with the client, or with
   the round trip given up after inference_timeout_ms; not with a pause. *)
LoopPolls ==
  /\ loop = "poll"
  /\ \/ running /\ PollTakes /\ hand' = ready /\ Goto("apply")
     \/ Goto("top") /\ UNCHANGED <<hand, transport>>
  /\ UNCHANGED <<slot, schedule, requests>> /\ LoopOnly

Clock == now - epoch
Base(c) == ticks[c.stamped]

AllPast(c) == Clock - Base(c) >= Rows
FarFuture(c) == Base(c) - Clock > Rows

(* theta > 0: the chunk takes over at once, aligned to the timestep clock. *)
TakeOver(c) ==
  LET start == epoch + Base(c)
  IN  /\ exhaustAt' = start + Rows
      /\ slot' = SwapInAligned(slot, c, start, now, blend)

(* theta = 0: the chunk waits its turn; the targets are estimates. *)
Queue(c) ==
  LET base == IF exhaustAt > c.at THEN exhaustAt ELSE c.at
  IN  /\ exhaustAt' = base + Rows
      /\ slot' = SwapIn(slot, c)

Dropped(c) == Overlap /\ (AllPast(c) \/ FarFuture(c))

(* apply_chunk_: dropped with a warning, for its shape, its values or its place in
   time, or played.  Then the rest of the period passes. *)
LoopApplies ==
  /\ loop = "apply"
  /\ Goto("top")
  /\ hand' = NoChunk
  /\ \/ UNCHANGED <<slot, exhaustAt>>
     \/ Overlap /\ ~Dropped(hand) /\ TakeOver(hand)
     \/ ~Overlap /\ Queue(hand)
  /\ UNCHANGED <<epoch, requests, transport>> /\ LoopOnly

LoopStep ==
  \/ LoopTop \/ LoopChecks \/ LoopSleeps \/ LoopObserves \/ LoopPolls \/ LoopApplies
-----------------------------------------------------------------------------
(* set_inference_active, on the program's threads. *)

(* notify_all: heard by a thread that sleeps. *)
Notify == loop' = IF loop = "parked" THEN "check" ELSE loop

(* A pause clears the slot, and wakes nobody who would go on. *)
Pause ==
  /\ active' = FALSE
  /\ slot' = IF active THEN Clear(slot) ELSE slot
  /\ before' = IF active THEN sent ELSE before
  /\ Notify

Wake == active' = TRUE /\ Notify /\ UNCHANGED slot
-----------------------------------------------------------------------------
(* The program. *)

Program == UNCHANGED <<drain, now, hand, schedule, requests, sampling>>

(* A thread is joined when it is not in a call. *)
NotReading(r) == reading[r] = Never

(* on_start: connect, then the thread; a failure leaves the client stopped and
   the session going. *)
StartClient ==
  /\ at = "down" /\ starts < MaxStarts
  /\ \A m \in Mirrors : NotReading(m)   \* joined, as the program started or stopped
  /\ starts' = starts + 1
  /\ at' = "idle"
  /\ \/ Connect(sent) /\ running' = TRUE /\ loop' = "top" /\ ResetEpoch
     \/ UNCHANGED <<running, loop, epoch, transport>>
  /\ UNCHANGED <<drain, now, slot, active, hand, exhaustAt, requests, episode,
                 before, ended, mirror, sampling, missed>>

(* start_episode, up to the episode-started callbacks. *)
StartEpisode ==
  /\ at = "idle" /\ episode < (IF Fake THEN MaxEpisodes ELSE 1)
  /\ at' = "resume"
  /\ episode' = episode + 1
  /\ UNCHANGED <<before, ended, slot, running, active, loop, mirror, starts, missed, transport>> /\ Program

ResumeClient ==
  /\ at = "resume"
  /\ at' = "gate"
  /\ Wake
  /\ UNCHANGED <<running, episode, before, ended, mirror, starts, missed, transport>> /\ Program

(* The scheduler is stopped before the callbacks of an episode's end run. *)
EpisodeOver == (ended \/ NotReading("recorder")) /\ ended' = FALSE

(* Faulty variant: the mirrors start whether a chunk is there or not. *)
GateOpen ==
  /\ at = "gate"
  /\ at' = "ready"
  /\ UNCHANGED <<slot, running, active, loop, episode, before, ended, mirror, starts, missed,
                 transport>> /\ Program

(* Wait for the first chunk; after Ctrl+C, or 30 s without one, the episode is
   discarded. *)
Gate ==
  /\ at = "gate"
  /\ \/ Playing(slot) /\ at' = "ready" /\ UNCHANGED ended
     \/ at' = "idle" /\ EpisodeOver
  /\ UNCHANGED <<slot, running, active, loop, episode, before, mirror, starts, missed,
                 transport>> /\ Program

(* teleop(): no-op for mirrors that run already. *)
StartMirror ==
  /\ at = "ready"
  /\ at' = "episode"
  /\ mirror' = TRUE
  /\ UNCHANGED <<slot, running, active, loop, episode, before, ended, starts, missed,
                 transport>> /\ Program

(* stop_episode: the episode-ended callback pauses the client; the mirrors go on. *)
EndEpisode ==
  /\ at = "episode"
  /\ at' = "idle" /\ EpisodeOver
  /\ IF ended THEN UNCHANGED <<active, slot, loop, before>> ELSE Pause
  /\ UNCHANGED <<running, episode, mirror, starts, missed, transport>> /\ Program

(* discard_current_episode: no callback, so no pause. *)
DiscardEpisode ==
  /\ at = "episode"
  /\ at' = "idle" /\ EpisodeOver
  /\ UNCHANGED <<slot, running, active, loop, episode, before, mirror, starts, missed,
                 transport>> /\ Program

(* The monitor thread's stop_episode, wherever main is inside the episode. *)
AutoStop ==
  /\ at \in {"resume", "gate", "ready", "episode"} /\ ~ended
  /\ NotReading("recorder")
  /\ ended' = TRUE
  /\ Pause
  /\ UNCHANGED <<running, at, episode, mirror, starts, missed, transport>> /\ Program

(* Faulty variant: the paused thread is not woken. *)
StopClientSilently ==
  /\ at = "idle"
  /\ IF running
       THEN at' = "stopping" /\ running' = FALSE /\ missed' = (loop = "block") /\ UNCHANGED <<mirror, loop>>
       ELSE at' = "down" /\ mirror' = FALSE /\ UNCHANGED <<running, loop, missed>>
  /\ UNCHANGED <<slot, active, episode, before, ended, starts, transport>> /\ Program

(* on_stop: flag and notify, close() the transport, join the thread; the mirrors
   are told afterwards, and a call of theirs that has begun still ends. *)
StopClient ==
  /\ at = "idle"
  /\ IF running
       THEN at' = "stopping" /\ running' = FALSE /\ Notify /\ missed' = (loop = "block") /\ UNCHANGED mirror
       ELSE at' = "down" /\ mirror' = FALSE /\ UNCHANGED <<running, loop, missed>>
  /\ UNCHANGED <<slot, active, episode, before, ended, starts, transport>> /\ Program

Closing ==
  /\ at = "stopping"
  /\ \/ (CloseFlags \/ CloseUnblocks) /\ UNCHANGED at
     \/ CloseJoins /\ at' = "join"
  /\ UNCHANGED <<slot, running, active, loop, episode, before, ended, mirror, starts, missed>>
  /\ Program

JoinThread ==
  /\ at = "join" /\ loop = "done"
  /\ at' = "down"
  /\ loop' = "off"
  /\ mirror' = FALSE
  /\ UNCHANGED <<slot, running, active, episode, before, ended, starts, missed, transport>> /\ Program
-----------------------------------------------------------------------------
(* Readers of the slot, and the clock. *)

Recording == at \in {"resume", "gate", "ready", "episode"} /\ ~ended

(* Face::read on a mirror's thread, current_command() on the scheduler's: the clock is
   read first ... *)
ReadClock(r) ==
  /\ IF r = "recorder" THEN Recording /\ episode <= MaxRecorded ELSE mirror
  /\ NotReading(r)
  /\ reading' = [reading EXCEPT ![r] = now]
  /\ UNCHANGED <<drain, now, slot, running, active, thread, program, overtaken, missed, transport>>

(* ... and the slot is sampled for that instant when its mutex is had, after whatever
   the others did meanwhile. *)
SampleSlot(r) ==
  /\ ~NotReading(r)
  /\ slot' = Sample(slot, reading[r], blend)
  /\ reading' = [reading EXCEPT ![r] = Never]
  /\ overtaken' = (overtaken \union {q \in Readers : Never < reading[q] /\ reading[q] < reading[r]}) \ {r}
  /\ UNCHANGED <<drain, now, running, active, thread, program, missed, transport>>

ReadCommand(r) == ReadClock(r) \/ SampleSlot(r)

Tick ==
  /\ now < (IF Fake THEN MaxNow ELSE ShortNow)
  /\ \A r \in Readers : NotReading(r) \/ now - reading[r] < MaxLate
  /\ now' = now + 1
  /\ UNCHANGED <<drain, slot, running, active, thread, program, sampling, missed, transport>>

InTransport ==
  /\ SenderStep(now) \/ ReceiverStep(now) \/ Server(sent, now)
  /\ UNCHANGED clientVars

Stopping == Closing \/ JoinThread

PolicyNext ==
  \/ LoopStep \/ InTransport
  \/ StartClient \/ StartEpisode \/ ResumeClient \/ Gate \/ StartMirror
  \/ EndEpisode \/ DiscardEpisode \/ AutoStop \/ StopClient \/ Stopping
  \/ (\E r \in Readers : ReadCommand(r)) \/ Tick

PolicySpec == PolicyInit /\ [][PolicyNext]_policyVars

(* The threads are scheduled, waits with a deadline end, and who stops the client
   waits for it; nobody else is assumed to do anything, the server least of all. *)
PolicyFairness ==
  /\ WF_policyVars(LoopStep)
  /\ WF_policyVars(SenderStep(now) /\ UNCHANGED clientVars)
  /\ WF_policyVars(ReceiverStep(now) /\ UNCHANGED clientVars)
  /\ WF_policyVars(Stopping)

FairPolicySpec == PolicySpec /\ PolicyFairness
-----------------------------------------------------------------------------
(* A chunk is aligned and played as the answer to the observation the server
   computed it from: a reply that comes after its request was given up is never
   taken for the answer to the next one. *)
AnswersOwn == \A c \in {ready, hand} : c.stamped = c.answers

(* close() waits for no server: when it joins, every thread still in a call to the
   server has had that call cut off, whatever the thread was doing when it began. *)
ClosePrompt ==
  closing = "join" =>
    /\ sender.at = "wait" => gone
    /\ sender.at = "rpc" => "send" \in cancelled
    /\ receiver = "rpc" => "get" \in cancelled

(* From the gate to the end of the episode there is a chunk to play: nothing but the
   end of the episode empties the slot, whatever the server and the clock do. *)
MirrorHasChunk == at \in {"ready", "episode"} /\ ~ended => Playing(slot)

(* Consume-fully (theta = 0): a chunk leaves the slot when its rows have had their
   time, or when the client is paused; never because another arrived. *)
ConsumeFully ==
  [][~Overlap /\ Playing(slot) /\ slot'.latest # slot.latest =>
       Exhausted(slot, now) \/ (active /\ ~active')]_policyVars

(* What the arm is told never goes back in time: no row of an older observation's chunk
   after one of a newer, however late a sampler gets the mutex; and the rows of a chunk
   in order, but for a sampler that was overtaken by one with a later clock reading
   (which the slot's comment rules out, and its callers do not). *)
Later(new, old) == new.obs > old.obs \/ (new.obs = old.obs /\ new.row > old.row)
SetBack(r) == r \in overtaken /\ SampleSlot(r) /\ slot'.last.obs = slot.last.obs
RowsForward ==
  [][slot'.last # slot.last =>
       Later(slot'.last, slot.last) \/ \E r \in Readers : SetBack(r)]_policyVars

(* Both transports keep the contract of PolicyTransport. *)
Contract == INSTANCE PolicyTransport WITH
  up <- connected, pushed <- sent, floor <- floor, ready <- ready.answers
ImplementsContract == Contract!Spec

(* stop() returns, whatever transport, server and thread are doing, unless its
   only notification fell between the paused thread's test and its sleep. *)
StopReturns == (at = "stopping" /\ ~missed) ~> (at = "down")

(* A pause clears the slot so that a stale action does not drive the mirror after
   resume: what an active client plays is newer than the last pause. *)
NoStaleAction == mirror /\ active /\ Playing(slot) => slot.latest > before
=============================================================================
