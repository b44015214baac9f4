------------------------------- MODULE Observer -------------------------------
(***************************************************************************)
(* ObserverBase: one latest-wins slot per subscription, filled by the      *)
(* producers' threads through offer(), emptied by one worker thread that   *)
(* calls the handlers, and started and stopped once by the thread that     *)
(* owns the observer. Time is abstract: a scan finds any subscription due  *)
(* or not, and a deadline passes some time.                                *)
(***************************************************************************)
EXTENDS Naturals, FiniteSets

CONSTANTS
  Ids,     \* the record ids the producers emit, one producer each
  Subs,    \* the ids subscribed to
  MaxSeq   \* bound: records offered under one id

ASSUME ObserverConstants == Subs \subseteq Ids /\ IsFiniteSet(Ids) /\ MaxSeq \in Nat

VARIABLES
  running, stopped, transport,  \* running_, stopped_, transport_open_
  owner,     \* where start() or stop() stands in the owning thread
  worker,    \* where worker_loop_ stands; "none" when not joinable
  left,      \* the subscriptions the current scan has yet to look at
  slot,      \* latest of each subscription: a record's number, 0 when empty
  offering,  \* where the producer of each id stands in offer()
  seq,       \* the number of the last record of each id
  accepted, overwritten, consumed,
  seen,      \* history: the last record each handler was given
  opens, closes  \* history: on_start() that returned true, on_stop()

flags == <<running, stopped, transport>>
lifecycle == <<flags, owner, opens, closes>>
offers == <<slot, offering, seq, accepted, overwritten>>
handled == <<consumed, seen>>
vars == <<lifecycle, worker, left, offers, handled>>

Starting == {"hook", "spawn", "spawned"}
Stopping == {"latch", "notify", "join", "close"}
Waiting == {"pred", "falling", "blocked"}

TypeOK ==
  /\ running \in BOOLEAN /\ stopped \in BOOLEAN /\ transport \in BOOLEAN
  /\ owner \in {"idle", "down"} \cup Starting \cup Stopping
  /\ worker \in {"none", "test", "scan", "handle", "ended"} \cup Waiting
  /\ left \subseteq Subs
  /\ slot \in [Subs -> 0..MaxSeq] /\ seen \in [Subs -> 0..MaxSeq]
  /\ offering \in [Ids -> {"no", "store", "displaced", "stored"}]
  /\ seq \in [Ids -> 0..MaxSeq]
  /\ accepted \in Nat /\ overwritten \in Nat /\ consumed \in Nat
  /\ opens \in 0..1 /\ closes \in 0..1

Init ==
  /\ running = FALSE /\ stopped = FALSE /\ transport = FALSE
  /\ owner = "idle" /\ worker = "none" /\ left = {}
  /\ slot = [s \in Subs |-> 0] /\ seen = [s \in Subs |-> 0]
  /\ offering = [i \in Ids |-> "no"] /\ seq = [i \in Ids |-> 0]
  /\ accepted = 0 /\ overwritten = 0 /\ consumed = 0
  /\ opens = 0 /\ closes = 0
-----------------------------------------------------------------------------
(* start(), refused once stopped and without effect while running. *)

CallStart ==
  /\ owner \in {"idle", "down"}
  /\ ~stopped /\ ~running
  /\ running' = TRUE
  /\ owner' = "hook"
  /\ UNCHANGED <<stopped, transport, opens, closes, worker, left, offers, handled>>

LatchFailed == running' = FALSE /\ stopped' = TRUE /\ owner' = "idle" /\ UNCHANGED transport

HookFails ==
  /\ owner = "hook"
  /\ LatchFailed
  /\ UNCHANGED <<opens, closes, worker, left, offers, handled>>

HookSucceeds ==
  /\ owner = "hook"
  /\ owner' = "spawn"
  /\ opens' = opens + 1
  /\ UNCHANGED <<flags, closes, worker, left, offers, handled>>

(* No thread to be had: on_start() is undone. *)
SpawnFails ==
  /\ owner = "spawn"
  /\ LatchFailed
  /\ closes' = closes + 1
  /\ UNCHANGED <<opens, worker, left, offers, handled>>

Spawn ==
  /\ owner = "spawn"
  /\ owner' = "spawned"
  /\ worker' = "test"
  /\ UNCHANGED <<flags, opens, closes, left, offers, handled>>

(* The debt of one on_stop() is taken on. *)
StartDone ==
  /\ owner = "spawned"
  /\ owner' = "idle"
  /\ transport' = TRUE
  /\ UNCHANGED <<running, stopped, opens, closes, worker, left, offers, handled>>
-----------------------------------------------------------------------------
(* stop() in the owning thread, also from the destructor. *)

(* Faulty variant: an observer that no longer runs is taken for stopped. *)
CallStopReturningEarly ==
  /\ owner \in {"idle", "down"}
  /\ running' = FALSE
  /\ owner' = IF running THEN "latch" ELSE "down"
  /\ UNCHANGED <<stopped, transport, opens, closes, worker, left, offers, handled>>

(* Faulty variant: only the latch is set, the worker's flag stays up. *)
CallStopLatchOnly ==
  /\ owner \in {"idle", "down"}
  /\ owner' = "latch"
  /\ UNCHANGED <<flags, opens, closes, worker, left, offers, handled>>

CallStop ==
  /\ owner \in {"idle", "down"}
  /\ running' = FALSE
  /\ owner' = "latch"
  /\ UNCHANGED <<stopped, transport, opens, closes, worker, left, offers, handled>>

StopLatch ==
  /\ owner = "latch"
  /\ stopped' = TRUE
  /\ owner' = "notify"
  /\ UNCHANGED <<running, transport, opens, closes, worker, left, offers, handled>>

(* notify reaches a worker that is blocked, not one that is about to block. *)
Notify == worker' = IF worker = "blocked" THEN "pred" ELSE worker

(* notify_all() without cv_mutex_. *)
StopNotify ==
  /\ owner = "notify"
  /\ owner' = "join"
  /\ Notify
  /\ UNCHANGED <<flags, opens, closes, left, offers, handled>>

StopJoin ==
  /\ owner = "join"
  /\ worker \in {"none", "ended"}
  /\ worker' = "none"
  /\ owner' = "close"
  /\ UNCHANGED <<flags, opens, closes, left, offers, handled>>

StopClose ==
  /\ owner = "close"
  /\ owner' = "down"
  /\ transport' = FALSE
  /\ closes' = IF transport THEN closes + 1 ELSE closes
  /\ UNCHANGED <<running, stopped, opens, worker, left, offers, handled>>
-----------------------------------------------------------------------------
(* offer(i) in a producer's thread. The session starts the observers before the
   producers and calls offer() only from them. *)

(* The latch, the lookup and the accepted_ counter. *)
OfferStart(i) ==
  /\ owner \notin Starting /\ (running \/ transport)
  /\ offering[i] = "no" /\ seq[i] < MaxSeq
  /\ ~stopped
  /\ seq' = [seq EXCEPT ![i] = @ + 1]
  /\ IF i \in Subs
       THEN offering' = [offering EXCEPT ![i] = "store"] /\ accepted' = accepted + 1
       ELSE UNCHANGED <<offering, accepted>>
  /\ UNCHANGED <<lifecycle, worker, left, slot, overwritten, handled>>

(* Faulty variant: a full slot keeps its record. *)
OfferStoreKeeping(i) ==
  /\ offering[i] = "store"
  /\ slot' = [slot EXCEPT ![i] = IF @ = 0 THEN seq[i] ELSE @]
  /\ offering' = [offering EXCEPT ![i] = IF slot[i] # 0 THEN "displaced" ELSE "stored"]
  /\ UNCHANGED <<lifecycle, worker, left, seq, accepted, overwritten, handled>>

(* Under slot_mutex. *)
OfferStore(i) ==
  /\ offering[i] = "store"
  /\ slot' = [slot EXCEPT ![i] = seq[i]]
  /\ offering' = [offering EXCEPT ![i] = IF slot[i] # 0 THEN "displaced" ELSE "stored"]
  /\ UNCHANGED <<lifecycle, worker, left, seq, accepted, overwritten, handled>>

(* The overwritten_ counter and notify_one(). *)
OfferNotify(i) ==
  /\ offering[i] \in {"displaced", "stored"}
  /\ offering' = [offering EXCEPT ![i] = "no"]
  /\ overwritten' = IF offering[i] = "displaced" THEN overwritten + 1 ELSE overwritten
  /\ Notify
  /\ UNCHANGED <<lifecycle, left, slot, seq, accepted, handled>>
-----------------------------------------------------------------------------
(* worker_loop_. *)

WTest ==
  /\ worker = "test"
  /\ worker' = IF running THEN "scan" ELSE "ended"
  /\ left' = IF running THEN Subs ELSE {}
  /\ UNCHANGED <<lifecycle, offers, handled>>

(* Not due yet, or due and nothing in the slot. *)
WPass(s) ==
  /\ worker = "scan"
  /\ left' = left \ {s}
  /\ UNCHANGED <<lifecycle, worker, offers, handled>>

(* Faulty variant: the record is copied out of the slot, not moved. *)
WTakeCopying(s) ==
  /\ worker = "scan" /\ slot[s] # 0
  /\ left' = left \ {s}
  /\ worker' = "handle"
  /\ seen' = [seen EXCEPT ![s] = slot[s]]
  /\ consumed' = consumed + 1
  /\ UNCHANGED <<lifecycle, offers>>

(* Due: the record leaves the slot (under slot_mutex), is counted and handed over. *)
WTake(s) ==
  /\ worker = "scan" /\ slot[s] # 0
  /\ left' = left \ {s}
  /\ worker' = "handle"
  /\ seen' = [seen EXCEPT ![s] = slot[s]]
  /\ slot' = [slot EXCEPT ![s] = 0]
  /\ consumed' = consumed + 1
  /\ UNCHANGED <<lifecycle, offering, seq, accepted, overwritten>>

(* The handler returns or throws. *)
WHandled ==
  /\ worker = "handle"
  /\ worker' = "scan"
  /\ UNCHANGED <<lifecycle, left, offers, handled>>

(* Faulty variant: the worker pays the debt of on_stop() itself. *)
HandlerStopsClosing ==
  /\ worker = "handle" /\ ~stopped
  /\ running' = FALSE /\ stopped' = TRUE /\ transport' = FALSE
  /\ closes' = IF transport THEN closes + 1 ELSE closes
  /\ UNCHANGED <<owner, opens, worker, left, offers, handled>>

(* stop() called by a handler: no join, no on_stop(), and nobody else waits. *)
HandlerStops ==
  /\ worker = "handle" /\ ~stopped
  /\ running' = FALSE /\ stopped' = TRUE
  /\ UNCHANGED <<transport, owner, opens, closes, worker, left, offers, handled>>

(* With cv_mutex_: running_ once more, then the wait, whose predicate is next. *)
WCheck ==
  /\ worker = "scan" /\ left = {}
  /\ worker' = IF running THEN "pred" ELSE "ended"
  /\ UNCHANGED <<lifecycle, left, offers, handled>>

(* The predicate holds when running_ is off; otherwise the worker will block. *)
WPred ==
  /\ worker = "pred"
  /\ worker' = IF running THEN "falling" ELSE "test"
  /\ UNCHANGED <<lifecycle, left, offers, handled>>

WBlock ==
  /\ worker = "falling"
  /\ worker' = "blocked"
  /\ UNCHANGED <<lifecycle, left, offers, handled>>

(* The deadline of a subscription passes; without subscriptions there is none. *)
WElapsed ==
  /\ Subs # {}
  /\ worker \in {"pred", "blocked"}
  /\ worker' = "test"
  /\ UNCHANGED <<lifecycle, left, offers, handled>>

WSpurious ==
  /\ worker = "blocked"
  /\ worker' = "pred"
  /\ UNCHANGED <<lifecycle, left, offers, handled>>
-----------------------------------------------------------------------------
OwnerStep ==
  \/ HookFails \/ HookSucceeds \/ SpawnFails \/ Spawn \/ StartDone
  \/ StopLatch \/ StopNotify \/ StopJoin \/ StopClose

OfferStep(i) == OfferStore(i) \/ OfferNotify(i)

WorkerStep ==
  \/ WTest \/ WHandled \/ WCheck \/ WPred \/ WBlock
  \/ \E s \in left : WPass(s) \/ WTake(s)

Next ==
  \/ CallStart \/ CallStop \/ OwnerStep
  \/ \E i \in Ids : OfferStart(i) \/ OfferStep(i)
  \/ WorkerStep \/ HandlerStops \/ WElapsed \/ WSpurious

Spec == Init /\ [][Next]_vars

(* Threads are scheduled, handlers return, periods pass: a subscription scanned
   again and again is found due, a deadline waited for comes. *)
Fairness ==
  /\ WF_vars(OwnerStep) /\ WF_vars(WorkerStep)
  /\ \A i \in Ids : WF_vars(OfferStep(i))
  /\ \A s \in Subs : SF_vars(s \in left /\ WTake(s))
  /\ SF_vars(WElapsed)

FairSpec == Spec /\ Fairness
-----------------------------------------------------------------------------
InSlots == {s \in Subs : slot[s] # 0}
InFlight == {s \in Subs : offering[s] \in {"store", "displaced"}}

(* Every record the observer accepted was handled or overwritten, or sits in a
   slot, or is in the hands of an offer() that has not yet stored or counted. *)
Accounting ==
  accepted = consumed + overwritten + Cardinality(InSlots) + Cardinality(InFlight)

(* on_start() succeeds at most once and is matched by one on_stop(), which the
   worker does not outlive and which has happened when stop() returns. *)
OnStopOnce ==
  /\ opens <= 1 /\ closes <= opens
  /\ closes = 1 => worker = "none"
  /\ owner = "down" => closes = opens

(* No handler is called after stop() has returned to the owner. *)
SilentAfterStop == [][owner = "down" => consumed' = consumed]_vars

(* A handler gets the records of its stream in their order, each at most once,
   whatever the slot dropped in between. *)
Fresher ==
  [][/\ \A s \in Subs : seen'[s] >= seen[s]
     /\ consumed' # consumed => seen' # seen]_vars

(* A record offered under a subscribed id is handled, or a later one of its
   stream is, unless the observer is stopped first. *)
NoStarvation ==
  \A s \in Subs : \A k \in 1..MaxSeq : seq[s] = k ~> (seen[s] >= k \/ stopped)

(* stop() returns: the worker notices and ends. *)
StopReturns == owner \in Stopping ~> owner = "down"
=============================================================================
