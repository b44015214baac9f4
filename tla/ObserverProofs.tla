---------------------------- MODULE ObserverProofs ----------------------------
(***************************************************************************)
(* Observer, for any set of streams and subscriptions and any number of    *)
(* records: the observer is started and closed once, its counters account  *)
(* for every record, and handlers get their records in order.              *)
(***************************************************************************)
EXTENDS Observer, FiniteSetTheorems, TLAPS

(* Where the debt of on_stop() stands: not taken on, owed, or paid. *)
Fresh == opens = 0 /\ closes = 0 /\ worker = "none" /\ ~transport
Owes == opens = 1 /\ closes = 0 /\ transport
Paid == opens = 1 /\ closes = 1 /\ worker = "none" /\ ~transport

Life ==
  /\ owner = "hook" => Fresh /\ running /\ ~stopped
  /\ owner = "spawn" => /\ opens = 1 /\ closes = 0 /\ worker = "none" /\ ~transport
                        /\ running /\ ~stopped
  /\ owner = "spawned" => opens = 1 /\ closes = 0 /\ ~transport /\ (running \/ stopped)
  /\ owner = "idle" => \/ Fresh
                       \/ Owes /\ (running \/ stopped)
                       \/ Paid /\ stopped
  /\ owner \in Stopping => Fresh \/ Owes \/ Paid
  /\ owner \in Stopping \ {"latch"} => stopped
  /\ owner = "close" => worker = "none"
  /\ owner = "down" => (Fresh \/ Paid) /\ stopped

(* The numbers of a stream's records on their way: offered, in the slot, seen. *)
Order ==
  /\ \A i \in Ids : offering[i] # "no" => i \in Subs
  /\ \A s \in Subs :
       /\ slot[s] <= seq[s] /\ seen[s] <= seq[s]
       /\ slot[s] # 0 => seen[s] < slot[s]
       /\ offering[s] = "store" => slot[s] < seq[s] /\ seen[s] < seq[s]

IInv == TypeOK /\ Life /\ Order /\ Accounting

USE ObserverConstants
-----------------------------------------------------------------------------
(* Types and life cycle do not depend on what is in the slots: every step of
   start(), stop(), offer() and the worker leaves the debt where Life has it. *)
THEOREM LifeInvariant == Spec => [](TypeOK /\ Life)
<1>1. Init => TypeOK /\ Life
  <2>1. Init => TypeOK
    <3> SUFFICES ASSUME Init
                 PROVE  TypeOK
      OBVIOUS
    <3>1. slot \in [Subs -> 0..MaxSeq] /\ seen \in [Subs -> 0..MaxSeq]
      BY DEF Init
    <3>2. seq \in [Ids -> 0..MaxSeq]
      BY DEF Init
    <3>3. offering \in [Ids -> {"no", "store", "displaced", "stored"}]
      BY DEF Init
    <3>4. running \in BOOLEAN /\ stopped \in BOOLEAN /\ transport \in BOOLEAN
      BY DEF Init
    <3>5. /\ owner \in {"idle", "down"} \cup Starting \cup Stopping
          /\ worker \in {"none", "test", "scan", "handle", "ended"} \cup Waiting
          /\ left \subseteq Subs
      BY DEF Init
    <3>6. /\ accepted \in Nat /\ overwritten \in Nat /\ consumed \in Nat
          /\ opens \in 0..1 /\ closes \in 0..1
      BY DEF Init
    <3> QED
      BY <3>1, <3>2, <3>3, <3>4, <3>5, <3>6 DEF TypeOK
  <2>2. Init => Life
    BY DEF Init, Life, Stopping, Fresh
  <2> QED
    BY <2>1, <2>2
<1>2. TypeOK /\ Life /\ [Next]_vars => (TypeOK /\ Life)'
  <2> SUFFICES ASSUME TypeOK, Life, [Next]_vars
               PROVE  (TypeOK /\ Life)'
    OBVIOUS
  <2> USE DEF TypeOK, Life, Starting, Stopping, Waiting, Fresh, Owes, Paid
  <2> USE DEF flags, lifecycle, offers, handled
  <2>1. CASE CallStart
    BY <2>1 DEF CallStart
  <2>2. CASE CallStop
    BY <2>2 DEF CallStop
  <2>3. CASE HookFails
    BY <2>3 DEF HookFails, LatchFailed
  <2>4. CASE HookSucceeds
    BY <2>4 DEF HookSucceeds
  <2>5. CASE SpawnFails
    <3>1. closes' = 1 /\ opens' = 1 /\ worker' = "none" /\ stopped' /\ owner' = "idle"
      BY <2>5 DEF SpawnFails, LatchFailed
    <3>2. ~transport /\ transport' = transport
      BY <2>5 DEF SpawnFails, LatchFailed
    <3>3. running' \in BOOLEAN /\ stopped' \in BOOLEAN
      BY <2>5 DEF SpawnFails, LatchFailed
    <3>4. TypeOK'
      BY <2>5, <3>1, <3>2, <3>3 DEF SpawnFails
    <3> QED
      BY <3>1, <3>2, <3>4
  <2>6. CASE Spawn
    BY <2>6 DEF Spawn
  <2>7. CASE StartDone
    BY <2>7 DEF StartDone
  <2>8. CASE StopLatch
    BY <2>8 DEF StopLatch
  <2>9. CASE StopNotify
    BY <2>9 DEF StopNotify, Notify
  <2>10. CASE StopJoin
    BY <2>10 DEF StopJoin
  <2>11. CASE StopClose
    <3>1. (Fresh' \/ Paid') /\ stopped' /\ owner' = "down" /\ closes' \in 0..1
      <4>1. CASE Owes
        BY <2>11, <4>1 DEF StopClose
      <4>2. CASE Fresh \/ Paid
        BY <2>11, <4>2 DEF StopClose
      <4> QED
        BY <2>11, <4>1, <4>2 DEF StopClose
    <3>2. TypeOK'
      BY <2>11, <3>1 DEF StopClose
    <3> QED
      BY <3>1, <3>2
  <2>12. ASSUME NEW i \in Ids, OfferStart(i)
         PROVE  (TypeOK /\ Life)'
    BY <2>12 DEF OfferStart
  <2>13. ASSUME NEW i \in Ids, OfferStore(i)
         PROVE  (TypeOK /\ Life)'
    BY <2>13 DEF OfferStore
  <2>14. ASSUME NEW i \in Ids, OfferNotify(i)
         PROVE  (TypeOK /\ Life)'
    BY <2>14 DEF OfferNotify, Notify
  <2>15. CASE WTest
    BY <2>15 DEF WTest
  <2>16. CASE WHandled
    BY <2>16 DEF WHandled
  <2>17. CASE WCheck
    BY <2>17 DEF WCheck
  <2>18. CASE WPred
    BY <2>18 DEF WPred
  <2>19. CASE WBlock
    BY <2>19 DEF WBlock
  <2>20. ASSUME NEW s \in left, WPass(s)
         PROVE  (TypeOK /\ Life)'
    BY <2>20 DEF WPass
  <2>21. ASSUME NEW s \in left, WTake(s)
         PROVE  (TypeOK /\ Life)'
    BY <2>21 DEF WTake
  <2>22. CASE HandlerStops
    BY <2>22 DEF HandlerStops
  <2>23. CASE WElapsed
    BY <2>23 DEF WElapsed
  <2>24. CASE WSpurious
    BY <2>24 DEF WSpurious
  <2>25. CASE UNCHANGED vars
    BY <2>25 DEF vars
  <2> QED
    BY <2>1, <2>2, <2>3, <2>4, <2>5, <2>6, <2>7, <2>8, <2>9, <2>10, <2>11, <2>12, <2>13,
       <2>14, <2>15, <2>16, <2>17, <2>18, <2>19, <2>20, <2>21, <2>22, <2>23, <2>24, <2>25
       DEF Next, OwnerStep, OfferStep, WorkerStep
<1> QED
  BY <1>1, <1>2, PTL DEF Spec
-----------------------------------------------------------------------------
(* Only an offer and the worker's taking of a record touch slots and counters. *)
LEMMA Quiet ==
  ASSUME [Next]_vars
  PROVE  \/ \E i \in Ids : OfferStart(i) \/ OfferStore(i) \/ OfferNotify(i)
         \/ \E s \in left : WTake(s)
         \/ UNCHANGED <<offers, handled>>
<1>1. CASE CallStart \/ CallStop \/ OwnerStep
  BY <1>1 DEF CallStart, CallStop, OwnerStep, HookFails, HookSucceeds, SpawnFails, Spawn,
     StartDone, StopLatch, StopNotify, StopJoin, StopClose
<1>2. CASE WorkerStep \/ HandlerStops \/ WElapsed \/ WSpurious
  BY <1>2 DEF WorkerStep, WTest, WHandled, WCheck, WPred, WBlock, WPass, HandlerStops,
     WElapsed, WSpurious
<1>3. CASE UNCHANGED vars
  BY <1>3 DEF vars
<1> QED
  BY <1>1, <1>2, <1>3 DEF Next, OfferStep

(* The records of a stream stay in order on their way to the handler. *)
LEMMA OrderStep ==
  ASSUME TypeOK, Order, [Next]_vars
  PROVE  Order'
<1> USE DEF Order, TypeOK, lifecycle, offers, handled
<1>1. ASSUME NEW i \in Ids, OfferStart(i)
      PROVE  Order'
  BY <1>1 DEF OfferStart
<1>2. ASSUME NEW i \in Ids, OfferStore(i)
      PROVE  Order'
  BY <1>2 DEF OfferStore
<1>3. ASSUME NEW i \in Ids, OfferNotify(i)
      PROVE  Order'
  BY <1>3 DEF OfferNotify
<1>4. ASSUME NEW s \in left, WTake(s)
      PROVE  Order'
  BY <1>4 DEF WTake
<1>5. CASE UNCHANGED <<offers, handled>>
  BY <1>5
<1> QED
  BY <1>1, <1>2, <1>3, <1>4, <1>5, Quiet

(* The two sets that are counted are finite, so adding or removing one stream
   changes a count by one. *)
LEMMA Counting ==
  ASSUME NEW S \in SUBSET Subs, NEW s \in Subs
  PROVE  /\ Cardinality(S) \in Nat
         /\ s \notin S => Cardinality(S \cup {s}) = Cardinality(S) + 1
         /\ s \in S => Cardinality(S \ {s}) = Cardinality(S) - 1
<1>1. IsFiniteSet(S)
  BY FS_Subset
<1> QED
  BY <1>1, FS_CardinalityType, FS_AddElement, FS_RemoveElement

(* Every step moves a record from one place of Accounting to another. *)
LEMMA AccountingStep ==
  ASSUME TypeOK, Order, Accounting, [Next]_vars
  PROVE  Accounting'
<1> DEFINE Slots == Cardinality(InSlots)
           Flight == Cardinality(InFlight)
<1>1. InSlots \subseteq Subs /\ InFlight \subseteq Subs /\ Slots \in Nat /\ Flight \in Nat
  <2>1. InSlots \subseteq Subs /\ InFlight \subseteq Subs
    BY DEF InSlots, InFlight
  <2>2. IsFiniteSet(InSlots) /\ IsFiniteSet(InFlight)
    BY <2>1, FS_Subset
  <2> QED
    BY <2>1, <2>2, FS_CardinalityType
<1>2. ASSUME NEW i \in Ids, OfferStart(i)
      PROVE  Accounting'
  <2>1. InSlots' = InSlots /\ consumed' = consumed /\ overwritten' = overwritten
    BY <1>2 DEF OfferStart, InSlots, handled
  <2>2. CASE i \in Subs
    <3>1. i \notin InFlight /\ InFlight' = InFlight \cup {i} /\ accepted' = accepted + 1
      BY <1>2, <2>2 DEF OfferStart, InFlight, TypeOK
    <3> QED
      BY <1>1, <2>1, <2>2, <3>1, Counting DEF Accounting, TypeOK
  <2>3. CASE i \notin Subs
    <3>1. InFlight' = InFlight /\ accepted' = accepted
      BY <1>2, <2>3 DEF OfferStart, InFlight
    <3> QED
      BY <2>1, <3>1 DEF Accounting
  <2> QED
    BY <2>2, <2>3
<1>3. ASSUME NEW i \in Ids, OfferStore(i)
      PROVE  Accounting'
  <2>1. i \in Subs /\ i \in InFlight /\ seq[i] # 0
    BY <1>3 DEF OfferStore, Order, InFlight, TypeOK
  <2>2. accepted' = accepted /\ consumed' = consumed /\ overwritten' = overwritten
    BY <1>3 DEF OfferStore, handled
  <2>3. CASE slot[i] = 0
    <3>1. i \notin InSlots /\ InSlots' = InSlots \cup {i} /\ InFlight' = InFlight \ {i}
      BY <1>3, <2>1, <2>3 DEF OfferStore, InSlots, InFlight, TypeOK
    <3> QED
      BY <1>1, <2>1, <2>2, <3>1, Counting DEF Accounting, TypeOK
  <2>4. CASE slot[i] # 0
    <3>1. InSlots' = InSlots /\ InFlight' = InFlight
      BY <1>3, <2>1, <2>4 DEF OfferStore, InSlots, InFlight, TypeOK
    <3> QED
      BY <2>2, <3>1 DEF Accounting
  <2> QED
    BY <2>3, <2>4
<1>4. ASSUME NEW i \in Ids, OfferNotify(i)
      PROVE  Accounting'
  <2>1. i \in Subs
    BY <1>4 DEF OfferNotify, Order
  <2>2. InSlots' = InSlots /\ accepted' = accepted /\ consumed' = consumed
    BY <1>4 DEF OfferNotify, InSlots, handled
  <2>3. CASE offering[i] = "displaced"
    <3>1. i \in InFlight /\ InFlight' = InFlight \ {i} /\ overwritten' = overwritten + 1
      BY <1>4, <2>1, <2>3 DEF OfferNotify, InFlight, TypeOK
    <3>2. Cardinality(InFlight') = Flight - 1
      BY <1>1, <2>1, <3>1, Counting
    <3> QED
      BY <1>1, <2>2, <3>1, <3>2 DEF Accounting, TypeOK
  <2>4. CASE offering[i] = "stored"
    <3>1. InFlight' = InFlight /\ overwritten' = overwritten
      BY <1>4, <2>1, <2>4 DEF OfferNotify, InFlight, TypeOK
    <3> QED
      BY <2>2, <3>1 DEF Accounting
  <2> QED
    BY <1>4, <2>3, <2>4 DEF OfferNotify
<1>5. ASSUME NEW s \in left, WTake(s)
      PROVE  Accounting'
  <2>1. s \in Subs /\ s \in InSlots /\ InSlots' = InSlots \ {s}
    BY <1>5 DEF WTake, InSlots, TypeOK
  <2>2. InFlight' = InFlight /\ accepted' = accepted /\ overwritten' = overwritten
        /\ consumed' = consumed + 1
    BY <1>5 DEF WTake, InFlight
  <2> QED
    BY <1>1, <2>1, <2>2, Counting DEF Accounting, TypeOK
<1>6. CASE UNCHANGED <<offers, handled>>
  BY <1>6 DEF Accounting, InSlots, InFlight, offers, handled
<1> QED
  BY <1>2, <1>3, <1>4, <1>5, <1>6, Quiet

(* The inductive invariant: types, life cycle, order and accounting. *)
THEOREM ObserverInvariance == Spec => []IInv
<1>1. Init => Order /\ Accounting
  <2> SUFFICES ASSUME Init
               PROVE  Order /\ Accounting
    OBVIOUS
  <2>1. Order
    BY DEF Init, Order
  <2>2. InSlots = {} /\ InFlight = {}
    BY DEF Init, InSlots, InFlight
  <2> QED
    BY <2>1, <2>2, FS_EmptySet DEF Init, Accounting
<1>2. TypeOK /\ Order /\ Accounting /\ [Next]_vars => (Order /\ Accounting)'
  BY OrderStep, AccountingStep
<1> QED
  BY <1>1, <1>2, LifeInvariant, PTL DEF Spec, IInv

(* The observer's variables keep their types. *)
THEOREM ObserverTypes == Spec => []TypeOK
BY ObserverInvariance, PTL DEF IInv

(* No record an observer accepts goes uncounted, whatever its threads do. *)
THEOREM AccountingHolds == Spec => []Accounting
BY ObserverInvariance, PTL DEF IInv

(* on_start() and on_stop() are paired, and the worker is gone by then. *)
THEOREM OnStopOnceHolds == Spec => []OnStopOnce
<1>1. TypeOK /\ Life => OnStopOnce
  BY DEF TypeOK, Life, OnStopOnce, Fresh, Owes, Paid, Starting, Stopping
<1> QED
  BY <1>1, LifeInvariant, PTL

(* stop() returns only when no handler will be called again. *)
THEOREM SilentAfterStopHolds == Spec => SilentAfterStop
<1>1. Life /\ [Next]_vars => [owner = "down" => consumed' = consumed]_vars
  <2> SUFFICES ASSUME Life, [Next]_vars, owner = "down"
               PROVE  consumed' = consumed
    OBVIOUS
  <2>1. worker = "none"
    BY DEF Life, Fresh, Paid
  <2>2. ASSUME NEW i \in Ids, OfferStart(i) \/ OfferStore(i) \/ OfferNotify(i)
        PROVE  consumed' = consumed
    BY <2>2 DEF OfferStart, OfferStore, OfferNotify, handled
  <2>3. ASSUME NEW s \in left, WTake(s)
        PROVE  consumed' = consumed
    BY <2>1, <2>3 DEF WTake
  <2> QED
    BY <2>2, <2>3, Quiet DEF handled
<1> QED
  BY <1>1, LifeInvariant, PTL DEF Spec, SilentAfterStop

(* Handlers get a stream's records in order and none twice. *)
THEOREM FresherHolds == Spec => Fresher
<1> DEFINE Step == /\ \A s \in Subs : seen'[s] >= seen[s]
                   /\ consumed' # consumed => seen' # seen
<1>1. IInv /\ [Next]_vars => Step
  <2> SUFFICES ASSUME IInv, [Next]_vars
               PROVE  Step
    OBVIOUS
  <2> USE DEF IInv, TypeOK
  <2>1. CASE UNCHANGED handled
    BY <2>1 DEF handled
  <2>2. ASSUME NEW s \in left, WTake(s)
        PROVE  Step
    BY <2>2 DEF WTake, Order
  <2>3. ASSUME NEW i \in Ids, OfferStart(i) \/ OfferStore(i) \/ OfferNotify(i)
        PROVE  UNCHANGED handled
    BY <2>3 DEF OfferStart, OfferStore, OfferNotify
  <2> QED
    BY <2>1, <2>2, <2>3, Quiet
<1> QED
  BY <1>1, ObserverInvariance, PTL DEF Spec, Fresher
=============================================================================
