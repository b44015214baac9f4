---------------------------- MODULE PolicyTransport ----------------------------
(***************************************************************************)
(* What hw/policy/policy_transport.hpp promises the inference loop of a    *)
(* transport, whatever its protocol: a one-deep mailbox of chunks, each    *)
(* computed from an observation that was pushed on this connection, each   *)
(* newer than the one before, and nothing while unhealthy.                 *)
(***************************************************************************)
EXTENDS Integers

VARIABLES
  up,      \* status() is kConnected
  pushed,  \* the newest observation handed over
  floor,   \* the newest observation that can no longer be answered
  ready    \* the observation answered by the chunk a poll would take, or 0

contract == <<up, pushed, floor, ready>>

Init == up = FALSE /\ pushed = 0 /\ floor = 0 /\ ready = 0

(* A new connection owes nothing to what was pushed before it. *)
Connect ==
  /\ ~up /\ up' = TRUE
  /\ floor' = pushed /\ ready' = 0
  /\ UNCHANGED pushed

(* The owner closes it, or it is lost. *)
Lose == up /\ up' = FALSE /\ UNCHANGED <<pushed, floor, ready>>

(* Never blocks: accepted or dropped, the observation is the newest. *)
Push == pushed' > pushed /\ UNCHANGED <<up, floor, ready>>

(* A newer answer replaces one that nobody took. *)
Answer ==
  /\ floor' > floor /\ floor' <= pushed
  /\ ready' = floor'
  /\ UNCHANGED <<up, pushed>>

Poll == up /\ ready # 0 /\ ready' = 0 /\ UNCHANGED <<up, pushed, floor>>

Next == Connect \/ Lose \/ Push \/ Answer \/ Poll

Spec == Init /\ [][Next]_contract
=============================================================================
