----------------------------- MODULE EpisodeLog -----------------------------
(***************************************************************************)
(* What recording an episode promises, whatever threads do it: records are *)
(* accepted while the episode is open, each stream's log is at every       *)
(* instant a prefix of what was accepted from it, an episode is sealed only*)
(* when its log is complete, and a sealed episode never changes again.     *)
(***************************************************************************)
EXTENDS Naturals, Sequences, SequencesExt

CONSTANTS Streams, Records

VARIABLES accepted, logged, sealed

logVars == <<accepted, logged, sealed>>

None == [s \in Streams |-> << >>]

Init == accepted = None /\ logged = None /\ sealed = TRUE

(* A new episode. *)
Begin ==
  /\ sealed
  /\ sealed' = FALSE
  /\ accepted' = None
  /\ logged' = None

Accept ==
  /\ ~sealed
  /\ \E s \in Streams, r \in Records : accepted' = [accepted EXCEPT ![s] = Append(@, r)]
  /\ UNCHANGED <<logged, sealed>>

(* Any number of accepted records become durable, oldest first. *)
Persist ==
  /\ ~sealed
  /\ logged' \in [Streams -> Seq(Records)]
  /\ \A s \in Streams : IsPrefix(logged[s], logged'[s]) /\ IsPrefix(logged'[s], accepted[s])
  /\ UNCHANGED <<accepted, sealed>>

Seal ==
  /\ ~sealed
  /\ logged = accepted
  /\ sealed' = TRUE
  /\ UNCHANGED <<accepted, logged>>

Next == Begin \/ Accept \/ Persist \/ Seal

Spec == Init /\ [][Next]_logVars
=============================================================================
