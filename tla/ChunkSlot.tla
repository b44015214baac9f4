------------------------------- MODULE ChunkSlot -------------------------------
(***************************************************************************)
(* hw/policy/action_chunk.hpp: the slot that plays the chunks of a policy  *)
(* server as rows of commands, one row per tick of the control rate.  Each *)
(* method holds mu_ from start to end, so it is one operator on the slot.  *)
(*                                                                         *)
(* A chunk is named after the observation it answers; its rows are         *)
(* 0 .. Rows-1.  Instants are counted in control ticks.                    *)
(***************************************************************************)
EXTENDS Integers

CONSTANTS Rows \* T: rows of a chunk

ASSUME RowsAssumption == Rows \in Nat \ {0}

(* stamped: the observation whose tick is its base_timestep; answers: the one the
   server computed it from; at: received_at.  The slot keeps the name alone. *)
NoChunk == [stamped |-> 0, answers |-> 0, at |-> 0]

(* A commanded row: of which chunk, and which row.  Nothing commanded yet, and
   the zero vector that stands in for it. *)
Nothing == [obs |-> 0, row |-> -1]
Zeros == [obs |-> 0, row |-> 0]

EmptySlot == [latest |-> 0, pending |-> 0, start |-> 0,
              last |-> Nothing, from |-> Nothing, fromAt |-> 0]

Playing(s) == s.latest # 0

(* stage_blend_locked_: for `blend` ticks the last commanded row fades out. *)
Stage(s, t, blend) ==
  IF blend > 0 /\ s.last # Nothing
    THEN [s EXCEPT !.from = s.last, !.fromAt = t]
    ELSE [s EXCEPT !.from = Nothing]

(* Faulty variant: a chunk that arrives takes over at once. *)
SwapInCuttingOff(s, c) == [s EXCEPT !.latest = c.answers, !.start = c.at]

(* swap_in: consume-fully. *)
SwapIn(s, c) ==
  IF Playing(s)
    THEN [s EXCEPT !.pending = c.answers]
    ELSE [s EXCEPT !.latest = c.answers, !.start = c.at]

(* swap_in(nullptr): the last commanded row stays. *)
Clear(s) == [EmptySlot EXCEPT !.last = s.last]

(* swap_in_aligned: take-over at once, row 0 at `start`. *)
SwapInAligned(s, c, start, t, blend) ==
  [Stage(s, t, blend) EXCEPT !.latest = c.answers, !.pending = 0, !.start = start]

(* hold_last_locked_: with nothing commanded so far, zeros, from now on taken for
   the last commanded row. *)
Hold(s) == IF s.last = Nothing THEN [s EXCEPT !.last = Zeros] ELSE s

Exhausted(s, t) == t - s.start >= Rows

Promote(s, t, blend) ==
  IF Exhausted(s, t) /\ s.pending # 0
    THEN [Stage(s, t, blend) EXCEPT !.latest = s.pending, !.pending = 0, !.start = t]
    ELSE s

(* Faulty variant: playback starts over after the last row. *)
RowAtWrapping(s, t) == IF t < s.start THEN 0 ELSE (t - s.start) % Rows

(* Before its start the first row, after its end the last. *)
RowAt(s, t) ==
  CASE t < s.start -> 0
    [] Exhausted(s, t) -> Rows - 1
    [] OTHER -> t - s.start

(* One row of the playing chunk.  The window of a cross-fade is at most one tick,
   so inside it the outgoing row still has all the weight; a reading of the clock from
   before the window counts as inside it (its weight is not clamped). *)
Play(s, t, blend) ==
  LET fading == s.from # Nothing /\ t - s.fromAt < blend
  IN  [s EXCEPT !.last = IF fading THEN s.from ELSE [obs |-> s.latest, row |-> RowAt(s, t)],
                !.from = IF fading THEN @ ELSE Nothing,
                !.fromAt = IF fading THEN @ ELSE 0]

(* sample, sample_with_info: the slot afterwards; the commanded row is its `last`.
   (chunk_playable_ never fails: apply_chunk_ swaps in no chunk it would refuse.) *)
Sample(s, t, blend) ==
  IF Playing(s) THEN Play(Promote(s, t, blend), t, blend) ELSE Hold(s)
=============================================================================
