------------------------------- MODULE RowAligner -------------------------------
(***************************************************************************)
(* The loop of process_mcap_file that pairs the messages of several arms   *)
(* into rows (scripts/trossen_mcap_to_lerobot_v2): for each message of the *)
(* reference stream, the message of every other stream that was current,   *)
(* found by a cursor per stream that only moves forward.                   *)
(***************************************************************************)
EXTENDS Integers, Sequences

CONSTANTS
  Arms,      \* number of the streams paired with the reference: first the leaders,
  Leaders,   \* so many, then the followers
  MaxStamp,  \* bound: log times are 0 .. MaxStamp
  MaxLog,    \* bound: messages of a stream
  Tolerance  \* tolerance_ns

ASSUME AlignerAssumption ==
  Arms \in Nat /\ Leaders \in 0 .. Arms /\ MaxStamp \in Nat /\ MaxLog \in Nat /\ Tolerance \in Nat

Streams == 1 .. Arms

VARIABLES
  reference,  \* log times of the reference stream
  messages,   \* log times of every other stream
  limit,      \* max_rows: no more than the images of any camera
  row,        \* ref_idx: the next message of the reference
  cursor,     \* stream_indices
  rows        \* per row, the reference message and that of each stream

aligner == <<reference, messages, limit, row, cursor, rows>>

(* The messages of a stream, by their log times, which may be equal.  (They are the machine's
   clock, which is assumed not to be set back while it records.) *)
Logs ==
  {log \in UNION {[1 .. n -> 0 .. MaxStamp] : n \in 0 .. MaxLog} :
     \A i, j \in DOMAIN log : i < j => log[i] <= log[j]}

AlignerIdle ==
  /\ reference = << >> /\ messages = [s \in Streams |-> << >>]
  /\ limit = 0 /\ row = 1 /\ cursor = [s \in Streams |-> 1] /\ rows = << >>

AlignerInit ==
  /\ reference \in Logs \ {<< >>} /\ messages \in [Streams -> Logs]
  /\ limit \in 1 .. Len(reference)
  /\ row = 1 /\ cursor = [s \in Streams |-> 1] /\ rows = << >>

MaxOf(S) == CHOOSE m \in S : \A n \in S : n <= m

(* Faulty variant: a message of the very instant is not taken. *)
AdvanceShort(s, time) ==
  MaxOf({cursor[s]} \union {j \in cursor[s] .. Len(messages[s]) : messages[s][j] < time})

(* The cursor moves on while the next message is not in the future. *)
Advance(s, time) ==
  MaxOf({cursor[s]} \union {j \in cursor[s] .. Len(messages[s]) : messages[s][j] <= time})

Near(a, b) == a - b <= Tolerance /\ b - a <= Tolerance

Found(s, time) == messages[s] # << >> /\ Near(messages[s][Advance(s, time)], time)

SameSide(p, s) == (p <= Leaders) = (s <= Leaders)

(* The leaders are asked in order until one has nothing near, and so are the followers:
   the cursors after it stay. *)
Asked(s, time) ==
  messages[s] # << >> /\ \A p \in 1 .. s - 1 : SameSide(p, s) => Found(p, time)

AlignRow ==
  /\ row <= limit
  /\ LET time == reference[row]
     IN  /\ cursor' = [s \in Streams |-> IF Asked(s, time) THEN Advance(s, time) ELSE cursor[s]]
         /\ rows' = IF \A s \in Streams : Found(s, time)
                      THEN Append(rows, [reference |-> row, of |-> cursor'])
                      ELSE rows
  /\ row' = row + 1
  /\ UNCHANGED <<reference, messages, limit>>

(***************************************************************************)
(* What the loop computes, from the logs alone.                            *)
(***************************************************************************)
Current(s, time) == MaxOf({1} \union {j \in 1 .. Len(messages[s]) : messages[s][j] <= time})

Complete(r) ==
  \A s \in Streams : messages[s] # << >> /\ Near(messages[s][Current(s, reference[r])], reference[r])

RowOf(r) == [reference |-> r, of |-> [s \in Streams |-> Current(s, reference[r])]]

(* One row for each message of the reference so far, in order, that finds in every stream a
   current message within the tolerance, and with those: the cursors that stay behind when
   an earlier stream has nothing near never cost a later row its message. *)
RowsCurrent ==
  /\ {rows[n] : n \in 1 .. Len(rows)} = {RowOf(r) : r \in {q \in 1 .. row - 1 : Complete(q)}}
  /\ \A m, n \in 1 .. Len(rows) : m < n => rows[m].reference < rows[n].reference
=============================================================================
