-------------------------------- MODULE Dataset --------------------------------
(***************************************************************************)
(* A LeRobot v2 dataset on disk and the functions that read and write it,  *)
(* io/backends/lerobot_v2/lerobot_v2_format_utils.hpp.  The recording      *)
(* backend and the offline converter share both; no file is ever locked    *)
(* and nothing is written in more than one place at once.                  *)
(***************************************************************************)
EXTENDS Integers, Sequences, FiniteSets

CONSTANTS MaxEpisodes \* bound: episodes of the dataset

ASSUME DatasetAssumption == MaxEpisodes \in Nat \ {0}

Indices == 0 .. MaxEpisodes - 1

VARIABLES
  parquet,  \* data/episode_N.parquet, per index
  listed,   \* the lines of meta/episodes.jsonl
  stats,    \* the lines of meta/episodes_stats.jsonl, by their index
  tasks,    \* meta/tasks.jsonl exists
  info,     \* the counters of meta/info.json
  streams   \* a directory of a video stream exists

dataset == <<parquet, listed, stats, tasks, info, streams>>
meta == <<listed, stats, tasks, info>>

(* A file opened and not closed has no footer: no reader takes it.  `of` names what
   it was made from, `first` is the global index of its first row. *)
NoFile == [state |-> "none", rows |-> 0, first |-> 0, of |-> 0]
Partial == [NoFile EXCEPT !.state = "partial"]
Whole(rows, first, of) == [state |-> "whole", rows |-> rows, first |-> first, of |-> of]
Readable(e) == parquet[e].state = "whole"

NoInfo == [made |-> FALSE, episodes |-> 0, frames |-> 0]

DatasetInit ==
  /\ parquet = [e \in Indices |-> NoFile]
  /\ listed = << >> /\ stats = << >> /\ tasks = FALSE
  /\ info = NoInfo /\ streams = FALSE

(* create_initial_info_json leaves one that exists alone. *)
CreateInfo == info' = [info EXCEPT !.made = TRUE]

(* update_info_json fails without a file. *)
UpdateInfo(frames) == [info EXCEPT !.episodes = @ + 1, !.frames = @ + frames]

AtLeastZero(n) == IF n < 0 THEN 0 ELSE n

(* Faulty variant: the number of episodes stays. *)
RevertInfoFramesOnly(frames) == [info EXCEPT !.frames = AtLeastZero(@ - frames)]

(* revert_info_json *)
RevertInfo(frames) ==
  IF info.made
    THEN [info EXCEPT !.episodes = AtLeastZero(@ - 1), !.frames = AtLeastZero(@ - frames)]
    ELSE info

IsLast(lines, line) == lines # << >> /\ lines[Len(lines)] = line

(* remove_last_jsonl_line: no line but the last, and only when it is the episode's. *)
LastOf(e) == listed # << >> /\ listed[Len(listed)].episode = e
WithoutLast(lines) == SubSeq(lines, 1, Len(lines) - 1)

(* Faulty variant: the highest index in use. *)
NextIndexTaken ==
  LET used == {e \in Indices : parquet[e].state # "none"}
  IN  IF used = {} THEN 0 ELSE CHOOSE m \in used : \A e \in used : e <= m

(* scan_existing_episodes: one past the highest index of a file, readable or not. *)
NextIndex ==
  LET used == {e \in Indices : parquet[e].state # "none"}
  IN  IF used = {} THEN 0 ELSE 1 + CHOOSE m \in used : \A e \in used : e <= m

AppendEntry(e, frames) ==
  listed' = Append(listed, [episode |-> e, length |-> frames])

AppendStats(e) == stats' = Append(stats, e)

FramesListed ==
  LET sum[n \in 0 .. Len(listed)] ==
        IF n = 0 THEN 0 ELSE sum[n - 1] + listed[n].length
  IN  sum[Len(listed)]
=============================================================================
