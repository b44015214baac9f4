------------------------------- MODULE Converter -------------------------------
(***************************************************************************)
(* scripts/trossen_mcap_to_lerobot_v2: one run orders the recordings of a  *)
(* folder by their start time, gives each the index of its place, skips    *)
(* those that have a data file, and converts the others; it may end at     *)
(* every step and be run again, after more recordings were made.           *)
(***************************************************************************)
EXTENDS Dataset

CONSTANTS
  Dated,       \* bound: recordings with a start time, 1 .. Dated in the order they are made
  MaxRows,     \* bound: rows of a recording
  MaxRuns,     \* bound: runs of the converter
  MaxTroubles  \* bound: conversions that fail, and ends of the process

ASSUME ConverterAssumption ==
  Dated \in Nat /\ MaxRows \in Nat /\ MaxRuns \in Nat /\ MaxTroubles \in Nat

(* An older recording has no start time: read_recording_start_time gives none. *)
Undated == Dated + 1
Recordings == 1 .. Undated

VARIABLES
  converter,  \* where the process stands
  folder,     \* the recordings in the input folder
  length,     \* rows that a recording aligns to (RowAligner)
  files,      \* mcap_files: the folder as this run saw it, ordered
  place,      \* i: the next of them
  offset,     \* global_index_offset
  runs, troubles,  \* history
  failed,     \* history: a conversion failed before its data file was closed
  displaced,  \* history: a dated recording was added beside the undated one
  unsettled   \* history: info.json may disagree with the list

run == <<files, place, offset>>
converterPast == <<runs, troubles, failed, displaced, unsettled>>
converterVars == <<converter, folder, length, run, converterPast>>

ConverterIdle ==
  /\ converter = "off" /\ folder = {} /\ files = << >> /\ place = 1 /\ offset = 0
  /\ runs = 0 /\ troubles = 0 /\ failed = FALSE /\ displaced = FALSE /\ unsettled = FALSE
  /\ length = [r \in Recordings |-> 0]

ConverterInit ==
  /\ converter = "off" /\ files = << >> /\ place = 1 /\ offset = 0
  /\ runs = 0 /\ troubles = 0 /\ failed = FALSE /\ displaced = FALSE /\ unsettled = FALSE
  /\ folder \in {{}, {Undated}}
  /\ length \in [Recordings -> 0 .. MaxRows]

(* Faulty variant: the newest recording first. *)
NewestFirst(order) == \A i, j \in DOMAIN order : i < j => order[i] > order[j]

(* Ordered by start time; a recording without one comes last. *)
ByStartTime(order) == \A i, j \in DOMAIN order : i < j => order[i] < order[j]

(* A session records one more episode. *)
Record ==
  /\ \E r \in 1 .. Dated : r \notin folder /\ (\A q \in 1 .. r - 1 : q \in folder)
                          /\ folder' = folder \union {r}
  /\ displaced' = (displaced \/ Undated \in folder)
  /\ UNCHANGED <<converter, length, run, runs, troubles, failed, unsettled, dataset>>

Run ==
  /\ converter = "off" /\ converter' = "next"
  /\ runs < MaxRuns /\ runs' = runs + 1
  /\ folder # {} /\ Cardinality(folder) <= MaxEpisodes
  /\ files' \in {order \in [1 .. Cardinality(folder) -> folder] : ByStartTime(order)}
  /\ place' = 1 /\ offset' = 0
  /\ UNCHANGED <<folder, length, troubles, failed, displaced, unsettled, dataset>>

index == place - 1    \* episode_index
rows_aligned == length[files[place]]

(* Faulty variant: the rows of an episode that is there already are not counted. *)
SkipUncounted ==
  /\ converter = "next" /\ place <= Len(files) /\ Readable(index)
  /\ place' = place + 1
  /\ UNCHANGED <<converter, folder, length, files, offset, converterPast, dataset>>

(* Its data file can be read: whatever it was made from, the episode is there. *)
Skip ==
  /\ converter = "next" /\ place <= Len(files) /\ Readable(index)
  /\ offset' = offset + parquet[index].rows /\ place' = place + 1
  /\ UNCHANGED <<converter, folder, length, files, converterPast, dataset>>

(* A data file that cannot be read is deleted. *)
Begin ==
  /\ converter = "next" /\ place <= Len(files) /\ ~Readable(index)
  /\ parquet' = [parquet EXCEPT ![index] = NoFile]
  /\ converter' = "read"
  /\ UNCHANGED <<folder, length, run, converterPast, meta, streams>>

(* This recording is given up, and the run goes on with the next. *)
GiveUp ==
  /\ troubles < MaxTroubles /\ troubles' = troubles + 1
  /\ converter' = "next" /\ place' = place + 1
  /\ UNCHANGED <<folder, length, files, offset, runs, displaced>>

Moves(from, to) == converter = from /\ converter' = to

(* The recording cannot be opened, or holds no joint states. *)
NotRead ==
  /\ converter = "read" /\ GiveUp
  /\ failed' = TRUE
  /\ UNCHANGED <<unsettled, dataset>>

(* The data file is created, or cannot be. *)
Create ==
  \/ /\ Moves("read", "rows")
     /\ parquet' = [parquet EXCEPT ![index] = Partial]
     /\ UNCHANGED <<folder, length, run, converterPast, meta, streams>>
  \/ NotRead

(* The rows, numbered from the offset: all written and the file closed, or not.  A file
   without rows is a failure, but it is closed and stays.  Of a conversion that fails the
   writer's destructor may still close the file, with the rows up to there. *)
Commit ==
  \/ /\ Moves("rows", "images") /\ rows_aligned > 0
     /\ parquet' = [parquet EXCEPT ![index] = Whole(rows_aligned, offset, files[place])]
     /\ offset' = offset + rows_aligned
     /\ UNCHANGED <<folder, length, files, place, converterPast, meta, streams>>
  \/ /\ Moves("rows", "next") /\ rows_aligned = 0
     /\ parquet' = [parquet EXCEPT ![index] = Whole(0, offset, files[place])]
     /\ place' = place + 1
     /\ UNCHANGED <<folder, length, files, offset, converterPast, meta, streams>>
  \/ /\ converter = "rows" /\ GiveUp
     /\ failed' = TRUE
     /\ \E file \in {Partial} \union {Whole(n, offset, files[place]) : n \in 0 .. rows_aligned} :
          parquet' = [parquet EXCEPT ![index] = file]
     /\ UNCHANGED <<unsettled, meta, streams>>

(* Images and videos; the recording is opened a second time, and that may fail. *)
Extract ==
  \/ /\ Moves("images", "info")
     /\ streams' = TRUE
     /\ UNCHANGED <<folder, length, run, converterPast, parquet, meta>>
  \/ /\ converter = "images" /\ GiveUp
     /\ UNCHANGED <<failed, unsettled, dataset>>

(* info.json, when there is none, and then the task. *)
Prepare ==
  \/ /\ Moves("info", "entry")
     /\ CreateInfo /\ tasks' = TRUE
     /\ UNCHANGED <<folder, length, run, converterPast, parquet, listed, stats, streams>>
  \/ /\ converter = "info" /\ GiveUp
     /\ info' \in {info, [info EXCEPT !.made = TRUE]}
     /\ UNCHANGED <<failed, unsettled, parquet, listed, stats, tasks, streams>>

(* write_episode_metadata returns at the first file it cannot write. *)
Enter ==
  \/ /\ Moves("entry", "stats")
     /\ AppendEntry(index, rows_aligned)
     /\ UNCHANGED <<folder, length, run, converterPast, parquet, stats, tasks, info, streams>>
  \/ /\ converter = "entry" /\ GiveUp
     /\ UNCHANGED <<failed, unsettled, dataset>>

EnterStats ==
  \/ /\ Moves("stats", "count")
     /\ AppendStats(index)
     /\ UNCHANGED <<folder, length, run, converterPast, parquet, listed, tasks, info, streams>>
  \/ /\ converter = "stats" /\ GiveUp
     /\ unsettled' = TRUE
     /\ UNCHANGED <<failed, dataset>>

Count ==
  \/ /\ Moves("count", "next")
     /\ info' = UpdateInfo(rows_aligned)
     /\ place' = place + 1
     /\ UNCHANGED <<folder, length, files, offset, converterPast, parquet, listed, stats, tasks, streams>>
  \/ /\ converter = "count" /\ GiveUp
     /\ unsettled' = TRUE
     /\ UNCHANGED <<failed, dataset>>

(* After the last recording the statistics of every data file with rows are written anew,
   listed or not. *)
Rewrite ==
  /\ converter = "next" /\ place > Len(files)
  /\ converter' = "off"
  /\ stats' = IF info.made
                THEN SelectSeq([n \in 1 .. MaxEpisodes |-> n - 1],
                               LAMBDA i : Readable(i) /\ parquet[i].rows > 0)
                ELSE stats
  /\ files' = << >> /\ place' = 1 /\ offset' = 0
  /\ UNCHANGED <<folder, length, converterPast, parquet, listed, tasks, info, streams>>

Stop ==
  /\ converter # "off" /\ troubles < MaxTroubles /\ troubles' = troubles + 1
  /\ converter' = "off" /\ files' = << >> /\ place' = 1 /\ offset' = 0
  /\ unsettled' = (unsettled \/ converter \in {"stats", "count"})
  /\ UNCHANGED <<folder, length, runs, failed, displaced, dataset>>

Process == Create \/ Commit \/ Extract \/ Prepare \/ Enter \/ EnterStats \/ Count

ConverterNext == Record \/ Run \/ Skip \/ Begin \/ Process \/ Rewrite \/ Stop

ConverterSpec ==
  DatasetInit /\ ConverterInit /\ [][ConverterNext]_<<dataset, converterVars>>

RowsOf(i) == parquet[i].first .. parquet[i].first + parquet[i].rows - 1

(* The rows of two episodes never share a global index, across interrupted runs, skipped
   and re-converted episodes, unless a conversion failed with its number of rows unknown. *)
IndicesDisjoint ==
  ~failed => \A i, j \in Indices :
    i # j /\ Readable(i) /\ Readable(j) => RowsOf(i) \intersect RowsOf(j) = {}
=============================================================================
