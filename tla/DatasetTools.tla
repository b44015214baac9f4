------------------------------ MODULE DatasetTools ------------------------------
(***************************************************************************)
(* The programs that write a LeRobot v2 dataset, each over a dataset of    *)
(* its own: the recording backend, and the converter with the loop that    *)
(* aligns its rows.  `tool` says which one a behaviour is about.           *)
(***************************************************************************)
EXTENDS LerobotBackend, Converter, RowAligner

VARIABLES tool

toolVars == <<tool, dataset, backendVars, converterVars, aligner>>

DatasetToolsInit ==
  /\ DatasetInit /\ BackendInit
  /\ \/ tool = "backend" /\ ConverterIdle /\ AlignerIdle
     \/ tool = "converter" /\ ConverterInit /\ AlignerIdle
     \/ tool = "aligner" /\ ConverterIdle /\ AlignerInit

Use(t) == tool = t /\ UNCHANGED tool

DatasetToolsNext ==
  \/ Use("backend") /\ BackendNext /\ UNCHANGED <<converterVars, aligner>>
  \/ Use("converter") /\ ConverterNext /\ UNCHANGED <<backendVars, aligner>>
  \/ Use("aligner") /\ AlignRow /\ UNCHANGED <<dataset, backendVars, converterVars>>

(* The threads of the backend run; nobody has to record, discard or crash. *)
Fairness ==
  /\ WF_toolVars(Use("backend") /\ Finalise /\ UNCHANGED <<converterVars, aligner>>)
  /\ \A w \in Encoders :
       WF_toolVars(Use("backend") /\ Worker(w) /\ UNCHANGED <<converterVars, aligner>>)

DatasetToolsSpec == DatasetToolsInit /\ [][DatasetToolsNext]_toolVars /\ Fairness

(* An episode is listed once, and a listed episode has a readable data file with as many
   rows, while its discard is not at work and as long as no discard was cut short between
   the two. *)
ListedHaveData ==
  ~torn =>
    /\ \A n \in 1 .. Len(listed) :
         LET i == listed[n].episode
         IN  \/ session \in Discarding /\ i = ep
             \/ Readable(i) /\ parquet[i].rows = listed[n].length
    /\ \A m, n \in 1 .. Len(listed) : m # n => listed[m].episode # listed[n].episode

(* At rest info.json counts the episodes and the frames that are listed, however many
   episodes were closed, discarded after their close, or converted.  Not after a step
   between the two files failed or was the last, after an episode was discarded open (it
   is uncounted without having been counted) or closed without any video stream (it stays
   counted). *)
InfoMatches ==
  session = "idle" /\ converter \notin {"stats", "count"} /\ ~skewed /\ ~unsettled =>
    info.episodes = Len(listed) /\ info.frames = FramesListed

(* An index keeps its recording when more are made and the converter is run again, as the
   comment on the order says; an undated recording beside dated ones is the exception. *)
IndexStable ==
  tool = "converter" /\ ~displaced => \A i \in Indices :
    Readable(i) => /\ parquet[i].of \in folder
                   /\ Cardinality({earlier \in folder : earlier < parquet[i].of}) = i
=============================================================================
