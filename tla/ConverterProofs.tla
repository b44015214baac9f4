---------------------------- MODULE ConverterProofs ----------------------------
(***************************************************************************)
(* The converter's global row indices, for any number of recordings, rows, *)
(* runs and interruptions.                                                 *)
(*                                                                         *)
(* Disjointness alone is not inductive: the next file is numbered from     *)
(* global_index_offset, which says nothing of the files on disk.  Inv adds *)
(* that those files are numbered one after the other without a gap (Chain) *)
(* and that the offset of a run is the end of the files it has passed      *)
(* (Progress).  Both hold as long as no conversion failed with its rows    *)
(* unknown.                                                                *)
(*                                                                         *)
(* What a run lists and counts (Recorded) and the order in which it        *)
(* numbers the recordings (Numbering) are kept by the same steps.  What    *)
(* would be an induction is an argument about a least counterexample       *)
(* (Least).                                                                *)
(***************************************************************************)
EXTENDS Converter, FiniteSetTheorems, WellFoundedInduction, TLAPS

File == [state : {"none", "partial", "whole"}, rows : Nat, first : Nat, of : Nat]

AfterCommit == {"images", "info", "entry", "stats", "count"}

ConverterTypeOK ==
  /\ parquet \in [Indices -> File]
  /\ length \in [Recordings -> 0 .. MaxRows]
  /\ folder \in SUBSET Recordings
  /\ files \in Seq(Recordings) /\ Len(files) <= MaxEpisodes
  /\ place \in Nat \ {0} /\ offset \in Nat
  /\ converter \in {"off", "next", "read", "rows"} \union AfterCommit
  /\ converter # "off" => place <= Len(files) + 1
  /\ converter \notin {"off", "next"} => place <= Len(files)

EndOf(i) == parquet[i].first + parquet[i].rows

(* The readable files are the first ones, and each starts where the one before ends. *)
Chain ==
  /\ \A i, j \in Indices : j < i /\ Readable(i) => Readable(j) /\ EndOf(j) <= parquet[i].first
  /\ Readable(0) => parquet[0].first = 0
  /\ \A i \in Indices : i + 1 \in Indices /\ Readable(i + 1) => parquet[i + 1].first = EndOf(i)

(* The end of the first n files. *)
Reached(n) == IF n = 0 THEN 0 ELSE EndOf(n - 1)

Progress ==
  converter # "off" =>
    /\ \A i \in Indices : i < index => Readable(i)
    /\ converter \in {"next", "read", "rows"} => offset = Reached(index)
    /\ converter \in {"read", "rows"} => ~Readable(index)
    /\ converter \in AfterCommit => Readable(index) /\ offset = Reached(index + 1)

Numbered == failed \/ (Chain /\ Progress)

Inv == ConverterTypeOK /\ Numbered

(* An index that the converter works at is one of the dataset. *)
LEMMA IndexInRange ==
  ASSUME ConverterTypeOK, place <= Len(files)
  PROVE  index \in Indices /\ index \in Nat /\ files[place] \in Recordings
BY DatasetAssumption DEF ConverterTypeOK, Indices, index

(* What the converter orders is a sequence of recordings as long as the folder. *)
LEMMA OrderIsSeq ==
  ASSUME folder \in SUBSET Recordings,
         NEW order \in [1 .. Cardinality(folder) -> folder]
  PROVE  order \in Seq(Recordings) /\ Len(order) = Cardinality(folder)
<1>1. IsFiniteSet(Recordings)
  BY FS_Interval, ConverterAssumption DEF Recordings, Undated
<1>2. Cardinality(folder) \in Nat
  BY <1>1, FS_Subset, FS_CardinalityType
<1>. QED
  BY <1>2

LEMMA InitInv == DatasetInit /\ ConverterInit => Inv
<1>. SUFFICES ASSUME DatasetInit, ConverterInit PROVE Inv
  OBVIOUS
<1>1. ConverterTypeOK
  <2>1. parquet \in [Indices -> File]
    BY DEF DatasetInit, NoFile, File
  <2>2. files \in Seq(Recordings) /\ Len(files) <= MaxEpisodes
    BY DatasetAssumption DEF ConverterInit
  <2>3. folder \in SUBSET Recordings
    BY ConverterAssumption DEF ConverterInit, Recordings, Undated
  <2>. QED
    BY <2>1, <2>2, <2>3 DEF ConverterInit, ConverterTypeOK
<1>2. \A i \in Indices : ~Readable(i)
  BY DEF DatasetInit, NoFile, Readable
<1>3. 0 \in Indices
  BY DatasetAssumption DEF Indices
<1>. QED
  BY <1>1, <1>2, <1>3 DEF Inv, Numbered, Chain, Progress, ConverterInit

(* A step that leaves the files of the dataset and the run alone. *)
LEMMA QuietStep ==
  ASSUME Inv, UNCHANGED <<parquet, converter, length, run>>,
         folder' \in SUBSET Recordings, failed' = failed
  PROVE  Inv'
<1>1. ConverterTypeOK'
  BY DEF Inv, ConverterTypeOK, run
<1>2. Numbered'
  BY DEF Inv, Numbered, Chain, Progress, Reached, EndOf, Readable, index, run
<1>. QED
  BY <1>1, <1>2 DEF Inv

(* The process ends, or the run does: only the files stay. *)
LEMMA OffStep ==
  ASSUME Inv, UNCHANGED <<parquet, length, folder, failed>>,
         converter' = "off", files' = << >>, place' = 1, offset' = 0
  PROVE  Inv'
<1>1. files' \in Seq(Recordings) /\ Len(files') = 0
  OBVIOUS
<1>2. ConverterTypeOK'
  BY <1>1, DatasetAssumption DEF Inv, ConverterTypeOK
<1>3. Numbered'
  BY DEF Inv, Numbered, Chain, Progress, EndOf, Readable
<1>. QED
  BY <1>2, <1>3 DEF Inv

(* A step within one recording that leaves its data file alone. *)
LEMMA WithinStep ==
  ASSUME Inv, UNCHANGED <<parquet, length, folder, run, failed>>,
         converter \in AfterCommit, converter' \in AfterCommit
  PROVE  Inv'
<1>1. ConverterTypeOK'
  BY DEF Inv, ConverterTypeOK, AfterCommit, run
<1>2. Numbered'
  BY DEF Inv, Numbered, Chain, Progress, Reached, EndOf, Readable, index, AfterCommit, run
<1>. QED
  BY <1>1, <1>2 DEF Inv

(* On to the next recording once this one's data file is closed. *)
LEMMA OnwardStep ==
  ASSUME Inv, UNCHANGED <<parquet, length, folder, files, offset, failed>>,
         converter \in AfterCommit, converter' = "next", place' = place + 1
  PROVE  Inv'
<1>1. place <= Len(files) /\ place \in Nat \ {0} /\ Len(files) \in Nat
  BY DEF Inv, ConverterTypeOK, AfterCommit
<1>2. ConverterTypeOK'
  BY <1>1 DEF Inv, ConverterTypeOK
<1>3. index' = index + 1 /\ index \in Nat
  BY <1>1 DEF index
<1>4. ASSUME Chain, Progress PROVE Chain' /\ Progress'
  <2>1. Chain'
    BY <1>4 DEF Chain, EndOf, Readable
  <2>2. \A i \in Indices : i < index' => Readable(i)'
    BY <1>3, <1>4 DEF Progress, Readable, AfterCommit, Indices
  <2>3. offset' = Reached(index)'
    BY <1>3, <1>4 DEF Progress, Reached, EndOf, AfterCommit
  <2>. QED
    BY <1>3, <2>1, <2>2, <2>3 DEF Progress, Reached, AfterCommit
<1>. QED
  BY <1>2, <1>4 DEF Inv, Numbered

(* The recording is given up with its rows unknown. *)
LEMMA FailedStep ==
  ASSUME Inv, UNCHANGED <<length, folder, files, offset>>, failed' = TRUE, parquet' \in [Indices -> File],
         converter \in {"read", "rows"}, converter' = "next", place' = place + 1
  PROVE  Inv'
<1>1. place <= Len(files) /\ place \in Nat \ {0} /\ Len(files) \in Nat
  BY DEF Inv, ConverterTypeOK
<1>2. ConverterTypeOK'
  BY <1>1 DEF Inv, ConverterTypeOK
<1>. QED
  BY <1>2 DEF Inv, Numbered

(* What a conversion that fails may leave: nothing readable, or the rows up to there. *)
LEMMA LeftIsFile ==
  ASSUME Inv, place <= Len(files),
         NEW f \in {Partial} \union {Whole(n, offset, files[place]) : n \in 0 .. rows_aligned}
  PROVE  f \in File /\ (f.state = "whole" => f.of = files[place])
<1>1. files[place] \in Recordings
  BY IndexInRange DEF Inv
<1>2. files[place] \in Nat /\ offset \in Nat /\ rows_aligned \in Nat
  BY <1>1, ConverterAssumption DEF Inv, ConverterTypeOK, rows_aligned, Recordings, Undated
<1>3. Partial \in File /\ Partial.state # "whole"
  BY DEF Partial, NoFile, File
<1>4. \A n \in 0 .. rows_aligned : Whole(n, offset, files[place]) \in File /\ Whole(n, offset, files[place]).of = files[place]
  BY <1>2 DEF Whole, File
<1>. QED
  BY <1>3, <1>4

(* This recording's data file is opened or deleted; it is not readable either way. *)
LEMMA UnreadableStep ==
  ASSUME Inv, UNCHANGED <<length, folder, run, failed>>,
         place <= Len(files), converter = "read" \/ (converter = "next" /\ ~Readable(index)),
         converter' \in {"read", "rows"},
         NEW f \in {NoFile, Partial}, parquet' = [parquet EXCEPT ![index] = f]
  PROVE  Inv'
<1>1. index \in Indices /\ index \in Nat
  BY IndexInRange DEF Inv
<1>2. f \in File /\ f.state # "whole"
  BY DEF NoFile, Partial, File
<1>3. ConverterTypeOK'
  BY <1>1, <1>2 DEF Inv, ConverterTypeOK, run
<1>4. index' = index
  BY DEF index, run
<1>5. ASSUME Chain, Progress
      PROVE  Chain' /\ Progress'
  <2>5. ~Readable(index)
    BY <1>5 DEF Progress
  <2>0. \A i \in Indices : /\ Readable(i)' <=> Readable(i)
                           /\ Readable(i) => parquet'[i] = parquet[i]
    BY <1>1, <1>2, <2>5 DEF Readable, Inv, ConverterTypeOK
  <2>1. Chain'
    <3>1. \A i, j \in Indices :
            j < i /\ Readable(i)' => Readable(j)' /\ EndOf(j)' <= parquet'[i].first
      BY <2>0, <1>5 DEF Chain, EndOf
    <3>2. Readable(0)' => parquet'[0].first = 0
      BY <2>0, <1>5, DatasetAssumption DEF Chain, Indices
    <3>3. \A i \in Indices :
            i + 1 \in Indices /\ Readable(i + 1)' => parquet'[i + 1].first = EndOf(i)'
      <4>1. ASSUME NEW i \in Indices, i + 1 \in Indices, Readable(i + 1)'
            PROVE  parquet'[i + 1].first = EndOf(i)'
        <5>1. Readable(i + 1) /\ Readable(i)
          BY <2>0, <1>5, <4>1, DatasetAssumption DEF Chain, Indices
        <5>2. parquet'[i + 1] = parquet[i + 1] /\ parquet'[i] = parquet[i]
          BY <2>0, <4>1, <5>1
        <5>. QED
          BY <1>5, <4>1, <5>1, <5>2 DEF Chain, EndOf
      <4>. QED
        BY <4>1
    <3>. QED
      BY <3>1, <3>2, <3>3 DEF Chain
  <2>2. offset = Reached(index) /\ \A i \in Indices : i < index => Readable(i)
    BY <1>5 DEF Progress
  <2>3. Reached(index)' = Reached(index)
    BY <1>1, <1>4, <2>0, <2>2, DatasetAssumption DEF Reached, EndOf, Indices
  <2>4. ~Readable(index)'
    BY <1>1, <1>4, <2>0, <2>5 DEF Readable
  <2>6. offset' = Reached(index)'
    BY <2>2, <2>3 DEF run
  <2>7. \A i \in Indices : i < index' => Readable(i)'
    BY <1>4, <2>0, <2>2
  <2>. QED
    BY <2>1, <2>4, <2>6, <2>7 DEF Progress, AfterCommit
<1>. QED
  BY <1>3, <1>5 DEF Inv, Numbered

(* A readable file that starts at the offset, after all the readable ones, where there was
   none, keeps the chain; `rows` may be 0. *)
LEMMA ChainGrows ==
  ASSUME Inv, Chain, Progress, converter = "rows",
         NEW rows \in Nat, NEW of \in Recordings,
         parquet' = [parquet EXCEPT ![index] = Whole(rows, offset, of)]
  PROVE  Chain' /\ \A i \in Indices : i <= index => Readable(i)'
<1>1. index \in Indices /\ index \in Nat
  BY IndexInRange DEF Inv, ConverterTypeOK, AfterCommit
<1>. DEFINE f == Whole(rows, offset, of)
<1>2. parquet \in [Indices -> File] /\ offset \in Nat
  BY DEF Inv, ConverterTypeOK
<1>3. f.state = "whole" /\ f.rows = rows /\ f.first = offset
  BY DEF Whole
<1>4. parquet'[index] = f /\ \A i \in Indices : i # index => parquet'[i] = parquet[i]
  BY <1>1, <1>2
<1>. HIDE DEF f
<1>5. ~Readable(index) /\ offset = Reached(index) /\ \A i \in Indices : i < index => Readable(i)
  BY DEF Progress
<1>6. \A i \in Indices : index < i => ~Readable(i)
  BY <1>1, <1>5 DEF Chain
<1>7. \A i \in Indices : Readable(i)' <=> i <= index
  BY <1>1, <1>3, <1>4, <1>5, <1>6 DEF Readable, Indices
<1>8. \A i \in Indices : i < index => EndOf(i) <= offset
  <2>1. CASE index = 0
    BY <2>1 DEF Indices
  <2>2. CASE index > 0
    <3>1. index - 1 \in Indices /\ offset = EndOf(index - 1)
      BY <1>1, <1>5, <2>2, DatasetAssumption DEF Reached, Indices
    <3>2. \A i \in Indices : i < index - 1 => EndOf(i) <= parquet[index - 1].first
      BY <1>1, <1>5, <3>1 DEF Chain, Indices
    <3>3. \A i \in Indices : parquet[i].first \in Nat /\ parquet[i].rows \in Nat
      BY <1>2 DEF File
    <3>. QED
      BY <1>1, <3>1, <3>2, <3>3 DEF EndOf, Indices
  <2>. QED
    BY <1>1, <2>1, <2>2
<1>9. Chain'
  <2>1. ASSUME NEW i \in Indices, NEW j \in Indices, j < i, Readable(i)'
        PROVE  Readable(j)' /\ EndOf(j)' <= parquet'[i].first
    <3>1. i <= index /\ j < index
      BY <1>1, <1>7, <2>1 DEF Indices
    <3>2. EndOf(j)' = EndOf(j)
      BY <1>1, <1>4, <3>1, DatasetAssumption DEF EndOf, Indices
    <3>3. Readable(j)'
      BY <1>1, <1>7, <3>1, DatasetAssumption DEF Indices
    <3>4. CASE i = index
      BY <1>3, <1>4, <1>8, <3>1, <3>2, <3>3, <3>4
    <3>5. CASE i # index
      <4>1. i < index
        BY <1>1, <3>1, <3>5, DatasetAssumption DEF Indices
      <4>2. EndOf(j) <= parquet[i].first
        BY <1>5, <2>1, <4>1 DEF Chain
      <4>. QED
        BY <1>4, <3>2, <3>3, <3>5, <4>2
    <3>. QED
      BY <3>4, <3>5
  <2>2. Readable(0)' => parquet'[0].first = 0
    <3>1. 0 \in Indices
      BY DatasetAssumption DEF Indices
    <3>2. CASE index = 0
      BY <1>3, <1>4, <1>5, <3>2 DEF Reached
    <3>3. CASE index # 0
      BY <1>4, <3>1, <3>3 DEF Chain, Readable
    <3>. QED
      BY <3>2, <3>3
  <2>3. ASSUME NEW i \in Indices, i + 1 \in Indices, Readable(i + 1)'
        PROVE  parquet'[i + 1].first = EndOf(i)'
    <3>1. i + 1 <= index
      BY <1>7, <2>3
    <3>2. EndOf(i)' = EndOf(i)
      BY <1>1, <1>4, <3>1 DEF EndOf, Indices
    <3>3. CASE i + 1 = index
      <4>1. offset = EndOf(i)
        BY <1>1, <1>5, <3>3, DatasetAssumption DEF Reached, Indices
      <4>. QED
        BY <1>3, <1>4, <3>2, <3>3, <4>1
    <3>4. CASE i + 1 # index
      BY <1>1, <1>4, <1>5, <2>3, <3>1, <3>2, <3>4 DEF Chain, Indices
    <3>. QED
      BY <3>3, <3>4
  <2>. QED
    BY <2>1, <2>2, <2>3 DEF Chain
<1>. QED
  BY <1>7, <1>9

(* A data file is closed: with rows, and the run stays with it, or without, and goes on. *)
LEMMA CommitStep ==
  ASSUME Inv, converter = "rows", NEW rows \in Nat, NEW of \in Recordings,
         parquet' = [parquet EXCEPT ![index] = Whole(rows, offset, of)],
         UNCHANGED <<length, folder, files, failed>>, offset' = offset + rows,
         \/ converter' = "images" /\ place' = place
         \/ converter' = "next" /\ place' = place + 1
  PROVE  Inv'
<1>1. place <= Len(files) /\ index \in Indices /\ index \in Nat /\ place \in Nat \ {0}
  BY IndexInRange DEF Inv, ConverterTypeOK
<1>2. Whole(rows, offset, of) \in File
  <2>1. of \in Nat
    BY ConverterAssumption DEF Recordings, Undated
  <2>. QED
    BY <2>1 DEF Inv, ConverterTypeOK, Whole, File
<1>3. ConverterTypeOK'
  <2>1. parquet' \in [Indices -> File] /\ offset' \in Nat /\ place' \in Nat \ {0}
    BY <1>1, <1>2 DEF Inv, ConverterTypeOK
  <2>2. Len(files) \in Nat
    BY DEF Inv, ConverterTypeOK
  <2>. QED
    BY <1>1, <2>1, <2>2 DEF Inv, ConverterTypeOK, AfterCommit
<1>4. ASSUME Chain, Progress PROVE Chain' /\ Progress'
  <2>1. Chain' /\ \A i \in Indices : i <= index => Readable(i)'
    BY <1>4, ChainGrows
  <2>2. parquet'[index].first + parquet'[index].rows = offset'
    BY <1>1 DEF Inv, ConverterTypeOK, Whole
  <2>3. CASE converter' = "images" /\ place' = place
    <3>1. index' = index
      BY <2>3 DEF index
    <3>2. offset' = Reached(index + 1)'
      BY <1>1, <2>2, <3>1 DEF Reached, EndOf
    <3>. QED
      BY <1>1, <2>1, <2>3, <3>1, <3>2 DEF Progress, AfterCommit, Indices
  <2>4. CASE converter' = "next" /\ place' = place + 1
    <3>1. index' = index + 1
      BY <1>1, <2>4 DEF index
    <3>2. offset' = Reached(index)'
      BY <1>1, <2>2, <3>1 DEF Reached, EndOf
    <3>. QED
      BY <1>1, <2>1, <2>4, <3>1, <3>2 DEF Progress, AfterCommit, Indices
  <2>. QED
    BY <2>1, <2>3, <2>4
<1>. QED
  BY <1>3, <1>4 DEF Inv, Numbered

(* An episode that is there is passed over, and its rows are counted. *)
LEMMA SkipStep == Inv /\ Skip => Inv'
<1>. SUFFICES ASSUME Inv, Skip PROVE Inv'
  OBVIOUS
<1>1. index \in Indices /\ index \in Nat /\ place \in Nat \ {0}
  BY IndexInRange DEF Inv, ConverterTypeOK, Skip
<1>2. parquet[index].rows \in Nat /\ parquet[index].first \in Nat /\ Len(files) \in Nat
  BY <1>1 DEF Inv, ConverterTypeOK, File
<1>3. UNCHANGED <<parquet, converter, folder, length, files, failed>>
  BY DEF Skip, dataset, converterPast
<1>4. ConverterTypeOK'
  <2>1. offset' \in Nat /\ place' \in Nat \ {0} /\ place' <= Len(files) + 1
    BY <1>1, <1>2 DEF Inv, ConverterTypeOK, Skip
  <2>. QED
    BY <1>3, <2>1 DEF Inv, ConverterTypeOK, Skip
<1>5. index' = index + 1
  BY <1>1 DEF Skip, index
<1>6. ASSUME Chain, Progress PROVE Chain' /\ Progress'
  <2>1. Chain'
    BY <1>3, <1>6 DEF Chain, EndOf, Readable
  <2>2. offset = Reached(index) /\ Readable(index) /\ \A i \in Indices : i < index => Readable(i)
    BY <1>6 DEF Progress, Skip
  <2>3. parquet[index].first = offset
    <3>1. CASE index = 0
      BY <1>6, <2>2, <3>1 DEF Chain, Reached
    <3>2. CASE index # 0
      <4>1. index - 1 \in Indices /\ (index - 1) + 1 = index
        BY <1>1, <3>2, DatasetAssumption DEF Indices
      <4>2. parquet[index].first = EndOf(index - 1)
        BY <1>1, <1>6, <2>2, <4>1 DEF Chain
      <4>. QED
        BY <2>2, <3>2, <4>2 DEF Reached
    <3>. QED
      BY <3>1, <3>2
  <2>4. offset' = Reached(index)'
    BY <1>1, <1>2, <1>3, <1>5, <2>3 DEF Reached, EndOf, Skip
  <2>5. \A i \in Indices : i < index' => Readable(i)'
    BY <1>1, <1>3, <1>5, <2>2, DatasetAssumption DEF Readable, Indices
  <2>. QED
    BY <1>3, <2>1, <2>4, <2>5 DEF Progress, Skip, AfterCommit
<1>. QED
  BY <1>3, <1>4, <1>6 DEF Inv, Numbered

(* A run starts before the first file. *)
LEMMA RunStep == Inv /\ Run => Inv'
<1>. SUFFICES ASSUME Inv, Run PROVE Inv'
  OBVIOUS
<1>1. UNCHANGED <<parquet, folder, length, failed>>
  BY DEF Run, dataset
<1>2. files' \in Seq(Recordings) /\ Len(files') = Cardinality(folder) /\ Len(files') \in Nat
  <2>1. files' \in [1 .. Cardinality(folder) -> folder] /\ folder \in SUBSET Recordings
    BY DEF Run, Inv, ConverterTypeOK
  <2>2. files' \in Seq(Recordings) /\ Len(files') = Cardinality(folder)
    BY <2>1, OrderIsSeq
  <2>. QED
    BY <2>2
<1>3. ConverterTypeOK'
  BY <1>1, <1>2 DEF Inv, ConverterTypeOK, Run
<1>4. Numbered'
  <2>1. index' = 0
    BY DEF Run, index
  <2>2. ASSUME Chain PROVE Chain' /\ Progress'
    <3>1. Chain'
      BY <1>1, <2>2 DEF Chain, EndOf, Readable
    <3>2. offset' = Reached(index)'
      BY <2>1 DEF Reached, Run
    <3>. QED
      BY <2>1, <3>1, <3>2, DatasetAssumption DEF Progress, Run, AfterCommit, Indices
  <2>. QED
    BY <1>1, <2>2 DEF Inv, Numbered
<1>. QED
  BY <1>3, <1>4 DEF Inv

(* Every step keeps Inv. *)
LEMMA StepInv == Inv /\ [ConverterNext]_<<dataset, converterVars>> => Inv'
<1>. SUFFICES ASSUME Inv, [ConverterNext]_<<dataset, converterVars>> PROVE Inv'
  OBVIOUS
<1>1. CASE Record
  <2>1. folder' \in SUBSET Recordings
    BY <1>1, ConverterAssumption DEF Record, Inv, ConverterTypeOK, Recordings, Undated
  <2>2. UNCHANGED <<parquet, converter, length, run>> /\ failed' = failed
    BY <1>1 DEF Record, dataset
  <2>. QED
    BY <2>1, <2>2, QuietStep
<1>2. CASE Run
  BY <1>2, RunStep
<1>3. CASE Skip
  BY <1>3, SkipStep
<1>4. CASE Begin
  BY <1>4, UnreadableStep DEF Begin, converterPast
<1>5. CASE Create
  <2>1. CASE converter = "read" /\ converter' = "rows"
    <3>1. parquet' = [parquet EXCEPT ![index] = Partial] /\ UNCHANGED <<length, folder, run, failed>>
      BY <1>5, <2>1 DEF Create, NotRead, GiveUp, converterPast
    <3>2. place <= Len(files)
      BY <2>1 DEF Inv, ConverterTypeOK
    <3>. QED
      BY <2>1, <3>1, <3>2, UnreadableStep
  <2>2. CASE converter = "read" /\ GiveUp /\ failed' = TRUE /\ UNCHANGED <<unsettled, dataset>>
    BY <2>2, FailedStep DEF GiveUp, dataset, Inv, ConverterTypeOK
  <2>. QED
    BY <1>5, <2>1, <2>2 DEF Create, NotRead, Moves
<1>6. CASE Commit
  <2>1. place <= Len(files) /\ offset \in Nat
    BY <1>6 DEF Commit, Moves, Inv, ConverterTypeOK
  <2>2. files[place] \in Recordings /\ rows_aligned \in Nat
    BY <2>1, IndexInRange, ConverterAssumption DEF Inv, ConverterTypeOK, rows_aligned
  <2>3. CASE converter' = "images" /\ rows_aligned > 0
    <3>1. /\ converter = "rows" /\ place' = place /\ offset' = offset + rows_aligned
          /\ parquet' = [parquet EXCEPT ![index] = Whole(rows_aligned, offset, files[place])]
          /\ UNCHANGED <<length, folder, files, failed>>
      BY <1>6, <2>3 DEF Commit, Moves, GiveUp, converterPast
    <3>. QED
      BY <2>2, <2>3, <3>1, CommitStep
  <2>4. CASE Moves("rows", "next") /\ rows_aligned = 0 /\ parquet' = [parquet EXCEPT ![index] = Whole(0, offset, files[place])] /\ place' = place + 1
             /\ UNCHANGED <<folder, length, files, offset, converterPast, meta, streams>>
    <3>1. /\ converter = "rows" /\ converter' = "next" /\ place' = place + 1
          /\ offset' = offset + 0
          /\ UNCHANGED <<length, folder, files, failed>>
      BY <2>1, <2>4 DEF Moves, converterPast
    <3>. QED
      BY <2>2, <2>4, <3>1, CommitStep
  <2>5. CASE converter = "rows" /\ GiveUp /\ failed' = TRUE
             /\ \E file \in {Partial} \union {Whole(n, offset, files[place]) : n \in 0 .. rows_aligned} :
                  parquet' = [parquet EXCEPT ![index] = file]
    <3>1. parquet' \in [Indices -> File]
      BY <2>1, <2>5, LeftIsFile DEF Inv, ConverterTypeOK
    <3>. QED
      BY <2>5, <3>1, FailedStep DEF GiveUp
  <2>. QED
    BY <1>6, <2>3, <2>4, <2>5 DEF Commit, Moves
<1>7. CASE Extract
  BY <1>7, WithinStep, OnwardStep DEF Extract, Moves, GiveUp, AfterCommit, converterPast, dataset, run
<1>8. CASE Prepare
  BY <1>8, WithinStep, OnwardStep DEF Prepare, Moves, GiveUp, AfterCommit, converterPast, dataset, run
<1>9. CASE Enter
  BY <1>9, WithinStep, OnwardStep DEF Enter, Moves, GiveUp, AfterCommit, converterPast, dataset, run
<1>10. CASE EnterStats
  BY <1>10, WithinStep, OnwardStep DEF EnterStats, Moves, GiveUp, AfterCommit, converterPast, dataset, run
<1>11. CASE Count
  BY <1>11, WithinStep, OnwardStep DEF Count, Moves, GiveUp, AfterCommit, converterPast, dataset, run
<1>12. CASE Rewrite
  BY <1>12, OffStep DEF Rewrite, converterPast
<1>13. CASE Stop
  BY <1>13, OffStep DEF Stop, dataset
<1>14. CASE UNCHANGED <<dataset, converterVars>>
  <2>1. UNCHANGED <<parquet, converter, length, run>> /\ failed' = failed /\ folder' = folder
    BY <1>14 DEF dataset, converterVars, converterPast
  <2>2. folder \in SUBSET Recordings
    BY DEF Inv, ConverterTypeOK
  <2>. QED
    BY <2>1, <2>2, QuietStep
<1>. QED
  BY <1>1, <1>2, <1>3, <1>4, <1>5, <1>6, <1>7, <1>8, <1>9, <1>10, <1>11, <1>12, <1>13, <1>14
  DEF ConverterNext, Process

(* Files one after the other share no index. *)
LEMMA InvDisjoint == Inv => IndicesDisjoint
<1>. SUFFICES ASSUME Inv, ~failed, NEW i \in Indices, NEW j \in Indices, j < i,
                     Readable(i), Readable(j)
              PROVE  RowsOf(i) \intersect RowsOf(j) = {}
  BY DatasetAssumption DEF IndicesDisjoint, Indices
<1>1. EndOf(j) <= parquet[i].first
  BY DEF Inv, Numbered, Chain
<1>2. /\ parquet[i].first \in Nat /\ parquet[i].rows \in Nat
      /\ parquet[j].first \in Nat /\ parquet[j].rows \in Nat
  BY DEF Inv, ConverterTypeOK, File
<1>. QED
  BY <1>1, <1>2 DEF RowsOf, EndOf

(* The invariant of the converter: the readable data files are those of the first indices,
   numbered without a gap, and a run's global_index_offset is where the next one starts. *)
THEOREM InvIsInvariant == ConverterSpec => []Inv
BY InitInv, StepInv, PTL DEF ConverterSpec

(* The row indices of two episodes are disjoint whatever is interrupted, skipped and
   converted again (main's loop and process_mcap_file's commit). *)
THEOREM ConverterIndicesDisjoint == ConverterSpec => []IndicesDisjoint
BY InvIsInvariant, InvDisjoint, PTL

(***************************************************************************)
(* The lists of the dataset.                                               *)
(***************************************************************************)
Entry == [episode : Indices, length : Nat]
Lines == 1 .. Len(listed)

Distinct == \A m, n \in Lines : m # n => listed[m].episode # listed[n].episode
Unlisted(e) == \A n \in Lines : listed[n].episode # e
Backed(n) == Readable(listed[n].episode) /\ parquet[listed[n].episode].rows = listed[n].length

LEMMA LinesAre ==
  ASSUME listed \in Seq(Entry)
  PROVE  /\ Len(listed) \in Nat
         /\ \A n \in Lines : listed[n].episode \in Indices /\ listed[n].episode \in Nat /\ listed[n].length \in Nat
<1>1. Len(listed) \in Nat /\ \A n \in Lines : listed[n] \in Entry
  BY DEF Lines
<1>. QED
  BY <1>1, DatasetAssumption DEF Entry, Indices

Less == {p \in Nat \X Nat : p[1] < p[2]}

(* A set of naturals has a least element: what stands for an induction below. *)
LEMMA Least ==
  ASSUME NEW T \in SUBSET Nat, T # {}
  PROVE  \E x \in T : \A y \in T : x <= y
<1>1. IsWellFoundedOn(Less, Nat)
  <2>1. OpToRel(<, Nat) = Less
    BY DEF OpToRel, Less
  <2>. QED
    BY <2>1, NatLessThanWellFounded
<1>2. PICK x \in T : \A y \in T : <<y, x>> \notin Less
  BY <1>1, WFMin
<1>3. ASSUME NEW y \in T PROVE x <= y
  <2>1. <<y, x>> \in Nat \X Nat /\ <<y, x>>[1] = y /\ <<y, x>>[2] = x
    OBVIOUS
  <2>2. ~(y < x)
    BY <1>2, <2>1 DEF Less
  <2>. QED
    BY <2>2
<1>. QED
  BY <1>3

LEMMA Greatest ==
  ASSUME NEW T \in SUBSET Nat, T # {}, NEW bound \in Nat, \A t \in T : t <= bound
  PROVE  \E x \in T : \A y \in T : y <= x
<1>. DEFINE U == {bound - t : t \in T}
<1>1. PICK u \in U : \A v \in U : u <= v
  <2>1. \A t \in T : bound - t \in Nat
    OBVIOUS
  <2>2. U \in SUBSET Nat /\ U # {}
    BY <2>1
  <2>. HIDE DEF U
  <2>. QED
    BY <2>2, Least
<1>2. PICK x \in T : u = bound - x
  OBVIOUS
<1>3. ASSUME NEW y \in T PROVE y <= x
  <2>1. bound - x <= bound - y
    BY <1>1, <1>2
  <2>. QED
    BY <2>1
<1>. QED
  BY <1>3

IsSum(f, lines) ==
  f = [n \in 0 .. Len(lines) |-> IF n = 0 THEN 0 ELSE f[n - 1] + lines[n].length]

(* The frames of the first n lines. *)
SumsTo(n, lines) ==
  {f \in [0 .. n -> Nat] : f[0] = 0 /\ \A k \in 1 .. n : f[k] = f[k - 1] + lines[k].length}

(* The recursion of FramesListed defines a function, into the naturals ... *)
LEMMA SumExists ==
  ASSUME NEW lines \in Seq(Entry)
  PROVE  \E f \in [0 .. Len(lines) -> Nat] : IsSum(f, lines)
<1>. DEFINE T == {n \in 0 .. Len(lines) : SumsTo(n, lines) = {}}
<1>1. Len(lines) \in Nat /\ \A k \in 1 .. Len(lines) : lines[k].length \in Nat
  <2>1. Len(lines) \in Nat /\ \A k \in 1 .. Len(lines) : lines[k] \in Entry
    OBVIOUS
  <2>. QED
    BY <2>1 DEF Entry
<1>2. T = {}
  <2>. SUFFICES ASSUME T # {} PROVE FALSE
    OBVIOUS
  <2>1. PICK x \in T : \A y \in T : x <= y
    <3>1. T \in SUBSET Nat
      BY <1>1
    <3>. HIDE DEF T
    <3>. QED
      BY <3>1, Least
  <2>2. x # 0
    <3>1. [k \in 0 .. 0 |-> 0] \in SumsTo(0, lines)
      BY DEF SumsTo
    <3>. QED
      BY <3>1
  <2>3. x - 1 \in 0 .. Len(lines) /\ x \in 1 .. Len(lines)
    BY <1>1, <2>2
  <2>4. PICK f : f \in SumsTo(x - 1, lines)
    BY <2>1, <2>3
  <2>. DEFINE g == [k \in 0 .. x |-> IF k = x THEN f[x - 1] + lines[x].length ELSE f[k]]
  <2>5. f \in [0 .. x - 1 -> Nat] /\ f[0] = 0 /\ \A k \in 1 .. x - 1 : f[k] = f[k - 1] + lines[k].length
    BY <2>4 DEF SumsTo
  <2>6. f[x - 1] + lines[x].length \in Nat
    BY <1>1, <2>3, <2>5
  <2>7. g \in [0 .. x -> Nat] /\ g[0] = 0
    BY <2>3, <2>5, <2>6
  <2>8. ASSUME NEW k \in 1 .. x PROVE g[k] = g[k - 1] + lines[k].length
    BY <2>3, <2>5
  <2>9. g \in SumsTo(x, lines)
    <3>. HIDE DEF g
    <3>. QED
      BY <2>7, <2>8 DEF SumsTo
  <2>. QED
    BY <2>9
<1>3. PICK f : f \in SumsTo(Len(lines), lines)
  BY <1>1, <1>2
<1>4. f \in [0 .. Len(lines) -> Nat] /\ f[0] = 0 /\ \A k \in 1 .. Len(lines) : f[k] = f[k - 1] + lines[k].length
  BY <1>3 DEF SumsTo
<1>5. IsSum(f, lines)
  BY <1>1, <1>4 DEF IsSum
<1>. QED
  BY <1>4, <1>5

LEMMA SumSteps ==
  ASSUME NEW lines \in Seq(Entry), NEW f, IsSum(f, lines)
  PROVE  f[0] = 0 /\ \A n \in 1 .. Len(lines) : f[n] = f[n - 1] + lines[n].length
<1>. Len(lines) \in Nat
  OBVIOUS
<1>. QED
  BY DEF IsSum

(* ... and one only. *)
LEMMA SumUnique ==
  ASSUME NEW lines \in Seq(Entry), NEW f, NEW g, IsSum(f, lines), IsSum(g, lines)
  PROVE  f = g
<1>. DEFINE T == {n \in 0 .. Len(lines) : f[n] # g[n]}
<1>1. Len(lines) \in Nat
  OBVIOUS
<1>2. /\ f[0] = 0 /\ \A k \in 1 .. Len(lines) : f[k] = f[k - 1] + lines[k].length
      /\ g[0] = 0 /\ \A k \in 1 .. Len(lines) : g[k] = g[k - 1] + lines[k].length
  BY SumSteps
<1>3. T = {}
  <2>. SUFFICES ASSUME T # {} PROVE FALSE
    OBVIOUS
  <2>1. PICK x \in T : \A y \in T : x <= y
    <3>1. T \in SUBSET Nat
      BY <1>1
    <3>. HIDE DEF T
    <3>. QED
      BY <3>1, Least
  <2>2. x \in 1 .. Len(lines) /\ x - 1 \in 0 .. Len(lines) /\ x - 1 \notin T
    BY <1>1, <1>2, <2>1
  <2>. QED
    BY <1>2, <2>1, <2>2
<1>4. \A n \in 0 .. Len(lines) : f[n] = g[n]
  BY <1>3
<1>5. f = [n \in 0 .. Len(lines) |-> f[n]] /\ g = [n \in 0 .. Len(lines) |-> g[n]]
  BY DEF IsSum
<1>. QED
  BY <1>4, <1>5

LEMMA SumIs ==
  ASSUME listed \in Seq(Entry), NEW f, IsSum(f, listed)
  PROVE  FramesListed = f[Len(listed)] /\ FramesListed \in Nat
<1>1. FramesListed = (CHOOSE g : IsSum(g, listed))[Len(listed)]
  BY Zenon DEF FramesListed, IsSum
<1>2. (CHOOSE g : IsSum(g, listed)) = f
  <2>1. IsSum(CHOOSE g : IsSum(g, listed), listed)
    BY Zenon
  <2>. QED
    BY <2>1, SumUnique
<1>3. PICK h \in [0 .. Len(listed) -> Nat] : IsSum(h, listed)
  BY SumExists
<1>4. h = f
  BY <1>3, SumUnique
<1>5. Len(listed) \in 0 .. Len(listed)
  OBVIOUS
<1>6. f[Len(listed)] \in Nat
  BY <1>3, <1>4, <1>5
<1>. QED
  BY <1>1, <1>2, <1>6

(* A line more is its frames more. *)
LEMMA FramesAppended ==
  ASSUME listed \in Seq(Entry), NEW e \in Entry, listed' = Append(listed, e)
  PROVE  FramesListed \in Nat /\ FramesListed' = FramesListed + e.length
<1>1. /\ Len(listed) \in Nat /\ listed' \in Seq(Entry) /\ Len(listed') = Len(listed) + 1
      /\ \A n \in 1 .. Len(listed) : listed'[n] = listed[n]
      /\ listed'[Len(listed) + 1] = e
  OBVIOUS
<1>2. PICK f \in [0 .. Len(listed') -> Nat] : IsSum(f, listed')
  BY <1>1, SumExists
<1>3. f[0] = 0 /\ \A n \in 1 .. Len(listed') : f[n] = f[n - 1] + listed'[n].length
  BY <1>1, <1>2, SumSteps
<1>. DEFINE g == [n \in 0 .. Len(listed) |-> f[n]]
<1>4. IsSum(g, listed)
  BY <1>1, <1>3 DEF IsSum
<1>5. g[Len(listed)] = f[Len(listed)] /\ f[Len(listed')] = f[Len(listed)] + e.length
  BY <1>1, <1>3
<1>. HIDE DEF g
<1>6. FramesListed = g[Len(listed)] /\ FramesListed \in Nat
  BY <1>4, SumIs
<1>7. FramesListed' = f[Len(listed')]
  <2>1. FramesListed' = (CHOOSE h : IsSum(h, listed'))[Len(listed')]
    BY Zenon DEF FramesListed, IsSum
  <2>2. IsSum(CHOOSE h : IsSum(h, listed'), listed')
    BY Zenon, <1>2
  <2>. QED
    BY <1>1, <1>2, <2>1, <2>2, SumUnique
<1>. QED
  BY <1>5, <1>6, <1>7

(***************************************************************************)
(* What the converter lists and counts.                                    *)
(***************************************************************************)
ListTypes == listed \in Seq(Entry) /\ info \in [made : BOOLEAN, episodes : Int, frames : Int]

(* The step that lists an episode knows its rows from the step that closed its file, and
   that it is not listed from the file that was not readable before. *)
Converted ==
  /\ Distinct /\ \A n \in Lines : Backed(n)
  /\ converter \in {"read", "rows"} => ~Readable(index)
  /\ converter \in {"images", "info", "entry"} =>
       Readable(index) /\ parquet[index].rows = rows_aligned /\ Unlisted(index)

Tallied ==
  ~unsettled =>
    IF converter \in {"stats", "count"}
      THEN info.episodes = Len(listed) - 1 /\ info.frames = FramesListed - rows_aligned
      ELSE info.episodes = Len(listed) /\ info.frames = FramesListed

Recorded == ListTypes /\ Converted /\ Tallied

LEMMA RecordedInit == DatasetInit /\ ConverterInit => Recorded
<1>. SUFFICES ASSUME DatasetInit, ConverterInit PROVE Recorded
  OBVIOUS
<1>1. listed = << >> /\ Len(listed) = 0 /\ listed \in Seq(Entry) /\ Lines = {}
  BY DEF DatasetInit, Lines
<1>2. info \in [made : BOOLEAN, episodes : Int, frames : Int] /\ info.episodes = 0 /\ info.frames = 0
  BY DEF DatasetInit, NoInfo
<1>3. FramesListed = 0
  <2>. DEFINE f == [n \in 0 .. 0 |-> 0]
  <2>1. IsSum(f, listed)
    BY <1>1 DEF IsSum
  <2>2. f[Len(listed)] = 0
    BY <1>1
  <2>. HIDE DEF f
  <2>. QED
    BY <1>1, <2>1, <2>2, SumIs
<1>. QED
  BY <1>1, <1>2, <1>3 DEF Recorded, ListTypes, Converted, Tallied, Distinct, Unlisted, ConverterInit

(* A step that lists and counts nothing and closes no file. *)
LEMMA RecordedStays ==
  ASSUME Recorded, UNCHANGED <<parquet, listed>>,
         info' = info \/ info' = [info EXCEPT !.made = TRUE],
         \/ UNCHANGED <<converter, place, files, length>>
         \/ converter' \in {"off", "next"}
         \/ /\ converter \in {"images", "info"} /\ converter' \in {"info", "entry"}
            /\ UNCHANGED <<place, files, length>>
         \/ /\ converter = "stats" /\ converter' = "count"
            /\ UNCHANGED <<place, files, length>>,
         \/ unsettled'
         \/ /\ ~unsettled' => ~unsettled
            /\ converter \in {"stats", "count"} => converter' \in {"stats", "count"}
  PROVE  Recorded'
<1>1. ListTypes' /\ info'.episodes = info.episodes /\ info'.frames = info.frames
  BY DEF Recorded, ListTypes
<1>2. FramesListed' = FramesListed /\ Lines' = Lines
  BY DEF FramesListed, Lines
<1>3. Distinct' /\ \A n \in Lines' : Backed(n)'
  BY <1>2 DEF Recorded, Converted, Distinct, Backed, Readable
<1>4. Converted'
  BY <1>2, <1>3 DEF Recorded, Converted, Readable, Unlisted, index, rows_aligned
<1>5. Tallied'
  BY <1>1, <1>2 DEF Recorded, Tallied, rows_aligned
<1>. QED
  BY <1>1, <1>4, <1>5 DEF Recorded

(* The data file at the converter's place is none of the listed ones until it is listed. *)
LEMMA RecordedElsewhere ==
  ASSUME Recorded, parquet \in [Indices -> File], index \in Indices, ~Readable(index),
         UNCHANGED <<listed, info, length, files, unsettled>>,
         converter \in {"next", "read", "rows"},
         NEW f \in File, parquet' = [parquet EXCEPT ![index] = f],
         \/ converter' = "next"
         \/ converter' \in {"read", "rows"} /\ place' = place /\ f.state # "whole"
         \/ converter' = "images" /\ place' = place /\ f.state = "whole" /\ f.rows = rows_aligned
  PROVE  Recorded'
<1>1. Lines' = Lines /\ FramesListed' = FramesListed /\ ListTypes'
  BY DEF FramesListed, Lines, Recorded, ListTypes
<1>2. parquet'[index] = f /\ \A i \in Indices : i # index => parquet'[i] = parquet[i]
  OBVIOUS
<1>3. \A n \in Lines : listed[n].episode \in Indices /\ Backed(n) /\ listed[n].episode # index
  <2>1. \A n \in Lines : listed[n] \in Entry
    BY DEF Recorded, ListTypes, Lines
  <2>. QED
    BY <2>1 DEF Recorded, Converted, Backed, Entry
<1>4. Distinct' /\ \A n \in Lines' : Backed(n)'
  BY <1>1, <1>2, <1>3 DEF Recorded, Converted, Distinct, Backed, Readable
<1>5. place' = place => index' = index /\ rows_aligned' = rows_aligned
  BY DEF index, rows_aligned
<1>6. Converted'
  BY <1>1, <1>2, <1>3, <1>4, <1>5 DEF Converted, Readable, Unlisted
<1>7. Tallied'
  BY <1>1 DEF Recorded, Tallied
<1>. QED
  BY <1>1, <1>6, <1>7 DEF Recorded

LEMMA EnterRecords == ASSUME Inv, Recorded, Enter, converter' = "stats" PROVE Recorded'
<1>1. /\ converter = "entry" /\ AppendEntry(index, rows_aligned)
      /\ UNCHANGED <<parquet, info, length, files, place, unsettled>>
  BY DEF Enter, Moves, GiveUp, run, converterPast
<1>2. index \in Indices /\ place <= Len(files)
  BY <1>1, IndexInRange DEF Inv, ConverterTypeOK
<1>3. rows_aligned \in Nat
  BY <1>2, IndexInRange, ConverterAssumption DEF Inv, ConverterTypeOK, rows_aligned
<1>. DEFINE e == [episode |-> index, length |-> rows_aligned]
<1>4. e \in Entry /\ e.episode = index /\ e.length = rows_aligned /\ listed' = Append(listed, e)
  BY <1>1, <1>2, <1>3 DEF Entry, AppendEntry
<1>. HIDE DEF e
<1>5. listed \in Seq(Entry)
  BY DEF Recorded, ListTypes
<1>6. FramesListed \in Nat /\ FramesListed' = FramesListed + rows_aligned
  BY <1>4, <1>5, FramesAppended
<1>7. /\ Len(listed) \in Nat /\ Len(listed') = Len(listed) + 1 /\ listed' \in Seq(Entry)
      /\ \A n \in 1 .. Len(listed) : listed'[n] = listed[n]
      /\ listed'[Len(listed) + 1] = e
  BY <1>4, <1>5
<1>8. index' = index /\ rows_aligned' = rows_aligned
  BY <1>1 DEF index, rows_aligned
<1>9. Readable(index) /\ parquet[index].rows = rows_aligned /\ Unlisted(index)
  BY <1>1 DEF Recorded, Converted
<1>10. Distinct'
  <2>1. ASSUME NEW m \in Lines', NEW n \in Lines', m # n PROVE listed'[m].episode # listed'[n].episode
    BY <1>4, <1>7, <1>9, <2>1 DEF Recorded, Converted, Distinct, Unlisted, Lines
  <2>. QED
    BY <2>1 DEF Distinct
<1>11. \A n \in Lines' : Backed(n)'
  BY <1>1, <1>4, <1>7, <1>9 DEF Recorded, Converted, Backed, Readable, Lines
<1>12. Tallied'
  <2>. SUFFICES ASSUME ~unsettled
                PROVE info'.episodes = Len(listed') - 1 /\ info'.frames = FramesListed' - rows_aligned'
    BY <1>1 DEF Tallied
  <2>1. info.episodes = Len(listed) /\ info.frames = FramesListed
    BY <1>1 DEF Recorded, Tallied
  <2>. QED
    BY <1>1, <1>3, <1>6, <1>7, <1>8, <2>1
<1>. QED
  BY <1>1, <1>7, <1>10, <1>11, <1>12 DEF Recorded, ListTypes, Converted

LEMMA CountRecords ==
  ASSUME Inv, Recorded, converter = "count", converter' = "next", info' = UpdateInfo(rows_aligned),
         UNCHANGED <<parquet, listed, unsettled>>
  PROVE  Recorded'
<1>1. rows_aligned \in Nat
  BY IndexInRange, ConverterAssumption DEF Inv, ConverterTypeOK, rows_aligned, AfterCommit
<1>2. /\ ListTypes' /\ info'.episodes = info.episodes + 1 /\ info'.frames = info.frames + rows_aligned
      /\ info.episodes \in Int /\ info.frames \in Int
  <2>1. info \in [made : BOOLEAN, episodes : Int, frames : Int] /\ listed \in Seq(Entry)
    BY DEF Recorded, ListTypes
  <2>2. info' = [made |-> info.made, episodes |-> info.episodes + 1, frames |-> info.frames + rows_aligned]
    BY <1>1, <2>1 DEF UpdateInfo
  <2>. QED
    BY <1>1, <2>1, <2>2 DEF ListTypes
<1>3. FramesListed' = FramesListed /\ Lines' = Lines
  BY DEF FramesListed, Lines
<1>4. Converted'
  <2>1. Distinct' /\ \A n \in Lines' : Backed(n)'
    BY <1>3 DEF Recorded, Converted, Distinct, Backed, Readable
  <2>. QED
    BY <2>1 DEF Converted
<1>5. Tallied'
  <2>. SUFFICES ASSUME ~unsettled PROVE info'.episodes = Len(listed') /\ info'.frames = FramesListed'
    BY DEF Tallied
  <2>1. info.episodes = Len(listed) - 1 /\ info.frames = FramesListed - rows_aligned
    BY DEF Recorded, Tallied
  <2>2. Len(listed) \in Nat /\ FramesListed \in Nat
    <3>1. listed \in Seq(Entry)
      BY DEF Recorded, ListTypes
    <3>2. PICK f \in [0 .. Len(listed) -> Nat] : IsSum(f, listed)
      BY <3>1, SumExists
    <3>. QED
      BY <3>1, <3>2, SumIs
  <2>. QED
    BY <1>1, <1>2, <1>3, <2>1, <2>2
<1>. QED
  BY <1>2, <1>4, <1>5 DEF Recorded

LEMMA CommitRecords == ASSUME Inv, Recorded, Commit PROVE Recorded'
<1>1. converter = "rows" /\ ~Readable(index)
  BY DEF Commit, Moves, Recorded, Converted
<1>2. place <= Len(files) /\ offset \in Nat /\ parquet \in [Indices -> File]
  BY <1>1 DEF Inv, ConverterTypeOK
<1>3. index \in Indices /\ files[place] \in Recordings
  BY <1>2, IndexInRange DEF Inv
<1>4. rows_aligned \in Nat /\ files[place] \in Nat
  BY <1>3, ConverterAssumption DEF Inv, ConverterTypeOK, rows_aligned, Recordings, Undated
<1>5. CASE Moves("rows", "images") /\ rows_aligned > 0
           /\ parquet' = [parquet EXCEPT ![index] = Whole(rows_aligned, offset, files[place])]
           /\ UNCHANGED <<folder, length, files, place, converterPast, meta, streams>>
  <2>. DEFINE f == Whole(rows_aligned, offset, files[place])
  <2>1. f \in File /\ f.state = "whole" /\ f.rows = rows_aligned /\ parquet' = [parquet EXCEPT ![index] = f]
    BY <1>2, <1>4, <1>5 DEF Whole, File
  <2>2. UNCHANGED <<listed, info, length, files, unsettled, place>> /\ converter' = "images"
    BY <1>5 DEF meta, converterPast, Moves
  <2>. HIDE DEF f
  <2>. QED
    BY <1>1, <1>2, <1>3, <2>1, <2>2, RecordedElsewhere
<1>6. CASE Moves("rows", "next")
           /\ parquet' = [parquet EXCEPT ![index] = Whole(0, offset, files[place])]
           /\ UNCHANGED <<folder, length, files, offset, converterPast, meta, streams>>
  <2>. DEFINE f == Whole(0, offset, files[place])
  <2>1. f \in File /\ parquet' = [parquet EXCEPT ![index] = f]
    BY <1>2, <1>4, <1>6 DEF Whole, File
  <2>2. UNCHANGED <<listed, info, length, files, unsettled>> /\ converter' = "next"
    BY <1>6 DEF meta, converterPast, Moves
  <2>. HIDE DEF f
  <2>. QED
    BY <1>1, <1>2, <1>3, <2>1, <2>2, RecordedElsewhere
<1>7. CASE converter = "rows" /\ GiveUp /\ UNCHANGED <<unsettled, meta, streams>>
           /\ \E file \in {Partial} \union {Whole(n, offset, files[place]) : n \in 0 .. rows_aligned} :
                parquet' = [parquet EXCEPT ![index] = file]
  <2>1. PICK f \in {Partial} \union {Whole(n, offset, files[place]) : n \in 0 .. rows_aligned} :
             parquet' = [parquet EXCEPT ![index] = f]
    BY <1>7
  <2>2. f \in File
    BY <1>2, LeftIsFile
  <2>3. UNCHANGED <<listed, info, length, files, unsettled>> /\ converter' = "next"
    BY <1>7 DEF meta, GiveUp
  <2>. QED
    BY <1>1, <1>2, <1>3, <2>1, <2>2, <2>3, RecordedElsewhere
<1>. QED
  BY <1>5, <1>6, <1>7 DEF Commit

LEMMA OpenRecords ==
  ASSUME Inv, Recorded, Begin \/ (Create /\ converter' = "rows")
  PROVE  Recorded'
<1>1. /\ converter \in {"next", "read"} /\ converter' \in {"read", "rows"} /\ ~Readable(index)
      /\ place <= Len(files)
      /\ UNCHANGED <<listed, info, length, files, place, unsettled>>
      /\ \E f \in {NoFile, Partial} : parquet' = [parquet EXCEPT ![index] = f]
  BY DEF Begin, Create, NotRead, GiveUp, Moves, meta, run, converterPast, Recorded, Converted, Inv, ConverterTypeOK
<1>2. PICK f \in {NoFile, Partial} : parquet' = [parquet EXCEPT ![index] = f]
  BY <1>1
<1>3. f \in File /\ f.state # "whole"
  BY DEF NoFile, Partial, File
<1>4. index \in Indices /\ parquet \in [Indices -> File]
  BY <1>1, IndexInRange DEF Inv, ConverterTypeOK
<1>. QED
  BY <1>1, <1>2, <1>3, <1>4, RecordedElsewhere

LEMMA RecordedStep == ASSUME Inv, Recorded, [ConverterNext]_<<dataset, converterVars>> PROVE Recorded'
<1>1. CASE Record \/ UNCHANGED <<dataset, converterVars>>
  <2>1. UNCHANGED <<parquet, listed, info, converter, place, files, length, unsettled>>
    BY <1>1 DEF Record, dataset, run, converterVars, converterPast
  <2>. QED
    BY <2>1, RecordedStays
<1>2. CASE Run \/ Skip \/ Rewrite
  <2>1. /\ UNCHANGED <<parquet, listed, info, unsettled>> /\ converter' \in {"off", "next"}
        /\ converter \in {"off", "next"}
    BY <1>2 DEF Run, Skip, Rewrite, dataset, converterPast
  <2>. QED
    BY <2>1, RecordedStays
<1>3. CASE Stop
  <2>1. /\ UNCHANGED <<parquet, listed, info>> /\ converter' = "off"
        /\ unsettled' = (unsettled \/ converter \in {"stats", "count"})
    BY <1>3 DEF Stop, dataset
  <2>. QED
    BY <2>1, RecordedStays
<1>4. CASE Begin
  BY <1>4, OpenRecords
<1>5. CASE Create
  <2>1. CASE NotRead
    BY <2>1, RecordedStays DEF NotRead, GiveUp, dataset
  <2>. QED
    BY <1>5, <2>1, OpenRecords DEF Create, Moves
<1>6. CASE Commit
  BY <1>6, CommitRecords
<1>7. CASE Extract \/ Prepare
  <2>1. /\ UNCHANGED <<parquet, listed, length, files>> /\ converter \in {"images", "info"}
        /\ info' = info \/ info' = [info EXCEPT !.made = TRUE]
        /\ \/ converter' \in {"info", "entry"} /\ UNCHANGED <<place, unsettled>>
           \/ converter' = "next" /\ UNCHANGED unsettled
    BY <1>7 DEF Extract, Prepare, Moves, GiveUp, CreateInfo, dataset, meta, run, converterPast
  <2>. QED
    BY <2>1, RecordedStays
<1>8. CASE Enter
  <2>1. CASE converter = "entry" /\ GiveUp /\ UNCHANGED <<failed, unsettled, dataset>>
    BY <2>1, RecordedStays DEF GiveUp, dataset
  <2>. QED
    BY <1>8, <2>1, EnterRecords DEF Enter, Moves
<1>9. CASE EnterStats
  <2>1. CASE converter = "stats" /\ GiveUp /\ unsettled' = TRUE /\ UNCHANGED <<failed, dataset>>
    BY <2>1, RecordedStays DEF GiveUp, dataset
  <2>2. CASE Moves("stats", "count") /\ UNCHANGED <<folder, length, run, converterPast, parquet, listed, tasks, info, streams>>
    BY <2>2, RecordedStays DEF Moves, run, converterPast
  <2>. QED
    BY <1>9, <2>1, <2>2 DEF EnterStats
<1>10. CASE Count
  <2>1. CASE converter = "count" /\ GiveUp /\ unsettled' = TRUE /\ UNCHANGED <<failed, dataset>>
    BY <2>1, RecordedStays DEF GiveUp, dataset
  <2>2. CASE Moves("count", "next") /\ info' = UpdateInfo(rows_aligned)
             /\ UNCHANGED <<folder, length, files, offset, converterPast, parquet, listed, stats, tasks, streams>>
    BY <2>2, CountRecords DEF Moves, converterPast
  <2>. QED
    BY <1>10, <2>1, <2>2 DEF Count
<1>. QED
  BY <1>1, <1>2, <1>3, <1>4, <1>5, <1>6, <1>7, <1>8, <1>9, <1>10 DEF ConverterNext, Process

(***************************************************************************)
(* The index of a recording.                                               *)
(***************************************************************************)

(* The recordings have their numbers from the start, or there is the undated one alone. *)
UndatedAlone ==
  /\ folder = {Undated} /\ Len(files) <= 1
  /\ \A n \in 1 .. Len(files) : files[n] = Undated
  /\ \A i \in Indices : Readable(i) => i = 0 /\ parquet[i].of = Undated

InOrder(k) ==
  /\ folder = 1 .. k
  /\ \A n \in 1 .. Len(files) : files[n] = n /\ n <= k
  /\ \A i \in Indices : Readable(i) => parquet[i].of = i + 1 /\ i + 1 <= k

Numbering == ~displaced => UndatedAlone \/ \E k \in 0 .. Dated : InOrder(k)

LEMMA NumberingInit == DatasetInit /\ ConverterInit => Numbering
<1>. SUFFICES ASSUME DatasetInit, ConverterInit PROVE Numbering
  OBVIOUS
<1>1. files = << >> /\ Len(files) = 0 /\ 1 .. Len(files) = {} /\ \A i \in Indices : ~Readable(i)
  BY DEF DatasetInit, ConverterInit, NoFile, Readable
<1>2. CASE folder = {}
  <2>1. 0 \in 0 .. Dated /\ 1 .. 0 = {}
    BY ConverterAssumption
  <2>2. InOrder(0)
    BY <1>1, <1>2, <2>1 DEF InOrder
  <2>. QED
    BY <2>1, <2>2 DEF Numbering
<1>3. CASE folder = {Undated}
  BY <1>1, <1>3 DEF Numbering, UndatedAlone
<1>. QED
  BY <1>2, <1>3 DEF ConverterInit

(* An increasing sequence of as many of the numbers 1 .. k as there are is theirs. *)
LEMMA OrderIsCounting ==
  ASSUME NEW k \in Nat, NEW order \in [1 .. k -> 1 .. k], \A i, j \in 1 .. k : i < j => order[i] < order[j]
  PROVE  \A n \in 1 .. k : order[n] = n
<1>1. \A n \in 1 .. k : order[n] \in 1 .. k
  OBVIOUS
<1>2. \A n \in 1 .. k : order[n] >= n
  <2>. DEFINE T == {n \in 1 .. k : order[n] < n}
  <2>. SUFFICES ASSUME T # {} PROVE FALSE
    BY <1>1
  <2>1. PICK x \in T : \A y \in T : x <= y
    <3>1. T \in SUBSET Nat
      OBVIOUS
    <3>. HIDE DEF T
    <3>. QED
      BY <3>1, Least
  <2>2. x \in 1 .. k /\ x - 1 \in 1 .. k /\ x - 1 \notin T
    BY <1>1, <2>1
  <2>. QED
    BY <1>1, <2>1, <2>2
<1>3. \A n \in 1 .. k : order[n] <= n
  <2>. DEFINE T == {d \in 0 .. k - 1 : order[k - d] > k - d}
  <2>. SUFFICES ASSUME T # {} PROVE FALSE
    <3>1. ASSUME T = {}, NEW n \in 1 .. k PROVE order[n] <= n
      <4>1. k - n \in 0 .. k - 1 /\ k - (k - n) = n
        OBVIOUS
      <4>2. ~(order[n] > n)
        BY <3>1, <4>1
      <4>. QED
        BY <1>1, <4>2
    <3>. QED
      BY <3>1
  <2>1. PICK x \in T : \A y \in T : x <= y
    <3>1. T \in SUBSET Nat
      OBVIOUS
    <3>. HIDE DEF T
    <3>. QED
      BY <3>1, Least
  <2>2. k - x \in 1 .. k /\ order[k - x] > k - x
    BY <2>1
  <2>3. x # 0
    BY <1>1, <2>2
  <2>4. x - 1 \in 0 .. k - 1 /\ k - (x - 1) \in 1 .. k /\ k - x < k - (x - 1) /\ ~(x <= x - 1)
    BY <2>1, <2>3
  <2>6. x - 1 \notin T
    <3>. HIDE DEF T
    <3>. QED
      BY <2>1, <2>4
  <2>5. order[k - (x - 1)] <= k - (x - 1) /\ order[k - x] < order[k - (x - 1)]
    BY <1>1, <2>2, <2>4, <2>6
  <2>. QED
    BY <1>1, <2>2, <2>4, <2>5
<1>. QED
  BY <1>1, <1>2, <1>3

LEMMA NumberingRun == ASSUME Numbering, Run PROVE Numbering'
<1>. SUFFICES ASSUME ~displaced PROVE UndatedAlone' \/ \E k \in 0 .. Dated : InOrder(k)'
  BY DEF Run, Numbering
<1>1. /\ UNCHANGED <<parquet, folder>> /\ ByStartTime(files')
      /\ files' \in [1 .. Cardinality(folder) -> folder]
  BY DEF Run, dataset
<1>2. CASE UndatedAlone
  <2>1. Cardinality(folder) = 1
    BY <1>2, FS_Singleton DEF UndatedAlone
  <2>2. files' \in [1 .. 1 -> {Undated}]
    BY <1>1, <1>2, <2>1 DEF UndatedAlone
  <2>3. Len(files') = 1 /\ \A n \in 1 .. 1 : files'[n] = Undated
    BY <2>2
  <2>. QED
    BY <1>1, <1>2, <2>3 DEF UndatedAlone, Readable
<1>3. ASSUME NEW k \in 0 .. Dated, InOrder(k) PROVE InOrder(k)'
  <2>1. k \in Nat /\ Cardinality(folder) = k
    BY <1>3, FS_Interval, ConverterAssumption DEF InOrder
  <2>2. files' \in [1 .. k -> 1 .. k]
    BY <1>1, <1>3, <2>1 DEF InOrder
  <2>3. Len(files') = k /\ DOMAIN files' = 1 .. k
    BY <2>1, <2>2
  <2>4. \A n \in 1 .. k : files'[n] = n
    BY <1>1, <2>1, <2>2, <2>3, OrderIsCounting DEF ByStartTime
  <2>. QED
    BY <1>1, <1>3, <2>1, <2>3, <2>4 DEF InOrder, Readable
<1>. QED
  BY <1>2, <1>3 DEF Numbering

LEMMA NumberingRecord == ASSUME Numbering, Record PROVE Numbering'
<1>. SUFFICES ASSUME ~displaced', ~displaced, Undated \notin folder
              PROVE \E k \in 0 .. Dated : InOrder(k)'
  BY DEF Record, Numbering
<1>1. PICK k \in 0 .. Dated : InOrder(k)
  BY DEF Numbering, UndatedAlone
<1>2. PICK r \in 1 .. Dated :
        r \notin folder /\ (\A q \in 1 .. r - 1 : q \in folder) /\ folder' = folder \union {r}
  BY DEF Record
<1>3. r = k + 1
  <2>1. r > k
    BY <1>1, <1>2, ConverterAssumption DEF InOrder
  <2>2. r - 1 <= k
    <3>1. CASE r = 1
      BY <1>1, <3>1
    <3>2. CASE r # 1
      <4>1. r - 1 \in folder
        BY <1>2, <3>2
      <4>. QED
        BY <1>1, <4>1 DEF InOrder
    <3>. QED
      BY <3>1, <3>2
  <2>. QED
    BY <1>2, <2>1, <2>2
<1>4. folder' = 1 .. k + 1
  BY <1>1, <1>2, <1>3 DEF InOrder
<1>5. UNCHANGED <<parquet, files>>
  BY DEF Record, dataset, run
<1>6. k + 1 \in 0 .. Dated
  BY <1>2, <1>3
<1>7. InOrder(k + 1)'
  <2>1. \A n \in 1 .. Len(files) : n <= k + 1 /\ files[n] = n
    BY <1>1 DEF InOrder
  <2>2. \A i \in Indices : Readable(i) => parquet[i].of = i + 1 /\ i + 1 <= k + 1
    BY <1>1, DatasetAssumption DEF InOrder, Indices
  <2>. QED
    BY <1>4, <1>5, <2>1, <2>2 DEF InOrder, Readable
<1>. QED
  BY <1>6, <1>7

(* A data file is made of the recording at the converter's place. *)
LEMMA NumberingFile ==
  ASSUME Numbering, ConverterTypeOK, place <= Len(files), UNCHANGED <<folder, files, displaced>>,
         NEW f, parquet' = [parquet EXCEPT ![index] = f],
         f.state = "whole" => f.of = files[place]
  PROVE  Numbering'
<1>1. index \in Indices /\ index + 1 = place /\ place \in 1 .. Len(files)
  BY IndexInRange DEF ConverterTypeOK, index
<1>2. parquet'[index] = f /\ \A i \in Indices : i # index => parquet'[i] = parquet[i]
  BY <1>1 DEF ConverterTypeOK
<1>3. CASE UndatedAlone
  <2>1. index = 0 /\ files[place] = Undated
    <3>1. Len(files) \in Nat /\ Len(files) <= 1 /\ place \in Nat \ {0}
      BY <1>3 DEF UndatedAlone, ConverterTypeOK
    <3>2. place = 1
      BY <3>1
    <3>. QED
      BY <1>1, <1>3, <3>2 DEF UndatedAlone, index
  <2>. QED
    BY <1>2, <1>3, <2>1 DEF Numbering, UndatedAlone, Readable
<1>4. ASSUME NEW k \in 0 .. Dated, InOrder(k) PROVE InOrder(k)'
  <2>1. files[place] = index + 1 /\ index + 1 <= k
    BY <1>1, <1>4 DEF InOrder
  <2>. QED
    BY <1>2, <1>4, <2>1 DEF InOrder, Readable
<1>. QED
  BY <1>3, <1>4 DEF Numbering

LEMMA NumberingStays ==
  ASSUME Numbering, UNCHANGED <<parquet, folder, displaced>>, files' = files \/ files' = << >>
  PROVE  Numbering'
BY DEF Numbering, UndatedAlone, InOrder, Readable

LEMMA NumberingStep == ASSUME Inv, Numbering, [ConverterNext]_<<dataset, converterVars>> PROVE Numbering'
<1>1. CASE Run
  BY <1>1, NumberingRun
<1>2. CASE Record
  BY <1>2, NumberingRecord
<1>3. CASE Begin
  BY <1>3, NumberingFile DEF Inv, Begin, NoFile, run, converterPast
<1>4. CASE Create
  <2>1. CASE NotRead
    BY <2>1, NumberingStays DEF NotRead, GiveUp, dataset
  <2>2. CASE Moves("read", "rows") /\ parquet' = [parquet EXCEPT ![index] = Partial]
             /\ UNCHANGED <<folder, length, run, converterPast, meta, streams>>
    <3>1. Partial.state # "whole"
      BY DEF Partial, NoFile
    <3>2. place <= Len(files)
      BY <2>2 DEF Inv, ConverterTypeOK, Moves
    <3>. QED
      BY <2>2, <3>1, <3>2, NumberingFile DEF Inv, run, converterPast
  <2>. QED
    BY <1>4, <2>1, <2>2 DEF Create
<1>5. CASE Commit
  <2>1. place <= Len(files) /\ UNCHANGED <<folder, files, displaced>>
    BY <1>5 DEF Commit, Moves, GiveUp, converterPast, Inv, ConverterTypeOK
  <2>2. rows_aligned \in Nat
    BY <2>1, IndexInRange, ConverterAssumption DEF Inv, ConverterTypeOK, rows_aligned
  <2>3. \E f \in {Partial} \union {Whole(n, offset, files[place]) : n \in 0 .. rows_aligned} :
             parquet' = [parquet EXCEPT ![index] = f]
    BY <1>5, <2>2 DEF Commit
  <2>4. PICK f : parquet' = [parquet EXCEPT ![index] = f] /\ (f.state = "whole" => f.of = files[place])
    BY <2>1, <2>3, LeftIsFile
  <2>. QED
    BY <2>1, <2>4, NumberingFile DEF Inv
<1>6. CASE Skip \/ Extract \/ Prepare \/ Enter \/ EnterStats \/ Count \/ Rewrite \/ Stop
           \/ UNCHANGED <<dataset, converterVars>>
  <2>1. UNCHANGED <<parquet, folder, displaced>> /\ (files' = files \/ files' = << >>)
    BY <1>6 DEF Skip, Extract, Prepare, Enter, EnterStats, Count, Rewrite, Stop, GiveUp, dataset, meta, run,
       converterVars, converterPast
  <2>. QED
    BY <2>1, NumberingStays
<1>. QED
  BY <1>1, <1>2, <1>3, <1>4, <1>5, <1>6 DEF ConverterNext, Process

(* As many recordings come before the one an episode is made of as its index says. *)
LEMMA NumberingMeans ==
  ASSUME Numbering, ~displaced, NEW i \in Indices, Readable(i)
  PROVE  /\ parquet[i].of \in folder
         /\ Cardinality({earlier \in folder : earlier < parquet[i].of}) = i
<1>1. CASE UndatedAlone
  <2>1. i = 0 /\ parquet[i].of = Undated /\ folder = {Undated}
    BY <1>1 DEF UndatedAlone
  <2>2. {earlier \in folder : earlier < parquet[i].of} = {}
    BY <2>1, ConverterAssumption DEF Undated
  <2>. QED
    BY <2>1, <2>2, FS_EmptySet
<1>2. ASSUME NEW k \in 0 .. Dated, InOrder(k)
      PROVE  /\ parquet[i].of \in folder
             /\ Cardinality({earlier \in folder : earlier < parquet[i].of}) = i
  <2>1. parquet[i].of = i + 1 /\ i + 1 <= k /\ folder = 1 .. k /\ i \in Nat
    BY <1>2, DatasetAssumption DEF InOrder, Indices
  <2>2. {earlier \in folder : earlier < parquet[i].of} = 1 .. i
    BY <1>2, <2>1
  <2>3. Cardinality(1 .. i) = i
    BY <2>1, FS_Interval
  <2>. QED
    <3>1. i + 1 \in 1 .. k
      BY <1>2, <2>1, ConverterAssumption
    <3>. QED
      BY <2>1, <2>2, <2>3, <3>1
<1>. QED
  BY <1>1, <1>2 DEF Numbering
=============================================================================
