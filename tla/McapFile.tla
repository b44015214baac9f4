--------------------------------- MODULE McapFile ---------------------------------
(***************************************************************************)
(* What the MCAP backend puts into an episode's file                       *)
(* (backends/trossen_mcap/trossen_mcap_backend.cpp): a channel per stream, *)
(* made at its first record, and a message per record, or two when an      *)
(* image carries depth; stored as video, the camera frames go through a    *)
(* libavcodec encoder per stream (utils/video_encoder.cpp), whose packets  *)
(* refer to the one before within a group of pictures.                     *)
(*                                                                         *)
(* The backend's mutex is held over a batch; `batch` is what is left of it.*)
(***************************************************************************)
EXTENDS Integers, Sequences

CONSTANTS
  Gop,         \* video_keyframe_interval
  MaxRecords,  \* bound on the records written
  MaxFiles,    \* bound on the files made
  MaxMishaps   \* bound on the calls of a library that fail

ASSUME McapAssumption ==
  Gop \in Nat \ {0} /\ MaxRecords \in Nat /\ MaxFiles \in Nat /\ MaxMishaps \in Nat

VARIABLES
  storage,   \* cfg_->image_encoding
  requested, \* cfg_->video_encoder
  usable,    \* the encoders avcodec_open2 opens here, with what they are asked to make
  opened,    \* opened_
  path,      \* path_, files being numbered as they are made; 0 when empty
  channels,  \* keys of joint_channels_, odometry_2d_channels_ and image_channels_
  encoder,   \* video_encoders_
  disk,      \* the files of the dataset
  content,   \* per file and stream, the messages logged
  handed,    \* history: per file and stream, the stamps of the records written while open
  lost,      \* history: packets encoded and not logged
  batch,     \* the records of write_batch() left to write, each with its planes
  records,   \* records written so far, the stamp of the last
  files,     \* files made so far
  mishaps

mcapVars == <<storage, requested, usable, opened, path, channels, encoder, disk, content,
              handed, lost, batch, records, files, mishaps>>

Topics == {"arm", "base", "camera", "camera_depth", "range"}
Images == {"camera", "camera_depth", "range"}

(* The planes of a record: an image with depth goes to the channel of its id and to one
   beside it; the encoding of a depth camera's own frames says what they are. *)
Planes == {<<"arm">>, <<"base">>, <<"camera">>, <<"camera", "camera_depth">>, <<"range">>}

Depth(s) == s \in {"camera_depth", "range"}

(* H.264 for colour, 12-bit HEVC for depth: what the channel's metadata say. *)
Codec(s) == IF Depth(s) THEN "h265" ELSE "h264"

Families == <<"nvenc", "vaapi", "software">>

(* The candidates for a codec, hardware first; a name that is no alias is taken as it is,
   whatever the codec. *)
Candidates(codec) ==
  CASE requested = "auto" -> [k \in 1 .. Len(Families) |-> <<Families[k], codec>>]
    [] requested \in {"nvenc", "vaapi"} -> << <<requested, codec>> >>
    [] requested = "x264" -> << <<"software", codec>> >>
    [] requested = "libx265" -> << <<"software", "h265">> >>

Opens(candidate, codec) == <<candidate[1], candidate[2], codec>> \in usable

(* The first candidate that opens. *)
Chosen(codec) ==
  LET list == Candidates(codec)
  IN  {list[k] : k \in {n \in DOMAIN list : /\ Opens(list[n], codec)
                                           /\ \A m \in 1 .. n - 1 : ~Opens(list[m], codec)}}

(* Machines: with software encoders only, which make HEVC from colour as well; with an
   nvenc that knows no 12-bit grey; with none for colour, as for frames of an odd size. *)
Software == {<<"software", "h264", "h264">>, <<"software", "h265", "h265">>,
             <<"software", "h265", "h264">>}
Machines == {Software, Software \union {<<"nvenc", "h264", "h264">>},
             {<<"software", "h265", "h265">>}}

NoEncoder == [name |-> "none", bitstream |-> "none", of |-> 0, frames |-> 0]
NoEncoders == [s \in Images |-> NoEncoder]
NoMessages == [s \in Topics |-> << >>]
NoStamps == [s \in Topics |-> {}]

McapStart ==
  /\ opened = FALSE /\ path = 0 /\ channels = {} /\ encoder = NoEncoders
  /\ disk = {} /\ content = [f \in 1 .. MaxFiles |-> NoMessages]
  /\ handed = [f \in 1 .. MaxFiles |-> NoStamps] /\ lost = {}
  /\ batch = << >> /\ records = 0 /\ files = 0 /\ mishaps = 0

McapIdle == McapStart /\ storage = "raw" /\ requested = "auto" /\ usable = {}

McapInit ==
  /\ McapStart
  /\ \/ storage = "raw" /\ requested = "auto" /\ usable = {}
     \/ /\ storage = "video" /\ requested \in {"auto", "nvenc", "x264", "libx265"}
        /\ usable \in Machines

Mishap == mishaps < MaxMishaps /\ mishaps' = mishaps + 1

Free == batch = << >>

(***************************************************************************)
(* open(), close(), discard_episode()                                      *)
(***************************************************************************)
(* The path is taken before the writer is made: a failure leaves it behind. *)
OpenFile ==
  /\ Free /\ ~opened /\ files < MaxFiles
  /\ files' = files + 1 /\ path' = files'
  /\ \/ opened' = TRUE /\ disk' = disk \union {files'} /\ UNCHANGED mishaps
     \/ Mishap /\ UNCHANGED <<opened, disk>>
  /\ UNCHANGED <<storage, requested, usable, channels, encoder, content, handed, lost, batch, records>>

(* Faulty variant: the encoders live on into the next episode. *)
CloseKeepsEncoders ==
  /\ opened' = FALSE /\ channels' = {} /\ UNCHANGED encoder

CloseResources ==
  /\ opened' = FALSE /\ channels' = {}
  /\ encoder' = NoEncoders

Close ==
  /\ Free /\ opened /\ CloseResources
  /\ UNCHANGED <<storage, requested, usable, path, disk, content, handed, lost, batch, records, files, mishaps>>

(* The backend of the session before is destroyed, which closes it, and another is made. *)
Renew ==
  /\ Free /\ path # 0 /\ CloseResources /\ path' = 0
  /\ UNCHANGED <<storage, requested, usable, disk, content, handed, lost, batch, records, files, mishaps>>

Latest == {f \in disk : \A g \in disk : g <= f}

(* Its own file, or the latest of the folder when it never opened one. *)
Discard ==
  /\ Free /\ CloseResources
  /\ disk' = disk \ (IF path = 0 THEN Latest ELSE {path})
  /\ UNCHANGED <<storage, requested, usable, path, content, handed, lost, batch, records, files, mishaps>>

(***************************************************************************)
(* write() and write_batch(): nothing when closed, otherwise the records   *)
(* in order, each plane by plane.                                          *)
(***************************************************************************)
Begin(planes) ==
  /\ Free /\ opened /\ records + Len(planes) <= MaxRecords
  /\ batch' = [k \in DOMAIN planes |-> [planes |-> planes[k], stamp |-> records + k]]
  /\ records' = records + Len(planes)
  /\ handed' = [handed EXCEPT ![path] = [s \in Topics |-> @[s] \union
       {records + k : k \in {n \in DOMAIN planes : \E p \in DOMAIN planes[n] : planes[n][p] = s}}]]
  /\ UNCHANGED <<storage, requested, usable, opened, path, channels, encoder, disk, content, lost, files, mishaps>>

Write == (\E p \in Planes : Begin(<<p>>)) \/ (\E p, q \in Planes : Begin(<<p, q>>))

Topic == batch[1].planes[1]
Stamp == batch[1].stamp
Video(s) == storage = "video" /\ s \in Images

NextRecord == batch' = Tail(batch)
NextPlane ==
  IF Len(batch[1].planes) = 1 THEN NextRecord
  ELSE batch' = [batch EXCEPT ![1].planes = Tail(@)]

(* No channel for the stream: what is left of the record goes with it. *)
NoChannel ==
  /\ ~Free /\ Topic \notin channels /\ Mishap /\ NextRecord
  /\ UNCHANGED <<storage, requested, usable, opened, path, channels, encoder, disk, content,
                 handed, lost, records, files>>

EnsureChannel == channels' = channels \union {Topic}

Log(message) == content' = [content EXCEPT ![path][Topic] = Append(@, message)]

WriteRaw ==
  /\ ~Free /\ ~Video(Topic) /\ EnsureChannel /\ NextPlane
  /\ \/ Log([stamp |-> Stamp]) /\ UNCHANGED mishaps
     \/ Mishap /\ UNCHANGED content
  /\ UNCHANGED <<storage, requested, usable, opened, path, encoder, disk, handed, lost, records, files>>

(* The encoder there is, or those create() may give. *)
Encoders ==
  IF encoder[Topic] # NoEncoder THEN {encoder[Topic]}
  ELSE {[name |-> c[1], bitstream |-> c[2], of |-> path, frames |-> 0] : c \in Chosen(Codec(Topic))}

(* The frame is dropped; the next one asks for an encoder again. *)
NoVideoEncoder ==
  /\ ~Free /\ Video(Topic) /\ EnsureChannel /\ NextPlane
  /\ \/ Encoders = {} /\ UNCHANGED mishaps
     \/ encoder[Topic] = NoEncoder /\ Mishap
  /\ UNCHANGED <<storage, requested, usable, opened, path, encoder, disk, content, handed, lost, records, files>>

(* A frame whose buffer or whose encoding fails leaves the group of pictures as it is. *)
NoPacket ==
  /\ ~Free /\ Video(Topic) /\ EnsureChannel /\ NextPlane /\ Mishap
  /\ \E e \in Encoders : encoder' = [encoder EXCEPT ![Topic] = e]
  /\ UNCHANGED <<storage, requested, usable, opened, path, disk, content, handed, lost, records, files>>

(* One packet per frame: a key packet at the start of a group, otherwise one that refers to
   the packet before. *)
WriteVideo ==
  /\ ~Free /\ Video(Topic) /\ EnsureChannel /\ NextPlane
  /\ \E e \in Encoders :
       LET n == e.frames + 1
       IN  /\ encoder' = [encoder EXCEPT ![Topic] = [e EXCEPT !.frames = n]]
           /\ \/ /\ Log([stamp |-> Stamp, of |-> e.of, n |-> n, key |-> e.frames % Gop = 0,
                         bitstream |-> e.bitstream])
                 /\ UNCHANGED <<lost, mishaps>>
              \/ lost' = lost \union {<<e.of, Topic, n>>} /\ Mishap /\ UNCHANGED content
  /\ UNCHANGED <<storage, requested, usable, opened, path, disk, handed, records, files>>

McapNext ==
  \/ OpenFile \/ Close \/ Renew \/ Discard \/ Write
  \/ NoChannel \/ WriteRaw \/ NoVideoEncoder \/ NoPacket \/ WriteVideo

McapSpec == McapInit /\ [][McapNext]_mcapVars
-----------------------------------------------------------------------------
(* An episode file can be read by itself: each packet of a stream is a key packet or follows,
   in the same file, the one it refers to, unless that one was encoded and could not be
   logged (until the next key packet the video is then broken); its bitstream is the one its
   channel says, unless an encoder was asked for by a literal name; and without any such
   failure every stream has a message for each of its records, in order, so that the depth
   of a frame is beside it.  The code is close_resources, write_video_frame, create. *)
EpisodeDecodes ==
  \A f \in disk, s \in Topics :
    LET log == content[f][s]
        video == storage = "video" /\ s \in Images
    IN  /\ video => \A k \in DOMAIN log :
             /\ \/ log[k].key
                \/ k > 1 /\ log[k - 1].of = log[k].of /\ log[k - 1].n = log[k].n - 1
                \/ <<log[k].of, s, log[k].n - 1>> \in lost
             /\ requested # "libx265" => log[k].bitstream = Codec(s)
        /\ mishaps = 0 /\ (Free \/ f # path) /\ (video => Chosen(Codec(s)) # {})
             => /\ {log[k].stamp : k \in DOMAIN log} = handed[f][s]
                /\ \A j, k \in DOMAIN log : j < k => log[j].stamp < log[k].stamp
=============================================================================
