------------------------------- MODULE OpenpiCodec -------------------------------
(***************************************************************************)
(* What passes between the websocket transport and the policy server       *)
(* (hw/policy/openpi_websocket_transport.cpp, msgpack_ndarray.cpp): an     *)
(* observation as JSON and as msgpack, and the replies as msgpack, as JSON *)
(* and as a chunk.                                                         *)
(*                                                                         *)
(* A JSON value or a msgpack object is a pair of its kind and its value.  A*)
(* JSON map is a function; a msgpack map is a sequence of entries, whose   *)
(* keys may be bytes and may come twice.  "ndarray" is the key __ndarray__.*)
(***************************************************************************)
EXTENDS Integers, Sequences, SequencesExt, FiniteSets, TLC

CONSTANTS
  Word,    \* values of a size_t, and of an int64
  IntMax   \* the largest int

ASSUME OpenpiAssumption ==
  Word \in Nat /\ IntMax \in Nat /\ Word % 2 = 0 /\ 8 * IntMax * IntMax < Word

(***************************************************************************)
(* The observation                                                         *)
(***************************************************************************)
ElementSize == ("<f4" :> 4) @@ ("<f8" :> 8) @@ ("|u1" :> 1)
ToBytes(dtype, values) ==
  FlattenSeq([k \in DOMAIN values |-> [b \in 1..ElementSize[dtype] |-> <<values[k], b>>]])
FromBytes(dtype, bytes) ==
  [k \in 1..Len(bytes) \div ElementSize[dtype] |-> bytes[(k - 1) * ElementSize[dtype] + 1][1]]

MakeNdarray(dtype, shape, bytes) ==
  <<"map", [ndarray |-> <<"bool", TRUE>>, dtype |-> <<"str", dtype>>,
            shape |-> <<"array", [k \in DOMAIN shape |-> <<"number", shape[k]>>]>>,
            data |-> <<"bin", bytes>>]>>

(* Rows of pixels to planes, red and blue exchanged. *)
Planar(i) ==
  LET plane == i.height * i.width
  IN [k \in 1..3 * plane |-> i.rgb[((k - 1) % plane) * 3 + 3 - (k - 1) \div plane]]

Packs(o) == \A k \in DOMAIN o.pictures :
  Len(o.pictures[k].rgb) = 3 * o.pictures[k].height * o.pictures[k].width

PackObservationJson(o) ==
  LET flat == FlattenSeq(o.groups)
      cameras == {o.pictures[k].camera : k \in DOMAIN o.pictures}
      Newest(c) == CHOOSE k \in DOMAIN o.pictures :
                   /\ o.pictures[k].camera = c
                   /\ \A j \in k + 1..Len(o.pictures) : o.pictures[j].camera # c
      Picture(i) == MakeNdarray("|u1", <<3, i.height, i.width>>, ToBytes("|u1", Planar(i)))
  IN <<"map", [state |-> MakeNdarray("<f4", <<Len(flat)>>, ToBytes("<f4", flat)),
               images |-> <<"map", [c \in cameras |-> Picture(o.pictures[Newest(c)])]>>,
               prompt |-> <<"str", o.task>>]>>

(* The product of the dimensions, -1 when it is beyond a size_t. *)
ElementCount(shape) ==
  FoldLeft(LAMBDA n, d : IF n = -1 \/ (d # 0 /\ n > (Word - 1) \div d) THEN -1 ELSE n * d, 1, shape)

IsJsonNdarray(j) ==
  j[1] = "map" /\ "ndarray" \in DOMAIN j[2] /\ j[2]["ndarray"] = <<"bool", TRUE>>

(* Keys are packed as bytes in an ndarray, and as text elsewhere. *)
PackNdarray(a) ==
  LET shape == [k \in DOMAIN a.shape[2] |-> a.shape[2][k][2]] IN
  IF Len(a.data[2]) # ElementCount(shape) * ElementSize[a.dtype[2]] THEN <<"throw">>
  ELSE <<"map", << <<<<"bin", "ndarray">>, <<"bool", TRUE>>>>, <<<<"bin", "data">>, a.data>>,
                   <<<<"bin", "dtype">>, a.dtype>>, <<<<"bin", "shape">>, a.shape>> >> >>

RECURSIVE PackJson(_)
PackJson(j) ==
  CASE IsJsonNdarray(j) -> PackNdarray(j[2])
    [] j[1] = "map" /\ ~IsJsonNdarray(j) ->
         <<"map", LET keys == SetToSeq(DOMAIN j[2])
                  IN [k \in DOMAIN keys |-> <<<<"str", keys[k]>>, PackJson(j[2][keys[k]])>>]>>
    [] j[1] = "array" -> <<"array", [k \in DOMAIN j[2] |-> PackJson(j[2][k])]>>
    [] OTHER -> j

(***************************************************************************)
(* The reply                                                               *)
(***************************************************************************)
Named(key, name) == key[1] \in {"str", "bin"} /\ key[2] = name
EntriesOf(obj, name) == SelectSeq(obj[2], LAMBDA e : Named(e[1], name))
LastOf(obj, name) == LET found == EntriesOf(obj, name) IN found[Len(found)][2]

(* The first sentinel says whether a map is an ndarray. *)
IsNdarray(obj) ==
  LET found == EntriesOf(obj, "ndarray") IN found # <<>> /\ found[1][2] = <<"bool", TRUE>>

NdarraySound(obj) ==
  LET dtype == LastOf(obj, "dtype")
      shape == LastOf(obj, "shape")
      data == LastOf(obj, "data")
      count == ElementCount([k \in DOMAIN shape[2] |-> shape[2][k][2]])
  IN /\ LastOf(obj, "ndarray") = <<"bool", TRUE>>
     /\ \A name \in {"data", "dtype", "shape"} : EntriesOf(obj, name) # <<>>
     /\ dtype[1] \in {"str", "bin"} /\ dtype[2] \in DOMAIN ElementSize
     /\ shape[1] = "array"
     /\ \A k \in DOMAIN shape[2] : shape[2][k][1] = "number" /\ shape[2][k][2] >= 0
     /\ data[1] \in {"bin", "str"}
     /\ count # -1 /\ count <= (Word - 1) \div ElementSize[dtype[2]]
     /\ Len(data[2]) = count * ElementSize[dtype[2]]
UnpackNdarray(obj) ==
  MakeNdarray(LastOf(obj, "dtype")[2],
              LET shape == LastOf(obj, "shape")[2] IN [k \in DOMAIN shape |-> shape[k][2]],
              LastOf(obj, "data")[2])

(* What unpacks without an exception. *)
RECURSIVE Sound(_)
Sound(obj) ==
  CASE obj[1] = "map" ->
         IF IsNdarray(obj) THEN NdarraySound(obj)
         ELSE \A k \in DOMAIN obj[2] : obj[2][k][1][1] \in {"str", "bin"} /\ Sound(obj[2][k][2])
    [] obj[1] = "array" -> \A k \in DOMAIN obj[2] : Sound(obj[2][k])
    [] OTHER -> obj[1] # "ext"

RECURSIVE UnpackObject(_)
UnpackObject(obj) ==
  CASE obj[1] = "map" ->
         IF IsNdarray(obj) THEN UnpackNdarray(obj)
         ELSE <<"map", [key \in {obj[2][k][1][2] : k \in DOMAIN obj[2]} |-> UnpackObject(LastOf(obj, key))]>>
    [] obj[1] = "array" -> <<"array", [k \in DOMAIN obj[2] |-> UnpackObject(obj[2][k])]>>
    [] OTHER -> obj

AsInt64(d) == IF d >= Word \div 2 THEN d - Word ELSE d
Dimensions(a) == [k \in DOMAIN a.shape[2] |-> AsInt64(a.shape[2][k][2])]

IsNdarrayObject(j) == IsJsonNdarray(j) /\ {"dtype", "shape", "data"} \subseteq DOMAIN j[2]

(* decode_reply_ reads the type and the dimensions without a look at their kinds, and nothing catches
   what it throws: a type that is no text, a dimension that is no number.  unpack_ndarray has
   refused both, except in a map whose first sentinel is not true and whose last one is. *)
Throws(a) ==
  \/ a.dtype[1] # "str"
  \/ /\ a.dtype[2] \in {"<f4", "<f8"} /\ a.shape[1] = "array" /\ Len(a.shape[2]) = 2
     /\ \E k \in 1..2 : a.shape[2][k][1] \notin {"number", "real"}

DecodeReply(j) ==
  LET a == j[2]["actions"][2]  dims == Dimensions(a) IN
  CASE ~(j[1] = "map" /\ "actions" \in DOMAIN j[2]) -> <<"refused">>
    [] OTHER ->
       IF ~IsNdarrayObject(j[2]["actions"]) THEN <<"refused">>
       ELSE IF Throws(a) THEN <<"terminate">>
       ELSE IF /\ a.dtype[2] \in {"<f4", "<f8"}
               /\ a.shape[1] = "array" /\ Len(a.shape[2]) = 2
               /\ dims[1] \in 1..IntMax /\ dims[2] \in 1..IntMax
               /\ a.data[1] = "bin"
               /\ Len(a.data[2]) = dims[1] * dims[2] * ElementSize[a.dtype[2]]
            THEN LET values == FromBytes(a.dtype[2], a.data[2])
                 IN <<"chunk", [t \in 1..dims[1] |-> [n \in 1..dims[2] |-> values[(t - 1) * dims[2] + n]]]>>
            ELSE <<"refused">>

(* A text is the server's error; what does not unpack costs the connection too. *)
ReceiveMessage(answer) ==
  IF answer[1] = "text" \/ ~Sound(answer) THEN <<"disconnected">> ELSE DecodeReply(UnpackObject(answer))
=============================================================================
