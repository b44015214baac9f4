---------------------------------- MODULE Codec ----------------------------------
(***************************************************************************)
(* What passes between a transport and its policy server.  Here the gRPC   *)
(* transport's (hw/policy/lerobot_codec.cpp): the pickle programs that the *)
(* emitters write and the server reads (external), and those of its        *)
(* replies, run by the client's stack machine and turned into rows of      *)
(* actions.  The other transport's is in OpenpiCodec; both are sent and    *)
(* received below.                                                         *)
(*                                                                         *)
(* A program is a sequence of opcodes with their operands.  A byte has Base*)
(* values, so that integers of 1, 2, 4 and 8 bytes stay small.  Every value*)
(* of a machine is an object of its heap: the memo refers to it once more. *)
(* BINPUT and BINGET stand for their LONG_ forms too.                      *)
(***************************************************************************)
EXTENDS OpenpiCodec

CONSTANTS
  Base,         \* values of a byte
  Sent,         \* integers that are sent
  MaxFloats     \* floats of a reply's tensor

ASSUME CodecAssumption == Base \in Nat /\ Base > 1 /\ Sent \subseteq Int /\ MaxFloats \in Nat

VARIABLES
  message,   \* what is sent, the program not yet read
  understood \* what its reader made of it

codecVars == <<message, understood>>

(***************************************************************************)
(* Emitters                                                                *)
(***************************************************************************)
Power(n) == Base ^ n

(* Faulty variant: the first integer of two bytes is written as one. *)
EmitIntOffByOne(v) ==
  IF v >= 0 /\ v <= Power(1) THEN << <<"BININT1", v % Power(1)>> >>
  ELSE IF v >= 0 /\ v < Power(2) THEN << <<"BININT2", v>> >>
  ELSE IF -(Power(4) \div 2) <= v /\ v < Power(4) \div 2 THEN << <<"BININT", v % Power(4)>> >>
  ELSE << <<"LONG1", 8, v % Power(8)>> >>

(* The narrowest opcode; what is written is the integer's bytes. *)
EmitInt(v) ==
  IF v >= 0 /\ v < Power(1) THEN << <<"BININT1", v % Power(1)>> >>
  ELSE IF v >= 0 /\ v < Power(2) THEN << <<"BININT2", v>> >>
  ELSE IF -(Power(4) \div 2) <= v /\ v < Power(4) \div 2 THEN << <<"BININT", v % Power(4)>> >>
  ELSE << <<"LONG1", 8, v % Power(8)>> >>

LongTexts == {"long"}      \* texts of 256 bytes and more
EmitUnicode(s) == << <<IF s \in LongTexts THEN "BINUNICODE" ELSE "SHORT_BINUNICODE", s>> >>
EmitBytes(b) == << <<IF Len(b) < Power(1) THEN "SHORT_BINBYTES" ELSE "BINBYTES", b>> >>
EmitFloat(v) == << <<"BINFLOAT", v>> >>
EmitBool(b) == << <<IF b THEN "NEWTRUE" ELSE "NEWFALSE">> >>
Emit(op) == << <<op>> >>

EmitGlobal(module, name) == EmitUnicode(module) \o EmitUnicode(name) \o Emit("STACK_GLOBAL")
EmitEach(items, Item(_)) == FlattenSeq([k \in DOMAIN items |-> Item(items[k])])
EmitTuple(items, Item(_)) == Emit("MARK") \o EmitEach(items, Item) \o Emit("TUPLE")
EmitStringList(texts) ==
  Emit("EMPTY_LIST") \o Emit("MARK") \o EmitEach(texts, EmitUnicode) \o Emit("APPENDS")
EmitDict(items, Item(_)) ==
  Emit("EMPTY_DICT") \o Emit("MARK") \o EmitEach(items, Item) \o Emit("SETITEMS")
Field(key, value) == EmitUnicode(key) \o value

EmitObject(class, fields) ==
  EmitGlobal("helpers", class) \o Emit("EMPTY_TUPLE") \o Emit("NEWOBJ")
  \o Emit("EMPTY_DICT") \o Emit("MARK") \o FlattenSeq(fields) \o Emit("SETITEMS") \o Emit("BUILD")

Pickle(body) == << <<"PROTO", 4>>, <<"FRAME", Len(body) + 1>> >> \o body \o Emit("STOP")

Size(shape) == FoldSeq(LAMBDA d, n : d * n, 1, shape)

(* An image: an empty array, whose state is then set. *)
EmitArray(image) ==
  EmitGlobal("numpy", "_reconstruct") \o EmitGlobal("numpy", "ndarray")
  \o EmitInt(0) \o Emit("TUPLE1") \o EmitBytes(<<"b">>) \o Emit("TUPLE3") \o Emit("REDUCE")
  \o Emit("MARK") \o EmitInt(1) \o EmitTuple(image.shape, EmitInt)
  \o EmitGlobal("numpy", "dtype") \o EmitUnicode("u1") \o EmitBool(FALSE) \o EmitBool(TRUE)
  \o Emit("TUPLE3") \o Emit("REDUCE")
  \o Emit("MARK") \o EmitInt(3) \o EmitUnicode("|") \o Emit("NONE") \o Emit("NONE") \o Emit("NONE")
  \o EmitInt(-1) \o EmitInt(-1) \o EmitInt(0) \o Emit("TUPLE") \o Emit("BUILD")
  \o EmitBool(FALSE) \o EmitBytes(image.data) \o Emit("TUPLE") \o Emit("BUILD")

EmitFeature(f) ==
  EmitUnicode(f.key) \o EmitDict(<<"dtype", "shape", "names">>, LAMBDA key :
    Field(key, CASE key = "dtype" -> EmitUnicode(f.dtype)
                 [] key = "shape" -> EmitTuple(f.shape, EmitInt)
                 [] key = "names" -> EmitStringList(f.names)))

EncodePolicySetup(c) ==
  Pickle(EmitObject("RemotePolicyConfig",
    <<Field("policy_type", EmitUnicode(c.policy)),
      Field("pretrained_name_or_path", EmitUnicode(c.path)),
      Field("lerobot_features", EmitDict(c.features, EmitFeature)),
      Field("actions_per_chunk", EmitInt(c.actions)),
      Field("device", EmitUnicode(c.device)),
      Field("rename_map", EmitDict(c.renames, LAMBDA r : EmitUnicode(r[1]) \o EmitUnicode(r[2])))>>))

(* An image whose data are not of its shape cannot be sent. *)
Sendable(o) == \A k \in DOMAIN o.images : Len(o.images[k].data) = Size(o.images[k].shape)

EncodeObservation(o) ==
  Pickle(EmitObject("TimedObservation",
    <<Field("timestamp", EmitFloat(o.timestamp)),
      Field("timestep", EmitInt(o.timestep)),
      Field("observation", Emit("EMPTY_DICT") \o Emit("MARK")
        \o EmitEach(o.state, LAMBDA s : EmitUnicode(s[1]) \o EmitFloat(s[2]))
        \o EmitEach(o.images, LAMBDA i : EmitUnicode(i.key) \o EmitArray(i))
        \o Field("task", EmitUnicode(o.task)) \o Emit("SETITEMS")),
      Field("must_go", EmitBool(o.mustGo))>>))

(***************************************************************************)
(* The stack machine.  `reader` says which handlers it has: the client's   *)
(* (torch), those of a blob's programs (none, or "descriptor"), or the     *)
(* server's own unpickler (external; tuples are lists here).               *)
(***************************************************************************)
Machine(reader) ==
  [reader |-> reader, read |-> 0, heap |-> <<>>, stack |-> <<>>, marks |-> <<>>, memo |-> <<>>,
   pid |-> <<>>, verdict |-> "running"]

Refuse(m) == [m EXCEPT !.verdict = "refused"]
Push(m, is, val) ==
  [m EXCEPT !.heap = Append(@, [is |-> is, val |-> val]), !.stack = Append(@, Len(m.heap) + 1)]
PushRef(m, ref) == [m EXCEPT !.stack = Append(@, ref)]
PopN(m, n) == [m EXCEPT !.stack = SubSeq(@, 1, Len(@) - n)]
Holds(m, n) == Len(m.stack) >= n
RefAt(m, n) == m.stack[Len(m.stack) - n]      \* n values below the top
At(m, n) == m.heap[RefAt(m, n)]
LastN(m, n) == SubSeq(m.stack, Len(m.stack) - n + 1, Len(m.stack))
Marked(m) == m.marks # <<>>
SinceMark(m) == SubSeq(m.stack, Last(m.marks) + 1, Len(m.stack))
PopToMark(m) == [m EXCEPT !.stack = SubSeq(@, 1, Last(m.marks)), !.marks = Front(@)]
SetTop(m, val) == [m EXCEPT !.heap[RefAt(m, 0)].val = val]

Signed(raw, bytes) == IF raw >= Power(bytes) \div 2 THEN raw - Power(bytes) ELSE raw

(* Opcodes that push what they carry. *)
Pushes(reader) ==
  {"NONE", "NEWTRUE", "NEWFALSE", "BININT1", "BININT2", "BININT", "LONG1", "BINFLOAT",
   "EMPTY_LIST", "EMPTY_TUPLE", "EMPTY_DICT", "SHORT_BINUNICODE", "BINUNICODE", "BINBYTES", "GLOBAL"}
  \cup (IF reader = "server" THEN {"SHORT_BINBYTES"} ELSE {})
PushOperand(m, op) ==
  CASE op[1] = "NONE" -> Push(m, "none", 0)
    [] op[1] \in {"NEWTRUE", "NEWFALSE"} -> Push(m, "bool", op[1] = "NEWTRUE")
    [] op[1] \in {"BININT1", "BININT2"} -> Push(m, "int", op[2])
    [] op[1] = "BININT" -> Push(m, "int", Signed(op[2], 4))
    [] op[1] = "LONG1" /\ op[2] \in 1..8 -> Push(m, "int", Signed(op[3], op[2]))
    [] op[1] = "LONG1" /\ op[2] = 0 -> Push(m, "int", 0)
    [] op[1] = "LONG1" /\ op[2] > 8 -> Push(m, "bytes", <<op[2], op[3]>>)
    [] op[1] = "BINFLOAT" -> Push(m, "float", op[2])
    [] op[1] \in {"EMPTY_LIST", "EMPTY_TUPLE"} -> Push(m, "list", <<>>)
    [] op[1] = "EMPTY_DICT" -> Push(m, "dict", <<>>)
    [] op[1] \in {"SHORT_BINUNICODE", "BINUNICODE"} -> Push(m, "str", op[2])
    [] op[1] \in {"SHORT_BINBYTES", "BINBYTES"} -> Push(m, "bytes", op[2])
    [] op[1] = "GLOBAL" -> Push(m, "global", <<op[2], op[3]>>)

TupleSize == [TUPLE1 |-> 1, TUPLE2 |-> 2, TUPLE3 |-> 3]
TakeTuple(m, n) == IF Holds(m, n) THEN Push(PopN(m, n), "list", LastN(m, n)) ELSE Refuse(m)
TupleToMark(m) == IF Marked(m) THEN Push(PopToMark(m), "list", SinceMark(m)) ELSE Refuse(m)

(* list.append and list.extend, of the list below the items. *)
Extend(m, items) ==
  IF Holds(m, 1) /\ At(m, 0).is = "list" THEN SetTop(m, At(m, 0).val \o items) ELSE Refuse(m)
AppendItem(m) == IF Holds(m, 1) THEN Extend(PopN(m, 1), LastN(m, 1)) ELSE Refuse(m)
AppendItems(m) == IF Marked(m) THEN Extend(PopToMark(m), SinceMark(m)) ELSE Refuse(m)

(* Pairs of keys and values into the dict below them; a later key wins. *)
SetPairs(m, items) ==
  LET dict == At(m, 0).val
      Key(k) == m.heap[items[k]].val
      keys == {k \in DOMAIN items : k % 2 = 1}
      Latest(key) == CHOOSE k \in keys : Key(k) = key /\ \A j \in keys : Key(j) = key => j <= k
  IN IF Len(items) % 2 = 0 /\ (items # <<>> => Holds(m, 1) /\ At(m, 0).is = "dict")
        /\ \A k \in keys : m.heap[items[k]].is = "str"
     THEN IF items = <<>> THEN m
          ELSE SetTop(m, [key \in {Key(k) : k \in keys} |-> items[Latest(key) + 1]] @@ dict)
     ELSE Refuse(m)
SetItem(m) == IF Holds(m, 2) THEN SetPairs(PopN(m, 2), LastN(m, 2)) ELSE Refuse(m)
SetItems(m) == IF Marked(m) THEN SetPairs(PopToMark(m), SinceMark(m)) ELSE Refuse(m)

StackGlobal(m) ==
  IF Holds(m, 2) /\ At(m, 0).is = "str" /\ At(m, 1).is = "str"
  THEN Push(PopN(m, 2), "global", <<At(m, 1).val, At(m, 0).val>>) ELSE Refuse(m)

NewObject(m) ==
  IF Holds(m, 2) /\ At(m, 1).is = "global" /\ At(m, 0).is = "list" /\ At(m, 0).val = <<>>
  THEN Push(PopN(m, 2), "object", [class |-> At(m, 1).val, attrs |-> <<>>]) ELSE Refuse(m)

(* obj.__dict__.update(state); for the server also an array's or a type's state. *)
Build(m) ==
  LET state == At(m, 0).val  built == PopN(m, 1) IN
  IF ~Holds(m, 2) THEN Refuse(m)
  ELSE IF At(m, 1).is = "object" /\ At(m, 0).is = "dict"
  THEN SetTop(built, [At(m, 1).val EXCEPT !.attrs = state @@ @])
  ELSE IF m.reader = "server" /\ At(m, 1).is = "array" /\ Len(state) = 5
  THEN SetTop(built, [shape |-> state[2], dtype |-> state[3], data |-> state[5]])
  ELSE IF m.reader = "server" /\ At(m, 1).is = "dtype" /\ Len(state) = 8 THEN built
  ELSE Refuse(m)

(* An index beyond the bytes read (here: the opcodes read) is refused; what a larger table holds  *)
(* between is empty.                                                                              *)
MemoPut(m, index) ==
  IF Holds(m, 1) /\ index <= m.read
  THEN [m EXCEPT !.memo = [i \in 1..IF index < Len(@) THEN Len(@) ELSE index + 1 |->
          IF i = index + 1 THEN RefAt(m, 0) ELSE IF i <= Len(m.memo) THEN m.memo[i] ELSE 0]]
  ELSE Refuse(m)
MemoGet(m, index) ==
  IF index < Len(m.memo) /\ m.memo[index + 1] # 0 THEN PushRef(m, m.memo[index + 1]) ELSE Refuse(m)

(* STOP: the program's value is the only one left. *)
Stop(m) == IF Len(m.stack) = 1 THEN [m EXCEPT !.verdict = "done"] ELSE Refuse(m)
Result(m) == At(m, 0)

(* What a blob's storage descriptor says: ('storage', type, key, location, count). *)
PersistentId(m) ==
  LET t == At(m, 0).val  Item(k) == m.heap[t[k]] IN
  IF m.reader = "descriptor" /\ Holds(m, 1) /\ At(m, 0).is = "list" /\ Len(t) >= 5
     /\ Item(1) = [is |-> "str", val |-> "storage"]
     /\ Item(2) = [is |-> "global", val |-> <<"torch", "FloatStorage">>]
     /\ Item(3).is = "str" /\ Item(5).is = "int"
  THEN Push([PopN(m, 1) EXCEPT !.pid = <<Item(3).val, Item(5).val>>], "str", Item(3).val)
  ELSE Refuse(m)

RECURSIVE Unpickle(_, _)

(* torch's legacy file: five programs (magic, version, system, descriptor, keys), then the count  *)
(* and the floats.  Every part is verified.                                                       *)
Magic == <<10, 1>>
Loads(blob) ==
  LET run(k) == Unpickle(IF k = 4 THEN "descriptor" ELSE "blob", blob.programs[k])
      is(k, kind) == run(k).verdict = "done" /\ Result(run(k)).is = kind
      system == Result(run(3)).val
      keys == Result(run(5)).val
  IN /\ is(1, "bytes") /\ Result(run(1)).val = Magic
     /\ is(2, "int") /\ Result(run(2)).val = 1001
     /\ is(3, "dict") /\ "little_endian" \in DOMAIN system
     /\ run(3).heap[system["little_endian"]] = [is |-> "bool", val |-> TRUE]
     /\ run(4).verdict = "done" /\ run(4).pid # <<>> /\ run(4).pid[2] >= 0
     /\ is(5, "list") /\ Len(keys) = 1
     /\ run(5).heap[keys[1]] = [is |-> "str", val |-> run(4).pid[1]]
     /\ blob.count = run(4).pid[2] /\ blob.count <= Len(blob.floats)
LoadStorage(blob) == SubSeq(blob.floats, 1, blob.count)

Ints(m, ref) == m.heap[ref].is = "list"
                /\ \A k \in DOMAIN m.heap[ref].val : m.heap[m.heap[ref].val[k]].is = "int"
IntVector(m, ref) == [k \in DOMAIN m.heap[ref].val |-> m.heap[m.heap[ref].val[k]].val]

(* A view of a storage: nothing is copied. *)
RebuildTensor(m, rest, args) ==
  IF Len(args) >= 4 /\ m.heap[args[1]].is = "storage" /\ m.heap[args[2]].is = "int"
     /\ Ints(m, args[3]) /\ Ints(m, args[4])
  THEN Push(rest, "tensor", [storage |-> m.heap[args[1]].val, offset |-> m.heap[args[2]].val,
                             shape |-> IntVector(m, args[3]), stride |-> IntVector(m, args[4])])
  ELSE Refuse(m)

(* The only callables of a reply. *)
TorchCall(m, rest, name, args) ==
  CASE name = <<"torch._utils", "_rebuild_tensor_v2">> -> RebuildTensor(m, rest, args)
    [] name = <<"torch.storage", "_load_from_bytes">> ->
         IF Len(args) = 1 /\ m.heap[args[1]].is = "bytes" /\ Loads(m.heap[args[1]].val)
         THEN Push(rest, "storage", LoadStorage(m.heap[args[1]].val)) ELSE Refuse(m)
    [] name = <<"collections", "OrderedDict">> -> Push(rest, "dict", <<>>)
    [] OTHER -> Refuse(m)

(* What the server's numpy makes of an image (external). *)
NumpyCall(m, rest, name, args) ==
  CASE name = <<"numpy", "_reconstruct">> /\ Len(args) = 3 ->
         Push(rest, "array", [shape |-> args[2], dtype |-> 0, data |-> args[3]])
    [] name = <<"numpy", "dtype">> /\ Len(args) = 3 -> Push(rest, "dtype", m.heap[args[1]].val)
    [] OTHER -> Refuse(m)

Call(m) ==
  IF Holds(m, 2) /\ At(m, 1).is = "global" /\ At(m, 0).is = "list"
  THEN CASE m.reader = "client" -> TorchCall(m, PopN(m, 2), At(m, 1).val, At(m, 0).val)
         [] m.reader = "server" -> NumpyCall(m, PopN(m, 2), At(m, 1).val, At(m, 0).val)
         [] OTHER -> Refuse(m)
  ELSE Refuse(m)

Execute(m, op) ==
  LET now == [m EXCEPT !.read = @ + 1] IN
  CASE m.verdict # "running" -> m
    [] op[1] = "PROTO" -> IF op[2] \in 2..4 THEN now ELSE Refuse(m)
    [] op[1] = "FRAME" -> now
    [] op[1] = "STOP" -> Stop(now)
    [] op[1] \in Pushes(m.reader) -> PushOperand(now, op)
    [] op[1] \in DOMAIN TupleSize -> TakeTuple(now, TupleSize[op[1]])
    [] op[1] = "MARK" -> [now EXCEPT !.marks = Append(@, Len(now.stack))]
    [] op[1] = "TUPLE" -> TupleToMark(now)
    [] op[1] = "APPEND" -> AppendItem(now)
    [] op[1] = "APPENDS" -> AppendItems(now)
    [] op[1] = "SETITEM" -> SetItem(now)
    [] op[1] = "SETITEMS" -> SetItems(now)
    [] op[1] = "STACK_GLOBAL" -> StackGlobal(now)
    [] op[1] = "REDUCE" -> Call(now)
    [] op[1] = "NEWOBJ" -> NewObject(now)
    [] op[1] = "BUILD" -> Build(now)
    [] op[1] = "BINPERSID" -> PersistentId(now)
    [] op[1] = "MEMOIZE" -> MemoPut(now, Len(now.memo))
    [] op[1] = "BINPUT" -> MemoPut(now, op[2])
    [] op[1] = "BINGET" -> MemoGet(now, op[2])
    [] OTHER -> Refuse(m)

(* A program that ends before its STOP is refused: the reader never reads past its bytes. *)
Unpickle(reader, program) ==
  LET end == FoldLeft(Execute, Machine(reader), program)
  IN IF end.verdict = "running" THEN Refuse(end) ELSE end

(***************************************************************************)
(* decode_actions: the rows of a reply                                     *)
(***************************************************************************)
(* The rows of the TimedActions read so far, "refused" once one is not acceptable. *)
TakeRow(m, refs, out, k) ==
  LET ta == m.heap[refs[k]].val
      step == m.heap[ta.attrs["timestep"]]
      action == m.heap[ta.attrs["action"]]
      t == action.val
      n == t.shape[1]
      acceptable ==
        /\ m.heap[refs[k]].is = "object" /\ ta.class = <<"helpers", "TimedAction">>
        /\ {"timestep", "action"} \subseteq DOMAIN ta.attrs
        /\ step.is = "int" /\ action.is = "tensor"
        /\ Len(t.shape) = 1 /\ Len(t.stride) = 1 /\ t.stride[1] >= 1
        /\ n >= 1 /\ t.offset \in 0..Len(t.storage) - 1
        /\ n > 1 => t.stride[1] <= (Len(t.storage) - 1 - t.offset) \div (n - 1)
        /\ k > 1 => n = Len(out.rows[1]) /\ step.val = out.base + k - 1
  IN IF out.verdict = "done" /\ acceptable
     THEN [out EXCEPT !.base = IF k = 1 THEN step.val ELSE @,
             !.rows = Append(@, [i \in 1..n |-> t.storage[t.offset + (i - 1) * t.stride[1] + 1]])]
     ELSE [out EXCEPT !.verdict = "refused"]

Refused == [verdict |-> "refused", base |-> 0, rows |-> <<>>]
Nothing == [verdict |-> "done", base |-> 0, rows |-> <<>>]

DecodeActions(program) ==
  LET m == Unpickle("client", program) IN
  IF program = <<>> THEN Nothing
  ELSE IF m.verdict # "done" \/ Result(m).is # "list" THEN Refused
  ELSE LET refs == Result(m).val
           out == FoldLeft(LAMBDA o, k : TakeRow(m, refs, o, k), Nothing,
                           [k \in DOMAIN refs |-> k])
       IN IF out.verdict = "done" THEN out ELSE Refused

(***************************************************************************)
(* The server's replies (external): what Python's pickler and torch write  *)
(* of a list of views of one tensor, or of its copies, in one of two forms,*)
(* and with one part that is not as it should be, if reply.flaw says so.   *)
(***************************************************************************)
Flawed(reply, part, bad, good) == IF reply.flaw = part THEN bad ELSE good
Plain == {"none", "extra argument", "memo gap"}    \* what a reply may have
Flaws ==
  {"magic", "version", "big endian", "no endian", "doubles", "no descriptor", "negative count",
   "count", "long count", "two keys", "other key", "protocol", "truncated", "second value",
   "memo unset", "memo far", "opcode", "short bytes", "other call", "few arguments", "two blobs",
   "float size", "class", "class arguments", "no timestep", "no action", "float timestep",
   "list action", "flat rows", "matrix", "odd items", "int key", "not a list"}

ServerInt(reply, v) ==
  << IF reply.form = "memoize" THEN <<"BININT", v % Power(4)>> ELSE <<"LONG1", 8, v % Power(8)>> >>
Put(reply, index) == << IF reply.form = "memoize" THEN <<"MEMOIZE">> ELSE <<"BINPUT", index>> >>

Blob(reply) ==
  LET program(body) == << <<"PROTO", Flawed(reply, "protocol", 5, 2)>> >> \o body \o Emit("STOP")
      count == Len(reply.floats)
      key == <<"BINUNICODE", "k">>
  IN [programs |-> <<
        program(<< <<"LONG1", 10, Flawed(reply, "magic", 0, 1)>> >>),
        program(<< <<"BININT2", Flawed(reply, "version", 1002, 1001)>> >>),
        program(<< <<"EMPTY_DICT">>, <<"BINPUT", 0>>, <<"MARK">>,
                   <<"BINUNICODE", Flawed(reply, "no endian", "byte_order", "little_endian")>>,
                   <<Flawed(reply, "big endian", "NEWFALSE", "NEWTRUE")>>, <<"SETITEMS">> >>),
        program(Flawed(reply, "no descriptor", << <<"NONE">> >>,
                << <<"MARK">>, <<"BINUNICODE", "storage">>,
                   <<"GLOBAL", "torch", Flawed(reply, "doubles", "DoubleStorage", "FloatStorage")>>,
                   <<"BINPUT", 1>>, key, <<"BINUNICODE", "cpu">>,
                   <<"BININT", Flawed(reply, "negative count", -1, count) % Power(4)>>,
                   <<"NONE">>, <<"TUPLE">>, <<"BINPERSID">> >>)),
        program(<< <<"EMPTY_LIST">>, Flawed(reply, "other key", <<"BINUNICODE", "j">>, key), <<"APPEND">> >>
                \o Flawed(reply, "two keys", << key, <<"APPEND">> >>, <<>>)) >>,
      count |-> CASE reply.flaw = "count" -> count - 1
                  [] reply.flaw = "negative count" -> -1
                  [] OTHER -> count,
      floats |-> Flawed(reply, "long count", Tail(reply.floats), reply.floats)]

EmitStorage(reply) ==
  EmitGlobal("torch.storage", "_load_from_bytes")
  \o << <<Flawed(reply, "short bytes", "SHORT_BINBYTES", "BINBYTES"), Blob(reply)>> >>
  \o Flawed(reply, "two blobs", Emit("NONE") \o Emit("TUPLE2"), Emit("TUPLE1"))
  \o Emit("REDUCE") \o Put(reply, Flawed(reply, "memo far", 1000, Flawed(reply, "memo gap", 9, 2)))

EmitTensor(reply, k) ==
  LET row == reply.rows[k]
      int(v) == ServerInt(reply, v)
      tuple(v) == Emit("MARK") \o Flawed(reply, "float size", EmitFloat(0), int(v))
                  \o Flawed(reply, "matrix", int(v), <<>>) \o Emit("TUPLE")
  IN EmitGlobal("torch._utils", Flawed(reply, "other call", "_rebuild", "_rebuild_tensor_v2"))
     \o Emit("MARK")
     \o (IF k > 1 /\ reply.shared
         THEN << <<"BINGET", Flawed(reply, "memo gap", 9, Flawed(reply, "memo unset", 7, 2))>> >>
         ELSE EmitStorage(reply))
     \o int(row.offset) \o tuple(row.size)
     \o Flawed(reply, "few arguments", <<>>,
          tuple(row.stride) \o EmitBool(FALSE)
          \o EmitGlobal("collections", "OrderedDict") \o Emit("EMPTY_TUPLE") \o Emit("REDUCE")
          \o Flawed(reply, "extra argument", Emit("NONE"), <<>>))
     \o Emit("TUPLE") \o Emit("REDUCE")

EmitRow(reply, k) ==
  (IF k > 1 THEN << <<"BINGET", 1>> >>
   ELSE EmitGlobal("helpers", Flawed(reply, "class", "TimedData", "TimedAction")) \o Put(reply, 1))
  \o Flawed(reply, "class arguments", EmitInt(1) \o Emit("TUPLE1"), Emit("EMPTY_TUPLE"))
  \o Emit("NEWOBJ") \o Emit("EMPTY_DICT") \o Emit("MARK")
  \o Flawed(reply, "int key", EmitInt(1), EmitUnicode("timestamp"))
  \o Flawed(reply, "odd items", <<>>, EmitFloat(0))
  \o Flawed(reply, "no timestep", <<>>, Field("timestep",
       Flawed(reply, "float timestep", EmitFloat(1), ServerInt(reply, reply.rows[k].step))))
  \o Flawed(reply, "no action", <<>>, Field("action",
       Flawed(reply, "list action", Emit("EMPTY_LIST"), EmitTensor(reply, k))))
  \o Flawed(reply, "opcode", Emit("POP"), <<>>) \o Emit("SETITEMS") \o Emit("BUILD")

Reply(reply) ==
  LET rows == FlattenSeq([k \in DOMAIN reply.rows |-> EmitRow(reply, k)])
      body == Flawed(reply, "not a list", EmitFloat(0),
                Emit("EMPTY_LIST") \o Put(reply, 0) \o Emit("MARK")
                \o Flawed(reply, "flat rows", EmitInt(1), rows) \o Emit("APPENDS"))
      ended == Flawed(reply, "second value", EmitInt(1), <<>>) \o Pickle(body)
  IN IF reply.flaw = "empty" THEN <<>>
     ELSE IF reply.flaw = "truncated" THEN Front(ended) ELSE ended

(***************************************************************************)
(* What is sent and what is made of it                                     *)
(***************************************************************************)
Features ==
  {<<>>} \cup {<< [key |-> "observation.state", dtype |-> "float32", shape |-> <<n>>, names |-> names],
                  [key |-> "image", dtype |-> "video", shape |-> <<2, 1, 3>>, names |-> <<"height">>] >> :
               n \in Sent, names \in {<<>>, <<"j1", "long">>}}
Setups ==
  {[policy |-> "act", path |-> path, device |-> "cpu", features |-> features, actions |-> actions,
    renames |-> renames] :
   path \in {"model", "long"}, features \in Features, actions \in Sent,
   renames \in {<<>>, << <<"a", "b">> >>}}

Pictures ==
  {<<>>} \cup {<< [key |-> "image", shape |-> <<h, w, 3>>, data |-> [b \in 1..size |-> b]] >> :
               h \in {0, 1}, w \in {1, 2}, size \in {0, 3, 6}}
Observations ==
  {[timestamp |-> 5, timestep |-> step, state |-> state, images |-> images, task |-> "task",
    mustGo |-> go] :
   step \in Sent, state \in {<<>>, << <<"j1", 7>>, <<"j2", 8>> >>}, images \in Pictures, go \in BOOLEAN}

View == [offset : -1..2, size : 0..2, stride : 0..2]
TimedActions(n) ==
  LET row(step, view) == [step |-> step, offset |-> view.offset, size |-> view.size, stride |-> view.stride]
      later == {v \in View : v.offset \in {0, 1} /\ v.size > 0 /\ v.stride > 0}
  IN CASE n = 0 -> {<<>>}
       [] n = 1 -> {<<row(step, v)>> : step \in {-1, 3}, v \in View}
       [] n = 2 -> {<<row(3, v), row(step, w)>> : step \in {3, 4}, v \in later, w \in later}
Replies ==
  {[rows |-> rows, floats |-> [k \in 1..length |-> 100 + k], shared |-> shared, form |-> form, flaw |-> "none"] :
   rows \in UNION {TimedActions(n) : n \in 0..2}, length \in 1..MaxFloats, shared \in BOOLEAN,
   form \in {"memoize", "put"}}
  \cup
  {[rows |-> [k \in 1..2 |-> [step |-> k, offset |-> 0, size |-> 1, stride |-> 1]],
    floats |-> <<101, 102>>, shared |-> TRUE, form |-> "put", flaw |-> flaw] :
   flaw \in Flaws \cup Plain \cup {"empty"}}

(* Of the other server: an observation, and an answer of its own making (external). *)
Frames ==
  {[camera |-> "top", height |-> h, width |-> w, rgb |-> [b \in 1..3 * h * w + more |-> b]] :
   h \in 0..2, w \in 1..2, more \in 0..1}
PackedObservations ==
  {[groups |-> groups, pictures |-> pictures, task |-> "task"] :
   groups \in {<<>>, << <<7>>, <<8, 9>> >>},
   pictures \in {<<>>} \cup {<<f>> : f \in Frames} \cup {<<[f EXCEPT !.camera = "side"], f>> : f \in Frames}}

(* Sentinels is what a map says under __ndarray__, as often as it names the key; `as` how its texts
   and bytes are packed, "numpy" the keys and the data as bytes and the type as text. *)
Disorders ==
  {"text", "list", "no actions", "number key", "nested", "no data", "other type", "nil type",
   "real size", "text size", "one size", "three sizes", "number size", "extension"}
Packings == {"str", "bin", "numpy"}
Sentinels == SeqOf(BOOLEAN, 2)
Answers ==
  {[sizes |-> <<t, n>>, dtype |-> dtype, length |-> length, as |-> as, sentinels |-> sentinels,
    disorder |-> "none"] :
   t \in {-1, 0, 1, 2, IntMax + 1, Word \div 2, Word - 1}, n \in {0, 1, 2, 3}, dtype \in DOMAIN ElementSize,
   length \in {0, 4, 8, 16, 24, 32, 48}, as \in Packings, sentinels \in {<<TRUE>>, <<FALSE, TRUE>>}}
  \cup
  {[sizes |-> <<2, 1>>, dtype |-> "<f4", length |-> 8, as |-> as, sentinels |-> sentinels,
    disorder |-> disorder] :
   as \in Packings, sentinels \in Sentinels, disorder \in Disorders \cup {"none"}}

Disordered(a, part, bad, good) == IF a.disorder = part THEN bad ELSE good
Answer(a) ==
  LET bytes == IF a.as = "str" THEN "str" ELSE "bin"
      text == IF a.as = "bin" THEN "bin" ELSE "str"
      entry(key, value) == <<<<<<bytes, key>>, value>>>>
      number(d) == <<Disordered(a, "real size", "real", "number"), d>>
      sizes == CASE a.disorder = "one size" -> <<number(2)>>
                 [] a.disorder = "three sizes" -> <<number(2), number(1), number(1)>>
                 [] OTHER -> <<number(a.sizes[1]), Disordered(a, "text size", <<text, "1">>, number(a.sizes[2]))>>
      actions == <<"map",
        FlattenSeq([k \in DOMAIN a.sentinels |-> entry("ndarray", <<"bool", a.sentinels[k]>>)])
        \o Disordered(a, "no data", <<>>,
             entry("data", <<bytes, [k \in 1..a.length |-> <<(k - 1) \div ElementSize[a.dtype], k>>]>>))
        \o entry("dtype", Disordered(a, "nil type", <<"nil", 0>>,
                            <<text, Disordered(a, "other type", "<i4", a.dtype)>>))
        \o entry("shape", Disordered(a, "number size", number(2), <<"array", sizes>>))>>
      result == CASE a.disorder = "list" -> <<"array", <<actions>> >>
                  [] a.disorder = "extension" -> <<"ext", 0>>
                  [] a.disorder = "nested" -> <<"map", entry("actions", actions)>>
                  [] OTHER -> actions
  IN Disordered(a, "text", <<"text", "no">>,
       <<"map", entry(Disordered(a, "no actions", "action", "actions"), result)
                \o Disordered(a, "number key", <<<<<<"number", 1>>, <<"nil", 0>>>>>>, entry("time", <<"number", 1>>))>>)

Unread == [verdict |-> "unread"]

CodecInit ==
  /\ understood = Unread
  /\ \/ \E c \in Setups : message = [kind |-> "setup", what |-> c]
     \/ \E o \in Observations : message = [kind |-> "observation", what |-> o]
     \/ \E r \in Replies : message = [kind |-> "reply", what |-> r]
     \/ \E o \in PackedObservations : message = [kind |-> "packed", what |-> o]
     \/ \E a \in Answers : message = [kind |-> "answer", what |-> a]
CodecIdle == message = [kind |-> "nothing"] /\ understood = Unread

Receive(kind) == message.kind = kind /\ understood = Unread /\ UNCHANGED message

ReceiveSetup == Receive("setup") /\ understood' = Unpickle("server", EncodePolicySetup(message.what))
ReceiveObservation ==
  /\ Receive("observation")
  /\ understood' = IF Sendable(message.what) THEN Unpickle("server", EncodeObservation(message.what))
                   ELSE Refused
ReceiveReply == Receive("reply") /\ understood' = DecodeActions(Reply(message.what))
ReceivePacked ==
  /\ Receive("packed")
  /\ understood' = IF ~Packs(message.what) THEN Refused
                   ELSE [verdict |-> "done", value |-> PackJson(PackObservationJson(message.what))]
ReceiveAnswer ==
  /\ Receive("answer")
  /\ understood' = LET made == ReceiveMessage(Answer(message.what))
                   IN [verdict |-> made[1], rows |-> IF made[1] = "chunk" THEN made[2] ELSE <<>>]

CodecNext == ReceiveSetup \/ ReceiveObservation \/ ReceiveReply \/ ReceivePacked \/ ReceiveAnswer

(***************************************************************************)
(* Property                                                                *)
(***************************************************************************)
RECURSIVE Meaning(_, _)
Meaning(m, ref) ==
  LET v == m.heap[ref]
      of(d) == [key \in DOMAIN d |-> Meaning(m, d[key])]
  IN CASE v.is \in {"list", "dict"} -> <<v.is, of(v.val)>>
       [] v.is = "object" -> <<v.val.class[2], of(v.val.attrs)>>
       [] v.is = "array" -> <<"array", Meaning(m, v.val.shape), m.heap[v.val.dtype].val, m.heap[v.val.data].val>>
       [] OTHER -> <<v.is, v.val>>

OfInts(ints) == <<"list", [k \in DOMAIN ints |-> <<"int", ints[k]>>]>>
OfTexts(texts) == <<"list", [k \in DOMAIN texts |-> <<"str", texts[k]>>]>>
OfPairs(items, Key(_), Val(_)) ==
  [key \in {Key(items[k]) : k \in DOMAIN items} |->
     Val(items[CHOOSE k \in DOMAIN items : Key(items[k]) = key])]
OfFeature(f) ==
  <<"dict", [dtype |-> <<"str", f.dtype>>, shape |-> OfInts(f.shape), names |-> OfTexts(f.names)]>>

OfSetup(c) ==
  <<"RemotePolicyConfig",
    [policy_type |-> <<"str", c.policy>>, pretrained_name_or_path |-> <<"str", c.path>>,
     lerobot_features |-> <<"dict", OfPairs(c.features, LAMBDA f : f.key, OfFeature)>>,
     actions_per_chunk |-> <<"int", c.actions>>, device |-> <<"str", c.device>>,
     rename_map |-> <<"dict", OfPairs(c.renames, LAMBDA r : r[1], LAMBDA r : <<"str", r[2]>>)>>]>>

OfObservation(o) ==
  <<"TimedObservation",
    [timestamp |-> <<"float", o.timestamp>>, timestep |-> <<"int", o.timestep>>,
     must_go |-> <<"bool", o.mustGo>>,
     observation |-> <<"dict",
       OfPairs(o.state, LAMBDA s : s[1], LAMBDA s : <<"float", s[2]>>)
       @@ OfPairs(o.images, LAMBDA i : i.key, LAMBDA i : <<"array", OfInts(i.shape), "u1", i.data>>)
       @@ [task |-> <<"str", o.task>>]>>]>>

Means(m, value) == m.verdict = "done" /\ m.marks = <<>> /\ Meaning(m, m.stack[1]) = value

(* The elements a row is a view of. *)
Elements(row) == [i \in 1..row.size |-> row.offset + (i - 1) * row.stride]
Acceptable(r) ==
  /\ r.flaw \in Plain
  /\ \A k \in DOMAIN r.rows :
       /\ r.rows[k].size >= 1 /\ r.rows[k].stride >= 1 /\ r.rows[k].size = r.rows[1].size
       /\ \A i \in 1..r.rows[k].size : Elements(r.rows[k])[i] \in 0..Len(r.floats) - 1
       /\ r.rows[k].step = r.rows[1].step + k - 1

(* What openpi's server makes of a map (external). *)
Of(obj, name) == LastOf(obj, name)
ArrayOf(obj) == [dtype |-> Of(obj, "dtype")[2], shape |-> Of(obj, "shape")[2],
                 values |-> FromBytes(Of(obj, "dtype")[2], Of(obj, "data")[2])]
Sees(obj, frame) ==
  LET a == ArrayOf(obj)  h == frame.height  w == frame.width
  IN /\ IsNdarray(obj) /\ a.dtype = "|u1" /\ a.shape = << <<"number", 3>>, <<"number", h>>, <<"number", w>> >>
     /\ Len(a.values) = 3 * h * w
     /\ \A c \in 0..2, y \in 0..h - 1, x \in 0..w - 1 :
          a.values[c * h * w + y * w + x + 1] = frame.rgb[(y * w + x) * 3 + (2 - c) + 1]
ReadsPacked(obj, o) ==
  LET state == ArrayOf(Of(obj, "state"))  flat == FlattenSeq(o.groups) IN
  /\ state = [dtype |-> "<f4", shape |-> << <<"number", Len(flat)>> >>, values |-> flat]
  /\ Of(obj, "prompt") = <<"str", o.task>>
  /\ Len(Of(obj, "images")[2]) = Len(o.pictures)
  /\ \A k \in DOMAIN o.pictures : Sees(Of(Of(obj, "images"), o.pictures[k].camera), o.pictures[k])

(* A map is taken for an array by its last sentinel, and checked like one by its first. *)
SaysArray(a) == a.sentinels # <<>> /\ Last(a.sentinels)
CheckedArray(a) == a.sentinels # <<>> /\ Head(a.sentinels)

AnswerAcceptable(a) ==
  /\ SaysArray(a)
  /\ IF CheckedArray(a) THEN a.disorder = "none"
     ELSE a.disorder \in {"none", "real size"} /\ a.as = "numpy"
  /\ a.dtype \in {"<f4", "<f8"}
  /\ a.sizes[1] \in 1..IntMax /\ a.sizes[2] \in 1..IntMax
  /\ a.length = a.sizes[1] * a.sizes[2] * ElementSize[a.dtype]

(* What decode_reply_ takes for an array although nothing has looked at    *)
(* the kinds of its fields, and whose type or dimension is of another.     *)
Unforeseen(a) ==
  /\ SaysArray(a) /\ ~CheckedArray(a)
  /\ a.disorder \notin {"text", "list", "no actions", "number key", "nested", "no data", "extension"}
  /\ a.as = "bin" \/ a.disorder \in {"nil type", "text size"}

(* The server reads the configuration and the observation that were sent,  *)
(* every integer, shape and image of them, and nothing is left over.  A    *)
(* reply is accepted exactly when each part of it is as torch writes it,   *)
(* its rows are consecutive and within their storage, and its rows are     *)
(* then the elements their views name, shared storages included.  With the *)
(* other transport likewise: the server sees the joints in order and each  *)
(* image by planes with red and blue exchanged, as its model was trained;  *)
(* an answer is a chunk exactly when it is a two-dimensional array of the  *)
(* size it says.  An answer ends the program, by an exception nothing      *)
(* catches (openpi_websocket_transport.cpp:475, 491-492, called at 680),   *)
(* only when it is a map with the key __ndarray__ twice, first false and   *)
(* then true, and with a type or a dimension of another kind.              *)
CodecFaithful ==
  understood # Unread =>
    CASE message.kind = "setup" -> Means(understood, OfSetup(message.what))
      [] message.kind = "observation" ->
           IF Sendable(message.what) THEN Means(understood, OfObservation(message.what))
           ELSE understood.verdict = "refused"
      [] message.kind = "packed" ->
           IF Packs(message.what) THEN ReadsPacked(understood.value, message.what)
           ELSE understood.verdict = "refused"
      [] message.kind = "answer" ->
           LET a == message.what IN
           /\ (understood.verdict = "terminate") = Unforeseen(a)
           /\ (understood.verdict = "chunk") = AnswerAcceptable(a)
           /\ AnswerAcceptable(a) =>
                understood.rows = [t \in 1..a.sizes[1] |-> [n \in 1..a.sizes[2] |-> (t - 1) * a.sizes[2] + n - 1]]
      [] message.kind = "reply" ->
           LET r == message.what IN
           IF r.flaw = "empty" THEN understood = Nothing
           ELSE /\ (understood.verdict = "done") = Acceptable(r)
                /\ Acceptable(r) =>
                     /\ understood.rows = [k \in DOMAIN r.rows |->
                          [i \in DOMAIN Elements(r.rows[k]) |-> r.floats[Elements(r.rows[k])[i] + 1]]]
                     /\ r.rows # <<>> => understood.base = r.rows[1].step
=============================================================================
