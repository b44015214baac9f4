------------------------------- MODULE PolicySetup -------------------------------
(***************************************************************************)
(* From a configuration file to teleoperation by a policy: the checks of   *)
(* the policy_clients entries (policy_client_config.hpp, sdk_config.cpp),  *)
(* the registry of live components (active_hardware_registry.cpp) that     *)
(* arms, cameras, clients and the clients' faces enter, and the            *)
(* controllers made over it (teleop_factory.cpp).  A face is the leader of *)
(* a slice of the action row.                                              *)
(*                                                                         *)
(* A number is where it lies in the range the code gives it.               *)
(***************************************************************************)
EXTENDS Integers, Sequences, SequencesExt, FiniteSets, FiniteSetsExt

CONSTANTS
  MaxOffset,  \* largest joint_offset of an entry
  MaxCount    \* largest joint_count of an entry

ASSUME SetupAssumption == MaxOffset \in Nat /\ MaxCount \in Nat

VARIABLES
  file,        \* the parsed JSON: hardware, policy clients, observers, teleop pairs
  phase,       \* where the program stands
  made,        \* components or clients of the file created so far in this phase
  registry,    \* ActiveHardwareRegistry
  living,      \* the policy clients there are
  controllers  \* the teleop controllers, each with its components

setupVars == <<file, phase, made, registry, living, controllers>>

(***************************************************************************)
(* Parsing: a text, a number, a subscription and an entry of the layout.   *)
(* Of a client's own fields `odd` names one and says what is odd with it.  *)
(***************************************************************************)
RequiredTexts == {"id", "server_url"}
NonEmptyTexts == RequiredTexts \union {"transport"}
Texts == NonEmptyTexts \union {"transport_config", "api_key", "prompt", "log_path"}

TextRefused(field, value) ==
  \/ value = "mistyped"
  \/ value = "missing" /\ field \in RequiredTexts
  \/ value = "empty" /\ field \in NonEmptyTexts

OpenBelow == {"inference_hz", "output_ema_alpha", "output_ema_alpha_gripper"}
OpenAbove == {"drain_threshold"}
Numbers == OpenBelow \union OpenAbove \union
           {"chunk_boundary_blend_s", "freshness_timeout_ms", "inference_timeout_ms"}

NumberRefused(field, value) ==
  \/ value \in {"mistyped", "below", "above", "nan"}
  \/ value = "least" /\ field \in OpenBelow
  \/ value = "most" /\ field \in OpenAbove

FieldsParse(c) ==
  /\ c.odd[1] \in Texts => ~TextRefused(c.odd[1], c.odd[2])
  /\ c.odd[1] \in Numbers => ~NumberRefused(c.odd[1], c.odd[2])

(* throttle_hz: "slow" is less than the client's inference_hz, "fast" is not. *)
SubscriptionParses(s) ==
  /\ s.record # << >> /\ s.throttle \in {"slow", "fast"}
  /\ s.key # <<"", "">> /\ s.resize # "refused"

EntryParses(e) ==
  /\ e.leader # "" /\ e.offset >= 0 /\ e.count > 0
  /\ e.names \in {0, e.count}

SubscriptionsParse(c) ==
  /\ c.subscriptions # << >>
  /\ \A k \in DOMAIN c.subscriptions :
       /\ SubscriptionParses(c.subscriptions[k])
       /\ c.subscriptions[k].throttle # "slow"
       /\ \A j \in 1 .. k - 1 :
            /\ c.subscriptions[j].record # c.subscriptions[k].record
            /\ c.subscriptions[j].key # c.subscriptions[k].key

(* The columns that some entries of a layout take together. *)
ColumnsOf(layout, some) == UNION {{k} \X (1 .. layout[k].count) : k \in some}
Width(layout, some) == Cardinality(ColumnsOf(layout, some))

(* By offset.  Of two equal ones either may come first: as an entry has a joint, the layout is
   refused both ways. *)
Sorted(layout) ==
  {order \in Bijection(DOMAIN layout, DOMAIN layout) :
     \A j, k \in DOMAIN layout : j < k => layout[order[j]].offset <= layout[order[k]].offset}

Expected(layout, order, k) == Width(layout, {order[j] : j \in 1 .. k - 1})

(* Faulty variant: only an overlap of the slices is an error. *)
NoOverlap(layout) ==
  \E order \in Sorted(layout) :
    \A k \in DOMAIN layout : layout[order[k]].offset >= Expected(layout, order, k)

(* By offset, each entry begins where those before it end. *)
Tiles(layout) ==
  \E order \in Sorted(layout) :
    \A k \in DOMAIN layout : layout[order[k]].offset = Expected(layout, order, k)

LayoutParses(c) ==
  /\ c.layout # << >>
  /\ \A k \in DOMAIN c.layout :
       /\ EntryParses(c.layout[k])
       /\ \A j \in 1 .. k - 1 : c.layout[j].leader # c.layout[k].leader
  /\ Tiles(c.layout)

ClientParses(c) == FieldsParse(c) /\ SubscriptionsParse(c) /\ LayoutParses(c)

(* Clients and observers have ids of their own; the program reads nothing else that can be
   refused here. *)
FileParses ==
  /\ \A k \in DOMAIN file.clients :
       /\ ClientParses(file.clients[k])
       /\ \A j \in 1 .. k - 1 : file.clients[j].id # file.clients[k].id
  /\ \A j, k \in DOMAIN file.observers : j # k => file.observers[j] # file.observers[k]

(***************************************************************************)
(* What configure() and the constructor refuse.                            *)
(***************************************************************************)
(* "<joint_name>.pos" of the entries that name their joints, in the order of the layout. *)
MotorNames(c) ==
  FlattenSeq([k \in DOMAIN c.layout |-> [n \in 1 .. c.layout[k].names |-> <<c.layout[k].leader, n>>]])

(* The keys of an observation's joints: where there is no name, the face's id and a number. *)
StateKeys(c) ==
  FlattenSeq([k \in DOMAIN c.layout |->
    [n \in 1 .. c.layout[k].count |->
       IF n <= c.layout[k].names THEN <<c.layout[k].leader, n>>
       ELSE <<c.layout[k].leader, "unnamed", n>>]])

FeatureNames(c, f) ==
  IF f.names # << >> THEN f.names
  ELSE IF f.dtype = "float32" THEN MotorNames(c) ELSE <<"height", "width", "channels">>

(* The options of the gRPC transport: a float feature is a row of named numbers. *)
PolicyConfigParses(c) ==
  /\ c.policy = "complete" /\ c.features # << >>
  /\ \A k \in DOMAIN c.features :
       LET f == c.features[k]
       IN  /\ f.dtype \in {"float32", "image", "video"}
           /\ FeatureNames(c, f) # << >>
           /\ f.dtype = "float32" => Len(FeatureNames(c, f)) = f.size

TransportMade(c) ==
  \/ c.transport = "openpi_ws" /\ c.url = "ws://" /\ c.policy # "bad timeout"
  \/ c.transport = "lerobot_grpc" /\ c.url = "host:port" /\ PolicyConfigParses(c)

ExpectedCameras == {"cam_high", "cam_low", "cam_left_wrist", "cam_right_wrist"}

StateSubscriptions(c) == SelectSeq(c.subscriptions, LAMBDA s : s.key[1] = "state")

(* A client made from its fields takes them as they are, but for the rate. *)
InitAccepts(c) ==
  /\ c.odd[1] = "inference_hz" => c.odd[2] \notin {"least", "below", "nan"}
  /\ \A k \in DOMAIN c.subscriptions :
       /\ c.subscriptions[k].key[1] \in {"state", "images"}
       /\ c.subscriptions[k].key[1] = "images" => c.subscriptions[k].key[2] \in ExpectedCameras
  /\ Len(StateSubscriptions(c)) = Len(c.layout)
  /\ \A k \in DOMAIN c.subscriptions :
       /\ c.subscriptions[k].record # << >> /\ c.subscriptions[k].throttle \in {"slow", "fast"}
       /\ \A j \in 1 .. k - 1 : c.subscriptions[j].record # c.subscriptions[k].record

(***************************************************************************)
(* The registry.                                                           *)
(***************************************************************************)
Component(id, kind, client) == [id |-> id, kind |-> kind, client |-> client]
Registered(id, r) == \E component \in r : component.id = id

(* The faces of client k in order, up to the first id that is taken by then. *)
FaceTaken(k, j) ==
  LET layout == file.clients[k].layout
  IN  \/ Registered(layout[j].leader, registry)
      \/ \E i \in 1 .. j - 1 : layout[i].leader = layout[j].leader

Face(k, j) == Component(file.clients[k].layout[j].leader, "face", k)
FacesOf(k) == {Face(k, j) : j \in DOMAIN file.clients[k].layout}

(* The destructor: what is registered by the ids of its faces goes. *)
Destroyed(r, k) == {component \in r : \A face \in FacesOf(k) : face.id # component.id}

(***************************************************************************)
(* The program.                                                            *)
(***************************************************************************)
ParseFile ==
  /\ phase = "parse" /\ phase' = IF FileParses THEN "hardware" ELSE "refused"
  /\ UNCHANGED <<file, made, registry, living, controllers>>

(* Arms and cameras, which may not answer. *)
CreateHardware ==
  /\ phase = "hardware" /\ made < Len(file.hardware)
  /\ LET component == file.hardware[made + 1]
     IN  \/ /\ ~Registered(component.id, registry) /\ made' = made + 1 /\ phase' = phase
            /\ registry' = registry \union {Component(component.id, component.kind, 0)}
         \/ phase' = "refused" /\ UNCHANGED <<made, registry>>
  /\ UNCHANGED <<file, living, controllers>>

HardwareMade ==
  /\ phase = "hardware" /\ made = Len(file.hardware) /\ phase' = "clients" /\ made' = 0
  /\ UNCHANGED <<file, registry, living, controllers>>

(* init_() registers every face or none. *)
Configured(k) ==
  /\ file.direct \/ TransportMade(file.clients[k])
  /\ InitAccepts(file.clients[k])
  /\ \A j \in DOMAIN file.clients[k].layout : ~FaceTaken(k, j)

(* Made by HardwareRegistry::create it is registered as well, where that fails destroyed;
   constructed directly it is not. *)
CreateClient ==
  /\ phase = "clients" /\ made < Len(file.clients)
  /\ LET k == made + 1
         faced == registry \union FacesOf(k)
     IN  IF ~Configured(k) THEN phase' = "refused" /\ UNCHANGED <<made, registry, living>>
         ELSE IF file.direct
           THEN registry' = faced /\ living' = living \union {k} /\ made' = k /\ phase' = phase
         ELSE IF Registered(file.clients[k].id, faced)
           THEN registry' = Destroyed(faced, k) /\ phase' = "refused" /\ UNCHANGED <<made, living>>
         ELSE /\ registry' = faced \union {Component(file.clients[k].id, "client", k)}
              /\ living' = living \union {k} /\ made' = k /\ phase' = phase
  /\ UNCHANGED <<file, controllers>>

Held(id) == {component \in registry : component.id = id}
Spaces(kind) == IF kind = "arm" THEN {"joint", "cartesian"} ELSE IF kind = "face" THEN {"joint"} ELSE {}
Capable(kind, space) == space \in Spaces(kind)

LeadersOf(pair) == {c \in Held(pair.leader) : Capable(c.kind, pair.space)}

(* One whose follower cannot be had goes without. *)
FollowersOf(pair) ==
  LET able == {c \in Held(pair.follower) : Spaces(c.kind) # {}}
  IN  IF able = {} THEN {Component("", "none", 0)} ELSE {c \in able : Capable(c.kind, pair.space)}

(* A pair whose leader cannot be had, or that cannot work in its space, is left out. *)
Controller(pair) == {[leader |-> l, follower |-> f] : l \in LeadersOf(pair), f \in FollowersOf(pair)}

MakeControllers ==
  /\ phase = "clients" /\ made = Len(file.clients) /\ phase' = "run"
  /\ controllers' = UNION {Controller(file.pairs[k]) : k \in DOMAIN file.pairs}
  /\ UNCHANGED <<file, made, registry, living>>

(* The program takes a client out of the registry, and lets go of it: its destructor. *)
Unregister(k) ==
  /\ phase \in {"run", "refused"} /\ Component(file.clients[k].id, "client", k) \in registry
  /\ registry' = registry \ {Component(file.clients[k].id, "client", k)}
  /\ UNCHANGED <<file, phase, made, living, controllers>>

ReleaseClient(k) ==
  /\ phase \in {"run", "refused"} /\ k \in living
  /\ Component(file.clients[k].id, "client", k) \notin registry
  /\ registry' = Destroyed(registry, k) /\ living' = living \ {k}
  /\ UNCHANGED <<file, phase, made, controllers>>

SetupNext ==
  \/ ParseFile \/ CreateHardware \/ HardwareMade \/ CreateClient \/ MakeControllers
  \/ \E k \in DOMAIN file.clients : Unregister(k) \/ ReleaseClient(k)

(***************************************************************************)
(* The files: each varies one aspect of a file that works.                 *)
(***************************************************************************)
Subscription(record, key) == [record |-> record, key |-> key, throttle |-> "fast", resize |-> "none"]
Arms == <<"arm 1", "arm 2">>
StateSubscription(n) == Subscription(<<"arm", n>>, <<"state", Arms[n]>>)
Entry(leader, offset, count) == [leader |-> leader, offset |-> offset, count |-> count, names |-> 0]

Client(id, layout) ==
  [id |-> id, odd |-> <<"none", "">>, layout |-> layout, transport |-> "openpi_ws", url |-> "ws://",
   policy |-> "complete", features |-> << >>,
   subscriptions |-> Append([n \in DOMAIN layout |-> StateSubscription(n)],
                            Subscription(<<"wrist">>, <<"images", "cam_low">>))]

File(clients, pairs) ==
  [clients |-> clients, pairs |-> pairs, direct |-> FALSE, observers |-> <<"viewer">>,
   hardware |-> <<[id |-> "arm", kind |-> "arm"], [id |-> "camera", kind |-> "camera"]>>]

Single == Client("policy", <<Entry("left", 0, 2)>>)
Follow == <<[leader |-> "left", follower |-> "arm", space |-> "joint"]>>

Entries == [leader : {"left", "right", "arm"}, offset : 0 .. MaxOffset, count : 0 .. MaxCount, names : {0}]

Laid == {Client("policy", <<d>>) : d \in Entries} \union {Client("policy", <<d, e>>) : d, e \in Entries}

OddTexts == {[Single EXCEPT !.odd = <<f, v>>] : f \in Texts, v \in {"missing", "empty", "mistyped"}}

OddNumbers ==
  {[Single EXCEPT !.odd = <<f, v>>] :
     f \in Numbers, v \in {"mistyped", "below", "least", "inside", "most", "above", "nan"}}

Subscriptions ==
  [record : {<< >>, <<"arm", 1>>, <<"wrist">>}, throttle : {"nan", "below", "slow", "fast"},
   key : {<<"", "">>, <<"state", "arm 1">>, <<"state", "arm 2">>, <<"images", "cam_low">>,
          <<"images", "cam_else">>, <<"video", "cam_low">>},
   resize : {"none", "refused"}]

Subscribed == {[Single EXCEPT !.subscriptions = <<StateSubscription(1), s>>] : s \in Subscriptions}

FeatureChoices == [dtype : {"float32", "image", "int64"}, size : 1 .. 3, names : {<< >>, <<"a", "b", "c">>}]

(* Two faces whose joints are named, in part or not at all. *)
PartlyNamed(m, n) ==
  Client("policy", <<[Entry("left", 0, 2) EXCEPT !.names = m], [Entry("right", 2, 1) EXCEPT !.names = n]>>)

Remote(c, url, policy, feature) ==
  [c EXCEPT !.transport = "lerobot_grpc", !.url = url, !.policy = policy, !.features = <<feature>>]

Featured ==
  {Remote(PartlyNamed(m, n), u, p, f) :
     m \in {0, 1, 2}, n \in {0, 1}, u \in {"ws://", "host:port"}, p \in {"complete", "lacking"}, f \in FeatureChoices}

Clients == Laid \union OddTexts \union OddNumbers \union Subscribed \union Featured

Pairs == [leader : {"left", "arm", "camera", "policy", "ghost"},
          follower : {"arm", "left", "camera", "ghost"}, space : {"joint", "cartesian", "pose"}]

Seconds ==
  {Client(id, <<Entry(leader, 0, 1)>>) : id \in {"policy", "second", "arm", "left"}, leader \in {"left", "right", "second"}}

ParsedFiles == {File(<<c>>, Follow) : c \in Clients} \union {File(<<Single>>, <<p>>) : p \in Pairs}
DirectFiles == {[File(<<c>>, Follow) EXCEPT !.direct = TRUE] : c \in Clients}
TwoClients == {[File(<<Single, c>>, Follow) EXCEPT !.direct = d] : c \in Seconds, d \in BOOLEAN}
TwiceViewed == [File(<<Single>>, Follow) EXCEPT !.observers = <<"viewer", "viewer">>]
TwiceArmed == [File(<<Single>>, Follow) EXCEPT !.hardware = Append(@, [id |-> "arm", kind |-> "camera"])]

Files == ParsedFiles \union DirectFiles \union TwoClients \union {TwiceViewed, TwiceArmed}

SetupStart == made = 0 /\ registry = {} /\ living = {} /\ controllers = {}

(* A program that constructs its clients itself parses no file. *)
SetupInit == SetupStart /\ file \in Files /\ phase = IF file.direct THEN "hardware" ELSE "parse"
SetupIdle == SetupStart /\ file = File(<< >>, << >>) /\ phase = "off"

SetupSpec == SetupInit /\ [][SetupNext]_setupVars
-----------------------------------------------------------------------------
(* An id stands for one component; the faces in the registry are those of the living
   clients, all of them, whichever creation failed and for whatever reason; and a controller
   mirrors components that can work together.  The code is init_, its rollback, the
   destructor and create_controllers_from_global_config. *)
RegistryOwned ==
  /\ \A c, d \in registry : c.id = d.id => c = d
  /\ {c \in registry : c.kind = "face"} = UNION {FacesOf(k) : k \in living}
  /\ \A c \in registry : c.kind = "client" => c.client \in living
  /\ \A c \in controllers : c.leader.kind \in {"arm", "face"} /\ c.follower.kind \in {"arm", "face", "none"}

(* Of a client made from a file every column of the action row drives one face.  The code is
   from_json. *)
ColumnsDriven ==
  \A k \in living : ~file.direct =>
    LET layout == file.clients[k].layout
    IN  \A column \in 0 .. Width(layout, DOMAIN layout) - 1 :
          Cardinality({j \in DOMAIN layout :
            layout[j].offset <= column /\ column < layout[j].offset + layout[j].count}) = 1

(* The names are the named ones of the keys, in their order. *)
Carried(names, keys) ==
  \E at \in [DOMAIN names -> DOMAIN keys] :
    /\ \A i, j \in DOMAIN names : i < j => at[i] < at[j]
    /\ \A i \in DOMAIN names : keys[at[i]] = names[i]
    /\ \A p \in DOMAIN keys : Len(keys[p]) = 2 => \E i \in DOMAIN names : at[i] = p

(* Every name of a float feature without names of its own is a key the observations carry, in
   their order.  The code is configure, parse_policy_config and map_observation_. *)
NamesCarried ==
  \A k \in living : ~file.direct =>
    LET c == file.clients[k]
    IN  \A j \in DOMAIN c.features :
          c.transport = "lerobot_grpc" /\ c.features[j].dtype = "float32" /\ c.features[j].names = << >>
            => Carried(FeatureNames(c, c.features[j]), StateKeys(c))

(* What is registered has its owner, every column drives one face, every name is a key. *)
FacesOwned == RegistryOwned /\ ColumnsDriven /\ NamesCarried
=============================================================================
