----------------------------- MODULE PeripheralProofs -----------------------------
(***************************************************************************)
(* The viewer, the observation barrier, the replay, the MCAP file, the     *)
(* scheduler and the registry, each for every value of its constants.      *)
(***************************************************************************)
EXTENDS Viewer, Observation, Replay, McapFile, Scheduler, PolicySetup, FiniteSetTheorems, SequenceTheorems, WellFoundedInduction, TLAPS

(***************************************************************************)
(* The viewer.  Nothing of the episode that is showing is past the request *)
(* to clear while that is pending; what is on its way is of that episode   *)
(* or was waiting when it began; and only what is known is on display.     *)
(***************************************************************************)
Places == /\ showing \in Nat
          /\ slot = [v \in Views |-> slot[v]]
          /\ hand = [of |-> hand.of, rec |-> hand.rec, at |-> hand.at]

Underway ==
  /\ \A v \in Views : slot[v] # NoShow =>
       /\ slot[v].episode \in 0 .. showing
       /\ slot[v].episode = showing \/ <<v, slot[v].episode, slot[v].n>> \in over
  /\ hand # NoHand =>
       /\ hand.rec.episode \in 0 .. showing
       /\ hand.rec.episode = showing \/ <<hand.of, hand.rec.episode, hand.rec.n>> \in over

Uncleared == clearing => ~drawn /\ (hand.at = "log" => hand.rec.episode # showing)

OnDisplay ==
  \A p \in display :
    /\ p[1] \in known
    /\ clearing \/ p[3] = showing \/ <<p[1], p[3], p[4]>> \in over

ViewerInv == Places /\ Underway /\ Uncleared /\ OnDisplay

(* A record is logged below its own subscription, which is then known. *)
LEMMA PathsBelow ==
  ASSUME NEW v, NEW form, NEW q \in Paths(v, form)
  PROVE  /\ q[1] = v
         /\ form.is \in {"joints", "odometry"} \/ (form.is = "image" /\ form.size = "right")
<1>1. CASE form.is = "image"
  BY <1>1 DEF Paths
<1>2. CASE form.is = "joints"
  BY <1>2 DEF Paths
<1>3. CASE form.is = "odometry"
  BY <1>3 DEF Paths
<1>4. CASE form.is \notin {"image", "joints", "odometry"}
  BY <1>4 DEF Paths
<1>. QED
  BY <1>1, <1>2, <1>3, <1>4

LEMMA ViewerStarts == ViewerInit => ViewerInv
  BY DEF ViewerInit, ViewerStart, ViewerInv, Places, Underway, Uncleared, OnDisplay, NoHand, NoShow

LEMMA ViewerStep == ViewerInv /\ [ViewerNext]_viewerVars => ViewerInv'
<1>. SUFFICES ASSUME ViewerInv, [ViewerNext]_viewerVars PROVE ViewerInv'
  OBVIOUS
<1>. USE DEF ViewerInv
<1>1. CASE EpisodeShown
  <2>1. \A v \in Views : slot[v] # NoShow => <<v, slot[v].episode, slot[v].n>> \in over'
    BY <1>1 DEF EpisodeShown
  <2>2. hand # NoHand => <<hand.of, hand.rec.episode, hand.rec.n>> \in over'
    BY <1>1 DEF EpisodeShown
  <2>3. showing' = showing + 1 /\ clearing' /\ ~drawn' /\ UNCHANGED <<slot, hand, known, display>>
    BY <1>1 DEF EpisodeShown
  <2>4. Places' /\ Underway'
    BY <2>1, <2>2, <2>3 DEF Places, Underway
  <2>5. Uncleared'
    <3>1. hand.at = "log" => hand # NoHand
      BY DEF NoHand
    <3>. QED
      BY <2>3, <3>1 DEF Places, Underway, Uncleared
  <2>. QED
    BY <2>3, <2>4, <2>5 DEF OnDisplay
<1>2. ASSUME NEW v \in Views, Show(v) PROVE ViewerInv'
  <2>. PICK form \in Shapes :
           slot' = [slot EXCEPT ![v] = [episode |-> showing, n |-> shows[v], shape |-> form]]
    BY <1>2 DEF Show
  <2>1. UNCHANGED <<showing, hand, clearing, known, display, over, drawn>>
    BY <1>2 DEF Show
  <2>2. Places'
    BY <2>1 DEF Places
  <2>3. Underway'
    BY <2>1 DEF Places, Underway
  <2>. QED
    BY <2>1, <2>2, <2>3 DEF Uncleared, OnDisplay
<1>3. ASSUME NEW v \in Views, TakeShow(v) PROVE ViewerInv'
  <2>1. UNCHANGED <<showing, clearing, known, display, over, drawn>>
    BY <1>3 DEF TakeShow
  <2>2. hand' = [of |-> v, rec |-> slot[v], at |-> "clear"] /\ slot[v] # NoShow
    BY <1>3 DEF TakeShow
  <2>3. slot' = [slot EXCEPT ![v] = NoShow]
    BY <1>3 DEF TakeShow
  <2>4. Places' /\ Underway'
    BY <2>1, <2>2, <2>3 DEF Places, Underway
  <2>. QED
    BY <2>1, <2>2, <2>4 DEF Uncleared, OnDisplay
<1>4. CASE ClearDisplay
  <2>1. UNCHANGED <<showing, slot, known, over, drawn>> /\ ~clearing'
    BY <1>4 DEF ClearDisplay
  <2>2. hand.at = "clear" /\ hand' = [of |-> hand.of, rec |-> hand.rec, at |-> "log"]
    BY <1>4 DEF ClearDisplay, Places
  <2>3. hand # NoHand
    BY <2>2 DEF NoHand
  <2>4. Places' /\ Underway'
    BY <2>1, <2>2, <2>3 DEF Places, Underway
  <2>5. OnDisplay'
    <3>1. CASE clearing
      BY <1>4, <3>1, <2>1 DEF ClearDisplay, Cleared, OnDisplay
    <3>2. CASE ~clearing
      BY <1>4, <3>2, <2>1 DEF ClearDisplay, OnDisplay
    <3>. QED
      BY <3>1, <3>2
  <2>. QED
    BY <2>1, <2>4, <2>5 DEF Uncleared
<1>5. CASE Draw
  <2>. DEFINE rec == hand.rec  v == hand.of  new == {<<p[1], p[2], rec.episode, rec.n>> : p \in Paths(v, rec.shape)}
  <2>1. UNCHANGED <<showing, slot, clearing, over>> /\ hand' = NoHand /\ hand.at = "log"
    BY <1>5 DEF Draw
  <2>2. hand # NoHand
    BY <2>1 DEF NoHand
  <2>3. drawn' = (drawn \/ rec.episode = showing) /\ display' = display \cup new
    BY <1>5 DEF Draw
  <2>4. known \subseteq known'
    BY <1>5 DEF Draw
  <2>5. Places' /\ Underway'
    BY <2>1 DEF Places, Underway, NoHand
  <2>6. ASSUME NEW p \in new
        PROVE  p[1] \in known' /\ (p[3] = showing \/ <<p[1], p[3], p[4]>> \in over)
    <3>1. PICK q \in Paths(v, rec.shape) : p = <<q[1], q[2], rec.episode, rec.n>>
      BY <2>6
    <3>2. q[1] = v /\ v \in known'
      BY <1>5, PathsBelow DEF Draw
    <3>. QED
      BY <3>1, <3>2, <2>2 DEF Underway
  <2>7. OnDisplay'
    BY <2>1, <2>3, <2>4, <2>6 DEF OnDisplay
  <2>8. Uncleared'
    BY <2>1, <2>3 DEF Uncleared, NoHand
  <2>. QED
    BY <2>5, <2>7, <2>8
<1>6. CASE UNCHANGED viewerVars
  BY <1>6 DEF viewerVars, Places, Underway, Uncleared, OnDisplay
<1>. QED
  BY <1>1, <1>2, <1>3, <1>4, <1>5, <1>6 DEF ViewerNext

(* The code is on_episode_started and dispatch_ of RerunObserver. *)
THEOREM EpisodesApartHolds == ViewerSpec => []EpisodesApart
<1>1. ViewerInv => EpisodesApart
  BY DEF ViewerInv, Uncleared, OnDisplay, EpisodesApart
<1>. QED
  BY <1>1, ViewerStarts, ViewerStep, PTL DEF ViewerSpec

(***************************************************************************)
(* The observation.  The cache holds of every source its last record; a    *)
(* barrier that was passed stays passed, since generations only grow; and  *)
(* the mutex held from the test to the sleep leaves no delivery between    *)
(* the two.                                                                *)
(***************************************************************************)
Cached ==
  /\ gen \in [Sources -> Nat] /\ baseline \in [Sources -> Nat]
  /\ latest = [s \in Sources |-> latest[s]] /\ \A s \in Sources : latest[s].gen = gen[s]

Passed == outcome = "advanced" /\ cycle \in {"check", "pack"} => AllAdvanced

Sleeping ==
  /\ cycle = "sleep" => ~AllAdvanced
  /\ cycle = "asleep" /\ AllAdvanced => telling \cap Sources # {}

KnownSizes == \A c \in ToSet(Cameras) \ Resized : shape[c] \in Sizes \cup {"none"}

PackedFresh ==
  packed # NoPacked =>
    /\ packed.outcome = "advanced" => \A s \in Sources : packed.seen[s].gen > packed.over[s]
    /\ [k \in DOMAIN packed.images |-> packed.images[k].camera] = Cameras
    /\ \A k \in DOMAIN packed.images :
         LET image == packed.images[k]
         IN  image.size \in (IF image.camera \in Resized THEN {"resized"}
                            ELSE IF image.of > 0 THEN {packed.seen[image.camera].kind} ELSE Sizes)

ObservationInv == Cached /\ Passed /\ Sleeping /\ KnownSizes /\ PackedFresh

LEMMA ObservationStarts == ObservationInit => ObservationInv
  BY DEF ObservationInit, ObservationStart, ObservationInv, Cached, Passed, Sleeping, KnownSizes,
         PackedFresh, NoBaseline, NoRecord

(* The image of a camera that the packing reached is of a size the camera is known to have. *)
LEMMA ImageSize ==
  ASSUME ObservationInv, NEW c \in ToSet(Cameras), SizeOf(c) # "none"
  PROVE  Image(c).size \in (IF c \in Resized THEN {"resized"}
                            ELSE IF Image(c).of > 0 THEN {latest[c].kind} ELSE Sizes)
<1>1. CASE c \in Resized
  BY <1>1 DEF Image, SizeOf
<1>2. CASE c \notin Resized /\ Usable(c)
  BY <1>2 DEF Image, SizeOf, Usable
<1>3. CASE c \notin Resized /\ ~Usable(c)
  BY <1>3 DEF Image, SizeOf, ObservationInv, KnownSizes
<1>. QED
  BY <1>1, <1>2, <1>3

LEMMA PackingIsFresh ==
  ASSUME ObservationInv, PackObservation
  PROVE  PackedFresh'
<1>1. CASE ~Reached(Len(Cameras))
  BY <1>1 DEF PackObservation, PackedFresh
<1>2. CASE Reached(Len(Cameras))
  <2>1. packed' = [state |-> [s \in Joints |-> StateGroup(s)],
                   images |-> [k \in DOMAIN Cameras |-> Image(Cameras[k])],
                   seen |-> [s \in Sources |-> latest[s]], over |-> baseline, outcome |-> outcome]
    BY <1>2 DEF PackObservation
  <2>2. outcome = "advanced" => \A s \in Sources : latest[s].gen > baseline[s]
    BY DEF ObservationInv, Cached, Passed, AllAdvanced, PackObservation
  <2>3. Cameras = [k \in DOMAIN Cameras |-> Cameras[k]] /\ DOMAIN Cameras = 1 .. Len(Cameras)
    BY ObservationAssumption
  <2>4. \A k \in DOMAIN Cameras : Cameras[k] \in ToSet(Cameras)
    BY DEF ToSet
  <2>5. \A k \in DOMAIN Cameras : SizeOf(Cameras[k]) # "none"
    BY <1>2, <2>3 DEF Reached
  <2>6. \A k \in DOMAIN Cameras : packed'.images[k] = Image(Cameras[k])
    BY <2>1
  <2>7. \A c \in ToSet(Cameras) : Image(c).camera = c /\ packed'.seen[c] = latest[c]
    BY <2>1 DEF Image, Sources
  <2>8. DOMAIN packed'.images = DOMAIN Cameras
    BY <2>1
  <2>9. [k \in DOMAIN packed'.images |-> packed'.images[k].camera] = Cameras
    BY <2>3, <2>4, <2>6, <2>7, <2>8
  <2>10. ASSUME NEW k \in DOMAIN Cameras
         PROVE  Image(Cameras[k]).size \in
                  (IF Cameras[k] \in Resized THEN {"resized"}
                   ELSE IF Image(Cameras[k]).of > 0 THEN {latest[Cameras[k]].kind} ELSE Sizes)
    BY <2>4, <2>5, ImageSize
  <2>11. ASSUME NEW k \in DOMAIN packed'.images
         PROVE  packed'.images[k].size \in
                  (IF packed'.images[k].camera \in Resized THEN {"resized"}
                   ELSE IF packed'.images[k].of > 0
                     THEN {packed'.seen[packed'.images[k].camera].kind} ELSE Sizes)
    <3>1. k \in DOMAIN Cameras /\ Cameras[k] \in ToSet(Cameras)
      BY <2>4, <2>8
    <3>2. packed'.images[k] = Image(Cameras[k])
      BY <2>6, <3>1
    <3>3. packed'.images[k].camera = Cameras[k] /\ packed'.seen[Cameras[k]] = latest[Cameras[k]]
      BY <2>7, <3>1, <3>2
    <3>. QED
      BY <2>10, <3>1, <3>2, <3>3
  <2>12. packed'.outcome = "advanced" => \A s \in Sources : packed'.seen[s].gen > packed'.over[s]
    BY <2>1, <2>2
  <2>. QED
    BY <2>9, <2>11, <2>12 DEF PackedFresh
<1>. QED
  BY <1>1, <1>2

LEMMA ObservationStep == ObservationInv /\ [ObservationNext]_observationVars => ObservationInv'
<1>. SUFFICES ASSUME ObservationInv, [ObservationNext]_observationVars PROVE ObservationInv'
  OBVIOUS
<1>. USE DEF ObservationInv
<1>1. ASSUME NEW s \in Sources, Deliver(s) PROVE ObservationInv'
  <2>1. UNCHANGED <<cycle, baseline, outcome, shape>> /\ packed' = NoPacked
    BY <1>1 DEF Deliver, Silent
  <2>2. gen' = [gen EXCEPT ![s] = @ + 1] /\ cycle \notin {"sleep", "woken"}
    BY <1>1 DEF Deliver
  <2>3. Cached'
    <3>. PICK k \in Kinds(s) : latest' = [latest EXCEPT ![s] = [gen |-> gen'[s], kind |-> k]]
      BY <1>1 DEF Deliver
    <3>. QED
      BY <2>1, <2>2 DEF Cached
  <2>4. AllAdvanced => AllAdvanced'
    BY <2>1, <2>2 DEF AllAdvanced, Cached
  <2>5. cycle = "asleep" => s \in telling'
    BY <1>1 DEF Deliver
  <2>. QED
    BY <2>1, <2>2, <2>3, <2>4, <2>5 DEF Passed, Sleeping, KnownSizes, PackedFresh
<1>2. CASE Toggle
  BY <1>2 DEF Toggle, Silent, Cached, Passed, Sleeping, KnownSizes, PackedFresh, AllAdvanced
<1>3. CASE StopObserving
  BY <1>3 DEF StopObserving, Silent, Cached, Passed, Sleeping, KnownSizes, PackedFresh, AllAdvanced
<1>4. ASSUME NEW t \in Sources \cup {"program"}, NotifyFresh(t) PROVE ObservationInv'
  BY <1>4 DEF NotifyFresh, Silent, Cached, Passed, Sleeping, KnownSizes, PackedFresh, AllAdvanced
<1>5. CASE TakeBaseline
  BY <1>5 DEF TakeBaseline, Stands, Silent, Cached, Passed, Sleeping, KnownSizes, PackedFresh
<1>6. CASE TestFresh \/ FallAsleep \/ TimeOut \/ LeaveLoop
  BY <1>6 DEF TestFresh, FallAsleep, TimeOut, LeaveLoop, Stands, Silent, Cached, Passed, Sleeping,
              KnownSizes, PackedFresh, AllAdvanced
<1>7. CASE LeaveBarrier
  BY <1>7 DEF LeaveBarrier, Stands, Silent, Cached, Passed, Sleeping, KnownSizes, PackedFresh,
              AllAdvanced
<1>8. CASE CheckFlags
  BY <1>8 DEF CheckFlags, Stands, Silent, Cached, Passed, Sleeping, KnownSizes, PackedFresh,
              AllAdvanced, NoBaseline
<1>9. CASE PackObservation
  <2>1. Cached' /\ Passed' /\ Sleeping'
    BY <1>9 DEF PackObservation, Stands, Cached, Passed, Sleeping, NoBaseline
  <2>2. KnownSizes'
    BY <1>9 DEF PackObservation, KnownSizes, SizeOf, Usable
  <2>. QED
    BY <1>9, <2>1, <2>2, PackingIsFresh
<1>10. CASE UNCHANGED observationVars
  BY <1>10 DEF observationVars, Cached, Passed, Sleeping, KnownSizes, PackedFresh, AllAdvanced
<1>. QED
  BY <1>1, <1>2, <1>3, <1>4, <1>5, <1>6, <1>7, <1>8, <1>9, <1>10 DEF ObservationNext

(* An observation past the barrier is of records newer than the wait, one image of a known size
   for every camera, and nobody is left asleep before a full cache.  The code is
   wait_for_fresh_observations_ and pack_observation_ of the policy client. *)
THEOREM FreshObservationHolds == ObservationSpec => []FreshObservation
<1>1. ObservationInv => FreshObservation
  BY DEF ObservationInv, Sleeping, PackedFresh, FreshObservation
<1>. QED
  BY <1>1, ObservationStarts, ObservationStep, PTL DEF ObservationSpec

(***************************************************************************)
(* The replay.  Until it plays nothing has moved on; while it plays, every *)
(* driven stream stands at the frame or at its end.                        *)
(***************************************************************************)
Drivers ==
  /\ drivers \subseteq Followers /\ slates \subseteq Wheels
  /\ frames \in Nat /\ recording \in [Recorded -> Nat]
  /\ indices = [s \in Recorded |-> indices[s]]
  /\ position = [s \in Followers |-> position[s]] /\ velocity = [s \in Wheels |-> velocity[s]]
  /\ \A s \in Wheels \ slates : velocity[s] = 0

NotPlayed ==
  stage \in {"arms", "read", "first", "reference"} =>
    /\ frames = 0 /\ moved = {}
    /\ \A s \in Recorded : indices[s] = 0
    /\ \A s \in Wheels : velocity[s] = 0

PlayedOut ==
  stage \in {"home", "brake"} =>
    /\ ctrlC \/ \A s \in Driven : indices[s] = recording[s]
    /\ stage = "brake" => \A s \in drivers : position[s] = Asleep

ReplayInv == Drivers /\ NotPlayed /\ PlayedOut /\ ReplayFaithful

LEMMA ReplayStarts == ReplayInit => ReplayInv
  BY ReplayAssumption
  DEF ReplayInit, ReplayStart, ReplayInv, Drivers, NotPlayed, PlayedOut, ReplayFaithful

LEMMA ReplayStep == ReplayInv /\ [ReplayNext]_replayVars => ReplayInv'
<1>. SUFFICES ASSUME ReplayInv, [ReplayNext]_replayVars PROVE ReplayInv'
  OBVIOUS
<1>. USE DEF ReplayInv
<1>1. CASE CtrlC
  BY <1>1 DEF CtrlC, Drivers, NotPlayed, PlayedOut, ReplayFaithful, Driven
<1>2. CASE OpenArms \/ ReadFails
  BY <1>2 DEF OpenArms, ReadFails, Drivers, NotPlayed, PlayedOut, ReplayFaithful
<1>3. CASE OpenBases \/ ToFirst
  BY <1>3 DEF OpenBases, ToFirst, Drivers, NotPlayed, PlayedOut, ReplayFaithful
<1>4. CASE PickReference
  <2>1. /\ UNCHANGED <<recording, drivers, slates, indices, frames, position, velocity, moved>>
        /\ stage = "reference" /\ stage' \in {"failed", "play"}
    BY <1>4 DEF PickReference
  <2>2. frames = 0 /\ moved = {}
        /\ \A s \in Driven : indices[s] = 0 /\ (s \in Wheels => velocity[s] = 0)
    BY <2>1 DEF NotPlayed, Drivers, Driven, Recorded
  <2>3. \A s \in Driven : (IF frames < recording[s] THEN frames ELSE recording[s]) = 0
    BY <2>2 DEF Drivers, Driven, Recorded
  <2>4. ReplayFaithful'
    BY <2>1, <2>2, <2>3 DEF ReplayFaithful, Driven
  <2>. QED
    BY <2>1, <2>4 DEF Drivers, NotPlayed, PlayedOut
<1>5. CASE PlayFrame
  <2>1. UNCHANGED <<stage, recording, drivers, slates, ctrlC>> /\ frames' = frames + 1 /\ stage = "play"
    BY <1>5 DEF PlayFrame
  <2>2. Drivers'
    BY <1>5 DEF PlayFrame, Drivers
  <2>3. ASSUME NEW s \in Driven
        PROVE  LET at == IF frames' < recording[s] THEN frames' ELSE recording[s]
               IN  /\ indices'[s] = at
                   /\ s \in Wheels => velocity'[s] = at
                   /\ s \in Followers /\ at > 0 => position'[s] = at
    <3>1. /\ indices[s] = IF frames < recording[s] THEN frames ELSE recording[s]
          /\ s \in Wheels => velocity[s] = indices[s]
          /\ s \in Followers /\ indices[s] > 0 => position[s] = indices[s]
      BY <2>1 DEF ReplayFaithful
    <3>2. s \in Recorded /\ recording[s] \in Nat /\ frames \in Nat
      BY DEF Drivers, Driven, Recorded
    <3>3. /\ indices'[s] = IF Left(s) THEN indices[s] + 1 ELSE indices[s]
          /\ s \in Wheels => velocity'[s] = IF Left(s) THEN indices'[s] ELSE velocity[s]
          /\ s \in Followers => position'[s] = IF Left(s) THEN indices'[s] ELSE position[s]
      BY <1>5, <3>2, ReplayAssumption DEF PlayFrame, Driven, Drivers
    <3>. QED
      BY <2>1, <3>1, <3>2, <3>3 DEF Left
  <2>4. ReplayFaithful'
    BY <2>1, <2>3 DEF ReplayFaithful, Driven
  <2>. QED
    BY <2>1, <2>2, <2>4 DEF NotPlayed, PlayedOut
<1>6. CASE PlayEnds
  <2>1. /\ UNCHANGED <<recording, drivers, slates, frames, position, velocity, moved, ctrlC>>
        /\ stage = "play" /\ stage' = "home"
    BY <1>6 DEF PlayEnds
  <2>2. \A s \in Driven : indices'[s] = indices[s]
    BY <1>6 DEF PlayEnds, Played, Driven, Drivers, Recorded
  <2>3. Drivers'
    BY <1>6, <2>1 DEF PlayEnds, Drivers
  <2>4. ctrlC \/ \A s \in Driven : indices[s] = recording[s]
    BY <1>6, <2>1 DEF PlayEnds, Played, Left, ReplayFaithful, Driven, Drivers, Recorded
  <2>. QED
    BY <2>1, <2>2, <2>3, <2>4 DEF NotPlayed, PlayedOut, ReplayFaithful, Driven
<1>7. CASE SendHome
  <2>1. /\ UNCHANGED <<recording, drivers, slates, indices, frames, velocity, moved, ctrlC>>
        /\ stage = "home" /\ stage' = "brake"
        /\ position' = [s \in Followers |-> IF s \in drivers THEN Asleep ELSE position[s]]
    BY <1>7 DEF SendHome
  <2>. QED
    BY <2>1 DEF Drivers, NotPlayed, PlayedOut, ReplayFaithful, Driven
<1>8. CASE Brake
  <2>1. /\ UNCHANGED <<recording, drivers, slates, indices, frames, position, moved, ctrlC>>
        /\ stage = "brake" /\ stage' = "done"
        /\ velocity' = [s \in Wheels |-> IF s \in slates THEN 0 ELSE velocity[s]]
    BY <1>8 DEF Brake
  <2>. QED
    BY <2>1 DEF Drivers, NotPlayed, PlayedOut, ReplayFaithful, Driven
<1>9. CASE UNCHANGED replayVars
  BY <1>9 DEF replayVars, Drivers, NotPlayed, PlayedOut, ReplayFaithful, Driven
<1>. QED
  BY <1>1, <1>2, <1>3, <1>4, <1>5, <1>6, <1>7, <1>8, <1>9 DEF ReplayNext

(* A replay keeps its streams in step, plays all of them out unless stopped, and leaves arms
   asleep and bases at rest.  The code is main of the replay script. *)
THEOREM ReplayFaithfulHolds == ReplaySpec => []ReplayFaithful
<1>1. ReplayInv => ReplayFaithful
  BY DEF ReplayInv
<1>. QED
  BY <1>1, ReplayStarts, ReplayStep, PTL DEF ReplaySpec

(***************************************************************************)
(* The MCAP file.  A packet follows the last one its encoder made, logged  *)
(* or lost (Continued); what a stream still has to get of the batch is     *)
(* later than what it has, and is all it lacks (LogsInOrder,                *)
(* NothingMissing).                                                         *)
(***************************************************************************)
Packet == [stamp : Nat, of : Nat, n : Nat, key : BOOLEAN, bitstream : {"h264", "h265"}]
Message == [stamp : Nat] \union Packet
Encoder == [name : {"none", "nvenc", "vaapi", "software"}, bitstream : {"none", "h264", "h265"},
            of : Nat, frames : Nat]
PlaneLists == Planes \union {<<"camera_depth">>}
Due == [planes : PlaneLists, stamp : Nat]

McapTypes ==
  /\ storage \in {"raw", "video"} /\ requested \in {"auto", "nvenc", "x264", "libx265"}
  /\ opened \in BOOLEAN /\ files \in 0 .. MaxFiles /\ path \in 0 .. MaxFiles /\ disk \subseteq 1 .. MaxFiles
  /\ content \in [1 .. MaxFiles -> [Topics -> Seq(Message)]]
  /\ handed \in [1 .. MaxFiles -> [Topics -> SUBSET Nat]]
  /\ encoder \in [Images -> Encoder]
  /\ batch \in Seq(Due)
  /\ records \in Nat /\ mishaps \in Nat

(* Records are written, and encoders kept, while a file is open. *)
WhileOpen == IF opened THEN path # 0 ELSE encoder = NoEncoders /\ batch = << >>

Carries(k, s) == \E p \in DOMAIN batch[k].planes : batch[k].planes[p] = s
Pending(s) == {batch[k].stamp : k \in {n \in DOMAIN batch : Carries(n, s)}}
Stamped(f, s) == {content[f][s][k].stamp : k \in DOMAIN content[f][s]}

BatchInOrder ==
  /\ \A j, k \in DOMAIN batch : j < k => batch[j].stamp < batch[k].stamp
  /\ \A k \in DOMAIN batch : batch[k].stamp <= records

LogsInOrder ==
  \A f \in 1 .. MaxFiles, s \in Topics :
    /\ \A j, k \in DOMAIN content[f][s] : j < k => content[f][s][j].stamp < content[f][s][k].stamp
    /\ \A x \in Stamped(f, s) : x <= records
    /\ f = path => \A x \in Stamped(f, s), y \in Pending(s) : x < y

NothingMissing ==
  mishaps = 0 =>
    \A f \in 1 .. MaxFiles, s \in Topics :
      (Video(s) => Chosen(Codec(s)) # {})
        => handed[f][s] = Stamped(f, s) \union (IF f = path THEN Pending(s) ELSE {})

Follows(f, s, k) ==
  LET log == content[f][s]
  IN  \/ log[k].key
      \/ k > 1 /\ log[k - 1].of = log[k].of /\ log[k - 1].n = log[k].n - 1
      \/ <<log[k].of, s, log[k].n - 1>> \in lost

Playable ==
  \A f \in 1 .. MaxFiles, s \in Images : storage = "video" =>
    \A k \in DOMAIN content[f][s] :
      /\ content[f][s][k] \in Packet /\ Follows(f, s, k)
      /\ requested # "libx265" => content[f][s][k].bitstream = Codec(s)

(* An encoder of the file, and whether its last packet is the last one logged. *)
OfFile(s, e) == e.of = path /\ e.bitstream # "none" /\ (requested # "libx265" => e.bitstream = Codec(s))
LastPacket(s, e) ==
  LET log == content[path][s]
  IN  \/ e.frames = 0 \/ <<path, s, e.frames>> \in lost
      \/ Len(log) > 0 /\ log[Len(log)].of = path /\ log[Len(log)].n = e.frames

Continued ==
  storage = "video" /\ opened =>
    \A s \in Images : encoder[s] # NoEncoder => OfFile(s, encoder[s]) /\ LastPacket(s, encoder[s])

McapInv == McapTypes /\ WhileOpen /\ BatchInOrder /\ LogsInOrder /\ NothingMissing /\ Playable /\ Continued

LEMMA McapStarts == McapInit => McapInv
<1>. SUFFICES ASSUME McapInit PROVE McapInv
  OBVIOUS
<1>. USE DEF McapInit, McapStart
<1>1. /\ batch = << >> /\ batch \in Seq(Due) /\ DOMAIN batch = {}
      /\ \A f \in 1 .. MaxFiles, s \in Topics : content[f][s] = << >> /\ DOMAIN content[f][s] = {} /\ handed[f][s] = {}
  BY DEF NoMessages, NoStamps
<1>2. \A f \in 1 .. MaxFiles, s \in Topics : Stamped(f, s) = {} /\ Pending(s) = {}
  BY <1>1 DEF Stamped, Pending
<1>3. \A s \in Images : s \in Topics /\ encoder[s] = NoEncoder
  BY DEF NoEncoders, Images, Topics
<1>4. McapTypes
  <2>1. /\ content \in [1 .. MaxFiles -> [Topics -> Seq(Message)]]
        /\ handed \in [1 .. MaxFiles -> [Topics -> SUBSET Nat]]
    BY DEF NoMessages, NoStamps
  <2>2. encoder \in [Images -> Encoder]
    BY DEF NoEncoders, NoEncoder, Encoder
  <2>3. /\ storage \in {"raw", "video"} /\ requested \in {"auto", "nvenc", "x264", "libx265"}
        /\ opened = FALSE /\ files = 0 /\ path = 0 /\ disk = {} /\ records = 0 /\ mishaps = 0
    OBVIOUS
  <2>4. 0 \in 0 .. MaxFiles
    BY McapAssumption
  <2>. HIDE DEF McapInit, McapStart
  <2>. QED
    BY <1>1, <2>1, <2>2, <2>3, <2>4 DEF McapTypes
<1>5. BatchInOrder /\ LogsInOrder /\ NothingMissing
  BY <1>1, <1>2 DEF BatchInOrder, LogsInOrder, NothingMissing
<1>6. Playable /\ Continued /\ WhileOpen
  BY <1>1, <1>3 DEF Playable, Continued, WhileOpen
<1>. QED
  BY <1>4, <1>5, <1>6 DEF McapInv

LEMMA McapMeans == McapInv => EpisodeDecodes
<1>. SUFFICES ASSUME McapInv, NEW f \in disk, NEW s \in Topics
              PROVE LET log == content[f][s]
                        video == storage = "video" /\ s \in Images
                    IN  /\ video => \A k \in DOMAIN log :
                             /\ \/ log[k].key
                                \/ k > 1 /\ log[k - 1].of = log[k].of /\ log[k - 1].n = log[k].n - 1
                                \/ <<log[k].of, s, log[k].n - 1>> \in lost
                             /\ requested # "libx265" => log[k].bitstream = Codec(s)
                        /\ mishaps = 0 /\ (Free \/ f # path) /\ (video => Chosen(Codec(s)) # {})
                             => /\ {log[k].stamp : k \in DOMAIN log} = handed[f][s]
                                /\ \A j, k \in DOMAIN log : j < k => log[j].stamp < log[k].stamp
  BY DEF EpisodeDecodes
<1>1. f \in 1 .. MaxFiles
  BY DEF McapInv, McapTypes
<1>2. Free => Pending(s) = {}
  BY DEF Free, Pending
<1>3. storage = "video" /\ s \in Images => \A k \in DOMAIN content[f][s] :
        /\ Follows(f, s, k) /\ (requested # "libx265" => content[f][s][k].bitstream = Codec(s))
  BY <1>1 DEF McapInv, Playable
<1>4. mishaps = 0 /\ (Free \/ f # path) /\ (Video(s) => Chosen(Codec(s)) # {}) => Stamped(f, s) = handed[f][s]
  BY <1>1, <1>2 DEF McapInv, NothingMissing
<1>5. \A j, k \in DOMAIN content[f][s] : j < k => content[f][s][j].stamp < content[f][s][k].stamp
  BY <1>1 DEF McapInv, LogsInOrder
<1>. QED
  BY <1>3, <1>4, <1>5 DEF Follows, Stamped, Video

(* What is on disk plays as long as it is not written to. *)
LEMMA PlayableStays ==
  ASSUME Playable, UNCHANGED <<content, storage, requested>>, lost \subseteq lost'
  PROVE  Playable'
<1>1. \A f \in 1 .. MaxFiles, s \in Images : \A k \in DOMAIN content[f][s] : Follows(f, s, k) => Follows(f, s, k)'
  BY DEF Follows
<1>. QED
  BY <1>1 DEF Playable

LEMMA BatchStays ==
  ASSUME UNCHANGED <<batch, content>>
  PROVE  /\ \A s : Pending(s)' = Pending(s)
         /\ \A f, s : Stamped(f, s)' = Stamped(f, s)
  BY DEF Pending, Stamped, Carries

LEMMA ChosenStays ==
  ASSUME UNCHANGED <<storage, requested, usable>>, NEW s
  PROVE  (Video(s) => Chosen(Codec(s)) # {})' <=> (Video(s) => Chosen(Codec(s)) # {})
<1>1. \A codec : Candidates(codec)' = Candidates(codec)
  BY DEF Candidates
<1>2. \A candidate, codec : Opens(candidate, codec)' <=> Opens(candidate, codec)
  BY DEF Opens
<1>3. \A codec : Chosen(codec)' = Chosen(codec)
  BY <1>1, <1>2 DEF Chosen
<1>. QED
  BY <1>3 DEF Video, Codec, Depth

LEMMA OpenFileKeeps == ASSUME McapInv, OpenFile PROVE McapInv'
<1>1. /\ batch = << >> /\ ~opened /\ encoder = NoEncoders /\ path' = files + 1 /\ files' = files + 1 /\ files < MaxFiles
      /\ UNCHANGED <<storage, requested, usable, channels, encoder, content, handed, lost, batch, records>>
      /\ opened' \in BOOLEAN /\ mishaps' \in Nat /\ (mishaps' = 0 => mishaps = 0)
      /\ disk' \in {disk, disk \union {files + 1}}
  <2>1. opened \in BOOLEAN /\ ~opened /\ batch = << >> /\ mishaps \in Nat /\ encoder = NoEncoders
    BY DEF OpenFile, McapInv, McapTypes, WhileOpen, Free
  <2>2. mishaps' \in Nat /\ (mishaps' = 0 => mishaps = 0) /\ opened' \in BOOLEAN
        /\ disk' \in {disk, disk \union {files + 1}}
    <3>1. CASE opened' = TRUE /\ disk' = disk \union {files'} /\ UNCHANGED mishaps
      BY <2>1, <3>1 DEF OpenFile
    <3>2. CASE mishaps' = mishaps + 1 /\ UNCHANGED <<opened, disk>>
      BY <2>1, <3>2
    <3>. QED
      BY <3>1, <3>2 DEF OpenFile, Mishap
  <2>. QED
    BY <2>1, <2>2 DEF OpenFile
<1>2. \A s : Pending(s) = {} /\ Pending(s)' = {}
  BY <1>1 DEF Pending
<1>3. McapTypes'
  BY <1>1, McapAssumption DEF McapInv, McapTypes
<1>4. WhileOpen' /\ Continued'
  BY <1>1 DEF McapInv, McapTypes, WhileOpen, Continued, NoEncoders
<1>5. BatchInOrder' /\ LogsInOrder'
  BY <1>1, <1>2, BatchStays DEF McapInv, BatchInOrder, LogsInOrder
<1>6. NothingMissing'
  BY <1>1, <1>2, BatchStays, ChosenStays DEF McapInv, NothingMissing
<1>. QED
  BY <1>1, <1>3, <1>4, <1>5, <1>6, PlayableStays DEF McapInv

LEMMA ClosingKeeps == ASSUME McapInv, Close \/ Renew \/ Discard PROVE McapInv'
<1>1. /\ batch = << >> /\ opened' = FALSE /\ encoder' = NoEncoders /\ path' \in {path, 0}
      /\ UNCHANGED <<storage, requested, usable, content, handed, lost, batch, records, files, mishaps>>
      /\ disk' \subseteq disk
  BY DEF Close, Renew, Discard, CloseResources, Free
<1>2. \A s : Pending(s) = {} /\ Pending(s)' = {}
  BY <1>1 DEF Pending
<1>3. McapTypes'
  <2>1. NoEncoders \in [Images -> Encoder]
    BY DEF NoEncoders, NoEncoder, Encoder
  <2>2. path' \in 0 .. MaxFiles /\ disk' \subseteq 1 .. MaxFiles
    BY <1>1, McapAssumption DEF McapInv, McapTypes
  <2>. QED
    BY <1>1, <2>1, <2>2 DEF McapInv, McapTypes
<1>4. WhileOpen' /\ Continued'
  BY <1>1 DEF WhileOpen, Continued
<1>5. BatchInOrder' /\ LogsInOrder'
  BY <1>1, <1>2, BatchStays DEF McapInv, BatchInOrder, LogsInOrder
<1>6. NothingMissing'
  BY <1>1, <1>2, BatchStays, ChosenStays DEF McapInv, NothingMissing
<1>. QED
  BY <1>1, <1>3, <1>4, <1>5, <1>6, PlayableStays DEF McapInv

(* The planes of a record, and what is left of them when the first is written. *)
LEMMA PlanesAre ==
  ASSUME NEW planes \in PlaneLists
  PROVE  /\ planes \in Seq(Topics) /\ planes # << >> /\ Len(planes) \in {1, 2}
         /\ DOMAIN planes = 1 .. Len(planes)
         /\ Len(planes) = 2 => planes = <<"camera", "camera_depth">>
<1>1. \/ \E t \in Topics : planes = <<t>>
      \/ planes = <<"camera", "camera_depth">>
  BY DEF PlaneLists, Planes, Topics
<1>2. CASE planes = <<"camera", "camera_depth">>
  BY <1>2 DEF Topics
<1>3. CASE \E t \in Topics : planes = <<t>>
  BY <1>3
<1>. QED
  BY <1>1, <1>2, <1>3

LEMMA BeginKeeps ==
  ASSUME McapInv, NEW planes \in Seq(Planes), Len(planes) \in {1, 2}, Begin(planes)
  PROVE  McapInv'
<1>1. /\ batch = << >> /\ opened /\ path \in 1 .. MaxFiles
      /\ batch' = [k \in DOMAIN planes |-> [planes |-> planes[k], stamp |-> records + k]]
      /\ records' = records + Len(planes)
      /\ UNCHANGED <<storage, requested, usable, opened, path, channels, encoder, disk, content, lost, files, mishaps>>
  BY DEF Begin, Free, McapInv, McapTypes, WhileOpen
<1>2. /\ DOMAIN planes = 1 .. Len(planes) /\ records \in Nat
      /\ \A k \in DOMAIN planes : planes[k] \in Planes
  BY DEF McapInv, McapTypes
<1>3. /\ batch' \in Seq(Due) /\ DOMAIN batch' = 1 .. Len(planes)
      /\ \A k \in 1 .. Len(planes) : batch'[k].stamp = records + k /\ batch'[k].planes = planes[k]
  <2>1. \A k \in DOMAIN planes : [planes |-> planes[k], stamp |-> records + k] \in Due
    BY <1>2 DEF Due, PlaneLists
  <2>. QED
    BY <1>1, <1>2, <2>1
<1>4. \A s : Pending(s) = {}
  BY <1>1 DEF Pending
<1>5. \A s : /\ Pending(s)' = {records + k : k \in {n \in DOMAIN planes : \E p \in DOMAIN planes[n] : planes[n][p] = s}}
             /\ \A y \in Pending(s)' : y \in Nat /\ records < y
  <2>1. ASSUME NEW s
        PROVE  Pending(s)' = {records + k : k \in {n \in DOMAIN planes : \E p \in DOMAIN planes[n] : planes[n][p] = s}}
    BY <1>2, <1>3 DEF Pending, Carries
  <2>. QED
    BY <1>2, <2>1
<1>6. \A f, s : Stamped(f, s)' = Stamped(f, s)
  BY <1>1 DEF Stamped
<1>7. \A f \in 1 .. MaxFiles, s \in Topics : handed'[f][s] = handed[f][s] \union (IF f = path THEN Pending(s)' ELSE {})
  BY <1>1, <1>5 DEF Begin, McapInv, McapTypes
<1>8. McapTypes'
  <2>1. handed' \in [1 .. MaxFiles -> [Topics -> SUBSET Nat]]
    <3>1. \A s \in Topics : handed[path][s] \union Pending(s)' \in SUBSET Nat
      BY <1>1, <1>5 DEF McapInv, McapTypes
    <3>2. handed' = [handed EXCEPT ![path] = [s \in Topics |-> handed[path][s] \union Pending(s)']]
      BY <1>1, <1>5 DEF Begin
    <3>. QED
      BY <3>1, <3>2, <1>1 DEF McapInv, McapTypes
  <2>2. records' \in Nat
    BY <1>1, <1>2
  <2>. QED
    BY <1>1, <1>3, <2>1, <2>2 DEF McapInv, McapTypes
<1>9. WhileOpen' /\ Continued'
  <2>1. WhileOpen'
    BY <1>1 DEF WhileOpen
  <2>2. Continued'
    BY <1>1 DEF McapInv, Continued, OfFile, LastPacket
  <2>. QED
    BY <2>1, <2>2
<1>10. BatchInOrder'
  BY <1>1, <1>2, <1>3 DEF BatchInOrder
<1>11. LogsInOrder'
  <2>1. \A f, s : \A x \in Stamped(f, s) : x <= records /\ x \in Nat => x <= records'
    BY <1>1, <1>2
  <2>2. \A f \in 1 .. MaxFiles, s \in Topics : \A x \in Stamped(f, s) : x \in Nat
    BY DEF Stamped, McapInv, McapTypes, Message, Packet
  <2>3. \A f \in 1 .. MaxFiles, s \in Topics : \A x \in Stamped(f, s) : x <= records'
    BY <2>1, <2>2 DEF McapInv, LogsInOrder
  <2>4. \A f \in 1 .. MaxFiles, s \in Topics : \A x \in Stamped(f, s), y \in Pending(s)' : x < y
    BY <1>2, <1>5, <2>2 DEF McapInv, LogsInOrder
  <2>. QED
    BY <1>1, <1>6, <2>3, <2>4 DEF McapInv, LogsInOrder
<1>12. NothingMissing'
  BY <1>1, <1>4, <1>6, <1>7, ChosenStays DEF McapInv, NothingMissing
<1>13. Playable'
  BY <1>1, PlayableStays DEF McapInv
<1>. QED
  BY <1>8, <1>9, <1>10, <1>11, <1>12, <1>13 DEF McapInv

(* What is left of a batch when a plane, or a record, of its first is done with. *)
LEMMA NextIs ==
  ASSUME McapTypes, BatchInOrder, ~Free, NextPlane \/ NextRecord, records' = records
  PROVE  /\ Topic \in Topics /\ Stamp \in Nat /\ Stamp <= records /\ Stamp \in Pending(Topic)
         /\ batch' \in Seq(Due) /\ BatchInOrder'
         /\ \A s : Pending(s)' \subseteq Pending(s)
         /\ \A s : s = Topic => \A y \in Pending(s)' : Stamp < y
         /\ NextPlane => \A s : Pending(s) \subseteq Pending(s)' \union (IF s = Topic THEN {Stamp} ELSE {})
<1>1. /\ batch \in Seq(Due) /\ batch # << >> /\ Len(batch) \in Nat \ {0} /\ DOMAIN batch = 1 .. Len(batch)
      /\ \A k \in 1 .. Len(batch) : batch[k] \in Due /\ batch[k].planes \in PlaneLists /\ batch[k].stamp \in Nat
  <2>1. batch \in Seq(Due) /\ batch # << >>
    BY DEF McapTypes, Free
  <2>2. Len(batch) \in Nat \ {0} /\ DOMAIN batch = 1 .. Len(batch) /\ \A k \in 1 .. Len(batch) : batch[k] \in Due
    BY <2>1
  <2>. QED
    BY <2>1, <2>2 DEF Due
<1>. DEFINE planes == batch[1].planes
<1>2. /\ planes \in Seq(Topics) /\ Len(planes) \in {1, 2} /\ DOMAIN planes = 1 .. Len(planes) /\ planes[1] \in Topics
      /\ Len(planes) = 2 => planes = <<"camera", "camera_depth">>
  BY <1>1, PlanesAre
<1>3. /\ Topic = planes[1] /\ Topic \in Topics /\ Stamp = batch[1].stamp /\ Stamp \in Nat /\ Stamp <= records
      /\ Carries(1, Topic)
  BY <1>1, <1>2 DEF Topic, Stamp, BatchInOrder, Carries
<1>4. Stamp \in Pending(Topic)
  BY <1>1, <1>3 DEF Pending
<1>. DEFINE of(s) == {n \in 1 .. Len(batch) : Carries(n, s)}
<1>7. \A s : Pending(s) = {batch[k].stamp : k \in of(s)}
  BY <1>1 DEF Pending
<1>5. CASE batch' = Tail(batch)
  <2>1. /\ batch' \in Seq(Due) /\ DOMAIN batch' = 1 .. Len(batch) - 1
        /\ \A k \in 1 .. Len(batch) - 1 : batch'[k] = batch[k + 1] /\ k + 1 \in 1 .. Len(batch)
    BY <1>1, <1>5
  <2>2. BatchInOrder'
    <3>1. \A j, k \in 1 .. Len(batch) - 1 : j < k => batch[j + 1].stamp < batch[k + 1].stamp
      BY <1>1 DEF BatchInOrder
    <3>2. \A k \in 1 .. Len(batch) - 1 : batch[k + 1].stamp <= records'
      BY <1>1 DEF BatchInOrder
    <3>. QED
      BY <2>1, <3>1, <3>2 DEF BatchInOrder
  <2>3. \A s : Pending(s)' = {batch[k].stamp : k \in {n \in 2 .. Len(batch) : Carries(n, s)}}
    <3>1. \A s : \A k \in 1 .. Len(batch) - 1 : Carries(k, s)' <=> Carries(k + 1, s)
      BY <2>1 DEF Carries
    <3>2. \A n \in 2 .. Len(batch) : n - 1 \in 1 .. Len(batch) - 1 /\ (n - 1) + 1 = n
      BY <1>1
    <3>3. \A s : Pending(s)' = {batch'[k].stamp : k \in {n \in 1 .. Len(batch) - 1 : Carries(n, s)'}}
      BY <2>1 DEF Pending
    <3>4. \A s : Pending(s)' = {batch[k + 1].stamp : k \in {n \in 1 .. Len(batch) - 1 : Carries(n + 1, s)}}
      BY <2>1, <3>1, <3>3
    <3>5. \A k \in 1 .. Len(batch) - 1 : k + 1 \in 2 .. Len(batch)
      BY <1>1
    <3>. QED
      BY <3>2, <3>4, <3>5
  <2>4. \A s : Pending(s)' \subseteq Pending(s)
    BY <1>1, <1>7, <2>3
  <2>5. \A s : s = Topic => \A y \in Pending(s)' : Stamp < y
    BY <1>1, <1>3, <2>3 DEF BatchInOrder
  <2>6. NextPlane => \A s : Pending(s) \subseteq Pending(s)' \union (IF s = Topic THEN {Stamp} ELSE {})
    <3>. SUFFICES ASSUME NextPlane, NEW s, NEW k \in 1 .. Len(batch), Carries(k, s)
                  PROVE  batch[k].stamp \in Pending(s)' \union (IF s = Topic THEN {Stamp} ELSE {})
      BY <1>1 DEF Pending
    <3>1. Len(planes) = 1
      <4>1. Len(planes) # 1 => batch' = [batch EXCEPT ![1].planes = Tail(@)]
        BY DEF NextPlane
      <4>2. Len([batch EXCEPT ![1].planes = Tail(@)]) = Len(batch) /\ Len(batch') = Len(batch) - 1
        BY <1>1, <1>5
      <4>. QED
        BY <1>1, <4>1, <4>2
    <3>2. CASE k = 1
      BY <1>2, <1>3, <3>1, <3>2 DEF Carries
    <3>3. CASE k # 1
      BY <1>1, <2>3, <3>3
    <3>. QED
      BY <3>2, <3>3
  <2>. QED
    BY <1>3, <1>4, <2>1, <2>2, <2>4, <2>5, <2>6
<1>6. CASE batch' # Tail(batch)
  <2>1. Len(planes) = 2 /\ batch' = [batch EXCEPT ![1].planes = Tail(@)] /\ planes \in Planes
    BY <1>1, <1>2, <1>6 DEF NextPlane, NextRecord, PlaneLists
  <2>2. planes = <<"camera", "camera_depth">> /\ Tail(planes) = <<"camera_depth">> /\ Topic = "camera"
    <3>1. Tail(<<"camera", "camera_depth">>) = <<"camera_depth">>
      OBVIOUS
    <3>2. planes = <<"camera", "camera_depth">>
      BY <1>2, <2>1
    <3>3. planes[1] = "camera"
      BY <3>2
    <3>. QED
      BY <1>3, <3>1, <3>2, <3>3
  <2>3. batch' = [batch EXCEPT ![1] = [planes |-> <<"camera_depth">>, stamp |-> Stamp]]
    <3>1. [batch[1] EXCEPT !.planes = Tail(@)] = [planes |-> <<"camera_depth">>, stamp |-> Stamp]
      <4>1. batch[1] = [planes |-> planes, stamp |-> Stamp]
        BY <1>1, <1>3 DEF Due
      <4>. HIDE DEF planes
      <4>. QED
        BY <2>2, <4>1
    <3>. QED
      BY <2>1, <3>1
  <2>4. /\ batch' \in Seq(Due) /\ DOMAIN batch' = 1 .. Len(batch)
        /\ batch'[1] = [planes |-> <<"camera_depth">>, stamp |-> Stamp]
        /\ \A k \in 2 .. Len(batch) : batch'[k] = batch[k]
    <3>1. [planes |-> <<"camera_depth">>, stamp |-> Stamp] \in Due
      BY <1>3 DEF Due, PlaneLists
    <3>. QED
      BY <1>1, <2>3, <3>1
  <2>5. \A k \in 1 .. Len(batch) : batch'[k].stamp = batch[k].stamp
    BY <1>1, <1>3, <2>4
  <2>6. BatchInOrder'
    BY <1>1, <2>4, <2>5 DEF BatchInOrder
  <2>7. /\ \A s : Carries(1, s)' <=> s = "camera_depth"
        /\ \A s : Carries(1, s) <=> s \in {"camera", "camera_depth"}
        /\ \A s : \A k \in 2 .. Len(batch) : Carries(k, s)' <=> Carries(k, s)
    <3>1. DOMAIN <<"camera_depth">> = {1} /\ <<"camera_depth">>[1] = "camera_depth"
      OBVIOUS
    <3>2. DOMAIN planes = {1, 2} /\ planes[1] = "camera" /\ planes[2] = "camera_depth"
      BY <1>2, <2>1
    <3>3. \A s : Carries(1, s)' <=> s = "camera_depth"
      BY <2>4, <3>1 DEF Carries
    <3>4. \A s : Carries(1, s) <=> s \in {"camera", "camera_depth"}
      BY <3>2 DEF Carries
    <3>. QED
      BY <2>4, <3>3, <3>4 DEF Carries
  <2>8. \A s : Pending(s)' \subseteq Pending(s)
    BY <1>1, <2>4, <2>5, <2>7 DEF Pending
  <2>9. \A s : s = Topic => \A y \in Pending(s)' : Stamp < y
    <3>. SUFFICES ASSUME NEW s, s = Topic PROVE \A y \in Pending(s)' : Stamp < y
      OBVIOUS
    <3>1. Pending(s)' = {batch'[k].stamp : k \in {n \in 1 .. Len(batch) : Carries(n, s)'}}
      BY <2>4 DEF Pending
    <3>2. ~Carries(1, s)'
      BY <2>2, <2>7
    <3>. SUFFICES ASSUME NEW k \in 1 .. Len(batch), k # 1 PROVE Stamp < batch'[k].stamp
      BY <3>1, <3>2
    <3>. QED
      BY <1>1, <1>3, <2>5 DEF BatchInOrder
  <2>10. \A s : Pending(s) \subseteq Pending(s)' \union (IF s = Topic THEN {Stamp} ELSE {})
    BY <1>1, <1>3, <2>2, <2>4, <2>5, <2>7 DEF Pending
  <2>. QED
    BY <1>3, <1>4, <2>4, <2>6, <2>8, <2>9, <2>10
<1>. QED
  BY <1>5, <1>6

LEMMA StampsAreNat ==
  ASSUME McapTypes, NEW f \in 1 .. MaxFiles, NEW s \in Topics
  PROVE  /\ content[f][s] \in Seq(Message) /\ Len(content[f][s]) \in Nat
         /\ DOMAIN content[f][s] = 1 .. Len(content[f][s])
         /\ \A k \in DOMAIN content[f][s] : content[f][s][k] \in Message /\ content[f][s][k].stamp \in Nat
         /\ \A x \in Stamped(f, s) : x \in Nat
<1>1. content[f][s] \in Seq(Message)
  BY DEF McapTypes
<1>2. \A m \in Message : m.stamp \in Nat
  BY DEF Message, Packet
<1>3. /\ Len(content[f][s]) \in Nat /\ DOMAIN content[f][s] = 1 .. Len(content[f][s])
      /\ \A k \in DOMAIN content[f][s] : content[f][s][k] \in Message
  BY <1>1
<1>. QED
  BY <1>1, <1>2, <1>3 DEF Stamped

(* A plane that gives no message: something failed, or no machine would give it one. *)
LEMMA NotLogged ==
  ASSUME McapInv, ~Free, NextPlane \/ NextRecord,
         UNCHANGED <<storage, requested, usable, path, content, handed, records>>,
         \/ mishaps' = mishaps + 1
         \/ NextPlane /\ Video(Topic) /\ Chosen(Codec(Topic)) = {} /\ mishaps' = mishaps
  PROVE  batch' \in Seq(Due) /\ mishaps' \in Nat /\ BatchInOrder' /\ LogsInOrder' /\ NothingMissing'
<1>1. McapTypes /\ BatchInOrder /\ LogsInOrder /\ NothingMissing /\ mishaps \in Nat
  BY DEF McapInv, McapTypes
<1>2. /\ batch' \in Seq(Due) /\ BatchInOrder' /\ \A s : Pending(s)' \subseteq Pending(s)
      /\ NextPlane => \A s : Pending(s) \subseteq Pending(s)' \union (IF s = Topic THEN {Stamp} ELSE {})
  BY <1>1, NextIs
<1>3. \A f, s : Stamped(f, s)' = Stamped(f, s)
  BY DEF Stamped
<1>4. LogsInOrder'
  BY <1>1, <1>2, <1>3 DEF LogsInOrder
<1>5. NothingMissing'
  <2>1. CASE mishaps' = mishaps + 1
    BY <1>1, <2>1 DEF NothingMissing
  <2>2. CASE NextPlane /\ Video(Topic) /\ Chosen(Codec(Topic)) = {} /\ mishaps' = mishaps
    <3>1. \A s : s # Topic => Pending(s)' = Pending(s)
      <4>. SUFFICES ASSUME NEW s, s # Topic PROVE Pending(s)' = Pending(s)
        OBVIOUS
      <4>1. Pending(s)' \subseteq Pending(s) /\ Pending(s) \subseteq Pending(s)'
        BY <1>2, <2>2
      <4>. QED
        BY <4>1
    <3>2. \A s : (Video(s) => Chosen(Codec(s)) # {})' => s # Topic /\ (Video(s) => Chosen(Codec(s)) # {})
      BY <2>2, ChosenStays
    <3>. QED
      BY <1>1, <1>3, <2>2, <3>1, <3>2 DEF NothingMissing
  <2>. QED
    BY <2>1, <2>2
<1>. QED
  BY <1>1, <1>2, <1>4, <1>5

(* A message of the plane: the stream has one more, the latest. *)
LEMMA Logged ==
  ASSUME McapInv, ~Free, opened, NextPlane, NEW message \in Message, message.stamp = Stamp, Log(message),
         UNCHANGED <<storage, requested, usable, path, handed, records, mishaps>>
  PROVE  /\ content' \in [1 .. MaxFiles -> [Topics -> Seq(Message)]]
         /\ path \in 1 .. MaxFiles /\ Topic \in Topics
         /\ content'[path][Topic] = Append(content[path][Topic], message)
         /\ \A f \in 1 .. MaxFiles, s \in Topics : f # path \/ s # Topic => content'[f][s] = content[f][s]
         /\ batch' \in Seq(Due) /\ BatchInOrder' /\ LogsInOrder' /\ NothingMissing'
<1>. DEFINE log == content[path][Topic]
<1>1. McapTypes /\ BatchInOrder /\ LogsInOrder /\ NothingMissing /\ path \in 1 .. MaxFiles
  BY DEF McapInv, McapTypes, WhileOpen
<1>2. /\ Topic \in Topics /\ Stamp \in Nat /\ Stamp <= records /\ Stamp \in Pending(Topic)
      /\ batch' \in Seq(Due) /\ BatchInOrder' /\ \A s : Pending(s)' \subseteq Pending(s)
      /\ \A s : s = Topic => \A y \in Pending(s)' : Stamp < y
      /\ \A s : Pending(s) \subseteq Pending(s)' \union (IF s = Topic THEN {Stamp} ELSE {})
  BY <1>1, NextIs
<1>3. /\ log \in Seq(Message) /\ Len(log) \in Nat /\ DOMAIN log = 1 .. Len(log)
      /\ \A k \in DOMAIN log : log[k].stamp \in Nat
  BY <1>1, <1>2, StampsAreNat
<1>4. /\ content' = [content EXCEPT ![path] = [@ EXCEPT ![Topic] = Append(log, message)]]
      /\ Append(log, message) \in Seq(Message)
  BY <1>1, <1>2, <1>3 DEF Log, McapTypes
<1>5. /\ content' \in [1 .. MaxFiles -> [Topics -> Seq(Message)]]
      /\ content'[path][Topic] = Append(log, message)
      /\ \A f \in 1 .. MaxFiles, s \in Topics : f # path \/ s # Topic => content'[f][s] = content[f][s]
  BY <1>1, <1>2, <1>4 DEF McapTypes
<1>6. /\ DOMAIN Append(log, message) = 1 .. Len(log) + 1
      /\ \A k \in 1 .. Len(log) : Append(log, message)[k] = log[k]
      /\ Append(log, message)[Len(log) + 1] = message
  BY <1>3
<1>7. \A f \in 1 .. MaxFiles, s \in Topics :
        Stamped(f, s)' = Stamped(f, s) \union (IF f = path /\ s = Topic THEN {Stamp} ELSE {})
  <2>. SUFFICES ASSUME NEW f \in 1 .. MaxFiles, NEW s \in Topics
                PROVE  Stamped(f, s)' = Stamped(f, s) \union (IF f = path /\ s = Topic THEN {Stamp} ELSE {})
    OBVIOUS
  <2>1. Stamped(f, s)' = {content'[f][s][k].stamp : k \in DOMAIN content'[f][s]}
    BY DEF Stamped
  <2>2. CASE f # path \/ s # Topic
    BY <1>5, <2>1, <2>2 DEF Stamped
  <2>3. CASE f = path /\ s = Topic
    <3>1. content'[f][s] = Append(log, message) /\ Stamped(f, s) = {log[k].stamp : k \in DOMAIN log}
      BY <1>5, <2>3 DEF Stamped
    <3>2. Stamped(f, s)' = {Append(log, message)[k].stamp : k \in 1 .. Len(log) + 1}
      BY <1>6, <2>1, <3>1
    <3>. HIDE DEF log
    <3>. QED
      BY <1>3, <1>6, <2>3, <3>1, <3>2
  <2>. QED
    BY <2>2, <2>3
<1>8. LogsInOrder'
  <2>. SUFFICES ASSUME NEW f \in 1 .. MaxFiles, NEW s \in Topics
                PROVE  /\ \A j, k \in DOMAIN content'[f][s] : j < k => content'[f][s][j].stamp < content'[f][s][k].stamp
                       /\ \A x \in Stamped(f, s)' : x <= records
                       /\ f = path => \A x \in Stamped(f, s)', y \in Pending(s)' : x < y
    BY DEF LogsInOrder
  <2>1. \A x \in Stamped(f, s)' : x <= records
    BY <1>1, <1>2, <1>7 DEF LogsInOrder
  <2>2. f = path => \A x \in Stamped(f, s)', y \in Pending(s)' : x < y
    BY <1>1, <1>2, <1>7 DEF LogsInOrder
  <2>3. CASE f # path \/ s # Topic
    BY <1>1, <1>5, <2>1, <2>2, <2>3 DEF LogsInOrder
  <2>4. CASE f = path /\ s = Topic
    <3>1. \A k \in DOMAIN log : log[k].stamp < Stamp
      <4>1. \A k \in DOMAIN log : log[k].stamp \in Stamped(path, Topic)
        BY DEF Stamped
      <4>2. \A x \in Stamped(path, Topic) : x < Stamp
        BY <1>1, <1>2 DEF LogsInOrder
      <4>. QED
        BY <4>1, <4>2
    <3>2. \A j, k \in DOMAIN log : j < k => log[j].stamp < log[k].stamp
      BY <1>1, <1>2 DEF LogsInOrder
    <3>3. content'[f][s] = Append(log, message)
      BY <1>5, <2>4
    <3>. HIDE DEF log
    <3>4. \A j, k \in 1 .. Len(log) + 1 : j < k => Append(log, message)[j].stamp < Append(log, message)[k].stamp
      <4>. SUFFICES ASSUME NEW j \in 1 .. Len(log) + 1, NEW k \in 1 .. Len(log) + 1, j < k
                    PROVE  Append(log, message)[j].stamp < Append(log, message)[k].stamp
        OBVIOUS
      <4>1. j \in 1 .. Len(log) /\ Append(log, message)[j] = log[j]
        BY <1>3, <1>6
      <4>2. CASE k \in 1 .. Len(log)
        BY <1>3, <1>6, <3>2, <4>1, <4>2
      <4>3. CASE k = Len(log) + 1
        BY <1>3, <1>6, <3>1, <4>1, <4>3
      <4>. QED
        BY <1>3, <4>2, <4>3
    <3>. QED
      BY <1>6, <2>1, <2>2, <3>3, <3>4
  <2>. QED
    BY <2>3, <2>4
<1>9. NothingMissing'
  <2>1. ASSUME NEW s \in Topics
        PROVE  Stamped(path, s)' \union Pending(s)' = Stamped(path, s) \union Pending(s)
    BY <1>1, <1>2, <1>7
  <2>. QED
    BY <1>1, <1>7, <2>1, ChosenStays DEF NothingMissing
<1>. QED
  BY <1>1, <1>2, <1>5, <1>8, <1>9

(* An encoder that opens is of the codec asked for, unless it was named. *)
LEMMA ChosenIs ==
  ASSUME McapTypes, NEW codec \in {"h264", "h265"}, NEW c \in Chosen(codec)
  PROVE  /\ c[1] \in {"nvenc", "vaapi", "software"} /\ c[2] \in {"h264", "h265"}
         /\ requested # "libx265" => c[2] = codec
<1>1. PICK k \in DOMAIN Candidates(codec) : c = Candidates(codec)[k]
  BY DEF Chosen
<1>2. requested \in {"auto", "nvenc", "x264", "libx265"}
  BY DEF McapTypes
<1>3. CASE requested = "auto"
  <2>1. Candidates(codec) = [n \in 1 .. Len(Families) |-> <<Families[n], codec>>]
    BY <1>3 DEF Candidates
  <2>2. Len(Families) = 3 /\ \A n \in 1 .. 3 : Families[n] \in {"nvenc", "vaapi", "software"}
    BY DEF Families
  <2>3. k \in 1 .. 3 /\ c = <<Families[k], codec>>
    BY <1>1, <2>1, <2>2
  <2>. QED
    BY <2>2, <2>3
<1>4. CASE requested = "nvenc"
  <2>1. Candidates(codec) = << <<"nvenc", codec>> >>
    BY <1>4 DEF Candidates
  <2>. QED
    BY <1>1, <2>1
<1>5. CASE requested = "x264"
  <2>1. Candidates(codec) = << <<"software", codec>> >>
    BY <1>5 DEF Candidates
  <2>. QED
    BY <1>1, <2>1
<1>6. CASE requested = "libx265"
  <2>1. Candidates(codec) = << <<"software", "h265">> >>
    BY <1>6 DEF Candidates
  <2>. QED
    BY <1>1, <1>6, <2>1
<1>. QED
  BY <1>2, <1>3, <1>4, <1>5, <1>6

LEMMA EncodersAre ==
  ASSUME McapInv, opened, storage = "video", Topic \in Images, NEW e \in Encoders
  PROVE  e \in Encoder /\ OfFile(Topic, e) /\ LastPacket(Topic, e) /\ e.frames \in Nat
<1>1. CASE encoder[Topic] # NoEncoder
  <2>1. e = encoder[Topic]
    BY <1>1 DEF Encoders
  <2>. QED
    BY <1>1, <2>1 DEF McapInv, McapTypes, Continued, Encoder
<1>2. CASE encoder[Topic] = NoEncoder
  <2>1. PICK c \in Chosen(Codec(Topic)) : e = [name |-> c[1], bitstream |-> c[2], of |-> path, frames |-> 0]
    BY <1>2 DEF Encoders
  <2>2. Codec(Topic) \in {"h264", "h265"}
    BY DEF Codec
  <2>3. /\ c[1] \in {"nvenc", "vaapi", "software"} /\ c[2] \in {"h264", "h265"}
        /\ requested # "libx265" => c[2] = Codec(Topic)
    BY <2>2, ChosenIs DEF McapInv
  <2>4. path \in Nat
    BY McapAssumption DEF McapInv, McapTypes
  <2>. QED
    BY <2>1, <2>3, <2>4 DEF Encoder, OfFile, LastPacket
<1>. QED
  BY <1>1, <1>2

(* The batch is written while a file is open. *)
LEMMA Writing == ASSUME McapInv, ~Free PROVE opened /\ path \in 1 .. MaxFiles
BY DEF McapInv, McapTypes, WhileOpen, Free

LEMMA NoMessageKeeps == ASSUME McapInv, NoChannel \/ NoVideoEncoder \/ NoPacket PROVE McapInv'
<1>1. /\ ~Free /\ (NextPlane \/ NextRecord)
      /\ UNCHANGED <<storage, requested, usable, opened, path, disk, content, handed, lost, records, files>>
      /\ \/ mishaps' = mishaps + 1
         \/ NextPlane /\ Video(Topic) /\ Chosen(Codec(Topic)) = {} /\ mishaps' = mishaps
  <2>1. CASE NoChannel
    BY <2>1 DEF NoChannel, Mishap
  <2>2. CASE NoVideoEncoder
    <3>1. Encoders = {} => Chosen(Codec(Topic)) = {}
      BY DEF Encoders
    <3>. QED
      BY <2>2, <3>1 DEF NoVideoEncoder, Mishap
  <2>3. CASE NoPacket
    BY <2>3 DEF NoPacket, Mishap
  <2>. QED
    BY <2>1, <2>2, <2>3
<1>2. batch' \in Seq(Due) /\ mishaps' \in Nat /\ BatchInOrder' /\ LogsInOrder' /\ NothingMissing'
  BY <1>1, NotLogged
<1>3. opened /\ path \in 1 .. MaxFiles
  BY <1>1, Writing
<1>4. \/ encoder' = encoder
      \/ /\ storage = "video" /\ Topic \in Images
         /\ \E e \in Encoders : encoder' = [encoder EXCEPT ![Topic] = e]
  BY DEF NoChannel, NoVideoEncoder, NoPacket, Video
<1>5. \A s, e : OfFile(s, e)' = OfFile(s, e) /\ LastPacket(s, e)' = LastPacket(s, e)
  BY <1>1 DEF OfFile, LastPacket, Codec
<1>6. encoder' \in [Images -> Encoder] /\ Continued'
  <2>1. CASE encoder' = encoder
    BY <1>1, <1>5, <2>1 DEF McapInv, McapTypes, Continued
  <2>2. CASE /\ storage = "video" /\ Topic \in Images
             /\ \E e \in Encoders : encoder' = [encoder EXCEPT ![Topic] = e]
    <3>1. PICK e \in Encoders : encoder' = [encoder EXCEPT ![Topic] = e]
      BY <2>2
    <3>2. e \in Encoder /\ OfFile(Topic, e) /\ LastPacket(Topic, e)
      BY <1>3, <2>2, EncodersAre
    <3>. QED
      BY <1>1, <1>3, <1>5, <2>2, <3>1, <3>2 DEF McapInv, McapTypes, Continued
  <2>. QED
    BY <1>4, <2>1, <2>2
<1>. QED
  BY <1>1, <1>2, <1>3, <1>6, PlayableStays DEF McapInv, McapTypes, WhileOpen

LEMMA WriteRawKeeps == ASSUME McapInv, WriteRaw PROVE McapInv'
<1>1. /\ ~Free /\ ~Video(Topic) /\ NextPlane /\ opened /\ path \in 1 .. MaxFiles
      /\ UNCHANGED <<storage, requested, usable, opened, path, encoder, disk, handed, lost, records, files>>
  BY Writing DEF WriteRaw
<1>2. CASE mishaps' = mishaps + 1 /\ UNCHANGED content
  <2>1. batch' \in Seq(Due) /\ mishaps' \in Nat /\ BatchInOrder' /\ LogsInOrder' /\ NothingMissing'
    BY <1>1, <1>2, NotLogged
  <2>2. Continued'
    BY <1>1, <1>2 DEF McapInv, Continued, OfFile, LastPacket, Codec
  <2>. QED
    BY <1>1, <1>2, <2>1, <2>2, PlayableStays DEF McapInv, McapTypes, WhileOpen
<1>3. CASE Log([stamp |-> Stamp]) /\ UNCHANGED mishaps
  <2>1. [stamp |-> Stamp] \in Message /\ [stamp |-> Stamp].stamp = Stamp
    <3>1. Stamp \in Nat
      BY <1>1, NextIs DEF McapInv
    <3>. QED
      BY <3>1 DEF Message
  <2>2. /\ content' \in [1 .. MaxFiles -> [Topics -> Seq(Message)]]
        /\ \A f \in 1 .. MaxFiles, s \in Topics : f # path \/ s # Topic => content'[f][s] = content[f][s]
        /\ batch' \in Seq(Due) /\ BatchInOrder' /\ LogsInOrder' /\ NothingMissing'
    BY <1>1, <1>3, <2>1, Logged
  <2>3. storage = "video" => \A f \in 1 .. MaxFiles, s \in Images : content'[f][s] = content[f][s]
    <3>1. \A s \in Images : s \in Topics
      BY DEF Images, Topics
    <3>. QED
      BY <1>1, <2>2, <3>1 DEF Video
  <2>4. Continued'
    BY <1>1, <2>3 DEF McapInv, Continued, OfFile, LastPacket, Codec
  <2>5. Playable'
    BY <1>1, <2>3 DEF McapInv, Playable, Follows, Codec
  <2>. QED
    BY <1>1, <1>3, <2>2, <2>4, <2>5 DEF McapInv, McapTypes, WhileOpen
<1>. QED
  BY <1>2, <1>3 DEF WriteRaw, Mishap

LEMMA WriteVideoKeeps == ASSUME McapInv, WriteVideo PROVE McapInv'
<1>1. /\ ~Free /\ Video(Topic) /\ NextPlane /\ opened /\ path \in 1 .. MaxFiles
      /\ storage = "video" /\ Topic \in Images /\ Topic \in Topics
      /\ UNCHANGED <<storage, requested, usable, opened, path, disk, handed, records, files>>
  BY Writing DEF WriteVideo, Video, Images, Topics
<1>2. PICK e \in Encoders :
        /\ encoder' = [encoder EXCEPT ![Topic] = [e EXCEPT !.frames = e.frames + 1]]
        /\ \/ /\ Log([stamp |-> Stamp, of |-> e.of, n |-> e.frames + 1, key |-> e.frames % Gop = 0,
                      bitstream |-> e.bitstream])
              /\ UNCHANGED <<lost, mishaps>>
           \/ lost' = lost \union {<<e.of, Topic, e.frames + 1>>} /\ Mishap /\ UNCHANGED content
  BY DEF WriteVideo
<1>3. e \in Encoder /\ OfFile(Topic, e) /\ LastPacket(Topic, e) /\ e.frames \in Nat /\ e.of = path
  BY <1>1, EncodersAre DEF OfFile
<1>. DEFINE d == [e EXCEPT !.frames = e.frames + 1]
<1>4. /\ d \in Encoder /\ d.of = path /\ d.frames = e.frames + 1 /\ d.bitstream = e.bitstream /\ OfFile(Topic, d)
      /\ encoder' = [encoder EXCEPT ![Topic] = d]
  BY <1>2, <1>3 DEF Encoder, OfFile
<1>. HIDE DEF d
<1>5. encoder' \in [Images -> Encoder] /\ encoder'[Topic] = d /\ \A s \in Images : s # Topic => encoder'[s] = encoder[s]
  BY <1>1, <1>4 DEF McapInv, McapTypes
<1>6. \A s, r : OfFile(s, r)' <=> OfFile(s, r)
  BY <1>1 DEF OfFile, Codec
<1>7. \A s \in Images : s \in Topics
  BY DEF Images, Topics
<1>8. CASE lost' = lost \union {<<e.of, Topic, e.frames + 1>>} /\ Mishap /\ UNCHANGED content
  <2>1. batch' \in Seq(Due) /\ mishaps' \in Nat /\ BatchInOrder' /\ LogsInOrder' /\ NothingMissing'
    BY <1>1, <1>8, NotLogged DEF Mishap
  <2>2. Continued'
    <3>. SUFFICES ASSUME NEW s \in Images, NEW r, r = encoder'[s], r # NoEncoder
                  PROVE  OfFile(s, r)' /\ LastPacket(s, r)'
      <4>1. \A s \in Images : \A r : r = encoder'[s] /\ r # NoEncoder => OfFile(s, r)' /\ LastPacket(s, r)'
        OBVIOUS
      <4>. QED
        BY <4>1 DEF Continued, OfFile, LastPacket
    <3>1. CASE s = Topic
      BY <1>1, <1>3, <1>4, <1>5, <1>6, <1>8, <3>1 DEF LastPacket
    <3>2. CASE s # Topic
      BY <1>1, <1>5, <1>6, <1>8, <3>2 DEF LastPacket, McapInv, Continued
    <3>. QED
      BY <3>1, <3>2
  <2>3. Playable'
    BY <1>1, <1>8, PlayableStays DEF McapInv
  <2>. QED
    BY <1>1, <1>5, <1>8, <2>1, <2>2, <2>3 DEF McapInv, McapTypes, WhileOpen
<1>9. CASE /\ Log([stamp |-> Stamp, of |-> e.of, n |-> e.frames + 1, key |-> e.frames % Gop = 0,
                   bitstream |-> e.bitstream])
           /\ UNCHANGED <<lost, mishaps>>
  <2>. DEFINE m == [stamp |-> Stamp, of |-> e.of, n |-> e.frames + 1, key |-> e.frames % Gop = 0,
                    bitstream |-> e.bitstream]
              log == content[path][Topic]
  <2>1. m \in Packet /\ m \in Message /\ m.stamp = Stamp
    <3>1. Stamp \in Nat
      BY <1>1, NextIs DEF McapInv
    <3>2. e.of \in Nat /\ e.bitstream \in {"h264", "h265"} /\ (e.frames % Gop = 0) \in BOOLEAN
      BY <1>3 DEF Encoder, OfFile
    <3>. QED
      BY <1>3, <3>1, <3>2 DEF Packet, Message
  <2>2. /\ m.of = path /\ m.n = e.frames + 1 /\ m.bitstream = e.bitstream
        /\ e.frames = 0 => m.key
    <3>1. 0 % Gop = 0
      BY McapAssumption
    <3>. QED
      BY <1>3, <3>1
  <2>. HIDE DEF m
  <2>3. /\ content' \in [1 .. MaxFiles -> [Topics -> Seq(Message)]]
        /\ content'[path][Topic] = Append(log, m)
        /\ \A f \in 1 .. MaxFiles, s \in Topics : f # path \/ s # Topic => content'[f][s] = content[f][s]
        /\ batch' \in Seq(Due) /\ BatchInOrder' /\ LogsInOrder' /\ NothingMissing'
    <3>1. Log(m) /\ UNCHANGED mishaps
      BY <1>9 DEF m
    <3>. QED
      BY <1>1, <2>1, <3>1, Logged
  <2>4. log \in Seq(Message) /\ Len(log) \in Nat /\ DOMAIN log = 1 .. Len(log)
    BY <1>1, StampsAreNat DEF McapInv
  <2>5. /\ DOMAIN Append(log, m) = 1 .. Len(log) + 1 /\ Len(Append(log, m)) = Len(log) + 1
        /\ \A k \in 1 .. Len(log) : Append(log, m)[k] = log[k]
        /\ Append(log, m)[Len(log) + 1] = m
    BY <2>1, <2>4
  <2>6. Continued'
    <3>. SUFFICES ASSUME NEW s \in Images, NEW r, r = encoder'[s], r # NoEncoder
                  PROVE  OfFile(s, r)' /\ LastPacket(s, r)'
      <4>1. \A s \in Images : \A r : r = encoder'[s] /\ r # NoEncoder => OfFile(s, r)' /\ LastPacket(s, r)'
        OBVIOUS
      <4>. QED
        BY <4>1 DEF Continued, OfFile, LastPacket
    <3>1. CASE s = Topic
      <4>1. /\ content'[path'][s] = Append(log, m)
            /\ Append(log, m)[Len(Append(log, m))] = m /\ Len(Append(log, m)) > 0
        BY <1>1, <2>3, <2>4, <2>5, <3>1
      <4>. HIDE DEF log
      <4>2. LastPacket(s, d)'
        BY <1>1, <1>4, <2>2, <4>1 DEF LastPacket
      <4>. QED
        BY <1>4, <1>5, <1>6, <3>1, <4>2
    <3>2. CASE s # Topic
      BY <1>1, <1>5, <1>6, <1>7, <1>9, <2>3, <3>2 DEF LastPacket, McapInv, Continued
    <3>. QED
      BY <3>1, <3>2
  <2>7. Playable'
    <3>. SUFFICES ASSUME NEW f \in 1 .. MaxFiles, NEW s \in Images, NEW k \in DOMAIN content'[f][s]
                  PROVE  /\ content'[f][s][k] \in Packet /\ Follows(f, s, k)'
                         /\ requested # "libx265" => content'[f][s][k].bitstream = Codec(s)
      BY <1>1 DEF Playable, Codec
    <3>1. CASE f # path \/ s # Topic
      <4>1. content'[f][s] = content[f][s]
        BY <1>7, <2>3, <3>1
      <4>2. /\ content[f][s][k] \in Packet /\ Follows(f, s, k)
            /\ requested # "libx265" => content[f][s][k].bitstream = Codec(s)
        BY <1>1, <4>1 DEF McapInv, Playable
      <4>3. Follows(f, s, k)'
        BY <1>9, <4>1, <4>2 DEF Follows
      <4>. QED
        BY <4>1, <4>2, <4>3
    <3>2. CASE f = path /\ s = Topic
      <4>1. content'[f][s] = Append(log, m) /\ k \in 1 .. Len(log) + 1
        BY <2>3, <2>5, <3>2
      <4>2. \A j \in 1 .. Len(log) :
              /\ log[j] \in Packet /\ Follows(path, Topic, j)
              /\ requested # "libx265" => log[j].bitstream = Codec(Topic)
        BY <1>1, <2>4 DEF McapInv, Playable
      <4>3. CASE k \in 1 .. Len(log)
        <5>1. k > 1 => k - 1 \in 1 .. Len(log) /\ Append(log, m)[k - 1] = log[k - 1]
          BY <2>4, <2>5, <4>3
        <5>. QED
          BY <1>9, <2>5, <3>2, <4>1, <4>2, <4>3, <5>1 DEF Follows
      <4>4. CASE k = Len(log) + 1
        <5>1. requested # "libx265" => m.bitstream = Codec(Topic)
          BY <1>3, <2>2 DEF OfFile
        <5>2. m.key \/ <<m.of, Topic, m.n - 1>> \in lost
              \/ (Len(log) > 0 /\ log[Len(log)].of = m.of /\ log[Len(log)].n = m.n - 1)
          BY <1>3, <2>2 DEF LastPacket
        <5>3. k > 1 <=> Len(log) > 0
          BY <2>4, <4>4
        <5>4. k - 1 = Len(log) /\ (k > 1 => Append(log, m)[k - 1] = log[Len(log)])
          BY <2>4, <2>5, <4>4
        <5>5. Append(log, m)[k] = m
          BY <2>5, <4>4
        <5>6. Follows(f, s, k)'
          <6>. HIDE DEF log
          <6>. QED
            BY <1>9, <3>2, <4>1, <5>2, <5>3, <5>4, <5>5 DEF Follows
        <5>. QED
          BY <2>1, <3>2, <4>1, <5>1, <5>5, <5>6
      <4>. QED
        BY <2>4, <4>1, <4>3, <4>4
    <3>. QED
      BY <3>1, <3>2
  <2>. QED
    BY <1>1, <1>5, <1>9, <2>3, <2>6, <2>7 DEF McapInv, McapTypes, WhileOpen
<1>. QED
  BY <1>2, <1>8, <1>9

LEMMA McapStep == McapInv /\ [McapNext]_mcapVars => McapInv'
<1>. SUFFICES ASSUME McapInv, [McapNext]_mcapVars PROVE McapInv'
  OBVIOUS
<1>1. CASE Write
  <2>1. \A p, q \in Planes : /\ <<p>> \in Seq(Planes) /\ Len(<<p>>) = 1
                             /\ <<p, q>> \in Seq(Planes) /\ Len(<<p, q>>) = 2
    OBVIOUS
  <2>. QED
    BY <1>1, <2>1, BeginKeeps DEF Write
<1>2. CASE UNCHANGED mcapVars
  <2>1. UNCHANGED <<storage, requested, usable, opened, path, encoder, disk, content, handed, lost, batch, records, files, mishaps>>
    BY <1>2 DEF mcapVars
  <2>2. McapTypes' /\ WhileOpen' /\ BatchInOrder'
    BY <2>1 DEF McapInv, McapTypes, WhileOpen, BatchInOrder
  <2>3. LogsInOrder'
    BY <2>1, BatchStays DEF McapInv, LogsInOrder
  <2>4. NothingMissing'
    BY <2>1, BatchStays, ChosenStays DEF McapInv, NothingMissing
  <2>5. Continued'
    BY <2>1 DEF McapInv, Continued, OfFile, LastPacket, Codec
  <2>. QED
    BY <2>1, <2>2, <2>3, <2>4, <2>5, PlayableStays DEF McapInv
<1>. QED
  BY <1>1, <1>2, OpenFileKeeps, ClosingKeeps, NoMessageKeeps, WriteRawKeeps, WriteVideoKeeps DEF McapNext

(* Whatever is opened, closed, discarded, written and refused, each stream of a file can be
   read from that file alone.  The code is write, write_video_frame and close_resources. *)
THEOREM EpisodeDecodesHolds == McapSpec => []EpisodeDecodes
BY McapStarts, McapStep, McapMeans, PTL DEF McapSpec

(***************************************************************************)
(* The scheduler.  A task's deadline is not before its last run, and a     *)
(* period after the last but one (Spaced); a pass has found no deadline    *)
(* before the wake-up it plans (NoneBefore).                               *)
(***************************************************************************)
SchedulerTypes ==
  /\ Len(period) \in Nat /\ period \in [Added -> Nat \ {0}] /\ spin \in [Added -> Nat]
  /\ clock \in Nat /\ now \in 0 .. clock /\ begun \in 0 .. clock /\ nextWake \in Nat /\ wake \in Nat
  /\ due \in [Added -> Nat] /\ starts \in [Added -> Seq(Nat)]
  /\ task \in Nat
  /\ loop = "pass" => task \in 1 .. Len(period) + 1
  /\ loop = "call" => task \in Added
  /\ loop = "none" => ~running

InPhase(t) ==
  /\ due[t] >= begun /\ (due[t] - begun) % period[t] = 0
  /\ loop # "none" => due[t] >= begun + period[t]

Spaced(t) ==
  LET n == Len(starts[t])
  IN  /\ n <= 3
      /\ \A k \in 1 .. n : begun + period[t] <= starts[t][k] /\ starts[t][k] <= clock
      /\ n = 3 => starts[t][3] - starts[t][1] >= period[t]
      /\ IF loop = "call" /\ task = t
           THEN n >= 1 /\ due[t] <= starts[t][n] /\ (n >= 2 => due[t] >= starts[t][n - 1])
           ELSE (n >= 1 => due[t] >= starts[t][n]) /\ (n >= 2 => due[t] >= starts[t][n - 1] + period[t])

NoneBefore(t) ==
  /\ loop \in {"pass", "call"} /\ t < task => nextWake <= due[t]
  /\ loop = "sleep" => wake <= due[t]

SchedulerInv == SchedulerTypes /\ \A t \in Added : InPhase(t) /\ Spaced(t) /\ NoneBefore(t)

(* A set of naturals has a least element: what stands for an induction below. *)
LEMMA LeastIn ==
  ASSUME NEW T \in SUBSET Nat, T # {}
  PROVE  \E x \in T : \A y \in T : x <= y
<1>. DEFINE Before == {p \in Nat \X Nat : p[1] < p[2]}
<1>1. IsWellFoundedOn(Before, Nat)
  <2>1. OpToRel(<, Nat) = Before
    BY DEF OpToRel
  <2>. QED
    BY <2>1, NatLessThanWellFounded
<1>2. PICK x \in T : \A y \in T : <<y, x>> \notin Before
  <2>. HIDE DEF Before
  <2>. QED
    BY <1>1, WFMin
<1>3. ASSUME NEW y \in T PROVE x <= y
  <2>1. <<y, x>> \in Nat \X Nat /\ <<y, x>>[1] = y /\ <<y, x>>[2] = x
    OBVIOUS
  <2>. QED
    BY <1>2, <2>1
<1>. QED
  BY <1>3

LEMMA Division ==
  ASSUME NEW a \in Nat, NEW p \in Nat \ {0}
  PROVE  a \div p \in Nat /\ a % p \in 0 .. p - 1 /\ a = (a \div p) * p + (a % p)
OBVIOUS

LEMMA MultipleIs == ASSUME NEW q \in Nat, NEW p \in Nat \ {0} PROVE (q * p) % p = 0 /\ q * p \in Nat
OBVIOUS

LEMMA OneMore == ASSUME NEW q \in Nat, NEW p \in Nat \ {0} PROVE (q + 1) * p = q * p + p
OBVIOUS

LEMMA MultiplesAdd ==
  ASSUME NEW a \in Nat, NEW q \in Nat, NEW p \in Nat \ {0}, a % p = 0
  PROVE  (a + q * p) % p = 0
<1>1. PICK r \in Nat : a = r * p
  <2>1. a \div p \in Nat /\ a = (a \div p) * p
    BY Division
  <2>. QED
    BY <2>1
<1>2. a + q * p = (r + q) * p
  BY <1>1
<1>3. ((r + q) * p) % p = 0
  BY MultipleIs
<1>. QED
  BY <1>2, <1>3

(* The next deadline is in phase, at least a period on, and in the future when the run
   ended more than a period late. *)
LEMMA NextDeadlineIs ==
  ASSUME SchedulerTypes, NEW t \in Added, NEW time \in Nat, due[t] >= begun, (due[t] - begun) % period[t] = 0
  PROVE  /\ NextDeadline(t, time) \in Nat /\ NextDeadline(t, time) >= due[t] + period[t]
         /\ NextDeadline(t, time) >= time
         /\ (NextDeadline(t, time) - begun) % period[t] = 0
<1>. DEFINE p == period[t]
            d == due[t]
            n == NextDeadline(t, time)
<1>1. p \in Nat \ {0} /\ d \in Nat /\ begun \in Nat /\ d >= begun /\ (d - begun) % p = 0 /\ d - begun \in Nat
  BY DEF SchedulerTypes
<1>2. CASE time > d + p
  <2>. DEFINE q == (time - d) \div p
  <2>1. time - d \in Nat
    BY <1>1, <1>2
  <2>2. n = d + (q + 1) * p
    BY <1>2 DEF NextDeadline
  <2>. HIDE DEF p, d, n
  <2>3. q \in Nat /\ (time - d) % p \in 0 .. p - 1 /\ time - d = q * p + ((time - d) % p)
    BY <1>1, <2>1, Division
  <2>. HIDE DEF q
  <2>4. (q + 1) * p = q * p + p /\ q * p \in Nat
    BY <1>1, <2>3, OneMore, MultipleIs
  <2>5. n \in Nat /\ n >= d + p /\ n >= time
    BY <1>1, <2>1, <2>2, <2>3, <2>4
  <2>6. n - begun = (d - begun) + (q + 1) * p
    BY <1>1, <2>2, <2>3, <2>4
  <2>7. ((d - begun) + (q + 1) * p) % p = 0
    <3>1. q + 1 \in Nat /\ d - begun \in Nat /\ p \in Nat \ {0} /\ (d - begun) % p = 0
      BY <1>1, <2>3
    <3>. QED
      BY <3>1, MultiplesAdd
  <2>. QED
    BY <2>5, <2>6, <2>7 DEF p, d, n
<1>3. CASE ~(time > d + p)
  <2>1. n = d + p
    BY <1>3 DEF NextDeadline
  <2>. HIDE DEF p, d, n
  <2>2. n \in Nat /\ n >= d + p /\ n >= time
    BY <1>1, <1>3, <2>1
  <2>3. n - begun = (d - begun) + 1 * p
    BY <1>1, <2>1
  <2>4. ((d - begun) + 1 * p) % p = 0
    BY <1>1, MultiplesAdd
  <2>. QED
    BY <2>2, <2>3, <2>4 DEF p, d, n
<1>. QED
  BY <1>2, <1>3

(* There is a longest spin window of the tasks due next. *)
LEMMA WindowIs == ASSUME SchedulerTypes PROVE Window \in Nat
<1>. DEFINE due_next == {u \in Added : due[u] = nextWake}
            Longest(n, b) == /\ b = 0 \/ \E u \in due_next : spin[u] = b
                             /\ \A u \in due_next : u <= n => spin[u] <= b
            T == {n \in 0 .. Len(period) : ~\E b \in Nat : Longest(n, b)}
<1>1. Len(period) \in Nat /\ \A u \in due_next : u \in 1 .. Len(period) /\ spin[u] \in Nat
  BY DEF SchedulerTypes, Added
<1>2. T = {}
  <2>. SUFFICES ASSUME T # {} PROVE FALSE
    OBVIOUS
  <2>1. PICK n \in T : \A m \in T : n <= m
    <3>1. T \in SUBSET Nat
      BY <1>1
    <3>. HIDE DEF T
    <3>. QED
      BY <3>1, LeastIn
  <2>2. Longest(0, 0)
    BY <1>1
  <2>3. n \in 1 .. Len(period) /\ n - 1 \in 0 .. Len(period) /\ n - 1 \notin T
    <3>1. n # 0
      BY <2>2
    <3>2. n \in 1 .. Len(period) /\ n - 1 \in 0 .. Len(period) /\ ~(n <= n - 1)
      BY <1>1, <3>1
    <3>. HIDE DEF T
    <3>. QED
      BY <2>1, <3>2
  <2>4. PICK b \in Nat : Longest(n - 1, b)
    BY <2>3
  <2>5. \A u \in due_next : u <= n => u <= n - 1 \/ u = n
    BY <1>1, <2>3
  <2>6. CASE n \in due_next /\ spin[n] > b
    <3>1. Longest(n, spin[n])
      <4>1. \E u \in due_next : spin[u] = spin[n]
        BY <2>6
      <4>2. ASSUME NEW u \in due_next, u <= n PROVE spin[u] <= spin[n]
        <5>1. CASE u = n
          BY <1>1, <5>1
        <5>2. CASE u # n
          <6>1. spin[u] <= b
            BY <2>4, <2>5, <4>2, <5>2
          <6>2. spin[u] \in Nat /\ spin[n] \in Nat
            BY <1>1, <2>6
          <6>. HIDE DEF due_next
          <6>. QED
            BY <2>6, <6>1, <6>2
        <5>. QED
          BY <5>1, <5>2
      <4>. HIDE DEF due_next
      <4>. QED
        BY <4>1, <4>2
    <3>. QED
      BY <1>1, <2>6, <3>1
  <2>7. CASE ~(n \in due_next /\ spin[n] > b)
    <3>1. Longest(n, b)
      BY <1>1, <2>4, <2>5, <2>7
    <3>. QED
      BY <3>1
  <2>. QED
    BY <2>6, <2>7
<1>3. PICK b \in Nat : Longest(Len(period), b)
  <2>1. Len(period) \in 0 .. Len(period) /\ Len(period) \notin T
    <3>. HIDE DEF T
    <3>. QED
      BY <1>1, <1>2
  <2>. QED
    BY <2>1
<1>. DEFINE of == {0} \union {spin[u] : u \in due_next}
<1>4. b \in of /\ \A v \in of : v <= b
  BY <1>1, <1>3
<1>5. Window = CHOOSE w \in of : \A v \in of : v <= w
  BY DEF Window
<1>6. of \subseteq Nat
  BY <1>1
<1>. HIDE DEF of
<1>. QED
  BY <1>4, <1>5, <1>6

LEMMA SchedulerStarts == SchedulerInit => SchedulerInv
<1>. SUFFICES ASSUME SchedulerInit PROVE SchedulerInv
  OBVIOUS
<1>1. period \in [1 .. Tasks -> Nat \ {0}] /\ spin \in [1 .. Tasks -> Nat]
  <2>1. {p \in Periods : \E forced \in BOOLEAN : Belongs(p, forced)} \subseteq Nat \ {0}
        /\ (IF high THEN Spins ELSE {0}) \subseteq Nat
    <3>1. \A x \in Spins : x \in Nat
      BY SchedulerAssumption
    <3>2. \A x \in Periods : x \in Nat \ {0}
      BY SchedulerAssumption
    <3>. QED
      BY <3>1, <3>2
  <2>2. /\ period \in [1 .. Tasks -> {p \in Periods : \E forced \in BOOLEAN : Belongs(p, forced)}]
        /\ spin \in [1 .. Tasks -> IF high THEN Spins ELSE {0}]
    BY DEF SchedulerInit
  <2>. QED
    BY <2>1, <2>2
<1>2. Len(period) = Tasks /\ Added = 1 .. Tasks
  BY <1>1, SchedulerAssumption DEF Added
<1>3. /\ running = FALSE /\ loop = "none" /\ clock = 0 /\ begun = 0 /\ now = 0 /\ nextWake = 0 /\ task = 0 /\ wake = 0
      /\ due = [t \in Added |-> 0] /\ starts = [t \in Added |-> << >>]
  BY DEF SchedulerInit, SchedulerStart
<1>4. SchedulerTypes
  BY <1>1, <1>2, <1>3, SchedulerAssumption DEF SchedulerTypes
<1>5. ASSUME NEW t \in Added PROVE InPhase(t) /\ Spaced(t) /\ NoneBefore(t)
  <2>1. due[t] = 0 /\ starts[t] = << >> /\ Len(starts[t]) = 0 /\ period[t] \in Nat \ {0}
    BY <1>3, <1>4, <1>5 DEF SchedulerTypes
  <2>2. (due[t] - begun) % period[t] = 0
    BY <1>3, <2>1
  <2>. QED
    BY <1>3, <2>1, <2>2 DEF InPhase, Spaced, NoneBefore
<1>. QED
  BY <1>4, <1>5 DEF SchedulerInv

LEMMA SchedulerMeans == SchedulerInv => PacedRuns
<1>. SUFFICES ASSUME SchedulerInv PROVE PacedRuns
  OBVIOUS
<1>1. SchedulerTypes /\ \A t \in Added : InPhase(t) /\ Spaced(t) /\ NoneBefore(t)
  BY DEF SchedulerInv
<1>2. ASSUME NEW t \in Added, starts[t] # << >> PROVE starts[t][1] >= begun + period[t]
  <2>1. starts[t] \in Seq(Nat)
    BY <1>1 DEF SchedulerTypes
  <2>2. 1 \in 1 .. Len(starts[t]) /\ starts[t][1] \in Nat /\ begun \in Nat /\ period[t] \in Nat
    BY <1>1, <1>2, <2>1 DEF SchedulerTypes
  <2>3. begun + period[t] <= starts[t][1]
    BY <1>1, <2>2 DEF Spaced
  <2>. QED
    BY <2>2, <2>3
<1>. QED
  BY <1>1, <1>2 DEF PacedRuns, SchedulerTypes, InPhase, Spaced, NoneBefore

(* Steps that touch neither a deadline nor a run. *)
LEMMA RunsStay ==
  ASSUME SchedulerInv, UNCHANGED <<period, due, begun, starts>>,
         clock' \in Nat, clock' >= clock, loop = "none" => loop' = "none",
         (loop' = "call") <=> (loop = "call"), loop = "call" => task' = task
  PROVE  \A t \in Added : InPhase(t)' /\ Spaced(t)'
<1>. SUFFICES ASSUME NEW t \in Added PROVE InPhase(t)' /\ Spaced(t)'
  OBVIOUS
<1>1. SchedulerTypes /\ InPhase(t) /\ Spaced(t)
  BY DEF SchedulerInv
<1>2. InPhase(t)'
  BY <1>1 DEF InPhase
<1>3. starts[t] \in Seq(Nat) /\ \A k \in 1 .. Len(starts[t]) : starts[t][k] \in Nat
  BY <1>1 DEF SchedulerTypes
<1>4. clock \in Nat
  BY <1>1 DEF SchedulerTypes
<1>5. \A k \in 1 .. Len(starts[t]) : starts[t][k] <= clock => starts[t][k] <= clock'
  BY <1>3, <1>4
<1>6. Spaced(t)'
  BY <1>1, <1>5 DEF Spaced
<1>. QED
  BY <1>2, <1>6

LEMMA StartKeeps == ASSUME SchedulerInv, StartScheduler PROVE SchedulerInv'
<1>1. /\ loop = "none" /\ loop' = "test" /\ running' = TRUE /\ begun' = clock
      /\ due' = [t \in Added |-> clock + period[t]] /\ starts' = [t \in Added |-> << >>]
      /\ UNCHANGED <<high, period, spin, clock, now, nextWake, task, wake>>
  BY DEF StartScheduler
<1>2. SchedulerTypes /\ Added' = Added
  BY <1>1 DEF SchedulerInv, Added
<1>3. SchedulerTypes'
  BY <1>1, <1>2 DEF SchedulerTypes
<1>4. ASSUME NEW t \in Added PROVE InPhase(t)' /\ Spaced(t)' /\ NoneBefore(t)'
  <2>1. /\ due'[t] = clock + period[t] /\ starts'[t] = << >> /\ Len(starts'[t]) = 0
        /\ clock \in Nat /\ period[t] \in Nat \ {0}
    BY <1>1, <1>2, <1>4 DEF SchedulerTypes
  <2>2. due'[t] - clock = 1 * period[t] /\ (1 * period[t]) % period[t] = 0
    BY <2>1, MultipleIs
  <2>. QED
    BY <1>1, <2>1, <2>2 DEF InPhase, Spaced, NoneBefore
<1>. QED
  BY <1>2, <1>3, <1>4 DEF SchedulerInv

(* What the history of a task is after one more run. *)
OneMoreRun(s, c, r) ==
  /\ r \in Seq(Nat)
  /\ Len(s) = 0 => Len(r) = 1 /\ r[1] = c
  /\ Len(s) = 1 => Len(r) = 2 /\ r[1] = s[1] /\ r[2] = c
  /\ Len(s) = 2 => Len(r) = 3 /\ r[1] = s[1] /\ r[2] = s[2] /\ r[3] = c
  /\ Len(s) = 3 => Len(r) = 3 /\ r[1] = s[2] /\ r[2] = s[3] /\ r[3] = c

LEMMA LastThreeIs ==
  ASSUME NEW s, NEW c, NEW r
  PROVE  s \in Seq(Nat) /\ Len(s) <= 3 /\ c \in Nat /\ r = LastThree(Append(s, c)) => OneMoreRun(s, c, r)
<1>0. SUFFICES ASSUME s \in Seq(Nat), Len(s) <= 3, c \in Nat, r = LastThree(Append(s, c))
      PROVE  /\ r \in Seq(Nat)
             /\ Len(s) = 0 => Len(r) = 1 /\ r[1] = c
             /\ Len(s) = 1 => Len(r) = 2 /\ r[1] = s[1] /\ r[2] = c
             /\ Len(s) = 2 => Len(r) = 3 /\ r[1] = s[1] /\ r[2] = s[2] /\ r[3] = c
             /\ Len(s) = 3 => Len(r) = 3 /\ r[1] = s[2] /\ r[2] = s[3] /\ r[3] = c
  BY DEF OneMoreRun
<1>1. PICK a : a = Append(s, c)
  OBVIOUS
<1>2. a \in Seq(Nat)
  BY <1>0, <1>1
<1>7. Len(a) = Len(s) + 1 /\ Len(s) \in Nat
  BY <1>0, <1>1
<1>3. a[Len(s) + 1] = c /\ \A k \in 1 .. Len(s) : a[k] = s[k]
  BY <1>0, <1>1
<1>4. Len(s) \in 0 .. 3 /\ Len(a) = Len(s) + 1
  <2>1. PICK n : n = Len(s)
    OBVIOUS
  <2>2. n \in Nat /\ n <= 3
    BY <1>0, <1>7, <2>1
  <2>3. n \in 0 .. 3
    BY <2>2
  <2>. QED
    BY <1>7, <2>1, <2>3, Zenon
<1>5. CASE Len(s) < 3
  <2>1. r = a
    <3>1. ~(Len(a) > 3)
      BY <1>4, <1>5
    <3>. QED
      BY <1>0, <1>1, <3>1 DEF LastThree
  <2>2. /\ Len(s) = 1 => a[1] = s[1]
        /\ Len(s) = 2 => a[1] = s[1] /\ a[2] = s[2]
    BY <1>3
  <2>3. /\ Len(s) = 0 => a[1] = c
        /\ Len(s) = 1 => a[2] = c
        /\ Len(s) = 2 => a[3] = c
    BY <1>3
  <2>4. r \in Seq(Nat)
    BY <1>2, <2>1
  <2>5. Len(r) = Len(s) + 1 /\ Len(s) \in 0 .. 2
    <3>1. PICK n : n = Len(s)
      OBVIOUS
    <3>2. n \in 0 .. 3 /\ n < 3
      BY <1>4, <1>5, <3>1, Zenon
    <3>3. n \in 0 .. 2
      BY <3>2
    <3>. QED
      BY <1>4, <2>1, <3>1, <3>3, Zenon
  <2>6. /\ Len(s) = 0 => r[1] = c
        /\ Len(s) = 1 => r[1] = s[1] /\ r[2] = c
        /\ Len(s) = 2 => r[1] = s[1] /\ r[2] = s[2] /\ r[3] = c
    BY <2>1, <2>2, <2>3
  <2>7. (Len(s) = 0 => Len(r) = 1) /\ (Len(s) = 1 => Len(r) = 2) /\ (Len(s) = 2 => Len(r) = 3) /\ Len(s) # 3
    <3>1. PICK n : n = Len(s)
      OBVIOUS
    <3>2. PICK m : m = Len(r)
      OBVIOUS
    <3>3. m = n + 1 /\ n \in 0 .. 2
      BY <2>5, <3>1, <3>2, Zenon
    <3>4. (n = 0 => m = 1) /\ (n = 1 => m = 2) /\ (n = 2 => m = 3) /\ n # 3
      BY <3>3
    <3>. QED
      BY <3>1, <3>2, <3>4, Zenon
  <2>. QED
    BY <2>4, <2>6, <2>7, Zenon
<1>6. CASE Len(s) = 3
  <2>1. r = Tail(a)
    <3>1. Len(a) > 3
      BY <1>4, <1>6
    <3>. QED
      BY <1>0, <1>1, <3>1 DEF LastThree
  <2>2. a[2] = s[2] /\ a[3] = s[3] /\ a[4] = c
    BY <1>3, <1>6
  <2>3. Tail(a) \in Seq(Nat) /\ Len(Tail(a)) = Len(a) - 1 /\ \A k \in 1 .. Len(Tail(a)) : Tail(a)[k] = a[k + 1]
    <3>1. Len(a) = 4
      BY <1>4, <1>6
    <3>2. a # << >>
      BY <3>1
    <3>. QED
      BY <1>2, <3>2
  <2>4. Len(r) = 3
    BY <1>4, <1>6, <2>1, <2>3
  <2>5. \A k \in 1 .. Len(r) : r[k] = a[k + 1]
    BY <2>1, <2>3
  <2>6. r[1] = a[2] /\ r[2] = a[3] /\ r[3] = a[4]
    BY <2>4, <2>5
  <2>7. r \in Seq(Nat)
    BY <2>1, <2>3
  <2>. QED
    BY <1>6, <2>2, <2>4, <2>6, <2>7
<1>8. Len(s) < 3 \/ Len(s) = 3
  BY <1>4
<1>. QED
  BY <1>5, <1>6, <1>8, Zenon

LEMMA RunTaskKeeps == ASSUME SchedulerInv, RunTask PROVE SchedulerInv'
<1>1. /\ loop = "pass" /\ loop' = "call" /\ task \in Added /\ now >= due[task] /\ now' = 0
      /\ starts' = [starts EXCEPT ![task] = LastThree(Append(@, clock))]
      /\ UNCHANGED <<high, period, spin, running, clock, due, begun, nextWake, task, wake>>
  BY DEF RunTask
<1>2. SchedulerTypes /\ Added' = Added /\ \A t \in Added : InPhase(t) /\ Spaced(t) /\ NoneBefore(t)
  BY <1>1 DEF SchedulerInv, Added
<1>. DEFINE s == starts[task]
            n == Len(s)
            r == LastThree(Append(s, clock))
<1>3. s \in Seq(Nat) /\ clock \in Nat /\ n <= 3
  BY <1>1, <1>2 DEF SchedulerTypes, Spaced
<1>9. n \in 0 .. 3 /\ \A k \in 1 .. n : s[k] \in Nat
  <2>1. n \in Nat /\ \A k \in 1 .. n : s[k] \in Nat
    <3>. HIDE DEF s
    <3>. QED
      BY <1>3
  <2>. HIDE DEF n
  <2>2. n \in Nat /\ n <= 3
    BY <1>3, <2>1
  <2>. QED
    BY <2>1, <2>2
<1>4. /\ r \in Seq(Nat)
      /\ n = 0 => Len(r) = 1 /\ r[1] = clock
      /\ n = 1 => Len(r) = 2 /\ r[1] = s[1] /\ r[2] = clock
      /\ n = 2 => Len(r) = 3 /\ r[1] = s[1] /\ r[2] = s[2] /\ r[3] = clock
      /\ n = 3 => Len(r) = 3 /\ r[1] = s[2] /\ r[2] = s[3] /\ r[3] = clock
  <2>1. r = LastThree(Append(s, clock)) /\ Len(s) <= 3 /\ n = Len(s)
    BY <1>3
  <2>2. s \in Seq(Nat) /\ clock \in Nat
    BY <1>3
  <2>. HIDE DEF s, r, n
  <2>3. OneMoreRun(s, clock, r)
    BY <2>1, <2>2, LastThreeIs
  <2>. QED
    BY <2>1, <2>3, Zenon DEF OneMoreRun
<1>5. starts' \in [Added -> Seq(Nat)] /\ starts'[task] = r /\ \A t \in Added : t # task => starts'[t] = starts[t]
  BY <1>1, <1>2, <1>4 DEF SchedulerTypes
<1>6. SchedulerTypes'
  BY <1>1, <1>2, <1>5 DEF SchedulerTypes
<1>7. ASSUME NEW t \in Added, t = task PROVE Spaced(t)'
  <2>. DEFINE d == due[task]
              p == period[task]
  <2>1. d \in Nat /\ p \in Nat \ {0} /\ begun \in Nat /\ d <= clock /\ begun + p <= d
    BY <1>1, <1>2 DEF SchedulerTypes, InPhase
  <2>2. /\ \A k \in 1 .. n : begun + p <= s[k] /\ s[k] <= clock
        /\ n >= 1 => d >= s[n]
        /\ n >= 2 => d >= s[n - 1] + p
    BY <1>1, <1>2 DEF Spaced
  <2>. HIDE DEF d, p, s, n, r
  <2>3. /\ Len(r) \in 1 .. 3
        /\ \A k \in 1 .. Len(r) : begun + p <= r[k] /\ r[k] <= clock
        /\ Len(r) = 3 => r[3] - r[1] >= p
        /\ d <= r[Len(r)] /\ (Len(r) >= 2 => d >= r[Len(r) - 1])
    <3>1. CASE n = 0
      <4>1. Len(r) = 1 /\ r[1] = clock
        BY <1>4, <3>1
      <4>. QED
        BY <1>3, <1>9, <2>1, <4>1
    <3>2. CASE n = 1
      <4>1. Len(r) = 2 /\ r[1] = s[1] /\ r[2] = clock
        BY <1>4, <3>2
      <4>2. s[1] \in Nat /\ begun + p <= s[1] /\ s[1] <= clock /\ d >= s[1]
        BY <1>3, <1>9, <2>2, <3>2
      <4>. QED
        BY <1>3, <1>9, <2>1, <4>1, <4>2
    <3>3. CASE n = 2
      <4>1. Len(r) = 3 /\ r[1] = s[1] /\ r[2] = s[2] /\ r[3] = clock
        BY <1>4, <3>3
      <4>2. /\ s[1] \in Nat /\ begun + p <= s[1] /\ s[1] <= clock /\ d >= s[1] + p
            /\ s[2] \in Nat /\ begun + p <= s[2] /\ s[2] <= clock /\ d >= s[2]
        BY <1>3, <1>9, <2>2, <3>3
      <4>. QED
        BY <1>3, <1>9, <2>1, <4>1, <4>2
    <3>4. CASE n = 3
      <4>1. Len(r) = 3 /\ r[1] = s[2] /\ r[2] = s[3] /\ r[3] = clock
        BY <1>4, <3>4
      <4>2. /\ s[2] \in Nat /\ begun + p <= s[2] /\ s[2] <= clock /\ d >= s[2] + p
            /\ s[3] \in Nat /\ begun + p <= s[3] /\ s[3] <= clock /\ d >= s[3]
        BY <1>3, <1>9, <2>2, <3>4
      <4>. QED
        BY <1>3, <1>9, <2>1, <4>1, <4>2
    <3>. QED
      BY <1>9, <3>1, <3>2, <3>3, <3>4
  <2>. QED
    <3>1. starts'[t] = r /\ due'[t] = d /\ period'[t] = p /\ clock' = clock /\ begun' = begun
          /\ loop' = "call" /\ task' = t
      BY <1>1, <1>5, <1>7 DEF d, p
    <3>. HIDE DEF d, p, r
    <3>2. Len(r) \in Nat /\ Len(r) <= 3
      BY <2>3
    <3>3. /\ Len(starts'[t]) <= 3
          /\ \A k \in 1 .. Len(starts'[t]) : begun' + period'[t] <= starts'[t][k] /\ starts'[t][k] <= clock'
          /\ Len(starts'[t]) = 3 => starts'[t][3] - starts'[t][1] >= period'[t]
          /\ Len(starts'[t]) >= 1 /\ due'[t] <= starts'[t][Len(starts'[t])]
          /\ Len(starts'[t]) >= 2 => due'[t] >= starts'[t][Len(starts'[t]) - 1]
      BY <2>3, <3>1, <3>2
    <3>. QED
      BY <3>1, <3>3 DEF Spaced
<1>8. ASSUME NEW t \in Added PROVE InPhase(t)' /\ Spaced(t)' /\ NoneBefore(t)'
  <2>1. InPhase(t)' /\ NoneBefore(t)'
    BY <1>1, <1>2 DEF InPhase, NoneBefore
  <2>2. CASE t # task
    BY <1>1, <1>2, <1>5, <2>1, <2>2 DEF Spaced
  <2>. QED
    BY <1>7, <2>1, <2>2
<1>. QED
  BY <1>2, <1>6, <1>8 DEF SchedulerInv

LEMMA TaskReturnsKeeps == ASSUME SchedulerInv, TaskReturns PROVE SchedulerInv'
<1>. DEFINE next == NextDeadline(task, clock)
<1>1. /\ loop = "call" /\ loop' = "pass" /\ now' = clock
      /\ due' = [due EXCEPT ![task] = next]
      /\ nextWake' = Least(nextWake, due'[task]) /\ task' = task + 1
      /\ UNCHANGED <<high, period, spin, running, clock, begun, wake, starts>>
  BY DEF TaskReturns
<1>2. SchedulerTypes /\ Added' = Added /\ \A t \in Added : InPhase(t) /\ Spaced(t) /\ NoneBefore(t)
  BY <1>1 DEF SchedulerInv, Added
<1>3. task \in Added /\ clock \in Nat /\ task \in Nat /\ Added = 1 .. Len(period) /\ Len(period) \in Nat
  BY <1>1, <1>2 DEF SchedulerTypes, Added
<1>4. /\ next \in Nat /\ next >= due[task] + period[task] /\ next >= clock
      /\ (next - begun) % period[task] = 0
  <2>1. due[task] >= begun /\ (due[task] - begun) % period[task] = 0
    BY <1>2, <1>3 DEF InPhase
  <2>. QED
    BY <1>2, <1>3, <2>1, NextDeadlineIs
<1>. HIDE DEF next
<1>5. due' \in [Added -> Nat] /\ due'[task] = next /\ \A t \in Added : t # task => due'[t] = due[t]
  BY <1>1, <1>2, <1>3, <1>4 DEF SchedulerTypes
<1>6. nextWake' \in Nat /\ nextWake' <= next /\ nextWake' <= nextWake /\ nextWake \in Nat
  <2>1. nextWake \in Nat
    BY <1>2 DEF SchedulerTypes
  <2>. QED
    BY <1>1, <1>4, <1>5, <2>1 DEF Least
<1>7. SchedulerTypes'
  BY <1>1, <1>2, <1>3, <1>5, <1>6 DEF SchedulerTypes
<1>8. ASSUME NEW t \in Added PROVE NoneBefore(t)'
  <2>1. t \in Nat /\ due[t] \in Nat
    BY <1>2, <1>3 DEF SchedulerTypes
  <2>2. CASE t = task
    BY <1>1, <1>5, <1>6, <2>2 DEF NoneBefore
  <2>3. CASE t # task
    <3>1. due'[t] = due[t] /\ (t < task => nextWake <= due[t])
      BY <1>1, <1>2, <1>5, <2>3 DEF NoneBefore
    <3>2. t < task' => nextWake' <= due'[t]
      BY <1>1, <1>3, <1>6, <2>1, <2>3, <3>1
    <3>. QED
      BY <1>1, <3>2 DEF NoneBefore
  <2>. QED
    BY <2>2, <2>3
<1>9. ASSUME NEW t \in Added, t # task PROVE InPhase(t)' /\ Spaced(t)'
  <2>1. due'[t] = due[t] /\ InPhase(t) /\ Spaced(t)
    BY <1>2, <1>5, <1>9
  <2>. QED
    BY <1>1, <1>9, <2>1 DEF InPhase, Spaced
<1>10. InPhase(task) /\ Spaced(task)
  BY <1>2, <1>3
<1>. DEFINE s == starts[task]
            n == Len(s)
            p == period[task]
            d == due[task]
<1>11. p \in Nat \ {0} /\ d \in Nat /\ begun \in Nat /\ d >= begun + p /\ s \in Seq(Nat)
  BY <1>1, <1>2, <1>3, <1>10 DEF SchedulerTypes, InPhase
<1>12. \A k \in 1 .. n : s[k] \in Nat
  <2>. HIDE DEF s
  <2>. QED
    BY <1>11
<1>13. n \in Nat
  <2>. HIDE DEF s
  <2>. QED
    BY <1>11
<1>14. /\ n <= 3
       /\ \A k \in 1 .. n : begun + p <= s[k] /\ s[k] <= clock
       /\ n = 3 => s[3] - s[1] >= p
       /\ n >= 2 => d >= s[n - 1]
  BY <1>1, <1>10 DEF Spaced
<1>15. due'[task] = next /\ starts'[task] = s /\ period'[task] = p /\ UNCHANGED <<clock, begun>>
  BY <1>1, <1>5
<1>16. \A t \in Added : t = task => Spaced(t)'
  <2>1. (n >= 1 => next >= s[n]) /\ (n >= 2 => next >= s[n - 1] + p)
    <3>1. next \in Nat /\ next >= d + p /\ next >= clock
      BY <1>4
    <3>2. p \in Nat /\ d \in Nat
      BY <1>11
    <3>. HIDE DEF d, p, s, n
    <3>3. n >= 1 => s[n] \in Nat /\ s[n] <= clock
      BY <1>12, <1>13, <1>14
    <3>4. n >= 2 => s[n - 1] \in Nat /\ d >= s[n - 1]
      BY <1>12, <1>13, <1>14
    <3>. QED
      BY <1>3, <3>1, <3>2, <3>3, <3>4
  <2>2. SUFFICES ASSUME NEW t \in Added, t = task PROVE Spaced(t)'
    OBVIOUS
  <2>3. /\ due'[t] = next /\ starts'[t] = s /\ period'[t] = p /\ clock' = clock /\ begun' = begun /\ loop' = "pass"
    BY <1>1, <1>15, <2>2
  <2>. HIDE DEF d, p, s
  <2>4. /\ Len(starts'[t]) <= 3
        /\ \A k \in 1 .. Len(starts'[t]) : begun' + period'[t] <= starts'[t][k] /\ starts'[t][k] <= clock'
        /\ Len(starts'[t]) = 3 => starts'[t][3] - starts'[t][1] >= period'[t]
        /\ Len(starts'[t]) >= 1 => due'[t] >= starts'[t][Len(starts'[t])]
        /\ Len(starts'[t]) >= 2 => due'[t] >= starts'[t][Len(starts'[t]) - 1] + period'[t]
    BY <1>14, <2>1, <2>3
  <2>. QED
    BY <2>3, <2>4 DEF Spaced
<1>17. ASSUME NEW t \in Added PROVE InPhase(t)' /\ Spaced(t)' /\ NoneBefore(t)'
  <2>1. CASE t = task
    <3>1. InPhase(t)'
      <4>1. due'[t] = next /\ period'[t] = p /\ begun' = begun /\ loop' = "pass"
        BY <1>1, <1>15, <2>1
      <4>2. next >= begun + p /\ next >= begun /\ (next - begun) % p = 0
        <5>1. next \in Nat /\ next >= d + p /\ (next - begun) % p = 0
          BY <1>4
        <5>2. p \in Nat /\ d \in Nat /\ begun \in Nat /\ d >= begun + p
          BY <1>11
        <5>. HIDE DEF d, p
        <5>. QED
          BY <5>1, <5>2
      <4>. QED
        BY <4>1, <4>2 DEF InPhase
    <3>. QED
      BY <1>8, <1>16, <2>1, <3>1
  <2>. QED
    BY <1>8, <1>9, <2>1
<1>. QED
  BY <1>2, <1>7, <1>17 DEF SchedulerInv

(* The steps that only move the loop or the clock. *)
LEMMA PassesKeep == ASSUME SchedulerInv, Test \/ PassOver PROVE SchedulerInv'
<1>1. /\ loop \in {"test", "pass"} /\ loop' # "call" /\ loop' # "none" /\ loop' # "sleep"
      /\ UNCHANGED <<high, period, spin, running, clock, due, begun, wake, starts>>
  BY DEF Test, PassOver
<1>2. SchedulerTypes /\ Added' = Added
  BY <1>1 DEF SchedulerInv, Added
<1>3. clock \in Nat /\ nextWake \in Nat /\ task \in Nat /\ Len(period) \in Nat /\ Added = 1 .. Len(period)
      /\ \A t \in Added : due[t] \in Nat /\ t \in Nat
  BY <1>2 DEF SchedulerTypes, Added
<1>4. \A t \in Added : InPhase(t)' /\ Spaced(t)'
  <2>1. clock' \in Nat /\ clock' >= clock
    BY <1>1, <1>3
  <2>. QED
    BY <1>1, <2>1, RunsStay
<1>5. CASE Test
  <2>1. CASE running
    <3>1. loop' = "pass" /\ now' = clock /\ nextWake' = clock + Cap /\ task' = 1 /\ Cap \in Nat
      BY <1>5, <2>1 DEF Test, Cap
    <3>2. SchedulerTypes'
      BY <1>1, <1>2, <1>3, <3>1 DEF SchedulerTypes
    <3>3. \A t \in Added : NoneBefore(t)'
      BY <1>3, <3>1 DEF NoneBefore
    <3>. QED
      BY <1>2, <1>4, <3>2, <3>3 DEF SchedulerInv
  <2>2. CASE ~running
    <3>1. loop' = "done" /\ UNCHANGED <<now, nextWake, task>>
      BY <1>5, <2>2 DEF Test
    <3>2. SchedulerTypes'
      BY <1>1, <1>2, <3>1 DEF SchedulerTypes
    <3>3. \A t \in Added : NoneBefore(t)'
      BY <3>1 DEF NoneBefore
    <3>. QED
      BY <1>2, <1>4, <3>2, <3>3 DEF SchedulerInv
  <2>. QED
    BY <2>1, <2>2
<1>6. CASE PassOver
  <2>1. loop = "pass" /\ loop' = "pass" /\ task \in Added /\ now' = now
        /\ nextWake' = Least(nextWake, due[task]) /\ task' = task + 1
    BY <1>6 DEF PassOver
  <2>2. nextWake' \in Nat /\ nextWake' <= nextWake /\ nextWake' <= due[task]
    BY <1>3, <2>1 DEF Least
  <2>3. SchedulerTypes'
    BY <1>1, <1>2, <1>3, <2>1, <2>2 DEF SchedulerTypes
  <2>4. ASSUME NEW t \in Added PROVE NoneBefore(t)'
    <3>1. t < task => nextWake <= due[t]
      BY <2>1 DEF SchedulerInv, NoneBefore
    <3>2. t < task' => nextWake' <= due[t]
      <4>1. CASE t = task
        BY <2>2, <4>1
      <4>2. CASE t # task
        BY <1>3, <2>1, <2>2, <3>1, <4>2
      <4>. QED
        BY <4>1, <4>2
    <3>. QED
      BY <1>1, <2>1, <3>2 DEF NoneBefore
  <2>. QED
    BY <1>2, <1>4, <2>3, <2>4 DEF SchedulerInv
<1>. QED
  BY <1>5, <1>6

(* A pass that is over looked at every deadline, and the sleep ends no later than the
   wake-up it planned. *)
LEMMA PlanKeeps == ASSUME SchedulerInv, Plan PROVE SchedulerInv'
<1>1. /\ loop = "pass" /\ task \notin Added /\ now' = 0 /\ task' = 0
      /\ nextWake' = IF high /\ nextWake > clock THEN nextWake ELSE 0
      /\ UNCHANGED <<high, period, spin, running, clock, due, begun, starts>>
  BY DEF Plan
<1>2. SchedulerTypes /\ Added' = Added
  BY <1>1 DEF SchedulerInv, Added
<1>3. clock \in Nat /\ nextWake \in Nat /\ wake \in Nat /\ task = Len(period) + 1 /\ Len(period) \in Nat
      /\ Added = 1 .. Len(period)
  BY <1>1, <1>2 DEF SchedulerTypes, Added
<1>4. /\ loop' \in {"test", "sleep", "spin"} /\ wake' \in Nat
      /\ loop' = "sleep" => wake' <= nextWake
  <2>1. CASE nextWake <= clock
    BY <1>3, <2>1 DEF Plan
  <2>2. CASE ~(nextWake <= clock)
    <3>1. Delta \in Nat \ {0} /\ clock + Delta = nextWake
      BY <1>3, <2>2 DEF Delta
    <3>2. \A e \in 0 .. Delta : SleepFor(e) => loop' = "sleep" /\ wake' \in Nat /\ wake' <= nextWake
      BY <1>3, <3>1 DEF SleepFor
    <3>3. CASE high
      <4>1. PlanHigh
        BY <2>2, <3>3 DEF Plan
      <4>2. Window \in Nat
        BY <1>2, WindowIs
      <4>3. CASE Window > 0 /\ Delta > Window
        <5>1. Delta - Window \in 0 .. Delta /\ SleepFor(Delta - Window)
          BY <3>1, <4>1, <4>2, <4>3 DEF PlanHigh
        <5>. QED
          BY <3>2, <5>1
      <4>4. CASE ~(Window > 0 /\ Delta > Window) /\ Delta > 3
        <5>1. Delta - 1 \in 0 .. Delta /\ SleepFor(Delta - 1)
          BY <3>1, <4>1, <4>4 DEF PlanHigh
        <5>. QED
          BY <3>2, <5>1
      <4>5. CASE ~(Window > 0 /\ Delta > Window) /\ ~(Delta > 3)
        BY <1>3, <4>1, <4>5 DEF PlanHigh
      <4>. QED
        BY <4>3, <4>4, <4>5
    <3>4. CASE ~high
      <4>1. PlanNormal
        BY <2>2, <3>4 DEF Plan
      <4>2. (IF Delta > 4 THEN Delta - 1 ELSE Delta) \in 0 .. Delta
        BY <3>1
      <4>. QED
        BY <3>2, <4>1, <4>2 DEF PlanNormal
    <3>. QED
      BY <3>3, <3>4
  <2>. QED
    BY <2>1, <2>2
<1>5. nextWake' \in Nat
  BY <1>1, <1>3
<1>6. SchedulerTypes'
  BY <1>1, <1>2, <1>4, <1>5 DEF SchedulerTypes
<1>7. \A t \in Added : InPhase(t)' /\ Spaced(t)'
  <2>1. clock' \in Nat /\ clock' >= clock
    BY <1>1, <1>3
  <2>. QED
    BY <1>1, <1>4, <2>1, RunsStay
<1>8. ASSUME NEW t \in Added PROVE NoneBefore(t)'
  <2>1. t < task /\ due[t] \in Nat
    BY <1>2, <1>3 DEF SchedulerTypes
  <2>2. nextWake <= due[t]
    BY <1>1, <2>1 DEF SchedulerInv, NoneBefore
  <2>3. loop' = "sleep" => wake' <= due[t]
    BY <1>3, <1>4, <2>1, <2>2
  <2>. QED
    BY <1>1, <1>4, <2>3 DEF NoneBefore
<1>. QED
  BY <1>2, <1>6, <1>7, <1>8 DEF SchedulerInv

LEMMA OthersKeep ==
  ASSUME SchedulerInv, \/ Tick \/ StopSignal \/ StopJoin \/ Wake \/ Spun
                       \/ UNCHANGED schedulerVars
  PROVE  SchedulerInv'
<1>1. /\ UNCHANGED <<high, period, spin, due, begun, now, task, starts>>
      /\ clock' = clock \/ clock' = clock + 1
  BY DEF Tick, StopSignal, StopJoin, Wake, Spun, schedulerVars
<1>2. SchedulerTypes /\ Added' = Added
  BY <1>1 DEF SchedulerInv, Added
<1>3. clock \in Nat /\ nextWake \in Nat /\ wake \in Nat /\ begun \in 0 .. clock /\ now \in 0 .. clock
  BY <1>2 DEF SchedulerTypes
<1>4. /\ loop' = loop \/ (loop # "call" /\ loop # "none" /\ loop' \in {"test", "spin", "none"})
      /\ nextWake' \in {nextWake, 0} /\ wake' \in {wake, 0}
      /\ loop' = loop => UNCHANGED <<nextWake, wake>>
      /\ loop' = "none" => ~running'
  <2>1. loop = "none" => ~running
    BY <1>2 DEF SchedulerTypes
  <2>2. CASE Tick \/ StopSignal \/ UNCHANGED schedulerVars
    BY <2>1, <2>2 DEF Tick, StopSignal, schedulerVars
  <2>3. CASE StopJoin
    BY <2>3 DEF StopJoin
  <2>4. CASE Wake
    BY <2>4 DEF Wake
  <2>5. CASE Spun
    BY <2>5 DEF Spun
  <2>. QED
    BY <2>2, <2>3, <2>4, <2>5
<1>5. clock' \in Nat /\ clock' >= clock /\ begun \in 0 .. clock' /\ now \in 0 .. clock' /\ nextWake' \in Nat /\ wake' \in Nat
  BY <1>1, <1>3, <1>4
<1>6. SchedulerTypes'
  BY <1>1, <1>2, <1>4, <1>5 DEF SchedulerTypes
<1>7. \A t \in Added : InPhase(t)' /\ Spaced(t)'
  BY <1>1, <1>4, <1>5, RunsStay
<1>8. \A t \in Added : NoneBefore(t)'
  BY <1>1, <1>4 DEF SchedulerInv, NoneBefore
<1>. QED
  BY <1>2, <1>6, <1>7, <1>8 DEF SchedulerInv

LEMMA SchedulerStep == SchedulerInv /\ [SchedulerNext]_schedulerVars => SchedulerInv'
BY StartKeeps, RunTaskKeeps, TaskReturnsKeeps, PassesKeep, PlanKeeps, OthersKeep DEF SchedulerNext

(* Whatever the callbacks take and however late the loops wake (loop_high, loop_normal):
   a deadline is a whole number of periods after start(), a task that is late does not
   make up for the periods it lost (execute_task), no loop sleeps past a deadline, and
   after stop() nothing runs. *)
THEOREM PacedRunsHolds == SchedulerSpec => []PacedRuns
<1>1. SchedulerInit => SchedulerInv
  BY SchedulerStarts
<1>2. SchedulerInv /\ [SchedulerNext]_schedulerVars => SchedulerInv'
  BY SchedulerStep
<1>3. SchedulerInv => PacedRuns
  BY SchedulerMeans
<1>. QED
  BY <1>1, <1>2, <1>3, PTL DEF SchedulerSpec

(***************************************************************************)
(* The layout of a client.  The width of some entries is the sum of their  *)
(* counts (WidthGrows); where the entries tile the row, the k-th of them   *)
(* by offset takes the columns from the width of those before it to that   *)
(* width and its own count, so that a column is one entry's.               *)
(***************************************************************************)
LayoutShape(layout) ==
  /\ Len(layout) \in Nat /\ DOMAIN layout = 1 .. Len(layout)
  /\ \A j \in DOMAIN layout : layout[j].offset \in Nat /\ layout[j].count \in Nat /\ layout[j].names \in Nat

LEMMA ColumnsFinite ==
  ASSUME NEW layout, LayoutShape(layout), NEW some \in SUBSET DOMAIN layout
  PROVE  IsFiniteSet(ColumnsOf(layout, some))
<1>. DEFINE Of(k) == {k} \X (1 .. layout[k].count)
            Each == {Of(k) : k \in some}
            of == [k \in some |-> Of(k)]
<1>1. IsFiniteSet(some)
  <2>1. IsFiniteSet(1 .. Len(layout))
    BY FS_Interval DEF LayoutShape
  <2>. QED
    BY <2>1, FS_Subset DEF LayoutShape
<1>2. IsFiniteSet(Each)
  <2>1. of \in Surjection(some, Each)
    BY DEF Surjection
  <2>. QED
    BY <1>1, <2>1, FS_Surjection
<1>3. ASSUME NEW k \in some PROVE IsFiniteSet(Of(k))
  <2>1. layout[k].count \in Nat
    BY DEF LayoutShape
  <2>2. IsFiniteSet(1 .. layout[k].count)
    BY <2>1, FS_Interval
  <2>3. IsFiniteSet({k})
    BY FS_Singleton
  <2>. QED
    BY <2>2, <2>3, FS_Product
<1>4. IsFiniteSet(UNION Each)
  BY <1>2, <1>3, FS_UNION
<1>. QED
  BY <1>4 DEF ColumnsOf

LEMMA WidthGrows ==
  ASSUME NEW layout, LayoutShape(layout), NEW some \in SUBSET DOMAIN layout, NEW k \in DOMAIN layout, k \notin some
  PROVE  /\ Width(layout, some) \in Nat
         /\ Width(layout, some \union {k}) = Width(layout, some) + layout[k].count
<1>. DEFINE before == ColumnsOf(layout, some)
            own == {k} \X (1 .. layout[k].count)
<1>1. layout[k].count \in Nat
  BY DEF LayoutShape
<1>2. IsFiniteSet(before) /\ Cardinality(before) \in Nat
  BY ColumnsFinite, FS_CardinalityType
<1>3. IsFiniteSet(own) /\ Cardinality(own) = layout[k].count
  <2>1. IsFiniteSet({k}) /\ Cardinality({k}) = 1
    BY FS_Singleton
  <2>2. IsFiniteSet(1 .. layout[k].count) /\ Cardinality(1 .. layout[k].count) = layout[k].count
    BY <1>1, FS_Interval
  <2>3. IsFiniteSet(own) /\ Cardinality(own) = Cardinality({k}) * Cardinality(1 .. layout[k].count)
    BY <2>1, <2>2, FS_Product
  <2>. QED
    BY <1>1, <2>1, <2>2, <2>3
<1>4. before \intersect own = {}
  BY DEF ColumnsOf
<1>5. ColumnsOf(layout, some \union {k}) = before \union own
  BY DEF ColumnsOf
<1>. HIDE DEF before, own
<1>6. Cardinality(before \union own) = Cardinality(before) + layout[k].count
  <2>1. Cardinality(before \intersect own) = 0
    BY <1>4, FS_EmptySet
  <2>2. Cardinality(before \union own) = Cardinality(before) + Cardinality(own) - Cardinality(before \intersect own)
    BY <1>2, <1>3, FS_Union
  <2>. QED
    BY <1>1, <1>2, <1>3, <2>1, <2>2
<1>. QED
  BY <1>2, <1>5, <1>6 DEF Width, before

LEMMA WidthNone == \A layout : Width(layout, {}) = 0
BY FS_EmptySet DEF Width, ColumnsOf

LEMMA WidthMonotone ==
  ASSUME NEW layout, LayoutShape(layout), NEW all \in SUBSET DOMAIN layout, NEW some \in SUBSET all
  PROVE  Width(layout, some) <= Width(layout, all)
<1>1. IsFiniteSet(ColumnsOf(layout, all))
  BY ColumnsFinite
<1>2. ColumnsOf(layout, some) \in SUBSET ColumnsOf(layout, all)
  BY DEF ColumnsOf
<1>. QED
  BY <1>1, <1>2, FS_Subset DEF Width

(* Where the entries before the k-th begin and end, whatever order they are taken in. *)
LEMMA ExpectedIs ==
  ASSUME NEW layout, LayoutShape(layout), NEW order \in Sorted(layout), NEW n, n = Len(layout)
  PROVE  /\ Expected(layout, order, 1) = 0
         /\ Expected(layout, order, n + 1) = Width(layout, DOMAIN layout)
         /\ \A k \in 1 .. n : /\ Expected(layout, order, k) \in Nat
                              /\ Expected(layout, order, k + 1) = Expected(layout, order, k) + layout[order[k]].count
         /\ \A k, m \in 1 .. n : k < m => Expected(layout, order, k + 1) <= Expected(layout, order, m)
<1>. DEFINE Upto(k) == {order[j] : j \in 1 .. k}
<1>1. n \in Nat /\ DOMAIN layout = 1 .. n
  BY DEF LayoutShape
<1>2. /\ order \in [1 .. n -> 1 .. n]
      /\ \A j, k \in 1 .. n : order[j] = order[k] => j = k
      /\ \A t \in 1 .. n : \E j \in 1 .. n : order[j] = t
  BY <1>1 DEF Sorted, Bijection, Injection, Surjection, IsInjective
<1>3. \A k \in 1 .. n + 1 : Expected(layout, order, k) = Width(layout, Upto(k - 1)) /\ Upto(k - 1) \in SUBSET DOMAIN layout
  <2>1. \A k : Expected(layout, order, k) = Width(layout, Upto(k - 1))
    BY DEF Expected
  <2>2. ASSUME NEW k \in 1 .. n + 1 PROVE Upto(k - 1) \in SUBSET DOMAIN layout
    <3>1. \A j \in 1 .. k - 1 : order[j] \in 1 .. n
      BY <1>1, <1>2
    <3>. QED
      BY <1>1, <3>1
  <2>. QED
    BY <2>1, <2>2
<1>4. Expected(layout, order, 1) = 0
  <2>1. Upto(1 - 1) = {}
    OBVIOUS
  <2>. QED
    BY <1>1, <1>3, <2>1, WidthNone
<1>5. Expected(layout, order, n + 1) = Width(layout, DOMAIN layout)
  <2>1. n + 1 - 1 = n /\ n + 1 \in 1 .. n + 1
    BY <1>1
  <2>2. Upto(n) = DOMAIN layout
    <3>1. \A j \in 1 .. n : order[j] \in 1 .. n
      BY <1>2
    <3>. QED
      BY <1>1, <1>2, <3>1
  <2>. HIDE DEF Upto
  <2>. QED
    BY <1>3, <2>1, <2>2
<1>6. ASSUME NEW k \in 1 .. n
      PROVE  /\ Expected(layout, order, k) \in Nat
             /\ Expected(layout, order, k + 1) = Expected(layout, order, k) + layout[order[k]].count
  <2>1. order[k] \in DOMAIN layout /\ order[k] \notin Upto(k - 1)
    BY <1>1, <1>2
  <2>2. Upto(k + 1 - 1) = Upto(k - 1) \union {order[k]}
    BY <1>1
  <2>3. k \in 1 .. n + 1 /\ k + 1 \in 1 .. n + 1
    BY <1>1
  <2>4. Upto(k - 1) \in SUBSET DOMAIN layout
    BY <1>3, <2>3
  <2>. HIDE DEF Upto
  <2>5. Width(layout, Upto(k - 1)) \in Nat
        /\ Width(layout, Upto(k + 1 - 1)) = Width(layout, Upto(k - 1)) + layout[order[k]].count
    BY <2>1, <2>2, <2>4, WidthGrows
  <2>. QED
    BY <1>3, <2>3, <2>5
<1>7. ASSUME NEW k \in 1 .. n, NEW m \in 1 .. n, k < m
      PROVE  Expected(layout, order, k + 1) <= Expected(layout, order, m)
  <2>1. Upto(k + 1 - 1) \in SUBSET Upto(m - 1)
    BY <1>1, <1>7
  <2>2. k + 1 \in 1 .. n + 1 /\ m \in 1 .. n + 1
    BY <1>1
  <2>. HIDE DEF Upto
  <2>. QED
    BY <1>3, <2>1, <2>2, WidthMonotone
<1>. QED
  BY <1>4, <1>5, <1>6, <1>7

Slice(layout, j, column) == layout[j].offset <= column /\ column < layout[j].offset + layout[j].count

LEMMA TilesCover ==
  ASSUME NEW layout, LayoutShape(layout), Tiles(layout), NEW column \in 0 .. Width(layout, DOMAIN layout) - 1
  PROVE  \E j \in DOMAIN layout : {i \in DOMAIN layout : Slice(layout, i, column)} = {j}
<1>1. PICK order \in Sorted(layout) : \A k \in DOMAIN layout : layout[order[k]].offset = Expected(layout, order, k)
  BY DEF Tiles
<1>2. PICK n : n = Len(layout)
  OBVIOUS
<1>3. n \in Nat /\ DOMAIN layout = 1 .. n
  BY <1>2 DEF LayoutShape
<1>. DEFINE At(k) == Expected(layout, order, k)
            Ends == {k \in 1 .. n : column < At(k + 1)}
<1>4. /\ At(1) = 0 /\ At(n + 1) = Width(layout, DOMAIN layout)
      /\ \A k \in 1 .. n : At(k) \in Nat /\ At(k + 1) = At(k) + layout[order[k]].count
      /\ \A k, m \in 1 .. n : k < m => At(k + 1) <= At(m)
  BY <1>1, <1>2, ExpectedIs
<1>5. /\ order \in [1 .. n -> 1 .. n]
      /\ \A t \in 1 .. n : \E j \in 1 .. n : order[j] = t
  BY <1>3 DEF Sorted, Bijection, Injection, Surjection
<1>6. \A k \in 1 .. n : layout[order[k]].offset = At(k) /\ layout[order[k]].count \in Nat
  BY <1>1, <1>3, <1>5 DEF LayoutShape
<1>. HIDE DEF At
<1>7. At(n + 1) \in Nat
  BY <1>3, <1>4, <1>6
<1>8. column \in Nat /\ column < At(n + 1)
  BY <1>4, <1>7
<1>9. n \in Ends
  <2>1. n # 0
    BY <1>4, <1>8
  <2>. QED
    BY <1>3, <1>8, <2>1
<1>10. PICK k \in Ends : \A m \in Ends : k <= m
  <2>1. Ends \in SUBSET Nat /\ Ends # {}
    <3>1. \A m \in 1 .. n : m \in Nat
      BY <1>3
    <3>. QED
      BY <1>9, <3>1
  <2>. HIDE DEF Ends
  <2>. QED
    BY <2>1, LeastIn
<1>11. k \in 1 .. n /\ column < At(k + 1) /\ At(k) <= column
  <2>1. k \in 1 .. n /\ column < At(k + 1)
    BY <1>10
  <2>2. CASE k = 1
    BY <1>4, <1>8, <2>1, <2>2
  <2>3. CASE k # 1
    <3>1. k - 1 \in 1 .. n /\ k - 1 \notin Ends
      BY <1>3, <1>10, <2>1, <2>3
    <3>2. ~(column < At(k - 1 + 1))
      BY <3>1
    <3>3. k - 1 + 1 = k
      BY <2>1
    <3>. QED
      BY <1>4, <1>8, <2>1, <3>2, <3>3
  <2>. QED
    BY <2>1, <2>2, <2>3
<1>12. ASSUME NEW m \in 1 .. n PROVE Slice(layout, order[m], column) <=> m = k
  <2>1. Slice(layout, order[m], column) <=> (At(m) <= column /\ column < At(m + 1))
    BY <1>4, <1>6 DEF Slice
  <2>2. CASE m < k
    <3>1. At(m + 1) <= At(k) /\ At(m + 1) \in Nat /\ At(k) \in Nat
      BY <1>4, <1>6, <1>11, <2>2
    <3>. QED
      BY <1>3, <1>8, <1>11, <2>1, <2>2, <3>1
  <2>3. CASE k < m
    <3>1. At(k + 1) <= At(m) /\ At(k + 1) \in Nat /\ At(m) \in Nat
      BY <1>4, <1>6, <1>11, <2>3
    <3>. QED
      BY <1>3, <1>8, <1>11, <2>1, <2>3, <3>1
  <2>. QED
    BY <1>3, <1>11, <2>1, <2>2, <2>3
<1>13. {i \in DOMAIN layout : Slice(layout, i, column)} = {order[k]}
  BY <1>3, <1>5, <1>11, <1>12
<1>. QED
  BY <1>3, <1>5, <1>11, <1>13

(***************************************************************************)
(* The names of the joints and the keys of an observation are put together *)
(* in the same order, entry by entry: FlattenSeq is the last of the        *)
(* sequences that each add one entry (FlattenIs), and what is carried      *)
(* entry by entry is carried as a whole (CarriedGrows).                    *)
(***************************************************************************)
Grown(seqs, f, n) == f[1] = seqs[1] /\ \A i \in 2 .. n : f[i] = f[i - 1] \o seqs[i]

LEMMA GrownExists ==
  ASSUME NEW seqs, NEW n \in Nat, n > 0
  PROVE  \E f : DOMAIN f = 1 .. n /\ Grown(seqs, f, n)
<1>. DEFINE Good(k) == \E f : DOMAIN f = 1 .. k /\ Grown(seqs, f, k)
            Bad == {k \in 1 .. n : ~Good(k)}
<1>1. Good(1)
  <2>. DEFINE f == [i \in 1 .. 1 |-> seqs[1]]
  <2>1. DOMAIN f = 1 .. 1 /\ f[1] = seqs[1] /\ 2 .. 1 = {}
    OBVIOUS
  <2>. HIDE DEF f
  <2>. QED
    BY <2>1 DEF Grown
<1>2. ASSUME NEW k \in 1 .. n, k # 1, Good(k - 1) PROVE Good(k)
  <2>1. PICK g : DOMAIN g = 1 .. k - 1 /\ Grown(seqs, g, k - 1)
    BY <1>2
  <2>. DEFINE f == [i \in 1 .. k |-> IF i = k THEN g[k - 1] \o seqs[k] ELSE g[i]]
  <2>2. k - 1 \in 1 .. k /\ k - 1 # k /\ 1 \in 1 .. k /\ k \in 1 .. k
    BY <1>2
  <2>3. DOMAIN f = 1 .. k /\ f[1] = seqs[1] /\ f[k] = f[k - 1] \o seqs[k]
    BY <1>2, <2>1, <2>2 DEF Grown
  <2>4. ASSUME NEW i \in 2 .. k - 1 PROVE f[i] = f[i - 1] \o seqs[i]
    <3>1. i \in 1 .. k /\ i # k /\ i - 1 \in 1 .. k /\ i - 1 # k
      BY <1>2
    <3>2. f[i] = g[i] /\ f[i - 1] = g[i - 1]
      BY <3>1
    <3>. HIDE DEF f
    <3>. QED
      BY <2>1, <3>2 DEF Grown
  <2>. HIDE DEF f
  <2>5. \A i \in 2 .. k : i = k \/ i \in 2 .. k - 1
    BY <1>2
  <2>6. Grown(seqs, f, k)
    BY <2>3, <2>4, <2>5 DEF Grown
  <2>. QED
    BY <2>3, <2>6
<1>. HIDE DEF Good
<1>3. ASSUME Bad = {} PROVE Good(n)
  <2>1. n \in 1 .. n /\ n \notin Bad
    BY <1>3
  <2>. QED
    BY <2>1
<1>4. ASSUME Bad # {} PROVE FALSE
  <2>1. PICK k \in Bad : \A m \in Bad : k <= m
    <3>1. Bad \in SUBSET Nat
      OBVIOUS
    <3>. HIDE DEF Bad
    <3>. QED
      BY <1>4, <3>1, LeastIn
  <2>2. k \in 1 .. n /\ ~Good(k) /\ k # 1
    BY <1>1, <2>1
  <2>3. k - 1 \in 1 .. n /\ k - 1 \notin Bad
    BY <2>1, <2>2
  <2>. QED
    BY <1>2, <2>2, <2>3
<1>5. Good(n)
  BY <1>3, <1>4
<1>. QED
  BY <1>5 DEF Good

LEMMA FlattenIs ==
  ASSUME NEW seqs, NEW n \in Nat, n > 0, Len(seqs) = n
  PROVE  \E f : Grown(seqs, f, n) /\ FlattenSeq(seqs) = f[n]
<1>. DEFINE Flat(f) == f = [i \in 1 .. Len(seqs) |-> IF i = 1 THEN seqs[i] ELSE f[i - 1] \o seqs[i]]
            flat == CHOOSE f : Flat(f)
<1>1. FlattenSeq(seqs) = flat[n]
  BY DEF FlattenSeq
<1>2. \E f : Flat(f)
  <2>1. PICK g : DOMAIN g = 1 .. n /\ Grown(seqs, g, n)
    BY GrownExists
  <2>. DEFINE f == [i \in 1 .. n |-> g[i]]
  <2>2. ASSUME NEW i \in 1 .. n PROVE f[i] = IF i = 1 THEN seqs[i] ELSE f[i - 1] \o seqs[i]
    <3>1. i = 1 \/ (i \in 2 .. n /\ i - 1 \in 1 .. n)
      OBVIOUS
    <3>. QED
      BY <2>1, <3>1 DEF Grown
  <2>3. f = [i \in 1 .. n |-> f[i]]
    OBVIOUS
  <2>. HIDE DEF f
  <2>4. [i \in 1 .. n |-> f[i]] = [i \in 1 .. n |-> IF i = 1 THEN seqs[i] ELSE f[i - 1] \o seqs[i]]
    BY <2>2
  <2>. QED
    BY <2>3, <2>4
<1>3. Flat(flat)
  <2>. HIDE DEF Flat
  <2>. QED
    BY <1>2
<1>4. \A i \in 1 .. n : flat[i] = IF i = 1 THEN seqs[i] ELSE flat[i - 1] \o seqs[i]
  <2>. HIDE DEF flat
  <2>. QED
    BY <1>3
<1>5. Grown(seqs, flat, n)
  <2>. HIDE DEF flat
  <2>1. 1 \in 1 .. n /\ \A i \in 2 .. n : i \in 1 .. n /\ i # 1
    OBVIOUS
  <2>. QED
    BY <1>4, <2>1, Zenon DEF Grown
<1>. QED
  BY <1>1, <1>5

Joined(s, a, b, A, B) ==
  /\ DOMAIN s = 1 .. A + B /\ DOMAIN a = 1 .. A /\ DOMAIN b = 1 .. B
  /\ \A i \in 1 .. A : s[i] = a[i]
  /\ \A h \in 1 .. B : s[h + A] = b[h]

LEMMA JoinedIs ==
  ASSUME NEW S, NEW a \in Seq(S), NEW b \in Seq(S)
  PROVE  \E A, B \in Nat : Joined(a \o b, a, b, A, B)
<1>1. PICK A, B, s : A = Len(a) /\ B = Len(b) /\ s = a \o b
  OBVIOUS
<1>2. A \in Nat /\ B \in Nat /\ DOMAIN a = 1 .. A /\ DOMAIN b = 1 .. B
  BY <1>1
<1>3. /\ s \in Seq(S) /\ Len(s) = A + B
      /\ \A i \in 1 .. A + B : s[i] = IF i <= A THEN a[i] ELSE b[i - A]
  BY <1>1, ConcatProperties
<1>4. DOMAIN s = 1 .. A + B
  BY <1>3
<1>5. \A i \in 1 .. A : i \in 1 .. A + B /\ i <= A
  BY <1>2
<1>6. \A h \in 1 .. B : h + A \in 1 .. A + B /\ ~(h + A <= A) /\ h + A - A = h
  BY <1>2
<1>7. \A i \in 1 .. A : s[i] = a[i]
  BY <1>3, <1>5, Zenon
<1>8. ASSUME NEW h \in 1 .. B PROVE s[h + A] = b[h]
  <2>1. PICK i : i = h + A
    OBVIOUS
  <2>2. i \in 1 .. A + B /\ ~(i <= A) /\ i - A = h
    BY <1>2, <2>1
  <2>3. s[i] = b[i - A]
    BY <1>3, <2>2, Zenon
  <2>. QED
    BY <2>1, <2>2, <2>3, Zenon
<1>9. Joined(s, a, b, A, B)
  BY <1>2, <1>4, <1>7, <1>8 DEF Joined
<1>. QED
  BY <1>1, <1>2, <1>9, Zenon

CarriedBy(at, a, k, A, K) ==
  /\ at \in [1 .. A -> 1 .. K]
  /\ \A i, j \in 1 .. A : i < j => at[i] < at[j]
  /\ \A i \in 1 .. A : k[at[i]] = a[i]
  /\ \A q \in 1 .. K : Len(k[q]) = 2 => \E i \in 1 .. A : at[i] = q

LEMMA CarriedMeans ==
  ASSUME NEW a, NEW k, NEW A, NEW K, DOMAIN a = 1 .. A, DOMAIN k = 1 .. K
  PROVE  Carried(a, k) <=> \E at : CarriedBy(at, a, k, A, K)
BY DEF Carried, CarriedBy

LEMMA CarriedJoin ==
  ASSUME NEW a, NEW b, NEW ab, NEW A \in Nat, NEW B \in Nat, Joined(ab, a, b, A, B),
         NEW k, NEW l, NEW kl, NEW K \in Nat, NEW L \in Nat, Joined(kl, k, l, K, L),
         Carried(a, k), Carried(b, l)
  PROVE  Carried(ab, kl)
<1>1. DOMAIN a = 1 .. A /\ DOMAIN b = 1 .. B /\ DOMAIN k = 1 .. K /\ DOMAIN l = 1 .. L
  BY DEF Joined
<1>2. (\A i \in 1 .. A : ab[i] = a[i]) /\ \A h \in 1 .. B : ab[h + A] = b[h]
  BY DEF Joined
<1>3. (\A i \in 1 .. K : kl[i] = k[i]) /\ \A h \in 1 .. L : kl[h + K] = l[h]
  BY DEF Joined
<1>4. DOMAIN ab = 1 .. A + B /\ DOMAIN kl = 1 .. K + L
  BY DEF Joined
<1>5. PICK p, r : CarriedBy(p, a, k, A, K) /\ CarriedBy(r, b, l, B, L)
  BY <1>1, CarriedMeans
<1>6. /\ p \in [1 .. A -> 1 .. K]
      /\ \A i, j \in 1 .. A : i < j => p[i] < p[j]
      /\ \A i \in 1 .. A : k[p[i]] = a[i]
      /\ \A q \in 1 .. K : Len(k[q]) = 2 => \E i \in 1 .. A : p[i] = q
  BY <1>5 DEF CarriedBy
<1>7. /\ r \in [1 .. B -> 1 .. L]
      /\ \A i, j \in 1 .. B : i < j => r[i] < r[j]
      /\ \A i \in 1 .. B : l[r[i]] = b[i]
      /\ \A q \in 1 .. L : Len(l[q]) = 2 => \E i \in 1 .. B : r[i] = q
  BY <1>5 DEF CarriedBy
<1>. DEFINE at == [i \in 1 .. A + B |-> IF i <= A THEN p[i] ELSE K + r[i - A]]
<1>8. \A i \in 1 .. A + B : i \in 1 .. A \/ (i > A /\ i - A \in 1 .. B)
  BY <1>1
<1>9. ASSUME NEW i \in 1 .. A
       PROVE  i \in 1 .. A + B /\ at[i] = p[i] /\ p[i] \in 1 .. K /\ p[i] \in 1 .. K + L
  BY <1>1, <1>6
<1>10. ASSUME NEW i \in 1 .. B
       PROVE  i + A \in 1 .. A + B /\ i + A > A /\ at[i + A] = K + r[i] /\ r[i] \in 1 .. L /\ K + r[i] \in 1 .. K + L
  <2>1. i + A \in 1 .. A + B /\ i + A > A /\ i + A - A = i /\ ~(i + A <= A)
    BY <1>1
  <2>2. r[i] \in 1 .. L /\ K + r[i] \in 1 .. K + L
    BY <1>1, <1>7
  <2>. QED
    BY <1>1, <2>1, <2>2
<1>11. \A i \in 1 .. A + B : i \in 1 .. A \/ \E h \in 1 .. B : i = h + A
  BY <1>1, <1>8
<1>12. at \in [1 .. A + B -> 1 .. K + L]
  <2>1. DOMAIN at = 1 .. A + B /\ at = [i \in 1 .. A + B |-> at[i]]
    OBVIOUS
  <2>. HIDE DEF at
  <2>2. \A i \in 1 .. A + B : at[i] \in 1 .. K + L
    BY <1>9, <1>10, <1>11
  <2>. QED
    BY <2>1, <2>2
<1>. HIDE DEF at
<1>13. ASSUME NEW i \in 1 .. A + B, NEW j \in 1 .. A + B, i < j PROVE at[i] < at[j]
  <2>1. CASE i \in 1 .. A /\ j \in 1 .. A
    BY <1>6, <1>9, <1>13, <2>1
  <2>2. CASE i \in 1 .. A /\ j \notin 1 .. A
    <3>1. PICK h \in 1 .. B : j = h + A
      BY <1>11, <2>2
    <3>2. at[i] = p[i] /\ p[i] \in 1 .. K /\ at[j] = K + r[h] /\ r[h] \in 1 .. L
      BY <1>9, <1>10, <2>2, <3>1
    <3>. QED
      BY <1>1, <3>2
  <2>3. CASE i \notin 1 .. A
    <3>1. PICK g \in 1 .. B : i = g + A
      BY <1>11, <2>3
    <3>2. j \notin 1 .. A
      BY <1>1, <1>13, <2>3
    <3>3. PICK h \in 1 .. B : j = h + A
      BY <1>11, <3>2
    <3>4. r[g] < r[h] /\ r[g] \in 1 .. L /\ r[h] \in 1 .. L
      BY <1>1, <1>7, <1>13, <3>1, <3>3
    <3>5. at[i] = K + r[g] /\ at[j] = K + r[h]
      BY <1>10, <3>1, <3>3
    <3>. QED
      BY <1>1, <3>4, <3>5
  <2>. QED
    BY <2>1, <2>2, <2>3
<1>14. ASSUME NEW i \in 1 .. A + B PROVE kl[at[i]] = ab[i]
  <2>1. CASE i \in 1 .. A
    <3>1. at[i] = p[i] /\ p[i] \in 1 .. K /\ k[p[i]] = a[i]
      BY <1>6, <1>9, <2>1, Zenon
    <3>. QED
      BY <1>2, <1>3, <2>1, <3>1, Zenon
  <2>2. CASE i \notin 1 .. A
    <3>1. PICK h \in 1 .. B : i = h + A
      BY <1>11, <2>2
    <3>2. at[i] = K + r[h] /\ r[h] \in 1 .. L /\ l[r[h]] = b[h]
      BY <1>7, <1>10, <3>1, Zenon
    <3>3. K + r[h] = r[h] + K
      BY <1>1, <3>2
    <3>4. kl[r[h] + K] = l[r[h]] /\ ab[h + A] = b[h]
      BY <1>2, <1>3, <3>2, Zenon
    <3>. QED
      BY <3>1, <3>2, <3>3, <3>4, Zenon
  <2>. QED
    BY <2>1, <2>2
<1>15. ASSUME NEW q \in 1 .. K + L, Len(kl[q]) = 2 PROVE \E i \in 1 .. A + B : at[i] = q
  <2>1. CASE q \in 1 .. K
    <3>1. kl[q] = k[q]
      BY <1>3, <2>1, Zenon
    <3>2. PICK i \in 1 .. A : p[i] = q
      BY <1>6, <1>15, <2>1, <3>1
    <3>. QED
      BY <1>9, <3>2
  <2>2. CASE q \notin 1 .. K
    <3>1. PICK g \in 1 .. L : q = g + K
      <4>1. q - K \in 1 .. L /\ q = (q - K) + K
        BY <1>1, <2>2
      <4>. QED
        BY <4>1
    <3>2. kl[q] = l[g]
      BY <1>3, <3>1, Zenon
    <3>3. PICK h \in 1 .. B : r[h] = g
      BY <1>7, <1>15, <3>1, <3>2
    <3>4. K + r[h] = q
      BY <1>1, <3>1, <3>3
    <3>. QED
      BY <1>10, <3>4
  <2>. QED
    BY <2>1, <2>2
<1>16. CarriedBy(at, ab, kl, A + B, K + L)
  BY <1>12, <1>13, <1>14, <1>15 DEF CarriedBy
<1>. QED
  BY <1>4, <1>16, CarriedMeans

LEMMA CarriedGrows ==
  ASSUME NEW S, NEW a \in Seq(S), NEW b \in Seq(S), NEW k \in Seq(S), NEW l \in Seq(S), Carried(a, k), Carried(b, l)
  PROVE  a \o b \in Seq(S) /\ k \o l \in Seq(S) /\ Carried(a \o b, k \o l)
<1>1. PICK A \in Nat, B \in Nat : Joined(a \o b, a, b, A, B)
  BY JoinedIs
<1>2. PICK K \in Nat, L \in Nat : Joined(k \o l, k, l, K, L)
  BY JoinedIs
<1>3. Carried(a \o b, k \o l)
  BY <1>1, <1>2, CarriedJoin
<1>. QED
  BY <1>3, ConcatProperties

NamesOf(e) == [n \in 1 .. e.names |-> <<e.leader, n>>]
KeysOf(e) ==
  [n \in 1 .. e.count |-> IF n <= e.names THEN <<e.leader, n>> ELSE <<e.leader, "unnamed", n>>]

LEMMA EntryCarries ==
  ASSUME NEW e, e.names \in Nat, e.count \in Nat, e.names \in {0, e.count}
  PROVE  Carried(NamesOf(e), KeysOf(e))
<1>. DEFINE at == [i \in 1 .. e.names |-> i]
<1>1. DOMAIN NamesOf(e) = 1 .. e.names /\ DOMAIN KeysOf(e) = 1 .. e.count
  BY DEF NamesOf, KeysOf
<1>2. at \in [1 .. e.names -> 1 .. e.count] /\ \A i \in 1 .. e.names : at[i] = i
  OBVIOUS
<1>3. \A i \in 1 .. e.names : KeysOf(e)[i] = NamesOf(e)[i]
  BY DEF NamesOf, KeysOf
<1>4. ASSUME NEW q \in 1 .. e.count, Len(KeysOf(e)[q]) = 2 PROVE q \in 1 .. e.names
  <2>1. Len(<<e.leader, "unnamed", q>>) = 3
    OBVIOUS
  <2>2. CASE ~(q <= e.names)
    <3>1. KeysOf(e)[q] = <<e.leader, "unnamed", q>>
      BY <2>2 DEF KeysOf
    <3>. QED
      BY <1>4, <2>1, <3>1
  <2>. QED
    BY <2>2
<1>. HIDE DEF at
<1>5. CarriedBy(at, NamesOf(e), KeysOf(e), e.names, e.count)
  <2>1. \A i, j \in 1 .. e.names : i < j => at[i] < at[j]
    BY <1>2
  <2>2. \A i \in 1 .. e.names : KeysOf(e)[at[i]] = NamesOf(e)[i]
    BY <1>2, <1>3
  <2>3. \A q \in 1 .. e.count : Len(KeysOf(e)[q]) = 2 => \E i \in 1 .. e.names : at[i] = q
    BY <1>2, <1>4
  <2>. QED
    BY <1>2, <2>1, <2>2, <2>3 DEF CarriedBy
<1>. QED
  BY <1>1, <1>5, CarriedMeans

(* What is carried block by block is carried by the sequences of all the blocks. *)
LEMMA FlatCarried ==
  ASSUME NEW n \in Nat, n > 0, NEW S, NEW a, NEW k, Len(a) = n, Len(k) = n,
         \A i \in 1 .. n : a[i] \in Seq(S) /\ k[i] \in Seq(S) /\ Carried(a[i], k[i])
  PROVE  Carried(FlattenSeq(a), FlattenSeq(k))
<1>1. PICK f : Grown(a, f, n) /\ FlattenSeq(a) = f[n]
  BY FlattenIs
<1>2. PICK g : Grown(k, g, n) /\ FlattenSeq(k) = g[n]
  BY FlattenIs
<1>. DEFINE Good(i) == f[i] \in Seq(S) /\ g[i] \in Seq(S) /\ Carried(f[i], g[i])
            Bad == {i \in 1 .. n : ~Good(i)}
<1>3. Good(1)
  <2>1. f[1] = a[1] /\ g[1] = k[1] /\ 1 \in 1 .. n
    BY <1>1, <1>2 DEF Grown
  <2>. QED
    BY <2>1
<1>4. ASSUME NEW i \in 2 .. n, Good(i - 1) PROVE Good(i)
  <2>1. f[i] = f[i - 1] \o a[i] /\ g[i] = g[i - 1] \o k[i]
    BY <1>1, <1>2, Zenon DEF Grown
  <2>2. i \in 1 .. n
    OBVIOUS
  <2>3. PICK p, q, x, y : p = f[i - 1] /\ q = g[i - 1] /\ x = a[i] /\ y = k[i]
    OBVIOUS
  <2>4. p \in Seq(S) /\ q \in Seq(S) /\ Carried(p, q)
    BY <1>4, <2>3
  <2>5. x \in Seq(S) /\ y \in Seq(S) /\ Carried(x, y)
    BY <2>2, <2>3
  <2>6. p \o x \in Seq(S) /\ q \o y \in Seq(S) /\ Carried(p \o x, q \o y)
    BY <2>4, <2>5, CarriedGrows
  <2>. QED
    BY <2>1, <2>3, <2>6
<1>. HIDE DEF Good
<1>5. ASSUME Bad # {} PROVE FALSE
  <2>1. PICK i \in Bad : \A m \in Bad : i <= m
    <3>1. Bad \in SUBSET Nat
      OBVIOUS
    <3>. HIDE DEF Bad
    <3>. QED
      BY <1>5, <3>1, LeastIn
  <2>2. i \in 2 .. n /\ ~Good(i)
    BY <1>3, <2>1
  <2>3. i - 1 \in 1 .. n /\ i - 1 \notin Bad
    BY <2>1, <2>2
  <2>. QED
    BY <1>4, <2>2, <2>3
<1>6. n \in 1 .. n /\ n \notin Bad
  <2>1. Bad = {} /\ n \in 1 .. n
    BY <1>5
  <2>. QED
    BY <2>1
<1>7. Good(n)
  BY <1>6
<1>. QED
  BY <1>1, <1>2, <1>7 DEF Good

LEMMA KeysCarry ==
  ASSUME NEW c, LayoutShape(c.layout), \A j \in DOMAIN c.layout : EntryParses(c.layout[j])
  PROVE  Carried(MotorNames(c), StateKeys(c))
<1>. DEFINE layout == c.layout
            names == [j \in DOMAIN layout |-> NamesOf(layout[j])]
            keys == [j \in DOMAIN layout |-> KeysOf(layout[j])]
            Numbered == {<<layout[j].leader, m>> : j \in DOMAIN layout, m \in Nat}
            Unnamed == {<<layout[j].leader, "unnamed", m>> : j \in DOMAIN layout, m \in Nat}
            S == Numbered \union Unnamed
<1>1. MotorNames(c) = FlattenSeq(names) /\ StateKeys(c) = FlattenSeq(keys)
  BY DEF MotorNames, StateKeys, NamesOf, KeysOf
<1>2. PICK n \in Nat : n = Len(layout) /\ DOMAIN layout = 1 .. n
  BY DEF LayoutShape
<1>3. Len(names) = n /\ Len(keys) = n
  <2>1. DOMAIN names = 1 .. n /\ DOMAIN keys = 1 .. n
    BY <1>2
  <2>2. names = [j \in 1 .. n |-> NamesOf(layout[j])] /\ keys = [j \in 1 .. n |-> KeysOf(layout[j])]
    BY <1>2
  <2>. QED
    BY <2>2
<1>4. ASSUME NEW j \in DOMAIN layout
      PROVE  names[j] \in Seq(S) /\ keys[j] \in Seq(S) /\ Carried(names[j], keys[j])
  <2>1. PICK e : e = layout[j]
    OBVIOUS
  <2>2. names[j] = NamesOf(e) /\ keys[j] = KeysOf(e)
    BY <2>1
  <2>3. e.names \in Nat /\ e.count \in Nat /\ e.names \in {0, e.count}
    BY <2>1 DEF LayoutShape, EntryParses
  <2>4. \A m \in Nat : <<e.leader, m>> \in S /\ <<e.leader, "unnamed", m>> \in S
    BY <2>1
  <2>. HIDE DEF S, names, keys, layout
  <2>5. NamesOf(e) \in Seq(S)
    <3>1. \A m \in 1 .. e.names : m \in Nat
      BY <2>3
    <3>2. \A m \in 1 .. e.names : <<e.leader, m>> \in S
      BY <2>4, <3>1
    <3>. QED
      BY <2>3, <3>2 DEF NamesOf
  <2>6. KeysOf(e) \in Seq(S)
    <3>. DEFINE Key(m) == IF m <= e.names THEN <<e.leader, m>> ELSE <<e.leader, "unnamed", m>>
    <3>1. \A m \in 1 .. e.count : m \in Nat
      BY <2>3
    <3>2. \A m \in 1 .. e.count : Key(m) \in S
      BY <2>4, <3>1
    <3>3. KeysOf(e) = [m \in 1 .. e.count |-> Key(m)]
      BY DEF KeysOf
    <3>. HIDE DEF Key
    <3>. QED
      BY <2>3, <3>2, <3>3
  <2>. QED
    BY <2>2, <2>3, <2>5, <2>6, EntryCarries
<1>5. CASE n = 0
  <2>1. DOMAIN names = {} /\ names = keys
    BY <1>2, <1>5
  <2>2. FlattenSeq(names) = names /\ FlattenSeq(keys) = keys
    BY <1>3, <1>5 DEF FlattenSeq
  <2>. HIDE DEF names, keys
  <2>3. Carried(names, names)
    <3>1. DOMAIN names = 1 .. 0
      BY <2>1
    <3>. DEFINE at == [i \in 1 .. 0 |-> i]
    <3>2. CarriedBy(at, names, names, 0, 0)
      BY DEF CarriedBy
    <3>. QED
      BY <3>1, <3>2, CarriedMeans
  <2>. QED
    BY <1>1, <2>1, <2>2, <2>3
<1>6. CASE n # 0
  <2>1. n > 0
    BY <1>6
  <2>. HIDE DEF names, keys, S, layout
  <2>. QED
    BY <1>1, <1>2, <1>3, <1>4, <2>1, FlatCarried
<1>. QED
  BY <1>5, <1>6


(***************************************************************************)
(* The registry of live components.  What is registered as a client is     *)
(* the client of the file it stands for (ClientsKnown), so that a client   *)
(* which is let go of has left no entry behind but its faces.              *)
(***************************************************************************)
FileShape(f) ==
  /\ Len(f.clients) \in Nat /\ DOMAIN f.clients = 1 .. Len(f.clients)
  /\ \A k \in DOMAIN f.clients : LayoutShape(f.clients[k].layout)
  /\ Len(f.hardware) \in Nat /\ DOMAIN f.hardware = 1 .. Len(f.hardware)
  /\ \A n \in DOMAIN f.hardware : f.hardware[n].kind \in {"arm", "camera"}

ClientsKnown ==
  \A c \in registry : c.kind = "client" => c = Component(file.clients[c.client].id, "client", c.client)

SetupInv ==
  /\ FileShape(file) /\ made \in Nat
  /\ RegistryOwned /\ ClientsKnown

EntryShape(e) == e.offset \in Nat /\ e.count \in Nat /\ e.names \in Nat

LEMMA EntriesShape ==
  /\ \A d : EntryShape(d) => LayoutShape(<<d>>)
  /\ \A d, e : EntryShape(d) /\ EntryShape(e) => LayoutShape(<<d, e>>)
<1>1. ASSUME NEW d, EntryShape(d) PROVE LayoutShape(<<d>>)
  <2>1. Len(<<d>>) = 1 /\ DOMAIN <<d>> = 1 .. 1 /\ <<d>>[1] = d
    OBVIOUS
  <2>. QED
    BY <1>1, <2>1 DEF LayoutShape, EntryShape
<1>2. ASSUME NEW d, NEW e, EntryShape(d), EntryShape(e) PROVE LayoutShape(<<d, e>>)
  <2>1. Len(<<d, e>>) = 2 /\ DOMAIN <<d, e>> = 1 .. 2 /\ <<d, e>>[1] = d /\ <<d, e>>[2] = e
    OBVIOUS
  <2>. QED
    BY <1>2, <2>1 DEF LayoutShape, EntryShape
<1>. QED
  BY <1>1, <1>2

LEMMA EntryIs == \A leader : \A o, n \in Nat : EntryShape(Entry(leader, o, n))
BY DEF Entry, EntryShape

LEMMA ClientShape == ASSUME NEW c \in Clients PROVE LayoutShape(c.layout)
<1>1. \A id, layout : Client(id, layout).layout = layout
  BY DEF Client
<1>2. \A e \in Entries : EntryShape(e)
  BY SetupAssumption DEF Entries, EntryShape
<1>3. LayoutShape(Single.layout)
  BY <1>1, EntriesShape, EntryIs DEF Single
<1>4. CASE c \in Laid
  <2>1. \/ \E d \in Entries : c = Client("policy", <<d>>)
        \/ \E d, e \in Entries : c = Client("policy", <<d, e>>)
    BY <1>4 DEF Laid
  <2>. QED
    <3>1. CASE \E d \in Entries : c = Client("policy", <<d>>)
      <4>1. PICK d \in Entries : c = Client("policy", <<d>>)
        BY <3>1
      <4>2. c.layout = <<d>> /\ EntryShape(d)
        BY <1>1, <1>2, <4>1, Zenon
      <4>. QED
        BY <4>2, EntriesShape, Zenon
    <3>2. CASE \E d, e \in Entries : c = Client("policy", <<d, e>>)
      <4>1. PICK d \in Entries, e \in Entries : c = Client("policy", <<d, e>>)
        BY <3>2
      <4>2. c.layout = <<d, e>> /\ EntryShape(d) /\ EntryShape(e)
        BY <1>1, <1>2, <4>1, Zenon
      <4>. QED
        BY <4>2, EntriesShape, Zenon
    <3>. QED
      BY <2>1, <3>1, <3>2
<1>5. CASE c \in OddTexts \union OddNumbers
  <2>1. \E f, v : c = [Single EXCEPT !.odd = <<f, v>>]
    BY <1>5 DEF OddTexts, OddNumbers
  <2>. QED
    BY <1>3, <2>1 DEF Single, Client
<1>6. CASE c \in Subscribed
  <2>1. \E s : c = [Single EXCEPT !.subscriptions = s]
    BY <1>6 DEF Subscribed
  <2>. QED
    BY <1>3, <2>1 DEF Single, Client
<1>7. CASE c \in Featured
  <2>1. \E m, n \in Nat : \E u, p, f : c = Remote(PartlyNamed(m, n), u, p, f)
    BY <1>7 DEF Featured
  <2>2. PICK m, n, u, p, f : m \in Nat /\ n \in Nat /\ c = Remote(PartlyNamed(m, n), u, p, f)
    BY <2>1
  <2>3. c.layout = PartlyNamed(m, n).layout
    BY <2>2 DEF Remote, PartlyNamed, Client
  <2>. DEFINE d == [Entry("left", 0, 2) EXCEPT !.names = m]
              e == [Entry("right", 2, 1) EXCEPT !.names = n]
  <2>4. EntryShape(d) /\ EntryShape(e)
    BY <2>2 DEF Entry, EntryShape
  <2>5. c.layout = <<d, e>>
    BY <1>1, <2>3 DEF PartlyNamed
  <2>. HIDE DEF d, e
  <2>. QED
    BY <2>4, <2>5, EntriesShape
<1>. QED
  BY <1>4, <1>5, <1>6, <1>7 DEF Clients

LEMMA FileIs == ASSUME NEW f \in Files PROVE FileShape(f)
<1>. DEFINE Shaped(c) == LayoutShape(c.layout)
<1>1. Shaped(Single) /\ \A c \in Clients \union Seconds : Shaped(c)
  <2>1. Shaped(Single)
    BY EntriesShape, EntryIs DEF Single, Client
  <2>2. \A c \in Clients : Shaped(c)
    BY ClientShape
  <2>3. ASSUME NEW c \in Seconds PROVE Shaped(c)
    <3>1. PICK id \in {"policy", "second", "arm", "left"}, leader \in {"left", "right", "second"} :
            c = Client(id, <<Entry(leader, 0, 1)>>)
      BY DEF Seconds
    <3>2. PICK e : EntryShape(e) /\ c = Client(id, <<e>>)
      BY <3>1, EntryIs
    <3>3. c.layout = <<e>>
      BY <3>2 DEF Client
    <3>. QED
      BY <3>2, <3>3, EntriesShape
  <2>. QED
    BY <2>1, <2>2, <2>3
<1>. HIDE DEF Shaped
<1>2. \A cs, ps :
        /\ File(cs, ps).clients = cs /\ Len(File(cs, ps).hardware) = 2
        /\ DOMAIN File(cs, ps).hardware = 1 .. 2
        /\ File(cs, ps).hardware[1].kind = "arm" /\ File(cs, ps).hardware[2].kind = "camera"
  BY DEF File
<1>3. ASSUME NEW g, NEW c, Shaped(c), NEW d, Shaped(d), g.clients \in {<<c>>, <<d, c>>},
             \E ps : g.hardware = File(<< >>, ps).hardware
      PROVE  FileShape(g)
  <2>1. Len(g.hardware) = 2 /\ DOMAIN g.hardware = 1 .. 2 /\ \A n \in 1 .. 2 : g.hardware[n].kind \in {"arm", "camera"}
    BY <1>2, <1>3
  <2>2. CASE g.clients = <<c>>
    <3>1. Len(g.clients) = 1 /\ DOMAIN g.clients = 1 .. 1 /\ g.clients[1] = c
      BY <2>2
    <3>. QED
      BY <1>3, <2>1, <3>1 DEF FileShape, Shaped
  <2>3. CASE g.clients = <<d, c>>
    <3>1. Len(g.clients) = 2 /\ DOMAIN g.clients = 1 .. 2 /\ g.clients[1] = d /\ g.clients[2] = c
      BY <2>3
    <3>. QED
      BY <1>3, <2>1, <3>1 DEF FileShape, Shaped
  <2>. QED
    BY <1>3, <2>2, <2>3
<1>4. CASE f \in ParsedFiles
  <2>1. \E c, ps : f = File(<<c>>, ps) /\ Shaped(c)
    BY <1>1, <1>4 DEF ParsedFiles
  <2>2. PICK c, ps : f = File(<<c>>, ps) /\ Shaped(c)
    BY <2>1
  <2>3. f.clients = <<c>> /\ f.hardware = File(<< >>, ps).hardware
    BY <2>2 DEF File
  <2>. QED
    BY <1>3, <2>2, <2>3
<1>5. CASE f \in DirectFiles
  <2>1. PICK c \in Clients : f = [File(<<c>>, Follow) EXCEPT !.direct = TRUE]
    BY <1>5 DEF DirectFiles
  <2>2. f.clients = <<c>> /\ f.hardware = File(<< >>, Follow).hardware
    BY <2>1 DEF File
  <2>. QED
    BY <1>1, <1>3, <2>2
<1>6. CASE f \in TwoClients
  <2>1. PICK c \in Seconds, d \in BOOLEAN : f = [File(<<Single, c>>, Follow) EXCEPT !.direct = d]
    BY <1>6 DEF TwoClients
  <2>2. f.clients = <<Single, c>> /\ f.hardware = File(<< >>, Follow).hardware
    BY <2>1 DEF File
  <2>. QED
    BY <1>1, <1>3, <2>2
<1>7. CASE f = TwiceViewed
  <2>1. f.clients = <<Single>> /\ f.hardware = File(<< >>, Follow).hardware
    BY <1>7 DEF TwiceViewed, File
  <2>. QED
    BY <1>1, <1>3, <2>1
<1>8. CASE f = TwiceArmed
  <2>. DEFINE h == File(<<Single>>, Follow).hardware
              x == [id |-> "arm", kind |-> "camera"]
              Parts == {h[1], h[2], x}
  <2>1. f.clients = <<Single>> /\ f.hardware = Append(h, x)
    BY <1>8 DEF TwiceArmed, File
  <2>2. Len(f.clients) = 1 /\ DOMAIN f.clients = 1 .. 1 /\ f.clients[1] = Single
    BY <2>1
  <2>3. h \in Seq(Parts) /\ Len(h) = 2 /\ h[1].kind = "arm" /\ h[2].kind = "camera"
    BY DEF File
  <2>4. x \in Parts /\ x.kind = "camera"
    OBVIOUS
  <2>. HIDE DEF h, x, Parts
  <2>5. /\ Len(Append(h, x)) = 3 /\ DOMAIN Append(h, x) = 1 .. 3
        /\ Append(h, x)[1] = h[1] /\ Append(h, x)[2] = h[2] /\ Append(h, x)[3] = x
    <3>1. PICK a : a = Append(h, x)
      OBVIOUS
    <3>7. h \in Seq(Parts) /\ x \in Parts
      BY <2>3, <2>4
    <3>8. a \in Seq(Parts) /\ Len(a) = Len(h) + 1 /\ a[Len(h) + 1] = x
      BY <3>1, <3>7
    <3>2. Len(a) = 3 /\ a \in Seq(Parts)
      BY <2>3, <3>8
    <3>3. DOMAIN a = 1 .. 3
      BY <3>2
    <3>4. a[1] = h[1]
      BY <2>3, <2>4, <3>1
    <3>5. a[2] = h[2]
      BY <2>3, <2>4, <3>1
    <3>6. a[3] = x
      <4>1. Len(h) + 1 = 3
        BY <2>3
      <4>. QED
        BY <3>8, <4>1
    <3>. QED
      BY <3>1, <3>2, <3>3, <3>4, <3>5, <3>6
  <2>6. Len(f.hardware) = 3 /\ DOMAIN f.hardware = 1 .. 3 /\ \A n \in 1 .. 3 : f.hardware[n].kind \in {"arm", "camera"}
    BY <2>1, <2>3, <2>4, <2>5
  <2>. QED
    BY <1>1, <2>2, <2>6 DEF FileShape, Shaped
<1>. QED
  BY <1>4, <1>5, <1>6, <1>7, <1>8 DEF Files

LEMMA SetupStarts == SetupInit => SetupInv
<1>. SUFFICES ASSUME SetupInit PROVE SetupInv
  OBVIOUS
<1>1. FileShape(file)
  BY FileIs DEF SetupInit
<1>2. made = 0 /\ registry = {} /\ living = {} /\ controllers = {}
  BY DEF SetupInit, SetupStart
<1>. QED
  BY <1>1, <1>2 DEF SetupInv, RegistryOwned, ClientsKnown

(* Faces of a client stand in no place but their own. *)
LEMMA FacesAre ==
  \A k : \A f \in FacesOf(k) : f.kind = "face" /\ f.client = k /\ \E j \in DOMAIN file.clients[k].layout : f = Face(k, j)
BY DEF FacesOf, Face, Component

LEMMA FacesDiffer ==
  ASSUME FileShape(file), NEW k \in DOMAIN file.clients,
         \A j \in DOMAIN file.clients[k].layout : ~FaceTaken(k, j)
  PROVE  /\ \A f \in FacesOf(k), c \in registry : f.id # c.id
         /\ \A f, g \in FacesOf(k) : f.id = g.id => f = g
<1>. DEFINE layout == file.clients[k].layout
<1>1. \A j \in DOMAIN layout : Face(k, j).id = layout[j].leader
  BY DEF Face, Component
<1>2. ASSUME NEW j \in DOMAIN layout, NEW c \in registry PROVE Face(k, j).id # c.id
  BY <1>1 DEF FaceTaken, Registered
<1>3. ASSUME NEW i \in DOMAIN layout, NEW j \in DOMAIN layout, i < j PROVE Face(k, i).id # Face(k, j).id
  <2>1. i \in Nat \ {0} /\ j \in Nat \ {0}
    BY DEF FileShape, LayoutShape
  <2>2. i \in 1 .. j - 1
    BY <1>3, <2>1
  <2>. QED
    BY <1>1, <2>2 DEF FaceTaken
<1>4. ASSUME NEW i \in DOMAIN layout, NEW j \in DOMAIN layout, Face(k, i).id = Face(k, j).id
      PROVE  Face(k, i) = Face(k, j)
  <2>1. i \in Nat /\ j \in Nat
    BY DEF FileShape, LayoutShape
  <2>2. i = j \/ i < j \/ j < i
    BY <2>1
  <2>. QED
    BY <1>3, <1>4, <2>2
<1>. QED
  BY <1>2, <1>4 DEF FacesOf

LEMMA HardwareKeeps == ASSUME SetupInv, CreateHardware PROVE SetupInv'
<1>. DEFINE part == file.hardware[made + 1]
            new == Component(part.id, part.kind, 0)
<1>1. FileShape(file) /\ made \in Nat /\ made < Len(file.hardware) /\ UNCHANGED <<file, living, controllers>>
  BY DEF SetupInv, CreateHardware
<1>2. part.kind \in {"arm", "camera"}
  <2>1. made + 1 \in 1 .. Len(file.hardware)
    BY <1>1 DEF FileShape
  <2>. QED
    BY <1>1, <2>1 DEF FileShape
<1>3. CASE ~Registered(part.id, registry) /\ made' = made + 1 /\ registry' = registry \union {new}
  <2>. SUFFICES ASSUME TRUE PROVE RegistryOwned' /\ ClientsKnown'
    BY <1>1, <1>3 DEF SetupInv
  <2>1. new.id = part.id /\ new.kind = part.kind
    BY DEF Component
  <2>2. \A c \in registry : c.id # new.id
    BY <1>3, <2>1 DEF Registered
  <2>3. new.kind # "face" /\ new.kind # "client"
    BY <1>2, <2>1
  <2>. HIDE DEF new, part
  <2>4. RegistryOwned /\ ClientsKnown
    BY DEF SetupInv
  <2>5. \A k : FacesOf(k)' = FacesOf(k)
    BY <1>1 DEF FacesOf, Face
  <2>. QED
    BY <1>1, <1>3, <2>2, <2>3, <2>4, <2>5 DEF RegistryOwned, ClientsKnown
<1>4. CASE UNCHANGED <<made, registry>>
  BY <1>1, <1>4 DEF SetupInv, RegistryOwned, ClientsKnown, FacesOf, Face
<1>. QED
  BY <1>3, <1>4 DEF CreateHardware

(* A client enters with all its faces, under ids that were free; where the registration of
   the client itself fails, its destructor takes out what it had put in. *)
LEMMA ClientKeeps == ASSUME SetupInv, CreateClient PROVE SetupInv'
<1>. DEFINE k == made + 1
            faced == registry \union FacesOf(k)
            entry == Component(file.clients[k].id, "client", k)
<1>1. FileShape(file) /\ made \in Nat /\ made < Len(file.clients) /\ UNCHANGED <<file, controllers>>
  BY DEF SetupInv, CreateClient
<1>2. k \in DOMAIN file.clients /\ k \in Nat
  BY <1>1 DEF FileShape
<1>3. RegistryOwned /\ ClientsKnown /\ \A i : FacesOf(i)' = FacesOf(i)
  BY <1>1 DEF SetupInv, FacesOf, Face
<1>4. UNCHANGED <<made, registry, living>> => SetupInv'
  BY <1>1, <1>3 DEF SetupInv, RegistryOwned, ClientsKnown
<1>5. CASE Configured(k)
  <2>1. /\ \A f \in FacesOf(k), c \in registry : f.id # c.id
        /\ \A f, g \in FacesOf(k) : f.id = g.id => f = g
    BY <1>1, <1>2, <1>5, FacesDiffer DEF Configured
  <2>2. \A f \in FacesOf(k) : f.kind = "face"
    BY FacesAre
  <2>. HIDE DEF k
  <2>3. /\ \A c, d \in faced : c.id = d.id => c = d
        /\ {c \in faced : c.kind = "face"} = (UNION {FacesOf(i) : i \in living}) \union FacesOf(k)
        /\ \A c \in faced : c.kind = "client" => c \in registry
    BY <1>3, <2>1, <2>2 DEF RegistryOwned
  <2>4. UNION {FacesOf(i) : i \in living \union {k}} = (UNION {FacesOf(i) : i \in living}) \union FacesOf(k)
    OBVIOUS
  <2>5. CASE registry' = faced /\ living' = living \union {k} /\ made' = k
    <3>1. RegistryOwned' /\ ClientsKnown'
      BY <1>1, <1>3, <2>3, <2>4, <2>5 DEF RegistryOwned, ClientsKnown
    <3>. QED
      BY <1>1, <1>2, <2>5, <3>1 DEF SetupInv
  <2>6. CASE registry' = Destroyed(faced, k) /\ UNCHANGED <<made, living>>
    <3>1. registry' = registry
      BY <2>1, <2>6 DEF Destroyed
    <3>2. UNCHANGED <<made, registry, living>>
      BY <2>6, <3>1
    <3>. QED
      BY <1>4, <3>2
  <2>7. CASE /\ ~Registered(file.clients[k].id, faced)
             /\ registry' = faced \union {entry} /\ living' = living \union {k} /\ made' = k
    <3>1. entry.id = file.clients[k].id /\ entry.kind = "client" /\ entry.client = k
      BY DEF Component
    <3>2. \A c \in faced : c.id # entry.id
      BY <2>7, <3>1 DEF Registered
    <3>3. entry = Component(file.clients[entry.client].id, "client", entry.client)
      BY <3>1
    <3>. HIDE DEF entry, faced
    <3>4. /\ \A c, d \in registry' : c.id = d.id => c = d
          /\ {c \in registry' : c.kind = "face"} = UNION {FacesOf(i) : i \in living'}
      BY <2>3, <2>4, <2>7, <3>1, <3>2
    <3>5. \A c \in registry' : c.kind = "client" => c \in registry \/ c = entry
      BY <2>3, <2>7
    <3>6. RegistryOwned'
      BY <1>1, <1>3, <2>7, <3>1, <3>4, <3>5 DEF RegistryOwned
    <3>7. ClientsKnown'
      BY <1>1, <1>3, <3>3, <3>5 DEF ClientsKnown
    <3>. QED
      BY <1>1, <1>2, <2>7, <3>6, <3>7 DEF SetupInv
  <2>. QED
    BY <1>5, <2>5, <2>6, <2>7 DEF CreateClient, k
<1>. QED
  BY <1>4, <1>5 DEF CreateClient

LEMMA ControllersKeep == ASSUME SetupInv, MakeControllers PROVE SetupInv'
<1>1. UNCHANGED <<file, made, registry, living>>
      /\ controllers' = UNION {Controller(file.pairs[n]) : n \in DOMAIN file.pairs}
  BY DEF MakeControllers
<1>2. \A kind, space : Capable(kind, space) => kind \in {"arm", "face"}
  BY DEF Capable, Spaces
<1>3. ASSUME NEW pair, NEW c \in Controller(pair)
      PROVE  c.leader.kind \in {"arm", "face"} /\ c.follower.kind \in {"arm", "face", "none"}
  <2>1. PICK l \in LeadersOf(pair), f \in FollowersOf(pair) : c = [leader |-> l, follower |-> f]
    BY <1>3 DEF Controller
  <2>2. l.kind \in {"arm", "face"}
    BY <1>2, <2>1 DEF LeadersOf
  <2>3. f.kind \in {"arm", "face", "none"}
    <3>1. Component("", "none", 0).kind = "none"
      BY DEF Component
    <3>2. f = Component("", "none", 0) \/ Capable(f.kind, pair.space)
      BY <2>1 DEF FollowersOf
    <3>. QED
      BY <1>2, <3>1, <3>2
  <2>. QED
    BY <2>1, <2>2, <2>3
<1>4. \A c \in controllers' : c.leader.kind \in {"arm", "face"} /\ c.follower.kind \in {"arm", "face", "none"}
  BY <1>1, <1>3
<1>. QED
  BY <1>1, <1>4 DEF SetupInv, RegistryOwned, ClientsKnown, FacesOf, Face

LEMMA UnregisterKeeps == ASSUME SetupInv, NEW k \in DOMAIN file.clients, Unregister(k) PROVE SetupInv'
<1>. DEFINE entry == Component(file.clients[k].id, "client", k)
<1>1. registry' = registry \ {entry} /\ UNCHANGED <<file, made, living, controllers>>
  BY DEF Unregister
<1>2. entry.kind = "client"
  BY DEF Component
<1>. HIDE DEF entry
<1>3. FileShape(file) /\ made \in Nat /\ RegistryOwned /\ ClientsKnown /\ \A i : FacesOf(i)' = FacesOf(i)
  BY <1>1 DEF SetupInv, FacesOf, Face
<1>. QED
  BY <1>1, <1>2, <1>3 DEF SetupInv, RegistryOwned, ClientsKnown

(* The destructor takes out by id, which is its own faces and nothing else. *)
LEMMA ReleaseKeeps == ASSUME SetupInv, NEW k \in DOMAIN file.clients, ReleaseClient(k) PROVE SetupInv'
<1>1. /\ k \in living /\ living' = living \ {k} /\ registry' = Destroyed(registry, k)
      /\ Component(file.clients[k].id, "client", k) \notin registry
      /\ UNCHANGED <<file, made, controllers>>
  BY DEF ReleaseClient
<1>2. FileShape(file) /\ made \in Nat /\ RegistryOwned /\ ClientsKnown /\ \A i : FacesOf(i)' = FacesOf(i)
  BY <1>1 DEF SetupInv, FacesOf, Face
<1>3. FacesOf(k) \subseteq registry
  BY <1>1, <1>2 DEF RegistryOwned
<1>4. registry' = registry \ FacesOf(k)
  BY <1>1, <1>2, <1>3 DEF RegistryOwned, Destroyed
<1>5. ASSUME NEW i, i # k PROVE FacesOf(i) \intersect FacesOf(k) = {}
  BY <1>5, FacesAre
<1>6. {c \in registry' : c.kind = "face"} = UNION {FacesOf(i) : i \in living'}
  <2>1. {c \in registry' : c.kind = "face"} = (UNION {FacesOf(i) : i \in living}) \ FacesOf(k)
    BY <1>2, <1>4 DEF RegistryOwned
  <2>. QED
    BY <1>1, <1>5, <2>1
<1>7. ASSUME NEW c \in registry', c.kind = "client" PROVE c.client \in living'
  <2>1. c \in registry /\ c.client \in living /\ c = Component(file.clients[c.client].id, "client", c.client)
    BY <1>2, <1>4, <1>7 DEF RegistryOwned, ClientsKnown
  <2>2. c.client # k
    BY <1>1, <2>1
  <2>. QED
    BY <1>1, <2>1, <2>2
<1>8. RegistryOwned'
  BY <1>1, <1>2, <1>4, <1>6, <1>7 DEF RegistryOwned
<1>9. ClientsKnown'
  BY <1>1, <1>2, <1>4 DEF ClientsKnown
<1>. QED
  BY <1>1, <1>2, <1>8, <1>9 DEF SetupInv

LEMMA SetupStep == SetupInv /\ [SetupNext]_setupVars => SetupInv'
<1>1. ASSUME SetupInv, ParseFile \/ HardwareMade \/ UNCHANGED setupVars PROVE SetupInv'
  BY <1>1 DEF ParseFile, HardwareMade, setupVars, SetupInv, RegistryOwned, ClientsKnown, FacesOf, Face
<1>. QED
  BY <1>1, HardwareKeeps, ClientKeeps, ControllersKeep, UnregisterKeeps, ReleaseKeeps DEF SetupNext

(* Whatever the file says and whichever creation fails, an id of the registry stands for one
   component, the faces registered are those of the clients that live, all of them, and a
   controller has components that can work together (init_ and its rollback, ~PolicyClient,
   create_controllers_from_global_config). *)
THEOREM RegistryOwnedHolds == SetupSpec => []RegistryOwned
<1>1. SetupInit => SetupInv
  BY SetupStarts
<1>2. SetupInv /\ [SetupNext]_setupVars => SetupInv'
  BY SetupStep
<1>3. SetupInv => RegistryOwned
  BY DEF SetupInv
<1>. QED
  BY <1>1, <1>2, <1>3, PTL DEF SetupSpec

(* A client made from a file is made after the whole file was parsed. *)
FilePassed ==
  /\ living \subseteq DOMAIN file.clients
  /\ ~file.direct => FileParses \/ (phase \in {"parse", "refused"} /\ living = {})

LEMMA FilePassedStep == SetupInv /\ FilePassed /\ [SetupNext]_setupVars => FilePassed'
<1>. SUFFICES ASSUME SetupInv, FilePassed, [SetupNext]_setupVars PROVE FilePassed'
  OBVIOUS
<1>1. UNCHANGED file => (FileParses' <=> FileParses)
  BY DEF FileParses
<1>2. ASSUME UNCHANGED file, living' \subseteq living, phase' = phase \/ phase \notin {"parse", "refused"}
      PROVE  FilePassed'
  BY <1>1, <1>2 DEF FilePassed
<1>3. CASE ParseFile
  BY <1>1, <1>3 DEF FilePassed, ParseFile
<1>4. CASE CreateHardware \/ HardwareMade \/ MakeControllers \/ UNCHANGED setupVars
  BY <1>2, <1>4 DEF CreateHardware, HardwareMade, MakeControllers, setupVars
<1>5. CASE CreateClient
  <2>1. made + 1 \in DOMAIN file.clients
    BY <1>5 DEF CreateClient, SetupInv, FileShape
  <2>2. UNCHANGED file /\ phase = "clients" /\ living' \subseteq living \union {made + 1}
    BY <1>5 DEF CreateClient
  <2>. QED
    BY <1>1, <2>1, <2>2 DEF FilePassed
<1>6. CASE \E k \in DOMAIN file.clients : Unregister(k) \/ ReleaseClient(k)
  BY <1>2, <1>6 DEF Unregister, ReleaseClient
<1>. QED
  BY <1>3, <1>4, <1>5, <1>6 DEF SetupNext

(* Of a file that was parsed. *)
LEMMA LivingParse ==
  ASSUME SetupInv, FilePassed, NEW k \in living, ~file.direct
  PROVE  /\ LayoutShape(file.clients[k].layout) /\ Tiles(file.clients[k].layout)
         /\ \A j \in DOMAIN file.clients[k].layout : EntryParses(file.clients[k].layout[j])
<1>1. FileParses /\ k \in DOMAIN file.clients
  BY DEF FilePassed
<1>2. LayoutParses(file.clients[k])
  BY <1>1 DEF FileParses, ClientParses
<1>. QED
  BY <1>1, <1>2 DEF SetupInv, FileShape, LayoutParses

LEMMA ColumnsAre == SetupInv /\ FilePassed => ColumnsDriven
<1>. SUFFICES ASSUME SetupInv, FilePassed, NEW k \in living, ~file.direct,
                     NEW column \in 0 .. Width(file.clients[k].layout, DOMAIN file.clients[k].layout) - 1
              PROVE  Cardinality({j \in DOMAIN file.clients[k].layout :
                       Slice(file.clients[k].layout, j, column)}) = 1
  BY Zenon DEF ColumnsDriven, Slice
<1>1. LayoutShape(file.clients[k].layout) /\ Tiles(file.clients[k].layout)
  BY LivingParse
<1>2. PICK j : {i \in DOMAIN file.clients[k].layout : Slice(file.clients[k].layout, i, column)} = {j}
  BY <1>1, TilesCover
<1>. QED
  BY <1>2, FS_Singleton

LEMMA NamesAre == SetupInv /\ FilePassed => NamesCarried
<1>. SUFFICES ASSUME SetupInv, FilePassed, NEW k \in living, ~file.direct, NEW c, c = file.clients[k],
                     NEW f, f.dtype = "float32", f.names = << >>
              PROVE  Carried(FeatureNames(c, f), StateKeys(c))
  BY Zenon DEF NamesCarried
<1>1. FeatureNames(c, f) = MotorNames(c)
  BY DEF FeatureNames
<1>2. LayoutShape(c.layout) /\ \A j \in DOMAIN c.layout : EntryParses(c.layout[j])
  BY LivingParse
<1>3. Carried(MotorNames(c), StateKeys(c))
  BY <1>2, KeysCarry
<1>. QED
  BY <1>1, <1>3

(* Whatever the file says and whichever creation fails: the faces registered are those of the
   clients that live; of a client whose file was parsed every column of the action row is in
   the slice of one face, where the checks of the entries one by one say nothing of a gap
   between two of them; and the names its policy was told of the joints are the named keys of
   its observations, in their order, though the two lists are put together apart (from_json,
   configure, map_observation_). *)
THEOREM FacesOwnedHolds == SetupSpec => []FacesOwned
<1>1. SetupInit => SetupInv /\ FilePassed
  <2>1. SetupInit => FilePassed
    BY DEF SetupInit, SetupStart, FilePassed
  <2>. QED
    BY <2>1, SetupStarts
<1>2. (SetupInv /\ FilePassed) /\ [SetupNext]_setupVars => (SetupInv /\ FilePassed)'
  BY SetupStep, FilePassedStep
<1>3. SetupInv /\ FilePassed => FacesOwned
  BY ColumnsAre, NamesAre DEF FacesOwned, SetupInv
<1>. QED
  BY <1>1, <1>2, <1>3, PTL DEF SetupSpec
=============================================================================
