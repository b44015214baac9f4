---------------------------------- MODULE Viewer ----------------------------------
(***************************************************************************)
(* The observer that shows the records in a viewer                         *)
(* (src/observer/rerun_observer.cpp), from the slots of ObserverBase to    *)
(* what the viewer has on display, over several episodes.  The session's   *)
(* thread asks for the display to be cleared; the worker does it.          *)
(***************************************************************************)
EXTENDS Integers, FiniteSets

CONSTANTS
  Views,         \* subscriptions: record ids
  Wanted,        \* the joint fields of each subscription that has a filter
  MaxShows,      \* bound on the records offered in an episode, for each subscription
  MaxShowings    \* bound on the episodes

JointFields == {"positions", "velocities", "efforts"}
ASSUME ViewerAssumption ==
  /\ DOMAIN Wanted \subseteq Views /\ \A v \in DOMAIN Wanted : Wanted[v] \in SUBSET JointFields \ {{}}
  /\ MaxShows \in Nat /\ MaxShowings \in Nat

VARIABLES
  connected,  \* rec_ is set: on_start reached the viewer
  showing,    \* the episode, 0 before the first
  shows,      \* history: records offered in it
  slot,       \* what waits for the worker, by subscription
  hand,       \* what the worker handles, and how far it is
  clearing,   \* episode_clear_pending_
  known,      \* keys of subscription_state_
  colors,     \* their encodings
  display,    \* what the viewer shows: paths with the records logged there since they were cleared
  over,       \* history: records that waited when the episode began
  drawn       \* history: a record of the episode has been logged or skipped

viewerVars == <<connected, showing, shows, slot, hand, clearing, known, colors, display, over, drawn>>

(* Images, with the size they claim, what their producer says of their encoding, and what
   they hold; joints, an odometry record, and one of a kind the viewer cannot show. *)
Picture(size, encoding, mat, depth) ==
  [is |-> "image", size |-> size, encoding |-> encoding, mat |-> mat, depth |-> depth]
Shapes ==
  {Picture("right", "rgb8", "color", "none"), Picture("right", "bgr8", "color", "metric"),
   Picture("right", "rgb8", "slice", "none"), Picture("right", "mono8", "gray", "unscaled"),
   Picture("right", "rgb8", "gray", "none"), Picture("right", "rgba8", "color", "none"),
   Picture("other", "rgb8", "color", "none"),
   [is |-> "joints", fields |-> {"positions", "efforts"}],
   [is |-> "odometry"], [is |-> "other"]}

NoShow == [episode |-> 0, n |-> 0]
NoHand == [of |-> "none", rec |-> NoShow, at |-> "idle"]

ViewerStart ==
  /\ showing = 0 /\ shows = [v \in Views |-> 0] /\ slot = [v \in Views |-> NoShow] /\ hand = NoHand
  /\ clearing = FALSE
  /\ known = DOMAIN Wanted          \* the constructor enters those with a filter
  /\ colors = [v \in Views |-> "unresolved"]
  /\ display = {} /\ over = {} /\ drawn = FALSE
ViewerInit == ViewerStart /\ connected = TRUE
ViewerIdle == ViewerStart /\ connected = FALSE

(* on_episode_started, called by start_episode: after the last producer of the episode before
   has stopped, before the first of this one starts. *)
EpisodeShown ==
  /\ connected /\ showing < MaxShowings
  /\ showing' = showing + 1 /\ shows' = [v \in Views |-> 0]
  /\ clearing' = TRUE
  /\ over' = {<<v, slot[v].episode, slot[v].n>> : v \in {v \in Views : slot[v] # NoShow}}
            \cup {<<hand.of, hand.rec.episode, hand.rec.n>> : h \in {hand} \ {NoHand}}
  /\ drawn' = FALSE
  /\ UNCHANGED <<connected, slot, hand, known, colors, display>>

(* offer(): the newest record takes the slot. *)
Show(v) ==
  /\ connected /\ showing > 0 /\ shows[v] < MaxShows
  /\ \E shape \in Shapes : slot' = [slot EXCEPT ![v] = [episode |-> showing, n |-> shows[v], shape |-> shape]]
  /\ shows' = [shows EXCEPT ![v] = @ + 1]
  /\ UNCHANGED <<connected, showing, hand, clearing, known, colors, display, over, drawn>>

TakeShow(v) ==
  /\ hand = NoHand /\ slot[v] # NoShow
  /\ hand' = [of |-> v, rec |-> slot[v], at |-> "clear"]
  /\ slot' = [slot EXCEPT ![v] = NoShow]
  /\ UNCHANGED <<connected, showing, shows, clearing, known, colors, display, over, drawn>>

(* Faulty variant: only the paths of the record's own subscription are cleared. *)
ClearedOwn(paths) == {p \in paths : p[1] # hand.of}

(* Every subscription dispatched so far, with all below it. *)
Cleared(paths) == {p \in paths : p[1] \notin known}

(* dispatch_ begins; the exchange takes the request, once. *)
ClearDisplay ==
  /\ hand.at = "clear"
  /\ clearing' = FALSE
  /\ display' = IF clearing THEN Cleared(display) ELSE display
  /\ hand' = [hand EXCEPT !.at = "log"]
  /\ UNCHANGED <<connected, showing, shows, slot, known, colors, over, drawn>>

(* The encoding of the first frame stays. *)
Pinned(v, shape) ==
  IF colors[v] # "unresolved" THEN colors[v]
  ELSE IF shape.encoding \in {"rgb8", "bgr8", "mono8"} THEN shape.encoding ELSE "unsupported"
Rgb(encoding, mat) ==
  \/ encoding = "rgb8" /\ mat = "color"
  \/ encoding = "bgr8" /\ mat \in {"color", "slice"}
  \/ encoding = "mono8" /\ mat = "gray"

Wants(v, field) == v \in DOMAIN Wanted => field \in Wanted[v]

(* The paths a record is logged at. *)
Paths(v, shape) ==
  CASE shape.is = "image" ->
         IF shape.size # "right" \/ ~Rgb(Pinned(v, shape), shape.mat) THEN {}
         ELSE {<<v, "color">>} \cup (IF shape.depth = "metric" THEN {<<v, "depth">>} ELSE {})
    [] shape.is = "joints" -> {<<v, f>> : f \in {f \in shape.fields : Wants(v, f)}}
    [] shape.is = "odometry" ->
         {<<v, "pose">>, <<v, "twist">>}
    [] OTHER -> {}

Draw ==
  LET v == hand.of  shape == hand.rec.shape
      image == shape.is = "image"
      entered == shape.is \in {"joints", "odometry"} \/ (image /\ shape.size = "right")
  IN /\ hand.at = "log"
     /\ known' = IF entered THEN known \cup {v} ELSE known
     /\ colors' = IF image /\ entered THEN [colors EXCEPT ![v] = Pinned(v, shape)] ELSE colors
     /\ display' = display \cup {<<p[1], p[2], hand.rec.episode, hand.rec.n>> : p \in Paths(v, shape)}
     /\ drawn' = (drawn \/ hand.rec.episode = showing)
     /\ hand' = NoHand
     /\ UNCHANGED <<connected, showing, shows, slot, clearing, over>>

ViewerNext == EpisodeShown \/ (\E v \in Views : Show(v) \/ TakeShow(v)) \/ ClearDisplay \/ Draw

ViewerSpec == ViewerInit /\ [][ViewerNext]_viewerVars
-----------------------------------------------------------------------------
(* Once a record of an episode has been handled, the viewer shows nothing of the episodes before,
   but for records that were still on their way to the worker when the episode began: one of
   those may take the request to clear, and what the viewer shows of it then stays. *)
EpisodesApart == drawn => \A p \in display : p[3] = showing \/ <<p[1], p[3], p[4]>> \in over
=============================================================================
