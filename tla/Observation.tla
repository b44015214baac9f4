-------------------------------- MODULE Observation --------------------------------
(***************************************************************************)
(* How the policy client makes an observation (hw/policy/policy_client.cpp)*)
(* while its sources deliver and the program pauses it: the cache the      *)
(* observer callbacks fill, the barrier that waits for something fresh     *)
(* from every source, and the packing of what the cache then holds.        *)
(***************************************************************************)
EXTENDS Integers, Sequences, SequencesExt, FiniteSets

CONSTANTS
  Joints,         \* state.* subscriptions
  Cameras,        \* images.* subscriptions, in their order
  Resized,        \* those with a resize
  MaxDeliveries,  \* bound on the records of each source
  MaxToggles,     \* bound on pauses and resumes
  MaxCycles       \* bound on the cycles of the inference loop

ASSUME ObservationAssumption ==
  /\ Cameras \in Seq(ToSet(Cameras)) /\ Joints \cap ToSet(Cameras) = {} /\ Resized \subseteq ToSet(Cameras)
  /\ MaxDeliveries \in Nat /\ MaxToggles \in Nat /\ MaxCycles \in Nat

Sources == Joints \union ToSet(Cameras)

VARIABLES
  gen,       \* cache_gen_
  latest,    \* latest_records_, each with its generation
  telling,   \* threads between a change and their notify_all: sources, "program"
  alive,     \* inference_running_
  active,    \* inference_active_
  toggles,   \* history: pauses and resumes so far
  cycle,     \* where the inference thread stands
  cycles,    \* history: barriers entered so far
  baseline,  \* baseline
  outcome,   \* how the barrier ended
  shape,     \* last_image_dims_
  packed     \* history: the observation the last step made, with what the barrier knew

observationVars == <<gen, latest, telling, alive, active, toggles, cycle, cycles, baseline,
                     outcome, shape, packed>>

NoBaseline == [s \in Sources |-> 0]
NoRecord == [gen |-> 0, kind |-> "none"]
NoPacked == [state |-> << >>, images |-> << >>, seen |-> << >>, over |-> << >>, outcome |-> "none"]

Silent == packed' = NoPacked

(* What a source delivers: joints, a frame of a size, or a record that is neither: one of
   another type, an empty frame, or one whose channels map to no RGB. *)
Sizes == {"small", "large"}
Kinds(s) ==
  IF s \in Joints THEN {"joints", "other"}
  ELSE IF s \in Resized THEN {"small", "other"} ELSE Sizes \union {"other"}

ObservationStart ==
  /\ gen = [s \in Sources |-> 0] /\ latest = [s \in Sources |-> NoRecord] /\ telling = {}
  /\ active = TRUE /\ toggles = 0 /\ cycles = 0
  /\ baseline = NoBaseline /\ outcome = "none"
  /\ shape = [c \in ToSet(Cameras) |-> "none"] /\ packed = NoPacked

ObservationInit == ObservationStart /\ alive = TRUE /\ cycle = "top"
ObservationIdle == ObservationStart /\ alive = FALSE /\ cycle = "off"

(***************************************************************************)
(* The observer callbacks, and the program.                                *)
(***************************************************************************)
(* On the observer's worker, one after the other; on_stop comes after its join.  Under cache_mu_,
   which the inference thread holds from its test to its sleep or its leave; the notification
   comes after it is released.  It matters to a thread that is asleep by now: another has
   its test before it. *)
Deliver(s) ==
  /\ alive /\ cycle \notin {"sleep", "woken"} /\ gen[s] < MaxDeliveries
  /\ telling \cap Sources = {}
  /\ gen' = [gen EXCEPT ![s] = @ + 1]
  /\ \E k \in Kinds(s) : latest' = [latest EXCEPT ![s] = [gen |-> gen'[s], kind |-> k]]
  /\ telling' = IF cycle = "asleep" THEN telling \union {s} ELSE telling
  /\ UNCHANGED <<alive, active, toggles, cycle, cycles, baseline, outcome, shape>> /\ Silent

Toggle ==
  /\ "program" \notin telling /\ toggles < MaxToggles
  /\ toggles' = toggles + 1 /\ active' = ~active
  /\ telling' = telling \union {"program"}
  /\ UNCHANGED <<gen, latest, alive, cycle, cycles, baseline, outcome, shape>> /\ Silent

StopObserving ==
  /\ telling = {} /\ alive
  /\ alive' = FALSE /\ telling' = telling \union {"program"}
  /\ UNCHANGED <<gen, latest, active, toggles, cycle, cycles, baseline, outcome, shape>> /\ Silent

NotifyFresh(t) ==
  /\ t \in telling /\ telling' = telling \ {t}
  /\ cycle' = IF cycle = "asleep" THEN "test" ELSE cycle
  /\ UNCHANGED <<gen, latest, alive, active, toggles, cycles, baseline, outcome, shape>> /\ Silent

(***************************************************************************)
(* The inference thread, from the top of its loop to the observation.      *)
(***************************************************************************)
Stands(place) ==
  /\ cycle' = place
  /\ UNCHANGED <<gen, latest, telling, alive, active, toggles>>

(* The generations there are when the wait begins. *)
TakeBaseline ==
  /\ cycle = "top" /\ alive /\ active /\ cycles < MaxCycles
  /\ cycles' = cycles + 1
  /\ baseline' = gen /\ Silent
  /\ Stands("test") /\ UNCHANGED <<outcome, shape>>

(* Faulty variant: something new from one of the sources is enough. *)
OneAdvanced == \E s \in Sources : gen[s] > baseline[s]

AllAdvanced == \A s \in Sources : gen[s] > baseline[s]

(* The predicate, with cache_mu_; the program changes the flags without it. *)
TestFresh ==
  /\ cycle = "test"
  /\ Stands(IF ~alive \/ ~active \/ AllAdvanced THEN "woken" ELSE "sleep")
  /\ UNCHANGED <<cycles, baseline, outcome, shape>> /\ Silent

FallAsleep ==
  /\ cycle = "sleep" /\ Stands("asleep")
  /\ UNCHANGED <<cycles, baseline, outcome, shape>> /\ Silent

TimeOut ==
  /\ cycle = "asleep" /\ Stands("woken")
  /\ UNCHANGED <<cycles, baseline, outcome, shape>> /\ Silent

(* After the wait the flags are read again, then the generations. *)
LeaveBarrier ==
  /\ cycle = "woken" /\ Stands("check")
  /\ outcome' = IF ~alive \/ ~active THEN "interrupted"
                ELSE IF AllAdvanced THEN "advanced" ELSE "timeout"
  /\ UNCHANGED <<cycles, baseline, shape>> /\ Silent

(* And once more by the loop, for which an interruption over by now never was. *)
CheckFlags ==
  /\ cycle = "check"
  /\ Stands(IF ~alive THEN "off" ELSE IF ~active THEN "top" ELSE "pack")
  /\ IF alive /\ active THEN UNCHANGED <<baseline, outcome>>
     ELSE baseline' = NoBaseline /\ outcome' = "none"
  /\ UNCHANGED <<cycles, shape>> /\ Silent

LeaveLoop ==
  /\ cycle = "top" /\ ~alive /\ Stands("off")
  /\ UNCHANGED <<cycles, baseline, outcome, shape>> /\ Silent

(* A joint record's values, or zeros. *)
StateGroup(s) == IF latest[s].kind = "joints" THEN latest[s].gen ELSE 0

Usable(c) == latest[c].kind \in Sizes

(* The size of a camera's image: that of the resize, of the frame, or of the last frame
   that could be used when this one cannot. *)
SizeOf(c) ==
  IF c \in Resized THEN "resized" ELSE IF Usable(c) THEN latest[c].kind ELSE shape[c]

Image(c) ==
  [camera |-> c, size |-> SizeOf(c), of |-> IF Usable(c) THEN latest[c].gen ELSE 0]

(* The cameras are packed in order up to the first that has neither frame nor size; the
   sizes of those before it are remembered all the same. *)
Reached(k) == \A j \in 1 .. k : SizeOf(Cameras[j]) # "none"

PackObservation ==
  /\ cycle = "pack" /\ Stands("top")
  /\ shape' = [c \in ToSet(Cameras) |->
       IF Usable(c) /\ \E k \in DOMAIN Cameras : Cameras[k] = c /\ Reached(k)
         THEN SizeOf(c) ELSE shape[c]]
  /\ packed' =
       IF Reached(Len(Cameras))
         THEN [state |-> [s \in Joints |-> StateGroup(s)],
               images |-> [k \in DOMAIN Cameras |-> Image(Cameras[k])],
               seen |-> [s \in Sources |-> latest[s]], over |-> baseline, outcome |-> outcome]
         ELSE NoPacked
  /\ baseline' = NoBaseline /\ outcome' = "none" /\ UNCHANGED cycles

ObservationNext ==
  \/ \E s \in Sources : Deliver(s)
  \/ Toggle \/ StopObserving \/ \E t \in Sources \union {"program"} : NotifyFresh(t)
  \/ TakeBaseline \/ TestFresh \/ FallAsleep \/ TimeOut \/ LeaveBarrier \/ CheckFlags
  \/ LeaveLoop \/ PackObservation

ObservationSpec == ObservationInit /\ [][ObservationNext]_observationVars

(* An observation whose barrier was passed, not timed out or interrupted by a pause that
   was over when the loop looked, holds of every source a record that came after the wait
   began; it has an image for every camera, in order, each of a size the camera is known to
   have, whatever was delivered; and the thread is not left asleep with everything there.
   The code is wait_for_fresh_observations_, pack_observation_, pack_image_. *)
FreshObservation ==
  /\ packed # NoPacked =>
       /\ packed.outcome = "advanced" => \A s \in Sources : packed.seen[s].gen > packed.over[s]
       /\ [k \in DOMAIN packed.images |-> packed.images[k].camera] = Cameras
       /\ \A k \in DOMAIN packed.images :
            LET image == packed.images[k]
            IN  image.size \in (IF image.camera \in Resized THEN {"resized"}
                               ELSE IF image.of > 0 THEN {packed.seen[image.camera].kind} ELSE Sizes)
  /\ cycle = "asleep" /\ AllAdvanced => telling \cap Sources # {}
=============================================================================
