---------------------------------- MODULE Replay ----------------------------------
(***************************************************************************)
(* The program that plays a recorded episode back on the robot             *)
(* (scripts/replay_trossen_mcap_jointstate): the arms follow their joint   *)
(* states, the bases their velocities, one message of every stream per     *)
(* frame.  Ctrl+C only sets a flag, which the frame loop alone looks at.   *)
(***************************************************************************)
EXTENDS Integers, FiniteSets

CONSTANTS
  Followers,    \* streams of joint states
  Wheels,       \* streams of odometry
  MaxMessages   \* bound on the messages of a stream

ASSUME ReplayAssumption == Followers \cap Wheels = {} /\ MaxMessages \in Nat

Recorded == Followers \union Wheels

VARIABLES
  stage,       \* where main() stands
  configured,  \* streams the configuration names, with a driver to be had or not
  recording,   \* per stream, how many of its messages can be parsed
  drivers,     \* drivers
  slates,      \* slate_drivers
  indices,     \* stream_indices
  frames,      \* frames played
  position,    \* per arm, the message it was last sent to, or a place of its own
  velocity,    \* per base, the message whose velocity it has; 0 at rest
  moved,       \* history: bases that have been told to move
  ctrlC        \* g_stop_requested

replayVars == <<stage, configured, recording, drivers, slates, indices, frames, position,
                velocity, moved, ctrlC>>

(* Places of an arm that are no message of its stream. *)
AtRest == -3
Staged == -2
Asleep == -1

ReplayStart ==
  /\ drivers = {} /\ slates = {} /\ indices = [s \in Recorded |-> 0] /\ frames = 0
  /\ position = [s \in Followers |-> AtRest] /\ velocity = [s \in Wheels |-> 0]
  /\ moved = {} /\ ctrlC = FALSE

ReplayIdle ==
  ReplayStart /\ stage = "off" /\ configured = {} /\ recording = [s \in Recorded |-> 0]

ReplayInit ==
  /\ ReplayStart /\ stage = "arms" /\ configured \in SUBSET Recorded
  /\ recording \in [Recorded -> 0 .. MaxMessages]

CtrlC ==
  /\ stage \notin {"off", "done", "failed"} /\ ~ctrlC /\ ctrlC' = TRUE
  /\ UNCHANGED <<stage, configured, recording, drivers, slates, indices, frames, position,
                 velocity, moved>>

(* Arms that cannot be had are left out; without any the program ends. *)
OpenArms ==
  /\ stage = "arms"
  /\ drivers' \in SUBSET (configured \cap Followers)
  /\ stage' = IF drivers' = {} THEN "failed" ELSE "read"
  /\ position' = [s \in Followers |-> IF s \in drivers' THEN Staged ELSE position[s]]
  /\ UNCHANGED <<configured, recording, slates, indices, frames, velocity, moved, ctrlC>>

(* The file cannot be read, or it has no stream to play. *)
ReadFails ==
  /\ stage = "read" /\ stage' = "failed"
  /\ UNCHANGED <<configured, recording, drivers, slates, indices, frames, position, velocity,
                 moved, ctrlC>>

(* Bases of the file that are configured and answer. *)
OpenBases ==
  /\ stage = "read" /\ stage' = "first"
  /\ slates' \in SUBSET {s \in configured \cap Wheels : recording[s] > 0}
  /\ UNCHANGED <<configured, recording, drivers, indices, frames, position, velocity, moved, ctrlC>>

ToFirst ==
  /\ stage = "first" /\ stage' = "reference"
  /\ position' = [s \in Followers |->
       IF s \in drivers /\ recording[s] > 0 THEN 1 ELSE position[s]]
  /\ UNCHANGED <<configured, recording, drivers, slates, indices, frames, velocity, moved, ctrlC>>

(* The longest stream, whoever plays it, only measures the progress; but there must be one. *)
PickReference ==
  /\ stage = "reference"
  /\ stage' = IF \A s \in Recorded : recording[s] = 0 THEN "failed" ELSE "play"
  /\ UNCHANGED <<configured, recording, drivers, slates, indices, frames, position, velocity,
                 moved, ctrlC>>

Driven == drivers \union slates
Left(s) == indices[s] < recording[s]

(* Faulty variant: the end of the shortest driven stream is the end. *)
PlayedToShortest == \E s \in Driven : ~Left(s)

Played == \A s \in Driven : ~Left(s)

(* One message of every stream that has one left; streams without a driver go along. *)
PlayFrame ==
  /\ stage = "play" /\ ~ctrlC /\ ~Played
  /\ indices' = [s \in Recorded |-> IF Left(s) THEN indices[s] + 1 ELSE indices[s]]
  /\ position' = [s \in Followers |->
       IF s \in drivers /\ Left(s) THEN indices'[s] ELSE position[s]]
  /\ velocity' = [s \in Wheels |-> IF s \in slates /\ Left(s) THEN indices'[s] ELSE velocity[s]]
  /\ moved' = moved \union {s \in slates : Left(s)}
  /\ frames' = frames + 1
  /\ UNCHANGED <<stage, configured, recording, drivers, slates, ctrlC>>

(* Looked at between two frames; the pass that finds nothing left to drive has taken the
   streams without a driver along once more. *)
PlayEnds ==
  /\ stage = "play" /\ stage' = "home"
  /\ \/ ctrlC /\ UNCHANGED indices
     \/ /\ ~ctrlC /\ Played
        /\ indices' = [s \in Recorded |-> IF Left(s) THEN indices[s] + 1 ELSE indices[s]]
  /\ UNCHANGED <<configured, recording, drivers, slates, frames, position, velocity, moved, ctrlC>>

(* The arms first, which takes two seconds; then the bases. *)
SendHome ==
  /\ stage = "home" /\ stage' = "brake"
  /\ position' = [s \in Followers |-> IF s \in drivers THEN Asleep ELSE position[s]]
  /\ UNCHANGED <<configured, recording, drivers, slates, indices, frames, velocity, moved, ctrlC>>

Brake ==
  /\ stage = "brake" /\ stage' = "done"
  /\ velocity' = [s \in Wheels |-> IF s \in slates THEN 0 ELSE velocity[s]]
  /\ UNCHANGED <<configured, recording, drivers, slates, indices, frames, position, moved, ctrlC>>

ReplayNext ==
  \/ CtrlC \/ OpenArms \/ ReadFails \/ OpenBases \/ ToFirst \/ PickReference
  \/ PlayFrame \/ PlayEnds \/ SendHome \/ Brake

ReplaySpec == ReplayInit /\ [][ReplayNext]_replayVars

(* The streams stay in step, each arm and base at the message of the frame, or at its
   last; a replay that is done has played everything recorded for a driver, unless it was
   stopped; it leaves the arms asleep and the bases at rest; one
   that failed has moved no base.  The code is the frame loop and the returns of main. *)
ReplayFaithful ==
  /\ stage \in {"play", "home", "brake"} =>
       \A s \in Driven :
         LET at == IF frames < recording[s] THEN frames ELSE recording[s]
         IN  /\ indices[s] = at
             /\ s \in Wheels => velocity[s] = at
             /\ s \in Followers /\ stage # "brake" /\ at > 0 => position[s] = at
  /\ stage = "done" =>
       /\ ctrlC \/ \A s \in Driven : indices[s] = recording[s]
       /\ \A s \in drivers : position[s] = Asleep
       /\ \A s \in Wheels : velocity[s] = 0
  /\ stage = "failed" => moved = {}

=============================================================================
