--------------------------------- MODULE Teleop ---------------------------------
(***************************************************************************)
(* hw/teleop/teleop_controller.cpp under the session manager: the mirror   *)
(* thread that reads the leader and drives the follower, paused while      *)
(* start_episode stages the arms, started when the episode is live and     *)
(* stopped by shutdown, while the hooks of the episode before may still    *)
(* run on the monitor thread.                                              *)
(*                                                                         *)
(* One controller stands for all: main goes through them one by one.       *)
(***************************************************************************)
EXTENDS SessionManager

VARIABLES
  mirror,   \* thread_: where control_loop stands
  running,  \* running_
  arms,     \* what the pair was last prepared for
  inside    \* where main stands inside the controller

teleopVars == <<mirror, running, arms, inside>>
allVars == <<vars, teleopVars>>

MirrorPlaces == {"none", "test", "act", "throw", "over"}

TeleopTypeOK ==
  /\ TypeOK
  /\ mirror \in MirrorPlaces /\ running \in BOOLEAN
  /\ arms \in {"configured", "staged", "teleop", "released"}
  /\ inside \in {"no", "join", "hooks", "prepare"}

TeleopInit ==
  /\ Init
  /\ mirror = "none" /\ running = FALSE
  /\ arms = "configured" /\ inside = "no"
-----------------------------------------------------------------------------
(* control_loop, on its own thread. *)

MirrorTest ==
  /\ mirror = "test"
  /\ mirror' = IF running THEN "act" ELSE "over"
  /\ UNCHANGED <<vars, running, arms, inside>>

(* One period: the leader is read, the follower driven; a driver may throw. *)
MirrorActs ==
  /\ mirror = "act"
  /\ mirror' \in {"test", "throw"}
  /\ UNCHANGED <<vars, running, arms, inside>>

(* The handler's own store, whatever was stored since. *)
MirrorDies ==
  /\ mirror = "throw"
  /\ mirror' = "over"
  /\ running' = FALSE
  /\ UNCHANGED <<vars, arms, inside>>

MirrorStep == MirrorTest \/ MirrorActs \/ MirrorDies
-----------------------------------------------------------------------------
(* What pause_teleop and stop_teleop begin with. *)
SignalMirror(label) ==
  /\ At("main", label) /\ inside = "no"
  /\ running' = FALSE
  /\ inside' = "join"
  /\ UNCHANGED <<vars, mirror, arms>>

MirrorJoined == mirror \in {"none", "over"} /\ mirror' = "none"

(* Faulty variant: a paused mirror is not waited for. *)
PauseWithoutJoin ==
  /\ At("main", "stage") /\ inside = "join"
  /\ inside' = "hooks"
  /\ arms' = "staged"
  /\ UNCHANGED <<vars, mirror, running>>

(* pause_teleop, before the arms are staged. *)
Pause ==
  /\ At("main", "stage") /\ inside = "join"
  /\ MirrorJoined
  /\ inside' = "hooks"
  /\ arms' = "staged"
  /\ UNCHANGED <<vars, running>>

(* The staging hooks, in parallel and joined; the first that throws aborts. *)
Staged ==
  /\ At("main", "stage") /\ inside = "hooks"
  /\ inside' = "prepare"
  /\ UNCHANGED <<vars, mirror, running, arms>>

StagingThrows ==
  /\ inside = "hooks"
  /\ Abort
  /\ inside' = "no"
  /\ UNCHANGED <<mirror, running, arms>>

(* prepare_teleop leaves the arms of a running mirror as they are. *)
PrepareTeleop ==
  /\ inside = "prepare"
  /\ BringUp("stage", "activate")
  /\ inside' = "no"
  /\ arms' = IF running THEN arms ELSE "teleop"
  /\ UNCHANGED <<mirror, running>>

(* teleop(): no-op when the flag is up; otherwise a thread that is over is joined
   before its place is taken. *)
ExchangeRunning ==
  /\ At("main", "teleop") /\ inside = "no"
  /\ IF running
       THEN Started /\ UNCHANGED <<mirror, running, arms, inside>>
       ELSE /\ running' = TRUE /\ inside' = "join"
            /\ UNCHANGED <<vars, mirror, arms>>

SpawnMirror ==
  /\ inside = "join"
  /\ mirror \in {"none", "over"} /\ mirror' = "test"
  /\ Started
  /\ inside' = "no"
  /\ UNCHANGED <<running, arms>>

(* stop_teleop: end_teleop() brings the arms to rest and lets go of the drivers. *)
StopTeleop ==
  /\ inside = "join"
  /\ MirrorJoined
  /\ FinishShutdown
  /\ inside' = "no"
  /\ arms' = "released"
  /\ UNCHANGED running

(* The first shutdown alone does. *)
Finish ==
  \/ arms # "released" /\ SignalMirror("finish")
  \/ arms = "released" /\ FinishShutdown /\ UNCHANGED teleopVars
  \/ StopTeleop

TeleopCall ==
  \/ SignalMirror("stage") \/ Pause \/ Staged \/ StagingThrows \/ PrepareTeleop
  \/ ExchangeRunning \/ SpawnMirror \/ Finish
-----------------------------------------------------------------------------
(* Everything else the session does.  (What reset_teleop calls, post_episode(), is
   empty in the arms of the repository: it is a step of Hooks.) *)
Elsewhere(step) ==
  /\ step
  /\ pc["main"] \in {"stage", "teleop", "finish"} => pc'["main"] = pc["main"]
  /\ UNCHANGED teleopVars

TeleopNext == MirrorStep \/ TeleopCall \/ Elsewhere(Next)

TeleopSpec == TeleopInit /\ [][TeleopNext]_allVars

(* As in the session; the mirror thread is scheduled and its drivers answer. *)
TeleopFairness ==
  /\ WF_allVars(TeleopCall \/ Elsewhere(StartStep))
  /\ WF_allVars(Elsewhere(TeardownStep("main")))
  /\ WF_allVars(Elsewhere(DiscardLast))
  /\ WF_allVars(Elsewhere(MonitorStep))
  /\ WF_allVars(MirrorStep)

FairTeleopSpec == TeleopSpec /\ TeleopFairness
-----------------------------------------------------------------------------
(* The mirror drives the arms only when they were last prepared for it: not while a
   hook moves them ("so this hook may move the hardware freely"), not after they were
   released; and no hook of an episode reaches them after that. *)
ArmsInOrder ==
  /\ mirror = "act" => arms = "teleop"
  /\ arms = "released" => mirror = "none" /\ \A t \in Threads : ~At(t, "hooks")
=============================================================================
