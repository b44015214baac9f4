------------------------------- MODULE Peripherals -------------------------------
(***************************************************************************)
(* Parts of the SDK that share no state with one another, side by side:    *)
(* `part` says which one a behaviour is about.                             *)
(***************************************************************************)
EXTENDS McapFile, Scheduler, Observation, Replay, PolicySetup, Codec, Viewer

VARIABLES part

partVars == <<part, mcapVars, schedulerVars, observationVars, replayVars, setupVars, codecVars, viewerVars>>

FrontCameras == <<"c1", "c2">>
SentNumbers == {-9, -8, -1, 0, 1, 2, 3, 4, 8}
ArmPositions == [arm |-> {"positions"}]

Parts == {"mcap", "scheduler", "observation", "replay", "setup", "codec", "viewer"}

(* The part a behaviour is about starts; the others do nothing. *)
PeripheralsInit ==
  /\ part \in Parts
  /\ IF part = "mcap" THEN McapInit ELSE McapIdle
  /\ IF part = "scheduler" THEN SchedulerInit ELSE SchedulerIdle
  /\ IF part = "observation" THEN ObservationInit ELSE ObservationIdle
  /\ IF part = "replay" THEN ReplayInit ELSE ReplayIdle
  /\ IF part = "setup" THEN SetupInit ELSE SetupIdle
  /\ IF part = "codec" THEN CodecInit ELSE CodecIdle
  /\ IF part = "viewer" THEN ViewerInit ELSE ViewerIdle

Use(p) == part = p /\ UNCHANGED part

PeripheralsNext ==
  \/ Use("mcap") /\ McapNext /\ UNCHANGED <<schedulerVars, observationVars, replayVars, setupVars, codecVars, viewerVars>>
  \/ Use("scheduler") /\ SchedulerNext /\ UNCHANGED <<mcapVars, observationVars, replayVars, setupVars, codecVars, viewerVars>>
  \/ Use("observation") /\ ObservationNext /\ UNCHANGED <<mcapVars, schedulerVars, replayVars, setupVars, codecVars, viewerVars>>
  \/ Use("replay") /\ ReplayNext /\ UNCHANGED <<mcapVars, schedulerVars, observationVars, setupVars, codecVars, viewerVars>>
  \/ Use("setup") /\ SetupNext /\ UNCHANGED <<mcapVars, schedulerVars, observationVars, replayVars, codecVars, viewerVars>>
  \/ Use("codec") /\ CodecNext /\ UNCHANGED <<mcapVars, schedulerVars, observationVars, replayVars, setupVars, viewerVars>>
  \/ Use("viewer") /\ ViewerNext /\ UNCHANGED <<mcapVars, schedulerVars, observationVars, replayVars, setupVars, codecVars>>

PeripheralsSpec == PeripheralsInit /\ [][PeripheralsNext]_partVars
=============================================================================
