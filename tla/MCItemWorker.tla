---- MODULE MCItemWorker ----
(***************************************************************************)
(* Instances of ItemWorker for TLC.  Menus and processes meet only in the  *)
(* worker's loop and life: each behaviour lets one part of the environment *)
(* move, so that their states are not multiplied.                          *)
(***************************************************************************)
EXTENDS ItemWorker

CONSTANT FirstPath      \* the paths are alike: where the application starts

VARIABLE scene

SceneInit ==
    /\ scene \in {"binding", "commands", "processes"}
    /\ path = IF scene = "processes" THEN NoPath ELSE FirstPath
    /\ WInit
    /\ scene # "processes" => users[1] = "other"

SceneNext ==
    /\ scene' = scene
    /\ \/ Service
       \/ scene = "binding" /\ PathsMove
       \/ scene = "commands" /\ MenusUsed
       \/ scene \in {"binding", "commands"} /\ TreesMove
       \/ scene = "processes" /\ (ProcessUsed \/ ProcessMoves)

SceneSpec == SceneInit /\ [][SceneNext]_<<wvars, scene>> /\ WFairness

====
