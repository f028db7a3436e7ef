-------------------------------- MODULE Sync --------------------------------
(* The packages singleflight and suspend of sync beside each other.         *)
EXTENDS Singleflight

CONSTANTS Goroutines, RunKeys, Nobody, MaxRuns, MaxResets

VARIABLES mu, states, nRuns, status, holder, spc, skey, run, blockedBy, failed, nResets

S == INSTANCE Suspend WITH Keys <- RunKeys, pc <- spc, key <- skey

ASSUME SuspendAssumption == S!SuspendConstants

(* Suspend: one goroutine works on a key, the others proceed only when it   *)
(* is done (ShouldStart, ShouldWait).                                       *)
OneWorkerFirst == S!OneWorkerFirst

(* Suspend: Done releases who is asleep in ShouldWait.                      *)
SleeperReleased == S!SleeperReleased
=============================================================================
