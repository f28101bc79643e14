------------------------------ MODULE WorkerPool ------------------------------
(***************************************************************************)
(* What the config applier promises about its service workers, whatever    *)
(* their services and their order: workers are started and given up one    *)
(* at a time, at most one worker that was given up is still running, and   *)
(* it stops in the end.                                                    *)
(***************************************************************************)
EXTENDS Naturals

VARIABLES
  running,   \* workers that run
  wanted     \* workers that are meant to run

pool == <<running, wanted>>

Init ==
  /\ running = 0
  /\ wanted = 0

Start ==
  /\ running' = running + 1
  /\ wanted' = wanted + 1

GiveUp ==
  /\ wanted > 0
  /\ running = wanted
  /\ wanted' = wanted - 1
  /\ UNCHANGED running

Stop ==
  /\ running > wanted
  /\ running' = running - 1
  /\ UNCHANGED wanted

Next == Start \/ GiveUp \/ Stop

SafeSpec == Init /\ [][Next]_pool
Spec == SafeSpec /\ WF_pool(Stop)

=============================================================================
