---------------------------- MODULE MCScheduler ----------------------------
(* Values of the scheduler's constants for TLC.  The classes are the two   *)
(* ends of the real range (Audit 96, Background 0), scaled down.           *)
EXTENDS Scheduler

MCClass == {"Audit", "Background"}
MCBoost == [c \in MCClass |-> IF c = "Audit" THEN MaxBoost ELSE 0]
MCSpawnArgs ==
  {[class |-> "Audit", priority |-> 1, max_ticks |-> 0, deadline |-> 0],
   [class |-> "Background", priority |-> 0, max_ticks |-> 2, deadline |-> 3]}

\* A strong class without a budget against a weak one: the worst case for a wait.
MCCoopArgs ==
  {[class |-> "Audit", priority |-> U8Max, max_ticks |-> 0, deadline |-> 2],
   [class |-> "Background", priority |-> 0, max_ticks |-> 1, deadline |-> 0]}
=============================================================================
