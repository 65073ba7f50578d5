---------------------------- MODULE MCScheduler ----------------------------
(***************************************************************************)
(* The scheduler on small instances.                                       *)
(***************************************************************************)
EXTENDS SchedulerProperties

\* Every job is due once, or at every time of the clock.
Once == [j \in Jobs |-> {1}]

EveryTime == [j \in Jobs |-> 1 .. MaxTime]

\* The default policies, and the two others.
BothPolicies ==
  {[misfire |-> "skip", concurrency |-> "skip"], [misfire |-> "run_once", concurrency |-> "queue"]}
=============================================================================
