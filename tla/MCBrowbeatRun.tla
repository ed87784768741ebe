----------------------------- MODULE MCBrowbeatRun -----------------------------
(***************************************************************************)
(* Configurations of BrowbeatRun for TLC.                                  *)
(***************************************************************************)
EXTENDS BrowbeatRun, TLC

Runnable(n) == [enabled |-> TRUE, usable |-> TRUE, concurrencies |-> n]
Disabled == [enabled |-> FALSE, usable |-> TRUE, concurrencies |-> 1]
Unusable == [enabled |-> TRUE, usable |-> FALSE, concurrencies |-> 1]

Rally(scenarios) == [kind |-> "rally", selected |-> TRUE, scenarios |-> scenarios]
Shaker(placement_, density_, progression_) ==
  [kind |-> "shaker", selected |-> TRUE, scenarios |-> <<Runnable(1)>>, file |-> "l2.yaml",
   placement |-> placement_, density |-> density_, progression |-> progression_]
Workflow(scenarios) == [kind |-> "workflow", selected |-> TRUE, scenarios |-> scenarios]
Unselected == [kind |-> "rally", selected |-> FALSE, scenarios |-> <<Runnable(1)>>]

(* What a workload of each kind may find in its configuration, two kinds in a run; *)
(* and Shaker workloads with one scenario file, which comes without a room.    *)
RallyAndShaker ==
  <<Rally(<<Disabled, Runnable(2), Unusable>>), Unselected, Shaker(Unset, 0, Unset)>>
RallyAndWorkflow == <<Workflow(<<Runnable(1), Disabled>>), Rally(<<Runnable(1)>>)>>
Shakers == <<Shaker("single_room", 0, "quadratic"), Shaker(Unset, 4, Unset),
             Shaker(Unset, 0, Null)>>
SomeConfigs == <<RallyAndShaker, RallyAndWorkflow, Shakers>>
OneFile == "l2.yaml" :> [room |-> Unset, density |-> 1, progression |-> "linear"]
================================================================================
