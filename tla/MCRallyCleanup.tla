----------------------------- MODULE MCRallyCleanup -----------------------------
(***************************************************************************)
(* Instances of RallyCleanup for TLC.                                      *)
(***************************************************************************)
EXTENDS RallyCleanup

Task(vlans_, wanted_, tenants_, named_, foreign_, others_) ==
  [vlans |-> vlans_, wanted |-> wanted_, tenants |-> tenants_, times |-> 2,
   named |-> named_, foreign |-> foreign_, others |-> others_]

(* With and without links; as many networks as tenants ask for, and more; a cloud *)
(* of its own, and one with a floating IP of someone else.                        *)
SomeTasks == {Task(TRUE, 2, 1, TRUE, TRUE, FALSE), Task(TRUE, 3, 2, TRUE, FALSE, FALSE),
              Task(TRUE, 2, 1, FALSE, FALSE, FALSE), Task(FALSE, 3, 1, TRUE, TRUE, FALSE),
              Task(FALSE, 1, 2, TRUE, FALSE, TRUE)}

(* Everything an iteration makes, or a server alone. *)
SomeLitter == {{"server"}, {"server", "fip", "port", "router", "group"}}
================================================================================
