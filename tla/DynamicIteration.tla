---------------------------- MODULE DynamicIteration ----------------------------
(***************************************************************************)
(* An iteration of the dynamic workload scenario as run() drives it: it     *)
(* calls the workloads the task selects one after the other, in one fixed   *)
(* order, and is over when the last returns or a call raises.  The modules  *)
(* of the load balancers, the provider networks and OpenShift extend this   *)
(* one; pc[i] is the name of the workload iteration i is about to enter or  *)
(* a point inside one.                                                      *)
(***************************************************************************)
EXTENDS LockTable, Naturals, FiniteSets

CONSTANTS Selections, \* the sets of workloads a task may select
          MaxFaults   \* bound: calls that raise on their own

ASSUME FaultsAssumption == MaxFaults \in Nat

VARIABLES selected,   \* the workloads of this task
          pc,
          faults

iterationVars == <<selected, pc, faults>>

Selected(w, next) == IF w \in selected THEN w ELSE next

(* The order of the calls in run(), skipping those not selected. *)
AfterKubeBurner == Selected("ocp_on_osp", "done")
AfterNetDelete == Selected("e2e_kube_burner", AfterKubeBurner)
AfterNetBoot == Selected("provider_net_nova_delete", AfterNetDelete)
AfterNetCreate == Selected("provider_net_nova_boot_ping", AfterNetBoot)
AfterMembers == Selected("provider_netcreate_nova_boot_ping", AfterNetCreate)
AfterLbDelete == Selected("delete_members_random_lb", AfterMembers)
AfterLbCreate == Selected("delete_loadbalancers", AfterLbDelete)
First == Selected("create_loadbalancers", AfterLbCreate)

Entries == {"create_loadbalancers", "delete_loadbalancers", "delete_members_random_lb",
            "provider_netcreate_nova_boot_ping", "provider_net_nova_boot_ping",
            "provider_net_nova_delete", "e2e_kube_burner", "ocp_on_osp"}
Stopped == {"done", "failed"}

IterationInit == /\ selected \in Selections
                 /\ pc = [i \in Iteration |-> First]
                 /\ faults = 0

At(i, p) == pc[i] = p
Goto(i, p) == /\ pc' = [pc EXCEPT ![i] = p]
              /\ UNCHANGED <<selected, faults>>
Fail(i) == Goto(i, "failed")

(* Any call may raise: run() ends, what the iteration had made and locked stays. *)
Raise(i) == /\ pc[i] \notin Stopped
            /\ faults < MaxFaults
            /\ faults' = faults + 1
            /\ pc' = [pc EXCEPT ![i] = "failed"]
            /\ UNCHANGED <<selected, locked, held>>
================================================================================
