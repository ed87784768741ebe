--------------------------- MODULE MCDynamicWorkload ---------------------------
(***************************************************************************)
(* Instances of DynamicWorkload for TLC.                                   *)
(***************************************************************************)
EXTENDS DynamicWorkload, TLC

CONSTANTS i1, i2, n1, n2, l1, l2, c1, c2

TwoIterations == {i1, i2}
ClusterOfEach == (i1 :> c1) @@ (i2 :> c2)

Args(lbs_, pools_, clients_) ==
  [num_lbs |-> lbs_, num_pools |-> pools_, num_clients |-> clients_,
   delete_num_lbs |-> lbs_, delete_num_members |-> 2]
(* Two load balancers, or two pools, or two clients. *)
SomeArgs == {Args(2, 1, 1), Args(1, 2, 1), Args(1, 1, 2)}

(* The load balancers alone, the networks alone, OpenShift alone, and some of each. *)
SomeSelections ==
  {{"delete_loadbalancers"}, {"delete_members_random_lb"},
   {"provider_net_nova_boot_ping"}, {"provider_net_nova_delete"},
   {"create_loadbalancers", "delete_loadbalancers"},
   {"create_loadbalancers", "delete_members_random_lb"},
   {"provider_netcreate_nova_boot_ping", "provider_net_nova_boot_ping",
    "provider_net_nova_delete"},
   {"e2e_kube_burner", "ocp_on_osp"},
   {"create_loadbalancers", "provider_netcreate_nova_boot_ping", "e2e_kube_burner"}}
================================================================================
