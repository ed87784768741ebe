-------------------------- MODULE MCWorkflowScenario --------------------------
(***************************************************************************)
(* Scenario files for TLC, after the examples of the repository.           *)
(***************************************************************************)
EXTENDS WorkflowScenario

Do(op, refs) ==
  [op |-> op, refs |-> refs, save |-> NoKey, onFailure |-> "continue", wait |-> FALSE]
Must(step) == [step EXCEPT !.onFailure = "fail"]
As(key, step) == [step EXCEPT !.save = key]
Waiting(step) == [step EXCEPT !.wait = TRUE]

(* vm_connectivity.yaml, with the server stopped, started and waited for *)
Servers ==
  <<Must(As("net", Do("create_network", {}))),
    As("vm", Waiting(Do("boot_server", {"net"}))),
    Do("stop_server", {"vm"}), Must(Do("start_server", {"vm"})),
    Waiting(Do("delete_server", {"vm"})), Do("delete_network", {"net"})>>

(* boot with a floating IP, looked at in all ways; no wait for the deletion *)
Fip ==
  <<As("net", Do("create_network", {})), Do("create_subnet", {"net"}),
    As("vm", Do("boot_server_with_fip", {"net"})), Do("show_server", {"vm"}),
    Do("delete_server", {"vm"}), Do("delete_floatingip", {"vm"}), Do("delete_network", {"net"})>>

Attach ==
  <<As("net", Do("create_network", {})), As("vm", Do("boot_server", {"net"})),
    As("net", Do("list_networks", {})), Do("attach_floating_ip", {"vm"}),
    Do("attach_interface", {"vm"}), Do("attach_volume", {"vm"}), Do("detach_volume", {"vm"})>>

Routers ==
  <<As("net", Do("create_network", {})), As("sub", Do("create_subnet", {"net"})),
    Must(As("rt", Do("create_router", {}))), Do("add_interface_router", {"rt", "sub"}),
    Do("remove_interface_router", {"rt", "sub"}), Do("delete_router", {"rt"}),
    Do("delete_subnet", {"sub"}), Do("delete_network", {"net"})>>

Ports ==
  <<As("net", Do("create_network", {})), As("port", Do("create_port", {"net"})),
    As("sg", Do("create_security_group", {})), Do("create_security_group_rule", {"sg"}),
    Do("delete_security_group", {"sg"}), Do("delete_port", {"port"}),
    As("port", Do("create_floatingip", {}))>>

Lists ==
  <<Do("list_floating_ips", {}), Do("list_servers", {}), Do("list_hypervisors", {}),
    Do("list_flavors", {}), Do("resize", {}), Do("wait", {}), Do("log", {})>>

(* ovn_nbdb_leader_chaos.yaml *)
LeaderChaos ==
  <<Must(As("leader", Do("find_raft_leader", {}))), As("chaos", Do("krkn", {"leader"})),
    Do("wait", {}), Must(As("leader", Do("find_raft_leader", {})))>>

AllScenarios == {Servers, Fip, Attach, Routers, Ports, Lists, LeaderChaos}
OneDeletion == {Servers}
SomeKeys == {"net", "vm", "sub", "rt", "port", "sg", "leader", "chaos"}
ThreePods == <<"pod0", "pod1", "pod2">>
================================================================================
