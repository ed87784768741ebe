---------------------------- MODULE ProviderNetwork ----------------------------
(***************************************************************************)
(* The provider network workloads: a network with VMs on it is created, a   *)
(* VM is booted on a random one, a random one is deleted with its VMs.  A   *)
(* network is found by listing, shown, and locked only then; its creator    *)
(* locks it after neutron lists it and does not look at the answer.         *)
(***************************************************************************)
EXTENDS DynamicIteration

CONSTANTS NumVms,  \* num_vms_provider_net
          MaxVms   \* bound: VMs on one network
ASSUME VmsAssumption == NumVms \in Nat \ {0} /\ MaxVms \in Nat
ASSUME VlansAssumption == Cardinality(Object) >= Cardinality(Iteration) \* each can create its own

VARIABLES networks,  \* neutron: the provider networks there are
          created,   \* those there ever were: an uuid is not used again
          subnets,   \* networks with a subnet
          active,    \* nova: active[o], the ACTIVE VMs tagged with the network
          stuck,     \* networks with a VM that did not become ACTIVE
          net,       \* net[i]: the network i works on, <<>> or <<o>>
          left       \* left[i]: VMs still to boot or to delete

providerVars == <<networks, created, subnets, active, stuck, net, left>>

CreatePoints == {"net_acquire", "net_subnet", "net_boot", "net_release"}
BootPoints == {"boot_show", "boot_acquire", "boot_server", "boot_subnet", "boot_release"}
DeletePoints == {"del_show", "del_acquire", "del_list", "del_server", "del_network", "del_release"}
NetPoints == CreatePoints \cup BootPoints \cup DeletePoints

Net(i) == net[i][1]

ProviderTypeOK == /\ {networks, created, subnets, stuck} \subseteq SUBSET Object
                  /\ active \in [Object -> Nat]
                  /\ net \in [Iteration -> {<<>>} \cup {<<o>> : o \in Object}]
                  /\ left \in [Iteration -> Nat]
                  /\ \A i \in Iteration : pc[i] \in NetPoints => net[i] # <<>>

ProviderInit == /\ networks = {} /\ created = {} /\ subnets = {} /\ stuck = {}
                /\ active = [o \in Object |-> 0]
                /\ net = [i \in Iteration |-> <<>>]
                /\ left = [i \in Iteration |-> 0]

Return(i, w) == /\ Goto(i, w)
                /\ net' = [net EXCEPT ![i] = <<>>]
                /\ left' = [left EXCEPT ![i] = 0]

neutron == <<networks, created, subnets>>
nova == <<active, stuck>>

(* A VM needs its network; one that does not become ACTIVE raises. *)
BootOn(i, from, to) ==
  /\ At(i, from)
  /\ \/ /\ Net(i) \in networks /\ active[Net(i)] < MaxVms
        /\ active' = [active EXCEPT ![Net(i)] = @ + 1]
        /\ left' = [left EXCEPT ![i] = IF @ = 0 THEN 0 ELSE @ - 1]
        /\ Goto(i, IF left[i] > 1 THEN from ELSE to)
        /\ UNCHANGED stuck
     \/ /\ Net(i) \in networks /\ faults < MaxFaults
        /\ stuck' = stuck \cup {Net(i)}
        /\ faults' = faults + 1
        /\ pc' = [pc EXCEPT ![i] = "failed"]
        /\ UNCHANGED <<selected, active, left>>
     \/ /\ Net(i) \notin networks \/ active[Net(i)] >= MaxVms
        /\ Fail(i)
        /\ UNCHANGED <<active, stuck, left>>
  /\ UNCHANGED <<lockVars, neutron, net>>

--------------------------------------------------------------------------------
(* provider_netcreate_nova_boot_ping *)
NetCreate(i) ==
  /\ At(i, "provider_netcreate_nova_boot_ping")
  /\ \E o \in Object \ created :
       /\ networks' = networks \cup {o}
       /\ created' = created \cup {o}
       /\ net' = [net EXCEPT ![i] = <<o>>]
  /\ Goto(i, "net_acquire")
  /\ UNCHANGED <<lockVars, subnets, nova, left>>

(* What acquire_lock returns is not looked at. *)
NetAcquire(i) ==
  /\ At(i, "net_acquire")
  /\ Acquired(i, Net(i)) \/ Refused(Net(i))
  /\ Goto(i, "net_subnet")
  /\ UNCHANGED providerVars

NetSubnet(i) ==
  /\ At(i, "net_subnet")
  /\ subnets' = subnets \cup {Net(i)}
  /\ left' = [left EXCEPT ![i] = NumVms]
  /\ Goto(i, "net_boot")
  /\ UNCHANGED <<lockVars, networks, created, nova, net>>

(* A ping that fails is only logged. *)
NetBoot(i) == BootOn(i, "net_boot", "net_release")

ReleaseNet(i, from, next) == /\ At(i, from)
                             /\ Release(i, Net(i))
                             /\ Return(i, next)
                             /\ UNCHANGED <<neutron, nova>>
NetRelease(i) == ReleaseNet(i, "net_release", AfterNetCreate)

--------------------------------------------------------------------------------
(* pick_random_provider_net lists the networks and shows a random one; there is *)
(* none to choose from an empty list.                                           *)
PickRandom(i, w, to) ==
  /\ At(i, w)
  /\ \/ \E o \in networks : net' = [net EXCEPT ![i] = <<o>>] /\ Goto(i, to)
     \/ networks = {} /\ Fail(i) /\ UNCHANGED net
  /\ UNCHANGED <<lockVars, neutron, nova, left>>

(* Mutant: whether the network has a subnet is not looked at. *)
ShowAnyNet(i, from, to, next) ==
  /\ At(i, from)
  /\ \/ Net(i) \in networks /\ Goto(i, to) /\ UNCHANGED <<net, left>>
     \/ Net(i) \notin networks /\ Return(i, next)
  /\ UNCHANGED <<lockVars, neutron, nova>>

(* A network that is gone or has no subnet yet is left alone. *)
ShowNet(i, from, to, next) ==
  /\ At(i, from)
  /\ \/ Net(i) \in networks \cap subnets /\ Goto(i, to) /\ UNCHANGED <<net, left>>
     \/ Net(i) \notin networks \cap subnets /\ Return(i, next)
  /\ UNCHANGED <<lockVars, neutron, nova>>

AcquireNet(i, from, to, next) ==
  /\ At(i, from)
  /\ \/ Acquired(i, Net(i)) /\ Goto(i, to) /\ UNCHANGED <<net, left>>
     \/ Refused(Net(i)) /\ Return(i, next)
  /\ UNCHANGED <<neutron, nova>>

(* provider_net_nova_boot_ping *)
BootPick(i) == PickRandom(i, "provider_net_nova_boot_ping", "boot_show")
BootShow(i) == ShowNet(i, "boot_show", "boot_acquire", AfterNetBoot)
(* Mutant: a network in use is booted on all the same. *)
BootAcquireUnchecked(i) == /\ At(i, "boot_acquire")
                           /\ Acquired(i, Net(i)) \/ Refused(Net(i))
                           /\ Goto(i, "boot_server")
                           /\ UNCHANGED providerVars
BootAcquire(i) == AcquireNet(i, "boot_acquire", "boot_server", AfterNetBoot)
BootServer(i) == BootOn(i, "boot_server", "boot_subnet")
(* show_subnet, with the subnet's uuid of the first show, and the ping. *)
BootSubnet(i) == /\ At(i, "boot_subnet")
                 /\ Goto(i, IF Net(i) \in subnets THEN "boot_release" ELSE "failed")
                 /\ UNCHANGED <<lockVars, providerVars>>
BootRelease(i) == ReleaseNet(i, "boot_release", AfterNetBoot)

--------------------------------------------------------------------------------
(* provider_net_nova_delete *)
DeletePick(i) == PickRandom(i, "provider_net_nova_delete", "del_show")
DeleteShow(i) == ShowNet(i, "del_show", "del_acquire", AfterNetDelete)
DeleteAcquire(i) == AcquireNet(i, "del_acquire", "del_list", AfterNetDelete)
DeleteList(i) == /\ At(i, "del_list")
                 /\ left' = [left EXCEPT ![i] = active[Net(i)]]
                 /\ Goto(i, IF active[Net(i)] = 0 THEN "del_network" ELSE "del_server")
                 /\ UNCHANGED <<lockVars, neutron, nova, net>>
DeleteServer(i) == /\ At(i, "del_server")
                   /\ active' = [active EXCEPT ![Net(i)] = @ - 1]
                   /\ left' = [left EXCEPT ![i] = @ - 1]
                   /\ Goto(i, IF left[i] = 1 THEN "del_network" ELSE "del_server")
                   /\ UNCHANGED <<lockVars, neutron, stuck, net>>

(* Neutron refuses to delete a network that is not there or that a VM is on. *)
Deletable(o) == o \in networks /\ active[o] = 0 /\ o \notin stuck
DeleteNetwork(i) ==
  /\ At(i, "del_network")
  /\ \/ /\ Deletable(Net(i))
        /\ networks' = networks \ {Net(i)}
        /\ subnets' = subnets \ {Net(i)}
        /\ Goto(i, "del_release")
     \/ ~Deletable(Net(i)) /\ Fail(i) /\ UNCHANGED <<networks, subnets>>
  /\ UNCHANGED <<lockVars, created, nova, net, left>>

DeleteRelease(i) == ReleaseNet(i, "del_release", AfterNetDelete)

ProviderStep(i) ==
  \/ NetCreate(i) \/ NetAcquire(i) \/ NetSubnet(i) \/ NetBoot(i) \/ NetRelease(i)
  \/ BootPick(i) \/ BootShow(i) \/ BootAcquire(i) \/ BootServer(i) \/ BootSubnet(i)
  \/ BootRelease(i)
  \/ DeletePick(i) \/ DeleteShow(i) \/ DeleteAcquire(i) \/ DeleteList(i) \/ DeleteServer(i)
  \/ DeleteNetwork(i) \/ DeleteRelease(i)

--------------------------------------------------------------------------------
(* Where an iteration needs its network for itself. *)
AtWork == (CreatePoints \ {"net_acquire"})
          \cup {"boot_server", "boot_subnet", "boot_release"}
          \cup {"del_list", "del_server", "del_network", "del_release"}
Worked(i) == IF pc[i] \in AtWork THEN {Net(i)} ELSE {}

(***************************************************************************)
(* Two iterations are never at work on one network, although its creator    *)
(* ignores whether it got the lock: nobody else tries to lock a network     *)
(* that has no subnet, and it gets one only after its creator's lock.       *)
(***************************************************************************)
NetworkExclusion == \A i, j \in Iteration : i # j => Worked(i) \cap Worked(j) = {}

(***************************************************************************)
(* A network that another iteration deleted between the show and the lock   *)
(* is met by the first call on it only: past that call the network is there *)
(* until the iteration itself deletes it, and it is empty when it does.     *)
(***************************************************************************)
WorkedNetworkIsThere ==
  \A i \in Iteration :
    /\ pc[i] \in {"net_subnet", "net_boot", "net_release", "boot_subnet", "boot_release",
                  "del_server"} => Net(i) \in networks
    /\ pc[i] = "del_network" /\ Net(i) \in networks => Deletable(Net(i))
================================================================================
