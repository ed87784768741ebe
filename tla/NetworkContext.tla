----------------------------- MODULE NetworkContext -----------------------------
(***************************************************************************)
(* The Rally context that makes the networks a task runs on, before its     *)
(* iterations, and deletes them after: with a VLAN link of the tester for   *)
(* each network (external networks of the dynamic workloads), or without    *)
(* (provider networks).  Browbeat runs a task several times: what one run   *)
(* leaves on the cloud or on the tester is in the way of the next.          *)
(***************************************************************************)
EXTENDS Naturals, FiniteSets

CONSTANTS Tasks,     \* what a task may ask for, and the cloud it may run on
          Runs,      \* how often the task is run
          Litter,    \* what an iteration that fails may leave on its network
          MaxNetworks, \* the highest number of a network these tasks make
          MaxFaults  \* bound: calls and commands that fail on their own

Kinds == {"server", "fip", "port", "router", "group", "network"}
ASSUME ContextAssumption ==
  /\ Runs \in Nat \ {0} /\ {MaxNetworks, MaxFaults} \subseteq Nat
  /\ \A t \in Tasks : t.wanted + t.tenants - 1 <= MaxNetworks
  /\ Litter \subseteq SUBSET (Kinds \ {"network"})
  /\ \A rest \in Litter : "port" \in rest => "router" \in rest \* an interface of it
  /\ Tasks \subseteq [vlans: BOOLEAN,           \* external networks, on VLAN links
                     wanted: Nat \ {0},        \* num_external_networks
                     tenants: Nat \ {0},
                     times: Nat,               \* iterations
                     named: BOOLEAN,           \* router ports bear a name of Rally
                     foreign: BOOLEAN,         \* someone else's port is on network 1
                     others: BOOLEAN]          \* the cloud has someone else's floating IP

VARIABLES task,
          round,     \* this run of the task
          at,        \* where Rally, or the script after it, is
          tenant,    \* the inner loop of setup
          created,   \* the networks in the context are 1..created
          subnetted, \* those with a subnet in the context
          index,     \* the iteration, or the network or link being deleted
          bound,     \* external_net_id has a value
          links,     \* tester: the VLAN links there are
          left,      \* cloud: <<kind, round, n>>, on network n of that round
          kept,      \* history: networks and links whose last deletion failed
          unserved,  \* history: iterations that found no network
          faults

contextVars == <<task, round, at, tenant, created, subnetted, index, bound, links, left, kept,
                 unserved, faults>>

N == task.wanted
Networks == {<<"network", r, n>> : r \in 1..Runs, n \in 1..MaxNetworks}
OthersFip == <<"fip", 0, 0>>
Things == {<<kind, r, n>> : kind \in Kinds, r \in 1..Runs, n \in 1..MaxNetworks} \cup {OthersFip}
Numbered(r, n) == <<"network", r, n>>
Link(n) == <<"link", 0, n>>

ContextPoints == {"setup", "link_add", "link_up", "link_ip", "network", "subnet", "iterate",
                  "clean_network", "clean_link", "between", "over"}

ContextTypeOK == /\ task \in Tasks
                 /\ round \in 1..Runs
                 /\ tenant \in 0..task.tenants
                 /\ created \in 0..MaxNetworks
                 /\ subnetted \subseteq 1..created
                 /\ index \in Nat
                 /\ bound \in BOOLEAN
                 /\ links \subseteq 1..MaxNetworks
                 /\ left \subseteq Things
                 /\ kept \subseteq Networks \cup {Link(n) : n \in 1..MaxNetworks}
                 /\ unserved \subseteq 1..task.times
                 /\ faults \in 0..MaxFaults

ContextInit == /\ task \in Tasks
               /\ round = 1 /\ at = "setup"
               /\ tenant = 0 /\ created = 0 /\ subnetted = {}
               /\ index = 0 /\ bound = FALSE
               /\ links = {} /\ left = {x \in {OthersFip} : task.others}
               /\ kept = {} /\ unserved = {}
               /\ faults = 0

At(p) == at = p
Fault == faults < MaxFaults /\ faults' = faults + 1

--------------------------------------------------------------------------------
(* setup: the networks are counted inside the loop over the tenants, and any    *)
(* error ends both loops without a word to the task.                            *)
Cloud == <<links, left>>
Loop == <<tenant, created, subnetted>>
Fixed == <<task, round, kept, unserved>>
NextOfTenant == IF task.vlans THEN "link_add" ELSE "network"
BreakOff == at' = "iterate" /\ index' = 1

Setup == /\ At("setup")
         /\ \/ created < N /\ tenant' = 1 /\ at' = NextOfTenant /\ UNCHANGED index
            \/ created >= N /\ BreakOff /\ UNCHANGED tenant
         /\ UNCHANGED <<Fixed, Cloud, created, subnetted, bound, faults>>

(* ip link add: not when there is a link of that name. *)
LinkAdd ==
  /\ At("link_add")
  /\ \/ /\ created + 1 \notin links
        /\ links' = links \cup {created + 1}
        /\ at' = "link_up"
        /\ UNCHANGED <<index, faults>>
     \/ created + 1 \in links /\ BreakOff /\ UNCHANGED <<links, faults>>
     \/ Fault /\ BreakOff /\ UNCHANGED links
  /\ UNCHANGED <<Fixed, Loop, left, bound>>

LinkCommand(from, to) == /\ At(from)
                         /\ \/ at' = to /\ UNCHANGED <<index, faults>>
                            \/ Fault /\ BreakOff
                         /\ UNCHANGED <<Fixed, Loop, Cloud, bound>>
LinkUp == LinkCommand("link_up", "link_ip")
LinkAddress == LinkCommand("link_ip", "network")

(* A VLAN is asked for by number; provider networks get one that is free. *)
VlanTaken(n) == task.vlans /\ \E r \in 1..Runs : Numbered(r, n) \in left
CreateNetwork ==
  /\ At("network")
  /\ \/ /\ ~VlanTaken(created + 1)
        /\ left' = left \cup {Numbered(round, created + 1)}
        /\ created' = created + 1
        /\ at' = "subnet"
        /\ UNCHANGED <<index, faults>>
     \/ VlanTaken(created + 1) /\ BreakOff /\ UNCHANGED <<left, created, faults>>
     \/ Fault /\ BreakOff /\ UNCHANGED <<left, created>>
  /\ UNCHANGED <<Fixed, tenant, subnetted, bound, links>>

CreateSubnet ==
  /\ At("subnet")
  /\ \/ /\ subnetted' = subnetted \cup {created}
        /\ IF tenant < task.tenants
           THEN tenant' = tenant + 1 /\ at' = NextOfTenant
           ELSE at' = "setup" /\ UNCHANGED tenant
        /\ UNCHANGED <<index, faults>>
     \/ Fault /\ BreakOff /\ UNCHANGED <<tenant, subnetted>>
  /\ UNCHANGED <<Fixed, created, Cloud, bound>>

--------------------------------------------------------------------------------
(* An iteration takes the network of its number, modulo those asked for; one    *)
(* that fails may leave resources on it that Rally does not clean up.           *)
NetworkOf(n) == ((n - 1) % N) + 1
Served(n) == NetworkOf(n) <= created /\ (task.vlans \/ NetworkOf(n) \in subnetted)

Iterate ==
  /\ At("iterate")
  /\ index <= task.times
  /\ index' = index + 1
  /\ \/ Served(index) /\ UNCHANGED <<left, unserved, faults>>
     \/ /\ Served(index) /\ Fault
        /\ \E rest \in Litter :
             left' = left \cup {<<kind, round, NetworkOf(index)>> : kind \in rest}
        /\ UNCHANGED unserved
     \/ ~Served(index) /\ unserved' = unserved \cup {index} /\ UNCHANGED <<left, faults>>
  /\ UNCHANGED <<task, round, at, Loop, bound, links, kept>>

EndTask == /\ At("iterate")
           /\ index > task.times
           /\ at' = "clean_network" /\ index' = 1 /\ bound' = FALSE
           /\ UNCHANGED <<Fixed, Loop, Cloud, faults>>

--------------------------------------------------------------------------------
(* cleanup runs over the networks asked for.  The handler of its exceptions     *)
(* names external_net_id: while that has no value, the handler raises too, and  *)
(* the rest of the cleanup is not done.                                         *)
InUse(r, n) == \/ \E kind \in {"server", "fip", "port"} : <<kind, r, n>> \in left
               \/ task.foreign /\ n = 1

AfterNetwork == IF task.vlans THEN at' = "clean_link" /\ UNCHANGED index
                ELSE IF index < N THEN index' = index + 1 /\ UNCHANGED at
                ELSE at' = "between" /\ UNCHANGED index

(* Mutant: the last network asked for is left out. *)
CleanNetworkShort ==
  /\ At("clean_network")
  /\ IF index < N /\ Numbered(round, index) \in left
     THEN left' = left \ {Numbered(round, index)} /\ AfterNetwork
     ELSE at' = "between" /\ UNCHANGED <<index, left>>
  /\ bound' = TRUE
  /\ UNCHANGED <<Fixed, Loop, links, faults>>

CleanNetwork ==
  /\ At("clean_network")
  /\ \/ /\ index > created /\ ~bound \* UnboundLocalError
        /\ at' = "between"
        /\ UNCHANGED <<index, bound, left, kept, faults>>
     \/ /\ index > created /\ bound
        /\ AfterNetwork
        /\ UNCHANGED <<bound, left, kept, faults>>
     \/ /\ index <= created /\ index \notin subnetted
        /\ AfterNetwork /\ bound' = TRUE
        /\ UNCHANGED <<left, kept, faults>>
     \/ /\ index \in subnetted /\ ~InUse(round, index)
        /\ left' = left \ {Numbered(round, index)}
        /\ AfterNetwork /\ bound' = TRUE
        /\ UNCHANGED <<kept, faults>>
     \/ /\ index \in subnetted
        /\ (InUse(round, index) /\ UNCHANGED faults) \/ Fault
        /\ kept' = kept \cup {Numbered(round, index)}
        /\ AfterNetwork /\ bound' = TRUE
        /\ UNCHANGED left
  /\ UNCHANGED <<task, round, unserved, Loop, links>>

(* ip link delete, which may fail; there may be no such link. *)
DeleteLink(n) == \/ links' = links \ {n} /\ kept' = kept \ {Link(n)} /\ UNCHANGED faults
                 \/ n \in links /\ Fault /\ kept' = kept \cup {Link(n)} /\ UNCHANGED links
CleanLink ==
  /\ At("clean_link")
  /\ DeleteLink(index)
  /\ \/ index < N /\ index' = index + 1 /\ at' = "clean_network"
     \/ index = N /\ at' = "between" /\ UNCHANGED index
  /\ UNCHANGED <<task, round, unserved, Loop, left, bound>>

(* Browbeat runs the task again, as another rerun. *)
RunAgain == /\ At("between")
            /\ round < Runs
            /\ round' = round + 1
            /\ at' = "setup"
            /\ tenant' = 0 /\ created' = 0 /\ subnetted' = {} /\ index' = 0 /\ bound' = FALSE
            /\ UNCHANGED <<task, Cloud, kept, unserved, faults>>

EndRuns == /\ At("between")
           /\ round = Runs
           /\ at' = "over"
           /\ UNCHANGED <<Fixed, Loop, Cloud, index, bound, faults>>

ContextStep == \/ Setup \/ LinkAdd \/ LinkUp \/ LinkAddress \/ CreateNetwork \/ CreateSubnet
               \/ Iterate \/ EndTask \/ CleanNetwork \/ CleanLink \/ RunAgain \/ EndRuns

--------------------------------------------------------------------------------
(* What a run may leave although no deletion failed: the networks and links     *)
(* made beyond those asked for, a network that got no subnet, and the link of   *)
(* the first network if that could not be created, then or in this run, which   *)
(* that link stops at its first command.                                        *)
Unreached(n) == n > N \/ n \notin subnetted
UnreachedLink(n) == n > N \/ (n = 1 /\ created = 0)

(***************************************************************************)
(* Between two runs, whichever, no network of the last one is there but     *)
(* what its cleanup does not reach or failed to delete, and no link of this *)
(* run or an earlier one either; and what runs leave behind without a       *)
(* failure never keeps an iteration of a later run from its network.        *)
(***************************************************************************)
ContextCleansUp ==
  /\ At("between") =>
       /\ \A n \in 1..created :
            Numbered(round, n) \in left => Unreached(n) \/ Numbered(round, n) \in kept
       /\ \A n \in links : UnreachedLink(n) \/ Link(n) \in kept
  /\ faults = 0 /\ ~task.foreign => unserved = {}
================================================================================
