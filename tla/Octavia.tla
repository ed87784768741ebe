--------------------------------- MODULE Octavia ---------------------------------
(***************************************************************************)
(* The load balancer workloads.  They take no lock: a load balancer can be  *)
(* listed, and picked by another iteration, from the moment it is created.  *)
(* Octavia answers 409 to a change of a load balancer that is pending; the  *)
(* code tries again after a pause, a bounded number of times, and leaves    *)
(* the loop on any other error as it does on success.                       *)
(***************************************************************************)
EXTENDS DynamicIteration

CONSTANTS LoadBalancer,   \* load balancers by uuid; one also stands for its two networks
          LbArgs,         \* what a task may ask of the load balancer workloads
          MaxAttempts     \* max_attempts
ASSUME OctaviaAssumption ==
  /\ LbArgs \subseteq [num_lbs: Nat \ {0}, num_pools: Nat \ {0}, num_clients: Nat \ {0},
                       delete_num_lbs: Nat \ {0}, delete_num_members: Nat \ {0}]
  /\ MaxAttempts \in Nat \ {0}

VARIABLES args,       \* the arguments of this task
          lbs,        \* octavia: the load balancers there are
          pending,    \* those that answer 409
          pools,      \* pools[l]: how many pools l has
          members,    \* members[l]: <<pool, client>> in l's pools
          made,       \* load balancers whose networks were ever created
          vips,       \* neutron: load balancers whose own network is there
          clientNets, \* those whose clients' network is there
          jumps,      \* nova: those whose jump host is there
          clients,    \* clients[l]: the VMs tagged as clients of l
          lb,         \* lb[i]: the load balancer i works on, <<>> or <<l>>
          listed,     \* listed[i]: the load balancers it listed, to delete
          seen,       \* seen[i]: the members it listed, to delete
          pool, client, attempts, rounds, \* its loop counters
          excused,    \* history: members given up, or deleted on purpose
          tidied      \* history: load balancers deleted to the last step

balancer == <<lbs, pending, pools, members>>
sites == <<made, vips, clientNets, jumps, clients>>
choice == <<lb, listed, seen>>
counters == <<pool, client, attempts, rounds>>
history == <<excused, tidied>>
octaviaVars == <<args, balancer, sites, choice, counters, history>>

NumPools == args.num_pools
NumClients == args.num_clients

OctaviaPoints ==
  {"lb_networks", "lb_jump", "lb_client", "lb_create", "lb_wait", "lb_listener",
   "lb_wait_listener", "lb_pool", "lb_wait_pool", "lb_member", "lb_check", "lb_unjump",
   "lb_delete", "lb_servers", "lb_vip", "lb_client_net", "mem_wait", "mem_list", "mem_pick",
   "mem_delete"}

Slots == (1..NumPools) \X (1..NumClients)

OctaviaTypeOK ==
  /\ args \in LbArgs
  /\ {lbs, pending, made, vips, clientNets, jumps, tidied} \subseteq SUBSET LoadBalancer
  /\ {members, excused} \subseteq [LoadBalancer -> SUBSET Slots]
  /\ pools \in [LoadBalancer -> 0..NumPools]
  /\ clients \in [LoadBalancer -> 0..NumClients]
  /\ lb \in [Iteration -> {<<>>} \cup {<<l>> : l \in LoadBalancer}]
  /\ listed \in [Iteration -> SUBSET LoadBalancer]
  /\ seen \in [Iteration -> SUBSET (1..NumClients)]
  /\ {pool, client, attempts, rounds} \subseteq [Iteration -> Nat]
  /\ \A i \in Iteration : pc[i] \in OctaviaPoints \ {"lb_networks", "lb_delete"} => lb[i] # <<>>

OctaviaInit ==
  /\ args \in LbArgs
  /\ lbs = {} /\ pending = {} /\ made = {} /\ vips = {} /\ clientNets = {} /\ jumps = {}
  /\ tidied = {}
  /\ members = [l \in LoadBalancer |-> {}] /\ excused = members
  /\ pools = [l \in LoadBalancer |-> 0] /\ clients = pools
  /\ lb = [i \in Iteration |-> <<>>]
  /\ listed = [i \in Iteration |-> {}] /\ seen = listed
  /\ pool = [i \in Iteration |-> 0] /\ client = pool /\ attempts = pool /\ rounds = pool

Lb(i) == lb[i][1]
Set(f, i, v) == f' = [f EXCEPT ![i] = v]

ForgetLocals(i) ==
  /\ Set(lb, i, <<>>) /\ Set(listed, i, {}) /\ Set(seen, i, {})
  /\ Set(pool, i, 0) /\ Set(client, i, 0) /\ Set(attempts, i, 0) /\ Set(rounds, i, 0)
LeaveWorkload(i, next) == Goto(i, next) /\ ForgetLocals(i)

--------------------------------------------------------------------------------
(* Octavia, and the waits and retries around it.                                *)
Accepts(l) == l \in lbs \ pending
Conflict(l) == l \in lbs \cap pending

Settle(l) == /\ l \in pending
             /\ pending' = pending \ {l}
             /\ UNCHANGED <<lockVars, iterationVars, args, lbs, pools, members, sites, choice,
                            counters, history>>

(* Mutant: an error while waiting is not noticed. *)
AwaitActivePolls(i, from, to) ==
  /\ At(i, from)
  /\ \/ Accepts(Lb(i)) /\ Goto(i, to)
     \/ ~Accepts(Lb(i)) /\ UNCHANGED iterationVars
  /\ UNCHANGED <<lockVars, octaviaVars>>

(* wait_for_loadbalancer_prov_status: until it is ACTIVE, or an error. *)
AwaitActive(i, from, to) ==
  /\ At(i, from)
  /\ \/ Accepts(Lb(i)) /\ Goto(i, to)
     \/ Lb(i) \notin lbs /\ Fail(i)
  /\ UNCHANGED <<lockVars, octaviaVars>>

TryAgain(i) == /\ Conflict(Lb(i)) /\ attempts[i] + 1 < MaxAttempts
               /\ Set(attempts, i, attempts[i] + 1)
               /\ UNCHANGED <<iterationVars, balancer, choice, pool, client, rounds, excused>>

(* The loop is left without the change: after the last attempt, or on another error. *)
GivesUp(i) == \/ Conflict(Lb(i)) /\ attempts[i] + 1 >= MaxAttempts
              \/ Lb(i) \notin lbs

--------------------------------------------------------------------------------
(* create_loadbalancers: a router, and for each load balancer two networks, a   *)
(* jump host, the clients, and only then the load balancer.                     *)
LbRouter(i) == /\ At(i, "create_loadbalancers")
               /\ Goto(i, "lb_networks")
               /\ UNCHANGED <<lockVars, octaviaVars>>

LbNetworks(i) ==
  /\ At(i, "lb_networks")
  /\ \/ \E l \in LoadBalancer \ made :
          /\ made' = made \cup {l}
          /\ vips' = vips \cup {l} /\ clientNets' = clientNets \cup {l}
          /\ Set(lb, i, <<l>>)
          /\ Goto(i, "lb_jump")
     \/ made = LoadBalancer /\ Fail(i) /\ UNCHANGED <<made, vips, clientNets, lb>> \* the quota
  /\ UNCHANGED <<lockVars, balancer, jumps, clients, listed, seen, counters, history>>

(* Mutant: the load balancer is created before its clients. *)
LbJumpThenCreate(i) == /\ At(i, "lb_jump")
                       /\ jumps' = jumps \cup {Lb(i)}
                       /\ lbs' = lbs \cup {Lb(i)}
                       /\ Goto(i, "lb_client")
                       /\ UNCHANGED <<lockVars, pending, pools, members, made, vips, clientNets,
                                      clients, choice, counters, history>>
(* build_jump_host *)
LbJump(i) == /\ At(i, "lb_jump")
             /\ jumps' = jumps \cup {Lb(i)}
             /\ Goto(i, "lb_client")
             /\ UNCHANGED <<lockVars, balancer, made, vips, clientNets, clients, choice, counters,
                            history>>

(* create_clients_lb *)
LbClient(i) ==
  /\ At(i, "lb_client")
  /\ clients' = [clients EXCEPT ![Lb(i)] = @ + 1]
  /\ Goto(i, IF clients[Lb(i)] + 1 < NumClients THEN "lb_client" ELSE "lb_create")
  /\ UNCHANGED <<lockVars, balancer, made, vips, clientNets, jumps, choice, counters, history>>

LbCreate(i) == /\ At(i, "lb_create")
               /\ lbs' = lbs \cup {Lb(i)} /\ pending' = pending \cup {Lb(i)}
               /\ Set(pool, i, 1) /\ Set(client, i, 1)
               /\ Goto(i, "lb_wait")
               /\ UNCHANGED <<lockVars, pools, members, sites, choice, attempts, rounds, history>>

LbWait(i) == AwaitActive(i, "lb_wait", "lb_listener")

(* create_listener: after the loop without a listener its variable is unbound. *)
LbListener(i) ==
  /\ At(i, "lb_listener")
  /\ \/ TryAgain(i) /\ UNCHANGED tidied
     \/ GivesUp(i) /\ Fail(i) /\ UNCHANGED <<balancer, choice, counters, history>>
     \/ /\ Accepts(Lb(i))
        /\ pending' = pending \cup {Lb(i)}
        /\ Set(attempts, i, 0)
        /\ Goto(i, "lb_wait_listener")
        /\ UNCHANGED <<lbs, pools, members, choice, pool, client, rounds, history>>
  /\ UNCHANGED <<lockVars, sites>>
LbWaitListener(i) == AwaitActive(i, "lb_wait_listener", "lb_pool")

(* create_pool, likewise. *)
LbPool(i) ==
  /\ At(i, "lb_pool")
  /\ \/ TryAgain(i) /\ UNCHANGED tidied
     \/ GivesUp(i) /\ Fail(i) /\ UNCHANGED <<balancer, choice, counters, history>>
     \/ /\ Accepts(Lb(i))
        /\ pools' = [pools EXCEPT ![Lb(i)] = pool[i]]
        /\ pending' = pending \cup {Lb(i)}
        /\ Set(attempts, i, 0)
        /\ Goto(i, "lb_wait_pool")
        /\ UNCHANGED <<lbs, members, choice, pool, client, rounds, history>>
  /\ UNCHANGED <<lockVars, sites>>
LbWaitPool(i) == AwaitActive(i, "lb_wait_pool", "lb_member")

(* Mutant: one client too many. *)
NextSlotOneMore(i) ==
  /\ Set(attempts, i, 0)
  /\ \/ /\ client[i] <= NumClients /\ Set(client, i, client[i] + 1)
        /\ UNCHANGED <<iterationVars, pool>>
     \/ client[i] > NumClients /\ Set(client, i, 1) /\ Goto(i, "lb_check") /\ UNCHANGED pool

(* The next client of this pool, the next pool, or the check. *)
NextSlot(i) ==
  /\ Set(attempts, i, 0)
  /\ \/ /\ client[i] < NumClients /\ Set(client, i, client[i] + 1)
        /\ UNCHANGED <<iterationVars, pool>>
     \/ /\ client[i] = NumClients
        /\ Set(client, i, 1)
        /\ \/ pool[i] < NumPools /\ Set(pool, i, pool[i] + 1) /\ Goto(i, "lb_listener")
           \/ pool[i] = NumPools /\ Goto(i, "lb_check") /\ UNCHANGED pool

Slot(i) == <<pool[i], client[i]>>
Excuse(i) == excused' = [excused EXCEPT ![Lb(i)] = @ \cup {Slot(i)}]

(* Mutant: a 409 leaves the loop too. *)
LbMemberOnce(i) ==
  /\ At(i, "lb_member")
  /\ \/ Conflict(Lb(i)) /\ NextSlot(i) /\ UNCHANGED <<pending, members, excused>>
     \/ GivesUp(i) /\ NextSlot(i) /\ Excuse(i) /\ UNCHANGED <<pending, members>>
     \/ /\ Accepts(Lb(i))
        /\ members' = [members EXCEPT ![Lb(i)] = @ \cup {Slot(i)}]
        /\ pending' = pending \cup {Lb(i)}
        /\ NextSlot(i) /\ UNCHANGED excused
  /\ UNCHANGED <<lockVars, lbs, pools, sites, choice, rounds, tidied>>

(* create_member: given up, it is passed over. *)
LbMember(i) ==
  /\ At(i, "lb_member")
  /\ \/ TryAgain(i)
     \/ GivesUp(i) /\ NextSlot(i) /\ Excuse(i) /\ UNCHANGED <<pending, members, choice, rounds>>
     \/ /\ Accepts(Lb(i))
        /\ members' = [members EXCEPT ![Lb(i)] = @ \cup {Slot(i)}]
        /\ pending' = pending \cup {Lb(i)}
        /\ NextSlot(i)
        /\ UNCHANGED <<choice, rounds, excused>>
  /\ UNCHANGED <<lockVars, lbs, pools, sites, tidied>>

(* Any error of octavia but 409 is passed over by create_member as well. *)
LbMemberError(i) ==
  /\ At(i, "lb_member")
  /\ faults < MaxFaults
  /\ faults' = faults + 1
  /\ Set(attempts, i, 0)
  /\ Excuse(i)
  /\ \/ client[i] < NumClients /\ Set(client, i, client[i] + 1) /\ UNCHANGED <<pc, pool>>
     \/ /\ client[i] = NumClients /\ Set(client, i, 1)
        /\ \/ pool[i] < NumPools /\ Set(pool, i, pool[i] + 1) /\ Set(pc, i, "lb_listener")
           \/ pool[i] = NumPools /\ Set(pc, i, "lb_check") /\ UNCHANGED pool
  /\ UNCHANGED <<lockVars, selected, balancer, sites, choice, rounds, tidied>>

(* check_connection: a pool answers if it has a member. *)
Answers(l) == l \in lbs /\ \A p \in 1..NumPools : \E c \in 1..NumClients : <<p, c>> \in members[l]
LbCheck(i) == /\ At(i, "lb_check")
              /\ Goto(i, IF Answers(Lb(i)) THEN "lb_unjump" ELSE "failed")
              /\ UNCHANGED <<lockVars, octaviaVars>>

LbUnjump(i) ==
  /\ At(i, "lb_unjump")
  /\ jumps' = jumps \ {Lb(i)}
  /\ IF rounds[i] + 1 < args.num_lbs
     THEN /\ Goto(i, "lb_networks") /\ Set(rounds, i, rounds[i] + 1)
          /\ UNCHANGED <<choice, pool, client, attempts>>
     ELSE LeaveWorkload(i, AfterLbCreate)
  /\ UNCHANGED <<lockVars, balancer, made, vips, clientNets, clients, history>>

CreateLoadBalancers(i) ==
  \/ LbRouter(i) \/ LbNetworks(i) \/ LbJump(i) \/ LbClient(i) \/ LbCreate(i) \/ LbWait(i)
  \/ LbListener(i) \/ LbWaitListener(i) \/ LbPool(i) \/ LbWaitPool(i) \/ LbMember(i)
  \/ LbMemberError(i) \/ LbCheck(i) \/ LbUnjump(i)

--------------------------------------------------------------------------------
(* delete_loadbalancers: one listing, from which each round picks.              *)
DelLbList(i) == /\ At(i, "delete_loadbalancers")
                /\ Set(listed, i, lbs)
                /\ Goto(i, "lb_delete")
                /\ UNCHANGED <<lockVars, balancer, sites, lb, seen, counters, history>>

(* Deleted with its pools, unless it is gone or pending: the error is not caught. *)
DelLb(i) ==
  /\ At(i, "lb_delete")
  /\ \/ \E l \in listed[i] :
          /\ Set(lb, i, <<l>>)
          /\ \/ /\ Accepts(l)
                /\ lbs' = lbs \ {l}
                /\ pools' = [pools EXCEPT ![l] = 0]
                /\ members' = [members EXCEPT ![l] = {}]
                /\ Goto(i, "lb_servers")
             \/ ~Accepts(l) /\ Fail(i) /\ UNCHANGED <<lbs, pools, members>>
     \/ listed[i] = {} /\ Fail(i) /\ UNCHANGED <<lb, lbs, pools, members>>
  /\ UNCHANGED <<lockVars, pending, sites, listed, seen, counters, history>>

(* client[i]: how many servers the listing by tag had. *)
DelLbServers(i) == /\ At(i, "lb_servers")
                   /\ Set(client, i, clients[Lb(i)])
                   /\ clients' = [clients EXCEPT ![Lb(i)] = 0]
                   /\ Goto(i, "lb_vip")
                   /\ UNCHANGED <<lockVars, balancer, made, vips, clientNets, jumps, choice, pool,
                                  attempts, rounds, history>>

(* The router's interface and the network go, unless a jump host is on it. *)
DelLbVip(i) ==
  /\ At(i, "lb_vip")
  /\ \/ /\ Lb(i) \notin jumps
        /\ vips' = vips \ {Lb(i)}
        /\ Set(listed, i, listed[i] \ {Lb(i)})
        /\ Goto(i, "lb_client_net")
     \/ Lb(i) \in jumps /\ Fail(i) /\ UNCHANGED <<vips, listed>>
  /\ UNCHANGED <<lockVars, balancer, made, clientNets, jumps, clients, lb, seen, counters, history>>

(* servers[0].description *)
DelLbClientNet(i) ==
  /\ At(i, "lb_client_net")
  /\ \/ /\ client[i] > 0
        /\ clientNets' = clientNets \ {Lb(i)}
        /\ tidied' = tidied \cup {Lb(i)}
        /\ IF rounds[i] + 1 < args.delete_num_lbs
           THEN Goto(i, "lb_delete") /\ Set(rounds, i, rounds[i] + 1)
                /\ UNCHANGED <<choice, pool, client, attempts>>
           ELSE LeaveWorkload(i, AfterLbDelete)
     \/ client[i] = 0 /\ Fail(i) /\ UNCHANGED <<clientNets, tidied, choice, counters>>
  /\ UNCHANGED <<lockVars, balancer, made, vips, jumps, clients, excused>>

DeleteLoadBalancers(i) ==
  DelLbList(i) \/ DelLb(i) \/ DelLbServers(i) \/ DelLbVip(i) \/ DelLbClientNet(i)

--------------------------------------------------------------------------------
(* delete_members_random_lb: the pools are those of the first listing.          *)
MemPick(i) ==
  /\ At(i, "delete_members_random_lb")
  /\ \/ \E l \in lbs :
          /\ Set(lb, i, <<l>>)
          /\ \E p \in 0..pools[l] : (p = 0 <=> pools[l] = 0) /\ Set(pool, i, p)
          /\ Goto(i, "mem_wait")
     \/ lbs = {} /\ Fail(i) /\ UNCHANGED <<lb, pool>>
  /\ UNCHANGED <<lockVars, balancer, sites, listed, seen, client, attempts, rounds, history>>
MemWait(i) == AwaitActive(i, "mem_wait", IF pool[i] = 0 THEN "failed" ELSE "mem_list")

MembersOf(l, p) == {c \in 1..NumClients : <<p, c>> \in members[l]}
MemList(i) == /\ At(i, "mem_list")
              /\ Set(seen, i, MembersOf(Lb(i), pool[i]))
              /\ Goto(i, IF Lb(i) \in lbs THEN "mem_pick" ELSE "failed")
              /\ UNCHANGED <<lockVars, balancer, sites, lb, listed, counters, history>>

(* A member of the listing, one already deleted too. *)
MemChoose(i) ==
  /\ At(i, "mem_pick")
  /\ \/ \E c \in seen[i] : Set(client, i, c) /\ Goto(i, "mem_delete")
     \/ seen[i] = {} /\ Fail(i) /\ UNCHANGED client
  /\ UNCHANGED <<lockVars, balancer, sites, choice, pool, attempts, rounds, history>>

RoundOver(i) ==
  IF rounds[i] + 1 < args.delete_num_members
  THEN /\ Set(pc, i, "mem_pick")
       /\ Set(rounds, i, rounds[i] + 1) /\ Set(attempts, i, 0)
       /\ UNCHANGED <<choice, pool, client>>
  ELSE Set(pc, i, AfterMembers) /\ ForgetLocals(i)
NextRound(i) == RoundOver(i) /\ UNCHANGED <<selected, faults>>

MemDelete(i) ==
  /\ At(i, "mem_delete")
  /\ \/ TryAgain(i)
     \/ /\ GivesUp(i) \/ (Accepts(Lb(i)) /\ Slot(i) \notin members[Lb(i)])
        /\ NextRound(i)
        /\ UNCHANGED <<pending, members, excused>>
     \/ /\ Accepts(Lb(i)) /\ Slot(i) \in members[Lb(i)]
        /\ members' = [members EXCEPT ![Lb(i)] = @ \ {Slot(i)}]
        /\ pending' = pending \cup {Lb(i)}
        /\ Excuse(i)
        /\ NextRound(i)
  /\ UNCHANGED <<lockVars, lbs, pools, sites, tidied>>

(* Any error of octavia but 409 ends the round too, and the member stays. *)
MemDeleteError(i) ==
  /\ At(i, "mem_delete")
  /\ faults < MaxFaults
  /\ faults' = faults + 1
  /\ RoundOver(i)
  /\ UNCHANGED <<lockVars, selected, balancer, sites, history>>

DeleteMembers(i) == \/ MemPick(i) \/ MemWait(i) \/ MemList(i) \/ MemChoose(i) \/ MemDelete(i)
                    \/ MemDeleteError(i)

OctaviaStep(i) == /\ CreateLoadBalancers(i) \/ DeleteLoadBalancers(i) \/ DeleteMembers(i)
                  /\ UNCHANGED args

--------------------------------------------------------------------------------
(***************************************************************************)
(* A load balancer whose deletion went through to its last step leaves no   *)
(* client, jump host or network, whatever its creator was doing meanwhile,  *)
(* and the deletion never finds it without clients to read the name of the  *)
(* clients' network from.                                                   *)
(***************************************************************************)
DeletionIsWhole ==
  /\ \A l \in tidied : clients[l] = 0 /\ l \notin lbs \cup vips \cup clientNets \cup jumps
  /\ \A i \in Iteration : pc[i] = "lb_client_net" => client[i] > 0

(***************************************************************************)
(* When the creator checks its load balancer, each client is a member of    *)
(* each pool, or its creation failed ten times or on another error (which   *)
(* nothing reports), or another iteration deleted the member; unless the    *)
(* load balancer itself was deleted.                                        *)
(***************************************************************************)
MembersAccountedFor ==
  \A i \in Iteration : pc[i] \in {"lb_check", "lb_unjump"} =>
    Lb(i) \notin lbs \/ Slots \subseteq members[Lb(i)] \cup excused[Lb(i)]
================================================================================
