----------------------------- MODULE TrunkWorkload -----------------------------
(***************************************************************************)
(* The trunk part of the dynamic workloads: pods simulated by the subports *)
(* of a trunk.  Neutron keeps the subports of a trunk in the order they    *)
(* were added, the trunk's VM has a VLAN interface eth0.n for segment n,    *)
(* and the code takes the position of a subport for its segment: subports  *)
(* are added at the end and deleted from the end, under the trunk's lock.  *)
(***************************************************************************)
EXTENDS LockTable, Naturals, Integers, FiniteSets, Sequences

CONSTANTS Existing,        \* trunks earlier iterations left behind, with one subport
          Workloads,       \* the workloads the task selects
          NumPods,         \* trunks one iteration creates
          NumInitial,      \* subports of a new trunk
          NumAddTrunks, NumAdd, NumDeleteTrunks, NumDelete,
          MaxFaults,       \* bound: calls that raise on their own
          MaxLinkErrors    \* bound: commands in a VM that fail 120 times

ASSUME TrunksAssumption == Existing \subseteq Object /\ IsFiniteSet(Existing)
ASSUME CountsAssumption ==
  /\ {NumPods, NumInitial, NumAdd} \subseteq Nat \ {0}
  /\ {NumAddTrunks, NumDeleteTrunks, NumDelete, MaxFaults, MaxLinkErrors} \subseteq Nat

VARIABLES trunks,   \* neutron: the trunks there are
          servers,  \* nova: the trunks whose VM is tagged and ACTIVE
          subports, \* neutron: subports[t], the segments of t's subports in order
          links,    \* links[t]: the VLAN interfaces in the VM of t
          pc, todo, \* todo[i]: the listed trunks not tried yet, in order
          cur,      \* the trunks it works on
          seen,     \* the subports it was shown
          done,     \* subports added or deleted so far
          count,    \* subports to delete from each trunk
          ops,      \* operations completed in the running workload
          faults, linkErrors,
          raced     \* history: another iteration locked a trunk before its creator

cloud == <<trunks, servers, subports, links>>
locals == <<todo, cur, seen, done, count, ops>>
bounds == <<faults, linkErrors>>
vars == <<locked, held, cloud, pc, locals, bounds, raced>>

Least(a, b) == IF a < b THEN a ELSE b

(* The orders in which n members of S can be listed. *)
Arrangements(S, n) == {q \in [1..n -> S] : \A a, b \in 1..n : a # b => q[a] # q[b]}

--------------------------------------------------------------------------------
(* The order run() calls the workloads in, skipping those not selected. *)
AfterDelete == IF "swap_floating_ips_between_random_subports" \in Workloads
               THEN "swap_list" ELSE "done"
AfterAdd == IF "delete_subports_from_random_trunks" \in Workloads
            THEN "delete_list" ELSE AfterDelete
AfterPods == IF "add_subports_to_random_trunks" \in Workloads THEN "add_list" ELSE AfterAdd
First == IF "pod_fip_simulation" \in Workloads THEN "pod_create" ELSE AfterPods

Stopped == {"done", "failed"}
LocalPoints == Stopped \cup {"pod_acquire", "pod_release", "add_loop", "add_release",
  "delete_loop", "delete_release", "swap_loop", "swap_release_1", "swap_release_2"}
CallPoints == {"pod_create", "pod_boot", "pod_subport", "pod_link", "pod_simulate", "add_list",
  "add_show", "add_server", "add_subport", "add_link", "add_simulate", "delete_list",
  "delete_show", "delete_server", "delete_link", "delete_subport", "delete_simulate", "swap_list",
  "swap_server", "swap_route"}

TypeOK == /\ LockTypeOK
          /\ {trunks, servers} \subseteq SUBSET Object
          /\ subports \in [Object -> Seq(Nat)]
          /\ links \in [Object -> SUBSET Nat]
          /\ pc \in [Iteration -> LocalPoints \cup CallPoints]
          /\ todo \in [Iteration -> Seq(Object)]
          /\ cur \in [Iteration -> Seq(Object)]
          /\ seen \in [Iteration -> Seq(Nat)]
          /\ {done, count, ops} \subseteq [Iteration -> Nat]
          /\ {faults, linkErrors} \subseteq Nat
          /\ raced \in BOOLEAN

Init == /\ LockInit
        /\ trunks = Existing
        /\ servers = Existing
        /\ subports = [t \in Object |-> IF t \in Existing THEN <<1>> ELSE <<>>]
        /\ links = [t \in Object |-> IF t \in Existing THEN {1} ELSE {}]
        /\ pc = [i \in Iteration |-> First]
        /\ todo = [i \in Iteration |-> <<>>]
        /\ cur = [i \in Iteration |-> <<>>]
        /\ seen = [i \in Iteration |-> <<>>]
        /\ done = [i \in Iteration |-> 0]
        /\ count = [i \in Iteration |-> 0]
        /\ ops = [i \in Iteration |-> 0]
        /\ faults = 0 /\ linkErrors = 0
        /\ raced = FALSE

Goto(i, l) == pc' = [pc EXCEPT ![i] = l]

Return(i, l) == /\ Goto(i, l)
                /\ todo' = [todo EXCEPT ![i] = <<>>]
                /\ cur' = [cur EXCEPT ![i] = <<>>]
                /\ seen' = [seen EXCEPT ![i] = <<>>]
                /\ done' = [done EXCEPT ![i] = 0]
                /\ count' = [count EXCEPT ![i] = 0]
                /\ ops' = [ops EXCEPT ![i] = 0]

Mine(i) == cur[i][1]
SegmentsOf(t) == {subports[t][n] : n \in DOMAIN subports[t]}
ListedCount(t) == Len(subports[t])

--------------------------------------------------------------------------------
(* Any call may raise: the iteration is over, its locks stay. *)
Raise(i) ==
  /\ pc[i] \in CallPoints
  /\ faults < MaxFaults
  /\ faults' = faults + 1
  /\ Goto(i, "failed")
  /\ UNCHANGED <<locked, held, cloud, locals, linkErrors, raced>>

List(i, from, S, n, loop) ==
  /\ pc[i] = from
  /\ todo' \in {[todo EXCEPT ![i] = q] : q \in Arrangements(S, n)}
  /\ Goto(i, loop)
  /\ UNCHANGED <<locked, held, cloud, cur, seen, done, ops, bounds, raced>>

(* Mutant: what acquire_lock returns is not looked at. *)
TryTrunkUnchecked(i, loop, body) ==
  /\ pc[i] = loop
  /\ todo[i] # <<>>
  /\ todo' = [todo EXCEPT ![i] = Tail(@)]
  /\ Refused(Head(todo[i])) \/ Acquired(i, Head(todo[i]))
  /\ cur' = [cur EXCEPT ![i] = Append(@, Head(todo[i]))]
  /\ Goto(i, body)
  /\ UNCHANGED <<cloud, seen, done, count, ops, bounds, raced>>

(* The next listed trunk, skipped when it is locked. *)
TryTrunk(i, loop, body) ==
  /\ pc[i] = loop
  /\ todo[i] # <<>>
  /\ todo' = [todo EXCEPT ![i] = Tail(@)]
  /\ \/ Refused(Head(todo[i])) /\ UNCHANGED <<pc, cur>>
     \/ /\ Acquired(i, Head(todo[i]))
        /\ cur' = [cur EXCEPT ![i] = Append(@, Head(todo[i]))]
        /\ Goto(i, body)
  /\ UNCHANGED <<cloud, seen, done, count, ops, bounds, raced>>

ShowTrunk(i, from, to) ==
  /\ pc[i] = from
  /\ seen' = [seen EXCEPT ![i] = subports[Mine(i)]]
  /\ done' = [done EXCEPT ![i] = 0]
  /\ Goto(i, to)
  /\ UNCHANGED <<locked, held, cloud, todo, cur, count, ops, bounds, raced>>

(* get_server_by_trunk takes the first server with the tag: there must be one. *)
FindServer(i, from, to) ==
  /\ pc[i] = from
  /\ Goto(i, IF \A n \in DOMAIN cur[i] : cur[i][n] \in servers THEN to ELSE "failed")
  /\ UNCHANGED <<locked, held, cloud, locals, bounds, raced>>

(* simulate_subport_connection: random.randint(1, 0) raises. *)
Simulate(i, from, to) ==
  /\ pc[i] = from
  /\ Goto(i, IF subports[Mine(i)] # <<>> THEN to ELSE "failed")
  /\ UNCHANGED <<locked, held, cloud, locals, bounds, raced>>

ReleaseTrunk(i, from, loop) ==
  /\ pc[i] = from
  /\ Release(i, Mine(i))
  /\ cur' = [cur EXCEPT ![i] = <<>>]
  /\ ops' = [ops EXCEPT ![i] = @ + 1]
  /\ Goto(i, loop)
  /\ UNCHANGED <<cloud, todo, seen, done, count, bounds, raced>>

Finish(i, loop, limit, next) ==
  /\ pc[i] = loop
  /\ todo[i] = <<>> \/ ops[i] >= limit
  /\ Return(i, next)
  /\ UNCHANGED <<locked, held, cloud, bounds, raced>>

--------------------------------------------------------------------------------
(* add_subports_to_trunk_and_vm, a subport and then its interface at a time. *)
Segment(i) == Len(seen[i]) + done[i] + 1

(* Neutron refuses a segment that is in use. *)
AttachSubport(i, from, to) ==
  /\ pc[i] = from
  /\ IF Segment(i) \notin SegmentsOf(Mine(i))
     THEN subports' = [subports EXCEPT ![Mine(i)] = Append(@, Segment(i))] /\ Goto(i, to)
     ELSE UNCHANGED subports /\ Goto(i, "failed")
  /\ UNCHANGED <<locked, held, trunks, servers, links, locals, bounds, raced>>

(* A command that fails 120 times is only logged. *)
Links(i, change) ==
  \/ links' = [links EXCEPT ![Mine(i)] = change] /\ UNCHANGED linkErrors
  \/ linkErrors < MaxLinkErrors /\ linkErrors' = linkErrors + 1 /\ UNCHANGED links

AddLink(i, from, again, total, to) ==
  /\ pc[i] = from
  /\ Links(i, links[Mine(i)] \cup {Segment(i)})
  /\ done' = [done EXCEPT ![i] = @ + 1]
  /\ Goto(i, IF done[i] + 1 < total THEN again ELSE to)
  /\ UNCHANGED <<locked, held, trunks, servers, subports, todo, cur, seen, count, ops,
                 faults, raced>>

--------------------------------------------------------------------------------
(* pod_fip_simulation: what acquire_lock returns is not looked at. *)
PodCreate(i) ==
  /\ pc[i] = "pod_create"
  /\ \E t \in Object \ trunks :
       /\ trunks' = trunks \cup {t}
       /\ cur' = [cur EXCEPT ![i] = <<t>>]
  /\ Goto(i, "pod_acquire")
  /\ UNCHANGED <<locked, held, servers, subports, links, todo, seen, done, count, ops, bounds,
                 raced>>

PodAcquire(i) ==
  /\ pc[i] = "pod_acquire"
  /\ \/ Acquired(i, Mine(i)) /\ UNCHANGED raced
     \/ Refused(Mine(i)) /\ raced' = TRUE
  /\ Goto(i, "pod_boot")
  /\ UNCHANGED <<cloud, locals, bounds>>

PodBoot(i) ==
  /\ pc[i] = "pod_boot"
  /\ servers' = servers \cup {Mine(i)}
  /\ seen' = [seen EXCEPT ![i] = <<>>]
  /\ done' = [done EXCEPT ![i] = 0]
  /\ Goto(i, "pod_subport")
  /\ UNCHANGED <<locked, held, trunks, subports, links, todo, cur, count, ops, bounds, raced>>

PodSubport(i) == AttachSubport(i, "pod_subport", "pod_link")
PodLink(i) == AddLink(i, "pod_link", "pod_subport", NumInitial, "pod_simulate")
PodSimulate(i) == Simulate(i, "pod_simulate", "pod_release")

PodRelease(i) ==
  /\ pc[i] = "pod_release"
  /\ Release(i, Mine(i))
  /\ IF ops[i] + 1 < NumPods
     THEN /\ Goto(i, "pod_create")
          /\ ops' = [ops EXCEPT ![i] = @ + 1]
          /\ UNCHANGED <<todo, cur, seen, done, count>>
     ELSE Return(i, AfterPods)
  /\ UNCHANGED <<cloud, bounds, raced>>

PodFipSimulation(i) == \/ PodCreate(i) \/ PodAcquire(i) \/ PodBoot(i) \/ PodSubport(i)
                       \/ PodLink(i) \/ PodSimulate(i) \/ PodRelease(i)

--------------------------------------------------------------------------------
(* add_subports_to_random_trunks *)
AddList(i) == /\ List(i, "add_list", trunks, Least(2 * NumAddTrunks, Cardinality(trunks)),
                      "add_loop")
              /\ UNCHANGED count
AddTry(i) == ops[i] < NumAddTrunks /\ TryTrunk(i, "add_loop", "add_show")
AddShow(i) == ShowTrunk(i, "add_show", "add_server")
AddServer(i) == FindServer(i, "add_server", "add_subport")
AddSubport(i) == AttachSubport(i, "add_subport", "add_link")
AddVlan(i) == AddLink(i, "add_link", "add_subport", NumAdd, "add_simulate")
AddSimulate(i) == Simulate(i, "add_simulate", "add_release")
AddRelease(i) == ReleaseTrunk(i, "add_release", "add_loop")
AddFinish(i) == Finish(i, "add_loop", NumAddTrunks, AfterAdd)

AddSubports(i) == \/ AddList(i) \/ AddTry(i) \/ AddShow(i) \/ AddServer(i) \/ AddSubport(i)
                  \/ AddVlan(i) \/ AddSimulate(i) \/ AddRelease(i) \/ AddFinish(i)

--------------------------------------------------------------------------------
(* Mutant: as many subports as every trunk has beyond those wanted. *)
DeleteListBeyond(i) ==
  /\ List(i, "delete_list", trunks, Least(2 * NumDeleteTrunks, Cardinality(trunks)), "delete_loop")
  /\ count' = [count EXCEPT ![i] = ListedCount(todo'[i][1]) - NumDelete]

(* delete_subports_from_random_trunks: trunks with enough subports, or else the *)
(* fullest ones, and as many subports as the last of them was listed with.      *)
DeleteList(i) ==
  LET eligible == {t \in trunks : ListedCount(t) >= NumDelete}
      n == Least(2 * NumDeleteTrunks, Cardinality(trunks))
      Fullest(q) == /\ \A a, b \in 1..n : a < b => ListedCount(q[a]) >= ListedCount(q[b])
                    /\ \A t \in trunks \ {q[a] : a \in 1..n} :
                         \A a \in 1..n : ListedCount(q[a]) >= ListedCount(t)
  IN /\ pc[i] = "delete_list"
     /\ \/ /\ Cardinality(eligible) >= n
           /\ List(i, "delete_list", eligible, n, "delete_loop")
           /\ count' = [count EXCEPT ![i] = NumDelete]
        \/ /\ Cardinality(eligible) < n
           /\ List(i, "delete_list", trunks, n, "delete_loop")
           /\ Fullest(todo'[i])
           /\ count' = [count EXCEPT ![i] = ListedCount(todo'[i][n])]

DeleteTry(i) == ops[i] < NumDeleteTrunks /\ TryTrunk(i, "delete_loop", "delete_show")

DeleteShow(i) == ShowTrunk(i, "delete_show", "delete_server")
DeleteServer(i) ==
  FindServer(i, "delete_server", IF count[i] > 0 THEN "delete_link" ELSE "delete_simulate")

(* Mutant: subports are deleted from the first one. *)
SubportNumberUp(i) == done[i]

(* subport_number counts down from the last and may pass below 0. *)
SubportNumber(i) == Len(seen[i]) - 1 - done[i]
Position(i) == IF SubportNumber(i) >= 0 THEN SubportNumber(i) + 1
               ELSE Len(seen[i]) + SubportNumber(i) + 1
PortThere(i) == /\ Position(i) \in DOMAIN seen[i]
                /\ seen[i][Position(i)] \in SegmentsOf(Mine(i))

(* show_port raises when the port is gone; the interface goes first. *)
DeleteLink(i) ==
  /\ pc[i] = "delete_link"
  /\ \/ /\ PortThere(i)
        /\ Links(i, links[Mine(i)] \ {SubportNumber(i) + 1})
        /\ Goto(i, "delete_subport")
     \/ /\ ~PortThere(i)
        /\ Goto(i, "failed")
        /\ UNCHANGED <<links, linkErrors>>
  /\ UNCHANGED <<locked, held, trunks, servers, subports, locals, faults, raced>>

(* Neutron's subports without one of them; no two have one segment.             *)
Without(seq, segment) ==
  IF \E n \in DOMAIN seq : seq[n] = segment
  THEN LET n == CHOOSE n \in DOMAIN seq : seq[n] = segment
       IN SubSeq(seq, 1, n - 1) \o SubSeq(seq, n + 1, Len(seq))
  ELSE seq

DeleteSubport(i) ==
  /\ pc[i] = "delete_subport"
  /\ subports' = [subports EXCEPT ![Mine(i)] = Without(@, seen[i][Position(i)])]
  /\ done' = [done EXCEPT ![i] = @ + 1]
  /\ Goto(i, IF done[i] + 1 < count[i] THEN "delete_link" ELSE "delete_simulate")
  /\ UNCHANGED <<locked, held, trunks, servers, links, todo, cur, seen, count, ops, bounds, raced>>

(* The connection is simulated if a subport is left. *)
DeleteSimulate(i) ==
  /\ pc[i] = "delete_simulate"
  /\ Goto(i, "delete_release")
  /\ UNCHANGED <<locked, held, cloud, locals, bounds, raced>>

DeleteRelease(i) == ReleaseTrunk(i, "delete_release", "delete_loop")
DeleteFinish(i) == Finish(i, "delete_loop", NumDeleteTrunks, AfterDelete)

DeleteSubports(i) ==
  \/ DeleteList(i) \/ DeleteTry(i) \/ DeleteShow(i) \/ DeleteServer(i) \/ DeleteLink(i)
  \/ DeleteSubport(i) \/ DeleteSimulate(i) \/ DeleteRelease(i) \/ DeleteFinish(i)

--------------------------------------------------------------------------------
(* swap_floating_ips_between_random_subports *)
SwapList(i) ==
  LET eligible == {t \in trunks : subports[t] # <<>>}
  IN /\ pc[i] = "swap_list"
     /\ \/ /\ Cardinality(eligible) >= 2
           /\ List(i, "swap_list", eligible, Cardinality(eligible), "swap_loop")
           /\ UNCHANGED count
        \/ /\ Cardinality(eligible) < 2
           /\ Return(i, "done")
           /\ UNCHANGED <<locked, held, cloud, bounds, raced>>

SwapTry(i) == TryTrunk(i, "swap_loop", IF Len(cur[i]) = 1 THEN "swap_server" ELSE "swap_loop")

(* Mutant: nothing is released, as in the swap of servers. *)
SwapShortLeaks(i) ==
  /\ pc[i] = "swap_loop"
  /\ todo[i] = <<>>
  /\ Return(i, "done")
  /\ UNCHANGED <<locked, held, cloud, bounds, raced>>

(* Fewer than two could be locked: what was locked is released. *)
SwapShort(i) ==
  /\ pc[i] = "swap_loop"
  /\ todo[i] = <<>>
  /\ IF cur[i] = <<>> THEN UNCHANGED lockVars ELSE Release(i, Mine(i))
  /\ Return(i, "done")
  /\ UNCHANGED <<cloud, bounds, raced>>

(* show_trunk of both, and their servers. *)
SwapServer(i) == FindServer(i, "swap_server", "swap_route")

(* A random subport of each trunk and a route through it; the addresses are     *)
(* created, dissociated, exchanged, pinged and deleted again.                   *)
SwapRoute(i) ==
  /\ pc[i] = "swap_route"
  /\ Goto(i, IF \A n \in 1..2 : subports[cur[i][n]] # <<>> THEN "swap_release_1" ELSE "failed")
  /\ UNCHANGED <<locked, held, cloud, locals, bounds, raced>>

SwapRelease1(i) == /\ pc[i] = "swap_release_1"
                   /\ Release(i, cur[i][1])
                   /\ Goto(i, "swap_release_2")
                   /\ UNCHANGED <<cloud, locals, bounds, raced>>
SwapRelease2(i) == /\ pc[i] = "swap_release_2"
                   /\ Release(i, cur[i][2])
                   /\ Return(i, "done")
                   /\ UNCHANGED <<cloud, bounds, raced>>

SwapSubportIps(i) == \/ SwapList(i) \/ SwapTry(i) \/ SwapShort(i) \/ SwapServer(i)
                     \/ SwapRoute(i) \/ SwapRelease1(i) \/ SwapRelease2(i)

--------------------------------------------------------------------------------
Step(i) == PodFipSimulation(i) \/ AddSubports(i) \/ DeleteSubports(i) \/ SwapSubportIps(i)

AllStopped == \A i \in Iteration : pc[i] \in Stopped
Terminated == AllStopped /\ UNCHANGED vars

Next == (\E i \in Iteration : Step(i) \/ Raise(i)) \/ Terminated

Spec == Init /\ [][Next]_vars

--------------------------------------------------------------------------------
(* The trunks an iteration is at work on. *)
PodPoints == {"pod_boot", "pod_subport", "pod_link", "pod_simulate", "pod_release"}
OnePoints == {"add_show", "add_server", "add_subport", "add_link", "add_simulate", "add_release",
  "delete_show", "delete_server", "delete_link", "delete_subport", "delete_simulate",
  "delete_release"}
TwoPoints == {"swap_loop", "swap_server", "swap_route", "swap_release_1"}
Working(i) == CASE pc[i] \in PodPoints \cup OnePoints -> {Mine(i)}
                [] pc[i] \in TwoPoints -> {cur[i][n] : n \in DOMAIN cur[i]}
                [] pc[i] = "swap_release_2" -> {cur[i][2]}
                [] OTHER -> {}

(***************************************************************************)
(* Two iterations never work on one trunk at the same time: the purpose of *)
(* acquire_lock, whose answer pod_fip_simulation does not look at.         *)
(***************************************************************************)
TrunkExclusion == \A i, j \in Iteration : i # j => Working(i) \cap Working(j) = {}

(***************************************************************************)
(* They do not as long as no trunk was locked by another iteration between *)
(* its creation and its creator's lock; and an iteration that ran to its   *)
(* end then holds no trunk, whichever early return of the four workloads   *)
(* it took.                                                                *)
(***************************************************************************)
LocksWorkUnlessRaced ==
  raced \/ /\ TrunkExclusion
           /\ \A i \in Iteration : pc[i] = "done" => held[i] = {}

(***************************************************************************)
(* Whoever finds a trunk free finds its subports numbered 1 to n in order  *)
(* and, unless a command failed in its VM, an interface for each of them   *)
(* and no other: what the next addition and deletion compute segments from.*)
(***************************************************************************)
FreeTrunksNumbered ==
  raced \/ \A t \in trunks \ locked :
    /\ \A n \in DOMAIN subports[t] : subports[t][n] = n
    /\ linkErrors = 0 => links[t] = DOMAIN subports[t]
================================================================================
