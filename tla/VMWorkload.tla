------------------------------- MODULE VMWorkload ------------------------------
(***************************************************************************)
(* The VM part of the dynamic workloads: iterations of one Rally task that *)
(* run at the same time, boot servers, and then delete, migrate, stop and  *)
(* start servers of EVERY iteration and swap their floating IPs, guarded   *)
(* only by the lock table.  One action per call of an OpenStack service,   *)
(* because another iteration may run between any two of them.              *)
(***************************************************************************)
EXTENDS LockTable, Naturals, FiniteSets, Sequences

CONSTANTS Plain,        \* servers tagged create_delete
          Addressed,    \* servers tagged migrate_swap_or_stopstart
          Existing,     \* servers earlier iterations left behind
          Workloads,    \* the workloads the task selects
          NumCreate, NumDelete, NumFip, NumMigrate, NumStopStart,
          MaxFaults,    \* bound: OpenStack calls that fail on their own
          NoFip         \* no floating IP

ASSUME ServersAssumption == /\ Object = Plain \cup Addressed
                            /\ Plain \cap Addressed = {}
                            /\ Existing \subseteq Object
ASSUME FipAssumption == NoFip \notin Addressed
ASSUME CountsAssumption ==
  /\ NumCreate \in Nat \ {0} /\ NumFip \in Nat \ {0}
  /\ {NumDelete, NumMigrate, NumStopStart, MaxFaults} \subseteq Nat
ASSUME WorkloadsAssumption ==
  Workloads \subseteq {"create_delete_servers", "migrate_servers",
                       "swap_floating_ips_between_servers", "stop_start_servers"}

VARIABLES status,   \* nova: status[s]
          address,  \* neutron: the floating IP associated to the port of s
          pc,       \* where each iteration is
          todo,     \* the listed servers it has not tried yet, as listed
          cur,      \* the servers it works on, with what it believes of them
          ops,      \* operations completed in the running workload
          faults

localVars == <<pc, todo, cur, ops>>
cloud == <<status, address>>
vars == <<locked, held, status, address, pc, todo, cur, ops, faults>>

Fip == Addressed \cup {NoFip} \* a floating IP is named for the server it was made for
Status == {"absent", "ACTIVE", "RESIZE", "VERIFY_RESIZE", "SHUTOFF", "deleted"}
Entry == [srv : Object, fip : Fip]

Least(a, b) == IF a < b THEN a ELSE b

--------------------------------------------------------------------------------
(* The order run() calls the workloads in, skipping those not selected. *)
AfterStopStart == "done"
AfterSwap == IF "stop_start_servers" \in Workloads THEN "stop_list" ELSE AfterStopStart
AfterMigrate ==
  IF "swap_floating_ips_between_servers" \in Workloads THEN "swap_list" ELSE AfterSwap
AfterBootFip == IF "migrate_servers" \in Workloads THEN "migrate_list" ELSE AfterMigrate
AfterDelete == IF Workloads \ {"create_delete_servers"} # {} THEN "boot_fip" ELSE "done"
First == IF "create_delete_servers" \in Workloads THEN "boot" ELSE AfterDelete

Stopped == {"done", "failed"}

(* Points with no OpenStack call outstanding: local steps and lock table calls. *)
LocalPoints == Stopped \cup
  {"delete_loop", "delete_release", "migrate_loop", "migrate_release", "stop_acquire",
   "stop_release", "swap_release_1", "swap_release_2"}
CallPoints ==
  {"boot", "boot_fip", "boot_attach", "boot_ping", "delete_list", "delete_show", "delete_call",
   "migrate_list", "migrate_ping_before", "migrate_call", "migrate_wait", "migrate_confirm",
   "migrate_ping_after", "swap_list", "swap_loop", "swap_off_1", "swap_off_2", "swap_down_1",
   "swap_down_2", "swap_on_1", "swap_on_2", "swap_up_1", "swap_up_2", "stop_list", "stop_loop",
   "stop_call", "stop_down", "stop_start", "stop_up"}
RaisingPoints == CallPoints \ {"delete_show"} \* the show has a handler of its own
Points == LocalPoints \cup CallPoints

TypeOK == /\ LockTypeOK
          /\ status \in [Object -> Status]
          /\ address \in [Object -> Fip]
          /\ pc \in [Iteration -> Points]
          /\ todo \in [Iteration -> SUBSET Entry]
          /\ cur \in [Iteration -> Seq(Entry)]
          /\ ops \in [Iteration -> Nat]
          /\ faults \in Nat

Init == /\ LockInit
        /\ status = [s \in Object |-> IF s \in Existing THEN "ACTIVE" ELSE "absent"]
        /\ address = [s \in Object |-> IF s \in Existing \cap Addressed THEN s ELSE NoFip]
        /\ pc = [i \in Iteration |-> First]
        /\ todo = [i \in Iteration |-> {}]
        /\ cur = [i \in Iteration |-> <<>>]
        /\ ops = [i \in Iteration |-> 0]
        /\ faults = 0

Goto(i, l) == pc' = [pc EXCEPT ![i] = l]

(* The workload's method returns: its locals are gone, its locks are not. *)
Return(i, l) == /\ Goto(i, l)
                /\ todo' = [todo EXCEPT ![i] = {}]
                /\ cur' = [cur EXCEPT ![i] = <<>>]
                /\ ops' = [ops EXCEPT ![i] = 0]

Mine(i) == cur[i][1]

--------------------------------------------------------------------------------
(* The cloud, as far as the workloads can tell. *)

Reachable(f) == /\ f # NoFip
                /\ \E s \in Addressed : address[s] = f /\ status[s] \in {"ACTIVE", "VERIFY_RESIZE"}

(* A call nova accepts only in status `before`; refused, it raises. *)
NovaCall(i, s, from, before, after, to) ==
  /\ pc[i] = from
  /\ IF status[s] = before
     THEN status' = [status EXCEPT ![s] = after] /\ Goto(i, to)
     ELSE UNCHANGED status /\ Goto(i, "failed")
  /\ UNCHANGED <<locked, held, address, todo, cur, ops, faults>>

(* _wait_for_ping and _wait_for_ping_failure return, or time out and raise. *)
AwaitPing(i, f, up, from, to) ==
  /\ pc[i] = from
  /\ Goto(i, IF Reachable(f) = up THEN to ELSE "failed")
  /\ UNCHANGED <<locked, held, status, address, todo, cur, ops, faults>>

(* update_floatingip with no port. *)
Dissociate(i, f, from, to) ==
  /\ pc[i] = from
  /\ address' = [s \in Object |-> IF address[s] = f THEN NoFip ELSE address[s]]
  /\ Goto(i, to)
  /\ UNCHANGED <<locked, held, status, todo, cur, ops, faults>>

(* update_floatingip with a port: neutron refuses a port that has another one. *)
Associate(i, f, s, from, to) ==
  /\ pc[i] = from
  /\ IF address[s] \in {NoFip, f}
     THEN /\ address' = [t \in Object |-> IF t = s THEN f
                                          ELSE IF address[t] = f THEN NoFip ELSE address[t]]
          /\ Goto(i, to)
     ELSE UNCHANGED address /\ Goto(i, "failed")
  /\ UNCHANGED <<locked, held, status, todo, cur, ops, faults>>

(* Mutant: a finally clause releases what the iteration has locked. *)
RaiseFinally(i) ==
  /\ pc[i] \in RaisingPoints
  /\ faults < MaxFaults
  /\ faults' = faults + 1
  /\ Goto(i, "failed")
  /\ locked' = locked \ held[i]
  /\ held' = [held EXCEPT ![i] = {}]
  /\ UNCHANGED <<status, address, todo, cur, ops>>

(* Any call may fail on its own; where the exception is not caught it ends the *)
(* iteration, locks stay.                                                      *)
Raise(i) ==
  /\ pc[i] \in RaisingPoints
  /\ faults < MaxFaults
  /\ faults' = faults + 1
  /\ Goto(i, "failed")
  /\ UNCHANGED <<locked, held, status, address, todo, cur, ops>>

(* The next listed server: under another's lock it is skipped, else it is taken. *)
TryListed(i, loop, body) ==
  /\ pc[i] = loop
  /\ \E e \in todo[i] :
       /\ todo' = [todo EXCEPT ![i] = @ \ {e}]
       /\ \/ Refused(e.srv) /\ UNCHANGED <<pc, cur>>
          \/ /\ Acquired(i, e.srv)
             /\ cur' = [cur EXCEPT ![i] = <<e>>]
             /\ Goto(i, body)
  /\ UNCHANGED <<status, address, ops, faults>>

(* One operation is complete. *)
ReleaseListed(i, from, loop) ==
  /\ pc[i] = from
  /\ Release(i, Mine(i).srv)
  /\ ops' = [ops EXCEPT ![i] = @ + 1]
  /\ cur' = [cur EXCEPT ![i] = <<>>]
  /\ Goto(i, loop)
  /\ UNCHANGED <<status, address, todo, faults>>

(* The loop ends with the list or with enough operations completed. *)
Finish(i, loop, limit, next) ==
  /\ pc[i] = loop
  /\ todo[i] = {} \/ ops[i] >= limit
  /\ Return(i, next)
  /\ UNCHANGED <<locked, held, status, address, faults>>

(* random.sample of n of the eligible servers, remembered as they were listed. *)
Sample(i, from, eligible, n, loop) ==
  /\ pc[i] = from
  /\ \E S \in SUBSET eligible :
       /\ Cardinality(S) = Least(n, Cardinality(eligible))
       /\ todo' = [todo EXCEPT ![i] = {[srv |-> s, fip |-> address[s]] : s \in S}]
  /\ Goto(i, loop)
  /\ UNCHANGED <<locked, held, status, address, cur, ops, faults>>

ActiveOf(tagged) == {s \in tagged : status[s] = "ACTIVE"}
WithFip == {s \in ActiveOf(Addressed) : address[s] # NoFip}

--------------------------------------------------------------------------------
(* boot_servers and delete_random_servers *)

BootServer(i) ==
  /\ pc[i] = "boot"
  /\ \E s \in Plain : status[s] = "absent" /\ status' = [status EXCEPT ![s] = "ACTIVE"]
  /\ \/ /\ ops[i] + 1 < NumCreate
        /\ ops' = [ops EXCEPT ![i] = @ + 1]
        /\ UNCHANGED <<pc, todo, cur>>
     \/ /\ ops[i] + 1 >= NumCreate
        /\ Return(i, "delete_list")
  /\ UNCHANGED <<locked, held, address, faults>>

DeleteList(i) == Sample(i, "delete_list", ActiveOf(Plain), NumDelete, "delete_loop")
DeleteTry(i) == TryListed(i, "delete_loop", "delete_show")

(* Mutant: the server is deleted as it was listed. *)
DeleteShowBlind(i) ==
  /\ pc[i] = "delete_show"
  /\ Goto(i, "delete_call")
  /\ UNCHANGED <<locked, held, status, address, todo, cur, ops, faults>>

(* The show did not answer, whatever the reason: the server is passed over. *)
PassOver(i) == /\ Release(i, Mine(i).srv)
               /\ cur' = [cur EXCEPT ![i] = <<>>]
               /\ Goto(i, "delete_loop")

(* The server may have been deleted since it was listed; the handler takes any *)
(* failure of the show for that.                                               *)
DeleteShow(i) ==
  /\ pc[i] = "delete_show"
  /\ \/ /\ status[Mine(i).srv] # "deleted"
        /\ Goto(i, "delete_call")
        /\ UNCHANGED <<locked, held, cur, faults>>
     \/ /\ status[Mine(i).srv] = "deleted"
        /\ PassOver(i)
        /\ UNCHANGED faults
     \/ /\ faults < MaxFaults
        /\ PassOver(i)
        /\ faults' = faults + 1
  /\ UNCHANGED <<status, address, todo, ops>>

DeleteCall(i) == NovaCall(i, Mine(i).srv, "delete_call", "ACTIVE", "deleted", "delete_release")
DeleteRelease(i) == ReleaseListed(i, "delete_release", "delete_loop")
DeleteFinish(i) ==
  /\ pc[i] = "delete_loop"
  /\ todo[i] = {}
  /\ Return(i, AfterDelete)
  /\ UNCHANGED <<locked, held, status, address, faults>>

DeleteServers(i) == \/ BootServer(i) \/ DeleteList(i) \/ DeleteTry(i) \/ DeleteShow(i)
                    \/ DeleteCall(i) \/ DeleteRelease(i) \/ DeleteFinish(i)

--------------------------------------------------------------------------------
(* boot_servers_with_fip: no lock is taken on a server being prepared. *)

BootWithFip(i) ==
  /\ pc[i] = "boot_fip"
  /\ \E s \in Addressed :
       /\ status[s] = "absent"
       /\ status' = [status EXCEPT ![s] = "ACTIVE"]
       /\ cur' = [cur EXCEPT ![i] = <<[srv |-> s, fip |-> s]>>]
  /\ Goto(i, "boot_attach")
  /\ UNCHANGED <<locked, held, address, todo, ops, faults>>

BootAttach(i) == Associate(i, Mine(i).fip, Mine(i).srv, "boot_attach", "boot_ping")

BootPing(i) ==
  /\ pc[i] = "boot_ping"
  /\ \/ /\ ~Reachable(Mine(i).fip)
        /\ Goto(i, "failed")
        /\ UNCHANGED <<todo, cur, ops>>
     \/ /\ Reachable(Mine(i).fip)
        /\ ops[i] + 1 < NumFip
        /\ ops' = [ops EXCEPT ![i] = @ + 1]
        /\ cur' = [cur EXCEPT ![i] = <<>>]
        /\ Goto(i, "boot_fip")
        /\ UNCHANGED todo
     \/ /\ Reachable(Mine(i).fip)
        /\ ops[i] + 1 >= NumFip
        /\ Return(i, AfterBootFip)
  /\ UNCHANGED <<locked, held, status, address, faults>>

BootServersWithFip(i) == BootWithFip(i) \/ BootAttach(i) \/ BootPing(i)

--------------------------------------------------------------------------------
(* migrate_servers_with_fip: the address pinged is the one of the listing. *)

MigrateList(i) == Sample(i, "migrate_list", WithFip, 2 * NumMigrate, "migrate_loop")
MigrateTry(i) == /\ ops[i] < NumMigrate
                 /\ TryListed(i, "migrate_loop", "migrate_ping_before")
MigratePingBefore(i) == AwaitPing(i, Mine(i).fip, TRUE, "migrate_ping_before", "migrate_call")
MigrateCall(i) == NovaCall(i, Mine(i).srv, "migrate_call", "ACTIVE", "RESIZE", "migrate_wait")
MigrateWait(i) ==
  NovaCall(i, Mine(i).srv, "migrate_wait", "RESIZE", "VERIFY_RESIZE", "migrate_confirm")
MigrateConfirm(i) ==
  NovaCall(i, Mine(i).srv, "migrate_confirm", "VERIFY_RESIZE", "ACTIVE", "migrate_ping_after")
MigratePingAfter(i) == AwaitPing(i, Mine(i).fip, TRUE, "migrate_ping_after", "migrate_release")
MigrateRelease(i) == ReleaseListed(i, "migrate_release", "migrate_loop")
MigrateFinish(i) == Finish(i, "migrate_loop", NumMigrate, AfterMigrate)

MigrateServers(i) == \/ MigrateList(i) \/ MigrateTry(i) \/ MigratePingBefore(i) \/ MigrateCall(i)
                     \/ MigrateWait(i) \/ MigrateConfirm(i) \/ MigratePingAfter(i)
                     \/ MigrateRelease(i) \/ MigrateFinish(i)

--------------------------------------------------------------------------------
(* swap_floating_ips_between_servers: ports and addresses are those listed. *)

SwapList(i) ==
  /\ pc[i] = "swap_list"
  /\ todo' = [todo EXCEPT ![i] = {[srv |-> s, fip |-> address[s]] :
                                    s \in {t \in Addressed : address[t] # NoFip}}]
  /\ Goto(i, "swap_loop")
  /\ UNCHANGED <<locked, held, status, address, cur, ops, faults>>

(* Mutant: only the server is remembered, not what was listed of it. *)
SwapTryBare(i) ==
  /\ pc[i] = "swap_loop"
  /\ \E e \in todo[i] :
       /\ todo' = [todo EXCEPT ![i] = @ \ {e}]
       /\ Acquired(i, e.srv)
       /\ cur' = [cur EXCEPT ![i] = Append(@, e.srv)]
  /\ UNCHANGED <<status, address, pc, ops, faults>>

SwapTry(i) ==
  /\ pc[i] = "swap_loop"
  /\ \E e \in todo[i] :
       /\ todo' = [todo EXCEPT ![i] = @ \ {e}]
       /\ \/ Refused(e.srv) /\ UNCHANGED <<pc, cur>>
          \/ /\ Acquired(i, e.srv)
             /\ cur' = [cur EXCEPT ![i] = Append(@, e)]
             /\ Goto(i, IF Len(cur[i]) = 1 THEN "swap_off_1" ELSE "swap_loop")
  /\ UNCHANGED <<status, address, ops, faults>>

(* Fewer than two servers could be locked: the method returns as it is. *)
SwapShort(i) ==
  /\ pc[i] = "swap_loop"
  /\ todo[i] = {}
  /\ Return(i, AfterSwap)
  /\ UNCHANGED <<locked, held, status, address, faults>>

SwapOff1(i) == Dissociate(i, cur[i][1].fip, "swap_off_1", "swap_off_2")
SwapOff2(i) == Dissociate(i, cur[i][2].fip, "swap_off_2", "swap_down_1")
SwapDown1(i) == AwaitPing(i, cur[i][1].fip, FALSE, "swap_down_1", "swap_down_2")
SwapDown2(i) == AwaitPing(i, cur[i][2].fip, FALSE, "swap_down_2", "swap_on_1")
SwapOn1(i) == Associate(i, cur[i][1].fip, cur[i][2].srv, "swap_on_1", "swap_on_2")
SwapOn2(i) == Associate(i, cur[i][2].fip, cur[i][1].srv, "swap_on_2", "swap_up_2")
SwapUp2(i) == AwaitPing(i, cur[i][2].fip, TRUE, "swap_up_2", "swap_up_1")
SwapUp1(i) == AwaitPing(i, cur[i][1].fip, TRUE, "swap_up_1", "swap_release_1")

SwapRelease1(i) == /\ pc[i] = "swap_release_1"
                   /\ Release(i, cur[i][1].srv)
                   /\ Goto(i, "swap_release_2")
                   /\ UNCHANGED <<status, address, todo, cur, ops, faults>>
SwapRelease2(i) == /\ pc[i] = "swap_release_2"
                   /\ Release(i, cur[i][2].srv)
                   /\ Return(i, AfterSwap)
                   /\ UNCHANGED <<status, address, faults>>

SwapFloatingIps(i) == \/ SwapList(i) \/ SwapTry(i) \/ SwapShort(i) \/ SwapOff1(i) \/ SwapOff2(i)
                      \/ SwapDown1(i) \/ SwapDown2(i) \/ SwapOn1(i) \/ SwapOn2(i)
                      \/ SwapUp1(i) \/ SwapUp2(i) \/ SwapRelease1(i) \/ SwapRelease2(i)

--------------------------------------------------------------------------------
(* stop_start_servers_with_fip: shown again, then locked. *)

StopList(i) == Sample(i, "stop_list", WithFip, 2 * NumStopStart, "stop_loop")

(* Mutant: a server that could not be locked is tried again. *)
StopShowAgain(i) ==
  /\ pc[i] = "stop_loop"
  /\ ops[i] < NumStopStart
  /\ \E e \in todo[i] : cur' = [cur EXCEPT ![i] = <<[e EXCEPT !.fip = address[e.srv]]>>]
  /\ Goto(i, "stop_acquire")
  /\ UNCHANGED <<locked, held, status, address, todo, ops, faults>>

StopShow(i) ==
  /\ pc[i] = "stop_loop"
  /\ ops[i] < NumStopStart
  /\ \E e \in todo[i] :
       /\ todo' = [todo EXCEPT ![i] = @ \ {e}]
       /\ cur' = [cur EXCEPT ![i] = <<[e EXCEPT !.fip = address[e.srv]]>>]
  /\ Goto(i, "stop_acquire")
  /\ UNCHANGED <<locked, held, status, address, ops, faults>>

(* Mutant: what acquire_lock returns is not looked at. *)
StopAcquireUnchecked(i) ==
  /\ pc[i] = "stop_acquire"
  /\ Refused(Mine(i).srv) \/ Acquired(i, Mine(i).srv)
  /\ Goto(i, "stop_call")
  /\ UNCHANGED <<status, address, todo, cur, ops, faults>>

(* Mutant: a finally clause releases the lock, acquired or not. *)
StopAcquireFinally(i) ==
  /\ pc[i] = "stop_acquire"
  /\ \/ /\ Mine(i).srv \in locked
        /\ Release(i, Mine(i).srv)
        /\ cur' = [cur EXCEPT ![i] = <<>>]
        /\ Goto(i, "stop_loop")
     \/ Acquired(i, Mine(i).srv) /\ UNCHANGED cur /\ Goto(i, "stop_call")
  /\ UNCHANGED <<status, address, todo, ops, faults>>

StopAcquire(i) ==
  /\ pc[i] = "stop_acquire"
  /\ \/ Refused(Mine(i).srv) /\ cur' = [cur EXCEPT ![i] = <<>>] /\ Goto(i, "stop_loop")
     \/ Acquired(i, Mine(i).srv) /\ UNCHANGED cur /\ Goto(i, "stop_call")
  /\ UNCHANGED <<status, address, todo, ops, faults>>

StopCall(i) == NovaCall(i, Mine(i).srv, "stop_call", "ACTIVE", "SHUTOFF", "stop_down")
StopDown(i) == AwaitPing(i, Mine(i).fip, FALSE, "stop_down", "stop_start")
StopStart(i) == NovaCall(i, Mine(i).srv, "stop_start", "SHUTOFF", "ACTIVE", "stop_up")
StopUp(i) == AwaitPing(i, Mine(i).fip, TRUE, "stop_up", "stop_release")
StopRelease(i) == ReleaseListed(i, "stop_release", "stop_loop")
StopFinish(i) == Finish(i, "stop_loop", NumStopStart, AfterStopStart)

StopStartServers(i) == \/ StopList(i) \/ StopShow(i) \/ StopAcquire(i) \/ StopCall(i) \/ StopDown(i)
                       \/ StopStart(i) \/ StopUp(i) \/ StopRelease(i) \/ StopFinish(i)

--------------------------------------------------------------------------------
Step(i) == \/ DeleteServers(i) \/ BootServersWithFip(i) \/ MigrateServers(i)
           \/ SwapFloatingIps(i) \/ StopStartServers(i)

AllStopped == \A i \in Iteration : pc[i] \in Stopped
Terminated == AllStopped /\ UNCHANGED vars

Next == (\E i \in Iteration : Step(i) \/ Raise(i)) \/ Terminated

(* Rally runs every iteration in a process of its own, and every wait has a timeout. *)
Spec == Init /\ [][Next]_vars /\ \A i \in Iteration : WF_vars(Step(i))

--------------------------------------------------------------------------------
(* Where an iteration works on servers it has locked, and on which. *)
SinglePoints == {"delete_show", "delete_call", "delete_release", "migrate_ping_before",
  "migrate_call", "migrate_wait", "migrate_confirm", "migrate_ping_after", "migrate_release",
  "stop_call", "stop_down", "stop_start", "stop_up", "stop_release"}
SwapPoints == {"swap_off_1", "swap_off_2", "swap_down_1", "swap_down_2", "swap_on_1",
  "swap_on_2", "swap_up_1", "swap_up_2", "swap_release_1"}
Working(i) ==
  IF pc[i] \in SinglePoints THEN {Mine(i).srv}
  ELSE IF pc[i] \in SwapPoints THEN {cur[i][1].srv, cur[i][2].srv}
  ELSE IF pc[i] = "swap_release_2" THEN {cur[i][2].srv}
  ELSE IF pc[i] = "swap_loop" THEN {cur[i][k].srv : k \in DOMAIN cur[i]}
  ELSE {}

(***************************************************************************)
(* Two iterations never work on one server at the same time, whatever the  *)
(* workloads and whichever calls fail: the purpose of acquire_lock.        *)
(***************************************************************************)
MutualExclusion == \A i, j \in Iteration : i # j => Working(i) \cap Working(j) = {}

(***************************************************************************)
(* The table, used as the workloads use it, is the abstract lock service:  *)
(* no workload frees a server another iteration holds.                     *)
(***************************************************************************)
ImplementsLockService == Service!Spec

(* The status the server an iteration works on must have at each point. *)
Expected(l) ==
  CASE l = "delete_show"                   -> {"ACTIVE", "deleted"}
    [] l = "delete_release"                -> {"deleted"}
    [] l = "migrate_wait"                  -> {"RESIZE"}
    [] l = "migrate_confirm"               -> {"VERIFY_RESIZE"}
    [] l \in {"stop_down", "stop_start"}   -> {"SHUTOFF"}
    [] OTHER                               -> {"ACTIVE"}

(***************************************************************************)
(* No call of one iteration is refused because of what another one did to  *)
(* the server: nothing is deleted twice (the re-check after the lock in    *)
(* delete_random_servers), nothing is migrated while it is stopped, stopped *)
(* while it is migrated, or started while it runs.                         *)
(***************************************************************************)
CallsAccepted == \A i \in Iteration : \A s \in Working(i) : status[s] \in Expected(pc[i])

Busy == {"RESIZE", "VERIFY_RESIZE", "SHUTOFF"}

(***************************************************************************)
(* A server left in the middle of a migration or a stop, by a call that    *)
(* failed or a wait that timed out, stays locked: the lock that is never   *)
(* released keeps every other iteration off the half-migrated server.      *)
(***************************************************************************)
BusyIsLocked == \A s \in Object : status[s] \in Busy => s \in locked

(***************************************************************************)
(* A server is used by one iteration at a time, from the first call on it  *)
(* to the last, and after a failure by none.                               *)
(***************************************************************************)
ServersUsedAlone == CallsAccepted /\ BusyIsLocked

(***************************************************************************)
(* Every iteration comes to an end, however the others hold, skip or leak  *)
(* locks: a try-lock never blocks and no loop over a list runs for ever.   *)
(***************************************************************************)
EveryIterationStops == \A i \in Iteration : <>(pc[i] \in Stopped)

(***************************************************************************)
(* An iteration that ran to its end holds no lock.  delete, migrate and    *)
(* stop_start give this; the early return of the swap does not.            *)
(***************************************************************************)
DoneHoldsNothing == \A i \in Iteration : pc[i] = "done" => held[i] = {}

(***************************************************************************)
(* The address stop_start waits on is the address of the server it stops.  *)
(***************************************************************************)
StopsThePingedServer ==
  \A i \in Iteration : pc[i] = "stop_call" => address[Mine(i).srv] = Mine(i).fip
================================================================================
