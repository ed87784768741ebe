--------------------------- MODULE WorkflowScenario ---------------------------
(***************************************************************************)
(* A Workflow scenario: the engine that executes its steps one after the   *)
(* other (workflow.py), and the handlers of their operations in workflow/,  *)
(* against a cloud that goes on by itself while a handler waits.           *)
(***************************************************************************)
EXTENDS Integers, Sequences, FiniteSets

CONSTANTS Scenarios,    \* the scenario files: sequences of steps
          Keys,         \* the names their steps save results under
          NoKey,        \* a step without save_as
          Pods,         \* the pods of the RAFT cluster, in the sorted order
          Indexing,     \* elasticsearch.enabled
          Polls,        \* bound: polls of a server before wait_timeout has passed
          MaxFaults,    \* bound: calls that fail on their own
          MaxElections  \* bound: changes of the pods that answer as leader

OnFailure == {"continue", "fail"}
Steps ==
  [op : STRING,
   refs : SUBSET Keys,         \* the results its arguments name
   save : Keys \cup {NoKey},
   onFailure : OnFailure,
   wait : BOOLEAN]             \* wait_for_status, wait_for_delete
PodSet == {Pods[p] : p \in DOMAIN Pods}

ASSUME ScenariosAssumption == Scenarios \subseteq Seq(Steps) /\ NoKey \notin Keys
NoPod == "none"

(* The names of pods differ within a namespace; the search begins with None. *)
ASSUME PodsAssumption ==
  /\ Pods \in Seq(PodSet) /\ NoPod \notin PodSet
  /\ \A p, q \in DOMAIN Pods : Pods[p] = Pods[q] => p = q
ASSUME BoundsAssumption == Polls \in Nat /\ MaxFaults \in Nat /\ MaxElections \in Nat
ASSUME IndexingAssumption == Indexing \in BOOLEAN

VARIABLES scenario, \* the steps of the scenario being executed
          n,        \* the step
          at,       \* where the engine, or the handler it has called, is
          result,   \* what execute_step has returned
          saved,    \* self.state: the resources a saved result names
          server,   \* the server a handler waits for
          polls,    \* polls left before the timeout
          todo,     \* the pods find_raft_leader has yet to ask
          found,    \* leader_pod
          cloud,    \* the resources there are
          status,   \* of the server each step booted
          chaos,    \* the steps whose chaos container runs
          claiming, \* the pods that answer as leader
          faults, elections, \* counters of the bounds
          outcome,  \* history: how each executed step ended
          values,   \* history: the value of each executed step's result
          timedOut, \* history: the steps whose container podman was ended before
          steady,   \* history: every pod has answered, and nothing changed, since the search began
          blind     \* history: the steps that took a failed call for a deletion

progress == <<scenario, n, saved, outcome, values>>
waiting == <<server, polls>>
search == <<todo, found, steady>>
nova == <<cloud, status>>
podman == <<chaos, timedOut>>
raft == <<claiming, elections>>
vars == <<progress, at, result, waiting, search, nova, podman, raft, faults, blind>>

NoServer == [step |-> 0, kind |-> "server", on |-> {}]

Init ==
  /\ scenario \in Scenarios
  /\ n = 1
  /\ at = "step"
  /\ result = [success |-> FALSE, value |-> {}]
  /\ saved = [k \in Keys |-> {}]
  /\ server = NoServer /\ polls = 0
  /\ todo = <<>> /\ found = NoPod /\ steady = TRUE
  /\ cloud = {}
  /\ status = [m \in DOMAIN scenario |-> "none"]
  /\ chaos = {} /\ timedOut = {}
  /\ claiming \in SUBSET PodSet
  /\ faults = 0 /\ elections = 0
  /\ outcome = <<>> /\ values = <<>>
  /\ blind = {}

--------------------------------------------------------------------------------
(* What the handlers share. *)

Step == scenario[n]
Running(operation) == at = "step" /\ n <= Len(scenario) /\ Step.op = operation

(* A handler returns its result, or raises: execute_step makes a failure of that. *)
Returns(value) == at' = "record" /\ result' = [success |-> TRUE, value |-> value]
Raises == at' = "record" /\ result' = [success |-> FALSE, value |-> {}]

(* The resources of a kind that the arguments name.  A name that does not resolve *)
(* stays in the text, and the call finds no such resource.                        *)
Named(kind) == {r \in UNION {saved[k] : k \in Step.refs} : r.kind = kind}
NamedAny(kinds) == UNION {Named(kind) : kind \in kinds}
Resolves == \A k \in Step.refs : saved[k] \cap cloud # {}
Finds(kinds) == \A kind \in kinds : Named(kind) \cap cloud # {}

Fault == faults < MaxFaults /\ faults' = faults + 1
NoFault == UNCHANGED faults

(* What a new resource rests on: what was named, and what that rests on. *)
Rests(kinds) ==
  {r.step : r \in NamedAny(kinds)} \cup UNION {r.on : r \in NamedAny(kinds)}
New(kind, kinds) == [step |-> n, kind |-> kind, on |-> Rests(kinds)]

(* Neutron keeps what another resource rests on; some go with what they rest on. *)
Cascading == {"subnet", "rule"}
InUse(r) == \E q \in cloud : r.step \in q.on /\ q.kind \notin Cascading
Without(r) == {q \in cloud : q # r /\ ~(q.kind \in Cascading /\ r.step \in q.on)}

(* An operation with its effect: its answer arrives, or is lost. *)
Answered(value) ==
  \/ /\ Returns(value)
     /\ NoFault
  \/ /\ Raises
     /\ Fault

(* An operation without its effect: refused if it must be, by a fault otherwise. *)
Refused(acceptable) == Raises /\ IF acceptable THEN Fault ELSE NoFault

(* A call that creates on what is named.  Its result names what the new resource was made on. *)
Create(operation, kind, kinds) ==
  /\ Running(operation)
  /\ \/ /\ Finds(kinds)
        /\ cloud' = cloud \cup {New(kind, kinds)}
        /\ Answered({New(kind, kinds)} \cup NamedAny(kinds))
     \/ /\ Refused(Finds(kinds))
        /\ UNCHANGED cloud
  /\ UNCHANGED <<progress, waiting, search, status, podman, raft, blind>>

Delete(operation, targets, kinds) ==
  /\ Running(operation)
  /\ LET free == {r \in targets \cap cloud : ~InUse(r)}
     IN \/ \E r \in free : cloud' = Without(r) /\ Answered(NamedAny(kinds))
        \/ Refused(free # {}) /\ UNCHANGED cloud
  /\ UNCHANGED <<progress, waiting, search, status, podman, raft, blind>>

(* A call that changes nothing modelled here; its result names what it was asked about. *)
Query(operation, kinds) ==
  /\ Running(operation)
  /\ \/ Finds(kinds) /\ Returns(NamedAny(kinds)) /\ NoFault
     \/ Refused(Finds(kinds))
  /\ UNCHANGED <<progress, waiting, search, nova, podman, raft, blind>>

--------------------------------------------------------------------------------
(* workflow/neutron *)

CreateNetwork == Create("create_network", "network", {})
CreateSubnet == Create("create_subnet", "subnet", {"network"})
CreateRouter == Create("create_router", "router", {})
CreatePort == Create("create_port", "port", {"network"})
CreateSecurityGroup == Create("create_security_group", "group", {})
CreateSecurityGroupRule == Create("create_security_group_rule", "rule", {"group"})
CreateFloatingip == Create("create_floatingip", "fip", {})
AddInterfaceRouter == Create("add_interface_router", "interface", {"router", "subnet"})

(* The interfaces between a router and a subnet that are named. *)
Between ==
  {q \in cloud : q.kind = "interface" /\ \E r \in Named("router"), s \in Named("subnet") :
                                           {r.step, s.step} \subseteq q.on}

DeleteNetwork == Delete("delete_network", Named("network"), {"network"})
DeleteSubnet == Delete("delete_subnet", Named("subnet"), {"subnet"})
DeleteRouter == Delete("delete_router", Named("router"), {"router"})
DeletePort == Delete("delete_port", Named("port"), {"port"})
DeleteSecurityGroup == Delete("delete_security_group", Named("group"), {"group"})
DeleteFloatingip == Delete("delete_floatingip", Named("fip"), {"fip"})
RemoveInterfaceRouter == Delete("remove_interface_router", Between, {"router", "subnet"})

ListNetworks == Query("list_networks", {})
ListFloatingIps == Query("list_floating_ips", {})

Neutron ==
  \/ CreateNetwork \/ CreateSubnet \/ CreateRouter \/ CreatePort \/ CreateSecurityGroup
  \/ CreateSecurityGroupRule \/ CreateFloatingip \/ AddInterfaceRouter
  \/ DeleteNetwork \/ DeleteSubnet \/ DeleteRouter \/ DeletePort \/ DeleteSecurityGroup
  \/ DeleteFloatingip \/ RemoveInterfaceRouter \/ ListNetworks \/ ListFloatingIps

--------------------------------------------------------------------------------
(* workflow/nova *)

(* What nova answers about a server, whatever task it is at. *)
Reported(m) == CASE status[m] = "stopping" -> "ACTIVE"
                 [] status[m] = "starting" -> "SHUTOFF"
                 [] OTHER -> status[m]
There == server \in cloud

Await(r, where) == at' = where /\ server' = r /\ polls' = Polls /\ UNCHANGED result

(* The request is accepted; then the handler waits, or nova's answer is lost. *)
AwaitOrLost(r, where) ==
  \/ Await(r, where) /\ NoFault
  \/ Raises /\ Fault /\ UNCHANGED waiting

(* servers.create; the image or the flavor may not be found. *)
Boot(operation, waits) ==
  /\ Running(operation)
  /\ \/ /\ Resolves
        /\ cloud' = cloud \cup {New("server", {"network"})}
        /\ status' = [status EXCEPT ![n] = "BUILD"]
        /\ IF waits THEN AwaitOrLost(New("server", {"network"}), "wait")
           ELSE Answered({New("server", {"network"})}) /\ UNCHANGED waiting
     \/ Refused(Resolves) /\ UNCHANGED <<nova, waiting>>
  /\ UNCHANGED <<progress, search, podman, raft, blind>>

BootServer == Boot("boot_server", Step.wait)
BootServerWithFip == Boot("boot_server_with_fip", TRUE)

(* server.stop and server.start: refused in another status *)
Switch(operation, from, task) ==
  /\ Running(operation)
  /\ LET able == {r \in Named("server") \cap cloud : status[r.step] = from}
     IN \/ \E r \in able : /\ status' = [status EXCEPT ![r.step] = task]
                           /\ AwaitOrLost(r, "wait")
        \/ Refused(able # {}) /\ UNCHANGED <<status, waiting>>
  /\ UNCHANGED <<progress, search, cloud, podman, raft, blind>>

StopServer == Switch("stop_server", "ACTIVE", "stopping")
StartServer == Switch("start_server", "SHUTOFF", "starting")

Wanted == IF Step.op = "stop_server" THEN "SHUTOFF" ELSE "ACTIVE"

(* Mutant: the time is taken anew at each poll. *)
TimePassesAnew ==
  IF polls = 0 THEN Raises /\ UNCHANGED polls ELSE UNCHANGED <<polls, at, result>>

(* Mutant: when the time is over the server is returned as it is. *)
TimePassesLenient ==
  IF polls = 0 THEN Returns({server}) /\ UNCHANGED polls
  ELSE polls' = polls - 1 /\ UNCHANGED <<at, result>>

(* Mutant: one poll more than there is time for. *)
TimePassesLonger ==
  IF polls < 0 THEN Raises /\ UNCHANGED polls
  ELSE polls' = polls - 1 /\ UNCHANGED <<at, result>>

TimePasses ==
  IF polls = 0 THEN Raises /\ UNCHANGED polls
  ELSE polls' = polls - 1 /\ UNCHANGED <<at, result>>

(* One turn of _wait_for_server_status: the wanted status, an error, or time passes. *)
WaitForServerStatus ==
  /\ at = "wait"
  /\ \/ Refused(There) /\ UNCHANGED polls
     \/ /\ There /\ Reported(server.step) = Wanted
        /\ IF Step.op = "boot_server_with_fip" THEN at' = "fip" /\ UNCHANGED result
           ELSE Returns({server})
        /\ NoFault /\ UNCHANGED polls
     \/ /\ There /\ Reported(server.step) = "ERROR"
        /\ Raises /\ NoFault /\ UNCHANGED polls
     \/ /\ There /\ Reported(server.step) \notin {Wanted, "ERROR"}
        /\ TimePasses /\ NoFault
  /\ UNCHANGED <<progress, server, search, nova, podman, raft, blind>>

(* The rest of boot_server_with_fip.  A failure leaves the server behind. *)
AttachFip ==
  /\ at = "fip"
  /\ LET fip == [step |-> n, kind |-> "fip", on |-> {}]
     IN \/ cloud' = cloud \cup {fip} /\ Answered({server, fip})
        \/ Refused(TRUE) /\ UNCHANGED cloud
  /\ UNCHANGED <<progress, waiting, search, status, podman, raft, blind>>

DeleteServer ==
  /\ Running("delete_server")
  /\ LET there == Named("server") \cap cloud
     IN \/ \E r \in there : /\ status' = [status EXCEPT ![r.step] = "deleting"]
                            /\ IF Step.wait THEN AwaitOrLost(r, "gone")
                               ELSE Answered({r}) /\ UNCHANGED waiting
        \/ Refused(there # {}) /\ UNCHANGED <<status, waiting>>
  /\ UNCHANGED <<progress, search, cloud, podman, raft, blind>>

Deleted == Returns({server})

(* One turn of the wait for a deletion: any exception of servers.get ends it well. *)
WaitForDelete ==
  /\ at = "gone"
  /\ \/ ~There /\ Deleted /\ NoFault /\ UNCHANGED <<polls, blind>>
     \/ There /\ Deleted /\ Fault /\ UNCHANGED polls /\ blind' = blind \cup {n}
     \/ /\ There
        /\ TimePasses
        /\ NoFault /\ UNCHANGED blind
  /\ UNCHANGED <<progress, server, search, nova, podman, raft>>

(* The new floating IP points at a port of the server and goes on without it. *)
AttachFloatingIp ==
  /\ Running("attach_floating_ip")
  /\ LET fip == [step |-> n, kind |-> "fip", on |-> {}]
     IN \/ /\ Finds({"server"})
           /\ cloud' = cloud \cup {fip} /\ Answered({fip} \cup Named("server"))
        \/ Refused(Finds({"server"})) /\ UNCHANGED cloud
  /\ UNCHANGED <<progress, waiting, search, status, podman, raft, blind>>

ShowServer == Query("show_server", {"server"})
ListServers == Query("list_servers", {})
AttachInterface == Query("attach_interface", {"server"})
AttachVolume == Query("attach_volume", {"server"})
DetachVolume == Query("detach_volume", {"server"})
ListHypervisors == Query("list_hypervisors", {})
ListFlavors == Query("list_flavors", {})

Nova ==
  \/ BootServer \/ BootServerWithFip \/ StopServer \/ StartServer \/ WaitForServerStatus
  \/ AttachFip \/ DeleteServer \/ WaitForDelete \/ ShowServer \/ ListServers
  \/ AttachFloatingIp \/ AttachInterface \/ AttachVolume \/ DetachVolume
  \/ ListHypervisors \/ ListFlavors

(* Servers go on by themselves, whether or not a handler still waits. *)
Onward == [now \in {"BUILD", "stopping", "starting", "deleting"} |->
             CASE now = "BUILD" -> {"ACTIVE", "ERROR"}
               [] now = "stopping" -> {"SHUTOFF"}
               [] now = "starting" -> {"ACTIVE"}
               [] now = "deleting" -> {"none", "ERROR"}]

NovaGoesOn ==
  /\ \E m \in DOMAIN status :
       /\ status[m] \in DOMAIN Onward
       /\ \E later \in Onward[status[m]] :
            /\ status' = [status EXCEPT ![m] = later]
            /\ cloud' = IF later = "none" THEN {r \in cloud : r.step # m \/ r.kind # "server"}
                        ELSE cloud
  /\ UNCHANGED <<progress, at, result, waiting, search, podman, raft, faults, blind>>

--------------------------------------------------------------------------------
(* workflow/oc: the pods are asked one after the other while leadership may move. *)

FindRaftLeader ==
  /\ Running("find_raft_leader")
  /\ \/ /\ Pods # <<>>
        /\ at' = "asking" /\ todo' = Pods /\ found' = NoPod /\ steady' = TRUE
        /\ NoFault /\ UNCHANGED result
     \/ Refused(Pods # <<>>) /\ found' = NoPod /\ steady' = FALSE /\ UNCHANGED todo
  /\ UNCHANGED <<progress, waiting, nova, podman, raft, blind>>

(* Mutant: the first leader ends the search. *)
AskPodUntilFirst ==
  /\ at = "asking" /\ todo # <<>>
  /\ IF Head(todo) \in claiming THEN found' = Head(todo) /\ todo' = <<>>
     ELSE todo' = Tail(todo) /\ UNCHANGED found
  /\ UNCHANGED <<progress, at, result, steady, waiting, nova, podman, raft, faults, blind>>

AskPod ==
  /\ at = "asking" /\ todo # <<>>
  /\ \/ /\ Head(todo) \in claiming /\ found # NoPod  \* Multiple leaders found
        /\ Raises /\ NoFault
        /\ todo' = <<>>
        /\ UNCHANGED <<found, steady>>
     \/ /\ ~(Head(todo) \in claiming /\ found # NoPod)
        /\ found' = IF Head(todo) \in claiming THEN Head(todo) ELSE found
        /\ todo' = Tail(todo)
        /\ NoFault /\ UNCHANGED <<at, result, steady>>
     \/ /\ todo' = Tail(todo) /\ steady' = FALSE       \* the pod does not answer
        /\ Fault /\ UNCHANGED <<at, result, found>>
  /\ UNCHANGED <<progress, waiting, nova, podman, raft, blind>>

AllPodsAsked ==
  /\ at = "asking" /\ todo = <<>>
  /\ IF found = NoPod THEN Raises ELSE Returns({[step |-> n, kind |-> "pod", on |-> {}]})
  /\ UNCHANGED <<progress, search, waiting, nova, podman, raft, faults, blind>>

(* Visible to a search only, so it is left to happen during one. *)
Election ==
  /\ at = "asking" /\ elections < MaxElections
  /\ claiming' \in SUBSET PodSet \ {claiming}
  /\ elections' = elections + 1
  /\ steady' = FALSE
  /\ UNCHANGED <<progress, at, result, waiting, todo, found, nova, podman, faults, blind>>

--------------------------------------------------------------------------------
(* workflow/krkn *)

(* podman run, after the checks; krkn.run and the typed scenarios alike *)
RunChaos ==
  /\ Running("krkn")
  /\ \/ at' = "chaos" /\ chaos' = chaos \cup {n} /\ NoFault /\ UNCHANGED result
     \/ Refused(TRUE) /\ UNCHANGED chaos
  /\ UNCHANGED <<progress, waiting, search, nova, timedOut, raft, blind>>

(* --rm removes the container when it ends. *)
ContainerEnds ==
  /\ \E m \in chaos : chaos' = chaos \ {m}
  /\ UNCHANGED <<progress, at, result, waiting, search, nova, timedOut, raft, faults, blind>>

ChaosReturns ==
  /\ at = "chaos" /\ n \notin chaos
  /\ Answered({})
  /\ UNCHANGED <<progress, waiting, search, nova, podman, raft, blind>>

(* podman run ends before its container; its return code is raised past the clean-up. *)
ChaosLeft ==
  /\ at = "chaos" /\ n \in chaos
  /\ Raises
  /\ timedOut' = timedOut \cup {n}
  /\ UNCHANGED <<progress, waiting, search, nova, chaos, raft, blind>>

(* run_cmd kills podman run, not the container, and returns -1. *)
ChaosTimesOut == ChaosLeft /\ NoFault

(* podman run itself fails or is killed: any other return code. *)
ChaosClientEnds == ChaosLeft /\ Fault

(* Mutant: without the clean-up. *)
ChaosRaisesAtOnce ==
  /\ at = "chaos"
  /\ Raises /\ Fault
  /\ UNCHANGED <<progress, waiting, search, nova, podman, raft, blind>>

(* An exception of run_cmd itself: _cleanup_container removes the container. *)
ChaosRaises ==
  /\ at = "chaos"
  /\ Raises /\ Fault
  /\ chaos' = chaos \ {n}
  /\ UNCHANGED <<progress, waiting, search, nova, timedOut, raft, blind>>

--------------------------------------------------------------------------------
(* workflow/common, and the engine *)

Wait == Query("wait", {})
Log == Query("log", {})

Operations ==
  {"create_network", "create_subnet", "create_router", "create_port", "create_security_group",
   "create_security_group_rule", "create_floatingip", "add_interface_router", "delete_network",
   "delete_subnet", "delete_router", "delete_port", "delete_security_group", "delete_floatingip",
   "remove_interface_router", "list_networks", "list_floating_ips", "boot_server",
   "boot_server_with_fip", "stop_server", "start_server", "delete_server", "show_server",
   "list_servers", "attach_floating_ip", "attach_interface", "attach_volume", "detach_volume",
   "list_hypervisors", "list_flavors", "find_raft_leader", "krkn", "wait", "log"}

(* A step without an operation, or with one that has no handler. *)
NoHandler ==
  /\ at = "step" /\ n <= Len(scenario) /\ Step.op \notin Operations
  /\ Raises
  /\ UNCHANGED <<progress, waiting, search, nova, podman, raft, faults, blind>>

(* Mutant: a failed step leaves the earlier result in place. *)
SavedIfSuccessful ==
  IF Step.save = NoKey \/ ~result.success THEN saved
  ELSE [saved EXCEPT ![Step.save] = result.value]

Saved == IF Step.save = NoKey THEN saved ELSE [saved EXCEPT ![Step.save] = result.value]

(* Mutant: an exception is logged and forgotten. *)
StopsOnFailure(ending) == ending = "failed" /\ Step.onFailure = "fail"

Stops(ending) == ending # "ok" /\ Step.onFailure = "fail"

(* The end of a step: on_failure is looked at. *)
EndStep(ending, value) ==
  /\ outcome' = Append(outcome, ending)
  /\ values' = Append(values, value)
  /\ IF Stops(ending) THEN at' = "failed" /\ UNCHANGED n ELSE at' = "step" /\ n' = n + 1

(* execute_steps after execute_step: save, then index, which may raise. *)
RecordStep ==
  /\ at = "record"
  /\ saved' = Saved
  /\ \/ EndStep(IF result.success THEN "ok" ELSE "failed", result.value) /\ NoFault
     \/ Indexing /\ EndStep("raised", result.value) /\ Fault
  /\ UNCHANGED <<scenario, result, waiting, search, nova, podman, raft, blind>>

(* execute_step itself raises, before it calls the handler: nothing is saved. *)
StepRaises ==
  /\ at = "step" /\ n <= Len(scenario)
  /\ EndStep("unsaved", {}) /\ Fault
  /\ UNCHANGED <<scenario, saved, result, waiting, search, nova, podman, raft, blind>>

EndScenario ==
  /\ at = "step" /\ n > Len(scenario)
  /\ at' = "passed"
  /\ UNCHANGED <<progress, result, waiting, search, nova, podman, raft, faults, blind>>

Over == at \in {"passed", "failed"}
Terminated == Over /\ UNCHANGED vars

Engine ==
  \/ Neutron \/ Nova \/ FindRaftLeader \/ AskPod \/ AllPodsAsked
  \/ RunChaos \/ ChaosReturns \/ ChaosTimesOut \/ ChaosClientEnds \/ ChaosRaises
  \/ Wait \/ Log \/ NoHandler \/ RecordStep \/ StepRaises \/ EndScenario
Cloud == NovaGoesOn \/ Election \/ ContainerEnds

Next == Engine \/ Cloud \/ Terminated

(* Every wait of a handler has a timeout, every other call answers or raises. *)
Spec == Init /\ [][Next]_vars /\ WF_vars(Engine)

--------------------------------------------------------------------------------
Statuses == {"none", "BUILD", "ACTIVE", "SHUTOFF", "ERROR", "stopping", "starting", "deleting"}
Places == {"step", "wait", "fip", "gone", "asking", "chaos", "record", "passed", "failed"}
Kinds == {"network", "subnet", "router", "interface", "port", "group", "rule", "fip", "server",
          "pod"}
Resources == [step : Nat, kind : Kinds, on : SUBSET Nat]
Endings == {"ok", "failed", "raised", "unsaved"}

TypeOK ==
  /\ scenario \in Scenarios
  /\ n \in 1..Len(scenario) + 1
  /\ at \in Places
  /\ result \in [success : BOOLEAN, value : SUBSET Resources]
  /\ saved \in [Keys -> SUBSET Resources]
  /\ server \in Resources
  /\ polls \in 0..Polls
  /\ todo \in Seq(PodSet) /\ found \in PodSet \cup {NoPod} /\ claiming \in SUBSET PodSet
  /\ cloud \in SUBSET Resources
  /\ status \in [DOMAIN scenario -> Statuses]
  /\ chaos \in SUBSET DOMAIN scenario /\ timedOut \in SUBSET DOMAIN scenario
  /\ blind \in SUBSET DOMAIN scenario /\ steady \in BOOLEAN
  /\ faults \in Nat /\ elections \in Nat
  /\ outcome \in Seq(Endings) /\ values \in Seq(SUBSET Resources)

(***************************************************************************)
(* What a later step finds under a name is the result of the last step     *)
(* that saves under it: nothing if that step failed, never an older        *)
(* result, and its own even if indexing it raised (workflow.py:371).  A    *)
(* step that raises before it has a result saves none (workflow.py:366).   *)
(***************************************************************************)
SavedIsLatest ==
  \A k \in Keys :
    LET writers == {m \in DOMAIN values : scenario[m].save = k /\ outcome[m] # "unsaved"}
    IN saved[k] = IF writers = {} THEN {}
                  ELSE values[CHOOSE m \in writers : \A other \in writers : other <= m]

(***************************************************************************)
(* A scenario passes only when all its steps were executed and every one   *)
(* with on_failure "fail" succeeded, its indexing included; after one that *)
(* did not, no other step is executed (workflow.py:388-403).               *)
(***************************************************************************)
VerdictIsDeserved ==
  LET broken == {m \in DOMAIN outcome : scenario[m].onFailure = "fail" /\ outcome[m] # "ok"}
  IN /\ broken \subseteq {Len(outcome)}
     /\ broken # {} <=> at = "failed"
     /\ at = "passed" => Len(outcome) = Len(scenario)

(* A step that waits for a status reports success. *)
StatusReported ==
  /\ at = "record" /\ result.success
  /\ \/ Step.op \in {"boot_server_with_fip", "stop_server", "start_server"}
     \/ Step.op = "boot_server" /\ Step.wait

DeletionReported == at = "record" /\ result.success /\ Step.op = "delete_server" /\ Step.wait

(***************************************************************************)
(* wait_for_delete: "Wait for server deletion to complete"                 *)
(* (doc/source/workflow.rst:89).  A delete_server step with it that        *)
(* succeeds leaves no server.                                              *)
(***************************************************************************)
WaitedForDeletion == DeletionReported => server \notin cloud

(***************************************************************************)
(* A boot, stop or start that waits succeeds only with the server in the   *)
(* status it waits for, however late nova is, and a deletion whose polls   *)
(* were all answered only with the server gone: a timeout is never taken   *)
(* for what was waited for (nova/__init__.py:54-73 and 255).               *)
(***************************************************************************)
WaitsAreHonest ==
  /\ StatusReported => \A r \in result.value : r.kind = "server" => status[r.step] = Wanted
  /\ DeletionReported /\ n \notin blind => server \notin cloud

(***************************************************************************)
(* A search in which every pod answered and leadership did not move        *)
(* succeeds exactly if one pod leads, and with that one (oc/__init__.py).   *)
(***************************************************************************)
LeaderIsUnambiguous ==
  at = "record" /\ Step.op = "find_raft_leader" /\ steady =>
    (IF result.success THEN claiming = {found} ELSE Cardinality(claiming) # 1)

(***************************************************************************)
(* What a step reports of the cloud is so: the status or the deletion it   *)
(* waited for, and the leader it found.                                    *)
(***************************************************************************)
ReportsAreTrue == WaitsAreHonest /\ LeaderIsUnambiguous

(***************************************************************************)
(* No chaos container runs beside later steps, whatever exception run_cmd  *)
(* raises (krkn/__init__.py:160), but those of steps whose podman run      *)
(* ended first, by its timeout or on its own: a return code is raised past *)
(* the clean-up (krkn/__init__.py:176-183).                                *)
(***************************************************************************)
ChaosStaysUnlessTimedOut == \A m \in chaos : (m = n /\ at = "chaos") \/ m \in timedOut

(***************************************************************************)
(* Every scenario ends with a verdict, however slow the cloud is.          *)
(***************************************************************************)
ScenarioEnds == <>Over
================================================================================
