------------------------ MODULE WorkflowScenario_proofs ------------------------
(***************************************************************************)
(* Types, verdict, saved results, reports and chaos containers of a        *)
(* Workflow scenario, for every set of scenario files.                     *)
(***************************************************************************)
EXTENDS WorkflowScenario, FiniteSetTheorems, TLAPS

ResultType == [success : BOOLEAN, value : SUBSET Resources]
Verdicts == {"passed", "failed"}

(* Handlers run on a step there is; the histories are as long as the steps executed. *)
InPlace ==
  /\ at \notin {"step", "passed"} => n <= Len(scenario)
  /\ at = "passed" => n = Len(scenario) + 1
  /\ Len(values) = Len(outcome)
  /\ Len(outcome) = IF at = "failed" THEN n ELSE n - 1

(* The executed steps that save under k; of those there is a last one. *)
Writers(k) == {m \in DOMAIN values : scenario[m].save = k /\ outcome[m] # "unsaved"}
IsLatest(m, S) == m \in S /\ \A other \in S : other <= m
HaveLatest == \A k \in Keys : Writers(k) = {} \/ \E m : IsLatest(m, Writers(k))

ScenarioInv == TypeOK /\ InPlace /\ VerdictIsDeserved /\ SavedIsLatest /\ HaveLatest

(* What every step of a handler does to the engine. *)
HandlerStep ==
  /\ n <= Len(scenario)
  /\ at \notin Verdicts /\ at' \notin Verdicts \cup {"step"}
  /\ UNCHANGED progress
  /\ TypeOK'

(* The step at hand is a step of the scenario. *)
LEMMA StepType ==
  ASSUME TypeOK, n <= Len(scenario)
  PROVE  scenario \in Seq(Steps) /\ n \in DOMAIN scenario /\ Step \in Steps
<1>1. scenario \in Seq(Steps)
  BY ScenariosAssumption DEF TypeOK
<1>2. n \in 1..Len(scenario)
  <2>1. n \in 1..Len(scenario) + 1 /\ Len(scenario) \in Nat
    BY <1>1 DEF TypeOK
  <2> QED BY <2>1
<1> QED BY <1>1, <1>2 DEF Step

(* Names resolve to resources. *)
LEMMA NamedType ==
  ASSUME TypeOK, n <= Len(scenario)
  PROVE  /\ \A kind : Named(kind) \subseteq Resources
         /\ \A kinds : NamedAny(kinds) \subseteq Resources
<1>1. Step.refs \subseteq Keys
  BY StepType DEF Steps
<1>2. ASSUME NEW kind PROVE Named(kind) \subseteq Resources
  <2> SUFFICES ASSUME NEW r \in Named(kind) PROVE r \in Resources
    OBVIOUS
  <2>1. PICK k \in Step.refs : r \in saved[k]
    BY DEF Named
  <2>2. saved[k] \in SUBSET Resources
    BY <1>1, <2>1 DEF TypeOK
  <2> QED BY <2>1, <2>2
<1>3. ASSUME NEW kinds PROVE NamedAny(kinds) \subseteq Resources
  BY <1>2 DEF NamedAny
<1> QED BY <1>2, <1>3

(* A new resource is a resource. *)
LEMMA NewType ==
  ASSUME TypeOK, n <= Len(scenario), NEW kind \in Kinds, NEW kinds
  PROVE  New(kind, kinds) \in Resources
<1>1. n \in Nat
  BY DEF TypeOK
<1>2. \A r \in NamedAny(kinds) : r.step \in Nat /\ r.on \in SUBSET Nat
  BY NamedType DEF Resources
<1>3. Rests(kinds) \in SUBSET Nat
  BY <1>2 DEF Rests
<1> QED BY <1>1, <1>3 DEF New, Resources

(* What ends a handler. *)
LEMMA AnsweredType ==
  ASSUME TypeOK, NEW value \in SUBSET Resources, Answered(value)
  PROVE  at' = "record" /\ result' \in ResultType /\ faults' \in Nat
<1>1. faults \in Nat
  BY DEF TypeOK
<1>2. CASE Returns(value) /\ NoFault
  BY <1>1, <1>2 DEF Returns, NoFault, ResultType
<1>3. CASE Raises /\ Fault
  BY <1>1, <1>3, {} \in SUBSET Resources DEF Raises, Fault, ResultType
<1> QED BY <1>2, <1>3 DEF Answered

LEMMA RaisesType ==
  ASSUME Raises
  PROVE  at' = "record" /\ result' \in ResultType
<1>1. {} \in SUBSET Resources
  OBVIOUS
<1> QED BY <1>1 DEF Raises, ResultType

LEMMA RefusedType ==
  ASSUME TypeOK, NEW acceptable, Refused(acceptable)
  PROVE  at' = "record" /\ result' \in ResultType /\ faults' \in Nat
<1>1. faults \in Nat
  BY DEF TypeOK
<1> QED BY <1>1, {} \in SUBSET Resources DEF Refused, Raises, Fault, NoFault, ResultType

--------------------------------------------------------------------------------
(* Neutron *)

LEMMA CreateOK ==
  ASSUME TypeOK, NEW operation, NEW kind \in Kinds, NEW kinds, Create(operation, kind, kinds)
  PROVE  HandlerStep
<1>1. at = "step" /\ n <= Len(scenario)
  BY DEF Create, Running
<1>2. at' = "record" /\ result' \in ResultType /\ faults' \in Nat /\ cloud' \in SUBSET Resources
  <2>1. CASE /\ cloud' = cloud \cup {New(kind, kinds)}
             /\ Answered({New(kind, kinds)} \cup NamedAny(kinds))
    <3>1. {New(kind, kinds)} \cup NamedAny(kinds) \in SUBSET Resources
      BY <1>1, NewType, NamedType
    <3>2. cloud' \in SUBSET Resources
      BY <1>1, <2>1, NewType DEF TypeOK
    <3> QED BY <2>1, <3>1, <3>2, AnsweredType
  <2>2. CASE Refused(Finds(kinds)) /\ UNCHANGED cloud
    BY <2>2, RefusedType DEF TypeOK
  <2> QED BY <2>1, <2>2 DEF Create
<1>3. UNCHANGED <<progress, waiting, search, status, podman, raft, blind>>
  BY DEF Create
<1> QED BY <1>1, <1>2, <1>3
        DEF HandlerStep, Verdicts, TypeOK, Places, ResultType, progress, waiting, search, podman,
            raft

LEMMA DeleteOK ==
  ASSUME TypeOK, NEW operation, NEW targets, NEW kinds, Delete(operation, targets, kinds)
  PROVE  HandlerStep
<1>1. at = "step" /\ n <= Len(scenario)
  BY DEF Delete, Running
<1>2. at' = "record" /\ result' \in ResultType /\ faults' \in Nat /\ cloud' \in SUBSET Resources
  <2>1. CASE \E r : cloud' = Without(r) /\ Answered(NamedAny(kinds))
    BY <1>1, <2>1, NamedType, AnsweredType DEF Without, TypeOK
  <2>2. CASE (\E acceptable : Refused(acceptable)) /\ UNCHANGED cloud
    BY <2>2, RefusedType DEF TypeOK
  <2> QED BY <2>1, <2>2 DEF Delete
<1>3. UNCHANGED <<progress, waiting, search, status, podman, raft, blind>>
  BY DEF Delete
<1> QED BY <1>1, <1>2, <1>3
        DEF HandlerStep, Verdicts, TypeOK, Places, ResultType, progress, waiting, search, podman,
            raft

LEMMA QueryOK ==
  ASSUME TypeOK, NEW operation, NEW kinds, Query(operation, kinds)
  PROVE  HandlerStep
<1>1. at = "step" /\ n <= Len(scenario)
  BY DEF Query, Running
<1>2. at' = "record" /\ result' \in ResultType /\ faults' \in Nat
  <2>1. CASE Returns(NamedAny(kinds)) /\ NoFault
    BY <1>1, <2>1, NamedType, AnsweredType DEF Answered
  <2>2. CASE Refused(Finds(kinds))
    BY <2>2, RefusedType
  <2> QED BY <2>1, <2>2 DEF Query
<1>3. UNCHANGED <<progress, waiting, search, nova, podman, raft, blind>>
  BY DEF Query
<1> QED BY <1>1, <1>2, <1>3
        DEF HandlerStep, Verdicts, TypeOK, Places, ResultType, progress, waiting, search, nova,
            podman, raft

LEMMA NeutronOK ==
  ASSUME TypeOK, Neutron
  PROVE  HandlerStep
<1> USE DEF Kinds
<1>1. CASE CreateNetwork
  BY <1>1, CreateOK DEF CreateNetwork
<1>2. CASE CreateSubnet
  BY <1>2, CreateOK DEF CreateSubnet
<1>3. CASE CreateRouter
  BY <1>3, CreateOK DEF CreateRouter
<1>4. CASE CreatePort
  BY <1>4, CreateOK DEF CreatePort
<1>5. CASE CreateSecurityGroup
  BY <1>5, CreateOK DEF CreateSecurityGroup
<1>6. CASE CreateSecurityGroupRule
  BY <1>6, CreateOK DEF CreateSecurityGroupRule
<1>7. CASE CreateFloatingip
  BY <1>7, CreateOK DEF CreateFloatingip
<1>8. CASE AddInterfaceRouter
  BY <1>8, CreateOK DEF AddInterfaceRouter
<1>9. CASE \/ DeleteNetwork \/ DeleteSubnet \/ DeleteRouter \/ DeletePort
           \/ DeleteSecurityGroup \/ DeleteFloatingip \/ RemoveInterfaceRouter
  BY <1>9, DeleteOK
  DEF DeleteNetwork, DeleteSubnet, DeleteRouter, DeletePort, DeleteSecurityGroup,
      DeleteFloatingip, RemoveInterfaceRouter
<1>10. CASE ListNetworks \/ ListFloatingIps
  BY <1>10, QueryOK DEF ListNetworks, ListFloatingIps
<1> QED BY <1>1, <1>2, <1>3, <1>4, <1>5, <1>6, <1>7, <1>8, <1>9, <1>10 DEF Neutron

--------------------------------------------------------------------------------
(* Nova *)

(* The waiting handler has what it waits for. *)
LEMMA AwaitType ==
  ASSUME TypeOK, NEW r \in Resources, NEW where \in {"wait", "gone"}, AwaitOrLost(r, where)
  PROVE  /\ at' \in {"wait", "gone", "record"}
         /\ result' \in ResultType /\ faults' \in Nat
         /\ server' \in Resources /\ polls' \in 0..Polls
<1>1. CASE Await(r, where) /\ NoFault
  BY <1>1, BoundsAssumption DEF Await, NoFault, TypeOK, ResultType
<1>2. CASE Raises /\ Fault /\ UNCHANGED waiting
  BY <1>2, {} \in SUBSET Resources DEF Raises, Fault, TypeOK, ResultType, waiting
<1> QED BY <1>1, <1>2 DEF AwaitOrLost

LEMMA BootOK ==
  ASSUME TypeOK, NEW operation, NEW waits, Boot(operation, waits)
  PROVE  HandlerStep
<1> DEFINE new == New("server", {"network"})
<1>1. at = "step" /\ n <= Len(scenario)
  BY DEF Boot, Running
<1>2. new \in Resources
  BY <1>1, NewType DEF Kinds
<1>3. /\ at' \in {"wait", "gone", "record"} /\ result' \in ResultType /\ faults' \in Nat
      /\ server' \in Resources /\ polls' \in 0..Polls
      /\ cloud' \in SUBSET Resources /\ status' \in [DOMAIN scenario -> Statuses]
  <2>1. CASE /\ cloud' = cloud \cup {new}
             /\ status' = [status EXCEPT ![n] = "BUILD"]
             /\ AwaitOrLost(new, "wait")
    BY <1>2, <2>1, AwaitType DEF TypeOK, Statuses
  <2>2. CASE /\ cloud' = cloud \cup {new}
             /\ status' = [status EXCEPT ![n] = "BUILD"]
             /\ Answered({new}) /\ UNCHANGED waiting
    <3>1. {new} \in SUBSET Resources
      BY <1>2
    <3> QED BY <1>2, <2>2, <3>1, AnsweredType DEF TypeOK, Statuses, waiting
  <2>3. CASE Refused(Resolves) /\ UNCHANGED <<nova, waiting>>
    BY <2>3, RefusedType DEF TypeOK, nova, waiting
  <2> QED BY <2>1, <2>2, <2>3 DEF Boot
<1>4. UNCHANGED <<progress, search, podman, raft, blind>>
  BY DEF Boot
<1> QED BY <1>1, <1>3, <1>4
        DEF HandlerStep, Verdicts, TypeOK, Places, ResultType, progress, search, podman, raft

LEMMA SwitchOK ==
  ASSUME TypeOK, NEW operation, NEW from, NEW task \in Statuses, Switch(operation, from, task)
  PROVE  HandlerStep
<1>1. at = "step" /\ n <= Len(scenario)
  BY DEF Switch, Running
<1>2. /\ at' \in {"wait", "gone", "record"} /\ result' \in ResultType /\ faults' \in Nat
      /\ server' \in Resources /\ polls' \in 0..Polls
      /\ status' \in [DOMAIN scenario -> Statuses]
  <2>1. CASE \E r \in Named("server") \cap cloud : /\ status' = [status EXCEPT ![r.step] = task]
                                                 /\ AwaitOrLost(r, "wait")
    BY <2>1, AwaitType, ZenonT(30) DEF TypeOK
  <2>2. CASE (\E acceptable : Refused(acceptable)) /\ UNCHANGED <<status, waiting>>
    BY <2>2, RefusedType DEF TypeOK, waiting
  <2> QED BY <2>1, <2>2 DEF Switch
<1>3. UNCHANGED <<progress, search, cloud, podman, raft, blind>>
  BY DEF Switch
<1> QED BY <1>1, <1>2, <1>3
        DEF HandlerStep, Verdicts, TypeOK, Places, ResultType, progress, search, podman, raft

LEMMA DeleteServerOK ==
  ASSUME TypeOK, DeleteServer
  PROVE  HandlerStep
<1>1. at = "step" /\ n <= Len(scenario)
  BY DEF DeleteServer, Running
<1>2. /\ at' \in {"wait", "gone", "record"} /\ result' \in ResultType /\ faults' \in Nat
      /\ server' \in Resources /\ polls' \in 0..Polls
      /\ status' \in [DOMAIN scenario -> Statuses]
  <2>1. ASSUME NEW r \in Named("server") \cap cloud,
               status' = [status EXCEPT ![r.step] = "deleting"],
               IF Step.wait THEN AwaitOrLost(r, "gone") ELSE Answered({r}) /\ UNCHANGED waiting
        PROVE  /\ at' \in {"wait", "gone", "record"} /\ result' \in ResultType
               /\ faults' \in Nat /\ server' \in Resources /\ polls' \in 0..Polls
               /\ status' \in [DOMAIN scenario -> Statuses]
    <3>1. r \in Resources /\ {r} \in SUBSET Resources
      BY DEF TypeOK
    <3>2. status' \in [DOMAIN scenario -> Statuses]
      BY <2>1 DEF TypeOK, Statuses
    <3>3. CASE AwaitOrLost(r, "gone")
      BY <3>1, <3>2, <3>3, AwaitType
    <3>4. CASE Answered({r}) /\ UNCHANGED waiting
      BY <3>1, <3>2, <3>4, AnsweredType DEF waiting, TypeOK
    <3> QED BY <2>1, <3>3, <3>4
  <2>2. CASE (\E acceptable : Refused(acceptable)) /\ UNCHANGED <<status, waiting>>
    BY <2>2, RefusedType DEF TypeOK, waiting
  <2> QED BY <2>1, <2>2 DEF DeleteServer
<1>3. UNCHANGED <<progress, search, cloud, podman, raft, blind>>
  BY DEF DeleteServer
<1> QED BY <1>1, <1>2, <1>3
        DEF HandlerStep, Verdicts, TypeOK, Places, ResultType, progress, search, podman, raft

(* A poll ends the handler, or leaves less time. *)
LEMMA TimePassesType ==
  ASSUME TypeOK, TimePasses
  PROVE  at' \in {at, "record"} /\ result' \in ResultType /\ polls' \in 0..Polls
<1>1. polls \in 0..Polls /\ Polls \in Nat /\ result \in ResultType
  BY BoundsAssumption DEF TypeOK, ResultType
<1>2. CASE polls = 0
  BY <1>1, <1>2, RaisesType DEF TimePasses
<1>3. CASE polls # 0
  BY <1>1, <1>3 DEF TimePasses
<1> QED BY <1>2, <1>3

LEMMA WaitForServerStatusOK ==
  ASSUME TypeOK, InPlace, WaitForServerStatus
  PROVE  HandlerStep
<1>1. at = "wait" /\ n <= Len(scenario)
  BY DEF WaitForServerStatus, InPlace
<1>2. /\ at' \in {"wait", "fip", "record"} /\ result' \in ResultType /\ faults' \in Nat
      /\ polls' \in 0..Polls
  <2>1. CASE Refused(There) /\ UNCHANGED polls
    BY <2>1, RefusedType DEF TypeOK
  <2>2. CASE at' = "fip" /\ UNCHANGED <<result, polls>> /\ NoFault
    BY <2>2 DEF TypeOK, ResultType, NoFault
  <2>3. CASE Returns({server}) /\ NoFault /\ UNCHANGED polls
    <3>1. {server} \in SUBSET Resources
      BY DEF TypeOK
    <3> QED BY <2>3, <3>1, AnsweredType DEF Answered, TypeOK
  <2>4. CASE Raises /\ NoFault /\ UNCHANGED polls
    BY <2>4, {} \in SUBSET Resources DEF Raises, NoFault, TypeOK, ResultType
  <2>5. CASE TimePasses /\ NoFault
    BY <1>1, <2>5, TimePassesType DEF NoFault, TypeOK
  <2> QED BY <2>1, <2>2, <2>3, <2>4, <2>5 DEF WaitForServerStatus
<1>3. UNCHANGED <<progress, server, search, nova, podman, raft, blind>>
  BY DEF WaitForServerStatus
<1> QED BY <1>1, <1>2, <1>3
        DEF HandlerStep, Verdicts, TypeOK, Places, ResultType, progress, search, nova, podman, raft

LEMMA WaitForDeleteOK ==
  ASSUME TypeOK, InPlace, WaitForDelete
  PROVE  HandlerStep
<1>1. at = "gone" /\ n <= Len(scenario)
  BY DEF WaitForDelete, InPlace
<1>2. {server} \in SUBSET Resources /\ n \in DOMAIN scenario
  BY <1>1, StepType DEF TypeOK
<1>3. /\ at' \in {"gone", "record"} /\ result' \in ResultType /\ faults' \in Nat
      /\ polls' \in 0..Polls /\ blind' \in SUBSET DOMAIN scenario
  <2>1. CASE Deleted /\ NoFault /\ UNCHANGED <<polls, blind>>
    BY <1>2, <2>1, AnsweredType DEF Deleted, Answered, TypeOK
  <2>2. CASE Deleted /\ Fault /\ UNCHANGED polls /\ blind' = blind \cup {n}
    BY <1>2, <2>2 DEF Deleted, Returns, Fault, TypeOK, ResultType
  <2>3. CASE TimePasses /\ NoFault /\ UNCHANGED blind
    BY <1>1, <2>3, TimePassesType DEF NoFault, TypeOK
  <2> QED BY <2>1, <2>2, <2>3 DEF WaitForDelete
<1>4. UNCHANGED <<progress, server, search, nova, podman, raft>>
  BY DEF WaitForDelete
<1> QED BY <1>1, <1>3, <1>4
        DEF HandlerStep, Verdicts, TypeOK, Places, ResultType, progress, search, nova, podman, raft

LEMMA AttachFipOK ==
  ASSUME TypeOK, InPlace, AttachFip
  PROVE  HandlerStep
<1> DEFINE fip == [step |-> n, kind |-> "fip", on |-> {}]
<1>1. at = "fip" /\ n <= Len(scenario)
  BY DEF AttachFip, InPlace
<1>2. fip \in Resources /\ {server, fip} \in SUBSET Resources
  BY {} \in SUBSET Nat DEF TypeOK, Resources, Kinds
<1>3. at' = "record" /\ result' \in ResultType /\ faults' \in Nat /\ cloud' \in SUBSET Resources
  <2>1. CASE cloud' = cloud \cup {fip} /\ Answered({server, fip})
    BY <1>2, <2>1, AnsweredType DEF TypeOK
  <2>2. CASE Refused(TRUE) /\ UNCHANGED cloud
    BY <2>2, RefusedType DEF TypeOK
  <2> QED BY <2>1, <2>2 DEF AttachFip
<1>4. UNCHANGED <<progress, waiting, search, status, podman, raft, blind>>
  BY DEF AttachFip
<1> QED BY <1>1, <1>3, <1>4
        DEF HandlerStep, Verdicts, TypeOK, Places, ResultType, progress, waiting, search, podman,
            raft

LEMMA AttachFloatingIpOK ==
  ASSUME TypeOK, AttachFloatingIp
  PROVE  HandlerStep
<1> DEFINE fip == [step |-> n, kind |-> "fip", on |-> {}]
<1>1. at = "step" /\ n <= Len(scenario)
  BY DEF AttachFloatingIp, Running
<1>2. fip \in Resources
  BY {} \in SUBSET Nat DEF TypeOK, Resources, Kinds
<1>3. at' = "record" /\ result' \in ResultType /\ faults' \in Nat /\ cloud' \in SUBSET Resources
  <2>1. CASE cloud' = cloud \cup {fip} /\ Answered({fip} \cup Named("server"))
    <3>1. {fip} \cup Named("server") \in SUBSET Resources
      BY <1>1, <1>2, NamedType
    <3> QED BY <1>2, <2>1, <3>1, AnsweredType DEF TypeOK
  <2>2. CASE Refused(Finds({"server"})) /\ UNCHANGED cloud
    BY <2>2, RefusedType DEF TypeOK
  <2> QED BY <2>1, <2>2 DEF AttachFloatingIp
<1>4. UNCHANGED <<progress, waiting, search, status, podman, raft, blind>>
  BY DEF AttachFloatingIp
<1> QED BY <1>1, <1>3, <1>4
        DEF HandlerStep, Verdicts, TypeOK, Places, ResultType, progress, waiting, search, podman,
            raft

LEMMA NovaOK ==
  ASSUME TypeOK, InPlace, Nova
  PROVE  HandlerStep
<1>1. CASE BootServer \/ BootServerWithFip
  BY <1>1, BootOK DEF BootServer, BootServerWithFip
<1>2. CASE StopServer \/ StartServer
  BY <1>2, SwitchOK DEF StopServer, StartServer, Statuses
<1>3. CASE WaitForServerStatus \/ AttachFip \/ DeleteServer \/ WaitForDelete
  BY <1>3, WaitForServerStatusOK, AttachFipOK, DeleteServerOK, WaitForDeleteOK
<1>4. CASE AttachFloatingIp
  BY <1>4, AttachFloatingIpOK
<1>5. CASE \/ ShowServer \/ ListServers \/ AttachInterface \/ AttachVolume \/ DetachVolume
           \/ ListHypervisors \/ ListFlavors
  BY <1>5, QueryOK
  DEF ShowServer, ListServers, AttachInterface, AttachVolume, DetachVolume, ListHypervisors,
      ListFlavors
<1> QED BY <1>1, <1>2, <1>3, <1>4, <1>5 DEF Nova

--------------------------------------------------------------------------------
(* The search for the leader, chaos, and the rest of the handlers *)

LEMMA FindRaftLeaderOK ==
  ASSUME TypeOK, FindRaftLeader
  PROVE  HandlerStep
<1>1. at = "step" /\ n <= Len(scenario)
  BY DEF FindRaftLeader, Running
<1>2. /\ at' \in {"asking", "record"} /\ result' \in ResultType /\ faults' \in Nat
      /\ todo' \in Seq(PodSet) /\ found' = NoPod /\ steady' \in BOOLEAN
  <2>1. CASE /\ at' = "asking" /\ todo' = Pods /\ found' = NoPod /\ steady' = TRUE
             /\ NoFault /\ UNCHANGED result
    BY <2>1, PodsAssumption DEF TypeOK, NoFault, ResultType
  <2>2. CASE Refused(Pods # <<>>) /\ found' = NoPod /\ steady' = FALSE /\ UNCHANGED todo
    BY <2>2, RefusedType DEF TypeOK
  <2> QED BY <2>1, <2>2 DEF FindRaftLeader
<1>3. UNCHANGED <<progress, waiting, nova, podman, raft, blind>>
  BY DEF FindRaftLeader
<1> QED BY <1>1, <1>2, <1>3
        DEF HandlerStep, Verdicts, TypeOK, Places, ResultType, progress, waiting, nova, podman,
            raft

LEMMA AskPodOK ==
  ASSUME TypeOK, InPlace, AskPod
  PROVE  HandlerStep
<1>1. at = "asking" /\ n <= Len(scenario)
  BY DEF AskPod, InPlace
<1>2. Head(todo) \in PodSet /\ Tail(todo) \in Seq(PodSet) /\ <<>> \in Seq(PodSet)
  BY DEF AskPod, TypeOK
<1>3. /\ at' \in {"asking", "record"} /\ result' \in ResultType /\ faults' \in Nat
      /\ todo' \in Seq(PodSet) /\ found' \in PodSet \cup {NoPod} /\ steady' \in BOOLEAN
  <2>1. CASE Raises /\ NoFault /\ todo' = <<>> /\ UNCHANGED <<found, steady>>
    BY <1>2, <2>1, {} \in SUBSET Resources DEF Raises, NoFault, TypeOK, ResultType
  <2>2. CASE /\ found' = IF Head(todo) \in claiming THEN Head(todo) ELSE found
             /\ todo' = Tail(todo)
             /\ NoFault /\ UNCHANGED <<at, result, steady>>
    <3>1. found' \in PodSet \cup {NoPod}
      BY <1>2, <2>2 DEF TypeOK
    <3> QED BY <1>1, <1>2, <2>2, <3>1 DEF NoFault, TypeOK, ResultType
  <2>3. CASE /\ todo' = Tail(todo) /\ steady' = FALSE
             /\ Fault /\ UNCHANGED <<at, result, found>>
    <3>1. found' \in PodSet \cup {NoPod}
      BY <2>3 DEF TypeOK
    <3>2. faults' \in Nat /\ result' \in ResultType /\ at' = "asking"
      BY <1>1, <2>3 DEF Fault, TypeOK, ResultType
    <3> QED BY <1>2, <2>3, <3>1, <3>2
  <2> QED BY <2>1, <2>2, <2>3 DEF AskPod
<1>4. UNCHANGED <<progress, waiting, nova, podman, raft, blind>>
  BY DEF AskPod
<1> QED BY <1>1, <1>3, <1>4
        DEF HandlerStep, Verdicts, TypeOK, Places, ResultType, progress, waiting, nova, podman,
            raft

LEMMA AllPodsAskedOK ==
  ASSUME TypeOK, InPlace, AllPodsAsked
  PROVE  HandlerStep
<1> DEFINE pod == [step |-> n, kind |-> "pod", on |-> {}]
<1>1. at = "asking" /\ n <= Len(scenario)
  BY DEF AllPodsAsked, InPlace
<1>2. {pod} \in SUBSET Resources /\ {} \in SUBSET Resources
  <2>1. n \in Nat /\ {} \in SUBSET Nat
    BY DEF TypeOK
  <2>2. pod \in Resources
    BY <2>1 DEF Resources, Kinds
  <2> QED BY <2>2
<1>3. at' = "record" /\ result' \in ResultType
  <2>1. CASE Raises
    BY <2>1, RaisesType
  <2>2. CASE Returns({pod})
    BY <1>2, <2>2 DEF Returns, ResultType
  <2> QED BY <2>1, <2>2 DEF AllPodsAsked
<1>4. UNCHANGED <<progress, search, waiting, nova, podman, raft, faults, blind>>
  BY DEF AllPodsAsked
<1> QED BY <1>1, <1>3, <1>4
        DEF HandlerStep, Verdicts, TypeOK, Places, ResultType, progress, search, waiting, nova,
            podman, raft

LEMMA RunChaosOK ==
  ASSUME TypeOK, RunChaos
  PROVE  HandlerStep
<1>1. at = "step" /\ n <= Len(scenario)
  BY DEF RunChaos, Running
<1>2. n \in DOMAIN scenario
  BY <1>1, StepType
<1>3. /\ at' \in {"chaos", "record"} /\ result' \in ResultType /\ faults' \in Nat
      /\ chaos' \in SUBSET DOMAIN scenario
  <2>1. CASE at' = "chaos" /\ chaos' = chaos \cup {n} /\ NoFault /\ UNCHANGED result
    BY <1>2, <2>1 DEF TypeOK, NoFault, ResultType
  <2>2. CASE Refused(TRUE) /\ UNCHANGED chaos
    BY <2>2, RefusedType DEF TypeOK
  <2> QED BY <2>1, <2>2 DEF RunChaos
<1>4. UNCHANGED <<progress, waiting, search, nova, timedOut, raft, blind>>
  BY DEF RunChaos
<1> QED BY <1>1, <1>3, <1>4
        DEF HandlerStep, Verdicts, TypeOK, Places, ResultType, progress, waiting, search, nova,
            raft

LEMMA ChaosOverOK ==
  ASSUME TypeOK, InPlace, ChaosReturns \/ ChaosTimesOut \/ ChaosClientEnds \/ ChaosRaises
  PROVE  HandlerStep
<1>1. at = "chaos" /\ n <= Len(scenario)
  BY DEF ChaosReturns, ChaosTimesOut, ChaosClientEnds, ChaosLeft, ChaosRaises, InPlace
<1>2. n \in DOMAIN scenario
  BY <1>1, StepType
<1>3. {} \in SUBSET Resources
  OBVIOUS
<1>4. /\ at' = "record" /\ result' \in ResultType /\ faults' \in Nat
      /\ chaos' \in SUBSET DOMAIN scenario /\ timedOut' \in SUBSET DOMAIN scenario
      /\ UNCHANGED <<progress, waiting, search, nova, raft, blind>>
  <2>1. CASE ChaosReturns
    BY <1>3, <2>1, AnsweredType DEF ChaosReturns, podman, TypeOK
  <2>2. CASE ChaosTimesOut \/ ChaosClientEnds
    <3>1. ChaosLeft /\ faults' \in Nat
      BY <2>2 DEF ChaosTimesOut, ChaosClientEnds, NoFault, Fault, TypeOK
    <3>2. at' = "record" /\ result' \in ResultType
      BY <3>1, RaisesType DEF ChaosLeft
    <3> QED BY <1>2, <3>1, <3>2 DEF ChaosLeft, TypeOK
  <2>3. CASE ChaosRaises
    BY <1>3, <2>3 DEF ChaosRaises, Raises, Fault, ResultType, TypeOK
  <2> QED BY <2>1, <2>2, <2>3
<1> QED BY <1>1, <1>4
        DEF HandlerStep, Verdicts, TypeOK, Places, ResultType, progress, waiting, search, nova,
            raft

LEMMA NoHandlerOK ==
  ASSUME TypeOK, NoHandler
  PROVE  HandlerStep
<1>1. at = "step" /\ n <= Len(scenario)
  BY DEF NoHandler
<1>2. at' = "record" /\ result' \in ResultType
  BY {} \in SUBSET Resources DEF NoHandler, Raises, ResultType
<1>3. UNCHANGED <<progress, waiting, search, nova, podman, raft, faults, blind>>
  BY DEF NoHandler
<1> QED BY <1>1, <1>2, <1>3
        DEF HandlerStep, Verdicts, TypeOK, Places, ResultType, progress, waiting, search, nova,
            podman, raft

(* Every step of a handler. *)
Handler ==
  \/ Neutron \/ Nova \/ FindRaftLeader \/ AskPod \/ AllPodsAsked
  \/ RunChaos \/ ChaosReturns \/ ChaosTimesOut \/ ChaosClientEnds \/ ChaosRaises
  \/ Wait \/ Log \/ NoHandler

LEMMA HandlerOK ==
  ASSUME TypeOK, InPlace, Handler
  PROVE  HandlerStep
<1>1. CASE Wait \/ Log
  BY <1>1, QueryOK DEF Wait, Log
<1> QED BY <1>1, NeutronOK, NovaOK, FindRaftLeaderOK, AskPodOK, AllPodsAskedOK, RunChaosOK,
           ChaosOverOK, NoHandlerOK DEF Handler

--------------------------------------------------------------------------------
(* The cloud goes on *)

LEMMA CloudOK ==
  ASSUME TypeOK, Cloud
  PROVE  TypeOK' /\ UNCHANGED <<progress, at>>
<1>1. CASE NovaGoesOn
  <2>1. PICK m \in DOMAIN status :
          /\ status[m] \in DOMAIN Onward
          /\ \E later \in Onward[status[m]] :
               /\ status' = [status EXCEPT ![m] = later]
               /\ cloud' = IF later = "none"
                             THEN {r \in cloud : r.step # m \/ r.kind # "server"} ELSE cloud
    BY <1>1 DEF NovaGoesOn
  <2>2. Onward[status[m]] \subseteq Statuses
    BY <2>1 DEF Onward, Statuses
  <2>3. status' \in [DOMAIN scenario -> Statuses] /\ cloud' \in SUBSET Resources
    BY <2>1, <2>2 DEF TypeOK
  <2>4. UNCHANGED <<progress, at, result, waiting, search, podman, raft, faults, blind>>
    BY <1>1 DEF NovaGoesOn
  <2> QED BY <2>3, <2>4 DEF TypeOK, progress, waiting, search, podman, raft
<1>2. CASE Election
  <2>1. /\ claiming' \in SUBSET PodSet /\ elections' \in Nat /\ steady' = FALSE
        /\ UNCHANGED <<progress, at, result, waiting, todo, found, nova, podman, faults, blind>>
    BY <1>2 DEF Election, TypeOK
  <2> QED BY <2>1 DEF TypeOK, progress, waiting, nova, podman
<1>3. CASE ContainerEnds
  <2>1. chaos' \in SUBSET DOMAIN scenario
    BY <1>3 DEF ContainerEnds, TypeOK
  <2>2. UNCHANGED <<progress, at, result, waiting, search, nova, timedOut, raft, faults, blind>>
    BY <1>3 DEF ContainerEnds
  <2> QED BY <2>1, <2>2 DEF TypeOK, progress, waiting, search, nova, raft
<1> QED BY <1>1, <1>2, <1>3 DEF Cloud

--------------------------------------------------------------------------------
(* The invariant *)

(* What is saved, and by which step, as long as no step is recorded. *)
LEMMA SavedUndisturbed ==
  ASSUME SavedIsLatest, HaveLatest, UNCHANGED <<scenario, saved, outcome, values>>
  PROVE  SavedIsLatest' /\ HaveLatest'
<1> DEFINE Last(S) == CHOOSE m \in S : \A other \in S : other <= m
<1>1. \A k \in Keys : saved[k] = IF Writers(k) = {} THEN {} ELSE values[Last(Writers(k))]
  BY DEF SavedIsLatest, Writers
<1>2. \A k : Writers(k)' = Writers(k)
  BY DEF Writers
<1> HIDE DEF Last
<1>3. \A k \in Keys : saved'[k] = IF Writers(k)' = {} THEN {} ELSE values'[Last(Writers(k)')]
  BY <1>1, <1>2
<1>4. SavedIsLatest'
  BY <1>3 DEF SavedIsLatest, Writers, Last
<1>5. HaveLatest'
  BY <1>2 DEF HaveLatest
<1> QED BY <1>4, <1>5

(* What leaves the engine alone keeps its invariant. *)
LEMMA Undisturbed ==
  ASSUME ScenarioInv, TypeOK', UNCHANGED progress,
         \/ at' = at
         \/ at' \notin Verdicts \cup {"step"} /\ at \notin Verdicts /\ n <= Len(scenario)
  PROVE  ScenarioInv'
<1>1. UNCHANGED <<scenario, n, saved, outcome, values>>
  BY DEF progress
<1>2. InPlace'
  BY <1>1 DEF ScenarioInv, InPlace, Verdicts
<1>3. VerdictIsDeserved'
  BY <1>1 DEF ScenarioInv, VerdictIsDeserved, Verdicts
<1>4. SavedIsLatest' /\ HaveLatest'
  BY <1>1, SavedUndisturbed DEF ScenarioInv
<1> QED BY <1>2, <1>3, <1>4 DEF ScenarioInv

(* The histories grow by the step that ends. *)
LEMMA EndStepPlaces ==
  ASSUME TypeOK, InPlace, at \notin Verdicts, n <= Len(scenario), UNCHANGED scenario,
         NEW ending \in Endings, NEW value \in SUBSET Resources, EndStep(ending, value)
  PROVE  /\ at' \in {"failed", "step"} /\ n' \in 1..Len(scenario) + 1
         /\ outcome' \in Seq(Endings) /\ values' \in Seq(SUBSET Resources)
         /\ InPlace'
<1>1. scenario \in Seq(Steps) /\ n \in Nat /\ Len(scenario) \in Nat /\ n \in 1..Len(scenario)
  BY ScenariosAssumption DEF TypeOK
<1>2. outcome' = Append(outcome, ending) /\ values' = Append(values, value)
  BY DEF EndStep
<1>3. outcome' \in Seq(Endings) /\ Len(outcome') = Len(outcome) + 1
  BY <1>2 DEF TypeOK
<1>4. values' \in Seq(SUBSET Resources) /\ Len(values') = Len(values) + 1
  BY <1>2 DEF TypeOK
<1>5. Len(values) = Len(outcome) /\ Len(outcome) = n - 1
  BY DEF InPlace, Verdicts
<1>6. CASE at' = "failed" /\ UNCHANGED n
  BY <1>1, <1>3, <1>4, <1>5, <1>6 DEF InPlace
<1>7. CASE at' = "step" /\ n' = n + 1
  BY <1>1, <1>3, <1>4, <1>5, <1>7 DEF InPlace
<1> QED BY <1>3, <1>4, <1>6, <1>7 DEF EndStep

(* A step that must not fail is the last one if it does. *)
LEMMA EndStepVerdict ==
  ASSUME TypeOK, InPlace, VerdictIsDeserved, at \notin Verdicts, n <= Len(scenario),
         UNCHANGED scenario,
         NEW ending \in Endings, NEW value, EndStep(ending, value)
  PROVE  VerdictIsDeserved'
<1> DEFINE broken == {m \in DOMAIN outcome : scenario[m].onFailure = "fail" /\ outcome[m] # "ok"}
<1>1. n \in Nat /\ Len(outcome) = n - 1 /\ outcome \in Seq(Endings)
  BY DEF TypeOK, InPlace, Verdicts
<1>2. \A m \in 1..n - 1 : ~(scenario[m].onFailure = "fail" /\ outcome[m] # "ok")
  <2>1. broken = {}
    BY DEF VerdictIsDeserved, Verdicts
  <2> QED BY <1>1, <2>1
<1>3. /\ outcome' = Append(outcome, ending)
      /\ IF Stops(ending) THEN at' = "failed" /\ UNCHANGED n ELSE at' = "step" /\ n' = n + 1
  BY DEF EndStep
<1>4. Stops(ending) <=> scenario[n].onFailure = "fail" /\ ending # "ok"
  BY DEF Stops, Step
<1>5. /\ DOMAIN outcome' = 1..n /\ Len(outcome') = n /\ outcome'[n] = ending
      /\ \A m \in 1..n - 1 : outcome'[m] = outcome[m]
  BY <1>1, <1>3
<1> HIDE DEF broken
<1>6. \A m \in 1..n : (scenario'[m].onFailure = "fail" /\ outcome'[m] # "ok")
                        <=> (m = n /\ Stops(ending))
  BY <1>1, <1>2, <1>4, <1>5
<1>7. broken' = IF Stops(ending) THEN {n} ELSE {}
  <2>1. n \in 1..n
    BY DEF TypeOK
  <2> QED BY <1>5, <1>6, <2>1 DEF broken
<1>8. (at' = "failed" <=> Stops(ending)) /\ at' # "passed"
  BY <1>3
<1> QED BY <1>5, <1>7, <1>8 DEF VerdictIsDeserved, broken

LEMMA LatestIsChosen ==
  ASSUME NEW S, NEW latest, IsLatest(latest, S), S \subseteq Int
  PROVE  (CHOOSE m \in S : \A other \in S : other <= m) = latest
<1> DEFINE chosen == CHOOSE m \in S : \A other \in S : other <= m
<1>1. chosen \in S /\ \A other \in S : other <= chosen
  BY DEF IsLatest
<1>2. chosen <= latest /\ latest <= chosen /\ chosen \in Int /\ latest \in Int
  BY <1>1 DEF IsLatest
<1> QED BY <1>2

(* The step that ends saves under k. *)
Saves(k, ending) == Step.save = k /\ ending # "unsaved"

(* The last writer of a name is the step that ends if it saves, the one before otherwise. *)
LEMMA EndStepSaved ==
  ASSUME TypeOK, InPlace, SavedIsLatest, HaveLatest, at \notin Verdicts, n <= Len(scenario),
         UNCHANGED scenario,
         NEW ending \in Endings, NEW value \in SUBSET Resources, EndStep(ending, value),
         \A k \in Keys : saved'[k] = IF Saves(k, ending) THEN value ELSE saved[k]
  PROVE  SavedIsLatest' /\ HaveLatest'
<1>1. /\ n \in Nat /\ Len(values) = n - 1 /\ Len(outcome) = n - 1
      /\ values \in Seq(SUBSET Resources) /\ outcome \in Seq(Endings)
  BY DEF TypeOK, InPlace, Verdicts
<1>2. /\ DOMAIN values = 1..n - 1 /\ DOMAIN values' = 1..n /\ values'[n] = value
      /\ \A m \in 1..n - 1 : values'[m] = values[m]
  BY <1>1 DEF EndStep
<1>3. outcome'[n] = ending /\ \A m \in 1..n - 1 : outcome'[m] = outcome[m]
  BY <1>1 DEF EndStep
<1>4. n \in 1..n /\ Step = scenario[n]
  BY DEF TypeOK, Step
<1> SUFFICES ASSUME NEW k \in Keys
             PROVE  /\ saved'[k] = IF Writers(k)' = {} THEN {}
                       ELSE values'[CHOOSE m \in Writers(k)' : \A other \in Writers(k)' : other <= m]
                    /\ Writers(k)' = {} \/ \E m : IsLatest(m, Writers(k)')
  BY DEF SavedIsLatest, HaveLatest, Writers, IsLatest
<1>5. CASE Saves(k, ending)
  <2>1. IsLatest(n, Writers(k)') /\ Writers(k)' \subseteq Int
    BY <1>1, <1>2, <1>3, <1>4, <1>5 DEF Writers, IsLatest, Saves
  <2>2. Writers(k)' # {}
    BY <2>1 DEF IsLatest
  <2> QED BY <1>2, <1>5, <2>1, <2>2, LatestIsChosen
<1>6. CASE ~Saves(k, ending)
  <2>1. Writers(k)' = Writers(k) /\ Writers(k) \subseteq 1..n - 1 /\ Writers(k) \subseteq Int
    BY <1>1, <1>2, <1>3, <1>4, <1>6 DEF Writers, Saves
  <2>2. saved'[k] = saved[k]
    BY <1>6
  <2>3. saved[k] = IF Writers(k) = {} THEN {}
                   ELSE values[CHOOSE m \in Writers(k) : \A other \in Writers(k) : other <= m]
    BY DEF SavedIsLatest, Writers
  <2>4. Writers(k) = {} \/ \E m : IsLatest(m, Writers(k))
    BY DEF HaveLatest
  <2>5. CASE Writers(k) = {}
    BY <2>1, <2>2, <2>3, <2>5
  <2>6. ASSUME NEW latest, IsLatest(latest, Writers(k))
        PROVE  saved'[k] = values'[CHOOSE m \in Writers(k)' : \A other \in Writers(k)' : other <= m]
    <3>1. latest \in Writers(k) /\ latest \in 1..n - 1
      BY <2>1, <2>6 DEF IsLatest
    <3>2. (CHOOSE m \in Writers(k) : \A other \in Writers(k) : other <= m) = latest
      BY <2>1, <2>6, LatestIsChosen
    <3>3. saved[k] = values[latest]
      BY <2>3, <3>1, <3>2
    <3> QED BY <1>2, <2>1, <2>2, <3>1, <3>2, <3>3
  <2>7. ASSUME NEW latest, IsLatest(latest, Writers(k)) PROVE Writers(k)' # {}
    BY <2>1, <2>7 DEF IsLatest
  <2> QED BY <2>1, <2>4, <2>5, <2>6, <2>7
<1> QED BY <1>5, <1>6

LEMMA RecordStepOK ==
  ASSUME ScenarioInv, RecordStep
  PROVE  ScenarioInv'
<1>1. TypeOK /\ InPlace /\ VerdictIsDeserved /\ SavedIsLatest /\ HaveLatest
  BY DEF ScenarioInv
<1>2. /\ at \notin Verdicts /\ n <= Len(scenario) /\ saved' = Saved
      /\ UNCHANGED <<scenario, result, waiting, search, nova, podman, raft, blind>>
  BY <1>1 DEF RecordStep, InPlace, Verdicts
<1>3. PICK ending \in {"ok", "failed", "raised"} : EndStep(ending, result.value)
  <2>1. CASE EndStep(IF result.success THEN "ok" ELSE "failed", result.value)
    BY <2>1
  <2> QED BY <2>1 DEF RecordStep
<1>4. ending \in Endings /\ result.value \in SUBSET Resources
  BY <1>1 DEF Endings, TypeOK
<1>5. Step \in Steps /\ \A k \in Keys : k # NoKey
  BY <1>1, <1>2, StepType, ScenariosAssumption
<1>6. saved' \in [Keys -> SUBSET Resources]
  BY <1>1, <1>2, <1>4, <1>5 DEF Saved, TypeOK, Steps
<1>7. \A k \in Keys : saved'[k] = IF Saves(k, ending) THEN result.value ELSE saved[k]
  BY <1>1, <1>2, <1>3, <1>5 DEF Saved, Saves, TypeOK, Steps
<1>8. faults' \in Nat
  BY <1>1 DEF RecordStep, Fault, NoFault, TypeOK
<1>9. /\ at' \in {"failed", "step"} /\ n' \in 1..Len(scenario) + 1
      /\ outcome' \in Seq(Endings) /\ values' \in Seq(SUBSET Resources)
      /\ InPlace'
  BY <1>1, <1>2, <1>3, <1>4, EndStepPlaces
<1>10. TypeOK'
  BY <1>1, <1>2, <1>6, <1>8, <1>9 DEF TypeOK, Places, waiting, search, nova, podman, raft
<1>11. VerdictIsDeserved'
  BY <1>1, <1>2, <1>3, <1>4, EndStepVerdict
<1>12. SavedIsLatest' /\ HaveLatest'
  BY <1>1, <1>2, <1>3, <1>4, <1>7, EndStepSaved
<1> QED BY <1>9, <1>10, <1>11, <1>12 DEF ScenarioInv

LEMMA StepRaisesOK ==
  ASSUME ScenarioInv, StepRaises
  PROVE  ScenarioInv'
<1>1. TypeOK /\ InPlace /\ VerdictIsDeserved /\ SavedIsLatest /\ HaveLatest
  BY DEF ScenarioInv
<1>2. /\ at \notin Verdicts /\ n <= Len(scenario) /\ EndStep("unsaved", {}) /\ Fault
      /\ UNCHANGED <<scenario, saved, result, waiting, search, nova, podman, raft, blind>>
  BY DEF StepRaises, Verdicts
<1>3. "unsaved" \in Endings /\ {} \in SUBSET Resources
  BY DEF Endings
<1>4. \A k \in Keys : saved'[k] = IF Saves(k, "unsaved") THEN {} ELSE saved[k]
  BY <1>2 DEF Saves
<1>5. /\ at' \in {"failed", "step"} /\ n' \in 1..Len(scenario) + 1
      /\ outcome' \in Seq(Endings) /\ values' \in Seq(SUBSET Resources)
      /\ InPlace'
  BY <1>1, <1>2, <1>3, EndStepPlaces
<1>6. faults' \in Nat
  BY <1>1, <1>2 DEF Fault, TypeOK
<1>7. TypeOK'
  BY <1>1, <1>2, <1>5, <1>6 DEF TypeOK, Places, waiting, search, nova, podman, raft
<1>8. VerdictIsDeserved'
  BY <1>1, <1>2, <1>3, EndStepVerdict
<1>9. SavedIsLatest' /\ HaveLatest'
  BY <1>1, <1>2, <1>3, <1>4, EndStepSaved
<1> QED BY <1>5, <1>7, <1>8, <1>9 DEF ScenarioInv

LEMMA EndScenarioOK ==
  ASSUME ScenarioInv, EndScenario
  PROVE  ScenarioInv'
<1>1. TypeOK /\ InPlace /\ VerdictIsDeserved /\ SavedIsLatest /\ HaveLatest
  BY DEF ScenarioInv
<1>2. /\ at = "step" /\ at' = "passed" /\ n > Len(scenario)
      /\ UNCHANGED <<progress, result, waiting, search, nova, podman, raft, faults, blind>>
  BY DEF EndScenario
<1>3. UNCHANGED <<scenario, n, saved, outcome, values>>
  BY <1>2 DEF progress
<1>4. scenario \in Seq(Steps) /\ Len(scenario) \in Nat /\ n = Len(scenario) + 1
  <2>1. scenario \in Seq(Steps) /\ n \in 1..Len(scenario) + 1
    BY <1>1, ScenariosAssumption DEF TypeOK
  <2> QED BY <1>2, <2>1
<1>5. TypeOK'
  BY <1>1, <1>2, <1>3 DEF TypeOK, Places, waiting, search, nova, podman, raft
<1>6. InPlace'
  BY <1>1, <1>2, <1>3, <1>4 DEF InPlace
<1>7. VerdictIsDeserved'
  <2>1. Len(outcome) = Len(scenario)
    BY <1>1, <1>2, <1>4 DEF InPlace
  <2> QED BY <1>1, <1>2, <1>3, <2>1 DEF VerdictIsDeserved
<1>8. SavedIsLatest' /\ HaveLatest'
  BY <1>1, <1>3, SavedUndisturbed
<1> QED BY <1>5, <1>6, <1>7, <1>8 DEF ScenarioInv

--------------------------------------------------------------------------------
(* The theorems *)

LEMMA InitOK ==
  ASSUME Init
  PROVE  ScenarioInv
<1>1. scenario \in Seq(Steps) /\ Len(scenario) \in Nat /\ n = 1 /\ at = "step"
  BY ScenariosAssumption DEF Init
<1>2. /\ {} \in SUBSET Resources /\ {} \in SUBSET Nat
      /\ result = [success |-> FALSE, value |-> {}] /\ server = NoServer
  BY DEF Init
<1>3. result \in [success : BOOLEAN, value : SUBSET Resources] /\ server \in Resources
  BY <1>2 DEF NoServer, Resources, Kinds
<1>4. saved \in [Keys -> SUBSET Resources] /\ status \in [DOMAIN scenario -> Statuses]
  BY <1>2 DEF Init, Statuses
<1>5. n \in 1..Len(scenario) + 1 /\ polls \in 0..Polls
  BY <1>1, BoundsAssumption DEF Init
<1>6. outcome = <<>> /\ values = <<>> /\ todo = <<>>
  BY DEF Init
<1>7. TypeOK
  BY <1>1, <1>3, <1>4, <1>5, <1>6 DEF Init, TypeOK, Places
<1>8. InPlace
  BY <1>1, <1>6 DEF InPlace
<1>9. VerdictIsDeserved
  BY <1>1, <1>6 DEF VerdictIsDeserved
<1>10. SavedIsLatest /\ HaveLatest
  BY <1>6 DEF Init, SavedIsLatest, HaveLatest, Writers
<1> QED BY <1>7, <1>8, <1>9, <1>10 DEF ScenarioInv

LEMMA NextOK ==
  ASSUME ScenarioInv, [Next]_vars
  PROVE  ScenarioInv'
<1>1. TypeOK /\ InPlace
  BY DEF ScenarioInv
<1>2. CASE Handler
  <2>1. HandlerStep
    BY <1>1, <1>2, HandlerOK
  <2> QED BY <2>1, Undisturbed DEF HandlerStep
<1>3. CASE RecordStep
  BY <1>3, RecordStepOK
<1>7. CASE StepRaises
  BY <1>7, StepRaisesOK
<1>4. CASE EndScenario
  BY <1>4, EndScenarioOK
<1>5. CASE Cloud
  BY <1>1, <1>5, CloudOK, Undisturbed
<1>6. CASE UNCHANGED vars
  <2>1. TypeOK' /\ UNCHANGED <<progress, at>>
    BY <1>1, <1>6 DEF vars, progress, waiting, search, nova, podman, raft, TypeOK
  <2> QED BY <2>1, Undisturbed
<1> QED BY <1>2, <1>3, <1>4, <1>5, <1>6, <1>7 DEF Next, Engine, Handler, Terminated

(* Where the engine is, what has been executed and what is saved belong together. *)
THEOREM Correct == Spec => []ScenarioInv
<1>1. Init => ScenarioInv
  BY InitOK
<1>2. ScenarioInv /\ [Next]_vars => ScenarioInv'
  BY NextOK
<1> QED BY <1>1, <1>2, PTL DEF Spec

(* Every variable keeps its type, for all scenario files and any number of pods. *)
THEOREM TypeCorrect == Spec => []TypeOK
<1>1. ScenarioInv => TypeOK
  BY DEF ScenarioInv
<1> QED BY <1>1, Correct, PTL

(***************************************************************************)
(* A scenario passes only if every step that must not fail succeeded, and  *)
(* no step is executed after one that did not (workflow.py:388-403).       *)
(***************************************************************************)
THEOREM VerdictCorrect == Spec => []VerdictIsDeserved
<1>1. ScenarioInv => VerdictIsDeserved
  BY DEF ScenarioInv
<1> QED BY <1>1, Correct, PTL

(***************************************************************************)
(* A name stands for the result of the last step that saves under it,      *)
(* never for an older one (workflow.py:371).                               *)
(***************************************************************************)
THEOREM SavedCorrect == Spec => []SavedIsLatest
<1>1. ScenarioInv => SavedIsLatest
  BY DEF ScenarioInv
<1> QED BY <1>1, Correct, PTL

--------------------------------------------------------------------------------
(***************************************************************************)
(* What the steps report of the cloud.  Seven operations have effects that *)
(* the reports are about; the handlers of all others begin and end in one  *)
(* call that concerns neither a wait, nor a search, nor a container.       *)
(***************************************************************************)
Special ==
  {"boot_server", "boot_server_with_fip", "stop_server", "start_server", "delete_server",
   "find_raft_leader", "krkn"}

(* Where a handler is tells its operation. *)
HandlerPlaces ==
  /\ at = "wait" => \/ Step.op \in {"boot_server_with_fip", "stop_server", "start_server"}
                    \/ Step.op = "boot_server" /\ Step.wait
  /\ at = "fip" => Step.op = "boot_server_with_fip"
  /\ at = "gone" => Step.op = "delete_server" /\ Step.wait
  /\ at = "asking" => Step.op = "find_raft_leader"
  /\ at = "chaos" => Step.op = "krkn"

(* Resources are made by the steps of this scenario. *)
MadeHere == \A r \in cloud : r.step \in DOMAIN status

(* While a handler waits, nova moves its server to the wanted status or to an error. *)
OnTheWay == CASE Step.op = "stop_server" -> {"stopping", "SHUTOFF"}
              [] Step.op = "start_server" -> {"starting", "ACTIVE"}
              [] OTHER -> {"BUILD", "ACTIVE", "ERROR"}
WaitedFor ==
  /\ at \in {"wait", "fip"} => server.step \in DOMAIN status
  /\ at = "wait" => status[server.step] \in OnTheWay
  /\ at = "fip" => status[server.step] = "ACTIVE"

(* A status that was reported stays: only a task moves a server from it. *)
ReportStays ==
  /\ StatusReported => \A r \in result.value :
                         r.kind = "server" => r.step \in DOMAIN status /\ status[r.step] = Wanted
  /\ DeletionReported /\ n \notin blind => server \notin cloud

(* Pods are asked in their order; as long as nothing moves, found leads those asked. *)
Asked(k) == {Pods[p] : p \in 1..k}
SearchSoFar ==
  at = "asking" /\ steady =>
    \E k \in 0..Len(Pods) :
      /\ todo = SubSeq(Pods, k + 1, Len(Pods))
      /\ Asked(k) \cap claiming = IF found = NoPod THEN {} ELSE {found}

ReportInv ==
  /\ HandlerPlaces /\ MadeHere /\ WaitedFor /\ ReportStays /\ SearchSoFar
  /\ LeaderIsUnambiguous /\ ChaosStaysUnlessTimedOut

(* A handler that ends leaves no place behind; what it reports is left to show. *)
LEMMA AtRecord ==
  ASSUME at' = "record", MadeHere', ReportStays', LeaderIsUnambiguous', ChaosStaysUnlessTimedOut'
  PROVE  ReportInv'
BY DEF ReportInv, HandlerPlaces, WaitedFor, SearchSoFar

LEMMA Failing ==
  ASSUME Raises, MadeHere', LeaderIsUnambiguous', ChaosStaysUnlessTimedOut'
  PROVE  ReportInv'
<1>1. at' = "record" /\ ~result'.success
  BY DEF Raises
<1>2. ReportStays'
  BY <1>1 DEF ReportStays, StatusReported, DeletionReported
<1> QED BY <1>1, <1>2, AtRecord

LEMMA StillMadeHere ==
  ASSUME TypeOK, MadeHere, n <= Len(scenario), DOMAIN status' = DOMAIN status,
         \A r \in cloud' : r \in cloud \/ r.step = n
  PROVE  MadeHere'
<1>1. n \in DOMAIN status
  BY StepType DEF TypeOK
<1> QED BY <1>1 DEF MadeHere

LEMMA ChaosElsewhere ==
  ASSUME ChaosStaysUnlessTimedOut, at # "chaos", UNCHANGED podman
  PROVE  ChaosStaysUnlessTimedOut'
BY DEF ChaosStaysUnlessTimedOut, podman

LEMMA OtherThanSearch ==
  ASSUME UNCHANGED progress, Step.op # "find_raft_leader"
  PROVE  LeaderIsUnambiguous'
BY DEF LeaderIsUnambiguous, progress, Step

(* The handlers of all other operations. *)
Aside ==
  /\ at = "step" /\ at' = "record" /\ n <= Len(scenario)
  /\ Step.op \notin Special
  /\ UNCHANGED <<progress, status, podman>>
  /\ \A r \in cloud' : r \in cloud \/ r.step = n

LEMMA AsideKeeps ==
  ASSUME TypeOK, ReportInv, Aside
  PROVE  ReportInv'
<1> USE DEF Special
<1>1. MadeHere'
  BY StillMadeHere DEF ReportInv, Aside
<1>2. ReportStays'
  BY DEF Aside, ReportStays, StatusReported, DeletionReported, progress, Step
<1>3. LeaderIsUnambiguous'
  BY OtherThanSearch DEF Aside
<1>4. ChaosStaysUnlessTimedOut'
  BY ChaosElsewhere DEF ReportInv, Aside
<1> QED BY <1>1, <1>2, <1>3, <1>4, AtRecord DEF Aside

LEMMA CreateAside ==
  ASSUME NEW operation, operation \notin Special, NEW kind, NEW kinds,
         Create(operation, kind, kinds)
  PROVE  Aside
<1>1. at = "step" /\ n <= Len(scenario) /\ Step.op \notin Special
  BY DEF Create, Running
<1>2. at' = "record"
  BY DEF Create, Answered, Refused, Returns, Raises
<1>3. \A r \in cloud' : r \in cloud \/ r.step = n
  BY DEF Create, New
<1>4. UNCHANGED <<progress, status, podman>>
  BY DEF Create
<1> QED BY <1>1, <1>2, <1>3, <1>4 DEF Aside

LEMMA DeleteAside ==
  ASSUME NEW operation, operation \notin Special, NEW targets, NEW kinds,
         Delete(operation, targets, kinds)
  PROVE  Aside
<1>1. at = "step" /\ n <= Len(scenario) /\ Step.op \notin Special
  BY DEF Delete, Running
<1>2. at' = "record"
  BY DEF Delete, Answered, Refused, Returns, Raises
<1>3. \A r \in cloud' : r \in cloud
  BY DEF Delete, Without
<1>4. UNCHANGED <<progress, status, podman>>
  BY DEF Delete
<1> QED BY <1>1, <1>2, <1>3, <1>4 DEF Aside

LEMMA QueryAside ==
  ASSUME NEW operation, operation \notin Special, NEW kinds, Query(operation, kinds)
  PROVE  Aside
<1>1. at = "step" /\ n <= Len(scenario) /\ Step.op \notin Special
  BY DEF Query, Running
<1>2. at' = "record"
  BY DEF Query, Refused, Returns, Raises
<1>3. UNCHANGED <<progress, nova, podman>>
  BY DEF Query
<1> QED BY <1>1, <1>2, <1>3 DEF Aside, nova

LEMMA NeutronAside ==
  ASSUME Neutron
  PROVE  Aside
<1> USE DEF Special
<1>1. CASE \/ CreateNetwork \/ CreateSubnet \/ CreateRouter \/ CreatePort
  BY <1>1, CreateAside DEF CreateNetwork, CreateSubnet, CreateRouter, CreatePort
<1>2. CASE \/ CreateSecurityGroup \/ CreateSecurityGroupRule \/ CreateFloatingip
           \/ AddInterfaceRouter
  BY <1>2, CreateAside
  DEF CreateSecurityGroup, CreateSecurityGroupRule, CreateFloatingip, AddInterfaceRouter
<1>3. CASE \/ DeleteNetwork \/ DeleteSubnet \/ DeleteRouter \/ DeletePort
  BY <1>3, DeleteAside DEF DeleteNetwork, DeleteSubnet, DeleteRouter, DeletePort
<1>4. CASE DeleteSecurityGroup \/ DeleteFloatingip \/ RemoveInterfaceRouter
  BY <1>4, DeleteAside DEF DeleteSecurityGroup, DeleteFloatingip, RemoveInterfaceRouter
<1>5. CASE ListNetworks \/ ListFloatingIps
  BY <1>5, QueryAside DEF ListNetworks, ListFloatingIps
<1> QED BY <1>1, <1>2, <1>3, <1>4, <1>5 DEF Neutron

LEMMA RestAside ==
  ASSUME \/ ShowServer \/ ListServers \/ AttachFloatingIp \/ AttachInterface \/ AttachVolume
         \/ DetachVolume \/ ListHypervisors \/ ListFlavors \/ Wait \/ Log \/ NoHandler
  PROVE  Aside
<1> USE DEF Special
<1>1. CASE AttachFloatingIp
  BY <1>1 DEF AttachFloatingIp, Running, Answered, Refused, Returns, Raises, Aside
<1>2. CASE ShowServer \/ ListServers \/ AttachInterface \/ AttachVolume \/ DetachVolume
  BY <1>2, QueryAside DEF ShowServer, ListServers, AttachInterface, AttachVolume, DetachVolume
<1>3. CASE ListHypervisors \/ ListFlavors \/ Wait \/ Log
  BY <1>3, QueryAside DEF ListHypervisors, ListFlavors, Wait, Log
<1>4. CASE NoHandler
  <2>1. Step.op \notin Special
    BY <1>4 DEF NoHandler, Operations
  <2> QED BY <1>4, <2>1 DEF NoHandler, Raises, Aside, nova
<1> QED BY <1>1, <1>2, <1>3, <1>4

--------------------------------------------------------------------------------
(* Servers *)

LEMMA BootKeeps ==
  ASSUME TypeOK, ReportInv, NEW operation \in {"boot_server", "boot_server_with_fip"}, NEW waits,
         waits <=> operation = "boot_server_with_fip" \/ Step.wait,
         Boot(operation, waits)
  PROVE  ReportInv'
<1> DEFINE new == New("server", {"network"})
<1>1. at = "step" /\ n <= Len(scenario) /\ Step.op = operation
  BY DEF Boot, Running
<1>2. new.step = n /\ n \in DOMAIN status
  BY <1>1, StepType DEF New, TypeOK
<1>3. UNCHANGED <<progress, search, podman, raft, blind>> /\ Step' = Step
  BY DEF Boot, progress, Step
<1>4. LeaderIsUnambiguous' /\ ChaosStaysUnlessTimedOut'
  BY <1>1, <1>3, OtherThanSearch, ChaosElsewhere DEF ReportInv
<1> HIDE DEF new
<1>5. CASE /\ cloud' = cloud \cup {new}
           /\ status' = [status EXCEPT ![n] = "BUILD"]
           /\ IF waits THEN AwaitOrLost(new, "wait") ELSE Answered({new}) /\ UNCHANGED waiting
  <2>1. MadeHere'
    BY <1>1, <1>2, <1>5, StillMadeHere DEF ReportInv
  <2>2. CASE Raises
    BY <2>1, <2>2, <1>4, Failing
  <2>3. CASE waits /\ Await(new, "wait")
    <3>1. at' = "wait" /\ server' = new
      BY <2>3 DEF Await
    <3>2. HandlerPlaces'
      BY <1>1, <1>3, <2>3, <3>1 DEF HandlerPlaces
    <3>3. status'[server'.step] = "BUILD" /\ server'.step \in DOMAIN status'
      BY <1>2, <1>5, <3>1
    <3>4. WaitedFor'
      BY <1>1, <1>3, <3>1, <3>3 DEF WaitedFor, OnTheWay
    <3>5. ReportStays' /\ SearchSoFar'
      BY <3>1 DEF ReportStays, StatusReported, DeletionReported, SearchSoFar
    <3> QED BY <2>1, <3>2, <3>4, <3>5, <1>4 DEF ReportInv
  <2>4. CASE ~waits /\ Returns({new})
    <3>1. at' = "record" /\ Step'.op = "boot_server" /\ ~Step'.wait
      BY <1>1, <1>3, <2>4 DEF Returns
    <3>2. ReportStays'
      BY <3>1 DEF ReportStays, StatusReported, DeletionReported
    <3> QED BY <2>1, <3>1, <3>2, <1>4, AtRecord
  <2> QED BY <1>5, <2>2, <2>3, <2>4 DEF AwaitOrLost, Answered
<1>6. CASE Refused(Resolves) /\ UNCHANGED <<nova, waiting>>
  <2>1. MadeHere'
    BY <1>6 DEF MadeHere, nova, ReportInv
  <2> QED BY <1>6, <2>1, <1>4, Failing DEF Refused
<1> QED BY <1>5, <1>6 DEF Boot, new

LEMMA SwitchKeeps ==
  ASSUME TypeOK, ReportInv, NEW operation, NEW from, NEW task,
         \/ operation = "stop_server" /\ task = "stopping"
         \/ operation = "start_server" /\ task = "starting",
         Switch(operation, from, task)
  PROVE  ReportInv'
<1>1. at = "step" /\ n <= Len(scenario) /\ Step.op = operation
  BY DEF Switch, Running
<1>2. UNCHANGED <<progress, search, cloud, podman, raft, blind>> /\ Step' = Step
  BY DEF Switch, progress, Step
<1>3. LeaderIsUnambiguous' /\ ChaosStaysUnlessTimedOut'
  BY <1>1, <1>2, OtherThanSearch, ChaosElsewhere DEF ReportInv
<1>4. ASSUME NEW r \in Named("server") \cap cloud, status' = [status EXCEPT ![r.step] = task],
             AwaitOrLost(r, "wait")
      PROVE  ReportInv'
  <2>1. MadeHere'
    BY <1>2, <1>4 DEF MadeHere, ReportInv
  <2>2. CASE Raises
    BY <2>1, <2>2, <1>3, Failing
  <2>3. CASE Await(r, "wait")
    <3>1. at' = "wait" /\ server' = r
      BY <2>3 DEF Await
    <3>2. HandlerPlaces'
      BY <1>1, <1>2, <3>1 DEF HandlerPlaces
    <3>3. status'[server'.step] = task /\ server'.step \in DOMAIN status'
      BY <1>4, <3>1 DEF MadeHere, ReportInv
    <3>4. WaitedFor'
      BY <1>1, <1>2, <3>1, <3>3 DEF WaitedFor, OnTheWay
    <3>5. ReportStays' /\ SearchSoFar'
      BY <3>1 DEF ReportStays, StatusReported, DeletionReported, SearchSoFar
    <3> QED BY <2>1, <3>2, <3>4, <3>5, <1>3 DEF ReportInv
  <2> QED BY <1>4, <2>2, <2>3 DEF AwaitOrLost
<1>5. ASSUME NEW acceptable, Refused(acceptable), UNCHANGED <<status, waiting>>
      PROVE  ReportInv'
  <2>1. MadeHere'
    BY <1>2, <1>5 DEF MadeHere, ReportInv
  <2> QED BY <1>5, <2>1, <1>3, Failing DEF Refused
<1> QED BY <1>4, <1>5 DEF Switch

(* The task of the waiting handler ends in the wanted status, and is never reported as that. *)
LEMMA WantedIsReached ==
  ASSUME TypeOK, ReportInv, at = "wait", Reported(server.step) = Wanted
  PROVE  status[server.step] = Wanted
<1>1. status[server.step] \in OnTheWay
  BY DEF ReportInv, WaitedFor
<1> QED BY <1>1 DEF OnTheWay, Reported, Wanted

LEMMA WaitForServerStatusKeeps ==
  ASSUME TypeOK, ReportInv, WaitForServerStatus
  PROVE  ReportInv'
<1>1. at = "wait"
  BY DEF WaitForServerStatus
<1>2. /\ UNCHANGED <<progress, server, search, nova, podman, raft, blind>>
      /\ UNCHANGED <<scenario, n, cloud, status>> /\ Step' = Step /\ Wanted' = Wanted
  BY DEF WaitForServerStatus, progress, nova, Step, Wanted
<1>3. HandlerPlaces /\ MadeHere /\ WaitedFor
  BY DEF ReportInv
<1>4. Step.op # "find_raft_leader"
  BY <1>1, <1>3 DEF HandlerPlaces
<1>5. MadeHere' /\ LeaderIsUnambiguous' /\ ChaosStaysUnlessTimedOut'
  BY <1>1, <1>2, <1>3, <1>4, OtherThanSearch, ChaosElsewhere DEF MadeHere, ReportInv
<1>6. CASE Raises
  BY <1>5, <1>6, Failing
<1>7. CASE /\ Reported(server.step) = Wanted
           /\ IF Step.op = "boot_server_with_fip" THEN at' = "fip" /\ UNCHANGED result
              ELSE Returns({server})
  <2>1. status[server.step] = Wanted /\ server.step \in DOMAIN status
    BY <1>1, <1>3, <1>7, WantedIsReached DEF WaitedFor
  <2>2. CASE Step.op = "boot_server_with_fip"
    <3>1. at' = "fip" /\ Wanted = "ACTIVE"
      BY <1>7, <2>2 DEF Wanted
    <3>2. HandlerPlaces' /\ WaitedFor'
      BY <1>2, <2>1, <2>2, <3>1 DEF HandlerPlaces, WaitedFor
    <3>3. ReportStays' /\ SearchSoFar'
      BY <3>1 DEF ReportStays, StatusReported, DeletionReported, SearchSoFar
    <3> QED BY <1>5, <3>2, <3>3 DEF ReportInv
  <2>3. CASE Returns({server})
    <3>1. at' = "record" /\ result'.value = {server}
      BY <2>3 DEF Returns
    <3>2. ~DeletionReported'
      BY <1>1, <1>2, <1>3 DEF DeletionReported, HandlerPlaces
    <3>3. ReportStays'
      BY <1>2, <2>1, <3>1, <3>2 DEF ReportStays
    <3> QED BY <1>5, <3>1, <3>3, AtRecord
  <2> QED BY <1>7, <2>2, <2>3
<1>8. CASE at' = at
  <2>1. HandlerPlaces' /\ WaitedFor'
    BY <1>1, <1>2, <1>3, <1>8 DEF HandlerPlaces, WaitedFor, OnTheWay
  <2>2. ReportStays' /\ SearchSoFar'
    BY <1>1, <1>8 DEF ReportStays, StatusReported, DeletionReported, SearchSoFar
  <2> QED BY <1>5, <2>1, <2>2 DEF ReportInv
<1> QED BY <1>6, <1>7, <1>8 DEF WaitForServerStatus, Refused, TimePasses

LEMMA AttachFipKeeps ==
  ASSUME TypeOK, InPlace, ReportInv, AttachFip
  PROVE  ReportInv'
<1> DEFINE fip == [step |-> n, kind |-> "fip", on |-> {}]
<1>1. at = "fip" /\ n <= Len(scenario) /\ Step.op = "boot_server_with_fip"
  BY DEF AttachFip, InPlace, ReportInv, HandlerPlaces
<1>2. /\ UNCHANGED <<progress, waiting, search, status, podman, raft, blind>>
      /\ UNCHANGED <<scenario, n, status>> /\ Step' = Step
  BY DEF AttachFip, progress, Step
<1>3. fip.step = n /\ fip.kind = "fip"
  OBVIOUS
<1>4. LeaderIsUnambiguous' /\ ChaosStaysUnlessTimedOut'
  BY <1>1, <1>2, OtherThanSearch, ChaosElsewhere DEF ReportInv
<1>5. \/ cloud' = cloud \cup {fip} /\ Answered({server, fip})
      \/ Refused(TRUE) /\ UNCHANGED cloud
  BY DEF AttachFip
<1> HIDE DEF fip
<1>6. MadeHere'
  BY <1>1, <1>2, <1>3, <1>5, StillMadeHere DEF ReportInv
<1>7. CASE Raises
  BY <1>4, <1>6, <1>7, Failing
<1>8. CASE Returns({server, fip})
  <2>1. at' = "record" /\ result'.value = {server, fip}
    BY <1>8 DEF Returns
  <2>2. server.step \in DOMAIN status /\ status[server.step] = "ACTIVE"
    BY <1>1 DEF ReportInv, WaitedFor
  <2>3. Wanted' = "ACTIVE" /\ ~DeletionReported'
    BY <1>1, <1>2 DEF Wanted, DeletionReported
  <2>4. ReportStays'
    BY <1>2, <1>3, <2>1, <2>2, <2>3 DEF ReportStays
  <2> QED BY <1>4, <1>6, <2>1, <2>4, AtRecord
<1> QED BY <1>5, <1>7, <1>8 DEF Answered, Refused

LEMMA DeleteServerKeeps ==
  ASSUME TypeOK, ReportInv, DeleteServer
  PROVE  ReportInv'
<1>1. at = "step" /\ n <= Len(scenario) /\ Step.op = "delete_server"
  BY DEF DeleteServer, Running
<1>2. UNCHANGED <<progress, search, cloud, podman, raft, blind>> /\ Step' = Step
  BY DEF DeleteServer, progress, Step
<1>3. LeaderIsUnambiguous' /\ ChaosStaysUnlessTimedOut'
  BY <1>1, <1>2, OtherThanSearch, ChaosElsewhere DEF ReportInv
<1>4. DOMAIN status' = DOMAIN status
  BY DEF DeleteServer
<1>5. MadeHere'
  BY <1>2, <1>4 DEF MadeHere, ReportInv
<1>6. CASE Raises
  BY <1>3, <1>5, <1>6, Failing
<1>7. CASE at' = "gone" /\ Step.wait
  <2>1. HandlerPlaces' /\ WaitedFor'
    BY <1>1, <1>2, <1>7 DEF HandlerPlaces, WaitedFor
  <2>2. ReportStays' /\ SearchSoFar'
    BY <1>7 DEF ReportStays, StatusReported, DeletionReported, SearchSoFar
  <2> QED BY <1>3, <1>5, <2>1, <2>2 DEF ReportInv
<1>8. CASE at' = "record" /\ ~Step.wait
  <2>1. ReportStays'
    BY <1>1, <1>2, <1>8 DEF ReportStays, StatusReported, DeletionReported
  <2> QED BY <1>3, <1>5, <1>8, <2>1, AtRecord
<1> QED BY <1>6, <1>7, <1>8
        DEF DeleteServer, AwaitOrLost, Await, Answered, Returns, Refused

LEMMA WaitForDeleteKeeps ==
  ASSUME TypeOK, ReportInv, WaitForDelete
  PROVE  ReportInv'
<1>1. at = "gone" /\ Step.op = "delete_server" /\ Step.wait
  BY DEF WaitForDelete, ReportInv, HandlerPlaces
<1>2. /\ UNCHANGED <<progress, server, search, nova, podman, raft>>
      /\ UNCHANGED <<scenario, n, cloud, status>> /\ Step' = Step
  BY DEF WaitForDelete, progress, nova, Step
<1>3. MadeHere' /\ LeaderIsUnambiguous' /\ ChaosStaysUnlessTimedOut'
  BY <1>1, <1>2, OtherThanSearch, ChaosElsewhere DEF MadeHere, ReportInv
<1>4. ~StatusReported'
  BY <1>1, <1>2 DEF StatusReported
<1>5. CASE Raises
  BY <1>3, <1>5, Failing
<1>6. CASE Deleted /\ (~There \/ blind' = blind \cup {n})
  <2>1. at' = "record"
    BY <1>6 DEF Deleted, Returns
  <2>2. n' \in blind' \/ server' \notin cloud'
    BY <1>2, <1>6 DEF There
  <2> QED BY <1>3, <1>4, <2>1, <2>2, AtRecord DEF ReportStays
<1>7. CASE at' = at
  <2>1. HandlerPlaces' /\ WaitedFor'
    BY <1>1, <1>2, <1>7 DEF HandlerPlaces, WaitedFor
  <2>2. ReportStays' /\ SearchSoFar'
    BY <1>1, <1>7 DEF ReportStays, StatusReported, DeletionReported, SearchSoFar
  <2> QED BY <1>3, <2>1, <2>2 DEF ReportInv
<1> QED BY <1>5, <1>6, <1>7 DEF WaitForDelete, TimePasses

--------------------------------------------------------------------------------
(* The search: what is known of the pods asked, and of all when none is left. *)

LEMMA PodsFinite ==
  ASSUME TypeOK
  PROVE  IsFiniteSet(claiming) /\ claiming \subseteq Asked(Len(Pods))
<1>1. Pods \in Seq(PodSet) /\ Len(Pods) \in Nat /\ DOMAIN Pods = 1..Len(Pods)
  BY PodsAssumption
<1>2. PodSet = Asked(Len(Pods))
  BY <1>1 DEF PodSet, Asked
<1>3. IsFiniteSet(1..Len(Pods))
  BY <1>1, FS_Interval
<1>4. Pods \in Surjection(1..Len(Pods), PodSet)
  BY <1>1 DEF Surjection, PodSet
<1>5. IsFiniteSet(PodSet)
  BY <1>3, <1>4, FS_Surjection
<1>6. claiming \in SUBSET PodSet
  BY DEF TypeOK
<1> QED BY <1>2, <1>5, <1>6, FS_Subset

LEMMA NotAlone ==
  ASSUME NEW S, IsFiniteSet(S), NEW a \in S, NEW b \in S, a # b
  PROVE  Cardinality(S) # 1
<1> SUFFICES ASSUME Cardinality(S) = 1 PROVE FALSE
  OBVIOUS
<1>1. PICK x : S = {x}
  BY FS_Singleton
<1> QED BY <1>1

LEMMA FindRaftLeaderKeeps ==
  ASSUME TypeOK, ReportInv, FindRaftLeader
  PROVE  ReportInv'
<1>1. at = "step" /\ Step.op = "find_raft_leader"
  BY DEF FindRaftLeader, Running
<1>2. /\ UNCHANGED <<progress, waiting, nova, podman, raft, blind>>
      /\ UNCHANGED <<scenario, n, cloud, status, claiming>> /\ Step' = Step
  BY DEF FindRaftLeader, progress, nova, raft, Step
<1>3. MadeHere' /\ ChaosStaysUnlessTimedOut'
  BY <1>1, <1>2, ChaosElsewhere DEF MadeHere, ReportInv
<1>4. CASE at' = "asking" /\ todo' = Pods /\ found' = NoPod
  <2>1. HandlerPlaces' /\ WaitedFor'
    BY <1>1, <1>2, <1>4 DEF HandlerPlaces, WaitedFor
  <2>2. ReportStays' /\ LeaderIsUnambiguous'
    BY <1>4 DEF ReportStays, StatusReported, DeletionReported, LeaderIsUnambiguous
  <2>3. Pods = SubSeq(Pods, 0 + 1, Len(Pods)) /\ Asked(0) = {} /\ 0 \in 0..Len(Pods)
    BY PodsAssumption DEF Asked
  <2>4. SearchSoFar'
    BY <1>4, <2>3 DEF SearchSoFar
  <2> QED BY <1>3, <2>1, <2>2, <2>4 DEF ReportInv
<1>5. CASE Raises /\ steady' = FALSE
  <2>1. LeaderIsUnambiguous'
    BY <1>5 DEF LeaderIsUnambiguous
  <2> QED BY <1>3, <1>5, <2>1, Failing
<1> QED BY <1>4, <1>5 DEF FindRaftLeader, Refused

(* Asking one more pod. *)
LEMMA AskOneMore ==
  ASSUME NEW k \in 0..Len(Pods), todo = SubSeq(Pods, k + 1, Len(Pods)), todo # <<>>
  PROVE  /\ k + 1 \in 1..Len(Pods) /\ Head(todo) = Pods[k + 1]
         /\ Tail(todo) = SubSeq(Pods, (k + 1) + 1, Len(Pods))
         /\ Asked(k + 1) = Asked(k) \cup {Pods[k + 1]}
         /\ Pods[k + 1] \notin Asked(k)
<1>1. Pods \in Seq(PodSet) /\ Len(Pods) \in Nat /\ k \in Nat /\ DOMAIN Pods = 1..Len(Pods)
  BY PodsAssumption
<1>2. k + 1 \in 1..Len(Pods)
  <2>1. SubSeq(Pods, Len(Pods) + 1, Len(Pods)) = <<>>
    BY <1>1
  <2> QED BY <1>1, <2>1
<1>3. Head(todo) = Pods[k + 1]
  BY <1>1, <1>2
<1>4. Tail(todo) = SubSeq(Pods, (k + 1) + 1, Len(Pods))
  BY <1>1, <1>2
<1>5. 1..k + 1 = (1..k) \cup {k + 1}
  BY <1>1
<1>6. \A p \in 1..k : p \in DOMAIN Pods /\ p # k + 1
  BY <1>1, <1>2
<1>7. \A p \in 1..k : Pods[p] # Pods[k + 1]
  BY <1>1, <1>2, <1>6, PodsAssumption
<1> QED BY <1>2, <1>3, <1>4, <1>5, <1>7 DEF Asked

LEMMA AskPodKeeps ==
  ASSUME TypeOK, ReportInv, AskPod
  PROVE  ReportInv'
<1>1. at = "asking" /\ todo # <<>> /\ Step.op = "find_raft_leader"
  BY DEF AskPod, ReportInv, HandlerPlaces
<1>2. /\ UNCHANGED <<progress, waiting, nova, podman, raft, blind>>
      /\ UNCHANGED <<scenario, n, cloud, status, claiming>> /\ Step' = Step
  BY DEF AskPod, progress, nova, raft, Step
<1>3. MadeHere' /\ ChaosStaysUnlessTimedOut'
  BY <1>1, <1>2, ChaosElsewhere DEF MadeHere, ReportInv
<1>4. CASE /\ Head(todo) \in claiming /\ found # NoPod
           /\ Raises /\ UNCHANGED <<found, steady>>
  <2>1. ASSUME steady PROVE Cardinality(claiming) # 1
    <3>1. PICK k \in 0..Len(Pods) : todo = SubSeq(Pods, k + 1, Len(Pods)) /\ Asked(k) \cap claiming = {found}
      BY <1>1, <1>4, <2>1 DEF ReportInv, SearchSoFar
    <3>2. Head(todo) # found /\ found \in claiming
      BY <1>1, <3>1, AskOneMore
    <3> QED BY <1>4, <3>2, PodsFinite, NotAlone
  <2>2. LeaderIsUnambiguous'
    BY <1>2, <1>4, <2>1 DEF LeaderIsUnambiguous, Raises
  <2> QED BY <1>3, <1>4, <2>2, Failing
<1>5. CASE at' = at /\ todo' = Tail(todo)
           /\ \/ steady' = FALSE
              \/ /\ ~(Head(todo) \in claiming /\ found # NoPod) /\ UNCHANGED steady
                 /\ found' = IF Head(todo) \in claiming THEN Head(todo) ELSE found
  <2>1. HandlerPlaces' /\ WaitedFor'
    BY <1>1, <1>2, <1>5 DEF HandlerPlaces, WaitedFor
  <2>2. ReportStays' /\ LeaderIsUnambiguous'
    BY <1>1, <1>5 DEF ReportStays, StatusReported, DeletionReported, LeaderIsUnambiguous
  <2>3. SearchSoFar'
    <3> SUFFICES ASSUME steady'
                 PROVE  \E k \in 0..Len(Pods) :
                          /\ todo' = SubSeq(Pods, k + 1, Len(Pods))
                          /\ Asked(k) \cap claiming = IF found' = NoPod THEN {} ELSE {found'}
      BY <1>2 DEF SearchSoFar, Asked
    <3>1. /\ steady /\ ~(Head(todo) \in claiming /\ found # NoPod)
          /\ found' = IF Head(todo) \in claiming THEN Head(todo) ELSE found
      BY <1>5
    <3>2. PICK k \in 0..Len(Pods) : todo = SubSeq(Pods, k + 1, Len(Pods)) /\ Asked(k) \cap claiming = (IF found = NoPod THEN {} ELSE {found})
      BY <1>1, <3>1 DEF ReportInv, SearchSoFar
    <3>3. /\ k + 1 \in 1..Len(Pods) /\ Head(todo) = Pods[k + 1]
          /\ Tail(todo) = SubSeq(Pods, (k + 1) + 1, Len(Pods))
          /\ Asked(k + 1) = Asked(k) \cup {Head(todo)}
      BY <1>1, <3>2, AskOneMore
    <3>4. k + 1 \in DOMAIN Pods /\ k + 1 \in 0..Len(Pods)
      BY <3>3, PodsAssumption
    <3>5. Head(todo) # NoPod
      BY <3>3, <3>4, PodsAssumption DEF PodSet
    <3>6. Asked(k + 1) \cap claiming = IF found' = NoPod THEN {} ELSE {found'}
      BY <3>1, <3>2, <3>3, <3>5
    <3> QED BY <1>5, <3>3, <3>4, <3>6
  <2> QED BY <1>3, <2>1, <2>2, <2>3 DEF ReportInv
<1> QED BY <1>4, <1>5 DEF AskPod

LEMMA AllPodsAskedKeeps ==
  ASSUME TypeOK, ReportInv, AllPodsAsked
  PROVE  ReportInv'
<1> DEFINE pod == [step |-> n, kind |-> "pod", on |-> {}]
<1>1. at = "asking" /\ todo = <<>> /\ Step.op = "find_raft_leader"
  BY DEF AllPodsAsked, ReportInv, HandlerPlaces
<1>2. /\ UNCHANGED <<progress, search, waiting, nova, podman, raft, faults, blind>>
      /\ UNCHANGED <<scenario, n, cloud, status, claiming, found, steady>> /\ Step' = Step
  BY DEF AllPodsAsked, progress, search, nova, raft, Step
<1>3. MadeHere' /\ ChaosStaysUnlessTimedOut'
  BY <1>1, <1>2, ChaosElsewhere DEF MadeHere, ReportInv
<1>4. ASSUME steady PROVE claiming = IF found = NoPod THEN {} ELSE {found}
  <2>1. PICK k \in 0..Len(Pods) : todo = SubSeq(Pods, k + 1, Len(Pods)) /\ Asked(k) \cap claiming = (IF found = NoPod THEN {} ELSE {found})
    BY <1>1, <1>4 DEF ReportInv, SearchSoFar
  <2>2. k = Len(Pods)
    <3>1. Pods \in Seq(PodSet) /\ Len(Pods) \in Nat /\ k \in Nat
      BY PodsAssumption
    <3>2. Len(todo) = 0
      BY <1>1
    <3>3. Len(SubSeq(Pods, k + 1, Len(Pods))) = IF k + 1 <= Len(Pods) THEN Len(Pods) - k ELSE 0
      BY <3>1
    <3> QED BY <2>1, <3>1, <3>2, <3>3
  <2>3. claiming \subseteq Asked(k)
    BY <2>2, PodsFinite
  <2> QED BY <2>1, <2>3
<1>5. at' = "record" /\ (result'.success <=> found # NoPod)
  BY DEF AllPodsAsked, Raises, Returns
<1>6. LeaderIsUnambiguous'
  <2>1. Cardinality({}) # 1
    BY FS_EmptySet
  <2> QED BY <1>2, <1>4, <1>5, <2>1 DEF LeaderIsUnambiguous
<1>7. ReportStays'
  BY <1>1, <1>2 DEF ReportStays, StatusReported, DeletionReported
<1> QED BY <1>3, <1>5, <1>6, <1>7, AtRecord

--------------------------------------------------------------------------------
(* Chaos *)

LEMMA ChaosKeeps ==
  ASSUME TypeOK, ReportInv,
         RunChaos \/ ChaosReturns \/ ChaosTimesOut \/ ChaosClientEnds \/ ChaosRaises
  PROVE  ReportInv'
<1> USE DEF ChaosTimesOut, ChaosClientEnds
<1>1. Step.op = "krkn" /\ at \in {"step", "chaos"}
  BY DEF RunChaos, Running, ChaosReturns, ChaosLeft, ChaosRaises, ReportInv, HandlerPlaces
<1>2. UNCHANGED <<scenario, n, cloud, status>> /\ UNCHANGED progress /\ Step' = Step
  BY DEF RunChaos, ChaosReturns, ChaosLeft, ChaosRaises, progress, nova, Step
<1>3. MadeHere' /\ LeaderIsUnambiguous'
  BY <1>1, <1>2, OtherThanSearch DEF MadeHere, ReportInv
<1>4. ChaosStaysUnlessTimedOut'
  <2>1. ChaosStaysUnlessTimedOut
    BY DEF ReportInv
  <2>2. CASE RunChaos
    <3>1. at = "step" /\ UNCHANGED timedOut
      BY <2>2 DEF RunChaos, Running
    <3>2. \/ at' = "chaos" /\ chaos' = chaos \cup {n}
          \/ UNCHANGED chaos
      BY <2>2 DEF RunChaos
    <3> QED BY <1>2, <2>1, <3>1, <3>2 DEF ChaosStaysUnlessTimedOut
  <2>3. CASE ChaosReturns
    BY <1>2, <2>1, <2>3 DEF ChaosReturns, ChaosStaysUnlessTimedOut, podman
  <2>4. CASE ChaosLeft
    BY <1>2, <2>1, <2>4 DEF ChaosLeft, ChaosStaysUnlessTimedOut
  <2>5. CASE ChaosRaises
    BY <1>2, <2>1, <2>5 DEF ChaosRaises, ChaosStaysUnlessTimedOut
  <2> QED BY <2>2, <2>3, <2>4, <2>5
<1>5. ReportStays'
  BY <1>1, <1>2 DEF ReportStays, StatusReported, DeletionReported
<1>6. at' \in {"chaos", "record"}
  BY DEF RunChaos, ChaosReturns, ChaosLeft, ChaosRaises, Answered, Refused, Returns, Raises
<1>7. HandlerPlaces' /\ WaitedFor' /\ SearchSoFar'
  BY <1>1, <1>2, <1>6 DEF HandlerPlaces, WaitedFor, SearchSoFar
<1> QED BY <1>3, <1>4, <1>5, <1>7 DEF ReportInv

--------------------------------------------------------------------------------
(* The engine and the cloud *)

LEMMA EngineKeeps ==
  ASSUME TypeOK, ReportInv, RecordStep \/ StepRaises \/ EndScenario
  PROVE  ReportInv'
<1>1. at \in {"record", "step"} /\ at' \in {"failed", "step", "passed"}
  BY DEF RecordStep, StepRaises, EndStep, EndScenario
<1>2. UNCHANGED <<nova, podman>>
  BY DEF RecordStep, StepRaises, EndScenario
<1>3. HandlerPlaces' /\ WaitedFor' /\ SearchSoFar' /\ ReportStays' /\ LeaderIsUnambiguous'
  BY <1>1 DEF HandlerPlaces, WaitedFor, SearchSoFar, ReportStays, StatusReported,
              DeletionReported, LeaderIsUnambiguous
<1>4. MadeHere' /\ ChaosStaysUnlessTimedOut'
  BY <1>1, <1>2, ChaosElsewhere DEF MadeHere, nova, ReportInv
<1> QED BY <1>3, <1>4 DEF ReportInv

LEMMA NovaGoesOnKeeps ==
  ASSUME TypeOK, ReportInv, NovaGoesOn
  PROVE  ReportInv'
<1>1. /\ UNCHANGED <<progress, at, result, waiting, search, podman, raft, faults, blind>>
      /\ UNCHANGED <<scenario, n, server, found, steady, todo, claiming, chaos, timedOut>>
      /\ Step' = Step /\ Wanted' = Wanted /\ OnTheWay' = OnTheWay
  BY DEF NovaGoesOn, progress, waiting, search, podman, raft, Step, Wanted, OnTheWay
<1> PICK m \in DOMAIN status :
      /\ status[m] \in DOMAIN Onward
      /\ \E later \in Onward[status[m]] : status' = [status EXCEPT ![m] = later]
  BY DEF NovaGoesOn
<1>2. PICK later \in Onward[status[m]] : status' = [status EXCEPT ![m] = later]
  OBVIOUS
<1>3. cloud' \subseteq cloud
  BY DEF NovaGoesOn
<1>4. /\ DOMAIN status' = DOMAIN status
      /\ \A s \in DOMAIN status : s # m => status'[s] = status[s]
      /\ status'[m] = later
  BY <1>2
<1>5. \/ status[m] = "BUILD" /\ later \in {"ACTIVE", "ERROR"}
      \/ status[m] = "stopping" /\ later = "SHUTOFF"
      \/ status[m] = "starting" /\ later = "ACTIVE"
      \/ status[m] = "deleting"
  BY <1>2 DEF Onward
<1>6. \A s \in DOMAIN status : status[s] \in {"ACTIVE", "SHUTOFF"} => status'[s] = status[s]
  BY <1>4, <1>5
<1>7. \A s \in DOMAIN status : status[s] \in OnTheWay => status'[s] \in OnTheWay
  BY <1>4, <1>5 DEF OnTheWay
<1>8. HandlerPlaces' /\ SearchSoFar' /\ LeaderIsUnambiguous' /\ ChaosStaysUnlessTimedOut'
  BY <1>1 DEF ReportInv, HandlerPlaces, SearchSoFar, Asked, LeaderIsUnambiguous,
              ChaosStaysUnlessTimedOut
<1>9. MadeHere'
  BY <1>3, <1>4 DEF ReportInv, MadeHere
<1>10. WaitedFor'
  BY <1>1, <1>4, <1>6, <1>7 DEF ReportInv, WaitedFor
<1>11. ReportStays'
  <2>1. Wanted \in {"ACTIVE", "SHUTOFF"}
    BY DEF Wanted
  <2>2. (StatusReported' <=> StatusReported) /\ (DeletionReported' <=> DeletionReported)
    BY <1>1 DEF StatusReported, DeletionReported
  <2>3. UNCHANGED <<blind, server, result, n>>
    BY <1>1
  <2> QED BY <1>1, <1>3, <1>4, <1>6, <2>1, <2>2, <2>3 DEF ReportInv, ReportStays
<1> QED BY <1>8, <1>9, <1>10, <1>11 DEF ReportInv

LEMMA ElectionKeeps ==
  ASSUME TypeOK, ReportInv, Election
  PROVE  ReportInv'
<1>1. /\ at = "asking" /\ steady' = FALSE
      /\ UNCHANGED <<at, scenario, n, cloud, status, chaos, timedOut>> /\ Step' = Step
  BY DEF Election, progress, nova, podman, Step
<1>2. HandlerPlaces' /\ MadeHere' /\ ChaosStaysUnlessTimedOut'
  BY <1>1 DEF ReportInv, HandlerPlaces, MadeHere, ChaosStaysUnlessTimedOut
<1>3. WaitedFor' /\ ReportStays' /\ SearchSoFar' /\ LeaderIsUnambiguous'
  BY <1>1 DEF WaitedFor, ReportStays, StatusReported, DeletionReported, SearchSoFar,
              LeaderIsUnambiguous
<1> QED BY <1>2, <1>3 DEF ReportInv

LEMMA StandsStill ==
  ASSUME ReportInv, chaos' \subseteq chaos,
         UNCHANGED <<progress, at, result, waiting, search, nova, timedOut, raft, blind>>
  PROVE  ReportInv'
<1>1. /\ UNCHANGED <<scenario, n, at, result, server, todo, found, steady, cloud, status>>
      /\ UNCHANGED <<timedOut, claiming, blind>> /\ Step' = Step
  BY DEF progress, waiting, search, nova, raft, Step
<1>2. HandlerPlaces' /\ MadeHere' /\ WaitedFor' /\ SearchSoFar'
  BY <1>1 DEF ReportInv, HandlerPlaces, MadeHere, WaitedFor, OnTheWay, SearchSoFar, Asked
<1>3. ReportStays' /\ LeaderIsUnambiguous' /\ ChaosStaysUnlessTimedOut'
  BY <1>1 DEF ReportInv, ReportStays, StatusReported, DeletionReported, Wanted,
              LeaderIsUnambiguous, ChaosStaysUnlessTimedOut
<1> QED BY <1>2, <1>3 DEF ReportInv

LEMMA NovaKeeps ==
  ASSUME TypeOK, InPlace, ReportInv, Nova
  PROVE  ReportInv'
<1>1. CASE BootServer
  <2>1. Step.op = "boot_server"
    BY <1>1 DEF BootServer, Boot, Running
  <2> QED BY <1>1, <2>1, BootKeeps DEF BootServer
<1>2. CASE BootServerWithFip
  BY <1>2, BootKeeps DEF BootServerWithFip
<1>3. CASE StopServer \/ StartServer
  BY <1>3, SwitchKeeps DEF StopServer, StartServer
<1>4. CASE WaitForServerStatus \/ AttachFip \/ DeleteServer \/ WaitForDelete
  BY <1>4, WaitForServerStatusKeeps, AttachFipKeeps, DeleteServerKeeps, WaitForDeleteKeeps
<1>5. CASE \/ ShowServer \/ ListServers \/ AttachFloatingIp \/ AttachInterface \/ AttachVolume
           \/ DetachVolume \/ ListHypervisors \/ ListFlavors
  BY <1>5, RestAside, AsideKeeps
<1> QED BY <1>1, <1>2, <1>3, <1>4, <1>5 DEF Nova

LEMMA ReportStep ==
  ASSUME TypeOK, InPlace, ReportInv, [Next]_vars
  PROVE  ReportInv'
<1>1. CASE Neutron \/ Wait \/ Log \/ NoHandler
  BY <1>1, NeutronAside, RestAside, AsideKeeps
<1>2. CASE Nova
  BY <1>2, NovaKeeps
<1>3. CASE FindRaftLeader \/ AskPod \/ AllPodsAsked
  BY <1>3, FindRaftLeaderKeeps, AskPodKeeps, AllPodsAskedKeeps
<1>4. CASE RunChaos \/ ChaosReturns \/ ChaosTimesOut \/ ChaosClientEnds \/ ChaosRaises
  BY <1>4, ChaosKeeps
<1>5. CASE RecordStep \/ StepRaises \/ EndScenario
  BY <1>5, EngineKeeps
<1>6. CASE Cloud
  <2>1. CASE ContainerEnds
    BY <2>1, StandsStill DEF ContainerEnds
  <2> QED BY <1>6, <2>1, NovaGoesOnKeeps, ElectionKeeps DEF Cloud
<1>7. CASE UNCHANGED vars
  BY <1>7, StandsStill DEF vars, podman
<1> QED BY <1>1, <1>2, <1>3, <1>4, <1>5, <1>6, <1>7 DEF Next, Engine, Terminated

LEMMA Reports == Spec => []ReportInv
<1>1. Init => ReportInv
  BY DEF Init, ReportInv, HandlerPlaces, MadeHere, WaitedFor, ReportStays, StatusReported,
         DeletionReported, SearchSoFar, LeaderIsUnambiguous, ChaosStaysUnlessTimedOut
<1>2. TypeOK /\ InPlace /\ ReportInv /\ [Next]_vars => ReportInv'
  BY ReportStep
<1>3. ScenarioInv => TypeOK /\ InPlace
  BY DEF ScenarioInv
<1> QED BY <1>1, <1>2, <1>3, Correct, PTL DEF Spec

(***************************************************************************)
(* A status a step reports is the server's and stays it, a deletion whose  *)
(* polls were answered is one, and an undisturbed search names the only    *)
(* leader or there is not one: for any cloud, any faults and any number of *)
(* pods (nova/__init__.py:54-73 and 255, oc/__init__.py).  The induction   *)
(* needs which status the server of each waiting handler can be in, and    *)
(* that the pods asked so far have no other leader than found.             *)
(***************************************************************************)
THEOREM ReportsCorrect == Spec => []ReportsAreTrue
<1>1. ReportInv => ReportsAreTrue
  BY DEF ReportInv, ReportStays, ReportsAreTrue, WaitsAreHonest
<1> QED BY <1>1, Reports, PTL

(***************************************************************************)
(* A chaos container is alone with its step, unless podman run ended first *)
(* (krkn/__init__.py:160 and 176-183).                                     *)
(***************************************************************************)
THEOREM ChaosIsCleanedUp == Spec => []ChaosStaysUnlessTimedOut
<1>1. ReportInv => ChaosStaysUnlessTimedOut
  BY DEF ReportInv
<1> QED BY <1>1, Reports, PTL
================================================================================
