-------------------------- MODULE RallyCleanup_proofs --------------------------
(***************************************************************************)
(* Proofs about RallyCleanup, and the NetworkContext it extends, for any    *)
(* tasks, any number of runs, networks and sweeps and any faults: the type  *)
(* invariant, what the cleanup of the context leaves, that runs without a   *)
(* failure do not hinder each other, and that the script leaves nothing but *)
(* networks it tried often enough.                                          *)
(***************************************************************************)
EXTENDS RallyCleanup, TLAPS

LEMMA TaskFacts ==
  ASSUME task \in Tasks
  PROVE  /\ N \in Nat \ {0} /\ task.tenants \in Nat \ {0} /\ task.times \in Nat
         /\ {task.vlans, task.named, task.foreign} \subseteq BOOLEAN
         /\ N + task.tenants - 1 <= MaxNetworks
         /\ MaxNetworks \in Nat \ {0} /\ N <= MaxNetworks
BY ContextAssumption DEF N

LEMMA Orders ==
  /\ DOMAIN Order = 1..6 /\ Len(Order) = 6
  /\ Order[1] = "server" /\ Order[2] = "fip" /\ Order[3] = "port" /\ Order[4] = "router"
  /\ Order[5] = "group" /\ Order[6] = "network"
BY DEF Order

LEMMA ThingParts ==
  ASSUME NEW x \in Things
  PROVE  /\ x[1] \in Kinds /\ x = <<x[1], x[2], x[3]>>
         /\ x # OthersFip => x[2] \in 1..Runs /\ x[3] \in 1..MaxNetworks
         /\ x = OthersFip => x[1] = "fip"
BY DEF Things, OthersFip, Kinds

LEMMA ThingMade ==
  ASSUME NEW k \in Kinds, NEW r \in 1..Runs, NEW n \in 1..MaxNetworks
  PROVE  <<k, r, n>> \in Things
BY DEF Things

--------------------------------------------------------------------------------
(***************************************************************************)
(* Types.  The networks made stay below MaxNetworks because the inner loop  *)
(* over the tenants starts with fewer than are asked for.                   *)
(***************************************************************************)
SetupPoints == {"setup", "link_add", "link_up", "link_ip", "network", "subnet"}
MakingPoints == {"link_add", "link_up", "link_ip", "network"}
CleaningPoints == {"clean_network", "clean_link"}

RoomLeft ==
  /\ created <= N + task.tenants - 1
  /\ at \in MakingPoints => tenant > 0 /\ created + 1 <= N + tenant - 1
  /\ at = "subnet" => tenant > 0 /\ created > 0 /\ created <= N + tenant - 1
  /\ at \in CleaningPoints \cup {"iterate", "sweep_link"} => index > 0
  /\ at \in CleaningPoints => index <= N

(***************************************************************************)
(* What the script has been past is gone: a pool whose processes all did    *)
(* their work has left nothing of what was listed.  Ports it does not find  *)
(* by name belong to a router that cannot be deleted before them.           *)
(***************************************************************************)
SweptSoFar ==
  /\ \A x \in doomed : x[1] = "server"
  /\ pool => at = "sweep" /\ \A x \in todo : x[1] = Kind
  /\ pool /\ ret /\ Kind # "server" => Found(Kind) \subseteq todo
  /\ \A r \in 1..Runs, n \in 1..MaxNetworks :
       <<"port", r, n>> \in left => <<"router", r, n>> \in left
  /\ at = "sweep" => \A x \in left : \A k \in 1..stage - 1 :
       x[1] = Order[k] => x[1] = "port" /\ ~task.named
  /\ at = "sweep_link" => left = {} \/ (tries = MaxAttempts /\ left \subseteq Networks)
  /\ at = "sweep_link" /\ withLinks /\ task.vlans =>
       \A n \in links : n < index => n > N \/ Link(n) \in kept

LEMMA TypesInit == Init => TypeOK /\ RoomLeft
<1> SUFFICES ASSUME Init PROVE TypeOK /\ RoomLeft
  OBVIOUS
<1>1. task \in Tasks /\ round \in 1..Runs
  BY ContextAssumption DEF Init, ContextInit
<1>2. ContextTypeOK
  <2>1. /\ tenant = 0 /\ created = 0 /\ index = 0 /\ faults = 0 /\ bound = FALSE
        /\ subnetted = {} /\ links = {} /\ left \subseteq Things /\ kept = {} /\ unserved = {}
    BY DEF Init, ContextInit, Things
  <2>2. /\ 0 \in 0..task.tenants /\ 0 \in 0..MaxNetworks /\ 0 \in 0..MaxFaults
    BY <1>1, TaskFacts, ContextAssumption
  <2> QED
    BY <1>1, <2>1, <2>2 DEF ContextTypeOK
<1>3. TypeOK
  <2>1. /\ at = "setup" /\ stage = 1 /\ todo = {} /\ doomed = {} /\ pool = FALSE /\ ret = TRUE
        /\ tries = 0 /\ sweeps = 0 /\ withLinks = FALSE
    BY DEF Init, ContextInit
  <2>2. 0 \in 0..MaxAttempts /\ 0 \in 0..MaxSweeps /\ {} \in SUBSET Things
    BY SweepAssumption
  <2>3. {todo, doomed} \subseteq SUBSET Things /\ {pool, ret, withLinks} \subseteq BOOLEAN
    BY <2>1, <2>2
  <2>4. at \in ContextPoints /\ stage \in DOMAIN Order
    BY <2>1, Orders DEF ContextPoints
  <2> QED
    BY <1>2, <2>1, <2>2, <2>3, <2>4 DEF TypeOK
<1>4. RoomLeft
  BY <1>1, TaskFacts DEF Init, ContextInit, RoomLeft, MakingPoints, CleaningPoints
<1> QED
  BY <1>3, <1>4

(* What could not be deleted is known as long as it is there. *)
KeptGrows == /\ \A x \in Networks : x \in kept => x \in kept'
             /\ \A n \in links' : Link(n) \in kept => Link(n) \in kept'

(* A deletion of a link keeps the types. *)
LEMMA LinkDeleted ==
  ASSUME TypeOK, NEW n, DeleteLink(n)
  PROVE  /\ links' \subseteq links /\ links' \subseteq 1..MaxNetworks
         /\ KeptGrows /\ kept' \subseteq Networks \cup {Link(m) : m \in 1..MaxNetworks}
         /\ faults' \in faults..MaxFaults
         /\ n \in links' => Link(n) \in kept'
<1>1. /\ links \subseteq 1..MaxNetworks /\ faults \in 0..MaxFaults /\ MaxFaults \in Nat
      /\ kept \subseteq Networks \cup {Link(m) : m \in 1..MaxNetworks}
  BY ContextAssumption DEF TypeOK, ContextTypeOK
<1>2. CASE links' = links \ {n} /\ kept' = kept \ {Link(n)} /\ UNCHANGED faults
  <2>1. \A m \in links' : Link(m) # Link(n)
    BY <1>2 DEF Link
  <2>2. \A x \in Networks : x # Link(n)
    BY DEF Networks, Link
  <2> QED
    BY <1>1, <1>2, <2>1, <2>2 DEF KeptGrows
<1>3. CASE n \in links /\ Fault /\ kept' = kept \cup {Link(n)} /\ UNCHANGED links
  BY <1>1, <1>3 DEF Fault, KeptGrows
<1> QED
  BY <1>2, <1>3 DEF DeleteLink

LEMMA ContextTypes ==
  ASSUME TypeOK, RoomLeft, ContextStep, UNCHANGED sweepVars
  PROVE  TypeOK' /\ RoomLeft'
<1>1. /\ task \in Tasks /\ round \in 1..Runs /\ tenant \in 0..task.tenants
      /\ created \in 0..MaxNetworks /\ subnetted \subseteq 1..created /\ index \in Nat
      /\ bound \in BOOLEAN /\ links \subseteq 1..MaxNetworks /\ left \subseteq Things
      /\ kept \subseteq Networks \cup {Link(n) : n \in 1..MaxNetworks}
      /\ unserved \subseteq 1..task.times /\ faults \in 0..MaxFaults
      /\ at \in ContextPoints \cup {"sweep", "sweep_link"}
  BY DEF TypeOK, ContextTypeOK
<1>2. /\ N \in Nat \ {0} /\ task.tenants \in Nat \ {0} /\ task.times \in Nat
      /\ N + task.tenants - 1 <= MaxNetworks
      /\ MaxNetworks \in Nat \ {0} /\ N <= MaxNetworks
      /\ Runs \in Nat \ {0} /\ MaxFaults \in Nat
  BY <1>1, TaskFacts, ContextAssumption
<1> USE DEF At, Fixed, Loop, Cloud, BreakOff, NextOfTenant
<1>3. SUFFICES /\ task' = task /\ RoomLeft'
               /\ round' \in 1..Runs /\ tenant' \in 0..task.tenants
               /\ created' \in 0..MaxNetworks /\ subnetted' \subseteq 1..created'
               /\ index' \in Nat /\ bound' \in BOOLEAN /\ links' \subseteq 1..MaxNetworks
               /\ left' \subseteq Things
               /\ kept' \subseteq Networks \cup {Link(n) : n \in 1..MaxNetworks}
               /\ unserved' \subseteq 1..task.times /\ faults' \in 0..MaxFaults
               /\ at' \in ContextPoints
  BY <1>1 DEF TypeOK, ContextTypeOK, sweepVars
<1>4. CASE Setup
  BY <1>1, <1>2, <1>4 DEF Setup, RoomLeft, N, MakingPoints, CleaningPoints, ContextPoints
<1>5. CASE LinkAdd
  <2>1. /\ at = "link_add" /\ tenant > 0 /\ created + 1 <= N + tenant - 1
        /\ created <= N + task.tenants - 1
    BY <1>5 DEF LinkAdd, RoomLeft, MakingPoints
  <2>2. created + 1 \in 1..MaxNetworks
    BY <1>1, <1>2, <2>1
  <2>3. links' \subseteq 1..MaxNetworks /\ faults' \in 0..MaxFaults
    <3>1. /\ links' = links \cup {created + 1} \/ links' = links
          /\ faults' = faults \/ Fault
      BY <1>5 DEF LinkAdd
    <3>2. links' \subseteq 1..MaxNetworks
      BY <1>1, <2>2, <3>1
    <3> QED
      BY <1>1, <1>2, <3>1, <3>2 DEF Fault
  <2>4. /\ UNCHANGED <<task, round, kept, unserved, tenant, created, subnetted, left, bound>>
        /\ (at' = "link_up" /\ index' = index) \/ (at' = "iterate" /\ index' = 1)
    BY <1>5 DEF LinkAdd
  <2>5. RoomLeft'
    BY <2>1, <2>4 DEF RoomLeft, N, MakingPoints, CleaningPoints
  <2> QED
    BY <1>1, <2>3, <2>4, <2>5 DEF ContextPoints
<1>6. CASE LinkUp
  BY <1>1, <1>2, <1>6 DEF LinkUp, LinkCommand, Fault, RoomLeft, N, MakingPoints, CleaningPoints,
                          ContextPoints
<1>7. CASE LinkAddress
  BY <1>1, <1>2, <1>7 DEF LinkAddress, LinkCommand, Fault, RoomLeft, N, MakingPoints,
                          CleaningPoints, ContextPoints
<1>8. CASE CreateNetwork
  <2>1. /\ created + 1 \in 1..MaxNetworks /\ tenant > 0 /\ tenant \in Nat
        /\ created + 1 <= N + tenant - 1
    BY <1>1, <1>2, <1>8 DEF CreateNetwork, RoomLeft, MakingPoints
  <2>2. Numbered(round, created + 1) \in Things
    BY <1>1, <2>1, ThingMade DEF Numbered, Kinds
  <2>3. left' \subseteq Things /\ created' \in {created, created + 1} /\ faults' \in 0..MaxFaults
    BY <1>1, <1>2, <1>8, <2>2 DEF CreateNetwork, Fault
  <2>4. \/ at' = "subnet" /\ created' = created + 1 /\ index' = index
        \/ at' = "iterate" /\ index' = 1 /\ created' = created
    BY <1>8 DEF CreateNetwork
  <2>5. UNCHANGED <<task, round, kept, unserved, tenant, subnetted, bound, links>>
    BY <1>8 DEF CreateNetwork
  <2>6. RoomLeft'
    BY <1>1, <1>2, <2>1, <2>4, <2>5 DEF RoomLeft, N, MakingPoints, CleaningPoints
  <2> QED
    BY <1>1, <1>2, <2>1, <2>3, <2>4, <2>5, <2>6 DEF ContextPoints
<1>9. CASE CreateSubnet
  <2>1. /\ created \in Nat \ {0} /\ tenant \in Nat /\ tenant > 0 /\ created <= N + tenant - 1
    BY <1>1, <1>2, <1>9 DEF CreateSubnet, RoomLeft
  <2>2. /\ subnetted' = subnetted \cup {created} \/ subnetted' = subnetted
        /\ faults' = faults \/ Fault
    BY <1>9 DEF CreateSubnet
  <2>3. created \in 1..created
    BY <2>1
  <2>4. subnetted' \subseteq 1..created
    BY <1>1, <2>2, <2>3
  <2>5. faults' \in 0..MaxFaults
    BY <1>1, <1>2, <2>2 DEF Fault
  <2>6. /\ UNCHANGED <<task, round, kept, unserved, created, links, left, bound>>
        /\ \/ /\ at' = NextOfTenant /\ tenant' = tenant + 1 /\ tenant < task.tenants
              /\ index' = index
           \/ at' = "setup" /\ UNCHANGED <<tenant, index>>
           \/ at' = "iterate" /\ index' = 1 /\ UNCHANGED tenant
    BY <1>9 DEF CreateSubnet
  <2>7. RoomLeft' /\ tenant' \in 0..task.tenants
    BY <1>1, <1>2, <2>1, <2>6 DEF RoomLeft, N, MakingPoints, CleaningPoints
  <2> QED
    BY <1>1, <2>4, <2>5, <2>6, <2>7 DEF ContextPoints
<1>10. CASE Iterate
  <2>1. index \in Nat \ {0} /\ index <= task.times
    BY <1>1, <1>10 DEF Iterate, RoomLeft
  <2>2. NetworkOf(index) \in 1..N
    BY <1>2, <2>1 DEF NetworkOf
  <2>3. \A rest \in Litter : {<<kind, round, NetworkOf(index)>> : kind \in rest} \subseteq Things
    BY <1>1, <1>2, <2>2, ContextAssumption, ThingMade
  <2>4. left' \subseteq Things
    BY <1>1, <1>10, <2>3 DEF Iterate
  <2>5. unserved' \subseteq 1..task.times /\ faults' \in 0..MaxFaults /\ index' = index + 1
    <3>1. /\ unserved' = unserved \/ unserved' = unserved \cup {index}
          /\ faults' = faults \/ Fault
          /\ index' = index + 1
      BY <1>10 DEF Iterate
    <3>2. index \in 1..task.times
      BY <1>2, <2>1
    <3>3. unserved' \subseteq 1..task.times
      BY <1>1, <3>1, <3>2
    <3>4. faults' \in 0..MaxFaults
      BY <1>1, <1>2, <3>1 DEF Fault
    <3> QED
      BY <3>1, <3>3, <3>4
  <2>6. UNCHANGED <<task, round, at, tenant, created, subnetted, bound, links, kept>>
    BY <1>10 DEF Iterate
  <2>7. at = "iterate"
    BY <1>10 DEF Iterate
  <2>8. RoomLeft'
    BY <2>1, <2>5, <2>6, <2>7 DEF RoomLeft, N, MakingPoints, CleaningPoints
  <2> QED
    BY <1>1, <2>1, <2>4, <2>5, <2>6, <2>7, <2>8 DEF ContextPoints
<1>11. CASE EndTask
  <2>1. /\ UNCHANGED <<task, round, kept, unserved, tenant, created, subnetted, links, left, faults>>
        /\ at' = "clean_network" /\ index' = 1 /\ bound' = FALSE
    BY <1>11 DEF EndTask
  <2>2. RoomLeft'
    BY <1>2, <2>1 DEF RoomLeft, N, MakingPoints, CleaningPoints
  <2> QED
    BY <1>1, <2>1, <2>2 DEF ContextPoints
<1>12. CASE CleanNetwork
  <2>1. /\ at = "clean_network" /\ index > 0 /\ index <= N
        /\ created <= N + task.tenants - 1
    BY <1>12 DEF CleanNetwork, RoomLeft, CleaningPoints
  <2>2. UNCHANGED <<task, round, unserved, tenant, created, subnetted, links>>
    BY <1>12 DEF CleanNetwork
  <2>3. /\ left' \subseteq left /\ bound' \in BOOLEAN /\ (faults' = faults \/ Fault)
        /\ kept' \subseteq kept \cup {Numbered(round, index)}
        /\ kept' # kept => index \in subnetted
    BY <1>1, <1>12 DEF CleanNetwork
  <2>7. faults' \in 0..MaxFaults
    BY <1>1, <1>2, <2>3 DEF Fault
  <2>4. \/ at' = "clean_link" /\ index' = index
        \/ at' = "clean_network" /\ index' = index + 1 /\ index < N
        \/ at' = "between" /\ index' = index
    BY <1>12, <2>1 DEF CleanNetwork, AfterNetwork
  <2>5. index \in subnetted => Numbered(round, index) \in Networks
    BY <1>1, <1>2 DEF Numbered, Networks
  <2>6. RoomLeft'
    BY <1>1, <1>2, <2>1, <2>2, <2>4 DEF RoomLeft, N, MakingPoints, CleaningPoints
  <2> QED
    BY <1>1, <2>2, <2>3, <2>4, <2>5, <2>6, <2>7 DEF ContextPoints
<1>13. CASE CleanLink
  <2>1. DeleteLink(index)
    BY <1>13 DEF CleanLink
  <2>2. /\ links' \subseteq 1..MaxNetworks /\ faults' \in faults..MaxFaults
        /\ kept' \subseteq Networks \cup {Link(m) : m \in 1..MaxNetworks}
    BY <2>1, LinkDeleted
  <2> QED
    BY <1>1, <1>2, <1>13, <2>2 DEF CleanLink, RoomLeft, N, MakingPoints, CleaningPoints,
                                   ContextPoints
<1>14. CASE RunAgain
  <2>1. /\ UNCHANGED <<task, links, left, kept, unserved, faults>> /\ at' = "setup"
        /\ round' = round + 1 /\ round < Runs
        /\ tenant' = 0 /\ created' = 0 /\ subnetted' = {} /\ index' = 0 /\ bound' = FALSE
    BY <1>14 DEF RunAgain
  <2>2. RoomLeft'
    BY <1>2, <2>1 DEF RoomLeft, N, MakingPoints, CleaningPoints
  <2>3. round' \in 1..Runs /\ 0 \in 0..task.tenants /\ 0 \in 0..MaxNetworks
    BY <1>1, <1>2, <2>1
  <2> QED
    BY <1>1, <2>1, <2>2, <2>3 DEF ContextPoints
<1>15. CASE EndRuns
  BY <1>1, <1>2, <1>15 DEF EndRuns, RoomLeft, N, MakingPoints, CleaningPoints, ContextPoints
<1> QED
  BY <1>4, <1>5, <1>6, <1>7, <1>8, <1>9, <1>10, <1>11, <1>12, <1>13, <1>14, <1>15
     DEF ContextStep

(* What the script does to the state of the context. *)
SweepEffect ==
  /\ UNCHANGED Contexts
  /\ left' \subseteq left /\ links' \subseteq links /\ KeptGrows
  /\ faults' \in Nat /\ faults' >= faults
  /\ at \in {"between", "sweep", "sweep_link"} /\ at' \in {"between", "sweep", "sweep_link"}
  /\ index' \in Nat /\ (at' = "sweep_link" => index' > 0)

LEMMA SweepTypes ==
  ASSUME TypeOK, RoomLeft, SweptSoFar, SweepStep
  PROVE  TypeOK' /\ SweepEffect
<1>1. /\ task \in Tasks /\ round \in 1..Runs /\ tenant \in 0..task.tenants
      /\ created \in 0..MaxNetworks /\ subnetted \subseteq 1..created /\ index \in Nat
      /\ bound \in BOOLEAN /\ links \subseteq 1..MaxNetworks /\ left \subseteq Things
      /\ kept \subseteq Networks \cup {Link(n) : n \in 1..MaxNetworks}
      /\ unserved \subseteq 1..task.times /\ faults \in 0..MaxFaults /\ MaxFaults \in Nat
      /\ at \in ContextPoints \cup {"sweep", "sweep_link"}
      /\ stage \in 1..6 /\ todo \subseteq Things /\ doomed \subseteq Things
      /\ pool \in BOOLEAN /\ ret \in BOOLEAN /\ withLinks \in BOOLEAN
      /\ tries \in 0..MaxAttempts /\ sweeps \in 0..MaxSweeps
  BY Orders, ContextAssumption DEF TypeOK, ContextTypeOK
<1>2. MaxAttempts \in Nat \ {0} /\ MaxSweeps \in Nat
  BY SweepAssumption
<1> USE DEF At, Cloud
<1>3. SUFFICES /\ SweepEffect
               /\ links' \subseteq 1..MaxNetworks
               /\ kept' \subseteq Networks \cup {Link(n) : n \in 1..MaxNetworks}
               /\ faults' \in 0..MaxFaults
               /\ stage' \in 1..6 /\ todo' \subseteq Things /\ doomed' \subseteq Things
               /\ pool' \in BOOLEAN /\ ret' \in BOOLEAN /\ withLinks' \in BOOLEAN
               /\ tries' \in 0..MaxAttempts /\ sweeps' \in 0..MaxSweeps
  <2>1. at' \in ContextPoints \cup {"sweep", "sweep_link"}
    BY <1>3 DEF SweepEffect, ContextPoints
  <2> QED
    BY <1>1, <1>3, <2>1, Orders DEF SweepEffect, Contexts, TypeOK, ContextTypeOK
<1>4. CASE StartSweep
  <2>1. /\ at = "between" /\ at' = "sweep" /\ stage' = 1 /\ tries' = 0 /\ withLinks' \in BOOLEAN
        /\ sweeps' = sweeps + 1 /\ sweeps < MaxSweeps
        /\ UNCHANGED <<Contexts, links, left, kept, faults, index, todo, pool, ret, doomed>>
    BY <1>4 DEF StartSweep
  <2>2. SweepEffect
    BY <1>1, <2>1 DEF SweepEffect, KeptGrows
  <2> QED
    BY <1>1, <1>2, <2>1, <2>2
<1>5. CASE ListDone \/ Collect
  <2>1. /\ at = "sweep" /\ pool' = FALSE
        /\ UNCHANGED <<Contexts, links, left, kept, faults, todo, ret, tries, doomed, sweeps, withLinks>>
        /\ \/ stage' = stage + 1 /\ stage < 6 /\ UNCHANGED <<at, index>>
           \/ at' = "sweep_link" /\ index' = 1 /\ stage' = stage
           \/ UNCHANGED <<at, stage, index>>
    BY <1>1, <1>5, Orders DEF ListDone, Collect, NextStage
  <2>2. SweepEffect
    BY <1>1, <2>1 DEF SweepEffect, KeptGrows
  <2>3. stage' \in 1..6
    BY <1>1, <2>1
  <2> QED
    BY <1>1, <2>1, <2>2, <2>3
<1>6. CASE ListAndMap
  <2>1. /\ at = "sweep" /\ todo' \subseteq left /\ pool' = TRUE /\ ret' = TRUE
        /\ tries' \in {tries, tries + 1}
        /\ tries' # tries => tries # MaxAttempts
        /\ UNCHANGED <<Contexts, at, stage, index, links, left, kept, faults, doomed, sweeps, withLinks>>
    BY <1>6 DEF ListAndMap, LastTry, Found
  <2>2. SweepEffect
    BY <1>1, <2>1 DEF SweepEffect, KeptGrows
  <2>3. tries' \in 0..MaxAttempts
    BY <1>1, <1>2, <2>1
  <2> QED
    BY <1>1, <2>1, <2>2, <2>3
<1>7. CASE TimeOut \/ \E x \in Things : Worker(x)
  <2>1. at = "sweep"
    BY <1>7 DEF TimeOut, Worker, SweptSoFar
  <2>2. /\ UNCHANGED <<Contexts, at, index, links, kept, stage, pool, tries, sweeps, withLinks>>
        /\ left' \subseteq left /\ todo' \subseteq todo /\ doomed' \subseteq Things
        /\ ret' \in {ret, FALSE} /\ (faults' = faults \/ Fault)
    BY <1>1, <1>7 DEF TimeOut, Worker
  <2>3. faults' \in 0..MaxFaults /\ faults' >= faults
    BY <1>1, <2>2 DEF Fault
  <2>4. SweepEffect
    BY <1>1, <2>1, <2>2, <2>3 DEF SweepEffect, KeptGrows
  <2> QED
    BY <1>1, <2>2, <2>3, <2>4
<1>8. CASE SweepLink
  <2>1. /\ at = "sweep_link" /\ index > 0
        /\ UNCHANGED <<Contexts, left, sweepVars>>
        /\ \/ DeleteLink(index) /\ index' = index + 1 /\ at' = at
           \/ at' = "between" /\ UNCHANGED <<index, links, kept, faults>>
    BY <1>8 DEF SweepLink, RoomLeft
  <2>2. /\ links' \subseteq links /\ links' \subseteq 1..MaxNetworks
        /\ KeptGrows /\ kept' \subseteq Networks \cup {Link(m) : m \in 1..MaxNetworks}
        /\ faults' \in faults..MaxFaults
    BY <1>1, <2>1, LinkDeleted DEF KeptGrows
  <2>3. SweepEffect
    BY <1>1, <2>1, <2>2 DEF SweepEffect
  <2> QED
    BY <1>1, <2>1, <2>2, <2>3 DEF sweepVars
<1> QED
  BY <1>4, <1>5, <1>6, <1>7, <1>8 DEF SweepStep

LEMMA SweepKeepsRoom ==
  ASSUME TypeOK, RoomLeft, SweepEffect
  PROVE  RoomLeft'
BY DEF SweepEffect, Contexts, RoomLeft, N, MakingPoints, CleaningPoints

(* A server that nova was deleting is gone, at any time. *)
VanishEffect == /\ UNCHANGED <<Contexts, at, index, links, kept, faults>>
                /\ left' \subseteq left

LEMMA VanishTypes ==
  ASSUME TypeOK, RoomLeft, \/ \E x \in Things : Vanish(x)
                           \/ UNCHANGED vars
  PROVE  TypeOK' /\ RoomLeft' /\ VanishEffect
<1>1. CASE \E x \in Things : Vanish(x)
  <2>1. /\ VanishEffect /\ doomed' \subseteq doomed
        /\ UNCHANGED <<stage, todo, pool, ret, tries, sweeps, withLinks>>
    BY <1>1 DEF Vanish, VanishEffect
  <2> QED
    BY <2>1 DEF VanishEffect, Contexts, TypeOK, ContextTypeOK, RoomLeft, N
<1>2. CASE UNCHANGED vars
  BY <1>2 DEF vars, contextVars, sweepVars, VanishEffect, Contexts, TypeOK, ContextTypeOK,
              RoomLeft, N
<1> QED
  BY <1>1, <1>2

--------------------------------------------------------------------------------
(***************************************************************************)
(* What the cleanup of the context has been past is gone, or its deletion   *)
(* failed: networks with a subnet, and links.  It ends early only when      *)
(* nothing was made; then the link of the first network may be there, and   *)
(* is still there when a later run wants to make it: that is the only link  *)
(* a run can find that no deletion failed on.                               *)
(***************************************************************************)
SweepingPoints == {"between", "over", "sweep", "sweep_link"}

Past(n) == CASE at = "clean_network" -> n < index
             [] at = "clean_link" -> n <= index
             [] at \in SweepingPoints -> n <= N
             [] OTHER -> FALSE
LinkStays(n) == CASE at \in CleaningPoints -> index <= n /\ n <= created + 1
                  [] at \in SweepingPoints -> n = 1 /\ created = 0
                  [] OTHER -> n <= created + 1

CleanSoFar ==
  /\ \A n \in subnetted : Past(n) =>
       (Numbered(round, n) \in left => Numbered(round, n) \in kept)
  /\ ~task.vlans => links = {} /\ at \notin {"link_add", "link_up", "link_ip", "clean_link"}
  /\ \A n \in links : n > N \/ Link(n) \in kept \/ LinkStays(n)
  /\ at = "clean_network" => (bound <=> index > 1)
  /\ at = "clean_link" => bound

LEMMA CleanInit == Init => CleanSoFar
BY DEF Init, ContextInit, CleanSoFar

LEMMA CleanByContext ==
  ASSUME TypeOK, RoomLeft, CleanSoFar, ContextStep
  PROVE  CleanSoFar'
<1>1. /\ task \in Tasks /\ round \in 1..Runs
      /\ created \in Nat /\ subnetted \subseteq 1..created /\ index \in Nat
      /\ N \in Nat \ {0} /\ task.vlans \in BOOLEAN /\ bound \in BOOLEAN
      /\ links \subseteq Nat \ {0}
  BY TaskFacts DEF TypeOK, ContextTypeOK
<1> USE DEF At, Fixed, Loop, Cloud, BreakOff, NextOfTenant
<1> DEFINE Making == SetupPoints \cup {"iterate"}
<1>2. CASE Setup \/ LinkAdd \/ LinkUp \/ LinkAddress \/ CreateNetwork \/ CreateSubnet \/ Iterate
  <2>1. /\ at \in Making /\ at' \in Making /\ task' = task /\ kept' = kept
        /\ links' \subseteq links \cup {created + 1} /\ created' \in {created, created + 1}
        /\ task.vlans \/ UNCHANGED links
        /\ ~task.vlans => at' \notin {"link_add", "link_up", "link_ip"}
    BY <1>2 DEF Setup, LinkAdd, LinkUp, LinkAddress, LinkCommand, CreateNetwork, CreateSubnet,
                Iterate, SetupPoints, CleanSoFar
  <2>2. \A n : /\ ~Past(n)'
               /\ LinkStays(n) <=> n <= created + 1
               /\ LinkStays(n)' <=> n <= created' + 1
    BY <2>1 DEF Past, LinkStays, SetupPoints, CleaningPoints, SweepingPoints
  <2>3. \A n \in links' : n > N \/ Link(n) \in kept' \/ LinkStays(n)'
    BY <1>1, <2>1, <2>2 DEF CleanSoFar
  <2> QED
    BY <2>1, <2>2, <2>3 DEF CleanSoFar, SetupPoints, N
<1>3. CASE EndTask
  <2>1. /\ at = "iterate" /\ at' = "clean_network" /\ index' = 1 /\ bound' = FALSE
        /\ UNCHANGED <<task, links, kept, created, subnetted>>
    BY <1>3 DEF EndTask
  <2>2. \A n \in Nat \ {0} : ~Past(n)' /\ (LinkStays(n) => LinkStays(n)')
    BY <2>1 DEF Past, LinkStays, CleaningPoints, SweepingPoints
  <2>3. subnetted \subseteq Nat \ {0}
    BY <1>1
  <2> QED
    BY <1>1, <2>1, <2>2, <2>3 DEF CleanSoFar, N
<1>4. CASE CleanNetwork
  <2>1. /\ at = "clean_network" /\ index > 0 /\ index <= N
        /\ UNCHANGED <<task, round, tenant, created, subnetted, links>>
        /\ left' \subseteq left /\ kept \subseteq kept'
    BY <1>4 DEF CleanNetwork, RoomLeft, CleaningPoints
  <2>2. CASE index > created /\ ~bound
    <3>1. at' = "between" /\ index = 1 /\ created = 0 /\ subnetted = {}
      BY <1>1, <1>4, <2>1, <2>2 DEF CleanNetwork, CleanSoFar
    <3>2. \A n \in links : LinkStays(n) => LinkStays(n)'
      BY <1>1, <2>1, <3>1 DEF LinkStays, CleaningPoints, SweepingPoints
    <3> QED
      BY <2>1, <3>1, <3>2 DEF CleanSoFar, N
  <2>3. CASE ~(index > created /\ ~bound)
    <3>1. /\ AfterNetwork /\ (index > created => bound) /\ (bound' = bound \/ bound' = TRUE)
          /\ bound'
          /\ index \in subnetted =>
               (Numbered(round, index) \in left' => Numbered(round, index) \in kept')
      BY <1>1, <1>4, <2>1, <2>3 DEF CleanNetwork
    <3>2. \A n \in subnetted : n \in Nat /\ (Past(n)' => Past(n) \/ n = index)
      BY <1>1, <2>1, <3>1 DEF AfterNetwork, Past, SweepingPoints, N
    <3>3. \A n \in subnetted : Past(n)' =>
            (Numbered(round, n) \in left' => Numbered(round, n) \in kept')
      BY <2>1, <3>1, <3>2 DEF CleanSoFar
    <3>4. task.vlans => \A n : LinkStays(n)' <=> LinkStays(n)
      BY <2>1, <3>1 DEF AfterNetwork, LinkStays, CleaningPoints, SweepingPoints
    <3>5. at' = "clean_network" => index' > 1
      BY <2>1, <3>1, <1>1 DEF AfterNetwork
    <3>6. ~task.vlans => links = {} /\ at' \notin {"link_add", "link_up", "link_ip", "clean_link"}
      BY <2>1, <3>1 DEF AfterNetwork, CleanSoFar
    <3>7. \A n \in links' : n > N \/ Link(n) \in kept' \/ LinkStays(n)'
      BY <2>1, <3>4, <3>6 DEF CleanSoFar
    <3> QED
      BY <2>1, <3>1, <3>3, <3>5, <3>6, <3>7 DEF CleanSoFar, N
  <2> QED
    BY <2>2, <2>3
<1>5. CASE CleanLink
  <2>1. /\ at = "clean_link" /\ index > 0 /\ index <= N /\ task.vlans
        /\ UNCHANGED <<task, round, tenant, created, subnetted, left, bound>>
        /\ DeleteLink(index)
        /\ \/ index < N /\ index' = index + 1 /\ at' = "clean_network"
           \/ index = N /\ at' = "between" /\ index' = index
    BY <1>5 DEF CleanLink, RoomLeft, CleaningPoints, CleanSoFar
  <2>2. /\ links' \subseteq links /\ KeptGrows
        /\ index \in links' => Link(index) \in kept'
    BY <2>1, LinkDeleted
  <2>3. \A n \in subnetted : n \in Nat /\ (Past(n)' <=> Past(n))
    BY <1>1, <2>1 DEF Past, SweepingPoints, N
  <2>4. \A n \in subnetted : n <= N => Numbered(round, n) \in Networks
    BY <1>1, TaskFacts DEF Numbered, Networks
  <2>5. \A n \in subnetted : Past(n)' =>
          (Numbered(round, n) \in left' => Numbered(round, n) \in kept')
    <3>1. \A n \in subnetted : Past(n)' => n <= N
      BY <1>1, <2>1 DEF Past, SweepingPoints, N
    <3> QED
      BY <2>1, <2>2, <2>3, <2>4, <3>1 DEF CleanSoFar, KeptGrows
  <2>6. \A n \in links' : n = index \/ n > N \/ (LinkStays(n) => LinkStays(n)')
    BY <1>1, <2>1, <2>2 DEF LinkStays, CleaningPoints, SweepingPoints
  <2>7. \A n \in links' : n > N \/ Link(n) \in kept' \/ LinkStays(n)'
    BY <2>2, <2>6 DEF CleanSoFar, KeptGrows
  <2>8. bound' /\ (at' = "clean_network" => index' > 1)
    BY <1>1, <2>1 DEF CleanSoFar
  <2> QED
    BY <1>1, <2>1, <2>5, <2>7, <2>8 DEF CleanSoFar, N
<1>6. CASE RunAgain
  <2>1. /\ at = "between" /\ at' = "setup" /\ created' = 0 /\ subnetted' = {}
        /\ UNCHANGED <<task, links, kept>>
    BY <1>6 DEF RunAgain
  <2>2. \A n : LinkStays(n) => LinkStays(n)'
    BY <2>1 DEF LinkStays, CleaningPoints, SweepingPoints
  <2> QED
    BY <2>1, <2>2 DEF CleanSoFar, N
<1>7. CASE EndRuns
  <2>1. at = "between" /\ at' = "over"
        /\ UNCHANGED <<task, round, kept, created, subnetted, links, left>>
    BY <1>7 DEF EndRuns
  <2>2. \A n : (Past(n)' <=> Past(n)) /\ (LinkStays(n)' <=> LinkStays(n))
    BY <2>1 DEF Past, LinkStays, SweepingPoints, CleaningPoints, N
  <2> QED
    BY <2>1, <2>2 DEF CleanSoFar, N
<1> QED
  BY <1>2, <1>3, <1>4, <1>5, <1>6, <1>7 DEF ContextStep

LEMMA CleanBySweep ==
  ASSUME TypeOK, CleanSoFar, SweepEffect \/ VanishEffect
  PROVE  CleanSoFar'
<1>1. UNCHANGED Contexts /\ left' \subseteq left /\ links' \subseteq links /\ KeptGrows
  BY DEF SweepEffect, VanishEffect, KeptGrows
<1>2. \A n : (Past(n)' <=> Past(n)) /\ (LinkStays(n)' <=> LinkStays(n))
  BY DEF SweepEffect, VanishEffect, Contexts, Past, LinkStays, SweepingPoints, CleaningPoints, N
<1>3. \A n \in subnetted : Past(n) =>
        (Numbered(round, n) \in left' => Numbered(round, n) \in kept')
  <2>1. subnetted \subseteq 1..MaxNetworks /\ round \in 1..Runs
    BY TaskFacts DEF TypeOK, ContextTypeOK
  <2>2. \A n \in subnetted : Numbered(round, n) \in Networks
    BY <2>1 DEF Numbered, Networks
  <2> QED
    BY <1>1, <2>2 DEF CleanSoFar, KeptGrows
<1>4. \A n \in links' : n > N \/ Link(n) \in kept' \/ LinkStays(n)
  BY <1>1 DEF CleanSoFar, KeptGrows
<1>5. ~task.vlans => links' = {}
  BY <1>1 DEF CleanSoFar
<1>6. \/ at' \in {"between", "sweep", "sweep_link"}
      \/ UNCHANGED <<at, index, bound>>
  BY DEF SweepEffect, VanishEffect, Contexts
<1> QED
  BY <1>1, <1>2, <1>3, <1>4, <1>5, <1>6 DEF CleanSoFar, Contexts, N

--------------------------------------------------------------------------------
(***************************************************************************)
(* While nothing failed and no port of someone else is on network 1, the    *)
(* cloud has networks only, but for a floating IP of someone else: those of *)
(* this run that are not yet cleaned, and those beyond the ones asked for.  *)
(* The same holds of the links.  So setup is never refused a link or a VLAN *)
(* before it has what was asked for, and no iteration goes without.         *)
(***************************************************************************)
Quiet == faults = 0 /\ ~task.foreign

Uncleaned(n) == CASE at \in SetupPoints \cup {"iterate"} -> TRUE
                  [] at = "clean_network" -> n >= index
                  [] at = "clean_link" -> n > index
                  [] OTHER -> FALSE
Expected(r, n) == n > N \/ (r = round /\ n <= created /\ Uncleaned(n))

LinkUncleaned(n) == CASE at \in SetupPoints \cup {"iterate"} -> TRUE
                      [] at \in CleaningPoints -> n >= index
                      [] OTHER -> FALSE
ExpectedLink(n) == \/ n > N \/ (n <= created /\ LinkUncleaned(n))
                   \/ at \in {"link_up", "link_ip", "network"} /\ n = created + 1

Ours == left \ {OthersFip}

NothingElse ==
  /\ \A x \in Ours : x[1] = "network" /\ Expected(x[2], x[3])
  /\ \A n \in links : ExpectedLink(n)
  /\ subnetted = IF at = "subnet" THEN 1..created - 1 ELSE 1..created
  /\ at \in CleaningPoints \cup {"iterate"} => created >= N
  /\ unserved = {}

NothingInTheWay == Quiet => NothingElse

LEMMA QuietBefore ==
  ASSUME TypeOK, Quiet', UNCHANGED task, faults' = faults \/ Fault \/ faults' >= faults
  PROVE  Quiet /\ faults' = faults
BY DEF Quiet, Fault, TypeOK, ContextTypeOK

LEMMA WayInit == Init => NothingInTheWay
<1> SUFFICES ASSUME Init PROVE NothingElse
  BY DEF NothingInTheWay
<1>1. /\ at = "setup" /\ Ours = {} /\ links = {} /\ created = 0 /\ subnetted = {} /\ unserved = {}
  BY DEF Init, ContextInit, Ours
<1>2. subnetted = 1..created
  BY <1>1
<1> QED
  BY <1>1, <1>2 DEF NothingElse, CleaningPoints

(* Setup is only refused when it has what was asked for. *)
LEMMA WayBySetup ==
  ASSUME TypeOK, RoomLeft, NothingInTheWay,
         Setup \/ LinkAdd \/ LinkUp \/ LinkAddress \/ CreateNetwork \/ CreateSubnet
  PROVE  NothingInTheWay'
<1> USE DEF At, Fixed, Loop, Cloud, BreakOff, NextOfTenant
<1> SUFFICES ASSUME Quiet' PROVE NothingElse'
  BY DEF NothingInTheWay
<1>1. /\ task \in Tasks /\ created \in Nat /\ N \in Nat \ {0} /\ subnetted \subseteq 1..created
      /\ left \subseteq Things /\ links \subseteq Nat /\ MaxNetworks \in Nat
      /\ faults \in Nat
  BY TaskFacts DEF TypeOK, ContextTypeOK
<1>2. UNCHANGED <<task, round, kept, unserved>> /\ (faults' = faults \/ Fault)
  BY DEF Setup, LinkAdd, LinkUp, LinkAddress, LinkCommand, CreateNetwork, CreateSubnet
<1>3. Quiet /\ ~Fault /\ faults' = faults
  BY <1>1, <1>2 DEF Quiet, Fault
<1>4. NothingElse
  BY <1>3 DEF NothingInTheWay
<1>5. /\ \A x \in Ours : x[1] = "network" /\ x[2] \in 1..Runs /\ x[3] \in Nat
      /\ N' = N /\ (left' = left => Ours' = Ours)
  BY <1>1, <1>2, <1>4, ThingParts DEF NothingElse, N, Ours
<1>6. at \in SetupPoints /\ at' \in SetupPoints \cup {"iterate"}
  BY DEF Setup, LinkAdd, LinkUp, LinkAddress, LinkCommand, CreateNetwork, CreateSubnet,
         SetupPoints
<1>7. \A n : Uncleaned(n) /\ Uncleaned(n)' /\ LinkUncleaned(n) /\ LinkUncleaned(n)'
  BY <1>6 DEF Uncleaned, LinkUncleaned, SetupPoints, CleaningPoints
<1>8. /\ \A x \in Ours : x[3] > N \/ (x[2] = round /\ x[3] <= created)
      /\ \A n \in links : n > N \/ n <= created
                          \/ (at \in {"link_up", "link_ip", "network"} /\ n = created + 1)
      /\ unserved = {}
  BY <1>4, <1>7 DEF NothingElse, Expected, ExpectedLink
<1>9. SUFFICES /\ \A x \in Ours' : x[1] = "network"
                                   /\ (x[3] > N \/ (x[2] = round /\ x[3] <= created'))
               /\ \A n \in links' :
                    n > N \/ n <= created'
                    \/ (at' \in {"link_up", "link_ip", "network"} /\ n = created' + 1)
               /\ subnetted' = IF at' = "subnet" THEN 1..created' - 1 ELSE 1..created'
               /\ at' = "iterate" => created' >= N
  BY <1>2, <1>5, <1>6, <1>7, <1>8, <1>9
     DEF NothingElse, Expected, ExpectedLink, SetupPoints, CleaningPoints
<1>10. at # "subnet" => subnetted = 1..created
  BY <1>4 DEF NothingElse
<1>11. CASE Setup
  <2>1. /\ at = "setup" /\ UNCHANGED <<links, left, created, subnetted>>
        /\ at' # "subnet" /\ at' = "iterate" => created >= N
    BY <1>11 DEF Setup
  <2> QED
    BY <1>5, <1>8, <1>10, <1>11, <2>1 DEF Setup
<1>12. CASE LinkAdd
  <2>1. /\ at = "link_add" /\ UNCHANGED <<left, created, subnetted>>
        /\ \/ links' = links \cup {created + 1} /\ at' = "link_up"
           \/ links' = links /\ at' = "iterate" /\ created + 1 \in links
    BY <1>3, <1>12 DEF LinkAdd
  <2>2. at' = "iterate" => created >= N
    BY <1>1, <1>8, <2>1
  <2> QED
    BY <1>1, <1>5, <1>8, <1>10, <2>1, <2>2
<1>13. CASE LinkUp \/ LinkAddress
  <2>1. /\ at \in {"link_up", "link_ip"} /\ at' \in {"link_ip", "network"}
        /\ UNCHANGED <<left, links, created, subnetted>>
    BY <1>3, <1>13 DEF LinkUp, LinkAddress, LinkCommand
  <2> QED
    BY <1>1, <1>5, <1>8, <1>10, <2>1
<1>14. CASE CreateNetwork
  <2>1. /\ at = "network" /\ UNCHANGED <<links, subnetted>>
        /\ \/ /\ left' = left \cup {Numbered(round, created + 1)} /\ created' = created + 1
              /\ at' = "subnet"
           \/ left' = left /\ created' = created /\ at' = "iterate" /\ VlanTaken(created + 1)
    BY <1>3, <1>14 DEF CreateNetwork
  <2>2. CASE at' = "subnet"
    <3>1. /\ Ours' \subseteq Ours \cup {<<"network", round, created + 1>>} /\ created' = created + 1
      BY <2>1, <2>2 DEF Numbered, Ours
    <3>2. \A x \in Ours' : x[1] = "network" /\ (x[3] > N \/ (x[2] = round /\ x[3] <= created'))
      BY <1>1, <1>5, <1>8, <3>1
    <3>3. subnetted' = 1..created' - 1
      BY <1>1, <1>10, <2>1, <3>1
    <3> QED
      BY <1>1, <1>8, <2>1, <2>2, <3>1, <3>2, <3>3
  <2>3. CASE at' = "iterate"
    <3>1. PICK r \in 1..Runs : <<"network", r, created + 1>> \in Ours
      BY <2>1, <2>3 DEF VlanTaken, Numbered, Ours, OthersFip
    <3>2. created + 1 > N
      BY <1>1, <1>8, <3>1
    <3> QED
      BY <1>1, <1>5, <1>8, <1>10, <2>1, <2>3, <3>2
  <2> QED
    BY <2>1, <2>2, <2>3
<1>15. CASE CreateSubnet
  <2>1. /\ at = "subnet" /\ UNCHANGED <<links, left, created>>
        /\ subnetted' = subnetted \cup {created} /\ at' \in {"setup", "link_add", "network"}
    BY <1>3, <1>15 DEF CreateSubnet
  <2>2. created > 0
    BY <2>1 DEF RoomLeft
  <2>3. subnetted = 1..created - 1
    BY <1>4, <2>1 DEF NothingElse
  <2>4. subnetted' = 1..created
    BY <1>1, <2>1, <2>2, <2>3
  <2> QED
    BY <1>1, <1>5, <1>8, <2>1, <2>4
<1> QED
  BY <1>11, <1>12, <1>13, <1>14, <1>15

(* Iterations are served, and the cleanup is refused nothing. *)
LEMMA WayByCleanup ==
  ASSUME TypeOK, RoomLeft, CleanSoFar, NothingInTheWay,
         Iterate \/ EndTask \/ CleanNetwork \/ CleanLink
  PROVE  NothingInTheWay'
<1> USE DEF At, Fixed, Loop, Cloud
<1> SUFFICES ASSUME Quiet' PROVE NothingElse'
  BY DEF NothingInTheWay
<1>1. /\ task \in Tasks /\ created \in Nat /\ N \in Nat \ {0} /\ subnetted \subseteq 1..created
      /\ left \subseteq Things /\ links \subseteq Nat \ {0} /\ MaxNetworks \in Nat
      /\ faults \in Nat /\ index \in Nat
  BY TaskFacts DEF TypeOK, ContextTypeOK
<1>2. /\ UNCHANGED <<task, round, created, subnetted>>
      /\ faults' = faults \/ Fault \/ faults' >= faults
  <2>1. CleanLink => faults' \in faults..MaxFaults
    BY LinkDeleted DEF CleanLink
  <2> QED
    BY <1>1, <2>1 DEF Iterate, EndTask, CleanNetwork, CleanLink
<1>3. Quiet /\ ~Fault /\ faults' = faults
  BY <1>1, <1>2, QuietBefore DEF Fault
<1>4. NothingElse
  BY <1>3 DEF NothingInTheWay
<1>5. /\ \A x \in Ours : /\ x[1] = "network" /\ x[2] \in 1..Runs /\ x[3] \in Nat \ {0}
                         /\ x = <<"network", x[2], x[3]>>
      /\ N' = N /\ (left' = left => Ours' = Ours)
  BY <1>1, <1>2, <1>4, ThingParts DEF NothingElse, N, Ours
<1>6. /\ at \in {"iterate", "clean_network", "clean_link"} /\ index > 0 /\ created >= N
      /\ subnetted = 1..created /\ unserved = {}
  BY <1>4 DEF Iterate, EndTask, CleanNetwork, CleanLink, NothingElse, RoomLeft, CleaningPoints
<1> USE DEF SetupPoints, CleaningPoints
<1>7. CASE Iterate
  <2>1. NetworkOf(index) \in 1..N
    BY <1>1, <1>6 DEF NetworkOf
  <2>2. Served(index)
    BY <1>1, <1>6, <2>1 DEF Served
  <2>3. at = "iterate" /\ UNCHANGED <<at, links, left, unserved>>
    BY <1>3, <1>7, <2>2 DEF Iterate
  <2> QED
    BY <1>2, <1>4, <1>5, <2>3 DEF NothingElse, Expected, ExpectedLink, Uncleaned, LinkUncleaned
<1>8. CASE EndTask
  <2>1. at = "iterate" /\ at' = "clean_network" /\ index' = 1 /\ UNCHANGED <<links, left, unserved>>
    BY <1>8 DEF EndTask
  <2>2. \A x \in Ours : x[1] = "network" /\ Expected(x[2], x[3])'
    BY <1>1, <1>2, <1>4, <1>5, <2>1 DEF NothingElse, Expected, Uncleaned
  <2>3. \A n \in links : ExpectedLink(n)'
    BY <1>1, <1>2, <1>4, <1>5, <2>1 DEF NothingElse, ExpectedLink, LinkUncleaned
  <2> QED
    BY <1>2, <1>5, <1>6, <2>1, <2>2, <2>3 DEF NothingElse
<1>9. CASE CleanNetwork
  <2>1. at = "clean_network" /\ index <= N /\ index \in subnetted
    BY <1>1, <1>6, <1>9 DEF CleanNetwork, RoomLeft
  <2>2. ~InUse(round, index)
    <3>1. \A kind : <<kind, round, index>> \in left => <<kind, round, index>> \in Ours
      BY <1>6 DEF Ours, OthersFip
    <3> QED
      BY <1>3, <1>5, <3>1 DEF InUse, Quiet
  <2>3. /\ Ours' = Ours \ {<<"network", round, index>>} /\ AfterNetwork
        /\ UNCHANGED <<links, unserved>>
    BY <1>1, <1>3, <1>6, <1>9, <2>1, <2>2 DEF CleanNetwork, Numbered, Ours
  <2>4. \A x \in Ours : x[3] > N \/ (x[2] = round /\ x[3] <= created /\ x[3] >= index)
    BY <1>4, <2>1 DEF NothingElse, Expected, Uncleaned
  <2>5. \A x \in Ours' : x[3] > N \/ (x[2] = round /\ x[3] <= created /\ x[3] > index)
    BY <1>1, <1>5, <2>3, <2>4
  <2>6. \A n \in links : n > N \/ (n <= created /\ n >= index)
    BY <1>4, <2>1 DEF NothingElse, ExpectedLink, LinkUncleaned
  <2>7. CASE task.vlans
    <3>1. at' = "clean_link" /\ index' = index
      BY <2>3, <2>7 DEF AfterNetwork
    <3>2. \A x \in Ours' : x[1] = "network" /\ Expected(x[2], x[3])'
      BY <1>2, <1>5, <2>3, <2>5, <3>1 DEF Expected, Uncleaned
    <3>3. \A n \in links' : ExpectedLink(n)'
      BY <1>2, <1>5, <2>3, <2>6, <3>1 DEF ExpectedLink, LinkUncleaned
    <3> QED
      BY <1>2, <1>5, <1>6, <2>3, <3>1, <3>2, <3>3 DEF NothingElse
  <2>8. CASE ~task.vlans
    <3>1. links' = {}
      BY <2>3, <2>8 DEF CleanSoFar
    <3>2. \/ at' = "clean_network" /\ index' = index + 1
          \/ at' = "between" /\ index = N
      BY <1>1, <2>1, <2>3, <2>8 DEF AfterNetwork
    <3>3. \A x \in Ours' : x[1] = "network" /\ Expected(x[2], x[3])'
      <4>1. \A x \in Ours' : x[3] \in Nat /\ x[1] = "network"
        BY <1>5, <2>3
      <4> QED
        BY <1>1, <1>2, <1>5, <2>5, <3>2, <4>1 DEF Expected, Uncleaned
    <3> QED
      BY <1>2, <1>5, <1>6, <2>3, <3>1, <3>2, <3>3 DEF NothingElse
  <2> QED
    BY <2>7, <2>8
<1>10. CASE CleanLink
  <2>1. /\ at = "clean_link" /\ links' = links \ {index} /\ UNCHANGED <<left, unserved>>
        /\ \/ at' = "clean_network" /\ index' = index + 1
           \/ at' = "between" /\ index = N
    BY <1>3, <1>10 DEF CleanLink, DeleteLink
  <2>2. \A x \in Ours : x[3] > N \/ (x[2] = round /\ x[3] <= created /\ x[3] > index)
    BY <1>4, <2>1 DEF NothingElse, Expected, Uncleaned
  <2>3. \A n \in links' : n > N \/ (n <= created /\ n > index)
    BY <1>1, <1>4, <2>1 DEF NothingElse, ExpectedLink, LinkUncleaned
  <2>4. \A x \in Ours' : x[1] = "network" /\ Expected(x[2], x[3])'
    BY <1>1, <1>2, <1>5, <2>1, <2>2 DEF Expected, Uncleaned
  <2>5. \A n \in links' : ExpectedLink(n)'
    BY <1>1, <1>2, <1>5, <2>1, <2>3 DEF ExpectedLink, LinkUncleaned
  <2> QED
    BY <1>2, <1>5, <1>6, <2>1, <2>4, <2>5 DEF NothingElse
<1> QED
  BY <1>7, <1>8, <1>9, <1>10

(* Between two runs, only what is beyond the networks asked for is left. *)
LEMMA WayBetween ==
  ASSUME TypeOK, NothingInTheWay, RunAgain \/ EndRuns \/ SweepEffect \/ VanishEffect
  PROVE  NothingInTheWay'
<1> USE DEF At, Fixed, Loop, Cloud
<1> SUFFICES ASSUME Quiet' PROVE NothingElse'
  BY DEF NothingInTheWay
<1>1. /\ task \in Tasks /\ created \in Nat /\ N \in Nat \ {0}
      /\ left \subseteq Things /\ links \subseteq Nat
  BY TaskFacts DEF TypeOK, ContextTypeOK
<1>2. UNCHANGED <<task, unserved>> /\ left' \subseteq left /\ links' \subseteq links
      /\ (faults' = faults \/ faults' >= faults)
  BY DEF RunAgain, EndRuns, SweepEffect, VanishEffect, Contexts
<1>3. Quiet
  BY <1>2, QuietBefore
<1>4. NothingElse /\ N' = N /\ Ours' \subseteq Ours
  BY <1>2, <1>3 DEF NothingInTheWay, N, Ours
<1> USE DEF SetupPoints, CleaningPoints
<1>5. CASE RunAgain \/ EndRuns \/ SweepEffect
  <2>1. at \in {"between", "sweep", "sweep_link"}
        /\ at' \in {"setup", "over", "between", "sweep", "sweep_link"}
        /\ \/ UNCHANGED <<created, subnetted>>
           \/ created' = 0 /\ subnetted' = {}
    BY <1>5 DEF RunAgain, EndRuns, SweepEffect, Contexts
  <2>2. (\A x \in Ours : x[1] = "network" /\ x[3] > N) /\ \A n \in links : n > N
    BY <1>4, <2>1 DEF NothingElse, Expected, ExpectedLink, Uncleaned, LinkUncleaned
  <2>3. subnetted' = 1..created'
    <3>1. 1..0 = {}
      OBVIOUS
    <3>2. subnetted = 1..created
      BY <1>4, <2>1 DEF NothingElse
    <3> QED
      BY <2>1, <3>1, <3>2
  <2> QED
    BY <1>2, <1>4, <2>1, <2>2, <2>3 DEF NothingElse, Expected, ExpectedLink
<1>6. CASE VanishEffect
  <2>1. UNCHANGED <<task, round, created, subnetted, unserved, at, index, links>>
    BY <1>6 DEF VanishEffect, Contexts
  <2>2. \A r, n : Expected(r, n)' <=> Expected(r, n)
    BY <1>4, <2>1 DEF Expected, Uncleaned
  <2>3. \A n : ExpectedLink(n)' <=> ExpectedLink(n)
    BY <1>4, <2>1 DEF ExpectedLink, LinkUncleaned
  <2> QED
    BY <1>2, <1>4, <2>1, <2>2, <2>3 DEF NothingElse
<1> QED
  BY <1>5, <1>6

--------------------------------------------------------------------------------
(* The script.  SweptSoFar is kept by it, and by the context, which is not at work *)
(* while the script is.                                                            *)

LEMMA SweptInit == Init => SweptSoFar
<1> SUFFICES ASSUME Init PROVE SweptSoFar
  OBVIOUS
<1>1. /\ at = "setup" /\ doomed = {} /\ ~pool
      /\ \A x \in left : x = OthersFip
  BY DEF Init, ContextInit
<1>2. \A r, n : <<"port", r, n>> # OthersFip
  BY DEF OthersFip
<1> QED
  BY <1>1, <1>2 DEF SweptSoFar

(* A router with its port. *)
PortsHaveRouters ==
  \A r \in 1..Runs, n \in 1..MaxNetworks :
    <<"port", r, n>> \in left => <<"router", r, n>> \in left

LEMMA PortsByContext ==
  ASSUME TypeOK, RoomLeft, PortsHaveRouters, ContextStep
  PROVE  PortsHaveRouters'
<1> USE DEF At, Fixed, Loop, Cloud
<1>1. CASE CreateNetwork \/ CleanNetwork
  <2>1. left' \subseteq left \cup {<<"network", round, created + 1>>}
        /\ left \subseteq left' \cup {<<"network", round, index>>}
    BY <1>1 DEF CreateNetwork, CleanNetwork, Numbered
  <2> QED
    BY <2>1 DEF PortsHaveRouters
<1>2. CASE Iterate
  <2>1. \/ left' = left
        \/ \E rest \in Litter :
             left' = left \cup {<<kind, round, NetworkOf(index)>> : kind \in rest}
    BY <1>2 DEF Iterate
  <2>2. ASSUME NEW rest \in Litter,
               left' = left \cup {<<kind, round, NetworkOf(index)>> : kind \in rest}
        PROVE  PortsHaveRouters'
    <3>1. "port" \in rest => "router" \in rest
      BY ContextAssumption
    <3>2. ASSUME NEW r \in 1..Runs, NEW n \in 1..MaxNetworks, <<"port", r, n>> \in left'
          PROVE  <<"router", r, n>> \in left'
      <4>1. \/ <<"port", r, n>> \in left
            \/ "port" \in rest /\ r = round /\ n = NetworkOf(index)
        BY <2>2, <3>2
      <4> QED
        BY <2>2, <3>1, <4>1 DEF PortsHaveRouters
    <3> QED
      BY <3>2 DEF PortsHaveRouters
  <2> QED
    BY <2>1, <2>2 DEF PortsHaveRouters
<1>3. CASE \/ Setup \/ LinkAdd \/ LinkUp \/ LinkAddress \/ CreateSubnet \/ EndTask
           \/ CleanLink \/ RunAgain \/ EndRuns
  <2>1. UNCHANGED left
    BY <1>3 DEF Setup, LinkAdd, LinkUp, LinkAddress, LinkCommand, CreateSubnet, EndTask,
                CleanLink, RunAgain, EndRuns
  <2> QED
    BY <2>1 DEF PortsHaveRouters
<1> QED
  BY <1>1, <1>2, <1>3 DEF ContextStep

LEMMA SweptByContext ==
  ASSUME TypeOK, RoomLeft, SweptSoFar, ContextStep, UNCHANGED sweepVars
  PROVE  SweptSoFar'
<1>1. at \in ContextPoints /\ at' \in ContextPoints
  BY DEF ContextStep, Setup, LinkAdd, LinkUp, LinkAddress, LinkCommand, CreateNetwork,
         CreateSubnet, Iterate, EndTask, CleanNetwork, CleanLink, RunAgain, EndRuns, At,
         BreakOff, NextOfTenant, AfterNetwork, ContextPoints
<1>2. at \notin {"sweep", "sweep_link"} /\ at' \notin {"sweep", "sweep_link"}
  BY <1>1 DEF ContextPoints
<1>3. PortsHaveRouters'
  BY PortsByContext DEF SweptSoFar, PortsHaveRouters
<1> QED
  BY <1>2, <1>3 DEF SweptSoFar, PortsHaveRouters, sweepVars

(* Without routers there are no ports, so that nothing but networks is left at the end. *)
LEMMA NextKind ==
  ASSUME TypeOK, SweptSoFar, at = "sweep", Found(Kind) = {} \/ LastTry, NextStage,
         UNCHANGED <<task, links, left, kept, doomed, tries, withLinks>>, pool' = FALSE
  PROVE  SweptSoFar'
<1>1. stage \in 1..6 /\ left \subseteq Things /\ links \subseteq 1..MaxNetworks
      /\ MaxNetworks \in Nat
  BY Orders, ContextAssumption DEF TypeOK, ContextTypeOK
<1>2. ASSUME NEW x \in left, NEW k \in 1..stage, x[1] = Order[k], k # 6
      PROVE  x[1] = "port" /\ ~task.named
  <2>1. CASE k < stage
    <3>1. k \in 1..stage - 1
      BY <1>1, <2>1
    <3> QED
      BY <1>2, <3>1 DEF SweptSoFar
  <2>2. CASE k = stage
    <3>1. Kind # "network"
      BY <1>1, <1>2, <2>2, Orders DEF Kind
    <3>2. Found(Kind) = {}
      BY <3>1 DEF LastTry
    <3> QED
      BY <1>2, <2>2, <3>2 DEF Found, Kind
  <2> QED
    BY <1>1, <2>1, <2>2
<1>3. CASE stage < 6
  <2>1. stage' = stage + 1 /\ at' = at /\ index' = index
    BY <1>3, Orders DEF NextStage
  <2>2. \A x \in left : \A k \in 1..stage : x[1] = Order[k] => x[1] = "port" /\ ~task.named
    BY <1>1, <1>2, <1>3
  <2>3. stage' - 1 = stage
    BY <1>1, <2>1
  <2> QED
    BY <2>1, <2>2, <2>3 DEF SweptSoFar
<1>4. CASE stage = 6
  <2>1. at' = "sweep_link" /\ index' = 1
    BY <1>4, Orders DEF NextStage
  <2>2. \A x \in left : x[1] # "router"
    BY <1>2, <1>4, Orders
  <2>3. ASSUME NEW x \in left, x[1] = "port" PROVE FALSE
    <3>0. x # OthersFip
      BY <2>3 DEF OthersFip
    <3>1. x[2] \in 1..Runs /\ x[3] \in 1..MaxNetworks /\ <<"port", x[2], x[3]>> \in left
      BY <1>1, <2>3, <3>0, ThingParts
    <3>2. <<"router", x[2], x[3]>> \in left
      BY <3>1 DEF SweptSoFar
    <3> QED
      BY <2>2, <3>2
  <2>4. \A x \in left : x[1] = "network"
    BY <1>1, <1>2, <1>4, <2>3, Orders, ThingParts DEF Kinds
  <2>5. left \subseteq Networks
    BY <1>1, <2>4, ThingParts DEF Networks
  <2>6. left = {} \/ tries = MaxAttempts
    BY <1>4, <2>4, Orders DEF Found, Kind, LastTry
  <2>7. \A n \in links : ~(n < 1)
    BY <1>1
  <2> QED
    BY <2>1, <2>5, <2>6, <2>7 DEF SweptSoFar
<1> QED
  BY <1>1, <1>3, <1>4

(* A process whose deletion was not refused has removed what it was to remove. *)
LEMMA SweptByWorker ==
  ASSUME TypeOK, SweptSoFar, NEW x \in Things, Worker(x)
  PROVE  SweptSoFar'
<1>1. /\ pool /\ x \in todo /\ todo' = todo \ {x} /\ at = "sweep" /\ x[1] = Kind
      /\ UNCHANGED <<Contexts, at, index, links, kept, stage, pool, tries, sweeps, withLinks>>
  BY DEF Worker, SweptSoFar
<1>2. Kind' = Kind /\ pool \in BOOLEAN /\ ret \in BOOLEAN
  BY <1>1 DEF Kind, TypeOK
<1>3. \/ /\ x \in left /\ ~Refused(x) /\ ret' = ret
         /\ \/ left' = left \ {x} /\ doomed' = doomed \ {x}
            \/ x[1] = "server" /\ doomed' = doomed \cup {x} /\ left' = left
      \/ ret' = FALSE /\ left' = left /\ doomed' = doomed
  BY DEF Worker
<1>4. left' \subseteq left /\ \A y \in doomed' : y[1] = "server"
  BY <1>3 DEF SweptSoFar
<1>5. pool' /\ ret' /\ Kind' # "server" => Found(Kind)' \subseteq todo'
  BY <1>1, <1>2, <1>3 DEF SweptSoFar, Found, Contexts
<1>6. PortsHaveRouters'
  <2>1. ASSUME NEW r \in 1..Runs, NEW n \in 1..MaxNetworks, <<"port", r, n>> \in left'
        PROVE  <<"router", r, n>> \in left'
    <3>1. <<"port", r, n>> \in left /\ <<"router", r, n>> \in left
      BY <1>4, <2>1 DEF SweptSoFar
    <3>2. x = <<"router", r, n>> => Refused(x)
      BY <3>1 DEF Refused, Blockers
    <3> QED
      BY <1>3, <3>1, <3>2
  <2> QED
    BY <2>1 DEF PortsHaveRouters
<1>7. /\ at' = "sweep" /\ \A y \in todo' : y[1] = Kind'
  BY <1>1, <1>2 DEF SweptSoFar
<1>8. \A y \in left' : \A k \in 1..stage' - 1 : y[1] = Order[k] => y[1] = "port" /\ ~task'.named
  BY <1>1, <1>4 DEF SweptSoFar, Contexts
<1> QED
  BY <1>4, <1>5, <1>6, <1>7, <1>8 DEF SweptSoFar, PortsHaveRouters

LEMMA SweptBySweep ==
  ASSUME TypeOK, RoomLeft, SweptSoFar, SweepStep
  PROVE  SweptSoFar'
<1>1. stage \in 1..6 /\ pool \in BOOLEAN /\ ret \in BOOLEAN /\ links \subseteq Nat
      /\ index \in Nat
  BY Orders DEF TypeOK, ContextTypeOK
<1> USE DEF At, Cloud, Contexts
<1>2. CASE StartSweep
  <2>1. /\ at = "between" /\ at' = "sweep" /\ stage' = 1
        /\ UNCHANGED <<left, doomed, pool>>
    BY <1>2 DEF StartSweep
  <2>2. ~pool /\ \A k \in 1..stage' - 1 : FALSE
    BY <2>1 DEF SweptSoFar
  <2> QED
    BY <2>1, <2>2 DEF SweptSoFar
<1>3. CASE ListDone
  <2>1. /\ at = "sweep" /\ (Found(Kind) = {} \/ LastTry) /\ NextStage /\ ~pool /\ pool' = pool
        /\ UNCHANGED <<task, links, left, kept, doomed, tries, withLinks>>
    BY <1>3 DEF ListDone
  <2> QED
    BY <1>1, <2>1, NextKind
<1>4. CASE ListAndMap
  <2>1. /\ at = "sweep" /\ todo' = Found(Kind) /\ pool' = TRUE
        /\ UNCHANGED <<task, at, stage, index, links, left, kept, doomed, withLinks>>
    BY <1>4 DEF ListAndMap
  <2>2. Kind' = Kind /\ Found(Kind)' = Found(Kind)
    BY <2>1 DEF Kind, Found
  <2> QED
    BY <2>1, <2>2 DEF SweptSoFar, Found
<1>5. CASE TimeOut
  <2>1. /\ pool /\ todo' = {} /\ ret' = FALSE
        /\ UNCHANGED <<task, at, stage, index, links, left, kept, doomed, pool, tries, withLinks>>
    BY <1>5 DEF TimeOut
  <2> QED
    BY <2>1 DEF SweptSoFar
<1>6. CASE Collect
  <2>1. /\ at = "sweep" /\ pool /\ todo = {} /\ pool' = FALSE
        /\ UNCHANGED <<task, links, left, kept, doomed, tries, withLinks>>
        /\ IF Kind # "server" /\ ret THEN NextStage ELSE UNCHANGED <<at, stage, index>>
    BY <1>6 DEF Collect
  <2>2. CASE Kind # "server" /\ ret
    <3>1. Found(Kind) = {}
      BY <2>1, <2>2 DEF SweptSoFar
    <3> QED
      BY <2>1, <2>2, <3>1, NextKind
  <2>3. CASE ~(Kind # "server" /\ ret)
    BY <2>1, <2>3 DEF SweptSoFar
  <2> QED
    BY <2>2, <2>3
<1>7. CASE \E x \in Things : Worker(x)
  BY <1>7, SweptByWorker
<1>8. CASE SweepLink
  <2>1. /\ at = "sweep_link" /\ UNCHANGED <<task, left, sweepVars>>
        /\ \/ DeleteLink(index) /\ index' = index + 1 /\ at' = at
           \/ at' = "between" /\ UNCHANGED <<index, links, kept>>
    BY <1>8 DEF SweepLink
  <2>2. ~pool /\ ~pool'
    BY <2>1 DEF SweptSoFar, sweepVars
  <2>3. CASE at' = "between"
    BY <2>1, <2>2, <2>3 DEF SweptSoFar, sweepVars
  <2>4. CASE DeleteLink(index) /\ index' = index + 1 /\ at' = at
    <3>1. /\ links' \subseteq links /\ KeptGrows
          /\ index \in links' => Link(index) \in kept'
      BY <2>4, LinkDeleted
    <3>2. withLinks /\ task.vlans => \A n \in links' : n < index' => n > N \/ Link(n) \in kept'
      <4>1. \A n \in links' : n < index' => n < index \/ n = index
        BY <1>1, <2>4, <3>1
      <4> QED
        BY <2>1, <3>1, <4>1 DEF SweptSoFar, KeptGrows
    <3>3. N' = N
      BY <2>1 DEF N
    <3> QED
      BY <2>1, <2>2, <2>4, <3>2, <3>3 DEF SweptSoFar, sweepVars
  <2> QED
    BY <2>1, <2>3, <2>4
<1> QED
  BY <1>2, <1>3, <1>4, <1>5, <1>6, <1>7, <1>8 DEF SweepStep

LEMMA SweptByVanish ==
  ASSUME TypeOK, SweptSoFar, \/ \E x \in Things : Vanish(x)
                             \/ UNCHANGED vars
  PROVE  SweptSoFar'
<1>1. CASE \E x \in Things : Vanish(x)
  <2>1. PICK x \in Things : Vanish(x)
    BY <1>1
  <2>2. /\ x[1] = "server" /\ left' = left \ {x} /\ doomed' = doomed \ {x}
        /\ UNCHANGED <<task, at, index, links, kept, stage, todo, pool, ret, tries, withLinks>>
    BY <2>1 DEF Vanish, SweptSoFar, Contexts
  <2>3. Kind' = Kind /\ Found(Kind)' \subseteq Found(Kind) /\ N' = N
    BY <2>2 DEF Kind, Found, N
  <2>4. PortsHaveRouters'
    BY <2>2 DEF SweptSoFar, PortsHaveRouters
  <2>5. left' \subseteq left
    BY <2>2
  <2> QED
    BY <2>2, <2>3, <2>4, <2>5 DEF SweptSoFar, PortsHaveRouters
<1>2. CASE UNCHANGED vars
  BY <1>2 DEF vars, contextVars, sweepVars, SweptSoFar, Kind, Found, N
<1> QED
  BY <1>1, <1>2

--------------------------------------------------------------------------------
CleanupInv == RoomLeft /\ CleanSoFar /\ NothingInTheWay /\ SweptSoFar

LEMMA CleanupStep == TypeOK /\ CleanupInv /\ [Next]_vars => TypeOK' /\ CleanupInv'
<1> SUFFICES ASSUME TypeOK, CleanupInv, [Next]_vars PROVE TypeOK' /\ CleanupInv'
  OBVIOUS
<1>1. RoomLeft /\ CleanSoFar /\ NothingInTheWay /\ SweptSoFar
  BY DEF CleanupInv
<1>2. CASE ContextStep /\ UNCHANGED sweepVars
  <2>1. TypeOK' /\ RoomLeft' /\ CleanSoFar' /\ SweptSoFar'
    BY <1>1, <1>2, ContextTypes, CleanByContext, SweptByContext
  <2>2. NothingInTheWay'
    BY <1>1, <1>2, WayBySetup, WayByCleanup, WayBetween DEF ContextStep
  <2> QED
    BY <2>1, <2>2 DEF CleanupInv
<1>3. CASE SweepStep
  <2>1. TypeOK' /\ SweepEffect
    BY <1>1, <1>3, SweepTypes
  <2> QED
    BY <1>1, <1>3, <2>1, SweepKeepsRoom, CleanBySweep, WayBetween, SweptBySweep DEF CleanupInv
<1>4. CASE (\E x \in Things : Vanish(x)) \/ UNCHANGED vars
  <2>1. TypeOK' /\ RoomLeft' /\ VanishEffect
    BY <1>1, <1>4, VanishTypes
  <2> QED
    BY <1>1, <1>4, <2>1, CleanBySweep, WayBetween, SweptByVanish DEF CleanupInv
<1> QED
  BY <1>2, <1>3, <1>4 DEF Next, Step, Terminated

LEMMA Cleanups == Spec => [](TypeOK /\ CleanupInv)
<1>1. Init => TypeOK /\ CleanupInv
  BY TypesInit, CleanInit, WayInit, SweptInit DEF CleanupInv
<1> QED
  BY <1>1, CleanupStep, PTL DEF Spec

(***************************************************************************)
(* Every variable keeps its type, for any tasks, runs and sweeps: a context *)
(* never makes more networks than its tasks' wishes and tenants allow.      *)
(***************************************************************************)
THEOREM TypeCorrect == Spec => []TypeOK
BY Cleanups, PTL

(***************************************************************************)
(* Between two runs, however many there are, no network of the last one is  *)
(* left but what its cleanup does not reach or failed to delete; no link is *)
(* left, of any run, but those beyond the networks asked for, those whose   *)
(* deletion failed, and the first when no network was made; and without a   *)
(* failure every iteration of every run has a network.                      *)
(***************************************************************************)
THEOREM CleansUp == Spec => []ContextCleansUp
<1>1. TypeOK /\ CleanupInv => ContextCleansUp
  <2> SUFFICES ASSUME TypeOK, CleanupInv PROVE ContextCleansUp
    OBVIOUS
  <2>1. /\ created \in Nat /\ subnetted \subseteq 1..created /\ links \subseteq Nat /\ N \in Nat
        /\ round \in Nat /\ round >= 1
    BY TaskFacts, ContextAssumption DEF TypeOK, ContextTypeOK
  <2>2. ASSUME at = "between", NEW n \in 1..created, Numbered(round, n) \in left
        PROVE  Unreached(n) \/ Numbered(round, n) \in kept
    <3>1. n \in subnetted /\ ~(n > N) => Past(n)
      BY <2>1, <2>2 DEF Past, SweepingPoints
    <3> QED
      BY <2>2, <3>1 DEF CleanupInv, CleanSoFar, Unreached
  <2>3. ASSUME at = "between", NEW n \in links
        PROVE  UnreachedLink(n) \/ Link(n) \in kept
    <3>1. LinkStays(n) => n = 1 /\ created = 0
      BY <2>1, <2>3 DEF LinkStays, SweepingPoints, CleaningPoints
    <3> QED
      BY <2>1, <2>3, <3>1 DEF CleanupInv, CleanSoFar, UnreachedLink
  <2>4. faults = 0 /\ ~task.foreign => unserved = {}
    BY DEF CleanupInv, NothingInTheWay, Quiet, NothingElse
  <2> QED
    BY <2>2, <2>3, <2>4 DEF ContextCleansUp, At
<1> QED
  BY <1>1, Cleanups, PTL

(***************************************************************************)
(* When the script is done, nothing is left but networks it tried           *)
(* MaxAttempts times, and links it was asked for and failed to delete,      *)
(* whatever processes raised or were terminated.                            *)
(***************************************************************************)
THEOREM Swept == Spec => []SweptClean
<1>1. TypeOK /\ CleanupInv => SweptClean
  <2> SUFFICES ASSUME TypeOK, CleanupInv, at = "sweep_link" PROVE SweptClean
    BY DEF SweptClean, At
  <2>1. links \subseteq Nat /\ N \in Nat /\ index \in Nat
    BY TaskFacts DEF TypeOK, ContextTypeOK
  <2>2. index > N => \A n \in links : n < index \/ n > N
    BY <2>1
  <2> QED
    BY <2>1, <2>2 DEF CleanupInv, SweptSoFar, SweptClean
<1> QED
  BY <1>1, Cleanups, PTL
================================================================================
