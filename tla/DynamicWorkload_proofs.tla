------------------------- MODULE DynamicWorkload_proofs -------------------------
(***************************************************************************)
(* Proofs about DynamicWorkload for any iterations, networks, selections    *)
(* and number of faults: no two iterations are at work on one provider      *)
(* network, the network an iteration works on is there, the lock table is   *)
(* used as the abstract lock service, and the one script of kube-burner is  *)
(* run on the cluster of the iteration that runs it.  The second half is    *)
(* about the load balancers, which no lock protects: what is deleted leaves *)
(* nothing behind, and no member goes missing unaccounted for; and with it  *)
(* the types of the whole composition.                                      *)
(***************************************************************************)
EXTENDS DynamicWorkload, LockTable_proofs, Sequences, TLAPS

(* A workload returns to another one or to the end of the iteration. *)
LEMMA NextWorkload ==
  /\ AfterNetCreate \in Entries \cup {"done"}
  /\ AfterNetBoot \in Entries \cup {"done"}
  /\ AfterNetDelete \in Entries \cup {"done"}
  /\ AfterLbCreate \in Entries \cup {"done"}
  /\ AfterLbDelete \in Entries \cup {"done"}
  /\ AfterMembers \in Entries \cup {"done"}
  /\ AfterKubeBurner \in Entries \cup {"done"}
  /\ First \in Entries \cup {"done"}
<1>1. AfterKubeBurner \in Entries \cup {"done"}
  BY DEF AfterKubeBurner, Selected, Entries
<1>2. AfterNetDelete \in Entries \cup {"done"}
  BY <1>1 DEF AfterNetDelete, Selected, Entries
<1>3. AfterNetBoot \in Entries \cup {"done"}
  BY <1>2 DEF AfterNetBoot, Selected, Entries
<1>4. AfterNetCreate \in Entries \cup {"done"}
  BY <1>3 DEF AfterNetCreate, Selected, Entries
<1>5. AfterMembers \in Entries \cup {"done"}
  BY <1>4 DEF AfterMembers, Selected, Entries
<1>6. AfterLbDelete \in Entries \cup {"done"}
  BY <1>5 DEF AfterLbDelete, Selected, Entries
<1>7. AfterLbCreate \in Entries \cup {"done"}
  BY <1>6 DEF AfterLbCreate, Selected, Entries
<1>8. First \in Entries \cup {"done"}
  BY <1>7 DEF First, Selected, Entries
<1> QED
  BY <1>1, <1>2, <1>3, <1>4, <1>5, <1>6, <1>7, <1>8

--------------------------------------------------------------------------------
(***************************************************************************)
(* The invariant.  What is at stake is that the creator of a network never  *)
(* looks at what acquire_lock answered: Untouched says that nobody else can *)
(* have locked the network by then, because the others pass it over until   *)
(* it has a subnet, and Reserved that from then on the lock is held by the  *)
(* iteration at work.                                                       *)
(***************************************************************************)
NetTypes ==
  /\ LockTypeOK
  /\ DOMAIN pc = Iteration /\ pc = [i \in Iteration |-> pc[i]]
  /\ net \in [Iteration -> {<<>>} \cup {<<o>> : o \in Object}]
  /\ active \in [Object -> Nat]
  /\ left \in [Iteration -> Nat]
  /\ created \subseteq Object /\ networks \subseteq created /\ subnets \subseteq networks
  /\ locked \subseteq created
  /\ stuck \subseteq Object
  /\ \A i \in Iteration : pc[i] \in NetPoints => \E o \in created : net[i] = <<o>>

(* The creator's network between its creation and its lock. *)
Untouched(i) ==
  pc[i] = "net_acquire" =>
    /\ Net(i) \notin locked
    /\ \A j \in Iteration \ {i} : pc[j] \in NetPoints /\ Net(j) = Net(i)
                                    => pc[j] \in {"boot_show", "del_show"}

Reserved(i) ==
  /\ pc[i] \in AtWork => Net(i) \in held[i]
  /\ pc[i] \in {"net_acquire", "net_subnet"} => Net(i) \in networks \ subnets
  /\ pc[i] \in {"net_boot", "net_release", "boot_subnet", "boot_release", "del_server"}
       => Net(i) \in networks
  /\ pc[i] = "del_server" => left[i] = active[Net(i)] /\ left[i] > 0
  /\ pc[i] = "del_network" => active[Net(i)] = 0

(* VMs are on networks that are there; a VM in error keeps its network locked. *)
Occupied ==
  /\ \A o \in Object : active[o] > 0 => o \in networks
  /\ \A o \in stuck : \E j \in Iteration : pc[j] = "failed" /\ o \in held[j]

NetInv == /\ NetTypes /\ LockOwnership /\ Occupied
          /\ \A i \in Iteration : Untouched(i) /\ Reserved(i)

LEMMA NetInit == Init => NetInv
<1> SUFFICES ASSUME Init PROVE NetInv
  OBVIOUS
<1>1. \A i \in Iteration : pc[i] \in Entries \cup {"done"}
  BY NextWorkload DEF Init, IterationInit
<1>2. \A i \in Iteration : pc[i] \notin NetPoints \cup AtWork
  BY <1>1 DEF Entries, NetPoints, CreatePoints, BootPoints, DeletePoints, AtWork
<1>3. NetTypes
  BY <1>2 DEF Init, LockInit, IterationInit, ProviderInit, NetTypes, LockTypeOK
<1>4. LockOwnership /\ Occupied
  BY DEF Init, LockInit, ProviderInit, LockOwnership, Occupied
<1>5. \A i \in Iteration : Untouched(i) /\ Reserved(i)
  BY <1>2 DEF Untouched, Reserved, NetPoints, CreatePoints, BootPoints, DeletePoints
<1> QED
  BY <1>3, <1>4, <1>5 DEF NetInv

--------------------------------------------------------------------------------
(***************************************************************************)
(* Steps that are none of the provider networks' leave them and the locks   *)
(* alone, and lead to no point inside a provider network workload.          *)
(***************************************************************************)
Elsewhere(i) == /\ UNCHANGED <<lockVars, providerVars>>
                /\ pc[i] # "failed"
                /\ \E p : p \notin NetPoints /\ pc' = [pc EXCEPT ![i] = p]

LEMMA OctaviaIsElsewhere ==
  ASSUME NetTypes, NEW i \in Iteration, OctaviaStep(i), UNCHANGED providerVars
  PROVE  Elsewhere(i)
<1>1. /\ AfterLbCreate \notin NetPoints /\ AfterLbDelete \notin NetPoints
      /\ AfterMembers \notin NetPoints
  BY NextWorkload DEF Entries, NetPoints, CreatePoints, BootPoints, DeletePoints
<1>2. pc = [pc EXCEPT ![i] = pc[i]]
  BY DEF NetTypes
<1> USE <1>1, <1>2 DEF Elsewhere, At, Goto, Fail, LeaveWorkload, AwaitActive, TryAgain, NextSlot,
                       NextRound, RoundOver, ForgetLocals, Set, iterationVars, NetPoints, CreatePoints, BootPoints,
                       DeletePoints
<1>3. CASE LbRouter(i)
  BY <1>3 DEF LbRouter
<1>4. CASE LbNetworks(i)
  BY <1>4 DEF LbNetworks
<1>5. CASE LbJump(i)
  BY <1>5 DEF LbJump
<1>6. CASE LbClient(i)
  BY <1>6 DEF LbClient
<1>7. CASE LbCreate(i)
  BY <1>7 DEF LbCreate
<1>8. CASE LbWait(i)
  BY <1>8 DEF LbWait
<1>9. CASE LbListener(i)
  BY <1>9 DEF LbListener
<1>10. CASE LbWaitListener(i)
  BY <1>10 DEF LbWaitListener
<1>11. CASE LbPool(i)
  BY <1>11 DEF LbPool
<1>12. CASE LbWaitPool(i)
  BY <1>12 DEF LbWaitPool
<1>13. CASE LbMember(i)
  BY <1>13 DEF LbMember
<1>14. CASE LbMemberError(i)
  BY <1>14 DEF LbMemberError
<1>15. CASE LbCheck(i)
  BY <1>15 DEF LbCheck
<1>16. CASE LbUnjump(i)
  BY <1>16 DEF LbUnjump
<1>17. CASE DelLbList(i)
  BY <1>17 DEF DelLbList
<1>18. CASE DelLb(i)
  BY <1>18 DEF DelLb
<1>19. CASE DelLbServers(i)
  BY <1>19 DEF DelLbServers
<1>20. CASE DelLbVip(i)
  BY <1>20 DEF DelLbVip
<1>21. CASE DelLbClientNet(i)
  BY <1>21 DEF DelLbClientNet
<1>22. CASE MemPick(i)
  BY <1>22 DEF MemPick
<1>23. CASE MemWait(i)
  BY <1>23 DEF MemWait
<1>24. CASE MemList(i)
  BY <1>24 DEF MemList
<1>25. CASE MemChoose(i)
  BY <1>25 DEF MemChoose
<1>26. CASE MemDelete(i)
  BY <1>26 DEF MemDelete
<1>27. CASE MemDeleteError(i)
  BY <1>27 DEF MemDeleteError
<1> QED
  BY <1>3, <1>4, <1>5, <1>6, <1>7, <1>8, <1>9, <1>10, <1>11, <1>12, <1>13, <1>14,
     <1>15, <1>16, <1>17, <1>18, <1>19, <1>20, <1>21, <1>22, <1>23, <1>24, <1>25, <1>26, <1>27
     DEF OctaviaStep, CreateLoadBalancers, DeleteLoadBalancers, DeleteMembers

LEMMA OcpIsElsewhere ==
  ASSUME NetTypes, NEW i \in Iteration, OcpStep(i), UNCHANGED providerVars
  PROVE  Elsewhere(i)
<1>1. AfterKubeBurner \notin NetPoints
  BY NextWorkload DEF Entries, NetPoints, CreatePoints, BootPoints, DeletePoints
<1> QED
  BY <1>1 DEF OcpStep, KubeRead, KubeTruncate, KubeWrite, KubeRun, InstallOcp, At, Goto,
              Elsewhere, NetPoints, CreatePoints, BootPoints, DeletePoints

LEMMA BreaksIsElsewhere ==
  ASSUME NEW i \in Iteration, Breaks(i)
  PROVE  Elsewhere(i)
BY DEF Breaks, Raise, Stopped, Elsewhere, lockVars, NetPoints, CreatePoints, BootPoints,
       DeletePoints

LEMMA ElsewhereKeeps ==
  ASSUME NetInv, NEW i \in Iteration, Elsewhere(i)
  PROVE  NetInv'
<1>1. PICK p : p \notin NetPoints /\ pc' = [pc EXCEPT ![i] = p]
  BY DEF Elsewhere
<1>2. /\ UNCHANGED <<locked, held, networks, created, subnets, active, stuck, net, left>>
      /\ pc[i] # "failed"
  BY DEF Elsewhere, lockVars, providerVars
<1>3. DOMAIN pc = Iteration
  BY DEF NetInv, NetTypes
<1>4. pc'[i] = p /\ \A j \in Iteration \ {i} : pc'[j] = pc[j]
  BY <1>1, <1>3
<1>5. p \notin AtWork
  BY <1>1 DEF AtWork, NetPoints, CreatePoints, BootPoints, DeletePoints
<1>6. NetTypes'
  BY <1>1, <1>2, <1>3, <1>4 DEF NetInv, NetTypes, LockTypeOK
<1>7. LockOwnership'
  BY <1>2 DEF NetInv, LockOwnership
<1>8. Occupied'
  BY <1>2, <1>4 DEF NetInv, Occupied
<1>9. ASSUME NEW j \in Iteration PROVE Untouched(j)' /\ Reserved(j)'
  <2>1. \A k \in Iteration : Net(k)' = Net(k)
    BY <1>2 DEF Net
  <2>2. CASE j = i
    BY <1>1, <1>4, <1>5, <2>2
       DEF Untouched, Reserved, NetPoints, CreatePoints, BootPoints, DeletePoints
  <2>3. CASE j # i
    BY <1>1, <1>2, <1>4, <2>1, <2>3 DEF NetInv, Untouched, Reserved
  <2> QED
    BY <2>2, <2>3
<1> QED
  BY <1>6, <1>7, <1>8, <1>9 DEF NetInv

--------------------------------------------------------------------------------
(***************************************************************************)
(* The steps of the provider network workloads, one by one.                 *)
(***************************************************************************)
LEMMA PointsOf ==
  /\ AtWork \subseteq NetPoints
  /\ NetPoints = {"net_acquire", "net_subnet", "net_boot", "net_release",
                  "boot_show", "boot_acquire", "boot_server", "boot_subnet", "boot_release",
                  "del_show", "del_acquire", "del_list", "del_server", "del_network",
                  "del_release"}
  /\ AtWork = {"net_subnet", "net_boot", "net_release", "boot_server", "boot_subnet",
               "boot_release", "del_list", "del_server", "del_network", "del_release"}
  /\ (Entries \cup Stopped) \cap NetPoints = {}
  /\ \A w \in {AfterNetCreate, AfterNetBoot, AfterNetDelete} : w \notin NetPoints
BY NextWorkload DEF AtWork, NetPoints, CreatePoints, BootPoints, DeletePoints, Entries, Stopped

(* What is known of the network of an iteration inside a workload. *)
LEMMA Mine ==
  ASSUME NetInv, NEW i \in Iteration, pc[i] \in NetPoints
  PROVE  Net(i) \in created /\ Net(i) \in Object /\ net[i] = <<Net(i)>>
<1>1. PICK o \in created : net[i] = <<o>>
  BY DEF NetInv, NetTypes
<1> QED
  BY <1>1 DEF Net, NetInv, NetTypes

(* Two iterations do not hold one lock, and so do not work on one network. *)
Alone(i, o) ==
  /\ o \in created /\ o \in Object /\ o \in held[i] /\ o \in locked
  /\ \A j \in Iteration : j # i => o \notin held[j]
  /\ \A j \in Iteration : j # i /\ pc[j] \in AtWork => Net(j) # o
  /\ \A j \in Iteration : j # i /\ pc[j] = "net_acquire" => Net(j) # o

LEMMA Apart ==
  ASSUME NetInv, NEW i \in Iteration, pc[i] \in AtWork
  PROVE  Alone(i, Net(i)) /\ net[i] = <<Net(i)>>
<1>1. /\ Net(i) \in held[i] /\ Net(i) \in locked
      /\ Net(i) \in created /\ Net(i) \in Object /\ net[i] = <<Net(i)>>
  BY Mine, PointsOf DEF NetInv, Reserved, LockOwnership
<1>2. \A j \in Iteration : j # i => Net(i) \notin held[j]
  BY <1>1 DEF NetInv, LockOwnership
<1>3. \A j \in Iteration : j # i /\ pc[j] \in AtWork => Net(j) # Net(i)
  BY <1>1, <1>2 DEF NetInv, Reserved
<1>4. \A j \in Iteration : j # i /\ pc[j] = "net_acquire" => Net(j) # Net(i)
  BY <1>1 DEF NetInv, Untouched
<1> QED
  BY <1>1, <1>2, <1>3, <1>4 DEF Alone

LEMMA NetCreateKeeps ==
  ASSUME NetInv, NEW i \in Iteration, NetCreate(i)
  PROVE  NetInv'
<1>1. PICK o \in Object \ created :
        /\ networks' = networks \cup {o} /\ created' = created \cup {o}
        /\ net' = [net EXCEPT ![i] = <<o>>] /\ pc' = [pc EXCEPT ![i] = "net_acquire"]
        /\ UNCHANGED <<locked, held, subnets, active, stuck, left>>
  BY DEF NetCreate, Goto, lockVars, nova
<1>2. /\ pc[i] = "provider_netcreate_nova_boot_ping"
      /\ pc'[i] = "net_acquire" /\ net'[i] = <<o>> /\ Net(i)' = o
      /\ \A j \in Iteration \ {i} : pc'[j] = pc[j] /\ net'[j] = net[j] /\ Net(j)' = Net(j)
  BY <1>1 DEF NetCreate, At, NetInv, NetTypes, Net
<1>3. o \notin locked /\ o \notin networks /\ o \notin subnets /\ active[o] = 0
  BY <1>1 DEF NetInv, NetTypes, Occupied
<1>4. \A j \in Iteration \ {i} : pc[j] \in NetPoints => Net(j) # o
  BY <1>1, Mine
<1>5. NetTypes'
  BY <1>1, <1>2, ZenonT(30) DEF NetInv, NetTypes, LockTypeOK
<1>6. LockOwnership' /\ Occupied'
  BY <1>1, <1>2 DEF NetInv, LockOwnership, Occupied
<1>7. ASSUME NEW j \in Iteration PROVE Untouched(j)' /\ Reserved(j)'
  <2>1. CASE j = i
    BY <1>1, <1>2, <1>3, <1>4, <2>1, PointsOf DEF Untouched, Reserved
  <2>2. CASE j # i
    BY <1>1, <1>2, <1>4, <2>2, PointsOf DEF NetInv, Untouched, Reserved
  <2> QED
    BY <2>1, <2>2
<1> QED
  BY <1>5, <1>6, <1>7 DEF NetInv

LEMMA NetAcquireKeeps ==
  ASSUME NetInv, NEW i \in Iteration, NetAcquire(i)
  PROVE  NetInv'
<1> DEFINE o == Net(i)
<1>1. pc[i] = "net_acquire" /\ o \in created /\ o \in Object /\ o \notin locked
  BY Mine, PointsOf DEF NetAcquire, At, NetInv, Untouched
<1>2. /\ locked' = locked \cup {o} /\ held' = [held EXCEPT ![i] = @ \cup {o}]
      /\ pc' = [pc EXCEPT ![i] = "net_subnet"]
      /\ UNCHANGED <<networks, created, subnets, active, stuck, net, left>>
  BY <1>1 DEF NetAcquire, Acquired, Refused, Goto, providerVars
<1>3. /\ pc'[i] = "net_subnet" /\ held'[i] = held[i] \cup {o}
      /\ \A j \in Iteration \ {i} : pc'[j] = pc[j] /\ held'[j] = held[j]
      /\ \A j \in Iteration : Net(j)' = Net(j)
  BY <1>2 DEF NetInv, NetTypes, LockTypeOK, Net
<1>4. \A j \in Iteration \ {i} : pc[j] = "net_acquire" => Net(j) # o
  BY <1>1, PointsOf DEF NetInv, Untouched
<1> HIDE DEF o
<1>5. NetTypes'
  <2>1. LockTypeOK'
    BY <1>1, <1>2 DEF NetInv, NetTypes, LockTypeOK
  <2>2. \A j \in Iteration : pc'[j] \in NetPoints => pc[j] \in NetPoints
    BY <1>1, <1>3, PointsOf
  <2> QED
    BY <1>1, <1>2, <2>1, <2>2 DEF NetInv, NetTypes
<1>6. LockOwnership'
  BY <1>1, <1>2, <1>3 DEF NetInv, LockOwnership
<1>7. Occupied'
  BY <1>1, <1>2, <1>3 DEF NetInv, Occupied
<1>8. ASSUME NEW j \in Iteration PROVE Untouched(j)' /\ Reserved(j)'
  <2>1. CASE j = i
    BY <1>1, <1>2, <1>3, <2>1, PointsOf DEF NetInv, Untouched, Reserved, o
  <2>2. CASE j # i
    BY <1>1, <1>2, <1>3, <1>4, <2>2, PointsOf DEF NetInv, Untouched, Reserved
  <2> QED
    BY <2>1, <2>2
<1> QED
  BY <1>5, <1>6, <1>7, <1>8 DEF NetInv

LEMMA NetSubnetKeeps ==
  ASSUME NetInv, NEW i \in Iteration, NetSubnet(i)
  PROVE  NetInv'
<1> DEFINE o == Net(i)
<1>0. pc[i] = "net_subnet" /\ pc[i] \in AtWork
  BY PointsOf DEF NetSubnet, At
<1>1. pc[i] = "net_subnet" /\ o \in networks /\ Alone(i, o)
  BY <1>0, Apart DEF NetInv, Reserved
<1>2. /\ subnets' = subnets \cup {o} /\ left' = [left EXCEPT ![i] = NumVms]
      /\ pc' = [pc EXCEPT ![i] = "net_boot"]
      /\ UNCHANGED <<locked, held, networks, created, active, stuck, net>>
  BY DEF NetSubnet, Goto, lockVars, nova
<1>3. /\ pc'[i] = "net_boot"
      /\ \A j \in Iteration \ {i} : pc'[j] = pc[j] /\ left'[j] = left[j]
      /\ \A j \in Iteration : Net(j)' = Net(j)
  BY <1>2 DEF NetInv, NetTypes, Net
<1>4. LockOwnership' /\ Occupied'
  BY <1>1, <1>2, <1>3 DEF NetInv, LockOwnership, Occupied
<1>5. ASSUME NEW j \in Iteration PROVE Untouched(j)' /\ Reserved(j)'
  <2>1. CASE j = i
    BY <1>1, <1>2, <1>3, <2>1, PointsOf DEF NetInv, Untouched, Reserved, Alone
  <2>2. CASE j # i
    <3> HIDE DEF o
    <3>1. pc'[j] = pc[j] /\ left'[j] = left[j] /\ Net(j)' = Net(j) /\ Untouched(j) /\ Reserved(j)
      BY <1>3, <2>2 DEF NetInv
    <3>2. pc[j] \in {"net_acquire", "net_subnet"} => Net(j) # o
      BY <1>1, <2>2, PointsOf DEF Alone
    <3>3. \A k \in Iteration \ {j} : pc'[k] \in NetPoints => pc[k] \in NetPoints
      BY <1>1, <1>3, PointsOf
    <3>4. Untouched(j)'
      BY <1>1, <1>2, <1>3, <2>2, <3>1, <3>2, <3>3, PointsOf DEF Untouched
    <3>5. Reserved(j)'
      BY <1>2, <3>1, <3>2 DEF Reserved
    <3> QED
      BY <3>4, <3>5
  <2> QED
    BY <2>1, <2>2
<1> HIDE DEF o
<1>6. NetTypes'
  <2>1. \A j \in Iteration : pc'[j] \in NetPoints => pc[j] \in NetPoints
    BY <1>1, <1>3, PointsOf
  <2> QED
    BY <1>1, <1>2, <2>1, VmsAssumption DEF NetInv, NetTypes, LockTypeOK, Alone
<1> QED
  BY <1>4, <1>5, <1>6 DEF NetInv

LEMMA BootOnKeeps ==
  ASSUME NetInv, NEW i \in Iteration, NEW from, NEW to, BootOn(i, from, to),
         <<from, to>> \in {<<"net_boot", "net_release">>, <<"boot_server", "boot_subnet">>}
  PROVE  NetInv'
<1> DEFINE o == Net(i)
<1>0. /\ to \in {"net_release", "boot_subnet"} /\ from \in {"net_boot", "boot_server"}
      /\ pc[i] = from /\ pc[i] \in AtWork
  BY PointsOf DEF BootOn, At
<1>1. pc[i] = from /\ Alone(i, o)
  BY <1>0, Apart
<1>2. UNCHANGED <<locked, held, networks, created, subnets, net>>
  BY DEF BootOn, lockVars, neutron
<1>3. \A j \in Iteration : Net(j)' = Net(j)
  BY <1>2 DEF Net
<1>4. CASE /\ o \in networks
           /\ active' = [active EXCEPT ![o] = @ + 1]
           /\ left' = [left EXCEPT ![i] = IF @ = 0 THEN 0 ELSE @ - 1]
           /\ Goto(i, IF left[i] > 1 THEN from ELSE to)
           /\ UNCHANGED stuck
  <2>1. PICK p \in {from, to} : pc' = [pc EXCEPT ![i] = p]
    BY <1>4 DEF Goto
  <2>2. /\ pc'[i] \in {"net_boot", "boot_server", "net_release", "boot_subnet"}
        /\ \A j \in Iteration \ {i} : pc'[j] = pc[j] /\ left'[j] = left[j]
    BY <1>0, <1>4, <2>1 DEF NetInv, NetTypes
  <2> HIDE DEF o
  <2>3. NetTypes'
    <3>1. left' \in [Iteration -> Nat] /\ active' \in [Object -> Nat]
      BY <1>1, <1>4 DEF NetInv, NetTypes, Alone
    <3>2. \A j \in Iteration : pc'[j] \in NetPoints => pc[j] \in NetPoints
      BY <1>0, <2>2, PointsOf
    <3> QED
      BY <1>2, <1>4, <2>1, <3>1, <3>2 DEF NetInv, NetTypes, LockTypeOK
  <2>4. LockOwnership'
    BY <1>2 DEF NetInv, LockOwnership
  <2>5. Occupied'
    <3>1. \A q \in Object : active'[q] = IF q = o THEN active[q] + 1 ELSE active[q]
      BY <1>4 DEF NetInv, NetTypes
    <3>2. \A j \in Iteration : pc[j] = "failed" => pc'[j] = "failed"
      BY <1>0, <2>2
    <3>3. \A q \in Object : active'[q] > 0 => q \in networks'
      BY <1>2, <1>4, <3>1 DEF NetInv, Occupied
    <3>4. \A q \in stuck' : \E j \in Iteration : pc'[j] = "failed" /\ q \in held'[j]
      BY <1>2, <1>4, <3>2 DEF NetInv, Occupied
    <3> QED
      BY <3>3, <3>4 DEF Occupied
  <2>6. ASSUME NEW j \in Iteration PROVE Untouched(j)' /\ Reserved(j)'
    <3>1. CASE j = i
      BY <1>1, <1>2, <1>3, <1>4, <2>2, <3>1, PointsOf DEF NetInv, Untouched, Reserved, Alone, o
    <3>2. CASE j # i
      <4>1. pc[j] \in AtWork => Net(j) # o /\ Net(j) \in Object
        BY <1>1, <3>2, Apart DEF Alone
      <4>2. pc[j] \in AtWork => active'[Net(j)] = active[Net(j)]
        BY <1>4, <4>1 DEF NetInv, NetTypes
      <4>3. /\ pc'[j] = pc[j] /\ left'[j] = left[j] /\ Net(j)' = Net(j)
            /\ Untouched(j) /\ Reserved(j)
        BY <1>3, <2>2, <3>2 DEF NetInv
      <4>4. pc[j] = "net_acquire" => Net(j) # o
        BY <1>1, <3>2 DEF Alone
      <4>5. Untouched(j)'
        BY <1>2, <1>3, <2>2, <3>2, <4>3, <4>4, PointsOf DEF Untouched, o
      <4>6. Reserved(j)'
        BY <1>2, <4>2, <4>3, PointsOf DEF Reserved
      <4> QED
        BY <4>5, <4>6
    <3> QED
      BY <3>1, <3>2
  <2> QED
    BY <2>3, <2>4, <2>5, <2>6 DEF NetInv
<1>5. CASE /\ UNCHANGED <<active, left>>
           /\ stuck' \in {stuck, stuck \cup {o}}
           /\ pc' = [pc EXCEPT ![i] = "failed"]
  <2>1. pc'[i] = "failed" /\ \A j \in Iteration \ {i} : pc'[j] = pc[j]
    BY <1>5 DEF NetInv, NetTypes
  <2>2. \A j \in Iteration : pc'[j] \in NetPoints => pc[j] \in NetPoints /\ j # i
    BY <1>1, <2>1, PointsOf DEF Stopped
  <2> HIDE DEF o
  <2>3. NetTypes'
    BY <1>1, <1>2, <1>5, <2>1, <2>2, ZenonT(30) DEF NetInv, NetTypes, LockTypeOK, Alone
  <2>4. LockOwnership'
    BY <1>2 DEF NetInv, LockOwnership
  <2>6. Occupied'
    BY <1>1, <1>2, <1>5, <2>1 DEF NetInv, Occupied, Alone
  <2>5. ASSUME NEW j \in Iteration PROVE Untouched(j)' /\ Reserved(j)'
    <3>1. CASE j = i
      BY <2>1, <3>1, PointsOf DEF Untouched, Reserved
    <3>2. CASE j # i
      BY <1>2, <1>3, <1>5, <2>1, <2>2, <3>2 DEF NetInv, Untouched, Reserved
    <3> QED
      BY <3>1, <3>2
  <2> QED
    BY <2>3, <2>4, <2>5, <2>6 DEF NetInv
<1> QED
  BY <1>4, <1>5 DEF BootOn, Goto, Fail

(* Locks are only given back by who holds them. *)
LEMMA ReleaseNetKeeps ==
  ASSUME NetInv, NEW i \in Iteration, NEW from \in AtWork, NEW next,
         next \notin NetPoints, ReleaseNet(i, from, next)
  PROVE  NetInv'
<1> DEFINE o == Net(i)
<1>1. pc[i] \in AtWork /\ Alone(i, o)
  BY Apart DEF ReleaseNet, At
<1>2. /\ locked' = locked \ {o} /\ held' = [held EXCEPT ![i] = @ \ {o}]
      /\ pc' = [pc EXCEPT ![i] = next]
      /\ net' = [net EXCEPT ![i] = <<>>] /\ left' = [left EXCEPT ![i] = 0]
      /\ UNCHANGED <<networks, created, subnets, active, stuck>>
  BY DEF ReleaseNet, Release, Return, Goto, neutron, nova
<1>3. /\ pc'[i] = next
      /\ \A j \in Iteration \ {i} : /\ pc'[j] = pc[j] /\ held'[j] = held[j] /\ left'[j] = left[j]
                                   /\ Net(j)' = Net(j) /\ net'[j] = net[j]
      /\ held'[i] = held[i] \ {o}
  BY <1>2 DEF NetInv, NetTypes, LockTypeOK, Net
<1> HIDE DEF o
<1>4. NetTypes'
  <2>1. LockTypeOK'
    BY <1>2 DEF NetInv, NetTypes, LockTypeOK
  <2>2. net' \in [Iteration -> {<<>>} \cup {<<q>> : q \in Object}]
    BY <1>2 DEF NetInv, NetTypes
  <2>3. \A j \in Iteration : pc'[j] \in NetPoints => \E q \in created : net'[j] = <<q>>
    BY <1>3 DEF NetInv, NetTypes
  <2> QED
    BY <1>2, <2>1, <2>2, <2>3 DEF NetInv, NetTypes
<1>5. LockOwnership'
  BY <1>1, <1>2, <1>3 DEF NetInv, LockOwnership, Alone
<1>6. Occupied'
  BY <1>1, <1>2, <1>3, PointsOf DEF NetInv, Occupied, Stopped, Alone
<1>7. ASSUME NEW j \in Iteration PROVE Untouched(j)' /\ Reserved(j)'
  <2>1. CASE j = i
    BY <1>3, <2>1, PointsOf DEF Untouched, Reserved
  <2>2. CASE j # i
    BY <1>1, <1>2, <1>3, <2>2, PointsOf DEF NetInv, Untouched, Reserved, Alone
  <2> QED
    BY <2>1, <2>2
<1> QED
  BY <1>4, <1>5, <1>6, <1>7 DEF NetInv

(* A step before the lock, or out of the workload: nothing but i's place changes. *)
Looks(i, p) ==
  /\ pc' = [pc EXCEPT ![i] = p]
  /\ UNCHANGED <<locked, held, networks, created, subnets, active, stuck>>
  /\ left' = left \/ left' = [left EXCEPT ![i] = 0]
  /\ pc[i] # "failed" /\ pc[i] \notin {"net_acquire"}

LEMMA LooksKeeps ==
  ASSUME NetInv, NEW i \in Iteration, NEW p, Looks(i, p),
         \/ /\ p \notin NetPoints
            /\ net' = net \/ net' = [net EXCEPT ![i] = <<>>]
         \/ /\ p \in {"boot_show", "del_show"}
            /\ \E o \in networks : net' = [net EXCEPT ![i] = <<o>>]
         \/ /\ p \in {"boot_acquire", "del_acquire"}
            /\ Net(i) \in networks \cap subnets /\ net' = net /\ pc[i] \in NetPoints
  PROVE  NetInv'
<1>1. /\ pc'[i] = p
      /\ \A j \in Iteration \ {i} : /\ pc'[j] = pc[j] /\ left'[j] = left[j]
                                   /\ net'[j] = net[j] /\ Net(j)' = Net(j)
  BY DEF Looks, NetInv, NetTypes, Net
<1>2. p \notin AtWork /\ p \notin {"net_acquire", "net_subnet"}
  BY PointsOf
<1>3. /\ net' \in [Iteration -> {<<>>} \cup {<<o>> : o \in Object}]
      /\ p \in NetPoints => \E o \in created : net'[i] = <<o>>
  BY PointsOf, SMTT(30) DEF NetInv, NetTypes
<1>4. NetTypes'
  <2>1. left' \in [Iteration -> Nat]
    BY DEF Looks, NetInv, NetTypes
  <2>2. \A j \in Iteration : pc'[j] \in NetPoints => \E o \in created : net'[j] = <<o>>
    BY <1>1, <1>3 DEF NetInv, NetTypes
  <2> QED
    BY <1>3, <2>1, <2>2 DEF Looks, NetInv, NetTypes, LockTypeOK
<1>5. LockOwnership' /\ Occupied'
  BY <1>1 DEF Looks, NetInv, LockOwnership, Occupied
<1>6. ASSUME NEW j \in Iteration PROVE Untouched(j)' /\ Reserved(j)'
  <2>1. CASE j = i
    BY <1>1, <1>2, <2>1, PointsOf DEF Untouched, Reserved
  <2>2. CASE j # i
    <3>1. ASSUME pc[j] = "net_acquire" PROVE Untouched(j)'
      <4>1. /\ Net(j) \notin locked /\ Net(j) \notin subnets
            /\ \A k \in Iteration \ {j} : pc[k] \in NetPoints /\ Net(k) = Net(j)
                                            => pc[k] \in {"boot_show", "del_show"}
        BY <3>1 DEF NetInv, Untouched, Reserved
      <4>2. pc'[i] \in NetPoints /\ Net(i)' = Net(j) => pc'[i] \in {"boot_show", "del_show"}
        <5>1. CASE p \notin NetPoints \/ p \in {"boot_show", "del_show"}
          BY <1>1, <5>1
        <5>2. CASE p \in {"boot_acquire", "del_acquire"}
          <6>1. Net(i) \in subnets /\ net' = net
            BY <5>2, PointsOf
          <6>2. Net(i)' = Net(i)
            BY <6>1 DEF Net
          <6> QED
            BY <4>1, <6>1, <6>2
        <5> QED
          BY <5>1, <5>2
      <4> QED
        BY <1>1, <2>2, <4>1, <4>2 DEF Looks, Untouched
    <3>2. pc[j] # "net_acquire" => Untouched(j)'
      BY <1>1, <2>2 DEF Untouched
    <3>3. Reserved(j)'
      BY <1>1, <2>2 DEF Looks, NetInv, Reserved
    <3> QED
      BY <3>1, <3>2, <3>3
  <2> QED
    BY <2>1, <2>2
<1> QED
  BY <1>4, <1>5, <1>6 DEF NetInv

LEMMA PickRandomKeeps ==
  ASSUME NetInv, NEW i \in Iteration, NEW w \in Entries, NEW to \in {"boot_show", "del_show"},
         PickRandom(i, w, to)
  PROVE  NetInv'
<1>1. pc[i] \notin {"failed", "net_acquire"}
  BY PointsOf DEF PickRandom, At, Entries
<1>2. CASE \E o \in networks : net' = [net EXCEPT ![i] = <<o>>] /\ Goto(i, to)
  <2>1. Looks(i, to)
    BY <1>1, <1>2 DEF PickRandom, Goto, Looks, lockVars, neutron, nova
  <2> QED
    BY <1>2, <2>1, LooksKeeps
<1>3. CASE Fail(i) /\ UNCHANGED net
  <2>1. Looks(i, "failed") /\ "failed" \notin NetPoints
    BY <1>1, <1>3, PointsOf DEF PickRandom, Goto, Fail, Looks, lockVars, neutron, nova, Stopped
  <2> QED
    BY <1>3, <2>1, LooksKeeps
<1> QED
  BY <1>2, <1>3 DEF PickRandom

LEMMA ShowNetKeeps ==
  ASSUME NetInv, NEW i \in Iteration, NEW from \in {"boot_show", "del_show"},
         NEW to \in {"boot_acquire", "del_acquire"}, NEW next, next \notin NetPoints,
         ShowNet(i, from, to, next)
  PROVE  NetInv'
<1>1. pc[i] \notin {"failed", "net_acquire"} /\ pc[i] \in NetPoints
  BY PointsOf DEF ShowNet, At
<1>2. CASE Net(i) \in networks \cap subnets /\ Goto(i, to) /\ UNCHANGED <<net, left>>
  <2>1. Looks(i, to)
    BY <1>1, <1>2 DEF ShowNet, Goto, Looks, lockVars, neutron, nova
  <2> QED
    BY <1>1, <1>2, <2>1, LooksKeeps
<1>3. CASE Return(i, next)
  <2>1. Looks(i, next)
    BY <1>1, <1>3 DEF ShowNet, Return, Goto, Looks, lockVars, neutron, nova
  <2> QED
    BY <1>3, <2>1, LooksKeeps DEF Return
<1> QED
  BY <1>2, <1>3 DEF ShowNet

LEMMA AcquireNetKeeps ==
  ASSUME NetInv, NEW i \in Iteration, NEW from, NEW to, NEW next, next \notin NetPoints,
         AcquireNet(i, from, to, next),
         <<from, to>> \in {<<"boot_acquire", "boot_server">>, <<"del_acquire", "del_list">>}
  PROVE  NetInv'
<1>1. /\ pc[i] = from /\ from \in {"boot_acquire", "del_acquire"} /\ pc[i] \in NetPoints
      /\ to \in {"boot_server", "del_list"}
  BY PointsOf DEF AcquireNet, At
<1>2. CASE Refused(Net(i)) /\ Return(i, next)
  <2>1. Looks(i, next)
    BY <1>1, <1>2 DEF AcquireNet, Refused, Return, Goto, Looks, lockVars, neutron, nova
  <2> QED
    BY <1>2, <2>1, LooksKeeps DEF Return
<1>3. CASE Acquired(i, Net(i)) /\ Goto(i, to) /\ UNCHANGED <<net, left>>
  <2> DEFINE o == Net(i)
  <2>1. /\ locked' = locked \cup {o} /\ held' = [held EXCEPT ![i] = @ \cup {o}] /\ o \notin locked
        /\ pc' = [pc EXCEPT ![i] = to]
        /\ UNCHANGED <<networks, created, subnets, active, stuck, net, left>>
    BY <1>3 DEF AcquireNet, Acquired, Goto, neutron, nova
  <2>2. /\ pc'[i] = to /\ held'[i] = held[i] \cup {o}
        /\ \A j \in Iteration \ {i} : pc'[j] = pc[j] /\ held'[j] = held[j]
        /\ \A j \in Iteration : Net(j)' = Net(j)
    BY <2>1 DEF NetInv, NetTypes, LockTypeOK, Net
  <2>3. \A j \in Iteration \ {i} : pc[j] = "net_acquire" => Net(j) # o
    BY <1>1 DEF NetInv, Untouched
  <2>4. o \in created /\ o \in Object
    BY <1>1, Mine
  <2> HIDE DEF o
  <2>5. NetTypes'
    <3>1. LockTypeOK'
      BY <2>1, <2>4 DEF NetInv, NetTypes, LockTypeOK
    <3>2. \A j \in Iteration : pc'[j] \in NetPoints => pc[j] \in NetPoints
      BY <1>1, <2>2
    <3> QED
      BY <2>1, <2>4, <3>1, <3>2 DEF NetInv, NetTypes
  <2>6. LockOwnership'
    BY <2>1, <2>2, <2>4 DEF NetInv, LockOwnership
  <2>7. Occupied'
    BY <1>1, <2>1, <2>2 DEF NetInv, Occupied
  <2>8. ASSUME NEW j \in Iteration PROVE Untouched(j)' /\ Reserved(j)'
    <3>1. CASE j = i
      BY <1>1, <2>1, <2>2, <3>1, PointsOf DEF NetInv, Untouched, Reserved, o
    <3>2. CASE j # i
      <4>1. Untouched(j)'
        BY <1>1, <2>1, <2>2, <2>3, <3>2, PointsOf DEF NetInv, Untouched, o
      <4>2. Reserved(j)'
        BY <2>1, <2>2, <3>2 DEF NetInv, Reserved
      <4> QED
        BY <4>1, <4>2
    <3> QED
      BY <3>1, <3>2
  <2> QED
    BY <2>5, <2>6, <2>7, <2>8 DEF NetInv
<1> QED
  BY <1>2, <1>3 DEF AcquireNet

(* A step of an iteration on the network it has for itself. *)
WorksOn(i, p) ==
  /\ pc[i] \in AtWork
  /\ pc' = [pc EXCEPT ![i] = p]
  /\ UNCHANGED <<locked, held, created, stuck, net>>
  /\ left' \in [Iteration -> Nat] /\ active' \in [Object -> Nat]
  /\ \A j \in Iteration \ {i} : left'[j] = left[j]
  /\ \A o \in Object \ {Net(i)} : active'[o] = active[o]

LEMMA WorksOnKeeps ==
  ASSUME NetInv, NEW i \in Iteration, NEW p, WorksOn(i, p),
         p \in AtWork \/ p \notin NetPoints,
         networks' \subseteq networks /\ subnets' \subseteq networks' /\ subnets' \subseteq subnets,
         networks \ {Net(i)} \subseteq networks',
         active'[Net(i)] > 0 => Net(i) \in networks',
         Reserved(i)'
  PROVE  NetInv'
<1> DEFINE o == Net(i)
<1>1. Alone(i, o) /\ pc[i] \in AtWork
  BY Apart DEF WorksOn
<1>2. /\ pc'[i] = p /\ \A j \in Iteration \ {i} : pc'[j] = pc[j]
      /\ \A j \in Iteration : Net(j)' = Net(j)
      /\ p # "net_acquire"
  BY PointsOf DEF WorksOn, NetInv, NetTypes, Net
<1> HIDE DEF o
<1>3. NetTypes'
  <2>1. \A j \in Iteration : pc'[j] \in NetPoints => pc[j] \in NetPoints
    BY <1>1, <1>2, PointsOf
  <2>2. UNCHANGED <<locked, held, created, stuck, net>>
    BY DEF WorksOn
  <2>3. DOMAIN pc' = Iteration /\ pc' = [j \in Iteration |-> pc'[j]]
    BY DEF WorksOn, NetInv, NetTypes
  <2> QED
    BY <2>1, <2>2, <2>3 DEF WorksOn, NetInv, NetTypes, LockTypeOK
<1>4. LockOwnership'
  BY DEF WorksOn, NetInv, LockOwnership
<1>5. Occupied'
  <2>1. \A q \in Object : active'[q] > 0 => q \in networks'
    BY DEF WorksOn, NetInv, Occupied
  <2>2. \A j \in Iteration : pc[j] = "failed" => pc'[j] = "failed"
    BY <1>1, <1>2, PointsOf DEF Stopped
  <2> QED
    BY <2>1, <2>2 DEF WorksOn, NetInv, Occupied
<1>6. ASSUME NEW j \in Iteration, j # i PROVE Untouched(j)' /\ Reserved(j)'
  <2>1. /\ Untouched(j) /\ Reserved(j) /\ pc'[j] = pc[j] /\ Net(j)' = Net(j) /\ left'[j] = left[j]
    BY <1>2, <1>6 DEF NetInv, WorksOn
  <2>2. pc[j] \in AtWork \/ pc[j] = "net_acquire" => Net(j) # o /\ Net(j) \in Object
    BY <1>1, <1>6, Mine, PointsOf DEF Alone
  <2>3. pc[j] \in AtWork => active'[Net(j)] = active[Net(j)]
    BY <2>2 DEF WorksOn, o
  <2>4. Untouched(j)'
    BY <1>1, <1>2, <1>6, <2>1, <2>2, PointsOf DEF WorksOn, Untouched, o
  <2>5. Reserved(j)'
    BY <2>1, <2>2, <2>3, PointsOf DEF WorksOn, Reserved, o
  <2> QED
    BY <2>4, <2>5
<1>7. Untouched(i)'
  BY <1>2 DEF Untouched
<1> QED
  BY <1>3, <1>4, <1>5, <1>6, <1>7 DEF NetInv

LEMMA BootSubnetKeeps ==
  ASSUME NetInv, NEW i \in Iteration, BootSubnet(i)
  PROVE  NetInv'
<1>1. /\ pc[i] = "boot_subnet" /\ pc[i] \in AtWork /\ Net(i) \in held[i] /\ Net(i) \in networks
      /\ Net(i) \in Object
  BY Apart, PointsOf DEF BootSubnet, At, NetInv, Reserved, Alone
<1>2. PICK p \in {"boot_release", "failed"} : pc' = [pc EXCEPT ![i] = p]
  BY DEF BootSubnet, Goto
<1>3. UNCHANGED <<locked, held, networks, created, subnets, active, stuck, net, left>>
  BY DEF BootSubnet, lockVars, providerVars
<1>4. WorksOn(i, p)
  BY <1>1, <1>2, <1>3 DEF WorksOn, NetInv, NetTypes
<1>5. p \in AtWork \/ p \notin NetPoints
  BY PointsOf DEF Stopped
<1>6. Reserved(i)'
  <2>1. pc'[i] = p /\ Net(i)' = Net(i)
    BY <1>2, <1>3 DEF NetInv, NetTypes, Net
  <2> QED
    BY <1>1, <1>3, <2>1, PointsOf DEF Reserved
<1> QED
  BY <1>1, <1>3, <1>4, <1>5, <1>6, WorksOnKeeps DEF NetInv, NetTypes, Occupied

LEMMA DeleteListKeeps ==
  ASSUME NetInv, NEW i \in Iteration, DeleteList(i)
  PROVE  NetInv'
<1>1. /\ pc[i] = "del_list" /\ pc[i] \in AtWork /\ Net(i) \in held[i] /\ Net(i) \in Object
      /\ active[Net(i)] \in Nat
  BY Apart, PointsOf DEF DeleteList, At, Alone, NetInv, NetTypes
<1>2. /\ left' = [left EXCEPT ![i] = active[Net(i)]]
      /\ UNCHANGED <<locked, held, networks, created, subnets, active, stuck, net>>
  BY DEF DeleteList, lockVars, neutron, nova
<1>3. PICK p : /\ p = (IF active[Net(i)] = 0 THEN "del_network" ELSE "del_server")
               /\ pc' = [pc EXCEPT ![i] = p]
  BY DEF DeleteList, Goto
<1>4. WorksOn(i, p) /\ p \in AtWork
  BY <1>1, <1>2, <1>3, PointsOf DEF WorksOn, NetInv, NetTypes
<1>5. Reserved(i)'
  <2>1. pc'[i] = p /\ Net(i)' = Net(i) /\ left'[i] = active[Net(i)]
      /\ UNCHANGED <<active, networks>>
    BY <1>1, <1>2, <1>3 DEF NetInv, NetTypes, Net
  <2> QED
    BY <1>1, <1>2, <1>3, <2>1, PointsOf DEF Reserved, NetInv, Occupied
<1> QED
  BY <1>1, <1>2, <1>4, <1>5, WorksOnKeeps DEF NetInv, NetTypes, Occupied

LEMMA DeleteServerKeeps ==
  ASSUME NetInv, NEW i \in Iteration, DeleteServer(i)
  PROVE  NetInv'
<1> DEFINE o == Net(i)
<1>1. /\ pc[i] = "del_server" /\ pc[i] \in AtWork /\ o \in held[i] /\ o \in Object
      /\ o \in networks /\ left[i] = active[o] /\ left[i] > 0 /\ left[i] \in Nat
  BY Apart, PointsOf DEF DeleteServer, At, Alone, NetInv, NetTypes, Reserved
<1>2. /\ active' = [active EXCEPT ![o] = @ - 1] /\ left' = [left EXCEPT ![i] = @ - 1]
      /\ UNCHANGED <<locked, held, networks, created, subnets, stuck, net>>
  BY DEF DeleteServer, lockVars, neutron
<1>3. PICK p : /\ p = (IF left[i] = 1 THEN "del_network" ELSE "del_server")
               /\ pc' = [pc EXCEPT ![i] = p]
  BY DEF DeleteServer, Goto
<1>4. /\ active'[o] = active[o] - 1 /\ active' \in [Object -> Nat]
      /\ left'[i] = left[i] - 1 /\ left' \in [Iteration -> Nat]
  BY <1>1, <1>2 DEF NetInv, NetTypes
<1>5. WorksOn(i, p) /\ p \in AtWork
  BY <1>1, <1>2, <1>3, <1>4, PointsOf DEF WorksOn, NetInv, NetTypes
<1>6. Reserved(i)'
  <2>1. pc'[i] = p /\ Net(i)' = o
    BY <1>2, <1>3 DEF NetInv, NetTypes, Net
  <2> HIDE DEF o
  <2> QED
    BY <1>1, <1>2, <1>3, <1>4, <2>1, PointsOf DEF Reserved
<1> QED
  BY <1>1, <1>2, <1>5, <1>6, WorksOnKeeps DEF NetInv, NetTypes

LEMMA DeleteNetworkKeeps ==
  ASSUME NetInv, NEW i \in Iteration, DeleteNetwork(i)
  PROVE  NetInv'
<1> DEFINE o == Net(i)
<1>1. /\ pc[i] = "del_network" /\ pc[i] \in AtWork /\ o \in held[i] /\ o \in Object /\ active[o] = 0
  BY Apart, PointsOf DEF DeleteNetwork, At, Alone, NetInv, Reserved
<1>2. UNCHANGED <<locked, held, created, active, stuck, net, left>>
  BY DEF DeleteNetwork, lockVars, nova
<1>3. PICK p \in {"del_release", "failed"} : pc' = [pc EXCEPT ![i] = p]
  BY DEF DeleteNetwork, Goto, Fail
<1>4. \/ networks' = networks \ {o} /\ subnets' = subnets \ {o}
      \/ UNCHANGED <<networks, subnets>>
  BY DEF DeleteNetwork
<1>5. WorksOn(i, p) /\ (p \in AtWork \/ p \notin NetPoints)
  BY <1>1, <1>2, <1>3, PointsOf DEF WorksOn, NetInv, NetTypes, Stopped
<1>6. Reserved(i)'
  <2>1. pc'[i] = p /\ Net(i)' = o
    BY <1>2, <1>3 DEF NetInv, NetTypes, Net
  <2> HIDE DEF o
  <2> QED
    BY <1>1, <1>2, <1>3, <2>1, PointsOf DEF Reserved
<1>7. /\ networks' \subseteq networks /\ subnets' \subseteq networks' /\ subnets' \subseteq subnets
      /\ networks \ {Net(i)} \subseteq networks'
  BY <1>4 DEF NetInv, NetTypes
<1> QED
  BY <1>1, <1>2, <1>5, <1>6, <1>7, WorksOnKeeps

--------------------------------------------------------------------------------
LEMMA ProviderKeeps ==
  ASSUME NetInv, NEW i \in Iteration, ProviderStep(i)
  PROVE  NetInv'
<1> USE PointsOf
<1>1. CASE NetCreate(i)
  BY <1>1, NetCreateKeeps
<1>2. CASE NetAcquire(i)
  BY <1>2, NetAcquireKeeps
<1>3. CASE NetSubnet(i)
  BY <1>3, NetSubnetKeeps
<1>4. CASE NetBoot(i) \/ BootServer(i)
  BY <1>4, BootOnKeeps DEF NetBoot, BootServer
<1>5. CASE NetRelease(i) \/ BootRelease(i) \/ DeleteRelease(i)
  BY <1>5, ReleaseNetKeeps DEF NetRelease, BootRelease, DeleteRelease
<1>6. CASE BootPick(i) \/ DeletePick(i)
  BY <1>6, PickRandomKeeps DEF BootPick, DeletePick, Entries
<1>7. CASE BootShow(i) \/ DeleteShow(i)
  BY <1>7, ShowNetKeeps DEF BootShow, DeleteShow
<1>8. CASE BootAcquire(i) \/ DeleteAcquire(i)
  BY <1>8, AcquireNetKeeps DEF BootAcquire, DeleteAcquire
<1>9. CASE BootSubnet(i)
  BY <1>9, BootSubnetKeeps
<1>10. CASE DeleteList(i)
  BY <1>10, DeleteListKeeps
<1>11. CASE DeleteServer(i)
  BY <1>11, DeleteServerKeeps
<1>12. CASE DeleteNetwork(i)
  BY <1>12, DeleteNetworkKeeps
<1> QED
  BY <1>1, <1>2, <1>3, <1>4, <1>5, <1>6, <1>7, <1>8, <1>9, <1>10, <1>11, <1>12 DEF ProviderStep

LEMMA NetStep == NetInv /\ [Next]_vars => NetInv'
<1> SUFFICES ASSUME NetInv, [Next]_vars PROVE NetInv'
  OBVIOUS
<1>1. ASSUME NEW i \in Iteration, Step(i) PROVE NetInv'
  <2>1. CASE ProviderStep(i)
    BY <2>1, ProviderKeeps
  <2>2. CASE OctaviaStep(i) /\ UNCHANGED <<providerVars, kubeVars>>
    BY <2>2, OctaviaIsElsewhere, ElsewhereKeeps DEF NetInv
  <2>3. CASE OcpStep(i) /\ UNCHANGED <<providerVars, octaviaVars>>
    BY <2>3, OcpIsElsewhere, ElsewhereKeeps DEF NetInv
  <2> QED
    BY <1>1, <2>1, <2>2, <2>3 DEF Step
<1>2. ASSUME NEW i \in Iteration, Breaks(i) PROVE NetInv'
  BY <1>2, BreaksIsElsewhere, ElsewhereKeeps
<1>3. ASSUME NEW l \in LoadBalancer, Settles(l) PROVE NetInv'
  <2>1. UNCHANGED <<locked, held, pc, networks, created, subnets, active, stuck, net, left>>
    BY <1>3 DEF Settles, Settle, lockVars, iterationVars, providerVars
  <2> QED
    BY <2>1 DEF NetInv, NetTypes, LockTypeOK, LockOwnership, Occupied, Untouched, Reserved, Net
<1>4. CASE UNCHANGED vars
  <2>1. UNCHANGED <<locked, held, pc, networks, created, subnets, active, stuck, net, left>>
    BY <1>4 DEF vars, lockVars, iterationVars, providerVars
  <2> QED
    BY <2>1 DEF NetInv, NetTypes, LockTypeOK, LockOwnership, Occupied, Untouched, Reserved, Net
<1> QED
  BY <1>1, <1>2, <1>3, <1>4 DEF Next, Terminated

LEMMA NetInvariant == Spec => []NetInv
BY NetInit, NetStep, PTL DEF Spec

(***************************************************************************)
(* The rows of the lock table are those the iterations hold, whatever the   *)
(* creator of a network made of the answer of acquire_lock.                 *)
(***************************************************************************)
THEOREM RowsAreOwned == Spec => []LockOwnership
BY NetInvariant, PTL DEF NetInv

--------------------------------------------------------------------------------
(***************************************************************************)
(* The lock table.  An iteration acquires a row that is free and deletes    *)
(* only its own; the creator of a network, who does not look at the answer, *)
(* is never refused.                                                        *)
(***************************************************************************)
LEMMA ProviderLocks ==
  ASSUME NetInv, NEW i \in Iteration, ProviderStep(i)
  PROVE  LockStep(i)
<1> USE DEF At, LockStep
<1>1. pc[i] \in NetPoints => Net(i) \in Object
  BY Mine
<1>2. pc[i] \in AtWork => Net(i) \in held[i]
  BY DEF NetInv, Reserved
<1>3. CASE NetAcquire(i)
  <2>1. Net(i) \notin locked
    BY <1>3 DEF NetAcquire, NetInv, Untouched
  <2> QED
    BY <1>1, <1>3, <2>1, PointsOf DEF NetAcquire, Refused
<1>4. CASE NetRelease(i) \/ BootRelease(i) \/ DeleteRelease(i)
  BY <1>1, <1>2, <1>4, PointsOf DEF NetRelease, BootRelease, DeleteRelease, ReleaseNet
<1>5. CASE BootAcquire(i) \/ DeleteAcquire(i)
  BY <1>1, <1>5, PointsOf DEF BootAcquire, DeleteAcquire, AcquireNet, Refused
<1>6. CASE NetCreate(i) \/ NetSubnet(i) \/ NetBoot(i) \/ BootServer(i)
  BY <1>6 DEF NetCreate, NetSubnet, NetBoot, BootServer, BootOn
<1>7. CASE BootPick(i) \/ BootShow(i) \/ DeletePick(i) \/ DeleteShow(i)
  BY <1>7 DEF BootPick, BootShow, DeletePick, DeleteShow, PickRandom, ShowNet
<1>8. CASE BootSubnet(i) \/ DeleteList(i) \/ DeleteServer(i) \/ DeleteNetwork(i)
  BY <1>8 DEF BootSubnet, DeleteList, DeleteServer, DeleteNetwork
<1> QED
  BY <1>3, <1>4, <1>5, <1>6, <1>7, <1>8 DEF ProviderStep

(***************************************************************************)
(* The table as these workloads use it is the abstract lock service: the    *)
(* provider networks take and give back locks, and whatever else the task   *)
(* selects leaves the rows alone.                                           *)
(***************************************************************************)
THEOREM TableImplementsService == Spec => Service!Spec
<1>1. Init => Service!Init
  BY DEF Init, LockInit, Service!Init, Holder
<1>2. NetInv /\ [Next]_vars => [Service!Next]_Holder
  <2> SUFFICES ASSUME NetInv, [Next]_vars PROVE Service!Next \/ UNCHANGED Holder
    OBVIOUS
  <2>1. LockTypeOK /\ LockOwnership
    BY DEF NetInv, NetTypes
  <2>2. ASSUME NEW i \in Iteration, ProviderStep(i) PROVE Service!Next \/ UNCHANGED Holder
    BY <2>1, <2>2, ProviderLocks, LockStepImplementsService
  <2>3. ASSUME NEW i \in Iteration, OctaviaStep(i) \/ OcpStep(i), UNCHANGED providerVars
        PROVE  UNCHANGED Holder
    BY <2>3, OctaviaIsElsewhere, OcpIsElsewhere DEF NetInv, Elsewhere, lockVars, Holder
  <2>4. ASSUME NEW i \in Iteration, Breaks(i) PROVE UNCHANGED Holder
    BY <2>4 DEF Breaks, Raise, Holder
  <2>5. ASSUME NEW l \in LoadBalancer, Settles(l) PROVE UNCHANGED Holder
    BY <2>5 DEF Settles, Settle, lockVars, Holder
  <2>6. CASE UNCHANGED vars
    BY <2>6 DEF vars, lockVars, Holder
  <2> QED
    BY <2>2, <2>3, <2>4, <2>5, <2>6 DEF Next, Step, Terminated
<1> QED
  BY <1>1, <1>2, NetInvariant, PTL DEF Spec, Service!Spec

(***************************************************************************)
(* No two iterations are at work on one provider network.                   *)
(***************************************************************************)
THEOREM NoTwoOnOneNetwork == Spec => []NetworkExclusion
<1>1. NetInv => NetworkExclusion
  BY Apart DEF NetworkExclusion, Worked, Alone
<1> QED
  BY <1>1, NetInvariant, PTL

(***************************************************************************)
(* Past the first call on it, the network an iteration works on is there,   *)
(* and it is empty, with no VM in error, when it is deleted.                *)
(***************************************************************************)
THEOREM NetworkIsThere == Spec => []WorkedNetworkIsThere
<1>1. NetInv => WorkedNetworkIsThere
  <2> SUFFICES ASSUME NetInv, NEW i \in Iteration
               PROVE  /\ pc[i] \in {"net_subnet", "net_boot", "net_release", "boot_subnet",
                                    "boot_release", "del_server"} => Net(i) \in networks
                      /\ pc[i] = "del_network" /\ Net(i) \in networks => Deletable(Net(i))
    BY DEF WorkedNetworkIsThere
  <2>1. pc[i] \in {"net_subnet", "net_boot", "net_release", "boot_subnet", "boot_release",
                   "del_server"} => Net(i) \in networks
    BY DEF NetInv, Reserved
  <2>2. ASSUME pc[i] = "del_network", Net(i) \in networks PROVE Deletable(Net(i))
    <3>1. Alone(i, Net(i)) /\ active[Net(i)] = 0
      BY <2>2, Apart, PointsOf DEF NetInv, Reserved
    <3>2. Net(i) \notin stuck
      BY <2>2, <3>1 DEF Alone, NetInv, Occupied
    <3> QED
      BY <2>2, <3>1, <3>2 DEF Deletable
  <2> QED
    BY <2>1, <2>2
<1> QED
  BY <1>1, NetInvariant, PTL

--------------------------------------------------------------------------------
(***************************************************************************)
(* The script of kube-burner.  As long as the iterations are between        *)
(* reading and running it one at a time, the one that is there has          *)
(* what it read, truncated or wrote for itself; the script is empty for     *)
(* longer than that only if an iteration failed after truncating it.        *)
(***************************************************************************)
KubeTypes == /\ pc = [i \in Iteration |-> pc[i]]
             /\ faults \in Nat
             /\ read = [i \in Iteration |-> read[i]]
             /\ ran = [i \in Iteration |-> ran[i]]

OneAtATime == \A i, j \in Iteration : pc[i] \in KubePoints /\ pc[j] \in KubePoints => i = j

ScriptIsMine(i) ==
  /\ pc[i] \in {"kube_truncate", "kube_write"} /\ read[i] = "empty" => faults > 0
  /\ pc[i] = "kube_run" => script = ClusterOf[i] \/ (script = "empty" /\ faults > 0)

ScriptIsThere ==
  script = "empty" => faults > 0 \/ \E i \in Iteration : pc[i] = "kube_write"

KubeInv ==
  /\ KubeTypes
  /\ ~overlapped => /\ OneAtATime /\ ScriptIsThere /\ RunsOnItsCluster
                    /\ \A i \in Iteration : ScriptIsMine(i)

(* A step of another workload. *)
NotKube(i) == /\ pc[i] \notin KubePoints
              /\ \E p : p \notin KubePoints /\ pc' = [pc EXCEPT ![i] = p]
              /\ faults' \in {faults, faults + 1}

LEMMA OctaviaIsNotKube ==
  ASSUME KubeTypes, NEW i \in Iteration, OctaviaStep(i)
  PROVE  NotKube(i)
<1>1. /\ AfterLbCreate \notin KubePoints /\ AfterLbDelete \notin KubePoints
      /\ AfterMembers \notin KubePoints
  BY NextWorkload DEF Entries, KubePoints
<1>2. pc = [pc EXCEPT ![i] = pc[i]]
  BY DEF KubeTypes
<1> USE <1>1, <1>2 DEF NotKube, At, Goto, Fail, LeaveWorkload, AwaitActive, TryAgain, NextSlot,
                       NextRound, RoundOver, ForgetLocals, Set, iterationVars, KubePoints
<1>3. CASE LbRouter(i)
  BY <1>3 DEF LbRouter
<1>4. CASE LbNetworks(i)
  BY <1>4 DEF LbNetworks
<1>5. CASE LbJump(i)
  BY <1>5 DEF LbJump
<1>6. CASE LbClient(i)
  BY <1>6 DEF LbClient
<1>7. CASE LbCreate(i)
  BY <1>7 DEF LbCreate
<1>8. CASE LbWait(i)
  BY <1>8 DEF LbWait
<1>9. CASE LbListener(i)
  BY <1>9 DEF LbListener
<1>10. CASE LbWaitListener(i)
  BY <1>10 DEF LbWaitListener
<1>11. CASE LbPool(i)
  BY <1>11 DEF LbPool
<1>12. CASE LbWaitPool(i)
  BY <1>12 DEF LbWaitPool
<1>13. CASE LbMember(i)
  BY <1>13 DEF LbMember
<1>14. CASE LbMemberError(i)
  BY <1>14 DEF LbMemberError
<1>15. CASE LbCheck(i)
  BY <1>15 DEF LbCheck
<1>16. CASE LbUnjump(i)
  BY <1>16 DEF LbUnjump
<1>17. CASE DelLbList(i)
  BY <1>17 DEF DelLbList
<1>18. CASE DelLb(i)
  BY <1>18 DEF DelLb
<1>19. CASE DelLbServers(i)
  BY <1>19 DEF DelLbServers
<1>20. CASE DelLbVip(i)
  BY <1>20 DEF DelLbVip
<1>21. CASE DelLbClientNet(i)
  BY <1>21 DEF DelLbClientNet
<1>22. CASE MemPick(i)
  BY <1>22 DEF MemPick
<1>23. CASE MemWait(i)
  BY <1>23 DEF MemWait
<1>24. CASE MemList(i)
  BY <1>24 DEF MemList
<1>25. CASE MemChoose(i)
  BY <1>25 DEF MemChoose
<1>26. CASE MemDelete(i)
  BY <1>26 DEF MemDelete
<1>27. CASE MemDeleteError(i)
  BY <1>27 DEF MemDeleteError
<1> QED
  BY <1>3, <1>4, <1>5, <1>6, <1>7, <1>8, <1>9, <1>10, <1>11, <1>12, <1>13, <1>14,
     <1>15, <1>16, <1>17, <1>18, <1>19, <1>20, <1>21, <1>22, <1>23, <1>24, <1>25, <1>26, <1>27
     DEF OctaviaStep, CreateLoadBalancers, DeleteLoadBalancers, DeleteMembers

LEMMA ProviderIsNotKube ==
  ASSUME KubeTypes, NEW i \in Iteration, ProviderStep(i)
  PROVE  NotKube(i)
<1>1. /\ AfterNetCreate \notin KubePoints /\ AfterNetBoot \notin KubePoints
      /\ AfterNetDelete \notin KubePoints
  BY NextWorkload DEF Entries, KubePoints
<1>2. pc = [pc EXCEPT ![i] = pc[i]]
  BY DEF KubeTypes
<1> USE <1>1, <1>2 DEF NotKube, At, Goto, Fail, Return, BootOn, ReleaseNet, PickRandom, ShowNet,
                       AcquireNet, iterationVars, KubePoints
<1>3. CASE NetCreate(i)
  BY <1>3 DEF NetCreate
<1>4. CASE NetAcquire(i)
  BY <1>4 DEF NetAcquire
<1>5. CASE NetSubnet(i)
  BY <1>5 DEF NetSubnet
<1>6. CASE NetBoot(i)
  BY <1>6 DEF NetBoot
<1>7. CASE NetRelease(i)
  BY <1>7 DEF NetRelease
<1>8. CASE BootPick(i)
  BY <1>8 DEF BootPick
<1>9. CASE BootShow(i)
  BY <1>9 DEF BootShow
<1>10. CASE BootAcquire(i)
  BY <1>10 DEF BootAcquire
<1>11. CASE BootServer(i)
  BY <1>11 DEF BootServer
<1>12. CASE BootSubnet(i)
  BY <1>12 DEF BootSubnet
<1>13. CASE BootRelease(i)
  BY <1>13 DEF BootRelease
<1>14. CASE DeletePick(i)
  BY <1>14 DEF DeletePick
<1>15. CASE DeleteShow(i)
  BY <1>15 DEF DeleteShow
<1>16. CASE DeleteAcquire(i)
  BY <1>16 DEF DeleteAcquire
<1>17. CASE DeleteList(i)
  BY <1>17 DEF DeleteList
<1>18. CASE DeleteServer(i)
  BY <1>18 DEF DeleteServer
<1>19. CASE DeleteNetwork(i)
  BY <1>19 DEF DeleteNetwork
<1>20. CASE DeleteRelease(i)
  BY <1>20 DEF DeleteRelease
<1> QED
  BY <1>3, <1>4, <1>5, <1>6, <1>7, <1>8, <1>9, <1>10, <1>11, <1>12, <1>13, <1>14,
     <1>15, <1>16, <1>17, <1>18, <1>19, <1>20 DEF ProviderStep

LEMMA KubeInvInit == Init => KubeInv
<1> SUFFICES ASSUME Init PROVE KubeInv
  OBVIOUS
<1>1. \A i \in Iteration : pc[i] \notin KubePoints
  BY NextWorkload DEF Init, IterationInit, Entries, KubePoints
<1>2. KubeTypes
  BY DEF Init, IterationInit, KubeInit, KubeTypes
<1>3. OneAtATime /\ ScriptIsThere /\ RunsOnItsCluster
  BY <1>1 DEF Init, KubeInit, OneAtATime, ScriptIsThere, RunsOnItsCluster
<1>4. \A i \in Iteration : ScriptIsMine(i)
  BY <1>1 DEF ScriptIsMine, KubePoints
<1> QED
  BY <1>2, <1>3, <1>4 DEF KubeInv

LEMMA NotKubeKeeps ==
  ASSUME KubeInv, NEW i \in Iteration, NotKube(i), UNCHANGED kubeVars
  PROVE  KubeInv'
<1>1. PICK p : p \notin KubePoints /\ pc' = [pc EXCEPT ![i] = p]
  BY DEF NotKube
<1>2. /\ UNCHANGED <<script, read, ran, overlapped>>
      /\ pc[i] \notin KubePoints
      /\ faults \in Nat /\ faults' \in Nat /\ (faults > 0 => faults' > 0)
  BY DEF NotKube, kubeVars, KubeInv, KubeTypes
<1>3. KubeTypes'
  BY <1>1, <1>2 DEF KubeInv, KubeTypes
<1>4. pc'[i] \notin KubePoints /\ \A j \in Iteration \ {i} : pc'[j] = pc[j]
  BY <1>1 DEF KubeInv, KubeTypes
<1>5. \A j \in Iteration : pc'[j] \in KubePoints => pc'[j] = pc[j]
  BY <1>4
<1>6. \A j \in Iteration : pc[j] = "kube_write" => pc'[j] = "kube_write"
  BY <1>2, <1>4 DEF KubePoints
<1>7. ASSUME ~overlapped
      PROVE  /\ OneAtATime' /\ ScriptIsThere' /\ RunsOnItsCluster'
             /\ \A j \in Iteration : ScriptIsMine(j)'
  <2>1. OneAtATime'
    BY <1>5, <1>7 DEF KubeInv, OneAtATime
  <2>2. ScriptIsThere' /\ RunsOnItsCluster'
    BY <1>2, <1>6, <1>7 DEF KubeInv, ScriptIsThere, RunsOnItsCluster
  <2>3. \A j \in Iteration : ScriptIsMine(j)'
    BY <1>2, <1>5, <1>7 DEF KubeInv, ScriptIsMine, KubePoints
  <2> QED
    BY <2>1, <2>2, <2>3
<1> QED
  BY <1>2, <1>3, <1>7 DEF KubeInv

LEMMA BreaksKeepsKube ==
  ASSUME KubeInv, NEW i \in Iteration, Breaks(i)
  PROVE  KubeInv'
<1>1. /\ UNCHANGED <<script, read, ran, overlapped>>
      /\ pc' = [pc EXCEPT ![i] = "failed"]
      /\ faults' \in Nat /\ faults' > 0
  BY DEF Breaks, Raise, kubeVars, KubeInv, KubeTypes
<1>2. KubeTypes'
  BY <1>1 DEF KubeInv, KubeTypes
<1>3. pc'[i] \notin KubePoints /\ \A j \in Iteration \ {i} : pc'[j] = pc[j]
  BY <1>1 DEF KubeInv, KubeTypes, KubePoints
<1>4. \A j \in Iteration : pc'[j] \in KubePoints => pc'[j] = pc[j]
  BY <1>3
<1>5. ASSUME ~overlapped
      PROVE  /\ OneAtATime' /\ ScriptIsThere' /\ RunsOnItsCluster'
             /\ \A j \in Iteration : ScriptIsMine(j)'
  <2>1. OneAtATime'
    BY <1>4, <1>5 DEF KubeInv, OneAtATime
  <2>2. ScriptIsThere' /\ RunsOnItsCluster'
    BY <1>1, <1>5 DEF KubeInv, ScriptIsThere, RunsOnItsCluster
  <2>3. \A j \in Iteration : ScriptIsMine(j)'
    BY <1>1, <1>4, <1>5 DEF KubeInv, ScriptIsMine, KubePoints
  <2> QED
    BY <2>1, <2>2, <2>3
<1> QED
  BY <1>1, <1>2, <1>5 DEF KubeInv

(* While one iteration is at the script, and after it took its step. *)
LEMMA KubeStepKeeps ==
  ASSUME KubeInv, NEW i \in Iteration, OcpStep(i)
  PROVE  KubeInv'
<1>1. /\ KubeTypes
      /\ "failed" \notin KubePoints /\ "done" \notin KubePoints
      /\ "e2e_kube_burner" \notin KubePoints
      /\ {"kube_truncate", "kube_write", "kube_run"} \subseteq KubePoints
  BY DEF KubeInv, KubePoints
<1>2. CASE InstallOcp(i)
  BY <1>1, <1>2, NotKubeKeeps DEF InstallOcp, NotKube, At, Goto, KubePoints
<1>3. CASE KubeRead(i)
  <2>1. /\ pc[i] = "e2e_kube_burner" /\ pc' = [pc EXCEPT ![i] = "kube_truncate"]
        /\ read' = [read EXCEPT ![i] = script]
        /\ overlapped' = (overlapped \/ \E j \in Iteration \ {i} : pc[j] \in KubePoints)
        /\ UNCHANGED <<faults, script, ran>>
    BY <1>3 DEF KubeRead, At, Goto
  <2>2. pc'[i] = "kube_truncate" /\ \A j \in Iteration \ {i} : pc'[j] = pc[j]
    BY <1>1, <2>1 DEF KubeTypes
  <2>3. KubeTypes'
    BY <1>1, <2>1 DEF KubeTypes
  <2>4. ASSUME ~overlapped'
        PROVE  /\ OneAtATime' /\ ScriptIsThere' /\ RunsOnItsCluster'
               /\ \A j \in Iteration : ScriptIsMine(j)'
    <3>1. ~overlapped /\ \A j \in Iteration \ {i} : pc[j] \notin KubePoints
      BY <2>1, <2>4
    <3>2. \A j \in Iteration : pc[j] # "kube_write"
      BY <3>1, <2>1, <1>1
    <3>3. script = "empty" => faults > 0
      BY <3>1, <3>2 DEF KubeInv, ScriptIsThere
    <3>4. OneAtATime'
      BY <3>1, <2>2 DEF OneAtATime
    <3>5. ScriptIsThere' /\ RunsOnItsCluster'
      BY <3>1, <3>3, <2>1 DEF KubeInv, ScriptIsThere, RunsOnItsCluster
    <3>6. \A j \in Iteration : ScriptIsMine(j)'
      BY <3>1, <3>3, <2>1, <2>2, <1>1 DEF KubeTypes, ScriptIsMine
    <3> QED
      BY <3>4, <3>5, <3>6
  <2> QED
    BY <2>3, <2>4 DEF KubeInv
<1>4. CASE KubeTruncate(i) \/ KubeWrite(i) \/ KubeRun(i)
  <2>1. /\ pc[i] \in KubePoints
        /\ UNCHANGED <<faults, read, overlapped>>
        /\ \E p : pc' = [pc EXCEPT ![i] = p]
    BY <1>1, <1>4 DEF KubeTruncate, KubeWrite, KubeRun, At, Goto
  <2>2. \A j \in Iteration \ {i} : pc'[j] = pc[j]
    BY <1>1, <2>1 DEF KubeTypes
  <2>3. KubeTypes'
    BY <1>1, <1>4, <2>1 DEF KubeTypes, KubeTruncate, KubeWrite, KubeRun
  <2>4. ASSUME ~overlapped'
        PROVE  /\ OneAtATime' /\ ScriptIsThere' /\ RunsOnItsCluster'
               /\ \A j \in Iteration : ScriptIsMine(j)'
    <3>1. ~overlapped /\ \A j \in Iteration \ {i} : pc[j] \notin KubePoints
      BY <2>1, <2>4 DEF KubeInv, OneAtATime
    <3>2. \A j \in Iteration \ {i} : pc'[j] \notin KubePoints
      BY <2>2, <3>1
    <3>3. OneAtATime'
      BY <3>2 DEF OneAtATime
    <3>4. \A j \in Iteration \ {i} : ScriptIsMine(j)'
      BY <3>2, <1>1 DEF ScriptIsMine
    <3>5. ScriptIsMine(i) /\ ScriptIsThere /\ RunsOnItsCluster /\ faults \in Nat
      BY <3>1 DEF KubeInv, KubeTypes
    <3>6. CASE KubeTruncate(i)
      <4>1. pc'[i] = "kube_write" /\ pc[i] = "kube_truncate" /\ UNCHANGED ran
        BY <1>1, <3>6 DEF KubeTruncate, At, Goto, KubeTypes
      <4> QED
        BY <4>1, <2>1, <3>1, <3>3, <3>4, <3>5 DEF ScriptIsMine, ScriptIsThere, RunsOnItsCluster
    <3>7. CASE KubeWrite(i)
      <4>1. /\ pc'[i] = "kube_run" /\ pc[i] = "kube_write" /\ UNCHANGED ran
            /\ script' = IF read[i] = "empty" THEN "empty" ELSE ClusterOf[i]
        BY <1>1, <3>7 DEF KubeWrite, At, Goto, KubeTypes
      <4>2. script' = ClusterOf[i] \/ (script' = "empty" /\ faults > 0)
        BY <4>1, <3>5 DEF ScriptIsMine
      <4>3. ScriptIsMine(i)' /\ RunsOnItsCluster'
        BY <4>1, <4>2, <2>1, <3>1, <3>5 DEF ScriptIsMine, RunsOnItsCluster
      <4>4. ScriptIsThere'
        BY <4>1, <4>2, <2>1, <1>1, ClusterAssumption DEF ScriptIsThere
      <4> QED
        BY <4>3, <4>4, <3>3, <3>4
    <3>8. CASE KubeRun(i)
      <4>1. /\ pc'[i] = AfterKubeBurner /\ pc[i] = "kube_run" /\ UNCHANGED script
            /\ ran' = [ran EXCEPT ![i] = script]
        BY <1>1, <3>8 DEF KubeRun, At, Goto, KubeTypes
      <4>2. script = ClusterOf[i] \/ (script = "empty" /\ faults > 0)
        BY <4>1, <3>5 DEF ScriptIsMine
      <4>3. RunsOnItsCluster'
        BY <4>1, <4>2, <2>1, <3>1, <3>5, <1>1 DEF RunsOnItsCluster, KubeTypes
      <4>4. AfterKubeBurner \notin KubePoints
        BY NextWorkload DEF Entries, KubePoints
      <4>5. ScriptIsMine(i)'
        BY <4>1, <4>4, <1>1 DEF ScriptIsMine
      <4>6. ScriptIsThere'
        BY <4>1, <4>2, <2>1, ClusterAssumption DEF ScriptIsThere
      <4> QED
        BY <4>3, <4>5, <4>6, <3>3, <3>4
    <3> QED
      BY <1>4, <3>6, <3>7, <3>8
  <2> QED
    BY <2>1, <2>3, <2>4 DEF KubeInv
<1> QED
  BY <1>2, <1>3, <1>4 DEF OcpStep

LEMMA KubeStep == KubeInv /\ [Next]_vars => KubeInv'
<1> SUFFICES ASSUME KubeInv, [Next]_vars PROVE KubeInv'
  OBVIOUS
<1>1. ASSUME NEW i \in Iteration, Step(i) PROVE KubeInv'
  <2>1. KubeTypes
    BY DEF KubeInv
  <2>2. CASE ProviderStep(i) /\ UNCHANGED <<octaviaVars, kubeVars>>
    BY <2>1, <2>2, ProviderIsNotKube, NotKubeKeeps
  <2>3. CASE OctaviaStep(i) /\ UNCHANGED <<providerVars, kubeVars>>
    BY <2>1, <2>3, OctaviaIsNotKube, NotKubeKeeps
  <2>4. CASE OcpStep(i)
    BY <2>4, KubeStepKeeps
  <2> QED
    BY <1>1, <2>2, <2>3, <2>4 DEF Step
<1>2. ASSUME NEW i \in Iteration, Breaks(i) PROVE KubeInv'
  BY <1>2, BreaksKeepsKube
<1>3. CASE (\E l \in LoadBalancer : Settles(l)) \/ UNCHANGED vars
  <2>1. UNCHANGED <<pc, faults, script, read, ran, overlapped>>
    BY <1>3 DEF Settles, Settle, vars, iterationVars, kubeVars
  <2> QED
    BY <2>1 DEF KubeInv, KubeTypes, OneAtATime, ScriptIsThere, RunsOnItsCluster, ScriptIsMine
<1> QED
  BY <1>1, <1>2, <1>3 DEF Next, Terminated

(***************************************************************************)
(* As long as no two iterations are between reading and running the script, *)
(* each runs kube-burner on its own cluster, for any iterations, clusters   *)
(* and number of failures.                                                  *)
(***************************************************************************)
THEOREM RunOnOwnCluster == Spec => []RunsOnItsCluster
<1>1. KubeInv => RunsOnItsCluster
  BY DEF KubeInv, RunsOnItsCluster
<1> QED
  BY <1>1, KubeInvInit, KubeStep, PTL DEF Spec

--------------------------------------------------------------------------------
(***************************************************************************)
(* The load balancers.  No lock keeps their iterations apart: before a load *)
(* balancer is listed only its creator knows it, and who deletes it took it *)
(* off the list first.                                                      *)
(***************************************************************************)

(* Points of the creator of a load balancer, before it is there and after; of   *)
(* its deletion; and of the deletion of members.                                *)
BeforeLb == {"lb_jump", "lb_client", "lb_create"}
FillPoints == {"lb_wait", "lb_listener", "lb_wait_listener", "lb_pool", "lb_wait_pool", "lb_member"}
CheckPoints == {"lb_check", "lb_unjump"}
CreatorPoints == BeforeLb \cup FillPoints \cup CheckPoints
DeleterPoints == {"lb_servers", "lb_vip", "lb_client_net"}
MemberPoints == {"mem_wait", "mem_list", "mem_pick", "mem_delete"}

(* Where an iteration has its load balancer for itself, as nobody can list it.  *)
AlonePoints == BeforeLb \cup DeleterPoints

LbTypes == /\ pc = [i \in Iteration |-> pc[i]]
           /\ OctaviaTypeOK

(* Every member before that of i's counters is there or accounted for.          *)
Filled(i) ==
  Lb(i) \in lbs =>
    \A p \in 1..NumPools, c \in 1..NumClients :
      p < pool[i] \/ (p = pool[i] /\ c < client[i]) =>
        <<p, c>> \in members[Lb(i)] \cup excused[Lb(i)]

InRange(i) == pool[i] \in 1..NumPools /\ client[i] \in 1..NumClients

(***************************************************************************)
(* What is so for iteration i at each point.                                *)
(***************************************************************************)
Place(i) ==
  /\ pc[i] \in CreatorPoints \cup DeleterPoints => Lb(i) \in made
  /\ pc[i] \in AlonePoints => Lb(i) \notin lbs \cup tidied
  /\ pc[i] = "lb_jump" => clients[Lb(i)] = 0
  /\ pc[i] = "lb_client" => clients[Lb(i)] < NumClients
  /\ pc[i] \in {"lb_create", "lb_servers"} => clients[Lb(i)] = NumClients
  /\ pc[i] \in {"lb_vip", "lb_client_net"} => clients[Lb(i)] = 0 /\ client[i] > 0
  /\ pc[i] = "lb_client_net" => Lb(i) \notin jumps \cup vips
  /\ pc[i] \in FillPoints => InRange(i) /\ Filled(i)
  /\ pc[i] \in CheckPoints => Lb(i) \notin lbs \/ Slots \subseteq members[Lb(i)] \cup excused[Lb(i)]

Counters(i) ==
  /\ pc[i] = "mem_wait" => pool[i] \in 0..NumPools
  /\ pc[i] \in MemberPoints \ {"mem_wait"} => pool[i] \in 1..NumPools
  /\ pc[i] = "mem_delete" => client[i] \in 1..NumClients

(* No two create one load balancer, and no two delete one, or delete one that   *)
(* is not there yet.                                                            *)
Separate(i, j) ==
  \A P \in {CreatorPoints, AlonePoints} : pc[i] \in P /\ pc[j] \in P => Lb(i) # Lb(j)

LbSites ==
  /\ lbs \subseteq made /\ tidied \subseteq made
  /\ \A l \in LoadBalancer : /\ l \notin made => clients[l] = 0
                             /\ l \in lbs => clients[l] = NumClients
  /\ \A l \in tidied : clients[l] = 0 /\ l \notin lbs \cup vips \cup clientNets \cup jumps

LbInv == /\ LbTypes /\ LbSites
         /\ \A i \in Iteration : Place(i) /\ Counters(i)
         /\ \A i, j \in Iteration : i # j => Separate(i, j)

--------------------------------------------------------------------------------
(***************************************************************************)
(* What a step of i gives.  T are the load balancers it may disturb: none   *)
(* of another iteration that has its load balancer for itself.              *)
(***************************************************************************)
Frame(i) == /\ args' = args
            /\ \A j \in Iteration \ {i} : /\ pc'[j] = pc[j] /\ lb'[j] = lb[j]
                                          /\ pool'[j] = pool[j] /\ client'[j] = client[j]

Effects(i, T) ==
  /\ made \subseteq made'
  /\ \A l \in LoadBalancer \ T : /\ l \in lbs' => l \in lbs
                                 /\ l \in tidied' => l \in tidied
                                 /\ clients'[l] = clients[l]
                                 /\ l \in jumps' \cup vips' => l \in jumps \cup vips
  /\ \A l \in lbs \cap lbs' : members[l] \cup excused[l] \subseteq members'[l] \cup excused'[l]
  /\ \A j \in Iteration \ {i} : /\ pc[j] \in AlonePoints => Lb(j) \notin T
                                /\ pc[j] \in CreatorPoints => Lb(j) \notin lbs' \ lbs

Joins(i) == \A j \in Iteration \ {i} : \A P \in {CreatorPoints, AlonePoints} :
              pc'[i] \in P /\ pc[j] \in P => lb'[i][1] # Lb(j)

LbAfter(i) == /\ LbTypes' /\ LbSites' /\ Place(i)' /\ Counters(i)'
              /\ Frame(i) /\ Joins(i)
              /\ \E T \in SUBSET LoadBalancer : Effects(i, T)

LEMMA HasLb ==
  ASSUME LbTypes, NEW i \in Iteration, pc[i] \in CreatorPoints \cup DeleterPoints \cup MemberPoints
  PROVE  Lb(i) \in LoadBalancer /\ lb[i] = <<Lb(i)>> /\ lb[i] # <<>>
<1>1. pc[i] \in OctaviaPoints \ {"lb_networks", "lb_delete"}
  BY DEF CreatorPoints, BeforeLb, FillPoints, CheckPoints, DeleterPoints, MemberPoints, OctaviaPoints
<1>2. PICK l \in LoadBalancer : lb[i] = <<l>>
  BY <1>1 DEF LbTypes, OctaviaTypeOK
<1> QED
  BY <1>2 DEF Lb

LEMMA OthersStayInPlace ==
  ASSUME LbInv, NEW i \in Iteration, Frame(i), NEW T \in SUBSET LoadBalancer, Effects(i, T),
         NEW j \in Iteration \ {i}
  PROVE  Place(j)' /\ Counters(j)'
<1>1. /\ pc'[j] = pc[j] /\ pool'[j] = pool[j] /\ client'[j] = client[j]
      /\ Lb(j)' = Lb(j) /\ NumPools' = NumPools /\ NumClients' = NumClients /\ Slots' = Slots
  BY DEF Frame, Lb, NumPools, NumClients, Slots
<1>2. Place(j) /\ Counters(j) /\ LbTypes
  BY DEF LbInv
<1>3. Counters(j)'
  BY <1>1, <1>2 DEF Counters
<1>4. CASE pc[j] \in AlonePoints
  <2>1. Lb(j) \in LoadBalancer \ T
    BY <1>2, <1>4, HasLb DEF Effects, AlonePoints, CreatorPoints
  <2>2. /\ Lb(j) \in made' /\ Lb(j) \notin lbs' \cup tidied'
        /\ clients'[Lb(j)] = clients[Lb(j)]
        /\ Lb(j) \in jumps' \cup vips' => Lb(j) \in jumps \cup vips
    BY <1>2, <1>4, <2>1 DEF Effects, Place, AlonePoints, CreatorPoints
  <2> QED
    BY <1>1, <1>2, <1>3, <1>4, <2>2
       DEF Place, AlonePoints, CreatorPoints, BeforeLb, DeleterPoints, FillPoints, CheckPoints
<1>5. CASE pc[j] \in FillPoints \cup CheckPoints
  <2>1. /\ Lb(j) \in made' /\ Lb(j) \notin lbs' \ lbs
        /\ pc[j] \notin AlonePoints
    BY <1>2, <1>5 DEF Effects, Place, CreatorPoints, AlonePoints, BeforeLb, DeleterPoints,
       FillPoints, CheckPoints
  <2>2. Lb(j) \in lbs' => /\ Lb(j) \in lbs
                          /\ members[Lb(j)] \cup excused[Lb(j)]
                               \subseteq members'[Lb(j)] \cup excused'[Lb(j)]
    BY <2>1 DEF Effects
  <2>3. pc[j] \in FillPoints => (InRange(j) /\ Filled(j))'
    BY <1>1, <1>2, <2>2 DEF Place, InRange, Filled
  <2>4. pc[j] \in CheckPoints => (Lb(j) \notin lbs \/ Slots \subseteq members[Lb(j)] \cup excused[Lb(j)])'
    BY <1>1, <1>2, <2>2 DEF Place
  <2> QED
    BY <1>1, <1>3, <1>5, <2>1, <2>3, <2>4
       DEF Place, AlonePoints, CreatorPoints, BeforeLb, DeleterPoints, FillPoints, CheckPoints
<1>6. CASE pc[j] \notin CreatorPoints \cup DeleterPoints
  BY <1>1, <1>3, <1>6
     DEF Place, AlonePoints, CreatorPoints, BeforeLb, DeleterPoints, FillPoints, CheckPoints
<1> QED
  BY <1>4, <1>5, <1>6 DEF AlonePoints, CreatorPoints

LEMMA LbAfterKeeps ==
  ASSUME LbInv, NEW i \in Iteration, LbAfter(i)
  PROVE  LbInv'
<1>1. PICK T \in SUBSET LoadBalancer : Effects(i, T)
  BY DEF LbAfter
<1>2. \A j \in Iteration : Place(j)' /\ Counters(j)'
  BY <1>1, OthersStayInPlace DEF LbAfter
<1>3. \A j \in Iteration \ {i} : pc'[j] = pc[j] /\ Lb(j)' = Lb(j)
  BY DEF LbAfter, Frame, Lb
<1>4. ASSUME NEW j \in Iteration, NEW k \in Iteration, j # k PROVE Separate(j, k)'
  <2>1. CASE j = i
    BY <1>3, <1>4, <2>1 DEF LbAfter, Joins, Separate, Lb
  <2>2. CASE k = i
    BY <1>3, <1>4, <2>2 DEF LbAfter, Joins, Separate, Lb
  <2>3. CASE j # i /\ k # i
    <3>1. Separate(j, k)
      BY <1>4 DEF LbInv
    <3> QED
      BY <1>3, <2>3, <3>1 DEF Separate
  <2> QED
    BY <2>1, <2>2, <2>3
<1> QED
  BY <1>2, <1>4 DEF LbAfter, LbInv

(***************************************************************************)
(* A step that leaves what there is of load balancers, and takes i to a     *)
(* point of no load balancer of its own or further along its creation.      *)
(***************************************************************************)
Walks(i) ==
  /\ UNCHANGED <<lbs, made, tidied, clients, vips, clientNets>>
  /\ jumps' \subseteq jumps
  /\ \A l \in lbs : members[l] \cup excused[l] \subseteq members'[l] \cup excused'[l]
  /\ \/ pc'[i] \notin CreatorPoints \cup DeleterPoints
     \/ /\ pc[i] \in FillPoints \cup CheckPoints /\ lb'[i] = lb[i]
        /\ \/ pc'[i] \in FillPoints /\ InRange(i)' /\ Filled(i)'
           \/ /\ pc'[i] \in CheckPoints
              /\ Lb(i) \notin lbs \/ Slots \subseteq members'[Lb(i)] \cup excused'[Lb(i)]

LEMMA WalkOK ==
  ASSUME LbInv, NEW i \in Iteration, LbTypes', Frame(i), Counters(i)', Walks(i)
  PROVE  LbAfter(i)
<1>1. NumPools' = NumPools /\ NumClients' = NumClients /\ Slots' = Slots
  BY DEF Frame, NumPools, NumClients, Slots
<1>2. LbSites'
  BY <1>1 DEF Walks, LbInv, LbSites
<1>3. Effects(i, {})
  BY DEF Walks, Effects
<1>4. CASE pc'[i] \notin CreatorPoints \cup DeleterPoints
  <2>1. Place(i)' /\ Joins(i)
    BY <1>4 DEF Place, Joins, AlonePoints, CreatorPoints, BeforeLb, DeleterPoints, FillPoints,
       CheckPoints
  <2> QED
    BY <1>2, <1>3, <2>1 DEF LbAfter
<1>5. CASE /\ pc[i] \in FillPoints \cup CheckPoints /\ lb'[i] = lb[i]
           /\ \/ pc'[i] \in FillPoints /\ InRange(i)' /\ Filled(i)'
              \/ /\ pc'[i] \in CheckPoints
                 /\ Lb(i) \notin lbs \/ Slots \subseteq members'[Lb(i)] \cup excused'[Lb(i)]
  <2>1. pc[i] \in CreatorPoints /\ pc'[i] \in CreatorPoints /\ pc'[i] \notin AlonePoints
    BY <1>5 DEF AlonePoints, CreatorPoints, BeforeLb, DeleterPoints, FillPoints, CheckPoints
  <2>2. Lb(i)' = Lb(i) /\ Lb(i) \in made'
    BY <1>5, <2>1 DEF Lb, LbInv, Place, Walks
  <2>3. Place(i)'
    BY <1>1, <1>5, <2>1, <2>2 DEF Place, Walks, CreatorPoints, AlonePoints, BeforeLb,
       DeleterPoints, FillPoints, CheckPoints
  <2>4. Joins(i)
    BY <1>5, <2>1 DEF Joins, LbInv, Separate, Lb
  <2> QED
    BY <1>2, <1>3, <2>3, <2>4 DEF LbAfter
<1> QED
  BY <1>4, <1>5 DEF Walks

--------------------------------------------------------------------------------
(* Steps of the other workloads, and calls that raise.                          *)
Outside(i) == /\ UNCHANGED octaviaVars
              /\ \E p : p \notin OctaviaPoints /\ pc' = [pc EXCEPT ![i] = p]

LEMMA LbPoints ==
  /\ CreatorPoints \cup DeleterPoints \cup MemberPoints = OctaviaPoints \ {"lb_networks", "lb_delete"}
  /\ (Entries \cup Stopped) \cap OctaviaPoints = {}
  /\ \A w \in {AfterLbCreate, AfterLbDelete, AfterMembers} : w \notin OctaviaPoints
BY NextWorkload DEF CreatorPoints, BeforeLb, FillPoints, CheckPoints, DeleterPoints, MemberPoints,
   OctaviaPoints, Entries, Stopped

(* Where i is when it has left the load balancers.                              *)
LEMMA GoneOn ==
  ASSUME LbTypes, NEW i \in Iteration, NEW p, p \notin CreatorPoints \cup DeleterPoints \cup MemberPoints,
         pc' = [pc EXCEPT ![i] = p]
  PROVE  /\ pc' = [j \in Iteration |-> pc'[j]] /\ pc'[i] = p
         /\ \A j \in Iteration \ {i} : pc'[j] = pc[j]
         /\ pc'[i] \notin CreatorPoints \cup DeleterPoints
         /\ Counters(i)'
BY DEF LbTypes, Counters, MemberPoints

LEMMA OutsideOK ==
  ASSUME LbInv, NEW i \in Iteration, Outside(i)
  PROVE  LbAfter(i)
<1>1. PICK p : p \notin OctaviaPoints /\ pc' = [pc EXCEPT ![i] = p]
  BY DEF Outside
<1>2. /\ UNCHANGED <<args, lbs, pending, pools, members, made, vips, clientNets, jumps, clients, lb,
                     listed, seen, pool, client, attempts, rounds, excused, tidied>>
  BY DEF Outside, octaviaVars, balancer, sites, choice, counters, history
<1>3. LbTypes
  BY DEF LbInv
<1>4. /\ pc' = [j \in Iteration |-> pc'[j]] /\ pc'[i] = p
      /\ \A j \in Iteration \ {i} : pc'[j] = pc[j]
      /\ pc'[i] \notin CreatorPoints \cup DeleterPoints
      /\ Counters(i)'
  BY <1>1, <1>3, LbPoints, GoneOn
<1>5. LbTypes'
  BY <1>1, <1>2, <1>3, <1>4 DEF LbTypes, OctaviaTypeOK, Slots, NumPools, NumClients
<1>6. Walks(i) /\ Frame(i)
  BY <1>2, <1>4 DEF Walks, Frame
<1> QED
  BY <1>4, <1>5, <1>6, WalkOK

LEMMA ProviderIsOutside ==
  ASSUME LbTypes, NEW i \in Iteration, ProviderStep(i), UNCHANGED octaviaVars
  PROVE  Outside(i)
<1>1. /\ AfterNetCreate \notin OctaviaPoints /\ AfterNetBoot \notin OctaviaPoints
      /\ AfterNetDelete \notin OctaviaPoints
  BY NextWorkload DEF Entries, OctaviaPoints
<1>2. pc = [pc EXCEPT ![i] = pc[i]]
  BY DEF LbTypes
<1> USE <1>1, <1>2 DEF Outside, At, Goto, Fail, Return, BootOn, ReleaseNet, PickRandom, ShowNet,
                       AcquireNet, iterationVars, OctaviaPoints
<1>3. CASE NetCreate(i)
  BY <1>3 DEF NetCreate
<1>4. CASE NetAcquire(i)
  BY <1>4 DEF NetAcquire
<1>5. CASE NetSubnet(i)
  BY <1>5 DEF NetSubnet
<1>6. CASE NetBoot(i)
  BY <1>6 DEF NetBoot
<1>7. CASE NetRelease(i)
  BY <1>7 DEF NetRelease
<1>8. CASE BootPick(i)
  BY <1>8 DEF BootPick
<1>9. CASE BootShow(i)
  BY <1>9 DEF BootShow
<1>10. CASE BootAcquire(i)
  BY <1>10 DEF BootAcquire
<1>11. CASE BootServer(i)
  BY <1>11 DEF BootServer
<1>12. CASE BootSubnet(i)
  BY <1>12 DEF BootSubnet
<1>13. CASE BootRelease(i)
  BY <1>13 DEF BootRelease
<1>14. CASE DeletePick(i)
  BY <1>14 DEF DeletePick
<1>15. CASE DeleteShow(i)
  BY <1>15 DEF DeleteShow
<1>16. CASE DeleteAcquire(i)
  BY <1>16 DEF DeleteAcquire
<1>17. CASE DeleteList(i)
  BY <1>17 DEF DeleteList
<1>18. CASE DeleteServer(i)
  BY <1>18 DEF DeleteServer
<1>19. CASE DeleteNetwork(i)
  BY <1>19 DEF DeleteNetwork
<1>20. CASE DeleteRelease(i)
  BY <1>20 DEF DeleteRelease
<1> QED
  BY <1>3, <1>4, <1>5, <1>6, <1>7, <1>8, <1>9, <1>10, <1>11, <1>12, <1>13, <1>14,
     <1>15, <1>16, <1>17, <1>18, <1>19, <1>20 DEF ProviderStep

LEMMA OcpIsOutside ==
  ASSUME LbTypes, NEW i \in Iteration, OcpStep(i), UNCHANGED octaviaVars
  PROVE  Outside(i)
<1>1. AfterKubeBurner \notin OctaviaPoints
  BY NextWorkload DEF Entries, OctaviaPoints
<1> QED
  BY <1>1 DEF OcpStep, KubeRead, KubeTruncate, KubeWrite, KubeRun, InstallOcp, At, Goto, Outside,
              OctaviaPoints

LEMMA BreaksIsOutside ==
  ASSUME NEW i \in Iteration, Breaks(i)
  PROVE  Outside(i)
BY DEF Breaks, Raise, Outside, OctaviaPoints

--------------------------------------------------------------------------------
(* create_loadbalancers, once the load balancer is there.                       *)

LEMMA MoveFrame ==
  ASSUME LbTypes, NEW i \in Iteration, NEW p, pc' = [pc EXCEPT ![i] = p]
  PROVE  /\ pc' = [j \in Iteration |-> pc'[j]] /\ pc'[i] = p
         /\ \A j \in Iteration \ {i} : pc'[j] = pc[j]
BY DEF LbTypes

LEMMA AlongOK ==
  ASSUME LbInv, LbTypes', NEW i \in Iteration, pc[i] \in FillPoints,
         NEW p \in FillPoints \cup {"failed"}, pc' = [pc EXCEPT ![i] = p],
         UNCHANGED <<args, lbs, made, tidied, clients, vips, clientNets, jumps, members, excused,
                     lb, pool, client>>
  PROVE  LbAfter(i)
<1>1. /\ pc'[i] = p /\ \A j \in Iteration \ {i} : pc'[j] = pc[j]
  BY MoveFrame DEF LbInv
<1>2. Frame(i) /\ Counters(i)'
  BY <1>1 DEF Frame, Counters, MemberPoints, FillPoints
<1>3. InRange(i)' /\ Filled(i)'
  BY DEF LbInv, Place, InRange, Filled, NumPools, NumClients, Lb
<1>4. Walks(i)
  BY <1>1, <1>3 DEF Walks, FillPoints, CreatorPoints, BeforeLb, CheckPoints, DeleterPoints
<1> QED
  BY <1>2, <1>4, WalkOK

LEMMA AwaitOK ==
  ASSUME LbInv, NEW i \in Iteration, LbWait(i) \/ LbWaitListener(i) \/ LbWaitPool(i)
  PROVE  LbAfter(i)
<1>1. PICK p \in {"lb_listener", "lb_pool", "lb_member", "failed"} :
        pc' = [pc EXCEPT ![i] = p] /\ UNCHANGED octaviaVars
  BY DEF LbWait, LbWaitListener, LbWaitPool, AwaitActive, Goto, Fail
<1>2. pc[i] \in FillPoints /\ p \in FillPoints \cup {"failed"}
  BY DEF LbWait, LbWaitListener, LbWaitPool, AwaitActive, At, FillPoints
<1>3. /\ UNCHANGED <<args, lbs, pending, pools, members, made, vips, clientNets, jumps, clients, lb,
                     listed, seen, pool, client, attempts, rounds, excused, tidied>>
  BY <1>1 DEF octaviaVars, balancer, sites, choice, counters, history
<1>4. LbTypes'
  <2>1. pc' = [j \in Iteration |-> pc'[j]] /\ lb[i] # <<>> /\ \A j \in Iteration \ {i} : pc'[j] = pc[j]
    <3>1. LbTypes /\ pc[i] \in CreatorPoints
      BY <1>2 DEF LbInv, CreatorPoints
    <3> QED
      BY <1>1, <3>1, MoveFrame, HasLb
  <2> QED
    BY <1>3, <2>1 DEF LbInv, LbTypes, OctaviaTypeOK, Slots, NumPools, NumClients
<1> QED
  BY <1>1, <1>2, <1>3, <1>4, AlongOK

(* A change of the load balancer's children, tried, given up or made.           *)
LEMMA TriedOK ==
  ASSUME LbInv, NEW i \in Iteration, pc[i] \in FillPoints, NEW p \in FillPoints \cup {"failed"},
         pc' = [pc EXCEPT ![i] = p],
         pending' \in SUBSET LoadBalancer, pools' \in [LoadBalancer -> 0..NumPools],
         attempts' \in [Iteration -> Nat],
         UNCHANGED <<args, lbs, members, sites, choice, pool, client, rounds, history>>
  PROVE  LbAfter(i)
<1>1. /\ UNCHANGED <<args, lbs, members, made, vips, clientNets, jumps, clients, lb,
                     listed, seen, pool, client, rounds, excused, tidied>>
  BY DEF sites, choice, history
<1>2. LbTypes'
  <2>1. pc' = [j \in Iteration |-> pc'[j]] /\ lb[i] # <<>> /\ \A j \in Iteration \ {i} : pc'[j] = pc[j]
    <3>1. LbTypes /\ pc[i] \in CreatorPoints
      BY DEF LbInv, CreatorPoints
    <3> QED
      BY <3>1, MoveFrame, HasLb
  <2> QED
    BY <1>1, <2>1, SMTT(30) DEF LbInv, LbTypes, OctaviaTypeOK, Slots, NumPools, NumClients
<1> QED
  BY <1>1, <1>2, AlongOK

LEMMA AttemptsTyped ==
  ASSUME LbTypes, NEW i \in Iteration
  PROVE  /\ Set(attempts, i, attempts[i] + 1) => attempts' \in [Iteration -> Nat]
         /\ Set(attempts, i, 0) => attempts' \in [Iteration -> Nat]
         /\ Lb(i) \in LoadBalancer => pending \cup {Lb(i)} \in SUBSET LoadBalancer
<1>1. attempts \in [Iteration -> Nat] /\ pending \in SUBSET LoadBalancer
  BY DEF LbTypes, OctaviaTypeOK
<1>2. attempts[i] \in Nat /\ attempts[i] + 1 \in Nat
  BY <1>1
<1> QED
  BY <1>1, <1>2 DEF Set

LEMMA StayPut ==
  ASSUME LbTypes, NEW i \in Iteration, UNCHANGED iterationVars
  PROVE  pc' = [pc EXCEPT ![i] = pc[i]]
BY DEF LbTypes, iterationVars

LEMMA LbListenerOK ==
  ASSUME LbInv, NEW i \in Iteration, LbListener(i), args' = args
  PROVE  LbAfter(i)
<1>1. LbTypes /\ pc[i] = "lb_listener" /\ pc[i] \in FillPoints /\ UNCHANGED sites
  BY DEF LbInv, LbListener, At, FillPoints
<1>2. /\ Lb(i) \in LoadBalancer
      /\ pending \in SUBSET LoadBalancer /\ pools \in [LoadBalancer -> 0..NumPools]
      /\ attempts \in [Iteration -> Nat]
  BY <1>1, HasLb DEF CreatorPoints, LbTypes, OctaviaTypeOK
<1>3. CASE TryAgain(i) /\ UNCHANGED tidied
  <2>1. pc' = [pc EXCEPT ![i] = pc[i]]
    BY <1>1, <1>3, StayPut DEF TryAgain
  <2> QED
    BY <1>1, <1>2, <1>3, <2>1, TriedOK, AttemptsTyped DEF TryAgain, balancer, history
<1>4. CASE Fail(i) /\ UNCHANGED <<balancer, choice, counters, history>>
  BY <1>1, <1>2, <1>4, TriedOK DEF Fail, Goto, balancer, counters
<1>5. CASE /\ pending' = pending \cup {Lb(i)}
           /\ Set(attempts, i, 0)
           /\ Goto(i, "lb_wait_listener")
           /\ UNCHANGED <<lbs, pools, members, choice, pool, client, rounds, history>>
  BY <1>1, <1>2, <1>5, TriedOK, AttemptsTyped DEF Goto, FillPoints
<1> QED
  BY <1>3, <1>4, <1>5 DEF LbListener

LEMMA LbPoolOK ==
  ASSUME LbInv, NEW i \in Iteration, LbPool(i), args' = args
  PROVE  LbAfter(i)
<1>1. LbTypes /\ pc[i] = "lb_pool" /\ pc[i] \in FillPoints /\ UNCHANGED sites
  BY DEF LbInv, LbPool, At, FillPoints
<1>2. /\ Lb(i) \in LoadBalancer
      /\ pending \in SUBSET LoadBalancer /\ pools \in [LoadBalancer -> 0..NumPools]
      /\ attempts \in [Iteration -> Nat] /\ NumPools \in Nat
      /\ pool[i] \in 1..NumPools
  BY <1>1, HasLb, OctaviaAssumption
     DEF CreatorPoints, LbTypes, OctaviaTypeOK, LbInv, Place, InRange, NumPools
<1>3. CASE TryAgain(i) /\ UNCHANGED tidied
  <2>1. pc' = [pc EXCEPT ![i] = pc[i]]
    BY <1>1, <1>3, StayPut DEF TryAgain
  <2> QED
    BY <1>1, <1>2, <1>3, <2>1, TriedOK, AttemptsTyped DEF TryAgain, balancer, history
<1>4. CASE Fail(i) /\ UNCHANGED <<balancer, choice, counters, history>>
  BY <1>1, <1>2, <1>4, TriedOK DEF Fail, Goto, balancer, counters
<1>5. CASE /\ pools' = [pools EXCEPT ![Lb(i)] = pool[i]]
           /\ pending' = pending \cup {Lb(i)}
           /\ Set(attempts, i, 0)
           /\ Goto(i, "lb_wait_pool")
           /\ UNCHANGED <<lbs, members, choice, pool, client, rounds, history>>
  <2>1. pools' \in [LoadBalancer -> 0..NumPools]
    <3>1. pool[i] \in 0..NumPools
      BY <1>2
    <3> QED
      BY <1>2, <1>5, <3>1
  <2> QED
    BY <1>1, <1>2, <1>5, <2>1, TriedOK, AttemptsTyped DEF Goto, FillPoints
<1> QED
  BY <1>3, <1>4, <1>5 DEF LbPool

(* Beyond the slot in hand: the next client, the next pool, or the check.       *)
Advances(i) ==
  \/ /\ client[i] < NumClients /\ client' = [client EXCEPT ![i] = client[i] + 1]
     /\ pc' = [pc EXCEPT ![i] = "lb_member"] /\ pool' = pool
  \/ /\ client[i] = NumClients /\ client' = [client EXCEPT ![i] = 1]
     /\ pool[i] < NumPools /\ pool' = [pool EXCEPT ![i] = pool[i] + 1]
     /\ pc' = [pc EXCEPT ![i] = "lb_listener"]
  \/ /\ client[i] = NumClients /\ client' = [client EXCEPT ![i] = 1]
     /\ pool[i] = NumPools /\ pool' = pool
     /\ pc' = [pc EXCEPT ![i] = "lb_check"]

LEMMA SlotDoneOK ==
  ASSUME LbInv, NEW i \in Iteration, pc[i] = "lb_member", Advances(i),
         UNCHANGED <<args, lbs, pools, sites, choice, rounds, tidied>>,
         pending' \in SUBSET LoadBalancer, attempts' \in [Iteration -> Nat],
         members' \in [LoadBalancer -> SUBSET Slots], excused' \in [LoadBalancer -> SUBSET Slots],
         \A l \in LoadBalancer : members[l] \cup excused[l] \subseteq members'[l] \cup excused'[l],
         Slot(i) \in members'[Lb(i)] \cup excused'[Lb(i)]
  PROVE  LbAfter(i)
<1>1. /\ UNCHANGED <<args, lbs, pools, made, vips, clientNets, jumps, clients, lb, listed, seen,
                     rounds, tidied>>
      /\ LbTypes /\ pc[i] \in FillPoints /\ pc[i] \in CreatorPoints
      /\ NumPools' = NumPools /\ NumClients' = NumClients /\ Slots' = Slots
  BY DEF sites, choice, LbInv, FillPoints, CreatorPoints, NumPools, NumClients, Slots
<1>2. /\ Lb(i) \in LoadBalancer /\ lb[i] # <<>> /\ Lb(i)' = Lb(i)
      /\ NumPools \in Nat \ {0} /\ NumClients \in Nat \ {0}
      /\ pool[i] \in 1..NumPools /\ client[i] \in 1..NumClients /\ Filled(i)
      /\ pool \in [Iteration -> Nat] /\ client \in [Iteration -> Nat]
  <2>1. NumPools \in Nat \ {0} /\ NumClients \in Nat \ {0}
    BY <1>1, OctaviaAssumption DEF LbTypes, OctaviaTypeOK, NumPools, NumClients
  <2>2. pool[i] \in 1..NumPools /\ client[i] \in 1..NumClients /\ Filled(i)
    BY <1>1 DEF LbInv, Place, InRange
  <2>3. pool \in [Iteration -> Nat] /\ client \in [Iteration -> Nat]
    BY <1>1 DEF LbTypes, OctaviaTypeOK
  <2> QED
    BY <1>1, <2>1, <2>2, <2>3, HasLb DEF Lb
<1>3. PICK p \in {"lb_member", "lb_listener", "lb_check"} : pc' = [pc EXCEPT ![i] = p]
  BY DEF Advances
<1>4. /\ pc' = [j \in Iteration |-> pc'[j]] /\ pc'[i] = p
      /\ \A j \in Iteration \ {i} : pc'[j] = pc[j]
  BY <1>1, <1>3, MoveFrame
<1>5. /\ pool' \in [Iteration -> Nat] /\ client' \in [Iteration -> Nat]
      /\ \A j \in Iteration \ {i} : pool'[j] = pool[j] /\ client'[j] = client[j]
  BY <1>2 DEF Advances
<1>6. LbTypes'
  BY <1>1, <1>2, <1>4, <1>5, ZenonT(30) DEF LbTypes, OctaviaTypeOK
<1>7. Frame(i) /\ Counters(i)'
  BY <1>1, <1>3, <1>4, <1>5 DEF Frame, Counters, MemberPoints
<1>8. ASSUME Lb(i) \in lbs, NEW q \in 1..NumPools, NEW c \in 1..NumClients,
             q < pool[i] \/ (q = pool[i] /\ c < client[i]) \/ (q = pool[i] /\ c = client[i])
      PROVE  <<q, c>> \in members'[Lb(i)] \cup excused'[Lb(i)]
  <2>1. CASE q = pool[i] /\ c = client[i]
    BY <2>1 DEF Slot
  <2>2. CASE q < pool[i] \/ (q = pool[i] /\ c < client[i])
    BY <1>2, <1>8, <2>2 DEF Filled
  <2> QED
    BY <1>8, <2>1, <2>2
<1>9. CASE /\ client[i] < NumClients /\ client' = [client EXCEPT ![i] = client[i] + 1]
           /\ pc' = [pc EXCEPT ![i] = "lb_member"] /\ pool' = pool
  <2>1. client'[i] = client[i] + 1 /\ pool'[i] = pool[i] /\ pc'[i] = "lb_member"
    BY <1>1, <1>2, <1>9 DEF LbTypes
  <2>2. Filled(i)'
    <3>1. ASSUME NEW q \in 1..NumPools, NEW c \in 1..NumClients,
                 q < pool[i] \/ (q = pool[i] /\ c < client[i] + 1)
          PROVE  q < pool[i] \/ (q = pool[i] /\ c < client[i]) \/ (q = pool[i] /\ c = client[i])
      BY <1>2, <3>1
    <3> QED
      BY <1>1, <1>2, <1>8, <2>1, <3>1 DEF Filled
  <2>3. InRange(i)'
    BY <1>1, <1>2, <1>9, <2>1 DEF InRange
  <2>4. Walks(i)
    BY <1>1, <2>1, <2>2, <2>3 DEF Walks, FillPoints, LbInv, LbSites, LbTypes, OctaviaTypeOK
  <2> QED
    BY <1>6, <1>7, <2>4, WalkOK
<1>10. CASE /\ client[i] = NumClients /\ client' = [client EXCEPT ![i] = 1]
            /\ pool[i] < NumPools /\ pool' = [pool EXCEPT ![i] = pool[i] + 1]
            /\ pc' = [pc EXCEPT ![i] = "lb_listener"]
  <2>1. client'[i] = 1 /\ pool'[i] = pool[i] + 1 /\ pc'[i] = "lb_listener"
    BY <1>1, <1>2, <1>10 DEF LbTypes
  <2>2. Filled(i)'
    <3>1. ASSUME NEW q \in 1..NumPools, NEW c \in 1..NumClients,
                 q < pool[i] + 1 \/ (q = pool[i] + 1 /\ c < 1)
          PROVE  q < pool[i] \/ (q = pool[i] /\ c < client[i]) \/ (q = pool[i] /\ c = client[i])
      BY <1>2, <1>10, <3>1
    <3> QED
      BY <1>1, <1>2, <1>8, <2>1, <3>1 DEF Filled
  <2>3. InRange(i)'
    BY <1>1, <1>2, <1>10, <2>1 DEF InRange
  <2>4. Walks(i)
    BY <1>1, <2>1, <2>2, <2>3 DEF Walks, FillPoints, LbInv, LbSites, LbTypes, OctaviaTypeOK
  <2> QED
    BY <1>6, <1>7, <2>4, WalkOK
<1>11. CASE /\ client[i] = NumClients /\ client' = [client EXCEPT ![i] = 1]
            /\ pool[i] = NumPools /\ pool' = pool
            /\ pc' = [pc EXCEPT ![i] = "lb_check"]
  <2>1. pc'[i] = "lb_check"
    BY <1>1, <1>11 DEF LbTypes
  <2>2. ASSUME Lb(i) \in lbs PROVE Slots \subseteq members'[Lb(i)] \cup excused'[Lb(i)]
    <3>1. ASSUME NEW q \in 1..NumPools, NEW c \in 1..NumClients
          PROVE  q < pool[i] \/ (q = pool[i] /\ c < client[i]) \/ (q = pool[i] /\ c = client[i])
      BY <1>2, <1>11
    <3> QED
      BY <1>8, <2>2, <3>1 DEF Slots
  <2>3. Walks(i)
    BY <1>1, <2>1, <2>2 DEF Walks, CheckPoints, LbInv, LbSites, LbTypes, OctaviaTypeOK
  <2> QED
    BY <1>6, <1>7, <2>3, WalkOK
<1> QED
  BY <1>9, <1>10, <1>11 DEF Advances

LEMMA SlotTyped ==
  ASSUME LbInv, NEW i \in Iteration, pc[i] = "lb_member"
  PROVE  /\ LbTypes /\ Lb(i) \in LoadBalancer /\ Slot(i) \in Slots
         /\ members \in [LoadBalancer -> SUBSET Slots] /\ excused \in [LoadBalancer -> SUBSET Slots]
         /\ pending \in SUBSET LoadBalancer /\ attempts \in [Iteration -> Nat]
         /\ pool \in [Iteration -> Nat]
BY HasLb DEF LbInv, Place, InRange, FillPoints, CreatorPoints, Slot, Slots, LbTypes, OctaviaTypeOK

LEMMA NextSlotAdvances ==
  ASSUME LbInv, NEW i \in Iteration, pc[i] = "lb_member", NextSlot(i)
  PROVE  Advances(i)
<1>1. pc = [pc EXCEPT ![i] = "lb_member"] /\ pool = pool
  BY DEF LbInv, LbTypes
<1> QED
  BY <1>1 DEF NextSlot, Advances, Set, Goto, iterationVars

LEMMA LbMemberOK ==
  ASSUME LbInv, NEW i \in Iteration, LbMember(i), args' = args
  PROVE  LbAfter(i)
<1>1. /\ LbTypes /\ Lb(i) \in LoadBalancer /\ Slot(i) \in Slots /\ pc[i] = "lb_member"
      /\ members \in [LoadBalancer -> SUBSET Slots] /\ excused \in [LoadBalancer -> SUBSET Slots]
      /\ pending \in SUBSET LoadBalancer /\ attempts \in [Iteration -> Nat]
      /\ UNCHANGED <<lbs, pools, sites, tidied>>
  BY SlotTyped DEF LbMember, At
<1>2. CASE TryAgain(i)
  <2>1. pc' = [pc EXCEPT ![i] = "lb_member"]
    BY <1>1, <1>2, StayPut DEF TryAgain
  <2>2. pc[i] \in FillPoints /\ pools' \in [LoadBalancer -> 0..NumPools]
    BY <1>1 DEF FillPoints, LbTypes, OctaviaTypeOK
  <2> QED
    BY <1>1, <1>2, <2>1, <2>2, TriedOK, AttemptsTyped DEF TryAgain, balancer, history, FillPoints
<1>3. CASE NextSlot(i) /\ Excuse(i) /\ UNCHANGED <<pending, members, choice, rounds>>
  <2>1. /\ excused' = [excused EXCEPT ![Lb(i)] = excused[Lb(i)] \cup {Slot(i)}]
        /\ members' = members
    BY <1>3 DEF Excuse
  <2>2. excused' \in [LoadBalancer -> SUBSET Slots] /\ Slot(i) \in excused'[Lb(i)]
        /\ \A l \in LoadBalancer : excused[l] \subseteq excused'[l]
    BY <1>1, <2>1
  <2>3. attempts' \in [Iteration -> Nat]
    BY <1>1, <1>3, AttemptsTyped DEF NextSlot
  <2> QED
    BY <1>1, <1>3, <2>1, <2>2, <2>3, NextSlotAdvances, SlotDoneOK
<1>4. CASE /\ members' = [members EXCEPT ![Lb(i)] = @ \cup {Slot(i)}]
           /\ pending' = pending \cup {Lb(i)}
           /\ NextSlot(i)
           /\ UNCHANGED <<choice, rounds, excused>>
  <2>1. members' \in [LoadBalancer -> SUBSET Slots] /\ Slot(i) \in members'[Lb(i)]
        /\ \A l \in LoadBalancer : members[l] \subseteq members'[l]
    BY <1>1, <1>4
  <2>2. attempts' \in [Iteration -> Nat] /\ pending' \in SUBSET LoadBalancer
    BY <1>1, <1>4, AttemptsTyped DEF NextSlot
  <2> QED
    BY <1>1, <1>4, <2>1, <2>2, NextSlotAdvances, SlotDoneOK
<1> QED
  BY <1>2, <1>3, <1>4 DEF LbMember

LEMMA LbMemberErrorOK ==
  ASSUME LbInv, NEW i \in Iteration, LbMemberError(i), args' = args
  PROVE  LbAfter(i)
<1>1. /\ LbTypes /\ Lb(i) \in LoadBalancer /\ Slot(i) \in Slots /\ pc[i] = "lb_member"
      /\ members \in [LoadBalancer -> SUBSET Slots] /\ excused \in [LoadBalancer -> SUBSET Slots]
      /\ pending \in SUBSET LoadBalancer /\ attempts \in [Iteration -> Nat]
  BY SlotTyped DEF LbMemberError, At
<1>2. /\ excused' = [excused EXCEPT ![Lb(i)] = excused[Lb(i)] \cup {Slot(i)}]
      /\ UNCHANGED <<lbs, pending, pools, members, sites, choice, rounds, tidied>>
  BY DEF LbMemberError, Excuse, balancer
<1>3. excused' \in [LoadBalancer -> SUBSET Slots] /\ Slot(i) \in excused'[Lb(i)]
      /\ \A l \in LoadBalancer : excused[l] \subseteq excused'[l]
  BY <1>1, <1>2
<1>4. attempts' \in [Iteration -> Nat]
  BY <1>1, AttemptsTyped DEF LbMemberError
<1>5. Advances(i)
  <2>1. pc = [pc EXCEPT ![i] = "lb_member"]
    BY <1>1 DEF LbTypes
  <2> QED
    BY <2>1 DEF LbMemberError, Advances, Set
<1> QED
  BY <1>1, <1>2, <1>3, <1>4, <1>5, SlotDoneOK

LEMMA LbCheckOK ==
  ASSUME LbInv, NEW i \in Iteration, LbCheck(i), args' = args
  PROVE  LbAfter(i)
<1>1. /\ LbTypes /\ pc[i] = "lb_check" /\ pc[i] \in CheckPoints /\ pc[i] \in CreatorPoints
      /\ UNCHANGED <<args, lbs, pending, pools, members, made, vips, clientNets, jumps, clients, lb,
                     listed, seen, pool, client, attempts, rounds, excused, tidied>>
  BY DEF LbInv, LbCheck, At, octaviaVars, balancer, sites, choice, counters, history, CheckPoints,
     CreatorPoints
<1>2. PICK p \in {"lb_unjump", "failed"} : pc' = [pc EXCEPT ![i] = p]
  BY DEF LbCheck, Goto
<1>3. /\ pc' = [j \in Iteration |-> pc'[j]] /\ pc'[i] = p
      /\ \A j \in Iteration \ {i} : pc'[j] = pc[j]
  BY <1>1, <1>2, MoveFrame
<1>4. LbTypes'
  BY <1>1, <1>3, HasLb DEF LbTypes, OctaviaTypeOK, Slots, NumPools, NumClients
<1>5. Frame(i) /\ Counters(i)'
  BY <1>1, <1>2, <1>3 DEF Frame, Counters, MemberPoints
<1>6. Lb(i) \notin lbs \/ Slots \subseteq members[Lb(i)] \cup excused[Lb(i)]
  BY <1>1 DEF LbInv, Place
<1>7. Walks(i)
  BY <1>1, <1>2, <1>3, <1>6 DEF Walks, CheckPoints, CreatorPoints, BeforeLb, FillPoints, DeleterPoints
<1> QED
  BY <1>4, <1>5, <1>7, WalkOK

(* What a workload leaves of its locals.                                        *)
LEMMA LeftTyped ==
  ASSUME LbTypes, NEW i \in Iteration, NEW w, w \notin OctaviaPoints, Set(pc, i, w), ForgetLocals(i)
  PROVE  /\ pc' = [pc EXCEPT ![i] = w]
         /\ lb' \in [Iteration -> {<<>>} \cup {<<l>> : l \in LoadBalancer}]
         /\ listed' \in [Iteration -> SUBSET LoadBalancer]
         /\ seen' \in [Iteration -> SUBSET (1..NumClients)]
         /\ {pool', client', attempts', rounds'} \subseteq [Iteration -> Nat]
         /\ \A j \in Iteration \ {i} : lb'[j] = lb[j] /\ pool'[j] = pool[j] /\ client'[j] = client[j]
BY DEF ForgetLocals, Set, LbTypes, OctaviaTypeOK

LEMMA LbUnjumpOK ==
  ASSUME LbInv, NEW i \in Iteration, LbUnjump(i), args' = args
  PROVE  LbAfter(i)
<1>1. /\ LbTypes /\ pc[i] = "lb_unjump" /\ jumps' \subseteq jumps
      /\ UNCHANGED <<args, lbs, pending, pools, members, made, vips, clientNets, clients, excused,
                     tidied>>
  BY DEF LbInv, LbUnjump, At, balancer, history
<1>2. AfterLbCreate \notin OctaviaPoints
  BY LbPoints
<1>3. /\ \E p \in {"lb_networks", AfterLbCreate} : pc' = [pc EXCEPT ![i] = p]
      /\ lb' \in [Iteration -> {<<>>} \cup {<<l>> : l \in LoadBalancer}]
      /\ listed' \in [Iteration -> SUBSET LoadBalancer]
      /\ seen' \in [Iteration -> SUBSET (1..NumClients)]
      /\ {pool', client', attempts', rounds'} \subseteq [Iteration -> Nat]
      /\ \A j \in Iteration \ {i} : lb'[j] = lb[j] /\ pool'[j] = pool[j] /\ client'[j] = client[j]
  <2>1. CASE LeaveWorkload(i, AfterLbCreate)
    BY <1>1, <1>2, <2>1, LeftTyped DEF LeaveWorkload, Goto, Set
  <2>2. CASE /\ Goto(i, "lb_networks") /\ Set(rounds, i, rounds[i] + 1)
             /\ UNCHANGED <<choice, pool, client, attempts>>
    BY <1>1, <2>2 DEF Goto, Set, choice, LbTypes, OctaviaTypeOK
  <2> QED
    BY <2>1, <2>2 DEF LbUnjump
<1>4. PICK p \in {"lb_networks", AfterLbCreate} : pc' = [pc EXCEPT ![i] = p]
  BY <1>3
<1>5. /\ pc' = [j \in Iteration |-> pc'[j]] /\ pc'[i] = p
      /\ \A j \in Iteration \ {i} : pc'[j] = pc[j]
      /\ pc'[i] \notin CreatorPoints \cup DeleterPoints
      /\ pc'[i] \notin OctaviaPoints \ {"lb_networks", "lb_delete"}
      /\ Counters(i)'
  BY <1>1, <1>2, <1>4, GoneOn, LbPoints
<1>6. LbTypes'
  <2>1. \A j \in Iteration : pc'[j] \in OctaviaPoints \ {"lb_networks", "lb_delete"} => lb'[j] # <<>>
    BY <1>1, <1>3, <1>5 DEF LbTypes, OctaviaTypeOK
  <2>2. jumps' \in SUBSET LoadBalancer
    BY <1>1 DEF LbTypes, OctaviaTypeOK
  <2>3. Slots' = Slots /\ NumPools' = NumPools /\ NumClients' = NumClients
    BY <1>1 DEF Slots, NumPools, NumClients
  <2> QED
    BY <1>1, <1>3, <1>5, <2>1, <2>2, <2>3, SMTT(30) DEF LbTypes, OctaviaTypeOK
<1>7. Frame(i) /\ Walks(i)
  BY <1>1, <1>3, <1>5 DEF Frame, Walks
<1> QED
  BY <1>5, <1>6, <1>7, WalkOK

--------------------------------------------------------------------------------
(* create_loadbalancers, before the load balancer is there.                     *)

LEMMA SameSizes ==
  ASSUME args' = args
  PROVE  Slots' = Slots /\ NumPools' = NumPools /\ NumClients' = NumClients
BY DEF Slots, NumPools, NumClients

LEMMA LbRouterOK ==
  ASSUME LbInv, NEW i \in Iteration, LbRouter(i)
  PROVE  LbAfter(i)
<1>1. /\ LbTypes
      /\ pc' = [pc EXCEPT ![i] = "lb_networks"]
      /\ UNCHANGED <<args, lbs, pending, pools, members, made, vips, clientNets, jumps, clients, lb,
                     listed, seen, pool, client, attempts, rounds, excused, tidied>>
  BY DEF LbInv, LbRouter, Goto, octaviaVars, balancer, sites, choice, counters, history
<1>2. /\ pc' = [j \in Iteration |-> pc'[j]] /\ pc'[i] = "lb_networks"
      /\ \A j \in Iteration \ {i} : pc'[j] = pc[j]
      /\ pc'[i] \notin CreatorPoints \cup DeleterPoints
      /\ Counters(i)'
  BY <1>1, GoneOn, LbPoints
<1>3. LbTypes'
  BY <1>1, <1>2 DEF LbTypes, OctaviaTypeOK, Slots, NumPools, NumClients
<1>4. Frame(i) /\ Walks(i)
  BY <1>1, <1>2 DEF Frame, Walks
<1> QED
  BY <1>2, <1>3, <1>4, WalkOK

LEMMA LbNetworksOK ==
  ASSUME LbInv, NEW i \in Iteration, LbNetworks(i), args' = args
  PROVE  LbAfter(i)
<1>1. /\ LbTypes /\ Slots' = Slots /\ NumPools' = NumPools /\ NumClients' = NumClients
      /\ UNCHANGED <<args, lbs, pending, pools, members, jumps, clients, listed, seen, pool, client,
                     attempts, rounds, excused, tidied>>
  BY SameSizes DEF LbInv, LbNetworks, balancer, counters, history
<1>2. CASE Fail(i) /\ UNCHANGED <<made, vips, clientNets, lb>>
  <2>1. Outside(i)
    BY <1>1, <1>2 DEF Outside, Fail, Goto, OctaviaPoints, octaviaVars, balancer, sites, choice,
       counters, history
  <2> QED
    BY <2>1, OutsideOK
<1>3. ASSUME NEW l \in LoadBalancer \ made, made' = made \cup {l},
             vips' = vips \cup {l}, clientNets' = clientNets \cup {l},
             Set(lb, i, <<l>>), Goto(i, "lb_jump")
      PROVE  LbAfter(i)
  <2>1. /\ pc' = [j \in Iteration |-> pc'[j]] /\ pc'[i] = "lb_jump" /\ Lb(i)' = l /\ lb'[i] = <<l>>
        /\ \A j \in Iteration \ {i} : pc'[j] = pc[j] /\ lb'[j] = lb[j]
        /\ lb' = [lb EXCEPT ![i] = <<l>>]
    BY <1>1, <1>3, MoveFrame DEF Set, Goto, Lb, LbTypes, OctaviaTypeOK
  <2>2. LbTypes'
    <3>1. {made', vips', clientNets'} \subseteq SUBSET LoadBalancer
      BY <1>1, <1>3 DEF LbTypes, OctaviaTypeOK
    <3>2. lb' \in [Iteration -> {<<>>} \cup {<<k>> : k \in LoadBalancer}]
      BY <1>1, <2>1 DEF LbTypes, OctaviaTypeOK
    <3>3. \A j \in Iteration : pc'[j] \in OctaviaPoints \ {"lb_networks", "lb_delete"} => lb'[j] # <<>>
      BY <1>1, <2>1 DEF LbTypes, OctaviaTypeOK
    <3> QED
      BY <1>1, <2>1, <3>1, <3>2, <3>3, SMTT(30) DEF LbTypes, OctaviaTypeOK
  <2>3. l \notin lbs \cup tidied /\ clients[l] = 0
    BY <1>3 DEF LbInv, LbSites
  <2>4. LbSites'
    BY <1>1, <1>3 DEF LbInv, LbSites
  <2>5. Place(i)'
    BY <1>1, <1>3, <2>1, <2>3 DEF Place, CreatorPoints, AlonePoints, BeforeLb, DeleterPoints,
       FillPoints, CheckPoints
  <2>6. \A j \in Iteration : pc[j] \in CreatorPoints \cup DeleterPoints => Lb(j) # l
    BY <1>3 DEF LbInv, Place
  <2>7. Joins(i) /\ Counters(i)' /\ Frame(i)
    BY <1>1, <2>1, <2>6 DEF Joins, Counters, Frame, MemberPoints, AlonePoints, CreatorPoints
  <2>8. Effects(i, {l})
    BY <1>1, <1>3, <2>6 DEF Effects, AlonePoints, CreatorPoints
  <2> QED
    BY <1>3, <2>2, <2>4, <2>5, <2>7, <2>8 DEF LbAfter
<1> QED
  BY <1>2, <1>3 DEF LbNetworks

(* Nobody else has the load balancer of an iteration that has one for itself.   *)
LEMMA AloneThere ==
  ASSUME LbInv, NEW i \in Iteration, pc[i] \in AlonePoints, NEW j \in Iteration \ {i}
  PROVE  /\ pc[j] \in AlonePoints => Lb(j) # Lb(i)
         /\ pc[i] \in CreatorPoints /\ pc[j] \in CreatorPoints => Lb(j) # Lb(i)
BY DEF LbInv, Separate

LEMMA LbJumpOK ==
  ASSUME LbInv, NEW i \in Iteration, LbJump(i), args' = args
  PROVE  LbAfter(i)
<1>1. /\ LbTypes /\ Slots' = Slots /\ NumPools' = NumPools /\ NumClients' = NumClients
      /\ UNCHANGED <<args, lbs, pending, pools, members, made, vips, clientNets, clients, lb, listed,
                     seen, pool, client, attempts, rounds, excused, tidied>>
      /\ pc[i] = "lb_jump" /\ pc[i] \in AlonePoints /\ pc[i] \in CreatorPoints
      /\ jumps' = jumps \cup {Lb(i)} /\ pc' = [pc EXCEPT ![i] = "lb_client"]
  BY SameSizes DEF LbInv, LbJump, At, Goto, balancer, choice, counters, history, AlonePoints,
     CreatorPoints, BeforeLb
<1>2. PICK l \in LoadBalancer : l = Lb(i) /\ lb[i] # <<>>
  BY <1>1, HasLb
<1>3. /\ pc' = [j \in Iteration |-> pc'[j]] /\ pc'[i] = "lb_client" /\ Lb(i)' = l
      /\ \A j \in Iteration \ {i} : pc'[j] = pc[j]
  BY <1>1, <1>2, MoveFrame DEF Lb
<1>4. l \in made /\ l \notin lbs \cup tidied /\ clients[l] = 0 /\ NumClients > 0
  <2>1. NumClients > 0
    BY <1>1, OctaviaAssumption DEF LbTypes, OctaviaTypeOK, NumClients
  <2> QED
    BY <1>1, <1>2, <2>1 DEF LbInv, Place
<1>5. LbTypes'
  <2>1. jumps' \in SUBSET LoadBalancer
    BY <1>1, <1>2 DEF LbTypes, OctaviaTypeOK
  <2> QED
    BY <1>1, <1>2, <1>3, <2>1 DEF LbTypes, OctaviaTypeOK
<1>6. LbSites'
  BY <1>1, <1>2, <1>4 DEF LbInv, LbSites
<1>7. Place(i)'
  BY <1>1, <1>3, <1>4 DEF Place, CreatorPoints, AlonePoints, BeforeLb, DeleterPoints, FillPoints,
     CheckPoints
<1>8. Joins(i) /\ Counters(i)' /\ Frame(i)
  BY <1>1, <1>2, <1>3, AloneThere DEF Joins, Counters, Frame, MemberPoints, AlonePoints,
     CreatorPoints, BeforeLb, Lb
<1>9. Effects(i, {l})
  BY <1>1, <1>2, AloneThere DEF Effects
<1> QED
  BY <1>2, <1>5, <1>6, <1>7, <1>8, <1>9 DEF LbAfter

LEMMA LbClientOK ==
  ASSUME LbInv, NEW i \in Iteration, LbClient(i), args' = args
  PROVE  LbAfter(i)
<1>1. /\ LbTypes /\ Slots' = Slots /\ NumPools' = NumPools /\ NumClients' = NumClients
      /\ UNCHANGED <<args, lbs, pending, pools, members, made, vips, clientNets, jumps, lb, listed,
                     seen, pool, client, attempts, rounds, excused, tidied>>
      /\ pc[i] = "lb_client" /\ pc[i] \in AlonePoints /\ pc[i] \in CreatorPoints
      /\ NumClients \in Nat
  BY SameSizes, OctaviaAssumption DEF LbInv, LbClient, At, balancer, choice, counters, history,
     AlonePoints, CreatorPoints, BeforeLb, LbTypes, OctaviaTypeOK, NumClients
<1>2. PICK l \in LoadBalancer : l = Lb(i) /\ lb[i] # <<>>
  BY <1>1, HasLb
<1>3. PICK p \in {"lb_client", "lb_create"} :
        /\ pc' = [pc EXCEPT ![i] = p]
        /\ p = IF clients[l] + 1 < NumClients THEN "lb_client" ELSE "lb_create"
  BY <1>2 DEF LbClient, Goto
<1>4. /\ pc' = [j \in Iteration |-> pc'[j]] /\ pc'[i] = p /\ Lb(i)' = l
      /\ \A j \in Iteration \ {i} : pc'[j] = pc[j]
  BY <1>1, <1>2, <1>3, MoveFrame DEF Lb
<1>5. l \in made /\ l \notin lbs \cup tidied /\ clients[l] < NumClients /\ clients[l] \in Nat
  BY <1>1, <1>2 DEF LbInv, Place, LbTypes, OctaviaTypeOK
<1>6. clients' = [clients EXCEPT ![l] = clients[l] + 1]
  BY <1>2 DEF LbClient
<1>7. LbTypes'
  <2>1. clients' \in [LoadBalancer -> 0..NumClients]
    BY <1>1, <1>5, <1>6 DEF LbTypes, OctaviaTypeOK
  <2> QED
    BY <1>1, <1>2, <1>4, <2>1 DEF LbTypes, OctaviaTypeOK
<1>8. \A k \in LoadBalancer \ {l} : clients'[k] = clients[k]
  BY <1>6 DEF LbInv, LbTypes, OctaviaTypeOK
<1>9. LbSites'
  BY <1>1, <1>5, <1>8 DEF LbInv, LbSites, LbTypes, OctaviaTypeOK
<1>10. clients'[l] = clients[l] + 1
  BY <1>1, <1>6 DEF LbTypes, OctaviaTypeOK
<1>11. Place(i)'
  <2>1. CASE p = "lb_client"
    <3>1. clients'[l] < NumClients
      BY <1>3, <1>10, <2>1
    <3> QED
      BY <1>1, <1>4, <1>5, <2>1, <3>1 DEF Place, CreatorPoints, AlonePoints, BeforeLb, DeleterPoints,
         FillPoints, CheckPoints
  <2>2. CASE p = "lb_create"
    <3>1. clients'[l] = NumClients
      BY <1>1, <1>3, <1>5, <1>10, <2>2
    <3> QED
      BY <1>1, <1>4, <1>5, <2>2, <3>1 DEF Place, CreatorPoints, AlonePoints, BeforeLb, DeleterPoints,
         FillPoints, CheckPoints
  <2> QED
    BY <2>1, <2>2
<1>12. Joins(i) /\ Counters(i)' /\ Frame(i)
  BY <1>1, <1>2, <1>3, <1>4, AloneThere DEF Joins, Counters, Frame, MemberPoints, AlonePoints,
     CreatorPoints, BeforeLb, Lb
<1>13. Effects(i, {l})
  BY <1>1, <1>2, <1>8, AloneThere DEF Effects
<1> QED
  BY <1>2, <1>7, <1>9, <1>11, <1>12, <1>13 DEF LbAfter

LEMMA LbCreateOK ==
  ASSUME LbInv, NEW i \in Iteration, LbCreate(i), args' = args
  PROVE  LbAfter(i)
<1>1. /\ LbTypes /\ Slots' = Slots /\ NumPools' = NumPools /\ NumClients' = NumClients
      /\ UNCHANGED <<args, pools, members, made, vips, clientNets, jumps, clients, lb, listed,
                     seen, attempts, rounds, excused, tidied>>
      /\ pc[i] = "lb_create" /\ pc[i] \in AlonePoints /\ pc[i] \in CreatorPoints
      /\ pc' = [pc EXCEPT ![i] = "lb_wait"]
      /\ pool' = [pool EXCEPT ![i] = 1] /\ client' = [client EXCEPT ![i] = 1]
      /\ NumClients \in Nat \ {0} /\ NumPools \in Nat \ {0}
  <2>1. NumClients \in Nat \ {0} /\ NumPools \in Nat \ {0}
    BY OctaviaAssumption DEF LbInv, LbTypes, OctaviaTypeOK, NumClients, NumPools
  <2> QED
    BY <2>1, SameSizes DEF LbInv, LbCreate, At, Goto, Set, sites, choice, history, AlonePoints,
       CreatorPoints, BeforeLb
<1>2. PICK l \in LoadBalancer : l = Lb(i) /\ lb[i] # <<>>
  BY <1>1, HasLb
<1>3. lbs' = lbs \cup {l} /\ pending' = pending \cup {l}
  BY <1>2 DEF LbCreate
<1>4. /\ pc' = [j \in Iteration |-> pc'[j]] /\ pc'[i] = "lb_wait" /\ Lb(i)' = l
      /\ \A j \in Iteration \ {i} : /\ pc'[j] = pc[j] /\ pool'[j] = pool[j]
                                    /\ client'[j] = client[j]
      /\ pool'[i] = 1 /\ client'[i] = 1
  BY <1>1, <1>2, MoveFrame DEF Lb, LbTypes, OctaviaTypeOK
<1>5. l \in made /\ l \notin lbs \cup tidied /\ clients[l] = NumClients
  BY <1>1, <1>2 DEF LbInv, Place
<1>6. LbTypes'
  <2>1. {lbs', pending'} \subseteq SUBSET LoadBalancer /\ {pool', client'} \subseteq [Iteration -> Nat]
    BY <1>1, <1>3 DEF LbTypes, OctaviaTypeOK
  <2>2. \A j \in Iteration : pc'[j] \in OctaviaPoints \ {"lb_networks", "lb_delete"} => lb'[j] # <<>>
    BY <1>1, <1>2, <1>4 DEF LbTypes, OctaviaTypeOK
  <2> QED
    BY <1>1, <1>4, <2>1, <2>2 DEF LbTypes, OctaviaTypeOK
<1>7. LbSites'
  BY <1>1, <1>3, <1>5 DEF LbInv, LbSites
<1>8. InRange(i)' /\ Filled(i)'
  BY <1>1, <1>4 DEF InRange, Filled
<1>9. Place(i)'
  BY <1>1, <1>4, <1>5, <1>8 DEF Place, CreatorPoints, AlonePoints, BeforeLb, DeleterPoints,
     FillPoints, CheckPoints
<1>10. Joins(i) /\ Counters(i)' /\ Frame(i)
  BY <1>1, <1>2, <1>4, AloneThere DEF Joins, Counters, Frame, MemberPoints, AlonePoints,
     CreatorPoints, BeforeLb, FillPoints, DeleterPoints, Lb
<1>11. Effects(i, {l})
  BY <1>1, <1>2, <1>3, AloneThere DEF Effects
<1> QED
  BY <1>2, <1>6, <1>7, <1>9, <1>10, <1>11 DEF LbAfter

--------------------------------------------------------------------------------
(* delete_loadbalancers.                                                        *)

LEMMA DelLbListOK ==
  ASSUME LbInv, NEW i \in Iteration, DelLbList(i), args' = args
  PROVE  LbAfter(i)
<1>1. /\ LbTypes /\ Slots' = Slots /\ NumPools' = NumPools /\ NumClients' = NumClients
      /\ UNCHANGED <<args, lbs, pending, pools, members, made, vips, clientNets, jumps, clients, lb,
                     seen, pool, client, attempts, rounds, excused, tidied>>
      /\ pc' = [pc EXCEPT ![i] = "lb_delete"] /\ listed' = [listed EXCEPT ![i] = lbs]
  BY SameSizes DEF LbInv, DelLbList, Goto, Set, balancer, sites, counters, history
<1>2. /\ pc' = [j \in Iteration |-> pc'[j]] /\ pc'[i] = "lb_delete"
      /\ \A j \in Iteration \ {i} : pc'[j] = pc[j]
      /\ pc'[i] \notin CreatorPoints \cup DeleterPoints
      /\ Counters(i)'
  BY <1>1, GoneOn, LbPoints
<1>3. LbTypes'
  <2>1. listed' \in [Iteration -> SUBSET LoadBalancer]
    BY <1>1 DEF LbTypes, OctaviaTypeOK
  <2>2. \A j \in Iteration : pc'[j] \in OctaviaPoints \ {"lb_networks", "lb_delete"} => lb'[j] # <<>>
    BY <1>1, <1>2 DEF LbTypes, OctaviaTypeOK
  <2> QED
    BY <1>1, <1>2, <2>1, <2>2 DEF LbTypes, OctaviaTypeOK
<1>4. Frame(i) /\ Walks(i)
  BY <1>1, <1>2 DEF Frame, Walks
<1> QED
  BY <1>2, <1>3, <1>4, WalkOK

LEMMA DelLbOK ==
  ASSUME LbInv, NEW i \in Iteration, DelLb(i), args' = args
  PROVE  LbAfter(i)
<1>1. /\ LbTypes /\ Slots' = Slots /\ NumPools' = NumPools /\ NumClients' = NumClients
      /\ UNCHANGED <<args, pending, made, vips, clientNets, jumps, clients, listed, seen, pool,
                     client, attempts, rounds, excused, tidied>>
  BY SameSizes DEF LbInv, DelLb, sites, counters, history
<1>2. CASE Fail(i) /\ UNCHANGED <<lb, lbs, pools, members>>
  <2>1. Outside(i)
    BY <1>1, <1>2 DEF Outside, Fail, Goto, OctaviaPoints, octaviaVars, balancer, sites, choice,
       counters, history
  <2> QED
    BY <2>1, OutsideOK
<1>3. ASSUME NEW l \in listed[i], Set(lb, i, <<l>>), NEW p, Goto(i, p), p \in {"lb_servers", "failed"}
      PROVE  /\ l \in LoadBalancer /\ Lb(i)' = l
             /\ pc' = [j \in Iteration |-> pc'[j]] /\ pc'[i] = p
             /\ \A j \in Iteration \ {i} : pc'[j] = pc[j] /\ lb'[j] = lb[j]
             /\ lb' \in [Iteration -> {<<>>} \cup {<<k>> : k \in LoadBalancer}]
             /\ \A j \in Iteration : pc'[j] \in OctaviaPoints \ {"lb_networks", "lb_delete"} => lb'[j] # <<>>
             /\ Frame(i) /\ Counters(i)'
  <2>1. l \in LoadBalancer
    BY <1>1 DEF LbTypes, OctaviaTypeOK
  <2>2. /\ pc' = [j \in Iteration |-> pc'[j]] /\ pc'[i] = p
        /\ \A j \in Iteration \ {i} : pc'[j] = pc[j]
    BY <1>1, <1>3, MoveFrame DEF Goto
  <2>3. /\ lb' = [lb EXCEPT ![i] = <<l>>] /\ lb'[i] = <<l>>
        /\ \A j \in Iteration \ {i} : lb'[j] = lb[j]
        /\ lb' \in [Iteration -> {<<>>} \cup {<<k>> : k \in LoadBalancer}]
    BY <1>1, <1>3, <2>1 DEF Set, LbTypes, OctaviaTypeOK
  <2>4. \A j \in Iteration : pc'[j] \in OctaviaPoints \ {"lb_networks", "lb_delete"} => lb'[j] # <<>>
    BY <1>1, <2>2, <2>3 DEF LbTypes, OctaviaTypeOK
  <2> QED
    BY <1>1, <1>3, <2>1, <2>2, <2>3, <2>4 DEF Lb, Frame, Counters, MemberPoints
<1>4. ASSUME NEW l \in listed[i], Set(lb, i, <<l>>), Fail(i), UNCHANGED <<lbs, pools, members>>
      PROVE  LbAfter(i)
  <2>1. Goto(i, "failed")
    BY <1>4 DEF Fail
  <2>2. LbTypes'
    BY <1>1, <1>3, <1>4, <2>1 DEF LbTypes, OctaviaTypeOK
  <2>3. Walks(i)
    BY <1>1, <1>3, <1>4, <2>1 DEF Walks, CreatorPoints, BeforeLb, FillPoints, CheckPoints, DeleterPoints
  <2> QED
    BY <1>3, <1>4, <2>1, <2>2, <2>3, WalkOK
<1>5. ASSUME NEW l \in listed[i], Set(lb, i, <<l>>), Accepts(l), lbs' = lbs \ {l},
             pools' = [pools EXCEPT ![l] = 0], members' = [members EXCEPT ![l] = {}],
             Goto(i, "lb_servers")
      PROVE  LbAfter(i)
  <2>1. /\ l \in LoadBalancer /\ Lb(i)' = l
        /\ pc' = [j \in Iteration |-> pc'[j]] /\ pc'[i] = "lb_servers"
        /\ \A j \in Iteration \ {i} : pc'[j] = pc[j] /\ lb'[j] = lb[j]
        /\ Frame(i) /\ Counters(i)'
    BY <1>3, <1>5
  <2>2. l \in lbs /\ l \in made /\ l \notin tidied /\ clients[l] = NumClients
    BY <1>5, <2>1 DEF Accepts, LbInv, LbSites
  <2>3. LbTypes'
    <3>1. pools' \in [LoadBalancer -> 0..NumPools]
      <4>1. 0 \in 0..NumPools
        BY <1>1, OctaviaAssumption DEF LbTypes, OctaviaTypeOK, NumPools
      <4> QED
        BY <1>1, <1>5, <4>1 DEF LbTypes, OctaviaTypeOK
    <3>2. members' \in [LoadBalancer -> SUBSET Slots] /\ lbs' \in SUBSET LoadBalancer
      BY <1>1, <1>5 DEF LbTypes, OctaviaTypeOK
    <3> QED
      BY <1>1, <1>3, <1>5, <3>1, <3>2, SMTT(30) DEF LbTypes, OctaviaTypeOK
  <2>4. LbSites'
    BY <1>1, <1>5 DEF LbInv, LbSites
  <2>5. Place(i)'
    BY <1>1, <1>5, <2>1, <2>2 DEF Place, CreatorPoints, AlonePoints, BeforeLb, DeleterPoints,
       FillPoints, CheckPoints
  <2>6. \A j \in Iteration : pc[j] \in AlonePoints => Lb(j) # l
    BY <2>2 DEF LbInv, Place
  <2>7. Joins(i)
    BY <2>1, <2>6 DEF Joins, CreatorPoints, BeforeLb, FillPoints, CheckPoints, Lb
  <2>8. Effects(i, {l})
    <3>1. \A k \in lbs \cap lbs' : members'[k] = members[k]
      BY <1>1, <1>5 DEF LbTypes, OctaviaTypeOK
    <3> QED
      BY <1>1, <1>5, <2>6, <3>1 DEF Effects
  <2> QED
    BY <2>1, <2>3, <2>4, <2>5, <2>7, <2>8 DEF LbAfter
<1> QED
  BY <1>2, <1>4, <1>5 DEF DelLb

LEMMA DelLbServersOK ==
  ASSUME LbInv, NEW i \in Iteration, DelLbServers(i), args' = args
  PROVE  LbAfter(i)
<1>1. /\ LbTypes /\ Slots' = Slots /\ NumPools' = NumPools /\ NumClients' = NumClients
      /\ UNCHANGED <<args, lbs, pending, pools, members, made, vips, clientNets, jumps, lb, listed,
                     seen, pool, attempts, rounds, excused, tidied>>
      /\ pc[i] = "lb_servers" /\ pc[i] \in AlonePoints
      /\ pc[i] \in CreatorPoints \cup DeleterPoints
      /\ pc' = [pc EXCEPT ![i] = "lb_vip"]
      /\ NumClients \in Nat \ {0}
  <2>1. NumClients \in Nat \ {0}
    BY OctaviaAssumption DEF LbInv, LbTypes, OctaviaTypeOK, NumClients
  <2> QED
    BY <2>1, SameSizes DEF LbInv, DelLbServers, At, Goto, balancer, choice, history, AlonePoints,
       DeleterPoints
<1>2. PICK l \in LoadBalancer : l = Lb(i) /\ lb[i] # <<>>
  BY <1>1, HasLb
<1>3. clients' = [clients EXCEPT ![l] = 0] /\ client' = [client EXCEPT ![i] = clients[l]]
  BY <1>2 DEF DelLbServers, Set
<1>4. l \in made /\ l \notin lbs \cup tidied /\ clients[l] = NumClients
  BY <1>1, <1>2 DEF LbInv, Place
<1>5. /\ pc' = [j \in Iteration |-> pc'[j]] /\ pc'[i] = "lb_vip" /\ Lb(i)' = l
      /\ \A j \in Iteration \ {i} : pc'[j] = pc[j]
  BY <1>1, <1>2, MoveFrame DEF Lb
<1>6. /\ clients'[l] = 0 /\ \A k \in LoadBalancer \ {l} : clients'[k] = clients[k]
      /\ client'[i] = NumClients /\ \A j \in Iteration \ {i} : client'[j] = client[j]
  BY <1>1, <1>3, <1>4 DEF LbTypes, OctaviaTypeOK
<1>7. LbTypes'
  <2>1. clients' \in [LoadBalancer -> 0..NumClients] /\ client' \in [Iteration -> Nat]
    BY <1>1, <1>3, <1>4 DEF LbTypes, OctaviaTypeOK
  <2>2. \A j \in Iteration : pc'[j] \in OctaviaPoints \ {"lb_networks", "lb_delete"} => lb'[j] # <<>>
    BY <1>1, <1>2, <1>5 DEF LbTypes, OctaviaTypeOK
  <2> QED
    BY <1>1, <1>5, <2>1, <2>2, SMTT(30) DEF LbTypes, OctaviaTypeOK
<1>8. LbSites'
  <2>1. LbSites
    BY DEF LbInv
  <2>2. ASSUME NEW k \in LoadBalancer
        PROVE  /\ k \notin made => clients'[k] = 0
               /\ k \in lbs => clients'[k] = NumClients
               /\ k \in tidied => clients'[k] = 0
    <3>1. CASE k = l
      BY <1>4, <1>6, <3>1
    <3>2. CASE k # l
      BY <1>6, <2>1, <3>2 DEF LbSites
    <3> QED
      BY <3>1, <3>2
  <2>3. tidied \subseteq LoadBalancer
    BY <1>1 DEF LbTypes, OctaviaTypeOK
  <2> QED
    BY <1>1, <2>1, <2>2, <2>3 DEF LbSites
<1>9. Place(i)'
  BY <1>1, <1>4, <1>5, <1>6 DEF Place, CreatorPoints, AlonePoints, BeforeLb, DeleterPoints,
     FillPoints, CheckPoints
<1>10. Joins(i) /\ Counters(i)' /\ Frame(i)
  BY <1>1, <1>2, <1>5, <1>6, AloneThere DEF Joins, Counters, Frame, MemberPoints, AlonePoints,
     CreatorPoints, BeforeLb, FillPoints, CheckPoints, DeleterPoints, Lb
<1>11. Effects(i, {l})
  BY <1>1, <1>2, <1>6, AloneThere DEF Effects
<1> QED
  BY <1>2, <1>7, <1>8, <1>9, <1>10, <1>11 DEF LbAfter

LEMMA DelLbVipOK ==
  ASSUME LbInv, NEW i \in Iteration, DelLbVip(i), args' = args
  PROVE  LbAfter(i)
<1>1. /\ LbTypes /\ Slots' = Slots /\ NumPools' = NumPools /\ NumClients' = NumClients
      /\ UNCHANGED <<args, lbs, pending, pools, members, made, clientNets, jumps, clients, lb, seen,
                     pool, client, attempts, rounds, excused, tidied>>
      /\ pc[i] = "lb_vip" /\ pc[i] \in AlonePoints /\ pc[i] \in CreatorPoints \cup DeleterPoints
  BY SameSizes DEF LbInv, DelLbVip, At, balancer, counters, history, AlonePoints, DeleterPoints
<1>2. CASE Fail(i) /\ UNCHANGED <<vips, listed>>
  <2>1. Outside(i)
    BY <1>1, <1>2 DEF Outside, Fail, Goto, OctaviaPoints, octaviaVars, balancer, sites, choice,
       counters, history
  <2> QED
    BY <2>1, OutsideOK
<1>3. PICK l \in LoadBalancer : l = Lb(i) /\ lb[i] # <<>>
  BY <1>1, HasLb
<1>4. CASE /\ Lb(i) \notin jumps /\ vips' = vips \ {Lb(i)}
           /\ Set(listed, i, listed[i] \ {Lb(i)}) /\ Goto(i, "lb_client_net")
  <2>1. /\ pc' = [j \in Iteration |-> pc'[j]] /\ pc'[i] = "lb_client_net" /\ Lb(i)' = l
        /\ \A j \in Iteration \ {i} : pc'[j] = pc[j]
    BY <1>1, <1>3, <1>4, MoveFrame DEF Lb, Goto
  <2>2. LbTypes'
    <3>1. vips' \in SUBSET LoadBalancer /\ listed' \in [Iteration -> SUBSET LoadBalancer]
      BY <1>1, <1>4 DEF LbTypes, OctaviaTypeOK, Set
    <3>2. \A j \in Iteration : pc'[j] \in OctaviaPoints \ {"lb_networks", "lb_delete"} => lb'[j] # <<>>
      BY <1>1, <1>3, <2>1 DEF LbTypes, OctaviaTypeOK
    <3> QED
      BY <1>1, <2>1, <3>1, <3>2 DEF LbTypes, OctaviaTypeOK
  <2>3. LbSites'
    BY <1>1, <1>4 DEF LbInv, LbSites
  <2>4. l \in made /\ l \notin lbs \cup tidied /\ clients[l] = 0 /\ client[i] > 0
    BY <1>1, <1>3 DEF LbInv, Place
  <2>5. Place(i)'
    BY <1>1, <1>3, <1>4, <2>1, <2>4 DEF Place, CreatorPoints, AlonePoints, BeforeLb, DeleterPoints,
       FillPoints, CheckPoints
  <2>6. Joins(i) /\ Counters(i)' /\ Frame(i)
    BY <1>1, <1>3, <2>1, AloneThere DEF Joins, Counters, Frame, MemberPoints, AlonePoints,
       CreatorPoints, BeforeLb, FillPoints, CheckPoints, DeleterPoints, Lb
  <2>7. Effects(i, {l})
    BY <1>1, <1>3, <1>4, AloneThere DEF Effects
  <2> QED
    BY <1>3, <2>2, <2>3, <2>5, <2>6, <2>7 DEF LbAfter
<1> QED
  BY <1>2, <1>4 DEF DelLbVip

LEMMA DelLbClientNetOK ==
  ASSUME LbInv, NEW i \in Iteration, DelLbClientNet(i), args' = args
  PROVE  LbAfter(i)
<1>1. /\ LbTypes /\ Slots' = Slots /\ NumPools' = NumPools /\ NumClients' = NumClients
      /\ UNCHANGED <<args, lbs, pending, pools, members, made, vips, jumps, clients, excused>>
      /\ pc[i] = "lb_client_net" /\ pc[i] \in AlonePoints
      /\ pc[i] \in CreatorPoints \cup DeleterPoints
  BY SameSizes DEF LbInv, DelLbClientNet, At, balancer, AlonePoints, DeleterPoints
<1>2. CASE Fail(i) /\ UNCHANGED <<clientNets, tidied, choice, counters>>
  <2>1. Outside(i)
    BY <1>1, <1>2 DEF Outside, Fail, Goto, OctaviaPoints, octaviaVars, balancer, sites, choice,
       counters, history
  <2> QED
    BY <2>1, OutsideOK
<1>3. PICK l \in LoadBalancer : l = Lb(i) /\ lb[i] # <<>>
  BY <1>1, HasLb
<1>4. AfterLbDelete \notin OctaviaPoints
  BY LbPoints
<1>5. CASE /\ clientNets' = clientNets \ {Lb(i)} /\ tidied' = tidied \cup {Lb(i)}
           /\ IF rounds[i] + 1 < args.delete_num_lbs
              THEN Goto(i, "lb_delete") /\ Set(rounds, i, rounds[i] + 1)
                   /\ UNCHANGED <<choice, pool, client, attempts>>
              ELSE LeaveWorkload(i, AfterLbDelete)
  <2>1. /\ \E p \in {"lb_delete", AfterLbDelete} : pc' = [pc EXCEPT ![i] = p]
        /\ lb' \in [Iteration -> {<<>>} \cup {<<k>> : k \in LoadBalancer}]
        /\ listed' \in [Iteration -> SUBSET LoadBalancer]
        /\ seen' \in [Iteration -> SUBSET (1..NumClients)]
        /\ {pool', client', attempts', rounds'} \subseteq [Iteration -> Nat]
        /\ \A j \in Iteration \ {i} : lb'[j] = lb[j] /\ pool'[j] = pool[j] /\ client'[j] = client[j]
    <3>1. CASE LeaveWorkload(i, AfterLbDelete)
      BY <1>1, <1>4, <3>1, LeftTyped DEF LeaveWorkload, Goto, Set
    <3>2. CASE /\ Goto(i, "lb_delete") /\ Set(rounds, i, rounds[i] + 1)
               /\ UNCHANGED <<choice, pool, client, attempts>>
      BY <1>1, <3>2 DEF Goto, Set, choice, LbTypes, OctaviaTypeOK
    <3> QED
      BY <1>5, <3>1, <3>2
  <2>2. PICK p \in {"lb_delete", AfterLbDelete} : pc' = [pc EXCEPT ![i] = p]
    BY <2>1
  <2>3. /\ pc' = [j \in Iteration |-> pc'[j]] /\ pc'[i] = p
        /\ \A j \in Iteration \ {i} : pc'[j] = pc[j]
        /\ pc'[i] \notin CreatorPoints \cup DeleterPoints
        /\ pc'[i] \notin OctaviaPoints \ {"lb_networks", "lb_delete"}
        /\ Counters(i)'
    BY <1>1, <1>4, <2>2, GoneOn, LbPoints
  <2>4. LbTypes'
    <3>1. \A j \in Iteration : pc'[j] \in OctaviaPoints \ {"lb_networks", "lb_delete"} => lb'[j] # <<>>
      BY <1>1, <2>1, <2>3 DEF LbTypes, OctaviaTypeOK
    <3>2. clientNets' \in SUBSET LoadBalancer /\ tidied' \in SUBSET LoadBalancer
      BY <1>1, <1>3, <1>5 DEF LbTypes, OctaviaTypeOK
    <3>3. /\ {lbs', pending', made', vips', jumps'} \subseteq SUBSET LoadBalancer
          /\ {members', excused'} \subseteq [LoadBalancer -> SUBSET Slots']
          /\ args' \in LbArgs /\ pools' \in [LoadBalancer -> 0..NumPools']
          /\ clients' \in [LoadBalancer -> 0..NumClients']
      BY <1>1 DEF LbTypes, OctaviaTypeOK
    <3> QED
      BY <1>1, <2>1, <2>3, <3>1, <3>2, <3>3, SMTT(30) DEF LbTypes, OctaviaTypeOK
  <2>5. /\ l \in made /\ l \notin lbs \cup tidied /\ clients[l] = 0
        /\ l \notin jumps \cup vips
    BY <1>1, <1>3 DEF LbInv, Place
  <2>6. LbSites'
    BY <1>1, <1>3, <1>5, <2>5 DEF LbInv, LbSites
  <2>7. Place(i)' /\ Joins(i) /\ Frame(i)
    BY <1>1, <2>1, <2>3 DEF Place, Joins, Frame, AlonePoints, CreatorPoints, BeforeLb, FillPoints,
       CheckPoints, DeleterPoints
  <2>8. Effects(i, {l})
    BY <1>1, <1>3, <1>5, AloneThere DEF Effects
  <2> QED
    BY <2>3, <2>4, <2>6, <2>7, <2>8 DEF LbAfter
<1> QED
  BY <1>2, <1>5 DEF DelLbClientNet

--------------------------------------------------------------------------------
(* delete_members_random_lb: what is there of load balancers stays.             *)

LEMMA MemPickOK ==
  ASSUME LbInv, NEW i \in Iteration, MemPick(i), args' = args
  PROVE  LbAfter(i)
<1>1. /\ LbTypes /\ Slots' = Slots /\ NumPools' = NumPools /\ NumClients' = NumClients
      /\ UNCHANGED <<args, lbs, pending, pools, members, made, vips, clientNets, jumps, clients,
                     listed, seen, client, attempts, rounds, excused, tidied>>
      /\ NumPools \in Nat
  BY SameSizes, OctaviaAssumption DEF LbInv, MemPick, balancer, sites, history, LbTypes,
     OctaviaTypeOK, NumPools
<1>2. CASE Fail(i) /\ UNCHANGED <<lb, pool>>
  <2>1. Outside(i)
    BY <1>1, <1>2 DEF Outside, Fail, Goto, OctaviaPoints, octaviaVars, balancer, sites, choice,
       counters, history
  <2> QED
    BY <2>1, OutsideOK
<1>3. ASSUME NEW l \in lbs, NEW p \in 0..pools[l], Set(lb, i, <<l>>), Set(pool, i, p),
             Goto(i, "mem_wait")
      PROVE  LbAfter(i)
  <2>1. l \in LoadBalancer /\ p \in 0..NumPools
    <3>1. l \in LoadBalancer /\ pools[l] \in 0..NumPools
      BY <1>1 DEF LbTypes, OctaviaTypeOK
    <3> QED
      BY <1>1, <3>1
  <2>2. /\ pc' = [j \in Iteration |-> pc'[j]] /\ pc'[i] = "mem_wait"
        /\ \A j \in Iteration \ {i} : pc'[j] = pc[j]
    BY <1>1, <1>3, MoveFrame DEF Goto
  <2>3. /\ lb' = [lb EXCEPT ![i] = <<l>>] /\ lb'[i] = <<l>>
        /\ pool' = [pool EXCEPT ![i] = p] /\ pool'[i] = p
        /\ \A j \in Iteration \ {i} : lb'[j] = lb[j] /\ pool'[j] = pool[j]
        /\ lb' \in [Iteration -> {<<>>} \cup {<<k>> : k \in LoadBalancer}]
        /\ pool' \in [Iteration -> Nat]
    BY <1>1, <1>3, <2>1 DEF Set, LbTypes, OctaviaTypeOK
  <2>4. LbTypes'
    <3>1. \A j \in Iteration : pc'[j] \in OctaviaPoints \ {"lb_networks", "lb_delete"} => lb'[j] # <<>>
      BY <1>1, <2>2, <2>3 DEF LbTypes, OctaviaTypeOK
    <3> QED
      BY <1>1, <2>2, <2>3, <3>1, SMTT(30) DEF LbTypes, OctaviaTypeOK
  <2>5. Frame(i) /\ Counters(i)'
    BY <1>1, <2>1, <2>2, <2>3 DEF Frame, Counters, MemberPoints
  <2>6. Walks(i)
    BY <1>1, <2>2 DEF Walks, CreatorPoints, BeforeLb, FillPoints, CheckPoints, DeleterPoints
  <2> QED
    BY <2>4, <2>5, <2>6, WalkOK
<1> QED
  BY <1>2, <1>3 DEF MemPick

LEMMA MemberStepOK ==
  ASSUME LbInv, NEW i \in Iteration, pc[i] \in MemberPoints, NEW p \in MemberPoints \cup {"failed"},
         pc' = [pc EXCEPT ![i] = p],
         UNCHANGED <<args, balancer, sites, lb, listed, pool, rounds, history>>,
         seen' \in [Iteration -> SUBSET (1..NumClients)],
         {client', attempts'} \subseteq [Iteration -> Nat],
         \A j \in Iteration \ {i} : client'[j] = client[j],
         Counters(i)'
  PROVE  LbAfter(i)
<1>1. /\ LbTypes /\ Slots' = Slots /\ NumPools' = NumPools /\ NumClients' = NumClients
      /\ UNCHANGED <<args, lbs, pending, pools, members, made, vips, clientNets, jumps, clients, lb,
                     listed, pool, rounds, excused, tidied>>
  BY SameSizes DEF LbInv, balancer, sites, history
<1>2. /\ pc' = [j \in Iteration |-> pc'[j]] /\ pc'[i] = p
      /\ \A j \in Iteration \ {i} : pc'[j] = pc[j]
  BY <1>1, MoveFrame
<1>3. LbTypes'
  <2>1. \A j \in Iteration : pc'[j] \in OctaviaPoints \ {"lb_networks", "lb_delete"} => lb'[j] # <<>>
    BY <1>1, <1>2, HasLb DEF LbTypes, OctaviaTypeOK
  <2> QED
    BY <1>1, <1>2, <2>1 DEF LbTypes, OctaviaTypeOK
<1>4. Frame(i)
  BY <1>1, <1>2 DEF Frame
<1>5. Walks(i)
  BY <1>1, <1>2 DEF Walks, CreatorPoints, BeforeLb, FillPoints, CheckPoints, DeleterPoints,
     MemberPoints
<1> QED
  BY <1>3, <1>4, <1>5, WalkOK

LEMMA MemberTypes ==
  ASSUME LbInv, NEW i \in Iteration
  PROVE  /\ LbTypes /\ seen \in [Iteration -> SUBSET (1..NumClients)]
         /\ {client, attempts} \subseteq [Iteration -> Nat]
BY DEF LbInv, LbTypes, OctaviaTypeOK

LEMMA MemWaitOK ==
  ASSUME LbInv, NEW i \in Iteration, MemWait(i)
  PROVE  LbAfter(i)
<1>1. /\ pc[i] = "mem_wait" /\ pc[i] \in MemberPoints
      /\ UNCHANGED octaviaVars
      /\ \E p \in {"failed", "mem_list"} :
           pc' = [pc EXCEPT ![i] = p] /\ (p = "mem_list" => pool[i] # 0)
  BY DEF MemWait, AwaitActive, At, Goto, Fail, MemberPoints
<1>2. PICK p \in {"failed", "mem_list"} :
        pc' = [pc EXCEPT ![i] = p] /\ (p = "mem_list" => pool[i] # 0)
  BY <1>1
<1>3. UNCHANGED <<args, balancer, sites, lb, listed, seen, pool, client, attempts, rounds, history>>
  BY <1>1 DEF octaviaVars, choice, counters
<1>4. pc'[i] = p /\ NumPools' = NumPools /\ NumPools \in Nat /\ pool[i] \in 0..NumPools
  <2>1. pc'[i] = p
    BY <1>2, MoveFrame DEF LbInv
  <2>2. NumPools \in Nat
    BY OctaviaAssumption DEF LbInv, LbTypes, OctaviaTypeOK, NumPools
  <2> QED
    BY <1>1, <1>3, <2>1, <2>2, SameSizes DEF LbInv, Counters
<1>5. Counters(i)'
  BY <1>2, <1>3, <1>4 DEF Counters, MemberPoints
<1> QED
  BY <1>1, <1>2, <1>3, <1>5, MemberTypes, MemberStepOK DEF MemberPoints

LEMMA MemListOK ==
  ASSUME LbInv, NEW i \in Iteration, MemList(i), args' = args
  PROVE  LbAfter(i)
<1>1. /\ pc[i] = "mem_list" /\ pc[i] \in MemberPoints
      /\ UNCHANGED <<balancer, sites, lb, listed, pool, client, attempts, rounds, history>>
      /\ \E p \in {"failed", "mem_pick"} : pc' = [pc EXCEPT ![i] = p]
      /\ seen' = [seen EXCEPT ![i] = MembersOf(Lb(i), pool[i])]
  BY DEF MemList, At, Goto, Set, MemberPoints, counters
<1>2. PICK p \in {"failed", "mem_pick"} : pc' = [pc EXCEPT ![i] = p]
  BY <1>1
<1>3. seen' \in [Iteration -> SUBSET (1..NumClients)]
  BY <1>1, MemberTypes DEF MembersOf
<1>4. pc'[i] = p /\ NumPools' = NumPools /\ pool[i] \in 1..NumPools
  BY <1>1, <1>2, MoveFrame, SameSizes DEF LbInv, Counters
<1>5. Counters(i)'
  BY <1>1, <1>2, <1>4 DEF Counters, MemberPoints
<1> QED
  BY <1>1, <1>2, <1>3, <1>5, MemberTypes, MemberStepOK DEF MemberPoints

LEMMA MemChooseOK ==
  ASSUME LbInv, NEW i \in Iteration, MemChoose(i), args' = args
  PROVE  LbAfter(i)
<1>1. /\ pc[i] = "mem_pick" /\ pc[i] \in MemberPoints
      /\ UNCHANGED <<balancer, sites, lb, listed, seen, pool, attempts, rounds, history>>
      /\ \/ \E c \in seen[i] : Set(client, i, c) /\ Goto(i, "mem_delete")
         \/ seen[i] = {} /\ Fail(i) /\ UNCHANGED client
  BY DEF MemChoose, At, MemberPoints, choice
<1>2. NumPools' = NumPools /\ NumClients' = NumClients /\ pool[i] \in 1..NumPools
  BY <1>1, SameSizes DEF LbInv, Counters
<1>3. CASE seen[i] = {} /\ Fail(i) /\ UNCHANGED client
  <2>1. Outside(i)
    BY <1>1, <1>3 DEF Outside, Fail, Goto, OctaviaPoints, octaviaVars, choice, counters
  <2> QED
    BY <2>1, OutsideOK
<1>4. ASSUME NEW c \in seen[i], Set(client, i, c), Goto(i, "mem_delete")
      PROVE  LbAfter(i)
  <2>1. /\ client' = [client EXCEPT ![i] = c] /\ pc' = [pc EXCEPT ![i] = "mem_delete"]
        /\ c \in 1..NumClients
    BY <1>4, MemberTypes DEF Set, Goto
  <2>2. /\ client'[i] = c /\ client' \in [Iteration -> Nat]
        /\ \A j \in Iteration \ {i} : client'[j] = client[j]
    <3>1. c \in Nat
      <4>1. NumClients \in Nat
        BY OctaviaAssumption DEF LbInv, LbTypes, OctaviaTypeOK, NumClients
      <4> QED
        BY <2>1, <4>1
    <3> QED
      BY <2>1, <3>1, MemberTypes
  <2>3. pc'[i] = "mem_delete"
    BY <2>1, MoveFrame DEF LbInv
  <2>4. Counters(i)'
    BY <1>1, <1>2, <2>1, <2>2, <2>3 DEF Counters, MemberPoints
  <2> QED
    BY <1>1, <2>1, <2>2, <2>4, MemberTypes, MemberStepOK DEF MemberPoints
<1> QED
  BY <1>1, <1>3, <1>4

(* A round of the deletion is over.                                             *)
LEMMA MemberRoundOK ==
  ASSUME LbInv, NEW i \in Iteration, pc[i] = "mem_delete", RoundOver(i),
         UNCHANGED <<args, lbs, pools, sites, tidied>>,
         pending' \in SUBSET LoadBalancer,
         members' \in [LoadBalancer -> SUBSET Slots], excused' \in [LoadBalancer -> SUBSET Slots],
         \A l \in LoadBalancer : members[l] \cup excused[l] \subseteq members'[l] \cup excused'[l]
  PROVE  LbAfter(i)
<1>1. /\ LbTypes /\ Slots' = Slots /\ NumPools' = NumPools /\ NumClients' = NumClients
      /\ UNCHANGED <<args, lbs, pools, made, vips, clientNets, jumps, clients, tidied>>
  BY SameSizes DEF LbInv, sites
<1>2. AfterMembers \notin OctaviaPoints /\ pc[i] \in MemberPoints
  BY LbPoints DEF MemberPoints
<1>3. /\ lb' \in [Iteration -> {<<>>} \cup {<<l>> : l \in LoadBalancer}]
      /\ listed' \in [Iteration -> SUBSET LoadBalancer]
      /\ seen' \in [Iteration -> SUBSET (1..NumClients)]
      /\ {pool', client', attempts', rounds'} \subseteq [Iteration -> Nat]
      /\ \A j \in Iteration \ {i} : lb'[j] = lb[j] /\ pool'[j] = pool[j] /\ client'[j] = client[j]
      /\ \/ pc' = [pc EXCEPT ![i] = AfterMembers]
         \/ pc' = [pc EXCEPT ![i] = "mem_pick"] /\ lb'[i] = lb[i] /\ pool'[i] = pool[i]
  <2>1. CASE Set(pc, i, AfterMembers) /\ ForgetLocals(i)
    BY <1>1, <1>2, <2>1, LeftTyped
  <2>2. CASE /\ Set(pc, i, "mem_pick")
             /\ Set(rounds, i, rounds[i] + 1) /\ Set(attempts, i, 0)
             /\ UNCHANGED <<choice, pool, client>>
    BY <1>1, <2>2 DEF Set, choice, LbTypes, OctaviaTypeOK
  <2> QED
    BY <2>1, <2>2 DEF RoundOver
<1>4. PICK p \in {"mem_pick", AfterMembers} : pc' = [pc EXCEPT ![i] = p]
  BY <1>3
<1>5. /\ pc' = [j \in Iteration |-> pc'[j]] /\ pc'[i] = p
      /\ \A j \in Iteration \ {i} : pc'[j] = pc[j]
      /\ pc'[i] \notin CreatorPoints \cup DeleterPoints
  <2>1. p \notin CreatorPoints \cup DeleterPoints
    BY <1>2, LbPoints DEF CreatorPoints, BeforeLb, FillPoints, CheckPoints, DeleterPoints
  <2> QED
    BY <1>1, <1>4, <2>1, MoveFrame
<1>6. \/ pc'[i] \notin OctaviaPoints
      \/ pc'[i] = "mem_pick" /\ lb'[i] = lb[i] /\ pool'[i] = pool[i]
  BY <1>1, <1>2, <1>3 DEF LbTypes
<1>7. Counters(i)'
  <2>1. pool[i] \in 1..NumPools
    BY <1>2 DEF LbInv, Counters
  <2> QED
    BY <1>1, <1>6, <2>1, LbPoints DEF Counters, MemberPoints
<1>8. LbTypes'
  <2>1. \A j \in Iteration : pc'[j] \in OctaviaPoints \ {"lb_networks", "lb_delete"} => lb'[j] # <<>>
    BY <1>1, <1>2, <1>3, <1>5, <1>6, HasLb, ZenonT(30) DEF LbTypes, OctaviaTypeOK
  <2> QED
    BY <1>1, <1>3, <1>5, <2>1, SMTT(30) DEF LbTypes, OctaviaTypeOK
<1>9. Frame(i) /\ Walks(i)
  BY <1>1, <1>3, <1>5 DEF Frame, Walks, LbTypes, OctaviaTypeOK
<1> QED
  BY <1>7, <1>8, <1>9, WalkOK

LEMMA MemDeleteOK ==
  ASSUME LbInv, NEW i \in Iteration, MemDelete(i), args' = args
  PROVE  LbAfter(i)
<1>1. /\ LbTypes /\ pc[i] = "mem_delete" /\ pc[i] \in MemberPoints
      /\ UNCHANGED <<lbs, pools, sites, tidied>>
      /\ members \in [LoadBalancer -> SUBSET Slots] /\ excused \in [LoadBalancer -> SUBSET Slots]
      /\ pending \in SUBSET LoadBalancer
  BY DEF LbInv, LbTypes, OctaviaTypeOK, MemDelete, At, MemberPoints
<1>2. /\ Lb(i) \in LoadBalancer /\ Slot(i) \in Slots
      /\ NumPools' = NumPools /\ NumClients' = NumClients
      /\ pool[i] \in 1..NumPools /\ client[i] \in 1..NumClients
  BY <1>1, HasLb, SameSizes DEF LbInv, Counters, Slot, Slots
<1>3. CASE TryAgain(i)
  <2>1. pc' = [pc EXCEPT ![i] = "mem_delete"]
    BY <1>1, <1>3, StayPut DEF TryAgain
  <2>2. attempts' \in [Iteration -> Nat]
    BY <1>1, <1>3, AttemptsTyped DEF TryAgain
  <2>3. UNCHANGED <<balancer, sites, lb, listed, seen, pool, client, rounds, history>>
    BY <1>1, <1>3 DEF TryAgain, choice, history
  <2>4. Counters(i)'
    BY <1>1, <1>2, <2>1, <2>3 DEF Counters, MemberPoints, LbTypes
  <2> QED
    BY <1>1, <2>1, <2>2, <2>3, <2>4, MemberTypes, MemberStepOK DEF MemberPoints
<1>4. CASE NextRound(i) /\ UNCHANGED <<pending, members, excused>>
  BY <1>1, <1>4, MemberRoundOK DEF NextRound
<1>5. CASE /\ members' = [members EXCEPT ![Lb(i)] = @ \ {Slot(i)}]
           /\ pending' = pending \cup {Lb(i)}
           /\ Excuse(i)
           /\ NextRound(i)
  <2>1. members' \in [LoadBalancer -> SUBSET Slots] /\ excused' \in [LoadBalancer -> SUBSET Slots]
    BY <1>1, <1>2, <1>5 DEF Excuse
  <2>2. \A l \in LoadBalancer : members[l] \cup excused[l] \subseteq members'[l] \cup excused'[l]
    <3>1. /\ members'[Lb(i)] = members[Lb(i)] \ {Slot(i)}
          /\ excused'[Lb(i)] = excused[Lb(i)] \cup {Slot(i)}
          /\ \A l \in LoadBalancer \ {Lb(i)} : members'[l] = members[l] /\ excused'[l] = excused[l]
      BY <1>1, <1>2, <1>5 DEF Excuse
    <3> QED
      BY <3>1
  <2> QED
    BY <1>1, <1>2, <1>5, <2>1, <2>2, MemberRoundOK DEF NextRound
<1> QED
  BY <1>3, <1>4, <1>5 DEF MemDelete

LEMMA MemDeleteErrorOK ==
  ASSUME LbInv, NEW i \in Iteration, MemDeleteError(i), args' = args
  PROVE  LbAfter(i)
<1>1. /\ pc[i] = "mem_delete" /\ RoundOver(i)
      /\ UNCHANGED <<lbs, pending, pools, members, sites, excused, tidied>>
  BY DEF MemDeleteError, At, balancer, history
<1>2. /\ members' \in [LoadBalancer -> SUBSET Slots] /\ excused' \in [LoadBalancer -> SUBSET Slots]
      /\ pending' \in SUBSET LoadBalancer
  BY <1>1 DEF LbInv, LbTypes, OctaviaTypeOK
<1> QED
  BY <1>1, <1>2, MemberRoundOK

--------------------------------------------------------------------------------
(* The invariant.                                                               *)

LEMMA OctaviaKeeps ==
  ASSUME LbInv, NEW i \in Iteration, OctaviaStep(i)
  PROVE  LbInv'
<1>1. args' = args
  BY DEF OctaviaStep
<1>2. CASE CreateLoadBalancers(i)
  BY <1>1, <1>2, LbAfterKeeps, LbRouterOK, LbNetworksOK, LbJumpOK, LbClientOK, LbCreateOK, AwaitOK,
     LbListenerOK, LbPoolOK, LbMemberOK, LbMemberErrorOK, LbCheckOK, LbUnjumpOK
     DEF CreateLoadBalancers
<1>3. CASE DeleteLoadBalancers(i)
  BY <1>1, <1>3, LbAfterKeeps, DelLbListOK, DelLbOK, DelLbServersOK, DelLbVipOK, DelLbClientNetOK
     DEF DeleteLoadBalancers
<1>4. CASE DeleteMembers(i)
  BY <1>1, <1>4, LbAfterKeeps, MemPickOK, MemWaitOK, MemListOK, MemChooseOK, MemDeleteOK,
     MemDeleteErrorOK
     DEF DeleteMembers
<1> QED
  BY <1>2, <1>3, <1>4 DEF OctaviaStep

(* Nothing the invariant speaks of but what is pending.                         *)
LEMMA OnlyPending ==
  ASSUME LbInv, pending' \in SUBSET LoadBalancer, pc' = pc,
         UNCHANGED <<args, lbs, pools, members, sites, choice, counters, history>>
  PROVE  LbInv'
<1>1. /\ Slots' = Slots /\ NumPools' = NumPools /\ NumClients' = NumClients
      /\ UNCHANGED <<args, lbs, pools, members, made, vips, clientNets, jumps, clients, lb, listed,
                     seen, pool, client, attempts, rounds, excused, tidied>>
  BY SameSizes DEF sites, choice, counters, history
<1>2. LbTypes'
  BY <1>1 DEF LbInv, LbTypes, OctaviaTypeOK
<1>3. LbSites'
  BY <1>1 DEF LbInv, LbSites
<1>4. ASSUME NEW i \in Iteration PROVE Place(i)' /\ Counters(i)'
  BY <1>1 DEF LbInv, Place, Counters, InRange, Filled, Lb
<1>5. ASSUME NEW i \in Iteration, NEW j \in Iteration, i # j PROVE Separate(i, j)'
  <2>1. Separate(i, j) /\ Lb(i)' = Lb(i) /\ Lb(j)' = Lb(j)
    BY <1>1, <1>5 DEF LbInv, Lb
  <2> QED
    BY <2>1 DEF Separate
<1> QED
  BY <1>2, <1>3, <1>4, <1>5 DEF LbInv

LEMMA LbInit == Init => LbInv
<1> SUFFICES ASSUME Init PROVE LbInv
  OBVIOUS
<1>1. /\ args \in LbArgs
      /\ lbs = {} /\ pending = {} /\ made = {} /\ vips = {} /\ clientNets = {} /\ jumps = {}
      /\ tidied = {}
      /\ members = [l \in LoadBalancer |-> {}] /\ excused = [l \in LoadBalancer |-> {}]
      /\ pools = [l \in LoadBalancer |-> 0] /\ clients = [l \in LoadBalancer |-> 0]
      /\ lb = [i \in Iteration |-> <<>>]
      /\ listed = [i \in Iteration |-> {}] /\ seen = [i \in Iteration |-> {}]
      /\ pool = [i \in Iteration |-> 0] /\ client = [i \in Iteration |-> 0]
      /\ attempts = [i \in Iteration |-> 0] /\ rounds = [i \in Iteration |-> 0]
      /\ pc = [i \in Iteration |-> First]
  BY DEF Init, OctaviaInit, IterationInit
<1>2. First \notin OctaviaPoints
  BY LbPoints, NextWorkload DEF First, Selected, Entries
<1>3. LbTypes
  <2>1. NumPools \in Nat /\ NumClients \in Nat
    BY <1>1, OctaviaAssumption DEF NumPools, NumClients
  <2> QED
    BY <1>1, <1>2, <2>1 DEF LbTypes, OctaviaTypeOK
<1>4. LbSites
  BY <1>1 DEF LbSites
<1>5. ASSUME NEW i \in Iteration PROVE Place(i) /\ Counters(i)
  <2>1. pc[i] \notin OctaviaPoints
    BY <1>1, <1>2
  <2> QED
    BY <2>1 DEF Place, Counters, OctaviaPoints, CreatorPoints, AlonePoints, BeforeLb, DeleterPoints,
       FillPoints, CheckPoints, MemberPoints
<1>6. ASSUME NEW i \in Iteration, NEW j \in Iteration PROVE Separate(i, j)
  <2>1. pc[i] \notin OctaviaPoints
    BY <1>1, <1>2
  <2> QED
    BY <2>1 DEF Separate, OctaviaPoints, CreatorPoints, AlonePoints, BeforeLb, DeleterPoints,
       FillPoints, CheckPoints
<1> QED
  BY <1>3, <1>4, <1>5, <1>6 DEF LbInv

LEMMA LbNext == LbInv /\ [Next]_vars => LbInv'
<1> SUFFICES ASSUME LbInv, [Next]_vars PROVE LbInv'
  OBVIOUS
<1>1. LbTypes
  BY DEF LbInv
<1>2. ASSUME NEW i \in Iteration, Step(i) PROVE LbInv'
  <2>1. CASE OctaviaStep(i)
    BY <2>1, OctaviaKeeps
  <2>2. CASE ProviderStep(i) /\ UNCHANGED octaviaVars
    BY <1>1, <2>2, ProviderIsOutside, OutsideOK, LbAfterKeeps
  <2>3. CASE OcpStep(i) /\ UNCHANGED octaviaVars
    BY <1>1, <2>3, OcpIsOutside, OutsideOK, LbAfterKeeps
  <2> QED
    BY <1>2, <2>1, <2>2, <2>3 DEF Step
<1>3. ASSUME NEW i \in Iteration, Breaks(i) PROVE LbInv'
  BY <1>3, BreaksIsOutside, OutsideOK, LbAfterKeeps
<1>4. ASSUME NEW l \in LoadBalancer, Settles(l) PROVE LbInv'
  <2>1. pending' \in SUBSET LoadBalancer
    BY <1>1, <1>4 DEF Settles, Settle, LbTypes, OctaviaTypeOK
  <2>2. pc' = pc /\ UNCHANGED <<args, lbs, pools, members, sites, choice, counters, history>>
    BY <1>4 DEF Settles, Settle, iterationVars
  <2> QED
    BY <2>1, <2>2, OnlyPending
<1>5. CASE UNCHANGED vars
  <2>1. /\ pc' = pc
        /\ UNCHANGED <<args, lbs, pending, pools, members, sites, choice, counters, history>>
    BY <1>5 DEF vars, iterationVars, octaviaVars, balancer
  <2>2. pending' \in SUBSET LoadBalancer
    BY <1>1, <2>1 DEF LbTypes, OctaviaTypeOK
  <2> QED
    BY <2>1, <2>2, OnlyPending
<1> QED
  BY <1>2, <1>3, <1>4, <1>5 DEF Next, Terminated

LEMMA LbInvariant == Spec => []LbInv
BY LbInit, LbNext, PTL DEF Spec

(***************************************************************************)
(* A load balancer whose deletion went through to its last step leaves no   *)
(* client, jump host or network, and the deletion never finds it without    *)
(* clients, for any iterations that create, delete and list load balancers  *)
(* at the same time with no lock: the creator shows its load balancer only  *)
(* when all its clients are there, and the deletion takes it first.         *)
(***************************************************************************)
THEOREM DeletionLeavesNothing == Spec => []DeletionIsWhole
<1>1. LbInv => DeletionIsWhole
  <2> SUFFICES ASSUME LbInv
               PROVE  /\ \A l \in tidied :
                           clients[l] = 0 /\ l \notin lbs \cup vips \cup clientNets \cup jumps
                      /\ \A i \in Iteration : pc[i] = "lb_client_net" => client[i] > 0
    BY DEF DeletionIsWhole
  <2> QED
    BY DEF LbInv, LbSites, Place
<1> QED
  BY <1>1, LbInvariant, PTL

(***************************************************************************)
(* When its creator checks a load balancer that is still there, each client *)
(* is a member of each pool, or was given up, or was deleted on purpose,    *)
(* for any number of pools, clients, attempts and iterations.               *)
(***************************************************************************)
THEOREM NoMemberMissing == Spec => []MembersAccountedFor
<1>1. LbInv => MembersAccountedFor
  BY DEF LbInv, Place, MembersAccountedFor, CheckPoints
<1> QED
  BY <1>1, LbInvariant, PTL

--------------------------------------------------------------------------------
(* The types of the composition.                                                *)
Points == Entries \cup Stopped \cup NetPoints \cup OctaviaPoints \cup KubePoints

PcTypes == /\ pc \in [Iteration -> Points]
           /\ selected \in Selections
           /\ faults \in 0..MaxFaults

Moves(i) == /\ \E p \in Points : pc' = [pc EXCEPT ![i] = p]
            /\ selected' = selected
            /\ faults' \in 0..MaxFaults

LEMMA ProviderMoves ==
  ASSUME PcTypes, NEW i \in Iteration, ProviderStep(i)
  PROVE  Moves(i)
<1>1. /\ AfterNetCreate \in Points /\ AfterNetBoot \in Points /\ AfterNetDelete \in Points
  BY NextWorkload DEF Points, Stopped
<1>2. /\ pc = [pc EXCEPT ![i] = pc[i]] /\ pc[i] \in Points /\ faults \in 0..MaxFaults
      /\ faults < MaxFaults => faults + 1 \in 0..MaxFaults
  BY FaultsAssumption DEF PcTypes
<1> USE <1>1, <1>2 DEF Moves, At, Goto, Fail, Return, BootOn, ReleaseNet, PickRandom, ShowNet,
                       AcquireNet, iterationVars, Points, Stopped, NetPoints, CreatePoints,
                       BootPoints, DeletePoints
<1>3. CASE NetCreate(i)
  BY <1>3 DEF NetCreate
<1>4. CASE NetAcquire(i)
  BY <1>4 DEF NetAcquire
<1>5. CASE NetSubnet(i)
  BY <1>5 DEF NetSubnet
<1>6. CASE NetBoot(i)
  BY <1>6 DEF NetBoot
<1>7. CASE NetRelease(i)
  BY <1>7 DEF NetRelease
<1>8. CASE BootPick(i)
  BY <1>8 DEF BootPick
<1>9. CASE BootShow(i)
  BY <1>9 DEF BootShow
<1>10. CASE BootAcquire(i)
  BY <1>10 DEF BootAcquire
<1>11. CASE BootServer(i)
  BY <1>11 DEF BootServer
<1>12. CASE BootSubnet(i)
  BY <1>12 DEF BootSubnet
<1>13. CASE BootRelease(i)
  BY <1>13 DEF BootRelease
<1>14. CASE DeletePick(i)
  BY <1>14 DEF DeletePick
<1>15. CASE DeleteShow(i)
  BY <1>15 DEF DeleteShow
<1>16. CASE DeleteAcquire(i)
  BY <1>16 DEF DeleteAcquire
<1>17. CASE DeleteList(i)
  BY <1>17 DEF DeleteList
<1>18. CASE DeleteServer(i)
  BY <1>18 DEF DeleteServer
<1>19. CASE DeleteNetwork(i)
  BY <1>19 DEF DeleteNetwork
<1>20. CASE DeleteRelease(i)
  BY <1>20 DEF DeleteRelease
<1> QED
  BY <1>3, <1>4, <1>5, <1>6, <1>7, <1>8, <1>9, <1>10, <1>11, <1>12, <1>13, <1>14, <1>15, <1>16,
     <1>17, <1>18, <1>19, <1>20
     DEF ProviderStep

LEMMA OctaviaMoves ==
  ASSUME PcTypes, NEW i \in Iteration, OctaviaStep(i)
  PROVE  Moves(i)
<1>1. /\ AfterLbCreate \in Points /\ AfterLbDelete \in Points /\ AfterMembers \in Points
  BY NextWorkload DEF Points, Stopped
<1>2. /\ pc = [pc EXCEPT ![i] = pc[i]] /\ pc[i] \in Points /\ faults \in 0..MaxFaults
      /\ faults < MaxFaults => faults + 1 \in 0..MaxFaults
  BY FaultsAssumption DEF PcTypes
<1> USE <1>1, <1>2 DEF Moves, At, Goto, Fail, LeaveWorkload, AwaitActive, TryAgain, NextSlot,
                       NextRound, RoundOver, ForgetLocals, Set, iterationVars, Points, Stopped, OctaviaPoints
<1>3. CASE LbRouter(i)
  BY <1>3 DEF LbRouter
<1>4. CASE LbNetworks(i)
  BY <1>4 DEF LbNetworks
<1>5. CASE LbJump(i)
  BY <1>5 DEF LbJump
<1>6. CASE LbClient(i)
  BY <1>6 DEF LbClient
<1>7. CASE LbCreate(i)
  BY <1>7 DEF LbCreate
<1>8. CASE LbWait(i)
  BY <1>8 DEF LbWait
<1>9. CASE LbListener(i)
  BY <1>9 DEF LbListener
<1>10. CASE LbWaitListener(i)
  BY <1>10 DEF LbWaitListener
<1>11. CASE LbPool(i)
  BY <1>11 DEF LbPool
<1>12. CASE LbWaitPool(i)
  BY <1>12 DEF LbWaitPool
<1>13. CASE LbMember(i)
  BY <1>13 DEF LbMember
<1>14. CASE LbMemberError(i)
  BY <1>14 DEF LbMemberError
<1>15. CASE LbCheck(i)
  BY <1>15 DEF LbCheck
<1>16. CASE LbUnjump(i)
  BY <1>16 DEF LbUnjump
<1>17. CASE DelLbList(i)
  BY <1>17 DEF DelLbList
<1>18. CASE DelLb(i)
  BY <1>18 DEF DelLb
<1>19. CASE DelLbServers(i)
  BY <1>19 DEF DelLbServers
<1>20. CASE DelLbVip(i)
  BY <1>20 DEF DelLbVip
<1>21. CASE DelLbClientNet(i)
  BY <1>21 DEF DelLbClientNet
<1>22. CASE MemPick(i)
  BY <1>22 DEF MemPick
<1>23. CASE MemWait(i)
  BY <1>23 DEF MemWait
<1>24. CASE MemList(i)
  BY <1>24 DEF MemList
<1>25. CASE MemChoose(i)
  BY <1>25 DEF MemChoose
<1>26. CASE MemDelete(i)
  BY <1>26 DEF MemDelete
<1>27. CASE MemDeleteError(i)
  BY <1>27 DEF MemDeleteError
<1> QED
  BY <1>3, <1>4, <1>5, <1>6, <1>7, <1>8, <1>9, <1>10, <1>11, <1>12, <1>13, <1>14, <1>15, <1>16,
     <1>17, <1>18, <1>19, <1>20, <1>21, <1>22, <1>23, <1>24, <1>25, <1>26, <1>27
     DEF OctaviaStep, CreateLoadBalancers, DeleteLoadBalancers, DeleteMembers

LEMMA OcpMoves ==
  ASSUME PcTypes, NEW i \in Iteration, OcpStep(i)
  PROVE  Moves(i)
<1>1. AfterKubeBurner \in Points
  BY NextWorkload DEF Points, Stopped
<1> QED
  BY <1>1 DEF OcpStep, KubeRead, KubeTruncate, KubeWrite, KubeRun, InstallOcp, Goto, Moves, PcTypes,
              Points, Stopped, KubePoints

(* The script and what was read of it.                                          *)
LEMMA OcpTyped ==
  ASSUME KubeTypeOK, NEW i \in Iteration, OcpStep(i)
  PROVE  KubeTypeOK'
<1>1. ClusterOf[i] \in Content /\ "empty" \in Content
  BY ClusterAssumption DEF Content
<1>2. CASE KubeRead(i)
  BY <1>2 DEF KubeRead, KubeTypeOK
<1>3. CASE KubeTruncate(i)
  BY <1>1, <1>3 DEF KubeTruncate, KubeTypeOK
<1>4. CASE KubeWrite(i)
  BY <1>1, <1>4 DEF KubeWrite, KubeTypeOK
<1>5. CASE KubeRun(i)
  BY <1>5 DEF KubeRun, KubeTypeOK
<1>6. CASE InstallOcp(i)
  BY <1>6 DEF InstallOcp, KubeTypeOK, kubeVars
<1> QED
  BY <1>2, <1>3, <1>4, <1>5, <1>6 DEF OcpStep

LEMMA TypesInit == Init => PcTypes /\ KubeTypeOK
<1>1. First \in Points
  BY NextWorkload DEF Points, Stopped
<1> SUFFICES ASSUME Init PROVE PcTypes /\ KubeTypeOK
  OBVIOUS
<1>2. PcTypes
  BY <1>1, FaultsAssumption DEF Init, IterationInit, PcTypes
<1>3. KubeTypeOK
  BY DEF Init, KubeInit, KubeTypeOK, Content
<1> QED
  BY <1>2, <1>3

LEMMA TypesNext == PcTypes /\ KubeTypeOK /\ [Next]_vars => (PcTypes /\ KubeTypeOK)'
<1> SUFFICES ASSUME PcTypes, KubeTypeOK, [Next]_vars PROVE (PcTypes /\ KubeTypeOK)'
  OBVIOUS
<1>1. ASSUME NEW i \in Iteration, Moves(i) PROVE PcTypes'
  BY <1>1 DEF Moves, PcTypes
<1>2. ASSUME UNCHANGED kubeVars PROVE KubeTypeOK'
  BY <1>2 DEF kubeVars, KubeTypeOK
<1>3. ASSUME NEW i \in Iteration, Step(i) PROVE (PcTypes /\ KubeTypeOK)'
  BY <1>1, <1>2, <1>3, ProviderMoves, OctaviaMoves, OcpMoves, OcpTyped DEF Step
<1>4. ASSUME NEW i \in Iteration, Breaks(i) PROVE (PcTypes /\ KubeTypeOK)'
  <2>1. Moves(i)
    <3>1. faults + 1 \in 0..MaxFaults /\ "failed" \in Points
      BY <1>4, FaultsAssumption DEF Breaks, Raise, PcTypes, Points, Stopped
    <3> QED
      BY <1>4, <3>1 DEF Breaks, Raise, Moves
  <2> QED
    BY <1>1, <1>2, <1>4, <2>1 DEF Breaks
<1>5. CASE UNCHANGED <<iterationVars, kubeVars>>
  BY <1>2, <1>5 DEF iterationVars, PcTypes
<1> QED
  BY <1>3, <1>4, <1>5 DEF Next, Settles, Settle, Terminated, vars

(***************************************************************************)
(* Every variable of the composition keeps its type, for any selections of  *)
(* workloads and numbers of faults: the VMs left to delete are never fewer  *)
(* than none, and past its choice an iteration has something to work on.    *)
(***************************************************************************)
THEOREM TypeCorrect == Spec => []TypeOK
<1>1. NetInv => LockTypeOK /\ ProviderTypeOK
  <2> SUFFICES ASSUME NetInv PROVE LockTypeOK /\ ProviderTypeOK
    OBVIOUS
  <2>1. ASSUME NEW i \in Iteration, pc[i] \in NetPoints PROVE net[i] # <<>>
    <3>1. PICK o \in created : net[i] = <<o>>
      BY <2>1 DEF NetInv, NetTypes
    <3>2. Len(<<o>>) = 1 /\ Len(<<>>) = 0
      OBVIOUS
    <3> QED
      BY <3>1, <3>2
  <2> QED
    BY <2>1 DEF NetInv, NetTypes, ProviderTypeOK
<1>2. LbInv => OctaviaTypeOK
  BY DEF LbInv, LbTypes
<1>3. PcTypes /\ KubeTypeOK /\ LockTypeOK /\ ProviderTypeOK /\ OctaviaTypeOK => TypeOK
  BY DEF TypeOK, PcTypes, Points
<1>4. Spec => [](PcTypes /\ KubeTypeOK)
  BY TypesInit, TypesNext, PTL DEF Spec
<1> QED
  BY <1>1, <1>2, <1>3, <1>4, NetInvariant, LbInvariant, PTL
================================================================================
