--------------------------- MODULE VMWorkload_proofs ---------------------------
(***************************************************************************)
(* Proofs about VMWorkload for any number of iterations and servers, any   *)
(* selection of workloads and any number of faults: its type invariant,    *)
(* the ownership of the lock table's rows, the mutual exclusion they are   *)
(* there for, that the table implements the abstract lock service, and     *)
(* that the workloads use each server alone.                               *)
(***************************************************************************)
EXTENDS VMWorkload, LockTable_proofs, TLAPS

(* Points at which an iteration has one server in hand that it has not locked. *)
UnlockedPoints == {"boot_attach", "boot_ping", "stop_acquire"}

(* What an iteration at l, with c in hand, must hold. *)
Fits(l, c, h) ==
  /\ l \in SinglePoints => Len(c) = 1 /\ c[1].srv \in h
  /\ l \in UnlockedPoints => Len(c) = 1
  /\ l \in SwapPoints => /\ Len(c) = 2
                         /\ c[1].srv # c[2].srv
                         /\ c[1].srv \in h
                         /\ c[2].srv \in h
  /\ l = "swap_release_2" => Len(c) = 2 /\ c[2].srv \in h
  /\ l = "swap_loop" => c = <<>> \/ (Len(c) = 1 /\ c[1].srv \in h)
  /\ l = "swap_list" => c = <<>>

InHand == \A i \in Iteration : Fits(pc[i], cur[i], held[i])

VMInv == TypeOK /\ InHand /\ LockOwnership

(* What every step of i must give. *)
After(i) ==
  /\ TypeOK'
  /\ LockStep(i)
  /\ Fits(pc'[i], cur'[i], held'[i])
  /\ \A j \in Iteration \ {i} : pc'[j] = pc[j] /\ cur'[j] = cur[j]

(* Points where nothing need be in hand. *)
FreePoints == {"done", "failed", "boot", "boot_fip", "delete_list", "delete_loop", "migrate_list",
               "migrate_loop", "stop_list", "stop_loop"}

--------------------------------------------------------------------------------
(* What an iteration has in hand, by the point it is at. *)

LEMMA FreeFits ==
  ASSUME NEW l \in FreePoints, NEW c, NEW h
  PROVE  Fits(l, c, h)
BY DEF Fits, FreePoints, SinglePoints, UnlockedPoints, SwapPoints

LEMMA EmptyFits ==
  ASSUME NEW l \in FreePoints \cup {"swap_list", "swap_loop"}, NEW h
  PROVE  Fits(l, <<>>, h)
BY DEF Fits, FreePoints, SinglePoints, UnlockedPoints, SwapPoints

LEMMA SingleFits ==
  ASSUME NEW l \in SinglePoints, NEW c, NEW h, Len(c) = 1, c[1].srv \in h
  PROVE  Fits(l, c, h)
BY DEF Fits, SinglePoints, UnlockedPoints, SwapPoints

LEMMA UnlockedFits ==
  ASSUME NEW l \in UnlockedPoints, NEW c, NEW h, Len(c) = 1
  PROVE  Fits(l, c, h)
BY DEF Fits, SinglePoints, UnlockedPoints, SwapPoints

LEMMA SwapFits ==
  ASSUME NEW l \in SwapPoints, NEW k \in SwapPoints, NEW c, NEW h, Fits(k, c, h)
  PROVE  Fits(l, c, h)
BY DEF Fits, SinglePoints, UnlockedPoints, SwapPoints

LEMMA OneInHand ==
  ASSUME VMInv, NEW i \in Iteration, pc[i] \in SinglePoints \cup UnlockedPoints
  PROVE  /\ Len(cur[i]) = 1
         /\ Mine(i) \in Entry
         /\ Mine(i).srv \in Object
         /\ Mine(i).fip \in Fip
         /\ pc[i] \in SinglePoints => Mine(i).srv \in held[i]
<1>1. cur[i] \in Seq(Entry) /\ Fits(pc[i], cur[i], held[i])
  BY DEF VMInv, TypeOK, InHand
<1>2. Len(cur[i]) = 1 /\ (pc[i] \in SinglePoints => cur[i][1].srv \in held[i])
  BY <1>1 DEF Fits
<1>3. cur[i][1] \in Entry
  BY <1>1, <1>2
<1> QED
  BY <1>2, <1>3 DEF Mine, Entry

LEMMA TwoInHand ==
  ASSUME VMInv, NEW i \in Iteration, pc[i] \in SwapPoints \cup {"swap_release_2"}
  PROVE  /\ cur[i][1].srv \in Object /\ cur[i][1].fip \in Fip
         /\ cur[i][2].srv \in Object /\ cur[i][2].fip \in Fip
         /\ cur[i][2].srv \in held[i]
         /\ Fits(pc[i], cur[i], held[i])
<1>1. cur[i] \in Seq(Entry) /\ Fits(pc[i], cur[i], held[i])
  BY DEF VMInv, TypeOK, InHand
<1>2. Len(cur[i]) = 2 /\ cur[i][2].srv \in held[i]
  BY <1>1 DEF Fits, SwapPoints
<1>3. cur[i][1] \in Entry /\ cur[i][2] \in Entry
  BY <1>1, <1>2
<1> QED
  BY <1>1, <1>2, <1>3 DEF Entry

--------------------------------------------------------------------------------
(* The operators the actions are made of. *)

(* A step that touches neither the lock table nor what is in hand. *)
LEMMA MoveOK ==
  ASSUME VMInv, NEW i \in Iteration, NEW l \in Points, Goto(i, l),
         UNCHANGED <<locked, held, todo, cur, ops>>,
         status' \in [Object -> Status], address' \in [Object -> Fip], faults' \in Nat,
         Fits(l, cur[i], held[i])
  PROVE  After(i)
<1>1. TypeOK'
  BY DEF VMInv, TypeOK, LockTypeOK, Goto
<1>2. LockStep(i)
  BY DEF LockStep, lockVars
<1>3. pc'[i] = l /\ \A j \in Iteration \ {i} : pc'[j] = pc[j]
  BY DEF VMInv, TypeOK, Goto
<1> QED
  BY <1>1, <1>2, <1>3 DEF After

(* A method returns, with or without releasing a last lock. *)
LEMMA ReturnOK ==
  ASSUME VMInv, NEW i \in Iteration, NEW l \in (FreePoints \cup {"swap_list"}) \cap Points,
         Return(i, l), LockStep(i), LockTypeOK',
         status' \in [Object -> Status], address' \in [Object -> Fip], UNCHANGED faults
  PROVE  After(i)
<1>1. TypeOK'
  <2>1. <<>> \in Seq(Entry)
    OBVIOUS
  <2> QED
    BY <2>1 DEF VMInv, TypeOK, Goto, Return
<1>2. /\ pc'[i] = l /\ cur'[i] = <<>>
      /\ \A j \in Iteration \ {i} : pc'[j] = pc[j] /\ cur'[j] = cur[j]
  BY DEF VMInv, TypeOK, Goto, Return
<1>3. Fits(pc'[i], cur'[i], held'[i])
  BY <1>2, EmptyFits
<1> QED
  BY <1>1, <1>2, <1>3 DEF After

LEMMA NovaCallOK ==
  ASSUME VMInv, NEW i \in Iteration, NEW from \in SinglePoints, NEW to \in SinglePoints \cap Points,
         NEW before, NEW after \in Status,
         NovaCall(i, Mine(i).srv, from, before, after, to)
  PROVE  After(i)
<1>1. /\ pc[i] = from
      /\ UNCHANGED <<locked, held, address, todo, cur, ops, faults>>
  BY DEF NovaCall
<1>2. Len(cur[i]) = 1 /\ Mine(i).srv \in Object /\ Mine(i).srv \in held[i]
  BY <1>1, OneInHand
<1>3. status' \in [Object -> Status]
  BY DEF NovaCall, VMInv, TypeOK
<1>4. Fits(to, cur[i], held[i]) /\ Fits("failed", cur[i], held[i])
  BY <1>2, SingleFits, FreeFits DEF FreePoints, Mine
<1>5. address' \in [Object -> Fip] /\ faults' \in Nat
  BY <1>1 DEF VMInv, TypeOK
<1>6. CASE Goto(i, to)
  BY <1>1, <1>3, <1>4, <1>5, <1>6, MoveOK
<1>7. CASE Goto(i, "failed")
  <2>1. "failed" \in Points
    BY DEF Points, LocalPoints, Stopped
  <2> QED
    BY <2>1, <1>1, <1>3, <1>4, <1>5, <1>7, MoveOK
<1> QED
  BY <1>6, <1>7 DEF NovaCall

LEMMA AwaitPingOK ==
  ASSUME VMInv, NEW i \in Iteration, NEW f, NEW up, NEW from, NEW to \in Points,
         \/ from \in SinglePoints /\ to \in SinglePoints
         \/ from \in SwapPoints /\ to \in SwapPoints,
         AwaitPing(i, f, up, from, to)
  PROVE  After(i)
<1>1. /\ pc[i] = from
      /\ UNCHANGED <<locked, held, status, address, todo, cur, ops, faults>>
      /\ Goto(i, to) \/ Goto(i, "failed")
  BY DEF AwaitPing
<1>2. Fits(to, cur[i], held[i])
  <2>1. CASE from \in SinglePoints /\ to \in SinglePoints
    BY <2>1, <1>1, OneInHand, SingleFits DEF Mine
  <2>2. CASE from \in SwapPoints /\ to \in SwapPoints
    BY <2>2, <1>1, TwoInHand, SwapFits
  <2> QED
    BY <2>1, <2>2
<1>3. "failed" \in Points /\ Fits("failed", cur[i], held[i])
  BY FreeFits DEF Points, LocalPoints, Stopped, FreePoints
<1>4. /\ status' \in [Object -> Status] /\ address' \in [Object -> Fip] /\ faults' \in Nat
  BY <1>1 DEF VMInv, TypeOK
<1> QED
  BY <1>1, <1>2, <1>3, <1>4, MoveOK

LEMMA DissociateOK ==
  ASSUME VMInv, NEW i \in Iteration, NEW f, NEW from \in SwapPoints,
         NEW to \in SwapPoints \cap Points, Dissociate(i, f, from, to)
  PROVE  After(i)
<1>1. /\ pc[i] = from /\ Goto(i, to)
      /\ UNCHANGED <<locked, held, status, todo, cur, ops, faults>>
  BY DEF Dissociate
<1>2. address' \in [Object -> Fip]
  <2>1. NoFip \in Fip /\ \A s \in Object : address[s] \in Fip
    BY DEF Fip, VMInv, TypeOK
  <2> QED
    BY <2>1 DEF Dissociate
<1>3. Fits(to, cur[i], held[i])
  BY <1>1, TwoInHand, SwapFits
<1>4. status' \in [Object -> Status] /\ faults' \in Nat
  BY <1>1 DEF VMInv, TypeOK
<1> QED
  BY <1>1, <1>2, <1>3, <1>4, MoveOK

LEMMA AssociateOK ==
  ASSUME VMInv, NEW i \in Iteration, NEW f \in Fip, NEW s, NEW from, NEW to \in Points,
         Associate(i, f, s, from, to), Fits(to, cur[i], held[i])
  PROVE  After(i)
<1>1. UNCHANGED <<locked, held, status, todo, cur, ops, faults>>
  BY DEF Associate
<1>2. address' \in [Object -> Fip]
  <2>1. NoFip \in Fip /\ \A t \in Object : address[t] \in Fip
    BY DEF Fip, VMInv, TypeOK
  <2>2. CASE address[s] \in {NoFip, f}
    BY <2>1, <2>2 DEF Associate
  <2>3. CASE address[s] \notin {NoFip, f}
    BY <2>3 DEF Associate, VMInv, TypeOK
  <2> QED
    BY <2>2, <2>3
<1>3. Goto(i, to) \/ Goto(i, "failed")
  BY DEF Associate
<1>4. "failed" \in Points /\ Fits("failed", cur[i], held[i])
  BY FreeFits DEF Points, LocalPoints, Stopped, FreePoints
<1>5. status' \in [Object -> Status] /\ faults' \in Nat
  BY <1>1 DEF VMInv, TypeOK
<1> QED
  BY <1>1, <1>2, <1>3, <1>4, <1>5, MoveOK

LEMMA TryListedOK ==
  ASSUME VMInv, NEW i \in Iteration, NEW loop \in FreePoints, NEW body \in SinglePoints \cap Points,
         TryListed(i, loop, body)
  PROVE  After(i)
<1>1. PICK e \in todo[i] :
         /\ todo' = [todo EXCEPT ![i] = @ \ {e}]
         /\ \/ Refused(e.srv) /\ UNCHANGED <<pc, cur>>
            \/ /\ Acquired(i, e.srv)
               /\ cur' = [cur EXCEPT ![i] = <<e>>]
               /\ Goto(i, body)
  BY DEF TryListed
<1>2. e \in Entry /\ e.srv \in Object
  BY DEF VMInv, TypeOK, Entry
<1>3. pc[i] = loop /\ UNCHANGED <<status, address, ops, faults>>
  BY DEF TryListed
<1>4. todo' \in [Iteration -> SUBSET Entry]
  BY <1>1 DEF VMInv, TypeOK
<1>5. CASE Refused(e.srv) /\ UNCHANGED <<pc, cur>>
  <2>1. TypeOK'
    BY <1>3, <1>4, <1>5 DEF VMInv, TypeOK, LockTypeOK, Refused, lockVars
  <2>2. LockStep(i)
    BY <1>5 DEF LockStep, Refused
  <2>3. Fits(pc'[i], cur'[i], held'[i])
    BY <1>3, <1>5, FreeFits
  <2> QED
    BY <1>5, <2>1, <2>2, <2>3 DEF After
<1>6. CASE Acquired(i, e.srv) /\ cur' = [cur EXCEPT ![i] = <<e>>] /\ Goto(i, body)
  <2>1. <<e>> \in Seq(Entry) /\ Len(<<e>>) = 1 /\ <<e>>[1] = e
    BY <1>2
  <2>2. LockTypeOK'
    BY <1>2, <1>6 DEF VMInv, TypeOK, LockTypeOK, Acquired
  <2>3. TypeOK'
    BY <1>3, <1>4, <1>6, <2>1, <2>2 DEF VMInv, TypeOK, Goto
  <2>4. LockStep(i)
    BY <1>2, <1>6 DEF LockStep
  <2>5. /\ pc'[i] = body /\ cur'[i] = <<e>> /\ e.srv \in held'[i]
        /\ \A j \in Iteration \ {i} : pc'[j] = pc[j] /\ cur'[j] = cur[j]
    BY <1>6 DEF VMInv, TypeOK, LockTypeOK, Acquired, Goto
  <2>6. Fits(pc'[i], cur'[i], held'[i])
    BY <2>1, <2>5, SingleFits
  <2> QED
    BY <2>3, <2>4, <2>5, <2>6 DEF After
<1> QED
  BY <1>1, <1>5, <1>6

LEMMA ReleaseListedOK ==
  ASSUME VMInv, NEW i \in Iteration, NEW from \in SinglePoints, NEW loop \in FreePoints \cap Points,
         ReleaseListed(i, from, loop)
  PROVE  After(i)
<1>1. /\ pc[i] = from /\ Release(i, Mine(i).srv) /\ Goto(i, loop)
      /\ ops' = [ops EXCEPT ![i] = @ + 1]
      /\ cur' = [cur EXCEPT ![i] = <<>>]
      /\ UNCHANGED <<status, address, todo, faults>>
  BY DEF ReleaseListed
<1>2. Mine(i).srv \in Object /\ Mine(i).srv \in held[i]
  BY <1>1, OneInHand
<1>3. LockTypeOK' /\ LockStep(i)
  BY <1>1, <1>2 DEF VMInv, TypeOK, LockTypeOK, Release, LockStep
<1>4. TypeOK'
  <2>1. <<>> \in Seq(Entry)
    OBVIOUS
  <2>2. ops' \in [Iteration -> Nat]
    BY <1>1 DEF VMInv, TypeOK
  <2> QED
    BY <1>1, <1>3, <2>1, <2>2 DEF VMInv, TypeOK, Goto
<1>5. /\ pc'[i] = loop
      /\ \A j \in Iteration \ {i} : pc'[j] = pc[j] /\ cur'[j] = cur[j]
  BY <1>1 DEF VMInv, TypeOK, Goto
<1> QED
  BY <1>3, <1>4, <1>5, FreeFits DEF After

LEMMA FinishOK ==
  ASSUME VMInv, NEW i \in Iteration, NEW loop, NEW limit,
         NEW next \in (FreePoints \cup {"swap_list"}) \cap Points, Finish(i, loop, limit, next)
  PROVE  After(i)
<1>1. Return(i, next) /\ UNCHANGED <<locked, held, status, address, faults>>
  BY DEF Finish
<1>2. LockStep(i) /\ LockTypeOK'
  BY <1>1 DEF LockStep, lockVars, VMInv, TypeOK, LockTypeOK
<1>3. status' \in [Object -> Status] /\ address' \in [Object -> Fip]
  BY <1>1 DEF VMInv, TypeOK
<1> QED
  BY <1>1, <1>2, <1>3, ReturnOK

(* The step that begins a loop: whatever is listed, nothing is in hand yet. *)
LEMMA ListOK ==
  ASSUME VMInv, NEW i \in Iteration, NEW S \in SUBSET Object, NEW loop \in Points,
         todo' = [todo EXCEPT ![i] = {[srv |-> s, fip |-> address[s]] : s \in S}],
         Goto(i, loop), Fits(loop, cur[i], held[i]),
         UNCHANGED <<locked, held, status, address, cur, ops, faults>>
  PROVE  After(i)
<1>1. {[srv |-> s, fip |-> address[s]] : s \in S} \in SUBSET Entry
  BY DEF VMInv, TypeOK, Entry
<1>2. TypeOK'
  BY <1>1 DEF VMInv, TypeOK, LockTypeOK, Goto
<1>3. LockStep(i)
  BY DEF LockStep, lockVars
<1>4. pc'[i] = loop /\ \A j \in Iteration \ {i} : pc'[j] = pc[j]
  BY DEF VMInv, TypeOK, Goto
<1> QED
  BY <1>2, <1>3, <1>4 DEF After

LEMMA SampleOK ==
  ASSUME VMInv, NEW i \in Iteration, NEW from, NEW eligible \in SUBSET Object, NEW n,
         NEW loop \in FreePoints \cap Points, Sample(i, from, eligible, n, loop)
  PROVE  After(i)
<1>1. PICK S \in SUBSET eligible :
         todo' = [todo EXCEPT ![i] = {[srv |-> s, fip |-> address[s]] : s \in S}]
  BY DEF Sample
<1>2. Goto(i, loop) /\ UNCHANGED <<locked, held, status, address, cur, ops, faults>>
  BY DEF Sample
<1>3. Fits(loop, cur[i], held[i])
  BY FreeFits
<1>4. S \in SUBSET Object
  BY <1>1
<1> QED
  BY <1>1, <1>2, <1>3, <1>4, ListOK

--------------------------------------------------------------------------------
(* The actions, workload by workload. *)

LEMMA NextWorkload ==
  /\ AfterDelete \in (FreePoints \cup {"swap_list"}) \cap Points
  /\ AfterBootFip \in (FreePoints \cup {"swap_list"}) \cap Points
  /\ AfterMigrate \in (FreePoints \cup {"swap_list"}) \cap Points
  /\ AfterSwap \in (FreePoints \cup {"swap_list"}) \cap Points
  /\ AfterStopStart \in (FreePoints \cup {"swap_list"}) \cap Points
BY DEF AfterDelete, AfterBootFip, AfterMigrate, AfterSwap, AfterStopStart, FreePoints,
       Points, LocalPoints, CallPoints, Stopped

LEMMA RaiseOK ==
  ASSUME VMInv, NEW i \in Iteration, Raise(i)
  PROVE  After(i)
<1>1. /\ Goto(i, "failed") /\ faults' = faults + 1
      /\ UNCHANGED <<locked, held, status, address, todo, cur, ops>>
  BY DEF Raise
<1>2. "failed" \in Points /\ Fits("failed", cur[i], held[i])
  BY FreeFits DEF Points, LocalPoints, Stopped, FreePoints
<1>3. /\ status' \in [Object -> Status] /\ address' \in [Object -> Fip] /\ faults' \in Nat
  BY <1>1 DEF VMInv, TypeOK
<1> QED
  BY <1>1, <1>2, <1>3, MoveOK

LEMMA BootServerOK ==
  ASSUME VMInv, NEW i \in Iteration, BootServer(i)
  PROVE  After(i)
<1>1. pc[i] = "boot" /\ UNCHANGED <<locked, held, address, faults>>
  BY DEF BootServer
<1>2. status' \in [Object -> Status] /\ address' \in [Object -> Fip]
  BY <1>1, ServersAssumption DEF BootServer, VMInv, TypeOK, Status
<1>3. LockStep(i) /\ LockTypeOK'
  BY <1>1 DEF LockStep, lockVars, VMInv, TypeOK, LockTypeOK
<1>4. CASE ops' = [ops EXCEPT ![i] = @ + 1] /\ UNCHANGED <<pc, todo, cur>>
  <2>1. TypeOK'
    BY <1>1, <1>2, <1>3, <1>4 DEF VMInv, TypeOK
  <2>2. Fits(pc'[i], cur'[i], held'[i])
    BY <1>1, <1>4, FreeFits DEF FreePoints
  <2> QED
    BY <1>3, <1>4, <2>1, <2>2 DEF After
<1>5. CASE Return(i, "delete_list")
  <2>1. "delete_list" \in (FreePoints \cup {"swap_list"}) \cap Points
    BY DEF FreePoints, Points, CallPoints
  <2> QED
    BY <1>1, <1>2, <1>3, <1>5, <2>1, ReturnOK
<1> QED
  BY <1>4, <1>5 DEF BootServer

LEMMA DeleteShowOK ==
  ASSUME VMInv, NEW i \in Iteration, DeleteShow(i)
  PROVE  After(i)
<1>1. pc[i] = "delete_show" /\ UNCHANGED <<status, address, todo, ops>>
  BY DEF DeleteShow
<1>2. Len(cur[i]) = 1 /\ Mine(i).srv \in Object /\ Mine(i).srv \in held[i]
  BY <1>1, OneInHand DEF SinglePoints
<1>3. /\ status' \in [Object -> Status] /\ address' \in [Object -> Fip] /\ faults' \in Nat
  BY <1>1 DEF VMInv, TypeOK, DeleteShow
<1>4. CASE Goto(i, "delete_call") /\ UNCHANGED <<locked, held, cur, faults>>
  <2>1. "delete_call" \in Points /\ Fits("delete_call", cur[i], held[i])
    BY <1>2, SingleFits DEF Points, CallPoints, SinglePoints, Mine
  <2> QED
    BY <1>1, <1>3, <1>4, <2>1, MoveOK
<1>5. CASE PassOver(i)
  <2> USE DEF PassOver
  <2>1. LockTypeOK' /\ LockStep(i)
    BY <1>2, <1>5 DEF VMInv, TypeOK, LockTypeOK, Release, LockStep
  <2>2. <<>> \in Seq(Entry) /\ "delete_loop" \in Points
    BY DEF Points, LocalPoints
  <2>3. TypeOK'
    BY <1>1, <1>3, <1>5, <2>1, <2>2 DEF VMInv, TypeOK, Goto
  <2>4. /\ pc'[i] = "delete_loop"
        /\ \A j \in Iteration \ {i} : pc'[j] = pc[j] /\ cur'[j] = cur[j]
    BY <1>5 DEF VMInv, TypeOK, Goto
  <2>5. Fits(pc'[i], cur'[i], held'[i])
    BY <2>4, FreeFits DEF FreePoints
  <2> QED
    BY <2>1, <2>3, <2>4, <2>5 DEF After
<1> QED
  BY <1>4, <1>5 DEF DeleteShow

LEMMA DeleteServersOK ==
  ASSUME VMInv, NEW i \in Iteration, DeleteServers(i)
  PROVE  After(i)
<1> USE DEF FreePoints, SinglePoints, Points, LocalPoints, CallPoints, Status
<1>1. CASE BootServer(i)
  BY <1>1, BootServerOK
<1>2. CASE DeleteList(i)
  <2>1. ActiveOf(Plain) \in SUBSET Object
    BY ServersAssumption DEF ActiveOf
  <2> QED
    BY <1>2, <2>1, SampleOK DEF DeleteList
<1>3. CASE DeleteTry(i)
  BY <1>3, TryListedOK DEF DeleteTry
<1>4. CASE DeleteShow(i)
  BY <1>4, DeleteShowOK
<1>5. CASE DeleteCall(i)
  BY <1>5, NovaCallOK DEF DeleteCall
<1>6. CASE DeleteRelease(i)
  BY <1>6, ReleaseListedOK DEF DeleteRelease
<1>7. CASE DeleteFinish(i)
  <2>1. Return(i, AfterDelete) /\ UNCHANGED <<locked, held, status, address, faults>>
    BY <1>7 DEF DeleteFinish
  <2>2. /\ LockStep(i) /\ LockTypeOK'
        /\ status' \in [Object -> Status] /\ address' \in [Object -> Fip]
    BY <2>1 DEF LockStep, lockVars, VMInv, TypeOK, LockTypeOK
  <2> QED
    BY <2>1, <2>2, NextWorkload, ReturnOK
<1> QED
  BY <1>1, <1>2, <1>3, <1>4, <1>5, <1>6, <1>7 DEF DeleteServers

LEMMA BootWithFipOK ==
  ASSUME VMInv, NEW i \in Iteration, BootWithFip(i)
  PROVE  After(i)
<1>1. PICK s \in Addressed :
         /\ status' = [status EXCEPT ![s] = "ACTIVE"]
         /\ cur' = [cur EXCEPT ![i] = <<[srv |-> s, fip |-> s]>>]
  BY DEF BootWithFip
<1>2. Goto(i, "boot_attach") /\ UNCHANGED <<locked, held, address, todo, ops, faults>>
  BY DEF BootWithFip
<1> DEFINE c == <<[srv |-> s, fip |-> s]>>
<1>3. c \in Seq(Entry) /\ Len(c) = 1
  BY ServersAssumption DEF Entry, Fip
<1> HIDE DEF c
<1>4. "boot_attach" \in Points /\ "ACTIVE" \in Status
  BY DEF Points, CallPoints, Status
<1>5. TypeOK'
  BY <1>1, <1>2, <1>3, <1>4 DEF VMInv, TypeOK, LockTypeOK, Goto, c
<1>6. LockStep(i)
  BY <1>2 DEF LockStep, lockVars
<1>7. /\ pc'[i] = "boot_attach" /\ cur'[i] = c
      /\ \A j \in Iteration \ {i} : pc'[j] = pc[j] /\ cur'[j] = cur[j]
  BY <1>1, <1>2 DEF VMInv, TypeOK, Goto, c
<1>8. Fits(pc'[i], cur'[i], held'[i])
  BY <1>3, <1>7, UnlockedFits DEF UnlockedPoints
<1> QED
  BY <1>5, <1>6, <1>7, <1>8 DEF After

LEMMA BootPingOK ==
  ASSUME VMInv, NEW i \in Iteration, BootPing(i)
  PROVE  After(i)
<1>1. UNCHANGED <<locked, held, status, address, faults>>
  BY DEF BootPing
<1>2. /\ LockStep(i) /\ LockTypeOK'
      /\ status' \in [Object -> Status] /\ address' \in [Object -> Fip] /\ faults' \in Nat
  BY <1>1 DEF LockStep, lockVars, VMInv, TypeOK, LockTypeOK
<1>3. CASE Goto(i, "failed") /\ UNCHANGED <<todo, cur, ops>>
  <2>1. "failed" \in Points /\ Fits("failed", cur[i], held[i])
    BY FreeFits DEF Points, LocalPoints, Stopped, FreePoints
  <2> QED
    BY <1>1, <1>2, <1>3, <2>1, MoveOK
<1>4. CASE /\ ops' = [ops EXCEPT ![i] = @ + 1]
           /\ cur' = [cur EXCEPT ![i] = <<>>]
           /\ Goto(i, "boot_fip")
           /\ UNCHANGED todo
  <2>1. <<>> \in Seq(Entry) /\ "boot_fip" \in Points
    BY DEF Points, CallPoints
  <2>2. TypeOK'
    BY <1>1, <1>2, <1>4, <2>1 DEF VMInv, TypeOK, Goto
  <2>3. /\ pc'[i] = "boot_fip"
        /\ \A j \in Iteration \ {i} : pc'[j] = pc[j] /\ cur'[j] = cur[j]
    BY <1>4 DEF VMInv, TypeOK, Goto
  <2>4. Fits(pc'[i], cur'[i], held'[i])
    BY <2>3, FreeFits DEF FreePoints
  <2> QED
    BY <1>2, <2>2, <2>3, <2>4 DEF After
<1>5. CASE Return(i, AfterBootFip)
  BY <1>1, <1>2, <1>5, NextWorkload, ReturnOK
<1> QED
  BY <1>3, <1>4, <1>5 DEF BootPing

LEMMA BootServersWithFipOK ==
  ASSUME VMInv, NEW i \in Iteration, BootServersWithFip(i)
  PROVE  After(i)
<1>1. CASE BootWithFip(i)
  BY <1>1, BootWithFipOK
<1>2. CASE BootAttach(i)
  <2>1. pc[i] = "boot_attach"
    BY <1>2 DEF BootAttach, Associate
  <2>2. Mine(i).fip \in Fip /\ Len(cur[i]) = 1
    BY <2>1, OneInHand DEF UnlockedPoints
  <2>3. Fits("boot_ping", cur[i], held[i]) /\ "boot_ping" \in Points
    BY <2>2, UnlockedFits DEF UnlockedPoints, Points, CallPoints
  <2> QED
    BY <1>2, <2>2, <2>3, AssociateOK DEF BootAttach
<1>3. CASE BootPing(i)
  BY <1>3, BootPingOK
<1> QED
  BY <1>1, <1>2, <1>3 DEF BootServersWithFip

LEMMA MigrateServersOK ==
  ASSUME VMInv, NEW i \in Iteration, MigrateServers(i)
  PROVE  After(i)
<1> USE DEF FreePoints, SinglePoints, Points, LocalPoints, CallPoints, Status
<1>1. CASE MigrateList(i)
  <2>1. WithFip \in SUBSET Object
    BY ServersAssumption DEF WithFip, ActiveOf
  <2> QED
    BY <1>1, <2>1, SampleOK DEF MigrateList
<1>2. CASE MigrateTry(i)
  BY <1>2, TryListedOK DEF MigrateTry
<1>3. CASE MigratePingBefore(i)
  BY <1>3, AwaitPingOK DEF MigratePingBefore
<1>4. CASE MigrateCall(i)
  BY <1>4, NovaCallOK DEF MigrateCall
<1>5. CASE MigrateWait(i)
  BY <1>5, NovaCallOK DEF MigrateWait
<1>6. CASE MigrateConfirm(i)
  BY <1>6, NovaCallOK DEF MigrateConfirm
<1>7. CASE MigratePingAfter(i)
  BY <1>7, AwaitPingOK DEF MigratePingAfter
<1>8. CASE MigrateRelease(i)
  BY <1>8, ReleaseListedOK DEF MigrateRelease
<1>9. CASE MigrateFinish(i)
  BY <1>9, FinishOK, NextWorkload DEF MigrateFinish
<1> QED
  BY <1>1, <1>2, <1>3, <1>4, <1>5, <1>6, <1>7, <1>8, <1>9 DEF MigrateServers

LEMMA SwapTryOK ==
  ASSUME VMInv, NEW i \in Iteration, SwapTry(i)
  PROVE  After(i)
<1>1. PICK e \in todo[i] :
         /\ todo' = [todo EXCEPT ![i] = @ \ {e}]
         /\ \/ Refused(e.srv) /\ UNCHANGED <<pc, cur>>
            \/ /\ Acquired(i, e.srv)
               /\ cur' = [cur EXCEPT ![i] = Append(@, e)]
               /\ Goto(i, IF Len(cur[i]) = 1 THEN "swap_off_1" ELSE "swap_loop")
  BY DEF SwapTry
<1>2. e \in Entry /\ e.srv \in Object
  BY DEF VMInv, TypeOK, Entry
<1>3. pc[i] = "swap_loop" /\ UNCHANGED <<status, address, ops, faults>>
  BY DEF SwapTry
<1>4. todo' \in [Iteration -> SUBSET Entry]
  BY <1>1 DEF VMInv, TypeOK
<1>5. /\ cur[i] \in Seq(Entry)
      /\ cur[i] = <<>> \/ (Len(cur[i]) = 1 /\ cur[i][1].srv \in held[i])
  BY <1>3 DEF VMInv, TypeOK, InHand, Fits
<1>6. CASE Refused(e.srv) /\ UNCHANGED <<pc, cur>>
  <2>1. TypeOK'
    BY <1>3, <1>4, <1>6 DEF VMInv, TypeOK, LockTypeOK, Refused, lockVars
  <2>2. LockStep(i)
    BY <1>6 DEF LockStep, Refused
  <2>3. Fits(pc'[i], cur'[i], held'[i])
    BY <1>6 DEF VMInv, InHand, Refused, lockVars
  <2> QED
    BY <1>6, <2>1, <2>2, <2>3 DEF After
<1>7. CASE /\ Acquired(i, e.srv)
           /\ cur' = [cur EXCEPT ![i] = Append(@, e)]
           /\ Goto(i, IF Len(cur[i]) = 1 THEN "swap_off_1" ELSE "swap_loop")
  <2>1. /\ Append(cur[i], e) \in Seq(Entry)
        /\ Len(Append(cur[i], e)) = Len(cur[i]) + 1
        /\ Append(cur[i], e)[Len(cur[i]) + 1] = e
    BY <1>2, <1>5
  <2>2. {"swap_off_1", "swap_loop"} \subseteq Points
    BY DEF Points, CallPoints
  <2>3. LockTypeOK'
    BY <1>2, <1>7 DEF VMInv, TypeOK, LockTypeOK, Acquired
  <2>4. TypeOK'
    BY <1>3, <1>4, <1>7, <2>1, <2>2, <2>3 DEF VMInv, TypeOK, Goto
  <2>5. LockStep(i)
    BY <1>2, <1>7 DEF LockStep
  <2>6. /\ pc'[i] = IF Len(cur[i]) = 1 THEN "swap_off_1" ELSE "swap_loop"
        /\ cur'[i] = Append(cur[i], e)
        /\ held'[i] = held[i] \cup {e.srv}
        /\ \A j \in Iteration \ {i} : pc'[j] = pc[j] /\ cur'[j] = cur[j]
    BY <1>7 DEF VMInv, TypeOK, LockTypeOK, Acquired, Goto
  <2>7. CASE cur[i] = <<>>
    <3>1. Len(cur[i]) = 0
      BY <2>7
    <3>2. pc'[i] = "swap_loop" /\ Len(cur'[i]) = 1 /\ cur'[i][1] = e
      BY <3>1, <2>1, <2>6
    <3>3. cur'[i][1].srv \in held'[i]
      BY <3>2, <2>6
    <3>4. Fits(pc'[i], cur'[i], held'[i])
      BY <3>2, <3>3 DEF Fits, SinglePoints, UnlockedPoints, SwapPoints
    <3> QED
      BY <2>4, <2>5, <2>6, <3>4 DEF After
  <2>8. CASE Len(cur[i]) = 1 /\ cur[i][1].srv \in held[i]
    <3>1. /\ pc'[i] = "swap_off_1"
          /\ Len(cur'[i]) = 2
          /\ cur'[i][2] = e
      BY <2>1, <2>6, <2>8
    <3>2. cur'[i][1] = cur[i][1]
      BY <1>2, <1>5, <2>6, <2>8
    <3>3. e.srv \notin held[i]
      BY <1>7 DEF Acquired, VMInv, LockOwnership
    <3>4. Fits("swap_off_1", cur'[i], held'[i])
      BY <2>6, <2>8, <3>1, <3>2, <3>3 DEF Fits, SinglePoints, UnlockedPoints
    <3> QED
      BY <2>4, <2>5, <2>6, <3>1, <3>4 DEF After
  <2> QED
    BY <1>5, <2>7, <2>8
<1> QED
  BY <1>1, <1>6, <1>7

LEMMA SwapRelease1OK ==
  ASSUME VMInv, NEW i \in Iteration, SwapRelease1(i)
  PROVE  After(i)
<1>1. /\ pc[i] = "swap_release_1" /\ Release(i, cur[i][1].srv) /\ Goto(i, "swap_release_2")
      /\ UNCHANGED <<status, address, todo, cur, ops, faults>>
  BY DEF SwapRelease1
<1>2. /\ cur[i][1].srv \in Object
      /\ Fits("swap_release_1", cur[i], held[i])
  BY <1>1, TwoInHand DEF SwapPoints
<1>3. /\ Len(cur[i]) = 2 /\ cur[i][1].srv # cur[i][2].srv
      /\ cur[i][1].srv \in held[i] /\ cur[i][2].srv \in held[i]
  BY <1>2 DEF Fits, SwapPoints
<1>4. LockTypeOK' /\ LockStep(i)
  BY <1>1, <1>2, <1>3 DEF VMInv, TypeOK, LockTypeOK, Release, LockStep
<1>5. "swap_release_2" \in Points
  BY DEF Points, LocalPoints
<1>6. TypeOK'
  BY <1>1, <1>4, <1>5 DEF VMInv, TypeOK, Goto
<1>7. /\ pc'[i] = "swap_release_2"
      /\ held'[i] = held[i] \ {cur[i][1].srv}
      /\ \A j \in Iteration \ {i} : pc'[j] = pc[j] /\ cur'[j] = cur[j]
  BY <1>1 DEF VMInv, TypeOK, LockTypeOK, Release, Goto
<1>8. Fits("swap_release_2", cur[i], held'[i])
  BY <1>3, <1>7 DEF Fits, SinglePoints, UnlockedPoints, SwapPoints
<1> QED
  BY <1>1, <1>4, <1>6, <1>7, <1>8 DEF After

LEMMA SwapFloatingIpsOK ==
  ASSUME VMInv, NEW i \in Iteration, SwapFloatingIps(i)
  PROVE  After(i)
<1> USE DEF SwapPoints, Points, LocalPoints, CallPoints
<1>1. CASE SwapList(i)
  <2> DEFINE S == {t \in Addressed : address[t] # NoFip}
  <2>1. S \in SUBSET Object
    BY ServersAssumption
  <2>2. cur[i] = <<>>
    BY <1>1 DEF SwapList, VMInv, InHand, Fits
  <2>3. Fits("swap_loop", cur[i], held[i])
    BY <2>2, EmptyFits
  <2>4. /\ todo' = [todo EXCEPT ![i] = {[srv |-> s, fip |-> address[s]] : s \in S}]
        /\ Goto(i, "swap_loop")
        /\ UNCHANGED <<locked, held, status, address, cur, ops, faults>>
    BY <1>1 DEF SwapList
  <2> HIDE DEF S
  <2> QED
    BY <2>1, <2>3, <2>4, ListOK
<1>2. CASE SwapTry(i)
  BY <1>2, SwapTryOK
<1>3. CASE SwapShort(i)
  <2>1. Return(i, AfterSwap) /\ UNCHANGED <<locked, held, status, address, faults>>
    BY <1>3 DEF SwapShort
  <2>2. /\ LockStep(i) /\ LockTypeOK'
        /\ status' \in [Object -> Status] /\ address' \in [Object -> Fip]
    BY <2>1 DEF LockStep, lockVars, VMInv, TypeOK, LockTypeOK
  <2> QED
    BY <2>1, <2>2, NextWorkload, ReturnOK
<1>4. CASE SwapOff1(i)
  BY <1>4, DissociateOK DEF SwapOff1
<1>5. CASE SwapOff2(i)
  BY <1>5, DissociateOK DEF SwapOff2
<1>6. CASE SwapDown1(i)
  BY <1>6, AwaitPingOK DEF SwapDown1
<1>7. CASE SwapDown2(i)
  BY <1>7, AwaitPingOK DEF SwapDown2
<1>8. CASE SwapOn1(i)
  <2>1. pc[i] = "swap_on_1"
    BY <1>8 DEF SwapOn1, Associate
  <2>2. cur[i][1].fip \in Fip /\ Fits("swap_on_2", cur[i], held[i])
    BY <2>1, TwoInHand, SwapFits
  <2> QED
    BY <1>8, <2>2, AssociateOK DEF SwapOn1
<1>9. CASE SwapOn2(i)
  <2>1. pc[i] = "swap_on_2"
    BY <1>9 DEF SwapOn2, Associate
  <2>2. cur[i][2].fip \in Fip /\ Fits("swap_up_2", cur[i], held[i])
    BY <2>1, TwoInHand, SwapFits
  <2> QED
    BY <1>9, <2>2, AssociateOK DEF SwapOn2
<1>10. CASE SwapUp1(i)
  BY <1>10, AwaitPingOK DEF SwapUp1
<1>11. CASE SwapUp2(i)
  BY <1>11, AwaitPingOK DEF SwapUp2
<1>12. CASE SwapRelease1(i)
  BY <1>12, SwapRelease1OK
<1>13. CASE SwapRelease2(i)
  <2>1. /\ pc[i] = "swap_release_2" /\ Release(i, cur[i][2].srv) /\ Return(i, AfterSwap)
        /\ UNCHANGED <<status, address, faults>>
    BY <1>13 DEF SwapRelease2
  <2>2. cur[i][2].srv \in Object /\ cur[i][2].srv \in held[i]
    BY <2>1, TwoInHand
  <2>3. /\ LockTypeOK' /\ LockStep(i)
        /\ status' \in [Object -> Status] /\ address' \in [Object -> Fip]
    BY <2>1, <2>2 DEF VMInv, TypeOK, LockTypeOK, Release, LockStep
  <2> QED
    BY <2>1, <2>3, NextWorkload, ReturnOK
<1> QED
  BY <1>1, <1>2, <1>3, <1>4, <1>5, <1>6, <1>7, <1>8, <1>9, <1>10, <1>11, <1>12, <1>13
  DEF SwapFloatingIps

LEMMA StopShowOK ==
  ASSUME VMInv, NEW i \in Iteration, StopShow(i)
  PROVE  After(i)
<1>1. PICK e \in todo[i] :
         /\ todo' = [todo EXCEPT ![i] = @ \ {e}]
         /\ cur' = [cur EXCEPT ![i] = <<[e EXCEPT !.fip = address[e.srv]]>>]
  BY DEF StopShow
<1>2. Goto(i, "stop_acquire") /\ UNCHANGED <<locked, held, status, address, ops, faults>>
  BY DEF StopShow
<1> DEFINE c == <<[e EXCEPT !.fip = address[e.srv]]>>
<1>3. c \in Seq(Entry) /\ Len(c) = 1
  <2>1. e \in Entry
    BY DEF VMInv, TypeOK
  <2>2. address[e.srv] \in Fip
    BY <2>1 DEF VMInv, TypeOK, Entry
  <2>3. [e EXCEPT !.fip = address[e.srv]] \in Entry
    BY <2>1, <2>2 DEF Entry
  <2> QED
    BY <2>3
<1> HIDE DEF c
<1>4. todo' \in [Iteration -> SUBSET Entry] /\ "stop_acquire" \in Points
  BY <1>1 DEF VMInv, TypeOK, Points, LocalPoints
<1>5. cur' = [cur EXCEPT ![i] = c]
  BY <1>1 DEF c
<1>6. TypeOK'
  BY <1>2, <1>3, <1>4, <1>5 DEF VMInv, TypeOK, LockTypeOK, Goto
<1>7. LockStep(i)
  BY <1>2 DEF LockStep, lockVars
<1>8. /\ pc'[i] = "stop_acquire" /\ cur'[i] = c
      /\ \A j \in Iteration \ {i} : pc'[j] = pc[j] /\ cur'[j] = cur[j]
  BY <1>2, <1>5 DEF VMInv, TypeOK, Goto
<1>9. Fits(pc'[i], cur'[i], held'[i])
  BY <1>3, <1>8, UnlockedFits DEF UnlockedPoints
<1> QED
  BY <1>6, <1>7, <1>8, <1>9 DEF After

LEMMA StopAcquireOK ==
  ASSUME VMInv, NEW i \in Iteration, StopAcquire(i)
  PROVE  After(i)
<1>1. pc[i] = "stop_acquire" /\ UNCHANGED <<status, address, todo, ops, faults>>
  BY DEF StopAcquire
<1>2. Len(cur[i]) = 1 /\ Mine(i).srv \in Object
  BY <1>1, OneInHand DEF UnlockedPoints
<1>3. {"stop_loop", "stop_call"} \subseteq Points
  BY DEF Points, LocalPoints, CallPoints
<1>4. CASE /\ Refused(Mine(i).srv)
           /\ cur' = [cur EXCEPT ![i] = <<>>]
           /\ Goto(i, "stop_loop")
  <2>1. <<>> \in Seq(Entry)
    OBVIOUS
  <2>2. TypeOK'
    BY <1>1, <1>3, <1>4, <2>1 DEF VMInv, TypeOK, LockTypeOK, Goto, Refused, lockVars
  <2>3. LockStep(i)
    BY <1>4 DEF LockStep, Refused
  <2>4. /\ pc'[i] = "stop_loop"
        /\ \A j \in Iteration \ {i} : pc'[j] = pc[j] /\ cur'[j] = cur[j]
    BY <1>4 DEF VMInv, TypeOK, Goto
  <2>5. Fits(pc'[i], cur'[i], held'[i])
    BY <2>4, FreeFits DEF FreePoints
  <2> QED
    BY <2>2, <2>3, <2>4, <2>5 DEF After
<1>5. CASE Acquired(i, Mine(i).srv) /\ UNCHANGED cur /\ Goto(i, "stop_call")
  <2>1. LockTypeOK' /\ LockStep(i)
    BY <1>2, <1>5 DEF VMInv, TypeOK, LockTypeOK, Acquired, LockStep
  <2>2. TypeOK'
    BY <1>1, <1>3, <1>5, <2>1 DEF VMInv, TypeOK, Goto
  <2>3. /\ pc'[i] = "stop_call" /\ cur'[i] = cur[i] /\ Mine(i).srv \in held'[i]
        /\ \A j \in Iteration \ {i} : pc'[j] = pc[j] /\ cur'[j] = cur[j]
    BY <1>5 DEF VMInv, TypeOK, LockTypeOK, Acquired, Goto
  <2>4. Fits(pc'[i], cur'[i], held'[i])
    BY <1>2, <2>3, SingleFits DEF SinglePoints, Mine
  <2> QED
    BY <2>1, <2>2, <2>3, <2>4 DEF After
<1> QED
  BY <1>4, <1>5 DEF StopAcquire

LEMMA StopStartServersOK ==
  ASSUME VMInv, NEW i \in Iteration, StopStartServers(i)
  PROVE  After(i)
<1> USE DEF FreePoints, SinglePoints, Points, LocalPoints, CallPoints, Status
<1>1. CASE StopList(i)
  <2>1. WithFip \in SUBSET Object
    BY ServersAssumption DEF WithFip, ActiveOf
  <2> QED
    BY <1>1, <2>1, SampleOK DEF StopList
<1>2. CASE StopShow(i)
  BY <1>2, StopShowOK
<1>3. CASE StopAcquire(i)
  BY <1>3, StopAcquireOK
<1>4. CASE StopCall(i)
  BY <1>4, NovaCallOK DEF StopCall
<1>5. CASE StopDown(i)
  BY <1>5, AwaitPingOK DEF StopDown
<1>6. CASE StopStart(i)
  BY <1>6, NovaCallOK DEF StopStart
<1>7. CASE StopUp(i)
  BY <1>7, AwaitPingOK DEF StopUp
<1>8. CASE StopRelease(i)
  BY <1>8, ReleaseListedOK DEF StopRelease
<1>9. CASE StopFinish(i)
  BY <1>9, FinishOK, NextWorkload DEF StopFinish
<1> QED
  BY <1>1, <1>2, <1>3, <1>4, <1>5, <1>6, <1>7, <1>8, <1>9 DEF StopStartServers

--------------------------------------------------------------------------------
(* The invariant. *)

LEMMA InitInv == Init => VMInv
<1> SUFFICES ASSUME Init PROVE VMInv
  OBVIOUS
<1>1. First \in FreePoints /\ First \in Points
  BY DEF First, AfterDelete, FreePoints, Points, LocalPoints, CallPoints, Stopped
<1>2. LockTypeOK /\ LockOwnership
  BY DEF Init, LockInit, LockTypeOK, LockOwnership
<1>3. TypeOK
  <2>1. status \in [Object -> Status]
    BY DEF Init, Status
  <2>2. address \in [Object -> Fip]
    BY DEF Init, Fip
  <2>3. cur \in [Iteration -> Seq(Entry)] /\ todo \in [Iteration -> SUBSET Entry]
    <3>1. <<>> \in Seq(Entry)
      OBVIOUS
    <3> QED
      BY <3>1 DEF Init
  <2>4. pc \in [Iteration -> Points] /\ ops \in [Iteration -> Nat] /\ faults \in Nat
    BY <1>1 DEF Init
  <2> QED
    BY <1>2, <2>1, <2>2, <2>3, <2>4 DEF TypeOK
<1>4. InHand
  <2>1. \A i \in Iteration : pc[i] \in FreePoints
    BY <1>1 DEF Init
  <2> QED
    BY <2>1, FreeFits DEF InHand
<1> QED
  BY <1>2, <1>3, <1>4 DEF VMInv

LEMMA StepAfter ==
  ASSUME VMInv, NEW i \in Iteration, Step(i) \/ Raise(i)
  PROVE  After(i)
BY DeleteServersOK, BootServersWithFipOK, MigrateServersOK, SwapFloatingIpsOK, StopStartServersOK,
   RaiseOK DEF Step

LEMMA AfterKeepsInv ==
  ASSUME VMInv, NEW i \in Iteration, After(i)
  PROVE  VMInv'
<1>1. LockTypeOK /\ LockOwnership /\ LockStep(i)
  BY DEF VMInv, TypeOK, After
<1>2. LockOwnership' /\ \A j \in Iteration \ {i} : held'[j] = held[j]
  BY <1>1, OwnersStay
<1>3. InHand'
  <2>1. Fits(pc'[i], cur'[i], held'[i])
    BY DEF After
  <2>2. ASSUME NEW j \in Iteration \ {i} PROVE Fits(pc'[j], cur'[j], held'[j])
    BY <1>2 DEF After, VMInv, InHand
  <2> QED
    BY <2>1, <2>2 DEF InHand
<1> QED
  BY <1>2, <1>3 DEF VMInv, After

LEMMA NextInv == VMInv /\ [Next]_vars => VMInv'
<1> SUFFICES ASSUME VMInv, [Next]_vars PROVE VMInv'
  OBVIOUS
<1>1. ASSUME NEW i \in Iteration, Step(i) \/ Raise(i) PROVE VMInv'
  BY <1>1, StepAfter, AfterKeepsInv
<1>2. CASE UNCHANGED vars
  BY <1>2 DEF vars, VMInv, TypeOK, LockTypeOK, LockOwnership, InHand
<1> QED
  BY <1>1, <1>2 DEF Next, Terminated

THEOREM Invariance == Spec => []VMInv
BY InitInv, NextInv, PTL DEF Spec

(***************************************************************************)
(* Every variable of the VM workloads keeps its type.  It is not inductive *)
(* alone: an address is only moved to a server that is in hand.            *)
(***************************************************************************)
THEOREM TypeCorrect == Spec => []TypeOK
BY Invariance, PTL DEF VMInv

(***************************************************************************)
(* The rows of the lock table are those the iterations know they hold, and *)
(* no two of them hold one: no workload releases a row it does not own.    *)
(***************************************************************************)
THEOREM RowsAreOwned == Spec => []LockOwnership
BY Invariance, PTL DEF VMInv

(***************************************************************************)
(* No two iterations work on one server, whatever the workloads and the    *)
(* faults: each works on servers whose rows it holds.                      *)
(***************************************************************************)
THEOREM NoTwoOnOneServer == Spec => []MutualExclusion
<1>1. VMInv => MutualExclusion
  <2> SUFFICES ASSUME VMInv PROVE MutualExclusion
    OBVIOUS
  <2>1. ASSUME NEW i \in Iteration PROVE Working(i) \subseteq held[i]
    <3>1. Fits(pc[i], cur[i], held[i]) /\ cur[i] \in Seq(Entry)
      BY DEF VMInv, TypeOK, InHand
    <3>2. CASE pc[i] \in SinglePoints
      BY <3>1, <3>2 DEF Fits, Working, Mine
    <3>3. CASE pc[i] \in SwapPoints
      BY <3>1, <3>3 DEF Fits, Working, SinglePoints, SwapPoints
    <3>4. CASE pc[i] = "swap_release_2"
      BY <3>1, <3>4 DEF Fits, Working, SinglePoints, SwapPoints
    <3>5. CASE pc[i] = "swap_loop"
      <4>1. Working(i) = {cur[i][k].srv : k \in DOMAIN cur[i]}
        BY <3>5 DEF Working, SinglePoints, SwapPoints
      <4>2. \A k \in DOMAIN cur[i] : cur[i][k].srv \in held[i]
        BY <3>1, <3>5 DEF Fits
      <4> QED
        BY <4>1, <4>2
    <3>6. CASE pc[i] \notin SinglePoints \cup SwapPoints \cup {"swap_release_2", "swap_loop"}
      BY <3>6 DEF Working
    <3> QED
      BY <3>2, <3>3, <3>4, <3>5, <3>6
  <2>2. \A i, j \in Iteration : i # j => held[i] \cap held[j] = {}
    BY DEF VMInv, LockOwnership
  <2> QED
    BY <2>1, <2>2 DEF MutualExclusion
<1> QED
  BY <1>1, Invariance, PTL

(***************************************************************************)
(* The table as the workloads use it is the abstract lock service: only a  *)
(* free server is acquired, and only its holder frees it.                  *)
(***************************************************************************)
THEOREM TableImplementsService == Spec => ImplementsLockService
<1>1. Init => Service!Init
  BY DEF Init, LockInit, Service!Init, Holder
<1>2. VMInv /\ [Next]_vars => [Service!Next]_Holder
  <2> SUFFICES ASSUME VMInv, [Next]_vars PROVE Service!Next \/ UNCHANGED Holder
    OBVIOUS
  <2>1. ASSUME NEW i \in Iteration, Step(i) \/ Raise(i)
        PROVE  Service!Next \/ UNCHANGED Holder
    <3>1. LockTypeOK /\ LockOwnership /\ LockStep(i)
      BY <2>1, StepAfter DEF VMInv, TypeOK, After
    <3> QED
      BY <3>1, LockStepImplementsService
  <2>2. CASE UNCHANGED vars
    BY <2>2 DEF vars, Holder
  <2> QED
    BY <2>1, <2>2 DEF Next, Terminated
<1> QED
  BY <1>1, <1>2, Invariance, PTL DEF Spec, ImplementsLockService, Service!Spec

--------------------------------------------------------------------------------
(***************************************************************************)
(* The VM workloads use each server alone: no call of one is refused        *)
(* because of another, and a server left half migrated or stopped stays     *)
(* locked.                                                                  *)
(***************************************************************************)

(* Where what is listed, and what is in hand, is tagged for the one use or the other. *)
DeletePoints == {"delete_show", "delete_call", "delete_release"}
FipPoints == (SinglePoints \ DeletePoints) \cup UnlockedPoints \cup SwapPoints
               \cup {"swap_loop", "swap_release_2"}
ListedPlain == DeletePoints \cup {"delete_loop"}
ListedWithFip == (FipPoints \ {"boot_attach", "boot_ping"}) \cup {"migrate_loop", "stop_loop"}

(***************************************************************************)
(* What was listed or is in hand once existed, since servers are listed     *)
(* when they do and never come to be absent again; and what an iteration    *)
(* works on has the status its next call needs.                             *)
(***************************************************************************)
Uses(i) ==
  /\ \A e \in todo[i] : /\ status[e.srv] # "absent"
                        /\ pc[i] \in ListedPlain => e.srv \in Plain
                        /\ pc[i] \in ListedWithFip => e.srv \in Addressed
  /\ \A k \in DOMAIN cur[i] : /\ status[cur[i][k].srv] # "absent"
                              /\ pc[i] \in DeletePoints => cur[i][k].srv \in Plain
                              /\ pc[i] \in FipPoints => cur[i][k].srv \in Addressed
  /\ \A s \in Working(i) : status[s] \in Expected(pc[i])

(* Only plain servers are deleted, and only a server that exists has a floating IP. *)
Servers == /\ BusyIsLocked
           /\ \A s \in Object : status[s] = "deleted" => s \in Plain
           /\ \A s \in Object : address[s] # NoFip => s \in Addressed /\ status[s] # "absent"

UseInv == Servers /\ \A i \in Iteration : Uses(i)
(* Servers only change by what i does to one it holds, or by being made. *)
StatusStep(i) ==
  \A s \in Object : \/ status'[s] = status[s]
                    \/ status'[s] # "absent" /\ (s \in held[i] \/ status[s] = "absent")

(* What every step of i must give. *)
StepUses(i) == /\ Servers' /\ StatusStep(i) /\ Uses(i)'
               /\ \A j \in Iteration \ {i} : todo'[j] = todo[j]

--------------------------------------------------------------------------------
LEMMA Regions ==
  /\ SinglePoints \cap SwapPoints = {}
  /\ "swap_release_2" \notin SinglePoints \cup SwapPoints
  /\ "swap_loop" \notin SinglePoints \cup SwapPoints
  /\ DeletePoints \subseteq SinglePoints /\ SwapPoints \subseteq FipPoints
  /\ DeletePoints \cap FipPoints = {}
  /\ DeletePoints \cap ListedWithFip = {} /\ FipPoints \cap ListedPlain = {}
  /\ ListedPlain \cap ListedWithFip = {}
  /\ SinglePoints \subseteq DeletePoints \cup FipPoints
  /\ SinglePoints \ DeletePoints \subseteq ListedWithFip
  /\ SwapPoints \cup {"swap_loop", "swap_release_2"} \subseteq ListedWithFip
BY DEF SinglePoints, SwapPoints, DeletePoints, FipPoints, UnlockedPoints, ListedPlain, ListedWithFip

(* The end of a workload, and the lists the next one begins with. *)
OutPoints == {"done", "failed", "boot", "boot_fip", "delete_list", "migrate_list", "swap_list",
              "stop_list"}

LEMMA Outside ==
  ASSUME NEW l \in OutPoints
  PROVE  /\ l \notin ListedPlain \cup ListedWithFip \cup DeletePoints \cup FipPoints
         /\ l \notin SinglePoints \cup SwapPoints \cup {"swap_release_2", "swap_loop"}
BY DEF OutPoints, SinglePoints, SwapPoints, DeletePoints, FipPoints, UnlockedPoints, ListedPlain,
       ListedWithFip

LEMMA NextIsOutside ==
  {AfterDelete, AfterBootFip, AfterMigrate, AfterSwap, AfterStopStart, First} \subseteq OutPoints
BY DEF AfterDelete, AfterBootFip, AfterMigrate, AfterSwap, AfterStopStart, First, OutPoints

LEMMA ExpectedStatus ==
  /\ Expected("delete_show") = {"ACTIVE", "deleted"}
  /\ Expected("delete_call") = {"ACTIVE"}
  /\ Expected("delete_release") = {"deleted"}
  /\ Expected("migrate_ping_before") = {"ACTIVE"}
  /\ Expected("migrate_call") = {"ACTIVE"}
  /\ Expected("migrate_wait") = {"RESIZE"}
  /\ Expected("migrate_confirm") = {"VERIFY_RESIZE"}
  /\ Expected("migrate_ping_after") = {"ACTIVE"}
  /\ Expected("migrate_release") = {"ACTIVE"}
  /\ Expected("stop_call") = {"ACTIVE"}
  /\ Expected("stop_down") = {"SHUTOFF"}
  /\ Expected("stop_start") = {"SHUTOFF"}
  /\ Expected("stop_up") = {"ACTIVE"}
  /\ Expected("stop_release") = {"ACTIVE"}
  /\ \A l \in SwapPoints \cup {"swap_release_2", "swap_loop"} : Expected(l) = {"ACTIVE"}
BY DEF Expected, SwapPoints

LEMMA NeverAbsentExpected == \A l : "absent" \notin Expected(l)
BY DEF Expected

(* An iteration works on servers it holds, and on these alone. *)
LEMMA WorkingIsHeld ==
  ASSUME VMInv, NEW i \in Iteration
  PROVE  Working(i) \subseteq held[i] /\ held[i] \subseteq Object /\ held[i] \subseteq locked
<1>1. /\ Fits(pc[i], cur[i], held[i]) /\ cur[i] \in Seq(Entry)
      /\ held[i] \subseteq Object /\ held[i] \subseteq locked
  BY DEF VMInv, TypeOK, InHand, LockTypeOK, LockOwnership
<1>2. CASE pc[i] \in SinglePoints
  BY <1>1, <1>2 DEF Fits, Working, Mine
<1>3. CASE pc[i] \in SwapPoints
  BY <1>1, <1>3, Regions DEF Fits, Working
<1>4. CASE pc[i] = "swap_release_2"
  BY <1>1, <1>4, Regions DEF Fits, Working
<1>5. CASE pc[i] = "swap_loop"
  <2>1. Working(i) = {cur[i][k].srv : k \in DOMAIN cur[i]}
    BY <1>5, Regions DEF Working
  <2>2. \A k \in DOMAIN cur[i] : cur[i][k].srv \in held[i]
    BY <1>1, <1>5 DEF Fits
  <2> QED
    BY <1>1, <2>1, <2>2
<1>6. CASE pc[i] \notin SinglePoints \cup SwapPoints \cup {"swap_release_2", "swap_loop"}
  BY <1>1, <1>6 DEF Working
<1> QED
  BY <1>2, <1>3, <1>4, <1>5, <1>6

(***************************************************************************)
(* What i does leaves what the others do as it is: they work on servers i   *)
(* does not hold, and what they listed does not cease to exist.             *)
(***************************************************************************)
LEMMA OthersKeep ==
  ASSUME VMInv, UseInv, NEW i \in Iteration, After(i), StepUses(i)
  PROVE  UseInv'
<1>1. ASSUME NEW j \in Iteration \ {i} PROVE Uses(j)'
  <2>1. pc'[j] = pc[j] /\ cur'[j] = cur[j] /\ todo'[j] = todo[j]
    BY DEF After, StepUses
  <2>2. Working(j)' = Working(j)
    BY <2>1 DEF Working, Mine
  <2>3. \A s \in Object : status[s] # "absent" => status'[s] # "absent"
    BY DEF StepUses, StatusStep
  <2>4. Uses(j)
    BY DEF UseInv
  <2>5. cur[j] \in Seq(Entry) /\ todo[j] \in SUBSET Entry
    BY DEF VMInv, TypeOK
  <2>6. \A e \in todo[j] : e.srv \in Object
    BY <2>5 DEF Entry
  <2>7. \A k \in DOMAIN cur[j] : cur[j][k].srv \in Object
    <3>1. \A k \in DOMAIN cur[j] : cur[j][k] \in Entry
      BY <2>5
    <3> QED
      BY <3>1 DEF Entry
  <2>8. ASSUME NEW s \in Working(j) PROVE status'[s] = status[s]
    <3>1. s \in Object /\ s \notin held[i] /\ status[s] # "absent"
      BY <2>4, WorkingIsHeld, NeverAbsentExpected DEF Uses, VMInv, LockOwnership
    <3> QED
      BY <3>1 DEF StepUses, StatusStep
  <2> QED
    BY <2>1, <2>2, <2>3, <2>4, <2>6, <2>7, <2>8 DEF Uses
<1> QED
  BY <1>1 DEF StepUses, UseInv
--------------------------------------------------------------------------------
(* The operators the actions are made of. *)

(* The next point is one of the same use of the same servers, in the same status. *)
SameUse(k, l) ==
  \/ l \in OutPoints
  \/ k \in DeletePoints /\ l \in DeletePoints /\ Expected(k) \subseteq Expected(l)
  \/ k \in SinglePoints \ DeletePoints /\ l \in SinglePoints \ DeletePoints
       /\ Expected(k) \subseteq Expected(l)
  \/ k \in SwapPoints /\ l \in SwapPoints \cup {"swap_release_2"}
  \/ k = "boot_attach" /\ l = "boot_ping"

LEMMA SameUseKeeps ==
  ASSUME VMInv, UseInv, NEW i \in Iteration, NEW l, Goto(i, l), SameUse(pc[i], l),
         UNCHANGED <<status, todo, cur>>
  PROVE  Uses(i)' /\ StatusStep(i) /\ \A j \in Iteration \ {i} : todo'[j] = todo[j]
<1>1. pc'[i] = l
  BY DEF VMInv, TypeOK, Goto
<1>2. Uses(i)
  BY DEF UseInv
<1>3. /\ l \in ListedPlain => pc[i] \in ListedPlain
      /\ l \in ListedWithFip => pc[i] \in ListedWithFip
      /\ l \in DeletePoints => pc[i] \in DeletePoints
      /\ l \in FipPoints => pc[i] \in FipPoints
  BY Outside DEF SameUse, SinglePoints, SwapPoints, DeletePoints, FipPoints, UnlockedPoints,
                 ListedPlain, ListedWithFip
<1>4. Working(i)' \subseteq Working(i)
  <2>1. CASE l \in OutPoints
    BY <1>1, <2>1, Outside DEF Working
  <2>2. CASE pc[i] \in SinglePoints /\ l \in SinglePoints
    BY <1>1, <2>2 DEF Working, Mine
  <2>3. CASE pc[i] \in SwapPoints /\ l \in SwapPoints \cup {"swap_release_2"}
    BY <1>1, <2>3, Regions DEF Working
  <2>4. CASE l = "boot_ping"
    BY <1>1, <2>4 DEF Working, SinglePoints, SwapPoints
  <2> QED
    BY <2>1, <2>2, <2>3, <2>4, Regions DEF SameUse
<1>5. l \notin OutPoints /\ Working(i)' # {} => Expected(pc[i]) \subseteq Expected(l)
  <2>1. CASE l = "boot_ping"
    BY <1>1, <2>1 DEF Working, SinglePoints, SwapPoints
  <2>2. CASE pc[i] \in SwapPoints /\ l \in SwapPoints \cup {"swap_release_2"}
    BY <2>2, ExpectedStatus
  <2> QED
    BY <2>1, <2>2 DEF SameUse
<1>6. l \in OutPoints => Working(i)' = {}
  BY <1>1, Outside DEF Working
<1>7. \A s \in Working(i)' : status'[s] \in Expected(l)
  BY <1>2, <1>4, <1>5, <1>6 DEF Uses
<1> QED
  BY <1>1, <1>2, <1>3, <1>7 DEF Uses, StatusStep

(* A step that changes no server and no lock. *)
LEMMA MoveUses ==
  ASSUME VMInv, UseInv, NEW i \in Iteration, NEW l, Goto(i, l), SameUse(pc[i], l),
         UNCHANGED <<locked, status, address, todo, cur>>
  PROVE  StepUses(i)
<1>1. Servers'
  BY DEF UseInv, Servers, BusyIsLocked
<1> QED
  BY <1>1, SameUseKeeps DEF StepUses

LEMMA DissociateUses ==
  ASSUME VMInv, UseInv, NEW i \in Iteration, NEW f, NEW from, NEW to,
         Dissociate(i, f, from, to), SameUse(from, to)
  PROVE  StepUses(i)
<1>1. \A s \in Object : address'[s] # NoFip => address[s] # NoFip
  BY DEF Dissociate
<1>2. Servers'
  BY <1>1 DEF Dissociate, UseInv, Servers, BusyIsLocked
<1> QED
  BY <1>2, SameUseKeeps DEF StepUses, Dissociate

(* An address only goes to a server that exists and is tagged for it. *)
LEMMA AssociateUses ==
  ASSUME VMInv, UseInv, NEW i \in Iteration, NEW f, NEW s \in Addressed, NEW from, NEW to,
         status[s] # "absent", Associate(i, f, s, from, to), SameUse(from, to)
  PROVE  StepUses(i)
<1>1. \A t \in Object : address'[t] # NoFip => t = s \/ address[t] # NoFip
  BY DEF Associate
<1>2. UNCHANGED <<locked, status, todo, cur>> /\ pc[i] = from
  BY DEF Associate
<1>3. Servers'
  BY <1>1, <1>2 DEF UseInv, Servers, BusyIsLocked
<1>4. PICK l \in {to, "failed"} : Goto(i, l)
  BY DEF Associate
<1>5. SameUse(pc[i], l)
  BY <1>2, <1>4 DEF SameUse, OutPoints
<1> QED
  BY <1>2, <1>3, <1>4, <1>5, SameUseKeeps DEF StepUses

LEMMA AwaitPingUses ==
  ASSUME VMInv, UseInv, NEW i \in Iteration, NEW f, NEW up, NEW from, NEW to,
         AwaitPing(i, f, up, from, to), SameUse(from, to)
  PROVE  StepUses(i)
<1>1. UNCHANGED <<locked, status, address, todo, cur>> /\ pc[i] = from
  BY DEF AwaitPing
<1>2. PICK l \in {to, "failed"} : Goto(i, l)
  BY DEF AwaitPing
<1>3. SameUse(pc[i], l)
  BY <1>1, <1>2 DEF SameUse, OutPoints
<1> QED
  BY <1>1, <1>2, <1>3, MoveUses

(* A call of nova on the one server in hand takes it to the status of the next point. *)
LEMMA NovaCallUses ==
  ASSUME VMInv, UseInv, NEW i \in Iteration, NEW before, NEW after,
         NEW from \in SinglePoints, NEW to \in SinglePoints,
         from \in DeletePoints <=> to \in DeletePoints,
         Expected(to) = {after}, after = "deleted" => from \in DeletePoints,
         NovaCall(i, Mine(i).srv, from, before, after, to)
  PROVE  StepUses(i)
<1>1. pc[i] = from /\ UNCHANGED <<locked, held, address, todo, cur>>
  BY DEF NovaCall
<1>2. CASE Goto(i, "failed") /\ UNCHANGED status
  <2>1. SameUse(pc[i], "failed")
    BY DEF SameUse, OutPoints
  <2> QED
    BY <1>1, <1>2, <2>1, MoveUses
<1>3. CASE status' = [status EXCEPT ![Mine(i).srv] = after] /\ Goto(i, to)
  <2>1. Mine(i).srv \in Object /\ Mine(i).srv \in held[i] /\ Mine(i).srv \in locked
    BY <1>1, OneInHand, WorkingIsHeld
  <2>2. \A s \in Object : status'[s] = IF s = Mine(i).srv THEN after ELSE status[s]
    BY <1>3 DEF VMInv, TypeOK
  <2>3. after # "absent"
    BY NeverAbsentExpected
  <2>4. Uses(i) /\ Servers
    BY DEF UseInv
  <2>5. 1 \in DOMAIN cur[i] /\ cur[i] \in Seq(Entry) /\ todo[i] \in SUBSET Entry
    BY <1>1, OneInHand DEF VMInv, TypeOK
  <2>6. from \in DeletePoints => Mine(i).srv \in Plain
    BY <1>1, <2>4, <2>5 DEF Uses, Mine
  <2>7. Servers'
    <3>1. BusyIsLocked'
      BY <1>1, <2>1, <2>2, <2>4 DEF Servers, BusyIsLocked
    <3>2. \A s \in Object : status'[s] = "deleted" => s \in Plain
      BY <2>2, <2>4, <2>6 DEF Servers
    <3>3. \A s \in Object : address'[s] # NoFip => s \in Addressed /\ status'[s] # "absent"
      BY <1>1, <2>2, <2>3, <2>4 DEF Servers
    <3> QED
      BY <3>1, <3>2, <3>3 DEF Servers
  <2>8. StatusStep(i)
    BY <2>1, <2>2, <2>3 DEF StatusStep
  <2>9. Uses(i)'
    <3>1. pc'[i] = to /\ cur'[i] = cur[i] /\ todo'[i] = todo[i]
      BY <1>1, <1>3 DEF VMInv, TypeOK, Goto
    <3>2. /\ to \in ListedPlain => from \in ListedPlain
          /\ to \in ListedWithFip => from \in ListedWithFip
          /\ to \in FipPoints => from \in FipPoints
      BY Regions DEF ListedPlain
    <3>3. \A s \in Object : status[s] # "absent" => status'[s] # "absent"
      BY <2>2, <2>3
    <3>4. \A e \in todo[i] : e.srv \in Object
      BY <2>5 DEF Entry
    <3>5. \A k \in DOMAIN cur[i] : cur[i][k] \in Entry
      BY <2>5
    <3>6. \A k \in DOMAIN cur[i] : cur[i][k].srv \in Object
      BY <3>5 DEF Entry
    <3>7. Working(i)' = {Mine(i).srv}
      BY <3>1 DEF Working, Mine
    <3>8. \A s \in Working(i)' : status'[s] \in Expected(to)
      BY <2>1, <2>2, <3>7
    <3> QED
      BY <1>1, <2>4, <3>1, <3>2, <3>3, <3>4, <3>6, <3>8 DEF Uses
  <2> QED
    BY <1>1, <2>7, <2>8, <2>9 DEF StepUses
<1> QED
  BY <1>2, <1>3 DEF NovaCall
(* A method returns: nothing is listed or in hand any more. *)
LEMMA ReturnUses ==
  ASSUME VMInv, NEW i \in Iteration, NEW l \in OutPoints, Return(i, l), Servers', StatusStep(i)
  PROVE  StepUses(i)
<1>1. /\ pc'[i] = l /\ todo'[i] = {} /\ cur'[i] = <<>>
      /\ \A j \in Iteration \ {i} : todo'[j] = todo[j]
  BY DEF VMInv, TypeOK, Goto, Return
<1>2. Working(i)' = {}
  BY <1>1, Outside DEF Working
<1> QED
  BY <1>1, <1>2 DEF Uses, StepUses

LEMMA FinishUses ==
  ASSUME VMInv, UseInv, NEW i \in Iteration, NEW loop, NEW limit, NEW next \in OutPoints,
         Finish(i, loop, limit, next)
  PROVE  StepUses(i)
<1>1. Return(i, next) /\ UNCHANGED <<locked, status, address>>
  BY DEF Finish
<1>2. Servers' /\ StatusStep(i)
  BY <1>1 DEF UseInv, Servers, BusyIsLocked, StatusStep
<1> QED
  BY <1>1, <1>2, ReturnUses

(* Servers are listed that exist and bear the tag of the workload. *)
LEMMA ListUses ==
  ASSUME VMInv, UseInv, NEW i \in Iteration, NEW S \in SUBSET Object, NEW loop,
         todo' = [todo EXCEPT ![i] = {[srv |-> s, fip |-> address[s]] : s \in S}],
         pc[i] \in OutPoints, Goto(i, loop), UNCHANGED <<locked, status, address, cur>>,
         \A s \in S : status[s] # "absent",
         \/ loop = "delete_loop" /\ S \subseteq Plain
         \/ loop \in {"migrate_loop", "stop_loop"} /\ S \subseteq Addressed
         \/ loop = "swap_loop" /\ S \subseteq Addressed /\ cur[i] = <<>>
  PROVE  StepUses(i)
<1>1. /\ pc'[i] = loop /\ cur'[i] = cur[i]
      /\ todo'[i] = {[srv |-> s, fip |-> address[s]] : s \in S}
      /\ \A j \in Iteration \ {i} : todo'[j] = todo[j]
  BY DEF VMInv, TypeOK, Goto
<1>2. Servers' /\ StatusStep(i)
  BY DEF UseInv, Servers, BusyIsLocked, StatusStep
<1>3. /\ loop \notin SinglePoints \cup SwapPoints \cup {"swap_release_2"} \cup DeletePoints
      /\ loop \in FipPoints => loop = "swap_loop"
      /\ loop \in ListedPlain => loop = "delete_loop"
      /\ loop \in ListedWithFip => loop # "delete_loop"
  BY DEF SinglePoints, SwapPoints, DeletePoints, FipPoints, UnlockedPoints, ListedPlain,
         ListedWithFip
<1>4. Working(i)' = {}
  BY <1>1, <1>3 DEF Working
<1>5. Uses(i)
  BY DEF UseInv
<1>6. \A e \in todo'[i] : /\ status'[e.srv] # "absent"
                          /\ loop \in ListedPlain => e.srv \in Plain
                          /\ loop \in ListedWithFip => e.srv \in Addressed
  BY <1>1, <1>3
<1>7. \A k \in DOMAIN cur'[i] : /\ status'[cur'[i][k].srv] # "absent"
                                /\ loop \in DeletePoints => cur'[i][k].srv \in Plain
                                /\ loop \in FipPoints => cur'[i][k].srv \in Addressed
  BY <1>1, <1>3, <1>5 DEF Uses
<1> QED
  BY <1>1, <1>2, <1>4, <1>6, <1>7 DEF Uses, StepUses

LEMMA SampleUses ==
  ASSUME VMInv, UseInv, NEW i \in Iteration, NEW from \in OutPoints, NEW tagged,
         NEW eligible \in SUBSET ActiveOf(tagged), NEW n, NEW loop,
         \/ loop = "delete_loop" /\ tagged = Plain
         \/ loop \in {"migrate_loop", "stop_loop"} /\ tagged = Addressed,
         Sample(i, from, eligible, n, loop)
  PROVE  StepUses(i)
<1>1. PICK S \in SUBSET eligible :
         todo' = [todo EXCEPT ![i] = {[srv |-> s, fip |-> address[s]] : s \in S}]
  BY DEF Sample
<1>2. /\ pc[i] \in OutPoints /\ Goto(i, loop)
      /\ UNCHANGED <<locked, status, address, cur>>
  BY DEF Sample
<1>3. S \subseteq tagged /\ \A s \in S : status[s] # "absent"
  BY <1>1 DEF ActiveOf
<1>4. S \in SUBSET Object
  BY <1>3, ServersAssumption
<1> QED
  BY <1>1, <1>2, <1>3, <1>4, ListUses

(* The status of a server nobody has locked. *)
LEMMA FreeServer ==
  ASSUME VMInv, UseInv, NEW s \in Object, s \notin locked, status[s] # "absent"
  PROVE  /\ status[s] \in {"ACTIVE", "deleted"}
         /\ s \in Addressed => status[s] = "ACTIVE"
<1>1. status[s] \in Status /\ status[s] \notin Busy
  BY DEF VMInv, TypeOK, UseInv, Servers, BusyIsLocked
<1>2. s \in Addressed => status[s] # "deleted"
  BY ServersAssumption DEF UseInv, Servers
<1> QED
  BY <1>1, <1>2 DEF Status, Busy

LEMMA TryListedUses ==
  ASSUME VMInv, UseInv, NEW i \in Iteration, NEW loop, NEW body,
         \/ loop = "delete_loop" /\ body = "delete_show"
         \/ loop = "migrate_loop" /\ body = "migrate_ping_before",
         TryListed(i, loop, body)
  PROVE  StepUses(i)
<1>1. PICK e \in todo[i] :
        /\ todo' = [todo EXCEPT ![i] = @ \ {e}]
        /\ \/ Refused(e.srv) /\ UNCHANGED <<pc, cur>>
           \/ /\ Acquired(i, e.srv)
              /\ cur' = [cur EXCEPT ![i] = <<e>>]
              /\ Goto(i, body)
  BY DEF TryListed
<1>2. pc[i] = loop /\ UNCHANGED <<status, address>>
  BY DEF TryListed
<1>3. /\ todo'[i] = todo[i] \ {e}
      /\ \A j \in Iteration \ {i} : todo'[j] = todo[j]
  BY <1>1 DEF VMInv, TypeOK
<1>4. Uses(i) /\ Servers
  BY DEF UseInv
<1>5. StatusStep(i)
  BY <1>2 DEF StatusStep
<1>6. locked \subseteq locked'
  BY <1>1 DEF Refused, Acquired, lockVars
<1>7. Servers'
  BY <1>2, <1>4, <1>6 DEF Servers, BusyIsLocked
<1>8. e \in Entry /\ e.srv \in Object
  <2>1. e \in Entry
    BY <1>1 DEF VMInv, TypeOK
  <2> QED
    BY <2>1 DEF Entry
<1>9. /\ loop \in ListedPlain <=> body \in ListedPlain
      /\ loop \in ListedWithFip <=> body \in ListedWithFip
      /\ body \in DeletePoints <=> loop \in ListedPlain
      /\ body \in FipPoints <=> loop \in ListedWithFip
      /\ body \in DeletePoints \/ body \in FipPoints
      /\ body \in SinglePoints
      /\ body \in FipPoints => body = "migrate_ping_before"
      /\ body \in DeletePoints => body = "delete_show"
  BY DEF SinglePoints, SwapPoints, DeletePoints, FipPoints, UnlockedPoints, ListedPlain,
         ListedWithFip
<1>10. CASE Refused(e.srv) /\ UNCHANGED <<pc, cur>>
  <2>1. Working(i)' = Working(i)
    BY <1>10 DEF Working, Mine
  <2>2. Uses(i)'
    BY <1>2, <1>3, <1>4, <1>10, <2>1 DEF Uses
  <2> QED
    BY <1>3, <1>5, <1>7, <2>2 DEF StepUses
<1>11. CASE Acquired(i, e.srv) /\ cur' = [cur EXCEPT ![i] = <<e>>] /\ Goto(i, body)
  <2>1. pc'[i] = body /\ cur'[i] = <<e>>
    BY <1>11 DEF VMInv, TypeOK, Goto
  <2>2. Working(i)' = {e.srv}
    BY <2>1, <1>9 DEF Working, Mine
  <2>3. /\ status[e.srv] # "absent"
        /\ loop \in ListedPlain => e.srv \in Plain
        /\ loop \in ListedWithFip => e.srv \in Addressed
    BY <1>2, <1>4 DEF Uses
  <2>4. e.srv \notin locked
    BY <1>11 DEF Acquired
  <2>5. status[e.srv] \in Expected(body)
    BY <1>8, <1>9, <2>3, <2>4, FreeServer, ExpectedStatus
  <2>6. \A x \in todo'[i] : /\ status'[x.srv] # "absent"
                            /\ body \in ListedPlain => x.srv \in Plain
                            /\ body \in ListedWithFip => x.srv \in Addressed
    BY <1>2, <1>3, <1>4, <1>9 DEF Uses
  <2>7. \A k \in DOMAIN cur'[i] : /\ status'[cur'[i][k].srv] # "absent"
                                  /\ body \in DeletePoints => cur'[i][k].srv \in Plain
                                  /\ body \in FipPoints => cur'[i][k].srv \in Addressed
    BY <1>2, <1>9, <2>1, <2>3
  <2>8. Uses(i)'
    BY <1>2, <2>1, <2>2, <2>5, <2>6, <2>7 DEF Uses
  <2> QED
    BY <1>3, <1>5, <1>7, <2>8 DEF StepUses
<1> QED
  BY <1>1, <1>10, <1>11

(* A lock is only released on a server that is not half migrated or stopped. *)
LEMMA ReleaseKeepsServers ==
  ASSUME VMInv, UseInv, NEW i \in Iteration, NEW s, status[s] \notin Busy, Release(i, s),
         UNCHANGED <<status, address>>
  PROVE  Servers' /\ StatusStep(i)
BY DEF UseInv, Servers, BusyIsLocked, Release, StatusStep

LEMMA ReleaseListedUses ==
  ASSUME VMInv, UseInv, NEW i \in Iteration, NEW from, NEW loop,
         \/ from = "delete_release" /\ loop = "delete_loop"
         \/ from = "migrate_release" /\ loop = "migrate_loop"
         \/ from = "stop_release" /\ loop = "stop_loop",
         ReleaseListed(i, from, loop)
  PROVE  StepUses(i)
<1>1. /\ pc[i] = from /\ Release(i, Mine(i).srv)
      /\ UNCHANGED <<status, address, todo>>
  BY DEF ReleaseListed
<1>2. pc'[i] = loop /\ cur'[i] = <<>>
  BY DEF ReleaseListed, VMInv, TypeOK, Goto
<1>3. Uses(i)
  BY DEF UseInv
<1>4. /\ loop \in ListedPlain => from \in ListedPlain
      /\ loop \in ListedWithFip => from \in ListedWithFip
      /\ loop \notin SinglePoints \cup SwapPoints \cup {"swap_release_2", "swap_loop"}
      /\ from \in SinglePoints
  BY DEF SinglePoints, SwapPoints, DeletePoints, FipPoints, UnlockedPoints, ListedPlain,
         ListedWithFip
<1>5. Mine(i).srv \in Working(i)
  BY <1>1, <1>4 DEF Working
<1>6. status[Mine(i).srv] \notin Busy
  BY <1>1, <1>3, <1>5, ExpectedStatus DEF Uses, Busy
<1>7. Working(i)' = {}
  BY <1>2, <1>4 DEF Working
<1>8. Uses(i)'
  BY <1>1, <1>2, <1>3, <1>4, <1>7 DEF Uses
<1> QED
  BY <1>1, <1>6, <1>8, ReleaseKeepsServers DEF StepUses
--------------------------------------------------------------------------------
(* The actions, workload by workload. *)

(* A server that is made was absent, and nobody works on an absent one. *)
LEMMA NewServer ==
  ASSUME VMInv, UseInv, NEW i \in Iteration, NEW s \in Object, status[s] = "absent",
         status' = [status EXCEPT ![s] = "ACTIVE"], UNCHANGED <<locked, address>>
  PROVE  /\ Servers' /\ StatusStep(i)
         /\ \A t \in Object : status'[t] = IF t = s THEN "ACTIVE" ELSE status[t]
<1>1. \A t \in Object : status'[t] = IF t = s THEN "ACTIVE" ELSE status[t]
  BY DEF VMInv, TypeOK
<1> QED
  BY <1>1 DEF UseInv, Servers, BusyIsLocked, Busy, StatusStep

LEMMA BootServerUses ==
  ASSUME VMInv, UseInv, NEW i \in Iteration, BootServer(i)
  PROVE  StepUses(i)
<1>1. PICK s \in Plain : status[s] = "absent" /\ status' = [status EXCEPT ![s] = "ACTIVE"]
  BY DEF BootServer
<1>2. s \in Object /\ UNCHANGED <<locked, held, address>> /\ pc[i] = "boot"
  BY ServersAssumption DEF BootServer
<1>3. /\ Servers' /\ StatusStep(i)
      /\ \A t \in Object : status'[t] = IF t = s THEN "ACTIVE" ELSE status[t]
  BY <1>1, <1>2, NewServer
<1>4. CASE Return(i, "delete_list")
  BY <1>3, <1>4, ReturnUses DEF OutPoints
<1>5. CASE UNCHANGED <<pc, todo, cur>>
  <2>1. "boot" \in OutPoints
    BY DEF OutPoints
  <2>2. Working(i)' = {}
    BY <1>2, <1>5, <2>1, Outside DEF Working
  <2>3. \A t \in Object : status[t] # "absent" => status'[t] # "absent"
    BY <1>3
  <2>4. \A e \in todo[i] : e.srv \in Object
    BY DEF VMInv, TypeOK, Entry
  <2>5. \A k \in DOMAIN cur[i] : cur[i][k] \in Entry
    BY DEF VMInv, TypeOK
  <2>6. \A k \in DOMAIN cur[i] : cur[i][k].srv \in Object
    BY <2>5 DEF Entry
  <2>7. Uses(i)
    BY DEF UseInv
  <2>8. Uses(i)'
    BY <1>5, <2>2, <2>3, <2>4, <2>6, <2>7 DEF Uses
  <2> QED
    BY <1>3, <1>5, <2>8 DEF StepUses
<1> QED
  BY <1>4, <1>5 DEF BootServer

LEMMA DeleteShowUses ==
  ASSUME VMInv, UseInv, NEW i \in Iteration, DeleteShow(i)
  PROVE  StepUses(i)
<1>1. pc[i] = "delete_show" /\ UNCHANGED <<status, address, todo>>
  BY DEF DeleteShow
<1>2. Uses(i) /\ 1 \in DOMAIN cur[i]
  BY <1>1, OneInHand DEF UseInv, SinglePoints, VMInv, TypeOK
<1>3. Working(i) = {Mine(i).srv}
  BY <1>1 DEF Working, SinglePoints
<1>4. status[Mine(i).srv] \in {"ACTIVE", "deleted"}
  BY <1>1, <1>2, <1>3, ExpectedStatus DEF Uses
<1>5. Mine(i).srv \in Plain
  BY <1>1, <1>2 DEF Uses, Mine, DeletePoints
<1>6. CASE /\ status[Mine(i).srv] # "deleted"
           /\ Goto(i, "delete_call")
           /\ UNCHANGED <<locked, held, cur>>
  <2>1. pc'[i] = "delete_call" /\ cur'[i] = cur[i] /\ todo'[i] = todo[i]
    BY <1>1, <1>6 DEF VMInv, TypeOK, Goto
  <2>2. Working(i)' = {Mine(i).srv}
    BY <2>1 DEF Working, Mine, SinglePoints
  <2>3. Uses(i)'
    BY <1>1, <1>2, <1>4, <1>6, <2>1, <2>2, ExpectedStatus, Regions
       DEF Uses, DeletePoints, ListedPlain
  <2>4. Servers' /\ StatusStep(i)
    BY <1>1, <1>6 DEF UseInv, Servers, BusyIsLocked, StatusStep
  <2> QED
    BY <1>1, <2>3, <2>4 DEF StepUses
<1>7. CASE PassOver(i)
  <2> USE DEF PassOver
  <2>1. pc'[i] = "delete_loop" /\ cur'[i] = <<>> /\ todo'[i] = todo[i]
    BY <1>1, <1>7 DEF VMInv, TypeOK, Goto
  <2>2. Working(i)' = {}
    BY <2>1 DEF Working, SinglePoints, SwapPoints
  <2>3. "delete_show" \in ListedPlain /\ "delete_loop" \notin ListedWithFip
    BY DEF ListedPlain, ListedWithFip, DeletePoints, FipPoints, SinglePoints, SwapPoints,
           UnlockedPoints
  <2>4. Uses(i)'
    BY <1>1, <1>2, <2>1, <2>2, <2>3 DEF Uses
  <2>5. Servers' /\ StatusStep(i)
    BY <1>1, <1>4, <1>7, ReleaseKeepsServers DEF Busy
  <2> QED
    BY <1>1, <2>4, <2>5 DEF StepUses
<1> QED
  BY <1>6, <1>7 DEF DeleteShow

LEMMA DeleteServersUses ==
  ASSUME VMInv, UseInv, NEW i \in Iteration, DeleteServers(i)
  PROVE  StepUses(i)
<1>1. CASE BootServer(i)
  BY <1>1, BootServerUses
<1>2. CASE DeleteList(i)
  BY <1>2, SampleUses DEF DeleteList, OutPoints
<1>3. CASE DeleteTry(i)
  BY <1>3, TryListedUses DEF DeleteTry
<1>4. CASE DeleteShow(i)
  BY <1>4, DeleteShowUses
<1>5. CASE DeleteCall(i)
  BY <1>5, NovaCallUses, ExpectedStatus DEF DeleteCall, SinglePoints, DeletePoints
<1>6. CASE DeleteRelease(i)
  BY <1>6, ReleaseListedUses DEF DeleteRelease
<1>7. CASE DeleteFinish(i)
  <2>1. Return(i, AfterDelete) /\ UNCHANGED <<locked, status, address>>
    BY <1>7 DEF DeleteFinish
  <2>2. Servers' /\ StatusStep(i)
    BY <2>1 DEF UseInv, Servers, BusyIsLocked, StatusStep
  <2> QED
    BY <2>1, <2>2, ReturnUses, NextIsOutside
<1> QED
  BY <1>1, <1>2, <1>3, <1>4, <1>5, <1>6, <1>7 DEF DeleteServers

LEMMA BootWithFipUses ==
  ASSUME VMInv, UseInv, NEW i \in Iteration, BootWithFip(i)
  PROVE  StepUses(i)
<1>1. PICK s \in Addressed : /\ status[s] = "absent"
                             /\ status' = [status EXCEPT ![s] = "ACTIVE"]
                             /\ cur' = [cur EXCEPT ![i] = <<[srv |-> s, fip |-> s]>>]
  BY DEF BootWithFip
<1>2. s \in Object /\ UNCHANGED <<locked, held, address, todo>> /\ pc[i] = "boot_fip"
  BY ServersAssumption DEF BootWithFip
<1>3. /\ Servers' /\ StatusStep(i)
      /\ \A t \in Object : status'[t] = IF t = s THEN "ACTIVE" ELSE status[t]
  BY <1>1, <1>2, NewServer
<1>4. pc'[i] = "boot_attach" /\ cur'[i] = <<[srv |-> s, fip |-> s]>> /\ todo'[i] = todo[i]
  BY <1>1, <1>2 DEF BootWithFip, VMInv, TypeOK, Goto
<1>5. /\ Working(i)' = {}
      /\ "boot_attach" \notin ListedPlain \cup ListedWithFip \cup DeletePoints
  BY <1>4 DEF Working, SinglePoints, SwapPoints, ListedPlain, ListedWithFip, DeletePoints
<1>6. \A e \in todo[i] : e.srv \in Object
  BY DEF VMInv, TypeOK, Entry
<1>7. \A e \in todo[i] : status'[e.srv] # "absent"
  BY <1>3, <1>6 DEF UseInv, Uses
<1>8. Uses(i)'
  BY <1>2, <1>3, <1>4, <1>5, <1>7 DEF Uses
<1> QED
  BY <1>2, <1>3, <1>8 DEF StepUses

LEMMA BootPingUses ==
  ASSUME VMInv, UseInv, NEW i \in Iteration, BootPing(i)
  PROVE  StepUses(i)
<1>1. pc[i] = "boot_ping" /\ UNCHANGED <<locked, held, status, address>>
  BY DEF BootPing
<1>2. Servers' /\ StatusStep(i)
  BY <1>1 DEF UseInv, Servers, BusyIsLocked, StatusStep
<1>3. CASE Return(i, AfterBootFip)
  BY <1>2, <1>3, ReturnUses, NextIsOutside
<1>4. CASE Goto(i, "failed") /\ UNCHANGED <<todo, cur>>
  BY <1>1, <1>4, MoveUses DEF SameUse, OutPoints
<1>5. CASE cur' = [cur EXCEPT ![i] = <<>>] /\ Goto(i, "boot_fip") /\ UNCHANGED todo
  <2>1. pc'[i] = "boot_fip" /\ cur'[i] = <<>> /\ todo'[i] = todo[i]
    BY <1>5 DEF VMInv, TypeOK, Goto
  <2>2. "boot_fip" \in OutPoints
    BY DEF OutPoints
  <2>3. Working(i)' = {}
    BY <2>1, <2>2, Outside DEF Working
  <2>4. Uses(i)'
    BY <1>1, <2>1, <2>2, <2>3, Outside DEF UseInv, Uses
  <2> QED
    BY <1>2, <1>5, <2>4 DEF StepUses
<1> QED
  BY <1>3, <1>4, <1>5 DEF BootPing

(* The server in hand is one tagged to have a floating IP, and exists. *)
LEMMA FipInHand ==
  ASSUME VMInv, UseInv, NEW i \in Iteration, pc[i] \in FipPoints, NEW k \in DOMAIN cur[i]
  PROVE  cur[i][k].srv \in Addressed /\ status[cur[i][k].srv] # "absent"
BY DEF UseInv, Uses

LEMMA BootServersWithFipUses ==
  ASSUME VMInv, UseInv, NEW i \in Iteration, BootServersWithFip(i)
  PROVE  StepUses(i)
<1>1. CASE BootWithFip(i)
  BY <1>1, BootWithFipUses
<1>2. CASE BootAttach(i)
  <2>1. pc[i] = "boot_attach"
    BY <1>2 DEF BootAttach, Associate
  <2>2. 1 \in DOMAIN cur[i]
    BY <2>1, OneInHand DEF UnlockedPoints, VMInv, TypeOK
  <2>3. Mine(i).srv \in Addressed /\ status[Mine(i).srv] # "absent"
    BY <2>1, <2>2, FipInHand DEF Mine, FipPoints, UnlockedPoints
  <2> QED
    BY <1>2, <2>3, AssociateUses DEF BootAttach, SameUse
<1>3. CASE BootPing(i)
  BY <1>3, BootPingUses
<1> QED
  BY <1>1, <1>2, <1>3 DEF BootServersWithFip

LEMMA MigrateServersUses ==
  ASSUME VMInv, UseInv, NEW i \in Iteration, MigrateServers(i)
  PROVE  StepUses(i)
<1> USE ExpectedStatus DEF SinglePoints, DeletePoints, OutPoints
<1>1. CASE MigrateList(i)
  BY <1>1, SampleUses DEF MigrateList, WithFip
<1>2. CASE MigrateTry(i)
  BY <1>2, TryListedUses DEF MigrateTry
<1>3. CASE MigratePingBefore(i)
  BY <1>3, AwaitPingUses DEF MigratePingBefore, SameUse
<1>4. CASE MigrateCall(i)
  BY <1>4, NovaCallUses DEF MigrateCall
<1>5. CASE MigrateWait(i)
  BY <1>5, NovaCallUses DEF MigrateWait
<1>6. CASE MigrateConfirm(i)
  BY <1>6, NovaCallUses DEF MigrateConfirm
<1>7. CASE MigratePingAfter(i)
  BY <1>7, AwaitPingUses DEF MigratePingAfter, SameUse
<1>8. CASE MigrateRelease(i)
  BY <1>8, ReleaseListedUses DEF MigrateRelease
<1>9. CASE MigrateFinish(i)
  BY <1>9, FinishUses, NextIsOutside DEF MigrateFinish
<1> QED
  BY <1>1, <1>2, <1>3, <1>4, <1>5, <1>6, <1>7, <1>8, <1>9 DEF MigrateServers
LEMMA SwapListUses ==
  ASSUME VMInv, UseInv, NEW i \in Iteration, SwapList(i)
  PROVE  StepUses(i)
<1> DEFINE S == {t \in Addressed : address[t] # NoFip}
<1>1. S \in SUBSET Object /\ S \subseteq Addressed
  BY ServersAssumption
<1>2. \A t \in S : status[t] # "absent"
  BY <1>1 DEF UseInv, Servers
<1>3. /\ todo' = [todo EXCEPT ![i] = {[srv |-> t, fip |-> address[t]] : t \in S}]
      /\ pc[i] = "swap_list" /\ Goto(i, "swap_loop")
      /\ UNCHANGED <<locked, status, address, cur>>
  BY DEF SwapList
<1>4. cur[i] = <<>>
  BY <1>3 DEF VMInv, InHand, Fits
<1> HIDE DEF S
<1>5. pc[i] \in OutPoints
  BY <1>3 DEF OutPoints
<1> QED
  BY <1>1, <1>2, <1>3, <1>4, <1>5, ListUses

LEMMA SwapTryUses ==
  ASSUME VMInv, UseInv, NEW i \in Iteration, SwapTry(i)
  PROVE  StepUses(i)
<1>1. PICK e \in todo[i] :
        /\ todo' = [todo EXCEPT ![i] = @ \ {e}]
        /\ \/ Refused(e.srv) /\ UNCHANGED <<pc, cur>>
           \/ /\ Acquired(i, e.srv)
              /\ cur' = [cur EXCEPT ![i] = Append(@, e)]
              /\ Goto(i, IF Len(cur[i]) = 1 THEN "swap_off_1" ELSE "swap_loop")
  BY DEF SwapTry
<1>2. pc[i] = "swap_loop" /\ UNCHANGED <<status, address>>
  BY DEF SwapTry
<1>3. /\ todo'[i] = todo[i] \ {e}
      /\ \A j \in Iteration \ {i} : todo'[j] = todo[j]
  BY <1>1 DEF VMInv, TypeOK
<1>4. Uses(i) /\ Servers
  BY DEF UseInv
<1>5. StatusStep(i)
  BY <1>2 DEF StatusStep
<1>6. locked \subseteq locked'
  BY <1>1 DEF Refused, Acquired, lockVars
<1>7. Servers'
  BY <1>2, <1>4, <1>6 DEF Servers, BusyIsLocked
<1>8. e \in Entry /\ e.srv \in Object
  <2>1. e \in Entry
    BY <1>1 DEF VMInv, TypeOK
  <2> QED
    BY <2>1 DEF Entry
<1>9. CASE Refused(e.srv) /\ UNCHANGED <<pc, cur>>
  <2>1. Working(i)' = Working(i)
    BY <1>9 DEF Working, Mine
  <2>2. Uses(i)'
    BY <1>2, <1>3, <1>4, <1>9, <2>1 DEF Uses
  <2> QED
    BY <1>3, <1>5, <1>7, <2>2 DEF StepUses
<1>10. ASSUME Acquired(i, e.srv), cur' = [cur EXCEPT ![i] = Append(@, e)],
              NEW l \in {"swap_off_1", "swap_loop"},
              l = IF Len(cur[i]) = 1 THEN "swap_off_1" ELSE "swap_loop", Goto(i, l)
       PROVE  StepUses(i)
  <2>1. pc'[i] = l /\ cur'[i] = Append(cur[i], e)
    BY <1>10 DEF VMInv, TypeOK, Goto
  <2>2. /\ l \in FipPoints /\ l \notin DeletePoints /\ l \notin ListedPlain
        /\ "swap_loop" \in ListedWithFip /\ "swap_loop" \in FipPoints
        /\ l \in SwapPoints \cup {"swap_release_2", "swap_loop"}
    BY <1>10 DEF SinglePoints, SwapPoints, DeletePoints, FipPoints, UnlockedPoints, ListedPlain,
                 ListedWithFip
  <2>3. e.srv \in Addressed /\ status[e.srv] = "ACTIVE"
    <3>1. e.srv \in Addressed /\ status[e.srv] # "absent"
      BY <1>2, <1>4, <2>2 DEF Uses
    <3> QED
      BY <1>8, <1>10, <3>1, FreeServer DEF Acquired
  <2>4. cur[i] = <<>> \/ Len(cur[i]) = 1
    BY <1>2 DEF VMInv, InHand, Fits
  <2>5. cur[i] \in Seq(Entry)
    BY DEF VMInv, TypeOK
  <2>6. \A k \in DOMAIN cur[i] : /\ status[cur[i][k].srv] = "ACTIVE"
                                 /\ cur[i][k].srv \in Addressed
    <3>1. Working(i) = {cur[i][k].srv : k \in DOMAIN cur[i]}
      BY <1>2, Regions DEF Working
    <3> QED
      BY <1>2, <1>4, <2>2, <3>1, ExpectedStatus DEF Uses
  <2>7. \A k \in DOMAIN cur'[i] : \/ k \in DOMAIN cur[i] /\ cur'[i][k] = cur[i][k]
                                  \/ cur'[i][k] = e
    BY <1>8, <2>1, <2>4, <2>5
  <2>8. \A k \in DOMAIN cur'[i] : /\ status'[cur'[i][k].srv] = "ACTIVE"
                                  /\ cur'[i][k].srv \in Addressed
    BY <1>2, <2>3, <2>6, <2>7
  <2>9. Working(i)' \subseteq {cur'[i][k].srv : k \in DOMAIN cur'[i]}
    <3>1. CASE l = "swap_loop"
      BY <2>1, <3>1, Regions DEF Working
    <3>2. CASE l = "swap_off_1"
      <4>1. Len(cur[i]) = 1
        BY <1>10, <3>2
      <4>2. 1 \in DOMAIN cur'[i] /\ 2 \in DOMAIN cur'[i]
        BY <1>8, <2>1, <2>5, <4>1
      <4>3. l \in SwapPoints /\ l \notin SinglePoints
        BY <3>2 DEF SwapPoints, SinglePoints
      <4>4. Working(i)' = {cur'[i][1].srv, cur'[i][2].srv}
        BY <2>1, <4>3 DEF Working
      <4> QED
        BY <4>2, <4>4
    <3> QED
      BY <1>10, <3>1, <3>2
  <2>10. \A s \in Working(i)' : status'[s] \in Expected(l)
    BY <2>2, <2>8, <2>9, ExpectedStatus
  <2>11. \A x \in todo'[i] : status'[x.srv] # "absent" /\ x.srv \in Addressed
    BY <1>2, <1>3, <1>4, <2>2 DEF Uses
  <2>12. Uses(i)'
    BY <2>1, <2>2, <2>8, <2>10, <2>11 DEF Uses
  <2> QED
    BY <1>3, <1>5, <1>7, <2>12 DEF StepUses
<1> QED
  BY <1>1, <1>9, <1>10

LEMMA SwapRelease1Uses ==
  ASSUME VMInv, UseInv, NEW i \in Iteration, SwapRelease1(i)
  PROVE  StepUses(i)
<1>1. /\ pc[i] = "swap_release_1" /\ Release(i, cur[i][1].srv) /\ Goto(i, "swap_release_2")
      /\ UNCHANGED <<status, address, todo, cur>>
  BY DEF SwapRelease1
<1>2. pc[i] \in SwapPoints /\ cur[i][1].srv \in Working(i)
  BY <1>1 DEF Working, SwapPoints, SinglePoints
<1>3. status[cur[i][1].srv] \notin Busy
  BY <1>2, ExpectedStatus DEF UseInv, Uses, Busy
<1>4. SameUse(pc[i], "swap_release_2")
  BY <1>2 DEF SameUse
<1> QED
  BY <1>1, <1>3, <1>4, SameUseKeeps, ReleaseKeepsServers DEF StepUses

LEMMA SwapRelease2Uses ==
  ASSUME VMInv, UseInv, NEW i \in Iteration, SwapRelease2(i)
  PROVE  StepUses(i)
<1>1. /\ pc[i] = "swap_release_2" /\ Release(i, cur[i][2].srv) /\ Return(i, AfterSwap)
      /\ UNCHANGED <<status, address>>
  BY DEF SwapRelease2
<1>2. cur[i][2].srv \in Working(i)
  BY <1>1 DEF Working, SwapPoints, SinglePoints
<1>3. status[cur[i][2].srv] \notin Busy
  BY <1>1, <1>2, ExpectedStatus DEF UseInv, Uses, Busy
<1> QED
  BY <1>1, <1>3, ReleaseKeepsServers, ReturnUses, NextIsOutside

LEMMA SwapFloatingIpsUses ==
  ASSUME VMInv, UseInv, NEW i \in Iteration, SwapFloatingIps(i)
  PROVE  StepUses(i)
<1>1. CASE SwapList(i)
  BY <1>1, SwapListUses
<1>2. CASE SwapTry(i)
  BY <1>2, SwapTryUses
<1>3. CASE SwapShort(i)
  <2>1. Return(i, AfterSwap) /\ UNCHANGED <<locked, status, address>>
    BY <1>3 DEF SwapShort
  <2>2. Servers' /\ StatusStep(i)
    BY <2>1 DEF UseInv, Servers, BusyIsLocked, StatusStep
  <2> QED
    BY <2>1, <2>2, ReturnUses, NextIsOutside
<1>4. CASE SwapOff1(i) \/ SwapOff2(i)
  BY <1>4, DissociateUses DEF SwapOff1, SwapOff2, SameUse, SwapPoints
<1>5. CASE SwapDown1(i) \/ SwapDown2(i)
  BY <1>5, AwaitPingUses DEF SwapDown1, SwapDown2, SameUse, SwapPoints
<1>6. CASE SwapOn1(i) \/ SwapOn2(i)
  <2>1. pc[i] \in SwapPoints
    BY <1>6 DEF SwapOn1, SwapOn2, Associate, SwapPoints
  <2>2. 1 \in DOMAIN cur[i] /\ 2 \in DOMAIN cur[i]
    BY <2>1 DEF VMInv, TypeOK, InHand, Fits
  <2>3. /\ cur[i][1].srv \in Addressed /\ status[cur[i][1].srv] # "absent"
        /\ cur[i][2].srv \in Addressed /\ status[cur[i][2].srv] # "absent"
    BY <2>1, <2>2, FipInHand, Regions
  <2>4. CASE SwapOn1(i)
    BY <2>3, <2>4, AssociateUses DEF SwapOn1, SameUse, SwapPoints
  <2>5. CASE SwapOn2(i)
    BY <2>3, <2>5, AssociateUses DEF SwapOn2, SameUse, SwapPoints
  <2> QED
    BY <1>6, <2>4, <2>5
<1>7. CASE SwapUp1(i) \/ SwapUp2(i)
  BY <1>7, AwaitPingUses DEF SwapUp1, SwapUp2, SameUse, SwapPoints
<1>8. CASE SwapRelease1(i)
  BY <1>8, SwapRelease1Uses
<1>9. CASE SwapRelease2(i)
  BY <1>9, SwapRelease2Uses
<1> QED
  BY <1>1, <1>2, <1>3, <1>4, <1>5, <1>6, <1>7, <1>8, <1>9 DEF SwapFloatingIps

LEMMA StopShowUses ==
  ASSUME VMInv, UseInv, NEW i \in Iteration, StopShow(i)
  PROVE  StepUses(i)
<1>1. PICK e \in todo[i] :
        /\ todo' = [todo EXCEPT ![i] = @ \ {e}]
        /\ cur' = [cur EXCEPT ![i] = <<[e EXCEPT !.fip = address[e.srv]]>>]
  BY DEF StopShow
<1>2. pc[i] = "stop_loop" /\ UNCHANGED <<locked, status, address>>
  BY DEF StopShow
<1>3. e \in Entry
  BY <1>1 DEF VMInv, TypeOK
<1>4. [e EXCEPT !.fip = address[e.srv]].srv = e.srv
  BY <1>3 DEF Entry
<1>5. /\ pc'[i] = "stop_acquire" /\ todo'[i] = todo[i] \ {e}
      /\ cur'[i] = <<[e EXCEPT !.fip = address[e.srv]]>>
      /\ \A j \in Iteration \ {i} : todo'[j] = todo[j]
  BY <1>1 DEF StopShow, VMInv, TypeOK, Goto
<1>6. /\ "stop_loop" \in ListedWithFip /\ "stop_acquire" \notin ListedPlain \cup DeletePoints
      /\ "stop_acquire" \notin SinglePoints \cup SwapPoints
  BY DEF SinglePoints, SwapPoints, DeletePoints, ListedPlain, ListedWithFip
<1>7. Uses(i)
  BY DEF UseInv
<1>8. status[e.srv] # "absent" /\ e.srv \in Addressed
  BY <1>1, <1>2, <1>6, <1>7 DEF Uses
<1>9. Working(i)' = {}
  BY <1>5, <1>6 DEF Working
<1>10. \A x \in todo'[i] : status'[x.srv] # "absent" /\ x.srv \in Addressed
  BY <1>2, <1>5, <1>6, <1>7 DEF Uses
<1>11. \A k \in DOMAIN cur'[i] : /\ status'[cur'[i][k].srv] # "absent"
                                 /\ cur'[i][k].srv \in Addressed
  <2>1. PICK x : cur'[i] = <<x>> /\ x.srv = e.srv
    BY <1>4, <1>5
  <2>2. \A k \in DOMAIN cur'[i] : cur'[i][k] = x
    BY <2>1
  <2>3. \A k \in DOMAIN cur'[i] : cur'[i][k].srv = e.srv
    BY <2>1, <2>2
  <2> QED
    BY <1>2, <1>8, <2>3
<1>12. Uses(i)'
  BY <1>5, <1>6, <1>9, <1>10, <1>11 DEF Uses
<1>13. Servers' /\ StatusStep(i)
  BY <1>2 DEF UseInv, Servers, BusyIsLocked, StatusStep
<1> QED
  BY <1>5, <1>12, <1>13 DEF StepUses

LEMMA StopAcquireUses ==
  ASSUME VMInv, UseInv, NEW i \in Iteration, StopAcquire(i)
  PROVE  StepUses(i)
<1>1. pc[i] = "stop_acquire" /\ UNCHANGED <<status, address, todo>>
  BY DEF StopAcquire
<1>2. Uses(i) /\ Servers
  BY DEF UseInv
<1>3. /\ {"stop_acquire", "stop_loop", "stop_call"} \subseteq ListedWithFip
      /\ "stop_loop" \notin SinglePoints \cup SwapPoints \cup ListedPlain
      /\ "stop_call" \notin DeletePoints \cup ListedPlain /\ "stop_call" \in SinglePoints
      /\ "stop_call" \in FipPoints /\ "stop_acquire" \in FipPoints
  BY DEF SinglePoints, SwapPoints, DeletePoints, FipPoints, UnlockedPoints, ListedPlain,
         ListedWithFip
<1>4. locked \subseteq locked'
  BY DEF StopAcquire, Refused, Acquired, lockVars
<1>5. Servers' /\ StatusStep(i)
  BY <1>1, <1>2, <1>4 DEF Servers, BusyIsLocked, StatusStep
<1>6. CASE cur' = [cur EXCEPT ![i] = <<>>] /\ Goto(i, "stop_loop")
  <2>1. pc'[i] = "stop_loop" /\ cur'[i] = <<>> /\ todo'[i] = todo[i]
    BY <1>1, <1>6 DEF VMInv, TypeOK, Goto
  <2>2. Working(i)' = {}
    BY <2>1, <1>3 DEF Working
  <2>3. Uses(i)'
    BY <1>1, <1>2, <1>3, <2>1, <2>2 DEF Uses
  <2> QED
    BY <1>1, <1>5, <2>3 DEF StepUses
<1>7. CASE Acquired(i, Mine(i).srv) /\ UNCHANGED cur /\ Goto(i, "stop_call")
  <2>1. pc'[i] = "stop_call" /\ cur'[i] = cur[i] /\ todo'[i] = todo[i]
    BY <1>1, <1>7 DEF VMInv, TypeOK, Goto
  <2>2. 1 \in DOMAIN cur[i] /\ Mine(i).srv \in Object
    BY <1>1, OneInHand DEF UnlockedPoints, VMInv, TypeOK
  <2>3. status[Mine(i).srv] = "ACTIVE"
    BY <1>1, <1>3, <1>7, <2>2, FipInHand, FreeServer DEF Mine, Acquired
  <2>4. Working(i)' = {Mine(i).srv}
    BY <2>1, <1>3 DEF Working, Mine
  <2>5. Uses(i)'
    BY <1>1, <1>2, <1>3, <2>1, <2>3, <2>4, ExpectedStatus DEF Uses
  <2> QED
    BY <1>1, <1>5, <2>5 DEF StepUses
<1> QED
  BY <1>6, <1>7 DEF StopAcquire

LEMMA StopStartServersUses ==
  ASSUME VMInv, UseInv, NEW i \in Iteration, StopStartServers(i)
  PROVE  StepUses(i)
<1> USE ExpectedStatus DEF SinglePoints, DeletePoints, OutPoints
<1>1. CASE StopList(i)
  BY <1>1, SampleUses DEF StopList, WithFip
<1>2. CASE StopShow(i)
  BY <1>2, StopShowUses
<1>3. CASE StopAcquire(i)
  BY <1>3, StopAcquireUses
<1>4. CASE StopCall(i)
  BY <1>4, NovaCallUses DEF StopCall
<1>5. CASE StopDown(i)
  BY <1>5, AwaitPingUses DEF StopDown, SameUse
<1>6. CASE StopStart(i)
  BY <1>6, NovaCallUses DEF StopStart
<1>7. CASE StopUp(i)
  BY <1>7, AwaitPingUses DEF StopUp, SameUse
<1>8. CASE StopRelease(i)
  BY <1>8, ReleaseListedUses DEF StopRelease
<1>9. CASE StopFinish(i)
  BY <1>9, FinishUses, NextIsOutside DEF StopFinish
<1> QED
  BY <1>1, <1>2, <1>3, <1>4, <1>5, <1>6, <1>7, <1>8, <1>9 DEF StopStartServers

--------------------------------------------------------------------------------
(* The invariant. *)

LEMMA InitUses == Init => UseInv
<1> SUFFICES ASSUME Init PROVE UseInv
  OBVIOUS
<1>1. /\ \A s \in Object : status[s] \in {"ACTIVE", "absent"}
      /\ \A s \in Object : address[s] # NoFip => s \in Addressed /\ status[s] # "absent"
  BY DEF Init
<1>2. Servers
  BY <1>1 DEF Servers, BusyIsLocked, Busy
<1>3. ASSUME NEW i \in Iteration PROVE Uses(i)
  <2>1. pc[i] \in OutPoints /\ todo[i] = {} /\ cur[i] = <<>>
    BY NextIsOutside DEF Init
  <2>2. Working(i) = {}
    BY <2>1, Outside DEF Working
  <2> QED
    BY <2>1, <2>2 DEF Uses
<1> QED
  BY <1>2, <1>3 DEF UseInv

LEMMA NextUses == VMInv /\ UseInv /\ [Next]_vars => UseInv'
<1> SUFFICES ASSUME VMInv, UseInv, [Next]_vars PROVE UseInv'
  OBVIOUS
<1>1. ASSUME NEW i \in Iteration, Step(i) PROVE UseInv'
  <2>1. StepUses(i)
    BY <1>1, DeleteServersUses, BootServersWithFipUses, MigrateServersUses,
       SwapFloatingIpsUses, StopStartServersUses DEF Step
  <2> QED
    BY <1>1, <2>1, StepAfter, OthersKeep
<1>2. ASSUME NEW i \in Iteration, Raise(i) PROVE UseInv'
  <2>1. StepUses(i)
    BY <1>2, MoveUses DEF Raise, SameUse, OutPoints
  <2> QED
    BY <1>2, <2>1, StepAfter, OthersKeep
<1>3. CASE UNCHANGED vars
  BY <1>3 DEF vars, UseInv, Servers, BusyIsLocked, Uses, Working, Mine
<1> QED
  BY <1>1, <1>2, <1>3 DEF Next, Terminated

(***************************************************************************)
(* No call on a server is refused because of another iteration, and what a  *)
(* failure leaves half migrated or stopped stays locked, for any number of  *)
(* iterations and servers.                                                  *)
(***************************************************************************)
THEOREM EachServerUsedAlone == Spec => []ServersUsedAlone
<1>1. UseInv => ServersUsedAlone
  BY DEF UseInv, Uses, Servers, ServersUsedAlone, CallsAccepted
<1> QED
  BY <1>1, Invariance, InitUses, NextUses, PTL DEF Spec
================================================================================
