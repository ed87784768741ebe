-------------------------- MODULE TrunkWorkload_proofs --------------------------
(***************************************************************************)
(* Proofs about TrunkWorkload for any iterations and trunks, any selection  *)
(* of workloads and any number of faults: its type invariant, that trunks   *)
(* are worked on alone and given back unless a creator's lock was refused,  *)
(* and that a free trunk's subports are numbered as the code counts them.   *)
(***************************************************************************)
EXTENDS TrunkWorkload, LockTable_proofs, FiniteSetTheorems, SequenceTheorems, TLAPS

(* Points with one trunk in hand, with two, and with none. *)
HandPoints == {"pod_acquire"} \cup PodPoints \cup OnePoints
PairPoints == {"swap_server", "swap_route", "swap_release_1", "swap_release_2"}
EmptyPoints == {"add_list", "add_loop", "delete_list", "delete_loop", "swap_list"}

Fits(l, c) == /\ l \in HandPoints => Len(c) = 1
              /\ l \in PairPoints => Len(c) = 2
              /\ l = "swap_loop" => Len(c) <= 1
              /\ l \in EmptyPoints => c = <<>>

(* Subports numbered from 1, and an interface for each unless a command failed. *)
Numbered(s) == \A n \in DOMAIN s : s[n] = n
Tidy(t) == /\ Numbered(subports[t])
           /\ linkErrors = 0 => links[t] = DOMAIN subports[t]

(* Points between the subport and its interface. *)
Trailing == {"pod_link", "add_link", "delete_subport"}

(***************************************************************************)
(* What is so for iteration i at each point while no creator's lock has     *)
(* been refused: it holds what it works on, and its counters agree with     *)
(* the subports of the trunk it works on.                                   *)
(***************************************************************************)
Spot(i) ==
  /\ pc[i] # "failed" => held[i] = Working(i)
  /\ pc[i] \in PairPoints => cur[i][1] # cur[i][2]
  /\ pc[i] \notin Trailing => \A t \in Working(i) : Tidy(t)
  /\ pc[i] \in {"pod_subport", "add_subport", "add_server"} =>
       Len(seen[i]) + done[i] <= Len(subports[Mine(i)])
  /\ pc[i] \in Trailing =>
       /\ Numbered(subports[Mine(i)])
       /\ Len(subports[Mine(i)]) > 0
       /\ linkErrors = 0 => links[Mine(i)] = 1..(Len(subports[Mine(i)]) - 1)
  /\ pc[i] \in {"pod_link", "add_link"} => Len(subports[Mine(i)]) = Segment(i)
  /\ pc[i] \in {"delete_server", "delete_link", "delete_subport"} =>
       /\ Numbered(seen[i])
       /\ Len(subports[Mine(i)]) + done[i] = Len(seen[i])

Orderly == /\ LockOwnership
           /\ \A i \in Iteration : Spot(i)
           /\ \A t \in Object \ locked : Tidy(t)

TrunkInv == /\ TypeOK
            /\ IsFiniteSet(trunks)
            /\ \A i \in Iteration : Fits(pc[i], cur[i])
            /\ raced \/ Orderly

(* What every step of i must give. *)
Typed(i) ==
  /\ TypeOK' /\ IsFiniteSet(trunks')
  /\ Fits(pc'[i], cur'[i])
  /\ \A j \in Iteration \ {i} : /\ pc'[j] = pc[j] /\ cur'[j] = cur[j]
                                /\ seen'[j] = seen[j] /\ done'[j] = done[j]

Keeps(i) ==
  ~raced' =>
    /\ ~raced /\ LockStep(i) /\ Spot(i)'
    /\ linkErrors' = 0 => linkErrors = 0
    /\ \A t \in Object \ held[i] : subports'[t] = subports[t] /\ links'[t] = links[t]
    /\ \A t \in held[i] \ held'[i] : Tidy(t)'

After(i) == Typed(i) /\ Keeps(i)

--------------------------------------------------------------------------------
(* Sequences. *)

LEMMA NextSegment ==
  ASSUME NEW s \in Seq(Nat), Numbered(s), NEW k \in Nat \ {0}, k - 1 <= Len(s),
         k \notin {s[n] : n \in DOMAIN s}
  PROVE  k = Len(s) + 1
<1>1. DOMAIN s = 1..Len(s) /\ Len(s) \in Nat
  OBVIOUS
<1>2. k \notin 1..Len(s)
  BY <1>1 DEF Numbered
<1> QED
  BY <1>1, <1>2

LEMMA AppendNumbered ==
  ASSUME NEW s \in Seq(Nat), Numbered(s)
  PROVE  /\ Append(s, Len(s) + 1) \in Seq(Nat)
         /\ Numbered(Append(s, Len(s) + 1))
         /\ Len(Append(s, Len(s) + 1)) = Len(s) + 1
BY DEF Numbered

LEMMA WithoutType ==
  ASSUME NEW s \in Seq(Nat), NEW e
  PROVE  Without(s, e) \in Seq(Nat)
<1>1. CASE \E n \in DOMAIN s : s[n] = e
  <2>1. PICK n \in DOMAIN s :
          Without(s, e) = SubSeq(s, 1, n - 1) \o SubSeq(s, n + 1, Len(s))
    BY <1>1 DEF Without
  <2>2. n \in 1..Len(s) /\ Len(s) \in Nat
    OBVIOUS
  <2>3. SubSeq(s, 1, n - 1) \in Seq(Nat) /\ SubSeq(s, n + 1, Len(s)) \in Seq(Nat)
    BY <2>2, SubSeqProperties, SMTT(30)
  <2>4. SubSeq(s, 1, n - 1) \o SubSeq(s, n + 1, Len(s)) \in Seq(Nat)
    BY <2>3, ConcatProperties
  <2> QED
    BY <2>1, <2>4
<1> QED
  BY <1>1 DEF Without

LEMMA WithoutLast ==
  ASSUME NEW s \in Seq(Nat), Numbered(s), Len(s) > 0
  PROVE  /\ Numbered(Without(s, Len(s)))
         /\ Len(Without(s, Len(s))) = Len(s) - 1
<1>1. DOMAIN s = 1..Len(s) /\ Len(s) \in Nat /\ Len(s) \in 1..Len(s)
  OBVIOUS
<1>2. \A n \in DOMAIN s : s[n] = Len(s) <=> n = Len(s)
  BY <1>1 DEF Numbered
<1>3. Without(s, Len(s)) = SubSeq(s, 1, Len(s) - 1) \o SubSeq(s, Len(s) + 1, Len(s))
  BY <1>1, <1>2 DEF Without
<1>4. SubSeq(s, Len(s) + 1, Len(s)) = <<>>
  BY <1>1
<1>5. /\ SubSeq(s, 1, Len(s) - 1) \in Seq(Nat)
      /\ Len(SubSeq(s, 1, Len(s) - 1)) = Len(s) - 1
      /\ \A n \in 1..(Len(s) - 1) : SubSeq(s, 1, Len(s) - 1)[n] = s[n]
  BY <1>1
<1>6. Without(s, Len(s)) = SubSeq(s, 1, Len(s) - 1)
  BY <1>3, <1>4, <1>5
<1> QED
  BY <1>1, <1>5, <1>6 DEF Numbered

--------------------------------------------------------------------------------
(* An iteration works on trunks it holds. *)
LEMMA WorksOnHeld ==
  ASSUME NEW i \in Iteration, Spot(i)
  PROVE  Working(i) \subseteq held[i]
BY DEF Spot, Working, PodPoints, OnePoints, TwoPoints

(* What one iteration does leaves another's trunks as they are. *)
LEMMA OthersKeep ==
  ASSUME TrunkInv, ~raced, NEW i \in Iteration, Typed(i), Keeps(i), ~raced',
         NEW j \in Iteration \ {i}
  PROVE  Spot(j)'
<1>1. Spot(j) /\ LockOwnership /\ LockTypeOK
  BY DEF TrunkInv, Orderly, TypeOK
<1>2. held'[j] = held[j]
  BY <1>1, OwnersStay DEF Keeps
<1>3. pc'[j] = pc[j] /\ cur'[j] = cur[j] /\ seen'[j] = seen[j] /\ done'[j] = done[j]
  BY DEF Typed
<1>4. Working(j)' = Working(j)
  <2>1. Mine(j)' = Mine(j) /\ {cur'[j][n] : n \in DOMAIN cur'[j]} = {cur[j][n] : n \in DOMAIN cur[j]}
    BY <1>3 DEF Mine
  <2> QED
    BY <1>3, <2>1 DEF Working
<1>5. \A t \in Working(j) : subports'[t] = subports[t] /\ links'[t] = links[t]
  <2>1. Working(j) \subseteq Object \ held[i]
    BY <1>1, WorksOnHeld DEF LockOwnership, LockTypeOK
  <2> QED
    BY <2>1 DEF Keeps
<1>6. linkErrors' = 0 => linkErrors = 0
  BY DEF Keeps
<1>7. \A t \in Working(j) : Tidy(t) => Tidy(t)'
  BY <1>5, <1>6 DEF Tidy
<1>8. pc[j] \in PodPoints \cup OnePoints => Mine(j)' = Mine(j) /\ Mine(j) \in Working(j)
  <2>1. Mine(j)' = Mine(j)
    BY <1>3 DEF Mine
  <2>2. pc[j] \in PodPoints \cup OnePoints => Working(j) = {Mine(j)}
    BY DEF Working, PodPoints, OnePoints, TwoPoints
  <2> QED
    BY <2>1, <2>2
<1>9. /\ Trailing \subseteq PodPoints \cup OnePoints
      /\ {"pod_subport", "add_subport", "add_server", "delete_server", "delete_link"}
           \subseteq PodPoints \cup OnePoints
  BY DEF Trailing, PodPoints, OnePoints
<1>10. pc[j] \in PodPoints \cup OnePoints =>
         subports'[Mine(j)'] = subports[Mine(j)] /\ links'[Mine(j)'] = links[Mine(j)]
  BY <1>5, <1>8
<1>11. Segment(j)' = Segment(j)
  BY <1>3 DEF Segment
<1>12. (pc[j] \in Trailing =>
         /\ Numbered(subports[Mine(j)])
         /\ Len(subports[Mine(j)]) > 0
         /\ linkErrors = 0 => links[Mine(j)] = 1..(Len(subports[Mine(j)]) - 1))'
  BY <1>1, <1>3, <1>6, <1>9, <1>10 DEF Spot, Numbered
<1>13. (pc[j] \notin Trailing => \A t \in Working(j) : Tidy(t))'
  BY <1>1, <1>3, <1>4, <1>7 DEF Spot
<1> QED
  BY <1>1, <1>2, <1>3, <1>4, <1>9, <1>10, <1>11, <1>12, <1>13 DEF Spot, Trailing, Numbered

LEMMA AfterKeepsInv ==
  ASSUME TrunkInv, NEW i \in Iteration, After(i)
  PROVE  TrunkInv'
<1>1. Typed(i) /\ Keeps(i)
  BY DEF After
<1>2. \A j \in Iteration : Fits(pc'[j], cur'[j])
  BY <1>1 DEF Typed, TrunkInv
<1>3. ASSUME ~raced' PROVE Orderly'
  <2>1. ~raced /\ Orderly /\ LockStep(i) /\ LockTypeOK
    BY <1>1, <1>3 DEF Keeps, TrunkInv, TypeOK
  <2>2. LockOwnership' /\ locked \ locked' \subseteq held[i] \ held'[i]
    BY <2>1, OwnersStay DEF Orderly
  <2>3. \A j \in Iteration : Spot(j)'
    BY <1>1, <1>3, <2>1, OthersKeep DEF Keeps
  <2>4. ASSUME NEW t \in Object \ locked' PROVE Tidy(t)'
    <3>1. CASE t \in held[i]
      <4>1. t \in held[i] \ held'[i]
        BY <2>2, <2>4, <3>1 DEF LockOwnership
      <4> QED
        BY <1>1, <1>3, <4>1 DEF Keeps
    <3>2. CASE t \notin held[i]
      <4>1. t \notin locked
        BY <2>2, <2>4, <3>2
      <4> QED
        BY <1>1, <1>3, <2>1, <3>2, <4>1 DEF Keeps, Orderly, Tidy
    <3> QED
      BY <3>1, <3>2
  <2> QED
    BY <2>2, <2>3, <2>4 DEF Orderly
<1> QED
  BY <1>1, <1>2, <1>3 DEF Typed, TrunkInv, TypeOK

--------------------------------------------------------------------------------
(* What is so at a point, by the kind of the point. *)

TidyPoints == {"pod_boot", "pod_simulate", "pod_release", "add_show", "add_simulate", "add_release",
               "delete_show", "delete_simulate", "delete_release"}

LEMMA WorkingOne ==
  ASSUME NEW i \in Iteration
  PROVE  /\ pc[i] \in PodPoints \cup OnePoints => Working(i) = {cur[i][1]}
         /\ pc'[i] \in PodPoints \cup OnePoints => Working(i)' = {cur'[i][1]}
BY DEF Working, Mine, PodPoints, OnePoints, TwoPoints

LEMMA WorkingTwo ==
  ASSUME NEW i \in Iteration
  PROVE  /\ pc[i] \in TwoPoints => Working(i) = {cur[i][n] : n \in DOMAIN cur[i]}
         /\ pc'[i] \in TwoPoints => Working(i)' = {cur'[i][n] : n \in DOMAIN cur'[i]}
         /\ pc[i] = "swap_release_2" => Working(i) = {cur[i][2]}
         /\ pc'[i] = "swap_release_2" => Working(i)' = {cur'[i][2]}
BY DEF Working, PodPoints, OnePoints, TwoPoints

LEMMA WorkingNone ==
  ASSUME NEW i \in Iteration
  PROVE  /\ pc[i] \in EmptyPoints \cup {"pod_create", "pod_acquire", "done", "failed"}
              => Working(i) = {}
         /\ pc'[i] \in EmptyPoints \cup {"pod_create", "pod_acquire", "done", "failed"}
              => Working(i)' = {}
BY DEF Working, PodPoints, OnePoints, TwoPoints, EmptyPoints

LEMMA AtFailed ==
  ASSUME NEW i \in Iteration, pc'[i] = "failed"
  PROVE  Spot(i)'
BY WorkingNone DEF Spot, PairPoints, Trailing

LEMMA AtRest ==
  ASSUME NEW i \in Iteration, held'[i] = {},
         pc'[i] \in EmptyPoints \cup {"pod_create", "pod_acquire", "done"}
  PROVE  Spot(i)'
BY WorkingNone DEF Spot, EmptyPoints, PairPoints, Trailing

LEMMA AtTidy ==
  ASSUME NEW i \in Iteration, pc'[i] \in TidyPoints,
         held'[i] = {cur'[i][1]}, Tidy(cur[i][1])'
  PROVE  Spot(i)'
<1>1. Working(i)' = {cur'[i][1]}
  BY WorkingOne DEF TidyPoints, PodPoints, OnePoints
<1> QED
  BY <1>1 DEF Spot, TidyPoints, PairPoints, Trailing

(* A step that only moves iteration i. *)
LEMMA QuietKeeps ==
  ASSUME NEW i \in Iteration, UNCHANGED <<lockVars, subports, links, linkErrors, raced>>,
         ~raced => Spot(i)'
  PROVE  Keeps(i)
BY DEF Keeps, LockStep, lockVars

LEMMA FailedKeeps ==
  ASSUME NEW i \in Iteration, UNCHANGED <<lockVars, subports, links, linkErrors, raced>>,
         pc'[i] = "failed"
  PROVE  Keeps(i)
BY AtFailed, QuietKeeps

(* Moving on with one tidy trunk in hand. *)
LEMMA TidyMove ==
  ASSUME TrunkInv, NEW i \in Iteration,
         UNCHANGED <<lockVars, subports, links, linkErrors, raced, cur>>,
         pc[i] \in TidyPoints \cup {"add_server", "delete_server"}, pc'[i] \in TidyPoints
  PROVE  Keeps(i)
<1>1. pc[i] \in PodPoints \cup OnePoints /\ pc[i] \notin Trailing /\ pc[i] # "failed"
  BY DEF TidyPoints, PodPoints, OnePoints, Trailing
<1>2. ASSUME ~raced PROVE Spot(i)'
  <2>1. held[i] = {cur[i][1]} /\ Tidy(cur[i][1])
    BY <1>1, <1>2, WorkingOne DEF TrunkInv, Orderly, Spot
  <2>2. held'[i] = {cur'[i][1]} /\ Tidy(cur[i][1])'
    BY <2>1 DEF lockVars, Tidy, Numbered
  <2> QED
    BY <2>2, AtTidy
<1> QED
  BY <1>2, QuietKeeps

--------------------------------------------------------------------------------
(* The operators the actions are made of. *)

LEMMA RaiseOK ==
  ASSUME TrunkInv, NEW i \in Iteration, Raise(i)
  PROVE  After(i)
<1>1. Typed(i)
  BY SMTT(30) DEF TrunkInv, TypeOK, LockTypeOK, Typed, Raise, Goto, cloud, locals, Fits, HandPoints,
         PodPoints, OnePoints, PairPoints, EmptyPoints, LocalPoints, Stopped
<1>2. Keeps(i)
  BY FailedKeeps DEF TrunkInv, TypeOK, Raise, Goto, cloud, lockVars
<1> QED
  BY <1>1, <1>2 DEF After

LEMMA ListOK ==
  ASSUME TrunkInv, NEW i \in Iteration, NEW from \in EmptyPoints, NEW S, S \subseteq Object,
         NEW n \in Nat, NEW loop \in {"add_loop", "delete_loop", "swap_loop"},
         List(i, from, S, n, loop), count' \in [Iteration -> Nat]
  PROVE  After(i)
<1>1. cur[i] = <<>> /\ pc[i] \in EmptyPoints
  BY DEF TrunkInv, List, Fits
<1>2. PICK q \in Arrangements(S, n) : todo' = [todo EXCEPT ![i] = q]
  BY DEF List
<1>3. q \in Seq(Object)
  BY <1>2 DEF Arrangements
<1>4. Typed(i)
  <2>1. /\ todo' \in [Iteration -> Seq(Object)]
        /\ pc' \in [Iteration -> LocalPoints \cup CallPoints]
        /\ pc'[i] = loop
    BY <1>2, <1>3 DEF TrunkInv, TypeOK, List, Goto, LocalPoints
  <2>2. TypeOK' /\ IsFiniteSet(trunks')
    BY <2>1 DEF TrunkInv, TypeOK, LockTypeOK, List, cloud, bounds
  <2>3. Fits(pc'[i], cur'[i])
    BY <1>1, <2>1 DEF List, Fits, HandPoints, PodPoints, OnePoints, PairPoints, EmptyPoints
  <2> QED
    BY <2>2, <2>3 DEF Typed, List, Goto, TrunkInv, TypeOK
<1>5. ASSUME ~raced PROVE Spot(i)'
  <2>1. held[i] = {}
    BY <1>1, <1>5, WorkingNone DEF TrunkInv, Orderly, Spot, EmptyPoints
  <2>2. held'[i] = {} /\ cur'[i] = <<>> /\ pc'[i] = loop
    BY <1>1, <2>1 DEF List, Goto, TrunkInv, TypeOK
  <2>3. CASE loop = "swap_loop"
    <3>1. Working(i)' = {}
      BY <2>2, <2>3, WorkingTwo DEF TwoPoints
    <3> QED
      BY <2>2, <2>3, <3>1 DEF Spot, PairPoints, Trailing
  <2> QED
    BY <2>2, <2>3, AtRest DEF EmptyPoints
<1>6. Keeps(i)
  BY <1>5, QuietKeeps DEF List, cloud, bounds, lockVars
<1> QED
  BY <1>4, <1>6 DEF After

LEMMA TryTrunkOK ==
  ASSUME TrunkInv, NEW i \in Iteration, NEW loop \in {"add_loop", "delete_loop"},
         NEW body \in {"add_show", "delete_show"}, TryTrunk(i, loop, body)
  PROVE  After(i)
<1> DEFINE t == Head(todo[i])
<1>1. cur[i] = <<>> /\ pc[i] = loop /\ loop \in EmptyPoints
  BY DEF TrunkInv, TryTrunk, Fits, EmptyPoints
<1>2. t \in Object /\ Tail(todo[i]) \in Seq(Object)
  BY DEF TrunkInv, TypeOK, TryTrunk
<1>3. CASE Refused(t) /\ UNCHANGED <<pc, cur>>
  <2>1. Typed(i)
    BY <1>2, <1>3 DEF TrunkInv, TypeOK, LockTypeOK, Typed, TryTrunk, Refused, lockVars, cloud,
       bounds
  <2>2. ASSUME ~raced PROVE Spot(i)'
    <3>1. held[i] = {}
      BY <1>1, <2>2, WorkingNone DEF TrunkInv, Orderly, Spot, EmptyPoints
    <3> QED
      BY <1>1, <1>3, <3>1, AtRest DEF Refused, lockVars
  <2>3. Keeps(i)
    BY <1>3, <2>2, QuietKeeps DEF TryTrunk, Refused, cloud, bounds
  <2> QED
    BY <2>1, <2>3 DEF After
<1>4. CASE Acquired(i, t) /\ cur' = [cur EXCEPT ![i] = Append(@, t)] /\ Goto(i, body)
  <2>1. cur'[i] = <<t>> /\ pc'[i] = body /\ t \notin locked
    BY <1>1, <1>2, <1>4 DEF TrunkInv, TypeOK, Goto, Acquired
  <2>2. Typed(i)
    <3>1. Append(cur[i], t) \in Seq(Object)
      BY <1>2 DEF TrunkInv, TypeOK
    <3>2. TypeOK'
      BY <1>2, <1>4, <3>1 DEF TrunkInv, TypeOK, LockTypeOK, TryTrunk, Acquired, Goto, cloud,
         bounds, CallPoints
    <3>3. Fits(pc'[i], cur'[i])
      BY <2>1 DEF Fits, HandPoints, PairPoints, EmptyPoints
    <3> QED
      BY <1>4, <3>2, <3>3 DEF Typed, TryTrunk, Goto, cloud, TrunkInv, TypeOK
  <2>3. ASSUME ~raced PROVE Spot(i)' /\ held[i] = {}
    <3>1. held[i] = {} /\ Tidy(t)
      BY <1>1, <1>2, <2>1, <2>3, WorkingNone DEF TrunkInv, Orderly, Spot, EmptyPoints
    <3>2. held'[i] = {t} /\ cur'[i][1] = t
      <4>1. held' = [held EXCEPT ![i] = @ \cup {t}] /\ held \in [Iteration -> SUBSET Object]
        BY <1>4 DEF Acquired, TrunkInv, TypeOK, LockTypeOK
      <4> QED
        BY <2>1, <3>1, <4>1
    <3>3. \A u \in Object : Tidy(u) => Tidy(u)'
      BY <1>4 DEF TryTrunk, Tidy, Numbered, cloud, bounds
    <3>4. Tidy(cur[i][1])'
      BY <1>2, <3>1, <3>2, <3>3 DEF Tidy, Numbered
    <3> QED
      BY <2>1, <3>1, <3>2, <3>4, AtTidy DEF TidyPoints
  <2>4. Keeps(i)
    BY <1>2, <1>4, <2>3 DEF Keeps, LockStep, TryTrunk, cloud, bounds
  <2> QED
    BY <2>2, <2>4 DEF After
<1> QED
  BY <1>3, <1>4 DEF TryTrunk

(* The trunk in hand. *)
LEMMA InHand ==
  ASSUME TrunkInv, NEW i \in Iteration, pc[i] \in HandPoints
  PROVE  /\ Mine(i) \in Object /\ Mine(i) = cur[i][1]
         /\ subports[Mine(i)] \in Seq(Nat) /\ links[Mine(i)] \subseteq Nat
         /\ seen[i] \in Seq(Nat) /\ done[i] \in Nat
<1>1. Len(cur[i]) = 1 /\ cur[i] \in Seq(Object)
  BY DEF TrunkInv, TypeOK, Fits
<1>2. cur[i][1] \in Object
  BY <1>1
<1> QED
  BY <1>2 DEF TrunkInv, TypeOK, Mine

LEMMA ShowTrunkOK ==
  ASSUME TrunkInv, NEW i \in Iteration, NEW from \in {"add_show", "delete_show"},
         NEW to \in {"add_server", "delete_server"}, ShowTrunk(i, from, to)
  PROVE  After(i)
<1>1. pc[i] = from /\ from \in HandPoints /\ to \in HandPoints
  BY DEF ShowTrunk, HandPoints, OnePoints
<1>2. Mine(i) \in Object /\ Mine(i) = cur[i][1] /\ subports[Mine(i)] \in Seq(Nat)
  BY <1>1, InHand
<1>3. /\ pc'[i] = to /\ cur'[i] = cur[i] /\ seen'[i] = subports[Mine(i)] /\ done'[i] = 0
      /\ UNCHANGED <<lockVars, subports, links, linkErrors, raced>>
  BY DEF ShowTrunk, Goto, TrunkInv, TypeOK, cloud, bounds, lockVars
<1>4. Typed(i)
  <2>1. TypeOK'
    BY <1>2, SMTT(30) DEF TrunkInv, TypeOK, LockTypeOK, ShowTrunk, Goto, cloud, bounds, CallPoints
  <2>2. Fits(pc'[i], cur'[i])
    BY <1>1, <1>3 DEF TrunkInv, Fits, PairPoints, EmptyPoints
  <2> QED
    BY <2>1, <2>2 DEF Typed, ShowTrunk, Goto, cloud, TrunkInv, TypeOK
<1>5. ASSUME ~raced PROVE Spot(i)'
  <2>1. held[i] = {cur[i][1]} /\ Tidy(cur[i][1])
    BY <1>1, <1>5, WorkingOne DEF TrunkInv, Orderly, Spot, OnePoints, Trailing
  <2>2. Working(i)' = {cur[i][1]} /\ held'[i] = {cur[i][1]} /\ Mine(i)' = Mine(i)
    BY <1>3, <2>1, WorkingOne DEF OnePoints, Mine, lockVars
  <2>3. Tidy(cur[i][1])' /\ subports'[Mine(i)] = subports[Mine(i)]
    BY <1>3, <2>1 DEF Tidy, Numbered
  <2>4. Len(subports[Mine(i)]) \in Nat
    BY <1>2
  <2> QED
    BY <1>2, <1>3, <2>1, <2>2, <2>3, <2>4 DEF Spot, PairPoints, Trailing, Tidy, Numbered
<1>6. Keeps(i)
  BY <1>3, <1>5, QuietKeeps
<1> QED
  BY <1>4, <1>6 DEF After

LEMMA AddServerOK ==
  ASSUME TrunkInv, NEW i \in Iteration, AddServer(i)
  PROVE  After(i)
<1>1. /\ pc[i] = "add_server" /\ pc'[i] \in {"add_subport", "failed"} /\ cur'[i] = cur[i]
      /\ UNCHANGED <<lockVars, subports, links, linkErrors, raced, seen, done, cur>>
  BY DEF AddServer, FindServer, Goto, TrunkInv, TypeOK, cloud, locals, bounds, lockVars
<1>2. Typed(i)
  BY <1>1 DEF AddServer, FindServer, TrunkInv, TypeOK, LockTypeOK, Goto, cloud, locals, bounds,
     CallPoints, LocalPoints, Stopped, Typed, Fits, HandPoints, PodPoints, OnePoints, PairPoints,
     EmptyPoints
<1>3. ASSUME ~raced, pc'[i] = "add_subport" PROVE Spot(i)'
  <2>1. held[i] = {cur[i][1]} /\ Tidy(cur[i][1]) /\ Len(seen[i]) + done[i] <= Len(subports[Mine(i)])
    BY <1>1, <1>3, WorkingOne DEF TrunkInv, Orderly, Spot, OnePoints, Trailing
  <2>2. Working(i)' = {cur[i][1]} /\ held'[i] = {cur[i][1]} /\ Mine(i)' = Mine(i)
    BY <1>1, <1>3, <2>1, WorkingOne DEF OnePoints, Mine, lockVars
  <2>3. Tidy(cur[i][1])'
    BY <1>1, <2>1 DEF Tidy, Numbered
  <2> QED
    BY <1>1, <1>3, <2>1, <2>2, <2>3 DEF Spot, PairPoints, Trailing
<1>4. Keeps(i)
  BY <1>1, <1>3, FailedKeeps, QuietKeeps
<1> QED
  BY <1>2, <1>4 DEF After

LEMMA DeleteServerOK ==
  ASSUME TrunkInv, NEW i \in Iteration, DeleteServer(i)
  PROVE  After(i)
<1>1. /\ pc[i] = "delete_server" /\ pc'[i] \in {"delete_link", "delete_simulate", "failed"}
      /\ UNCHANGED <<lockVars, subports, links, linkErrors, raced, seen, done, cur>>
  BY DEF DeleteServer, FindServer, Goto, TrunkInv, TypeOK, cloud, locals, bounds, lockVars
<1>2. Typed(i)
  BY <1>1 DEF DeleteServer, FindServer, TrunkInv, TypeOK, LockTypeOK, Goto, cloud, locals, bounds,
     CallPoints, LocalPoints, Stopped, Typed, Fits, HandPoints, PodPoints, OnePoints, PairPoints,
     EmptyPoints
<1>3. ASSUME ~raced, pc'[i] = "delete_link" PROVE Spot(i)'
  <2>1. /\ held[i] = {cur[i][1]} /\ Tidy(cur[i][1]) /\ Numbered(seen[i])
        /\ Len(subports[Mine(i)]) + done[i] = Len(seen[i])
    BY <1>1, <1>3, WorkingOne DEF TrunkInv, Orderly, Spot, OnePoints, Trailing
  <2>2. Working(i)' = {cur[i][1]} /\ held'[i] = {cur[i][1]} /\ Mine(i)' = Mine(i)
    BY <1>1, <1>3, <2>1, WorkingOne DEF OnePoints, Mine, lockVars
  <2>3. Tidy(cur[i][1])'
    BY <1>1, <2>1 DEF Tidy, Numbered
  <2> QED
    BY <1>1, <1>3, <2>1, <2>2, <2>3 DEF Spot, PairPoints, Trailing, Numbered
<1>4. Keeps(i)
  BY <1>1, <1>3, FailedKeeps, QuietKeeps, TidyMove DEF TidyPoints
<1> QED
  BY <1>2, <1>4 DEF After

LEMMA SimulateOK ==
  ASSUME TrunkInv, NEW i \in Iteration, PodSimulate(i) \/ AddSimulate(i) \/ DeleteSimulate(i)
  PROVE  After(i)
<1>1. /\ pc[i] \in {"pod_simulate", "add_simulate", "delete_simulate"}
      /\ pc'[i] \in {"pod_release", "add_release", "delete_release", "failed"}
      /\ UNCHANGED <<lockVars, subports, links, linkErrors, raced, seen, done, cur>>
  BY DEF PodSimulate, AddSimulate, DeleteSimulate, Simulate, Goto, TrunkInv, TypeOK, cloud, locals,
     bounds, lockVars
<1>2. Typed(i)
  <2>1. PICK p \in {"pod_release", "add_release", "delete_release", "failed"} :
          Goto(i, p) /\ UNCHANGED <<locked, held, cloud, locals, bounds, raced>>
    BY DEF PodSimulate, AddSimulate, DeleteSimulate, Simulate
  <2>2. Fits(pc'[i], cur'[i])
    BY <1>1 DEF TrunkInv, Fits, HandPoints, PodPoints, OnePoints, PairPoints, EmptyPoints
  <2>3. TypeOK'
    BY <2>1 DEF TrunkInv, TypeOK, LockTypeOK, Goto, cloud, locals, bounds, LocalPoints, Stopped
  <2> QED
    BY <2>1, <2>2, <2>3 DEF Typed, Goto, cloud, locals, TrunkInv, TypeOK
<1>3. Keeps(i)
  BY <1>1, FailedKeeps, TidyMove DEF TidyPoints
<1> QED
  BY <1>2, <1>3 DEF After

LEMMA ReleaseTrunkOK ==
  ASSUME TrunkInv, NEW i \in Iteration, NEW from \in {"add_release", "delete_release"},
         NEW loop \in {"add_loop", "delete_loop"}, ReleaseTrunk(i, from, loop)
  PROVE  After(i)
<1>1. pc[i] = from /\ from \in HandPoints /\ from \in OnePoints
  BY DEF ReleaseTrunk, HandPoints, OnePoints
<1>2. PICK t \in Object : t = Mine(i) /\ t = cur[i][1]
  BY <1>1, InHand
<1>3. pc'[i] = loop /\ cur'[i] = <<>> /\ held'[i] = held[i] \ {t}
  BY <1>2 DEF ReleaseTrunk, Release, Goto, TrunkInv, TypeOK, LockTypeOK
<1>4. Typed(i)
  <2>1. TypeOK'
    <3>1. LockTypeOK' /\ cur' \in [Iteration -> Seq(Object)] /\ ops' \in [Iteration -> Nat]
      BY DEF TrunkInv, TypeOK, LockTypeOK, ReleaseTrunk, Release
    <3> QED
      BY <3>1 DEF TrunkInv, TypeOK, ReleaseTrunk, Goto, cloud, bounds, LocalPoints
  <2>2. Fits(pc'[i], cur'[i])
    BY <1>3 DEF Fits, HandPoints, PodPoints, OnePoints, PairPoints, EmptyPoints
  <2> QED
    BY <2>1, <2>2 DEF Typed, ReleaseTrunk, Goto, cloud, TrunkInv, TypeOK
<1>5. ASSUME ~raced PROVE Spot(i)' /\ held[i] = {t} /\ Tidy(t)'
  <2>1. held[i] = {t} /\ Tidy(t)
    BY <1>1, <1>2, <1>5, WorkingOne DEF TrunkInv, Orderly, Spot, OnePoints, Trailing
  <2>2. held'[i] = {}
    BY <1>3, <2>1
  <2>3. subports' = subports /\ links' = links /\ linkErrors' = linkErrors
    BY DEF ReleaseTrunk, cloud, bounds
  <2>4. Spot(i)'
    BY <1>3, <2>2, AtRest DEF EmptyPoints
  <2> QED
    BY <2>1, <2>3, <2>4 DEF Tidy, Numbered
<1>6. Release(i, t) /\ UNCHANGED <<cloud, bounds, raced>>
  BY <1>2 DEF ReleaseTrunk
<1>7. Keeps(i)
  BY <1>2, <1>5, <1>6 DEF Keeps, LockStep, cloud, bounds
<1> QED
  BY <1>4, <1>7 DEF After

(* The end of a workload. *)
LEMMA NextWorkload ==
  /\ AfterDelete \in {"swap_list", "done"}
  /\ AfterAdd \in {"delete_list", "swap_list", "done"}
  /\ AfterPods \in {"add_list", "delete_list", "swap_list", "done"}
  /\ First \in {"pod_create", "add_list", "delete_list", "swap_list", "done"}
BY DEF AfterDelete, AfterAdd, AfterPods, First

LEMMA ReturnTyped ==
  ASSUME TrunkInv, NEW i \in Iteration, LockTypeOK', UNCHANGED <<cloud, bounds, raced>>,
         NEW l \in {"add_list", "delete_list", "swap_list", "done"}, Return(i, l)
  PROVE  Typed(i) /\ pc'[i] = l /\ cur'[i] = <<>>
<1>1. pc'[i] = l /\ cur'[i] = <<>>
  BY DEF Return, Goto, TrunkInv, TypeOK
<1>2. TypeOK'
  BY DEF TrunkInv, TypeOK, Return, Goto, cloud, bounds, LocalPoints, CallPoints, Stopped
<1>3. Fits(pc'[i], cur'[i])
  BY <1>1 DEF Fits, HandPoints, PodPoints, OnePoints, PairPoints, EmptyPoints
<1> QED
  BY <1>1, <1>2, <1>3 DEF Typed, Return, Goto, cloud, TrunkInv, TypeOK

LEMMA FinishOK ==
  ASSUME TrunkInv, NEW i \in Iteration, NEW loop \in {"add_loop", "delete_loop"}, NEW limit,
         NEW next \in {"delete_list", "swap_list", "done"}, Finish(i, loop, limit, next)
  PROVE  After(i)
<1>1. LockTypeOK' /\ UNCHANGED <<lockVars, cloud, bounds, raced>> /\ Return(i, next) /\ pc[i] = loop
  BY DEF Finish, TrunkInv, TypeOK, LockTypeOK, lockVars
<1>2. Typed(i) /\ pc'[i] = next
  BY <1>1, ReturnTyped
<1>3. ASSUME ~raced PROVE Spot(i)'
  <2>1. held[i] = {}
    BY <1>1, <1>3, WorkingNone DEF TrunkInv, Orderly, Spot, EmptyPoints
  <2> QED
    BY <1>1, <1>2, <2>1, AtRest DEF EmptyPoints, lockVars
<1>4. Keeps(i)
  BY <1>1, <1>3, QuietKeeps DEF cloud, bounds
<1> QED
  BY <1>2, <1>4 DEF After

--------------------------------------------------------------------------------
(* Addition and deletion of a subport. *)

LEMMA AttachOK ==
  ASSUME TrunkInv, NEW i \in Iteration, PodSubport(i) \/ AddSubport(i)
  PROVE  After(i)
<1>1. PICK from \in {"pod_subport", "add_subport"}, to \in {"pod_link", "add_link"} :
        AttachSubport(i, from, to)
  BY DEF PodSubport, AddSubport
<1>2. /\ pc[i] = from /\ from \in HandPoints /\ from \in PodPoints \cup OnePoints
      /\ UNCHANGED <<lockVars, trunks, links, linkErrors, raced, seen, done, cur>>
  BY <1>1 DEF AttachSubport, HandPoints, OnePoints, PodPoints, locals, bounds, lockVars
<1>3. PICK t \in Object : t = Mine(i) /\ t = cur[i][1]
  BY <1>2, InHand
<1>4. subports[t] \in Seq(Nat) /\ seen[i] \in Seq(Nat) /\ done[i] \in Nat
  BY <1>2, <1>3, InHand
<1>5. Segment(i) \in Nat \ {0} /\ Segment(i) - 1 = Len(seen[i]) + done[i]
  BY <1>4 DEF Segment
<1>6. Append(subports[t], Segment(i)) \in Seq(Nat)
  BY <1>4, <1>5
<1>7. CASE subports' = [subports EXCEPT ![t] = Append(@, Segment(i))] /\ Goto(i, to)
           /\ Segment(i) \notin SegmentsOf(t)
  <2>1. /\ pc'[i] = to /\ subports'[t] = Append(subports[t], Segment(i))
        /\ \A u \in Object \ {t} : subports'[u] = subports[u]
    BY <1>7 DEF Goto, TrunkInv, TypeOK
  <2>2. TypeOK'
    BY <1>1, <1>6, <1>7 DEF TrunkInv, TypeOK, LockTypeOK, AttachSubport, Goto, locals, bounds,
       CallPoints
  <2>3. Fits(pc'[i], cur'[i])
    BY <1>2, <2>1 DEF TrunkInv, Fits, HandPoints, PodPoints, OnePoints, PairPoints, EmptyPoints
  <2>4. Typed(i)
    BY <1>2, <1>7, <2>2, <2>3 DEF Typed, Goto, TrunkInv, TypeOK
  <2>5. ASSUME ~raced PROVE Spot(i)' /\ held[i] = {t}
    <3>1. held[i] = {t} /\ Tidy(t) /\ Len(seen[i]) + done[i] <= Len(subports[t])
      BY <1>2, <1>3, <2>5, WorkingOne DEF TrunkInv, Orderly, Spot, Trailing
    <3>2. Segment(i) = Len(subports[t]) + 1
      BY <1>4, <1>5, <1>7, <3>1, NextSegment DEF Tidy, SegmentsOf
    <3>3. Numbered(subports'[t]) /\ Len(subports'[t]) = Segment(i) /\ Len(subports[t]) \in Nat
      BY <1>4, <2>1, <3>1, <3>2, AppendNumbered DEF Tidy
    <3>4. linkErrors = 0 => links[t] = 1..Len(subports[t])
      BY <1>4, <3>1 DEF Tidy
    <3>5. Working(i)' = {t} /\ held'[i] = {t} /\ Mine(i)' = t /\ Segment(i)' = Segment(i)
      BY <1>2, <1>3, <2>1, <3>1, WorkingOne DEF OnePoints, PodPoints, Mine, lockVars, Segment
    <3> QED
      BY <1>2, <2>1, <3>1, <3>2, <3>3, <3>4, <3>5 DEF Spot, PairPoints, Trailing, Numbered
  <2>6. Keeps(i)
    BY <1>2, <2>1, <2>5 DEF Keeps, LockStep, lockVars
  <2> QED
    BY <2>4, <2>6 DEF After
<1>8. CASE UNCHANGED subports /\ Goto(i, "failed")
  <2>1. TypeOK'
    BY <1>1, <1>8 DEF TrunkInv, TypeOK, LockTypeOK, AttachSubport, Goto, locals, bounds,
       LocalPoints, Stopped
  <2>2. pc'[i] = "failed"
    BY <1>8 DEF Goto, TrunkInv, TypeOK
  <2>3. Fits(pc'[i], cur'[i])
    BY <2>2 DEF Fits, HandPoints, PodPoints, OnePoints, PairPoints, EmptyPoints
  <2>4. Typed(i)
    BY <1>2, <1>8, <2>1, <2>3 DEF Typed, Goto, TrunkInv, TypeOK
  <2> QED
    BY <1>2, <1>8, <2>2, <2>4, FailedKeeps DEF After
<1> QED
  BY <1>1, <1>3, <1>7, <1>8 DEF AttachSubport

(* An interface comes or goes, or the command fails and counts as an error. *)
LEMMA LinksTyped ==
  ASSUME TrunkInv, NEW i \in Iteration, NEW t \in Object, t = Mine(i),
         NEW change \in SUBSET Nat, Links(i, change)
  PROVE  /\ links' \in [Object -> SUBSET Nat] /\ linkErrors' \in Nat
         /\ linkErrors' = 0 => linkErrors = 0 /\ links'[t] = change
         /\ \A u \in Object \ {t} : links'[u] = links[u]
<1>1. CASE links' = [links EXCEPT ![t] = change] /\ UNCHANGED linkErrors
  BY <1>1 DEF TrunkInv, TypeOK
<1>2. CASE linkErrors' = linkErrors + 1 /\ UNCHANGED links
  BY <1>2 DEF TrunkInv, TypeOK
<1> QED
  BY <1>1, <1>2 DEF Links

LEMMA AddLinkOK ==
  ASSUME TrunkInv, NEW i \in Iteration, PodLink(i) \/ AddVlan(i)
  PROVE  After(i)
<1>1. PICK from \in {"pod_link", "add_link"}, again \in {"pod_subport", "add_subport"},
           total \in {NumInitial, NumAdd}, to \in {"pod_simulate", "add_simulate"} :
             AddLink(i, from, again, total, to)
  <2>1. CASE PodLink(i)
    BY <2>1 DEF PodLink
  <2>2. CASE AddVlan(i)
    BY <2>2 DEF AddVlan
  <2> QED
    BY <2>1, <2>2
<1>2. /\ pc[i] = from /\ from \in HandPoints /\ from \in PodPoints \cup OnePoints
      /\ from \in Trailing /\ UNCHANGED <<lockVars, trunks, subports, raced, seen, cur>>
  BY <1>1 DEF AddLink, HandPoints, OnePoints, PodPoints, Trailing, bounds, lockVars
<1>3. PICK t \in Object : t = Mine(i) /\ t = cur[i][1]
  BY <1>2, InHand
<1>4. /\ subports[t] \in Seq(Nat) /\ links[t] \subseteq Nat
      /\ seen[i] \in Seq(Nat) /\ done[i] \in Nat
  BY <1>2, <1>3, InHand
<1>5. PICK p \in {again, to} : Goto(i, p)
  BY <1>1 DEF AddLink
<1>6. pc'[i] = p /\ done'[i] = done[i] + 1
  BY <1>1, <1>4, <1>5 DEF AddLink, Goto, TrunkInv, TypeOK
<1>7. Segment(i) \in Nat /\ Segment(i) = Len(seen[i]) + done[i] + 1
  BY <1>4 DEF Segment
<1>8. /\ links' \in [Object -> SUBSET Nat] /\ linkErrors' \in Nat
      /\ linkErrors' = 0 => linkErrors = 0 /\ links'[t] = links[t] \cup {Segment(i)}
      /\ \A u \in Object \ {t} : links'[u] = links[u]
  <2>1. links[t] \cup {Segment(i)} \in SUBSET Nat
    BY <1>4, <1>7
  <2>2. Links(i, links[t] \cup {Segment(i)})
    BY <1>1, <1>3 DEF AddLink
  <2> QED
    BY <1>3, <2>1, <2>2, LinksTyped
<1>9. Typed(i)
  <2>1. TypeOK'
    BY <1>1, <1>4, <1>5, <1>8, SMTT(30) DEF TrunkInv, TypeOK, LockTypeOK, AddLink, Goto, CallPoints
  <2>2. Fits(pc'[i], cur'[i])
    BY <1>2, <1>6 DEF TrunkInv, Fits, HandPoints, PodPoints, OnePoints, PairPoints, EmptyPoints
  <2> QED
    BY <1>1, <1>2, <1>5, <2>1, <2>2 DEF Typed, AddLink, Goto, TrunkInv, TypeOK
<1>10. ASSUME ~raced PROVE Spot(i)' /\ held[i] = {t}
  <2>1. /\ held[i] = {t} /\ Numbered(subports[t]) /\ Len(subports[t]) = Segment(i)
        /\ linkErrors = 0 => links[t] = 1..(Len(subports[t]) - 1)
    BY <1>2, <1>3, <1>10, WorkingOne DEF TrunkInv, Orderly, Spot
  <2>2. Len(subports[t]) \in Nat /\ DOMAIN subports[t] = 1..Len(subports[t])
    BY <1>4
  <2>3. linkErrors' = 0 => links'[t] = DOMAIN subports[t]
    <3>1. (1..(Segment(i) - 1)) \cup {Segment(i)} = 1..Segment(i)
      BY <1>4, <1>7
    <3> QED
      BY <1>8, <2>1, <2>2, <3>1
  <2>4. subports' = subports
    BY <1>2
  <2>5. Tidy(t)'
    BY <2>1, <2>3, <2>4 DEF Tidy, Numbered
  <2>6. Working(i)' = {t} /\ held'[i] = {t} /\ Mine(i)' = t /\ cur'[i][1] = t
    BY <1>2, <1>3, <1>5, <1>6, <2>1, WorkingOne DEF OnePoints, PodPoints, Mine, lockVars
  <2>7. CASE p = to
    <3>1. pc'[i] \in TidyPoints /\ Tidy(cur[i][1])'
      BY <1>6, <2>5, <2>6, <2>7 DEF TidyPoints, Tidy
    <3> QED
      BY <2>1, <2>6, <3>1, AtTidy
  <2>8. CASE p = again
    <3>1. Len(seen'[i]) + done'[i] <= Len(subports'[t])
      BY <1>2, <1>4, <1>6, <1>7, <2>1, <2>2, <2>4
    <3>2. pc'[i] \in {"pod_subport", "add_subport"} /\ pc'[i] \notin Trailing \cup PairPoints
      BY <1>6, <2>8 DEF Trailing, PairPoints
    <3> QED
      BY <2>1, <2>5, <2>6, <3>1, <3>2 DEF Spot
  <2> QED
    BY <1>5, <2>7, <2>8
<1>11. Keeps(i)
  BY <1>2, <1>8, <1>10 DEF Keeps, LockStep, lockVars
<1> QED
  BY <1>9, <1>11 DEF After

--------------------------------------------------------------------------------
(* pod_fip_simulation. *)

LEMMA PodCreateOK ==
  ASSUME TrunkInv, NEW i \in Iteration, PodCreate(i)
  PROVE  After(i)
<1>1. PICK t \in Object \ trunks : trunks' = trunks \cup {t} /\ cur' = [cur EXCEPT ![i] = <<t>>]
  BY DEF PodCreate
<1>2. /\ pc[i] = "pod_create" /\ pc'[i] = "pod_acquire" /\ cur'[i] = <<t>>
      /\ UNCHANGED <<lockVars, subports, links, linkErrors, raced>>
  BY <1>1 DEF PodCreate, Goto, TrunkInv, TypeOK, bounds, lockVars
<1>3. Typed(i)
  <2>1. IsFiniteSet(trunks')
    BY <1>1, FS_AddElement DEF TrunkInv
  <2>2. TypeOK'
    BY <1>1 DEF TrunkInv, TypeOK, LockTypeOK, PodCreate, Goto, bounds, LocalPoints
  <2>3. Fits(pc'[i], cur'[i])
    BY <1>2 DEF Fits, PairPoints, EmptyPoints
  <2> QED
    BY <1>1, <2>1, <2>2, <2>3 DEF Typed, PodCreate, Goto, TrunkInv, TypeOK
<1>4. ASSUME ~raced PROVE Spot(i)'
  <2>1. held[i] = {}
    BY <1>2, <1>4, WorkingNone DEF TrunkInv, Orderly, Spot
  <2> QED
    BY <1>2, <2>1, AtRest DEF lockVars
<1>5. Keeps(i)
  BY <1>2, <1>4, QuietKeeps
<1> QED
  BY <1>3, <1>5 DEF After

LEMMA PodAcquireOK ==
  ASSUME TrunkInv, NEW i \in Iteration, PodAcquire(i)
  PROVE  After(i)
<1>1. pc[i] = "pod_acquire" /\ pc[i] \in HandPoints
  BY DEF PodAcquire, HandPoints
<1>2. PICK t \in Object : t = Mine(i) /\ t = cur[i][1]
  BY <1>1, InHand
<1>3. /\ \/ Acquired(i, t) /\ UNCHANGED raced
         \/ Refused(t) /\ raced' = TRUE
      /\ UNCHANGED <<cloud, locals, bounds>> /\ Goto(i, "pod_boot")
  BY <1>2 DEF PodAcquire
<1>4. pc'[i] = "pod_boot" /\ cur' = cur
  BY <1>3 DEF Goto, TrunkInv, TypeOK, locals
<1>5. Typed(i)
  <2>1. LockTypeOK' /\ raced' \in BOOLEAN
    <3>1. LockTypeOK /\ raced \in BOOLEAN
      BY DEF TrunkInv, TypeOK
    <3>2. CASE Acquired(i, t) /\ UNCHANGED raced
      BY <3>1, <3>2 DEF LockTypeOK, Acquired
    <3>3. CASE Refused(t) /\ raced' = TRUE
      BY <3>1, <3>3 DEF LockTypeOK, Refused, lockVars
    <3> QED
      BY <1>3, <3>2, <3>3
  <2>2. TypeOK'
    BY <1>3, <2>1 DEF TrunkInv, TypeOK, Goto, cloud, locals, bounds, CallPoints
  <2>3. Fits(pc'[i], cur'[i])
    BY <1>1, <1>4 DEF TrunkInv, Fits, PairPoints, EmptyPoints
  <2> QED
    BY <1>3, <2>2, <2>3 DEF Typed, Goto, cloud, locals, TrunkInv, TypeOK
<1>6. ASSUME ~raced' PROVE Keeps(i)
  <2>1. Acquired(i, t) /\ ~raced /\ t \notin locked
    BY <1>3, <1>6 DEF Acquired
  <2>2. held[i] = {} /\ Tidy(t)
    BY <1>1, <2>1, WorkingNone DEF TrunkInv, Orderly, Spot
  <2>3. held'[i] = {cur'[i][1]}
    BY <1>2, <1>4, <2>1, <2>2 DEF Acquired, TrunkInv, TypeOK, LockTypeOK
  <2>4. Tidy(cur[i][1])'
    BY <1>2, <1>3, <1>4, <2>2 DEF Tidy, Numbered, cloud, bounds
  <2>5. Spot(i)'
    BY <1>4, <2>3, <2>4, AtTidy DEF TidyPoints
  <2> QED
    BY <1>3, <2>1, <2>2, <2>5 DEF Keeps, LockStep, cloud, bounds
<1> QED
  BY <1>5, <1>6 DEF After, Keeps

LEMMA PodBootOK ==
  ASSUME TrunkInv, NEW i \in Iteration, PodBoot(i)
  PROVE  After(i)
<1>1. pc[i] = "pod_boot" /\ pc[i] \in HandPoints
  BY DEF PodBoot, HandPoints, PodPoints
<1>2. PICK t \in Object : t = Mine(i) /\ t = cur[i][1]
  BY <1>1, InHand
<1>3. /\ pc'[i] = "pod_subport" /\ cur'[i] = cur[i] /\ seen'[i] = <<>> /\ done'[i] = 0
      /\ UNCHANGED <<lockVars, subports, links, linkErrors, raced>>
  BY DEF PodBoot, Goto, TrunkInv, TypeOK, bounds, lockVars
<1>4. subports[t] \in Seq(Nat)
  BY <1>2 DEF TrunkInv, TypeOK
<1>5. Typed(i)
  <2>1. TypeOK'
    BY <1>2, SMTT(30) DEF TrunkInv, TypeOK, LockTypeOK, PodBoot, Goto, bounds, CallPoints
  <2>2. Fits(pc'[i], cur'[i])
    BY <1>1, <1>3 DEF TrunkInv, Fits, PairPoints, EmptyPoints
  <2> QED
    BY <2>1, <2>2 DEF Typed, PodBoot, Goto, TrunkInv, TypeOK
<1>6. ASSUME ~raced PROVE Spot(i)'
  <2>1. held[i] = {t} /\ Tidy(t)
    BY <1>1, <1>2, <1>6, WorkingOne DEF TrunkInv, Orderly, Spot, PodPoints, Trailing
  <2>2. Working(i)' = {t} /\ held'[i] = {t} /\ Mine(i)' = t
    BY <1>2, <1>3, <2>1, WorkingOne DEF PodPoints, Mine, lockVars
  <2>3. Tidy(t)' /\ subports'[t] = subports[t] /\ Len(subports[t]) \in Nat
    BY <1>3, <1>4, <2>1 DEF Tidy, Numbered
  <2> QED
    BY <1>3, <2>2, <2>3 DEF Spot, PairPoints, Trailing
<1>7. Keeps(i)
  BY <1>3, <1>6, QuietKeeps
<1> QED
  BY <1>5, <1>7 DEF After

LEMMA PodReleaseOK ==
  ASSUME TrunkInv, NEW i \in Iteration, PodRelease(i)
  PROVE  After(i)
<1>1. pc[i] = "pod_release" /\ pc[i] \in HandPoints
  BY DEF PodRelease, HandPoints, PodPoints
<1>2. PICK t \in Object : t = Mine(i) /\ t = cur[i][1]
  BY <1>1, InHand
<1>3. Release(i, t) /\ UNCHANGED <<cloud, bounds, raced>>
  BY <1>2 DEF PodRelease
<1>4. LockTypeOK' /\ held'[i] = held[i] \ {t}
  BY <1>3 DEF TrunkInv, TypeOK, LockTypeOK, Release
<1>5. Typed(i) /\ pc'[i] \in {"pod_create", "add_list", "delete_list", "swap_list", "done"}
  <2>1. CASE Return(i, AfterPods)
    BY <1>3, <1>4, <2>1, ReturnTyped, NextWorkload
  <2>2. CASE /\ Goto(i, "pod_create") /\ ops' = [ops EXCEPT ![i] = @ + 1]
             /\ UNCHANGED <<todo, cur, seen, done, count>>
    <3>1. TypeOK' /\ pc'[i] = "pod_create"
      BY <1>3, <1>4, <2>2, SMTT(30) DEF TrunkInv, TypeOK, Goto, cloud, bounds, CallPoints
    <3>2. Fits(pc'[i], cur'[i])
      BY <3>1 DEF Fits, HandPoints, PodPoints, OnePoints, PairPoints, EmptyPoints
    <3> QED
      BY <1>3, <2>2, <3>1, <3>2 DEF Typed, Goto, cloud, TrunkInv, TypeOK
  <2> QED
    BY <2>1, <2>2 DEF PodRelease
<1>6. ASSUME ~raced PROVE Spot(i)' /\ held[i] = {t} /\ Tidy(t)'
  <2>1. held[i] = {t} /\ Tidy(t)
    BY <1>1, <1>2, <1>6, WorkingOne DEF TrunkInv, Orderly, Spot, PodPoints, Trailing
  <2>2. Spot(i)'
    BY <1>4, <1>5, <2>1, AtRest DEF EmptyPoints
  <2> QED
    BY <1>3, <2>1, <2>2 DEF Tidy, Numbered, cloud, bounds
<1>7. Keeps(i)
  BY <1>3, <1>6 DEF Keeps, LockStep, cloud, bounds
<1> QED
  BY <1>5, <1>7 DEF After

--------------------------------------------------------------------------------
(* delete_subports_from_random_trunks. *)

LEMMA ListLength ==
  ASSUME TrunkInv, NEW k \in {NumAddTrunks, NumDeleteTrunks}
  PROVE  Least(2 * k, Cardinality(trunks)) \in Nat
<1>1. Cardinality(trunks) \in Nat
  BY FS_CardinalityType DEF TrunkInv
<1>2. k \in Nat
  BY CountsAssumption
<1>3. 2 * k \in Nat
  BY <1>2
<1> QED
  BY <1>1, <1>3 DEF Least

(* The last subport by either count: done of them are gone. *)
LEMMA LastNumber ==
  ASSUME NEW left \in Nat, NEW gone \in Nat, NEW shown \in Nat, left + gone = shown
  PROVE  /\ shown - 1 - gone = left - 1
         /\ shown - 1 - gone + 1 = left
         /\ left > 0 => left \in 1..shown /\ left - 1 >= 0 /\ left - 1 + 1 = left
OBVIOUS

LEMMA ListedTrunks ==
  ASSUME TrunkInv, NEW S, S \subseteq trunks
  PROVE  S \subseteq Object /\ IsFiniteSet(S) /\ Cardinality(S) \in Nat
BY FS_Subset, FS_CardinalityType DEF TrunkInv, TypeOK

LEMMA AddListOK ==
  ASSUME TrunkInv, NEW i \in Iteration, AddList(i)
  PROVE  After(i)
<1>1. Least(2 * NumAddTrunks, Cardinality(trunks)) \in Nat /\ trunks \subseteq Object
  BY ListedTrunks, ListLength
<1>2. count' \in [Iteration -> Nat]
  BY DEF AddList, TrunkInv, TypeOK
<1> QED
  BY <1>1, <1>2, ListOK DEF AddList, EmptyPoints

LEMMA DeleteListOK ==
  ASSUME TrunkInv, NEW i \in Iteration, DeleteList(i)
  PROVE  After(i)
<1> DEFINE eligible == {t \in trunks : ListedCount(t) >= NumDelete}
           n == Least(2 * NumDeleteTrunks, Cardinality(trunks))
<1>1. /\ n \in Nat /\ eligible \subseteq Object /\ trunks \subseteq Object
      /\ Cardinality(eligible) \in Nat
  BY ListedTrunks, ListLength
<1>2. CASE /\ List(i, "delete_list", eligible, n, "delete_loop")
           /\ count' = [count EXCEPT ![i] = NumDelete]
  <2>1. count' \in [Iteration -> Nat]
    BY <1>2, CountsAssumption DEF TrunkInv, TypeOK
  <2> QED
    BY <1>1, <1>2, <2>1, ListOK DEF EmptyPoints
<1>3. CASE /\ Cardinality(eligible) < n
           /\ List(i, "delete_list", trunks, n, "delete_loop")
           /\ count' = [count EXCEPT ![i] = ListedCount(todo'[i][n])]
  <2>1. PICK q \in Arrangements(trunks, n) : todo' = [todo EXCEPT ![i] = q]
    BY <1>3 DEF List
  <2>2. todo'[i] = q /\ n \in 1..n
    BY <1>1, <1>3, <2>1 DEF TrunkInv, TypeOK
  <2>3. q[n] \in Object
    BY <1>1, <2>1, <2>2 DEF Arrangements
  <2>4. ListedCount(q[n]) \in Nat
    BY <2>3 DEF ListedCount, TrunkInv, TypeOK
  <2>5. count' \in [Iteration -> Nat]
    BY <1>3, <2>2, <2>4 DEF TrunkInv, TypeOK
  <2> QED
    BY <1>1, <1>3, <2>5, ListOK DEF EmptyPoints
<1> QED
  BY <1>2, <1>3 DEF DeleteList

LEMMA DeleteLinkOK ==
  ASSUME TrunkInv, NEW i \in Iteration, DeleteLink(i)
  PROVE  After(i)
<1>1. /\ pc[i] = "delete_link" /\ pc[i] \in HandPoints
      /\ UNCHANGED <<lockVars, trunks, subports, raced, seen, done, cur>>
  BY DEF DeleteLink, HandPoints, OnePoints, locals, lockVars
<1>2. PICK t \in Object : t = Mine(i) /\ t = cur[i][1]
  BY <1>1, InHand
<1>3. /\ subports[t] \in Seq(Nat) /\ links[t] \subseteq Nat
      /\ seen[i] \in Seq(Nat) /\ done[i] \in Nat
  BY <1>1, <1>2, InHand
<1>4. CASE /\ ~PortThere(i)
           /\ Goto(i, "failed")
           /\ UNCHANGED <<links, linkErrors>>
  <2>1. pc'[i] = "failed"
    BY <1>4 DEF Goto, TrunkInv, TypeOK
  <2>2. TypeOK'
    BY <1>4 DEF TrunkInv, TypeOK, LockTypeOK, DeleteLink, Goto, locals, LocalPoints, Stopped
  <2>3. Fits(pc'[i], cur'[i])
    BY <2>1 DEF Fits, HandPoints, PodPoints, OnePoints, PairPoints, EmptyPoints
  <2>4. Typed(i)
    BY <1>1, <1>4, <2>2, <2>3 DEF Typed, Goto, TrunkInv, TypeOK
  <2> QED
    BY <1>1, <1>4, <2>1, <2>4, FailedKeeps DEF After
<1>5. CASE /\ PortThere(i)
           /\ Links(i, links[t] \ {SubportNumber(i) + 1})
           /\ Goto(i, "delete_subport")
  <2>1. pc'[i] = "delete_subport"
    BY <1>5 DEF Goto, TrunkInv, TypeOK
  <2>2. /\ links' \in [Object -> SUBSET Nat] /\ linkErrors' \in Nat
        /\ linkErrors' = 0 => linkErrors = 0 /\ links'[t] = links[t] \ {SubportNumber(i) + 1}
        /\ \A u \in Object \ {t} : links'[u] = links[u]
    <3>1. links[t] \ {SubportNumber(i) + 1} \in SUBSET Nat
      BY <1>3
    <3> QED
      BY <1>2, <1>5, <3>1, LinksTyped
  <2>3. Typed(i)
    <3>1. TypeOK'
      BY <1>5, <2>2 DEF TrunkInv, TypeOK, LockTypeOK, DeleteLink, Goto, locals, CallPoints
    <3>2. Fits(pc'[i], cur'[i])
      BY <1>1, <2>1 DEF TrunkInv, Fits, PairPoints, EmptyPoints
    <3> QED
      BY <1>1, <1>5, <3>1, <3>2 DEF Typed, Goto, TrunkInv, TypeOK
  <2>4. ASSUME ~raced PROVE Spot(i)' /\ held[i] = {t}
    <3>1. /\ held[i] = {t} /\ Tidy(t) /\ Numbered(seen[i])
          /\ Len(subports[t]) + done[i] = Len(seen[i])
      BY <1>1, <1>2, <2>4, WorkingOne DEF TrunkInv, Orderly, Spot, OnePoints, Trailing
    <3>2. Len(subports[t]) \in Nat /\ Len(seen[i]) \in Nat
          /\ DOMAIN subports[t] = 1..Len(subports[t])
      BY <1>3
    <3>3. SubportNumber(i) + 1 = Len(subports[t])
      BY <1>3, <3>1, <3>2, LastNumber, ZenonT(30) DEF SubportNumber
    <3>4. Len(subports[t]) > 0
      <4>1. PICK p \in DOMAIN subports[t] : TRUE
        BY <1>2, <1>5 DEF PortThere, SegmentsOf
      <4> QED
        BY <3>2, <4>1
    <3>5. linkErrors' = 0 => links'[t] = 1..(Len(subports[t]) - 1)
      <4>1. (1..Len(subports[t])) \ {Len(subports[t])} = 1..(Len(subports[t]) - 1)
        BY <3>2
      <4> QED
        BY <2>2, <3>1, <3>2, <3>3, <4>1 DEF Tidy
    <3>6. Working(i)' = {t} /\ held'[i] = {t} /\ Mine(i)' = t
      BY <1>1, <1>2, <2>1, <3>1, WorkingOne DEF OnePoints, Mine, lockVars
    <3>7. Numbered(subports[t])' /\ Numbered(seen[i])'
      BY <1>1, <3>1 DEF Numbered, Tidy
    <3> QED
      BY <1>1, <2>1, <3>1, <3>4, <3>5, <3>6, <3>7 DEF Spot, PairPoints, Trailing, Numbered
  <2>5. Keeps(i)
    BY <1>1, <2>2, <2>4 DEF Keeps, LockStep, lockVars
  <2> QED
    BY <2>3, <2>5 DEF After
<1> QED
  BY <1>2, <1>4, <1>5 DEF DeleteLink

LEMMA DeleteSubportOK ==
  ASSUME TrunkInv, NEW i \in Iteration, DeleteSubport(i)
  PROVE  After(i)
<1> DEFINE segment == seen[i][Position(i)]
<1>1. /\ pc[i] = "delete_subport" /\ pc[i] \in HandPoints
      /\ UNCHANGED <<lockVars, trunks, links, linkErrors, raced, seen, cur>>
  BY DEF DeleteSubport, HandPoints, OnePoints, bounds, lockVars
<1>2. PICK t \in Object : t = Mine(i) /\ t = cur[i][1]
  BY <1>1, InHand
<1>3. subports[t] \in Seq(Nat) /\ seen[i] \in Seq(Nat) /\ done[i] \in Nat
  BY <1>1, <1>2, InHand
<1>4. PICK p \in {"delete_link", "delete_simulate"} : Goto(i, p)
  BY DEF DeleteSubport
<1>5. /\ pc'[i] = p /\ done'[i] = done[i] + 1 /\ subports'[t] = Without(subports[t], segment)
      /\ \A u \in Object \ {t} : subports'[u] = subports[u]
  BY <1>2, <1>4 DEF DeleteSubport, Goto, TrunkInv, TypeOK
<1>6. Typed(i)
  <2>1. Without(subports[t], segment) \in Seq(Nat)
    BY <1>3, WithoutType
  <2>2. TypeOK'
    <3>1. subports' = [subports EXCEPT ![t] = Without(@, segment)]
          /\ done' = [done EXCEPT ![i] = @ + 1]
      BY <1>2 DEF DeleteSubport
    <3>2. subports \in [Object -> Seq(Nat)] /\ done \in [Iteration -> Nat]
      BY DEF TrunkInv, TypeOK
    <3>3. subports' \in [Object -> Seq(Nat)]
      BY <2>1, <3>1, <3>2
    <3>4. done' \in [Iteration -> Nat]
      BY <3>1, <3>2
    <3> QED
      BY <1>4, <3>3, <3>4 DEF TrunkInv, TypeOK, LockTypeOK, DeleteSubport, Goto, bounds, CallPoints
  <2>3. Fits(pc'[i], cur'[i])
    BY <1>1, <1>5 DEF TrunkInv, Fits, HandPoints, PodPoints, OnePoints, PairPoints, EmptyPoints
  <2> QED
    BY <1>1, <1>4, <2>2, <2>3 DEF Typed, DeleteSubport, Goto, TrunkInv, TypeOK
<1>7. ASSUME ~raced PROVE Spot(i)' /\ held[i] = {t}
  <2>1. /\ held[i] = {t} /\ Numbered(subports[t]) /\ Len(subports[t]) > 0 /\ Numbered(seen[i])
        /\ linkErrors = 0 => links[t] = 1..(Len(subports[t]) - 1)
        /\ Len(subports[t]) + done[i] = Len(seen[i])
    BY <1>1, <1>2, <1>7, WorkingOne DEF TrunkInv, Orderly, Spot, OnePoints, Trailing
  <2>2. segment = Len(subports[t])
    <3>1. Len(subports[t]) \in Nat /\ Len(seen[i]) \in Nat /\ DOMAIN seen[i] = 1..Len(seen[i])
      BY <1>3
    <3>2. /\ Len(seen[i]) - 1 - done[i] = Len(subports[t]) - 1
          /\ Len(subports[t]) \in 1..Len(seen[i])
          /\ Len(subports[t]) - 1 >= 0 /\ Len(subports[t]) - 1 + 1 = Len(subports[t])
      BY <1>3, <2>1, <3>1, LastNumber
    <3>3. Position(i) = Len(subports[t])
      BY <3>2 DEF Position, SubportNumber
    <3> QED
      BY <2>1, <3>1, <3>2, <3>3 DEF Numbered
  <2>3. Numbered(subports'[t]) /\ Len(subports'[t]) = Len(subports[t]) - 1
    BY <1>3, <1>5, <2>1, <2>2, WithoutLast
  <2>4. subports'[t] \in Seq(Nat)
    BY <1>3, <1>5, WithoutType
  <2>5. linkErrors' = 0 => links'[t] = DOMAIN subports'[t]
    BY <1>1, <2>1, <2>3, <2>4
  <2>6. Tidy(t)'
    BY <2>3, <2>5 DEF Tidy, Numbered
  <2>7. Working(i)' = {t} /\ held'[i] = {t} /\ Mine(i)' = t /\ cur'[i][1] = t
    BY <1>1, <1>2, <1>4, <1>5, <2>1, WorkingOne DEF OnePoints, Mine, lockVars
  <2>8. CASE p = "delete_simulate"
    <3>1. Tidy(cur[i][1])'
      BY <2>6, <2>7 DEF Tidy
    <3> QED
      BY <1>5, <2>1, <2>7, <2>8, <3>1, AtTidy DEF TidyPoints
  <2>9. CASE p = "delete_link"
    <3>1. Len(subports'[t]) + done'[i] = Len(seen'[i])
      <4>1. Len(subports[t]) \in Nat /\ Len(seen[i]) \in Nat
        BY <1>3
      <4>2. (Len(subports[t]) - 1) + (done[i] + 1) = Len(subports[t]) + done[i]
        BY <1>3, <4>1, SMTT(30)
      <4> QED
        BY <1>1, <1>5, <2>1, <2>3, <4>2
    <3>2. Numbered(seen[i])'
      BY <1>1, <2>1 DEF Numbered
    <3> QED
      BY <1>5, <2>1, <2>6, <2>7, <2>9, <3>1, <3>2 DEF Spot, PairPoints, Trailing, Numbered
  <2> QED
    BY <1>4, <2>8, <2>9
<1>8. Keeps(i)
  BY <1>1, <1>5, <1>7 DEF Keeps, LockStep, lockVars
<1> QED
  BY <1>6, <1>8 DEF After

--------------------------------------------------------------------------------
(* swap_floating_ips_between_random_subports. *)

LEMMA SwapListOK ==
  ASSUME TrunkInv, NEW i \in Iteration, SwapList(i)
  PROVE  After(i)
<1> DEFINE eligible == {t \in trunks : subports[t] # <<>>}
<1>1. eligible \subseteq Object /\ Cardinality(eligible) \in Nat
  BY ListedTrunks
<1>2. CASE /\ List(i, "swap_list", eligible, Cardinality(eligible), "swap_loop")
           /\ UNCHANGED count
  <2>1. count' \in [Iteration -> Nat]
    BY <1>2 DEF TrunkInv, TypeOK
  <2> QED
    BY <1>1, <1>2, <2>1, ListOK DEF EmptyPoints
<1>3. CASE Return(i, "done") /\ UNCHANGED <<locked, held, cloud, bounds, raced>>
  <2>1. pc[i] = "swap_list" /\ LockTypeOK' /\ UNCHANGED lockVars
    BY <1>3 DEF SwapList, TrunkInv, TypeOK, LockTypeOK, lockVars
  <2>2. Typed(i) /\ pc'[i] = "done"
    BY <1>3, <2>1, ReturnTyped
  <2>3. ASSUME ~raced PROVE Spot(i)'
    <3>1. held[i] = {}
      BY <2>1, <2>3, WorkingNone DEF TrunkInv, Orderly, Spot, EmptyPoints
    <3> QED
      BY <2>1, <2>2, <3>1, AtRest DEF lockVars
  <2>4. Keeps(i)
    BY <1>3, <2>1, <2>3, QuietKeeps DEF cloud, bounds
  <2> QED
    BY <2>2, <2>4 DEF After
<1> QED
  BY <1>2, <1>3 DEF SwapList

LEMMA AtMostOne == ASSUME NEW n \in Nat, n <= 1 PROVE n \in {0, 1}
OBVIOUS

(* What an iteration looking for two trunks holds. *)
LEMMA SwapHolds ==
  ASSUME TrunkInv, ~raced, NEW i \in Iteration, pc[i] = "swap_loop"
  PROVE  /\ cur[i] = <<>> => held[i] = {}
         /\ Len(cur[i]) = 1 => held[i] = {cur[i][1]} /\ Tidy(cur[i][1])
<1>1. held[i] = {cur[i][n] : n \in DOMAIN cur[i]} /\ \A t \in Working(i) : Tidy(t)
  BY WorkingTwo DEF TrunkInv, Orderly, Spot, TwoPoints, Trailing
<1>2. cur[i] \in Seq(Object)
  BY DEF TrunkInv, TypeOK
<1>3. ASSUME Len(cur[i]) = 1 PROVE DOMAIN cur[i] = {1}
  BY <1>2, <1>3
<1>4. Working(i) = {cur[i][n] : n \in DOMAIN cur[i]}
  BY WorkingTwo DEF TwoPoints
<1> QED
  BY <1>1, <1>2, <1>3, <1>4

LEMMA SwapTryOK ==
  ASSUME TrunkInv, NEW i \in Iteration, SwapTry(i)
  PROVE  After(i)
<1> DEFINE t == Head(todo[i])
           body == IF Len(cur[i]) = 1 THEN "swap_server" ELSE "swap_loop"
<1>1. pc[i] = "swap_loop" /\ TryTrunk(i, "swap_loop", body)
  BY DEF SwapTry, TryTrunk
<1>2. /\ t \in Object /\ Tail(todo[i]) \in Seq(Object) /\ cur[i] \in Seq(Object)
      /\ Len(cur[i]) \in {0, 1}
  <2>1. cur[i] \in Seq(Object) /\ Len(cur[i]) <= 1 /\ todo[i] \in Seq(Object) /\ todo[i] # <<>>
    BY <1>1 DEF TrunkInv, TypeOK, TryTrunk, Fits
  <2>2. Len(cur[i]) \in {0, 1}
    <3>1. Len(cur[i]) \in Nat
      BY <2>1
    <3> QED
      BY <2>1, <3>1, AtMostOne
  <2>3. t \in Object /\ Tail(todo[i]) \in Seq(Object)
    BY <2>1
  <2> QED
    BY <2>1, <2>2, <2>3
<1>3. CASE Refused(t) /\ UNCHANGED <<pc, cur>>
  <2>1. Typed(i)
    BY <1>1, <1>2, <1>3 DEF TrunkInv, TypeOK, LockTypeOK, Typed, TryTrunk, Refused, lockVars,
       cloud, bounds
  <2>2. ASSUME ~raced PROVE Spot(i)'
    <3>1. Spot(i) /\ Working(i)' = Working(i)
      BY <1>1, <1>3, <2>2, WorkingTwo DEF TrunkInv, Orderly, TwoPoints
    <3>2. \A u \in Working(i) : Tidy(u) => Tidy(u)'
      BY <1>1 DEF TryTrunk, cloud, bounds, Tidy, Numbered
    <3> QED
      BY <1>1, <1>3, <3>1, <3>2 DEF Spot, PairPoints, Trailing, Refused, lockVars
  <2>3. Keeps(i)
    BY <1>1, <1>3, <2>2, QuietKeeps DEF TryTrunk, Refused, cloud, bounds
  <2> QED
    BY <2>1, <2>3 DEF After
<1>4. CASE Acquired(i, t) /\ cur' = [cur EXCEPT ![i] = Append(@, t)] /\ Goto(i, body)
  <2>1. cur'[i] = Append(cur[i], t) /\ pc'[i] = body /\ t \notin locked
    BY <1>4 DEF TrunkInv, TypeOK, Goto, Acquired
  <2>2. Append(cur[i], t) \in Seq(Object)
    BY <1>2
  <2>3. Typed(i)
    <3>1. TypeOK'
      BY <1>1, <1>2, <1>4, <2>2 DEF TrunkInv, TypeOK, LockTypeOK, TryTrunk, Acquired, Goto, cloud,
         bounds, CallPoints, LocalPoints
    <3>2. Fits(pc'[i], cur'[i])
      BY <1>2, <2>1 DEF Fits, HandPoints, PodPoints, OnePoints, PairPoints, EmptyPoints
    <3> QED
      BY <1>1, <1>4, <3>1, <3>2 DEF Typed, TryTrunk, Goto, cloud, TrunkInv, TypeOK
  <2>4. held'[i] = held[i] \cup {t}
    BY <1>4 DEF Acquired, TrunkInv, TypeOK, LockTypeOK
  <2>5. UNCHANGED <<subports, links, linkErrors, raced>>
    BY <1>1 DEF TryTrunk, cloud, bounds
  <2>6. ASSUME ~raced PROVE Spot(i)'
    <3>1. Tidy(t) /\ LockOwnership /\ held[i] \subseteq locked
      BY <1>2, <2>1, <2>6 DEF TrunkInv, Orderly, LockOwnership
    <3>2. CASE cur[i] = <<>>
      <4>1. held'[i] = {t} /\ cur'[i] = <<t>> /\ pc'[i] = "swap_loop"
        BY <1>1, <2>1, <2>4, <2>6, <3>2, SwapHolds
      <4>2. Working(i)' = {t}
        <5>1. {cur'[i][n] : n \in DOMAIN cur'[i]} = {t}
          BY <4>1
        <5> QED
          BY <4>1, <5>1, WorkingTwo DEF TwoPoints
      <4> QED
        BY <2>5, <3>1, <4>1, <4>2 DEF Spot, PairPoints, Trailing, Tidy, Numbered
    <3>3. CASE Len(cur[i]) = 1
      <4>1. /\ held[i] = {cur[i][1]} /\ Tidy(cur[i][1]) /\ pc'[i] = "swap_server"
            /\ cur'[i][1] = cur[i][1] /\ cur'[i][2] = t /\ DOMAIN cur'[i] = {1, 2}
        BY <1>1, <1>2, <2>1, <2>6, <3>3, SwapHolds
      <4>2. Working(i)' = {cur[i][1], t} /\ held'[i] = {cur[i][1], t} /\ cur[i][1] # t
        <5>1. {cur'[i][n] : n \in DOMAIN cur'[i]} = {cur[i][1], t}
          BY <4>1
        <5> QED
          BY <2>1, <2>4, <3>1, <4>1, <5>1, WorkingTwo DEF TwoPoints
      <4>3. \A u \in Working(i)' : Tidy(u)'
        BY <2>5, <3>1, <4>1, <4>2 DEF Tidy, Numbered
      <4> QED
        BY <4>1, <4>2, <4>3 DEF Spot, Trailing
    <3> QED
      BY <1>2, <3>2, <3>3
  <2>7. ASSUME ~raced PROVE held[i] \subseteq held'[i]
    BY <2>4
  <2>8. Keeps(i)
    BY <1>2, <1>4, <2>5, <2>6, <2>7 DEF Keeps, LockStep
  <2> QED
    BY <2>3, <2>8 DEF After
<1> QED
  BY <1>1, <1>3, <1>4 DEF TryTrunk

LEMMA SwapShortOK ==
  ASSUME TrunkInv, NEW i \in Iteration, SwapShort(i)
  PROVE  After(i)
<1>1. /\ pc[i] = "swap_loop" /\ Return(i, "done") /\ UNCHANGED <<cloud, bounds, raced>>
      /\ cur[i] \in Seq(Object) /\ Len(cur[i]) \in {0, 1}
  <2>1. cur[i] \in Seq(Object) /\ Len(cur[i]) <= 1
    BY DEF SwapShort, TrunkInv, TypeOK, Fits
  <2>2. Len(cur[i]) \in {0, 1}
    <3>1. Len(cur[i]) \in Nat
      BY <2>1
    <3> QED
      BY <2>1, <3>1, AtMostOne
  <2> QED
    BY <2>1, <2>2 DEF SwapShort
<1>2. CASE cur[i] = <<>>
  <2>1. UNCHANGED lockVars /\ LockTypeOK'
    BY <1>2 DEF SwapShort, TrunkInv, TypeOK, LockTypeOK, lockVars
  <2>2. Typed(i) /\ pc'[i] = "done"
    BY <1>1, <2>1, ReturnTyped
  <2>3. ASSUME ~raced PROVE Spot(i)'
    BY <1>1, <1>2, <2>1, <2>2, <2>3, SwapHolds, AtRest DEF lockVars
  <2>4. Keeps(i)
    BY <1>1, <2>1, <2>3, QuietKeeps DEF cloud, bounds
  <2> QED
    BY <2>2, <2>4 DEF After
<1>3. CASE Len(cur[i]) = 1
  <2>1. PICK t \in Object : t = cur[i][1]
    BY <1>1, <1>3
  <2>2. Release(i, t)
    <3>1. cur[i] # <<>>
      <4>1. Len(<<>>) = 0
        OBVIOUS
      <4> QED
        BY <1>3, <4>1
    <3> QED
      BY <2>1, <3>1 DEF SwapShort, Mine
  <2>3. LockTypeOK' /\ held'[i] = held[i] \ {t}
    BY <2>2 DEF TrunkInv, TypeOK, LockTypeOK, Release
  <2>4. Typed(i) /\ pc'[i] = "done"
    BY <1>1, <2>3, ReturnTyped
  <2>5. ASSUME ~raced PROVE Spot(i)' /\ held[i] = {t} /\ Tidy(t)'
    <3>1. held[i] = {t} /\ Tidy(t)
      BY <1>1, <1>3, <2>1, <2>5, SwapHolds
    <3>2. Spot(i)'
      BY <2>3, <2>4, <3>1, AtRest
    <3> QED
      BY <1>1, <3>1, <3>2 DEF Tidy, Numbered, cloud, bounds
  <2>6. Keeps(i)
    BY <1>1, <2>2, <2>5 DEF Keeps, LockStep, cloud, bounds
  <2> QED
    BY <2>4, <2>6 DEF After
<1> QED
  BY <1>1, <1>2, <1>3

(* Two trunks in hand. *)
LEMMA PairInHand ==
  ASSUME TrunkInv, NEW i \in Iteration, pc[i] \in PairPoints
  PROVE  /\ cur[i][1] \in Object /\ cur[i][2] \in Object /\ DOMAIN cur[i] = {1, 2}
         /\ ~raced => /\ cur[i][1] # cur[i][2]
                      /\ \A t \in held[i] : Tidy(t)
                      /\ held[i] = IF pc[i] = "swap_release_2" THEN {cur[i][2]}
                                   ELSE {cur[i][1], cur[i][2]}
<1>1. cur[i] \in Seq(Object) /\ Len(cur[i]) = 2
  BY DEF TrunkInv, TypeOK, Fits
<1>2. cur[i][1] \in Object /\ cur[i][2] \in Object /\ DOMAIN cur[i] = {1, 2}
  BY <1>1
<1>3. ASSUME ~raced
      PROVE  /\ cur[i][1] # cur[i][2] /\ held[i] = Working(i) /\ \A t \in Working(i) : Tidy(t)
  BY <1>3 DEF TrunkInv, Orderly, Spot, PairPoints, Trailing
<1>4. pc[i] # "swap_release_2" => Working(i) = {cur[i][1], cur[i][2]}
  <2>1. {cur[i][n] : n \in DOMAIN cur[i]} = {cur[i][1], cur[i][2]}
    BY <1>2
  <2> QED
    BY <2>1, WorkingTwo DEF PairPoints, TwoPoints
<1> QED
  BY <1>2, <1>3, <1>4, WorkingTwo

(* Where two trunks are in hand, the point says which are still held. *)
LEMMA AtPair ==
  ASSUME NEW i \in Iteration, pc'[i] \in PairPoints, DOMAIN cur'[i] = {1, 2},
         cur'[i][1] # cur'[i][2], \A t \in held'[i] : Tidy(t)',
         held'[i] = IF pc'[i] = "swap_release_2" THEN {cur'[i][2]}
                    ELSE {cur'[i][1], cur'[i][2]}
  PROVE  Spot(i)'
<1>1. Working(i)' = held'[i]
  <2>1. {cur'[i][n] : n \in DOMAIN cur'[i]} = {cur'[i][1], cur'[i][2]}
    OBVIOUS
  <2> QED
    BY <2>1, WorkingTwo DEF PairPoints, TwoPoints
<1> QED
  BY <1>1 DEF Spot, PairPoints, Trailing

LEMMA SwapMoveOK ==
  ASSUME TrunkInv, NEW i \in Iteration, SwapServer(i) \/ SwapRoute(i)
  PROVE  After(i)
<1>1. PICK p \in {"swap_route", "swap_release_1", "failed"} :
        Goto(i, p) /\ UNCHANGED <<locked, held, cloud, locals, bounds, raced>>
  BY DEF SwapServer, SwapRoute, FindServer
<1>2. /\ pc[i] \in PairPoints \ {"swap_release_2"} /\ pc'[i] = p
      /\ UNCHANGED <<lockVars, subports, links, linkErrors, raced, cur>>
  BY <1>1 DEF SwapServer, SwapRoute, FindServer, Goto, TrunkInv, TypeOK, PairPoints, cloud,
     locals, bounds, lockVars
<1>3. Typed(i)
  <2>1. TypeOK'
    BY <1>1 DEF TrunkInv, TypeOK, LockTypeOK, Goto, cloud, locals, bounds, CallPoints,
       LocalPoints, Stopped
  <2>2. Fits(pc'[i], cur'[i])
    BY <1>2 DEF TrunkInv, Fits, HandPoints, PodPoints, OnePoints, PairPoints, EmptyPoints
  <2> QED
    BY <1>1, <2>1, <2>2 DEF Typed, Goto, cloud, locals, TrunkInv, TypeOK
<1>4. ASSUME ~raced, p # "failed" PROVE Spot(i)'
  <2>1. /\ held'[i] = {cur'[i][1], cur'[i][2]} /\ cur'[i][1] # cur'[i][2]
        /\ DOMAIN cur'[i] = {1, 2} /\ \A t \in held[i] : Tidy(t)
    BY <1>2, <1>4, PairInHand DEF lockVars
  <2>2. \A t \in held'[i] : Tidy(t)'
    BY <1>2, <2>1 DEF lockVars, Tidy, Numbered
  <2> QED
    BY <1>2, <1>4, <2>1, <2>2, AtPair DEF PairPoints
<1>5. Keeps(i)
  BY <1>2, <1>4, FailedKeeps, QuietKeeps
<1> QED
  BY <1>3, <1>5 DEF After

LEMMA SwapRelease1OK ==
  ASSUME TrunkInv, NEW i \in Iteration, SwapRelease1(i)
  PROVE  After(i)
<1>1. /\ pc[i] = "swap_release_1" /\ pc[i] \in PairPoints
      /\ pc'[i] = "swap_release_2" /\ pc'[i] \in PairPoints
      /\ UNCHANGED <<subports, links, linkErrors, raced, cur>>
  BY DEF SwapRelease1, Goto, TrunkInv, TypeOK, PairPoints, cloud, locals, bounds
<1>2. PICK t \in Object : t = cur[i][1]
  BY <1>1, PairInHand
<1>3. Release(i, t) /\ held'[i] = held[i] \ {t}
  BY <1>2 DEF SwapRelease1, Release, TrunkInv, TypeOK, LockTypeOK
<1>4. Typed(i)
  <2>1. LockTypeOK'
    BY <1>3 DEF TrunkInv, TypeOK, LockTypeOK, Release
  <2>2. TypeOK'
    BY <2>1 DEF TrunkInv, TypeOK, SwapRelease1, Goto, cloud, locals, bounds, LocalPoints
  <2>3. Fits(pc'[i], cur'[i])
    BY <1>1 DEF TrunkInv, Fits, HandPoints, PodPoints, OnePoints, PairPoints, EmptyPoints
  <2> QED
    BY <2>2, <2>3 DEF Typed, SwapRelease1, Goto, cloud, locals, TrunkInv, TypeOK
<1>5. ASSUME ~raced PROVE Spot(i)' /\ t \in held[i] /\ Tidy(t)'
  <2>1. /\ held[i] = {t, cur[i][2]} /\ t # cur[i][2] /\ DOMAIN cur[i] = {1, 2}
        /\ \A u \in held[i] : Tidy(u)
    BY <1>1, <1>2, <1>5, PairInHand
  <2>2. \A u \in held[i] : Tidy(u)'
    BY <1>1, <2>1 DEF Tidy, Numbered
  <2>3. held'[i] = {cur'[i][2]} /\ cur'[i][1] # cur'[i][2] /\ DOMAIN cur'[i] = {1, 2}
    BY <1>1, <1>2, <1>3, <2>1
  <2>4. Spot(i)'
    BY <1>1, <1>3, <2>2, <2>3, AtPair
  <2> QED
    BY <2>1, <2>2, <2>4
<1>6. Keeps(i)
  BY <1>1, <1>3, <1>5 DEF Keeps, LockStep
<1> QED
  BY <1>4, <1>6 DEF After

LEMMA SwapRelease2OK ==
  ASSUME TrunkInv, NEW i \in Iteration, SwapRelease2(i)
  PROVE  After(i)
<1>1. /\ pc[i] = "swap_release_2" /\ pc[i] \in PairPoints /\ Return(i, "done")
      /\ UNCHANGED <<cloud, bounds, raced>>
  BY DEF SwapRelease2, PairPoints
<1>2. PICK t \in Object : t = cur[i][2]
  BY <1>1, PairInHand
<1>3. Release(i, t) /\ held'[i] = held[i] \ {t} /\ LockTypeOK'
  BY <1>2 DEF SwapRelease2, Release, TrunkInv, TypeOK, LockTypeOK
<1>4. Typed(i) /\ pc'[i] = "done"
  BY <1>1, <1>3, ReturnTyped
<1>5. ASSUME ~raced PROVE Spot(i)' /\ held[i] = {t} /\ Tidy(t)'
  <2>1. held[i] = {t} /\ Tidy(t)
    BY <1>1, <1>2, <1>5, PairInHand
  <2>2. Spot(i)'
    BY <1>3, <1>4, <2>1, AtRest
  <2> QED
    BY <1>1, <2>1, <2>2 DEF Tidy, Numbered, cloud, bounds
<1>6. Keeps(i)
  BY <1>1, <1>3, <1>5 DEF Keeps, LockStep, cloud, bounds
<1> QED
  BY <1>4, <1>6 DEF After

--------------------------------------------------------------------------------
(* Every step. *)

LEMMA PodStepOK ==
  ASSUME TrunkInv, NEW i \in Iteration, PodFipSimulation(i)
  PROVE  After(i)
BY PodCreateOK, PodAcquireOK, PodBootOK, AttachOK, AddLinkOK, SimulateOK, PodReleaseOK
   DEF PodFipSimulation

LEMMA AddStepOK ==
  ASSUME TrunkInv, NEW i \in Iteration, AddSubports(i)
  PROVE  After(i)
<1>1. CASE AddTry(i)
  BY <1>1, TryTrunkOK DEF AddTry
<1>2. CASE AddShow(i)
  BY <1>2, ShowTrunkOK DEF AddShow
<1>3. CASE AddRelease(i)
  BY <1>3, ReleaseTrunkOK DEF AddRelease
<1>4. CASE AddFinish(i)
  BY <1>4, FinishOK, NextWorkload DEF AddFinish
<1> QED
  BY <1>1, <1>2, <1>3, <1>4, AddListOK, AddServerOK, AttachOK, AddLinkOK, SimulateOK
     DEF AddSubports

LEMMA DeleteStepOK ==
  ASSUME TrunkInv, NEW i \in Iteration, DeleteSubports(i)
  PROVE  After(i)
<1>1. CASE DeleteTry(i)
  BY <1>1, TryTrunkOK DEF DeleteTry
<1>2. CASE DeleteShow(i)
  BY <1>2, ShowTrunkOK DEF DeleteShow
<1>3. CASE DeleteRelease(i)
  BY <1>3, ReleaseTrunkOK DEF DeleteRelease
<1>4. CASE DeleteFinish(i)
  BY <1>4, FinishOK, NextWorkload DEF DeleteFinish
<1> QED
  BY <1>1, <1>2, <1>3, <1>4, DeleteListOK, DeleteServerOK, DeleteLinkOK, DeleteSubportOK,
     SimulateOK DEF DeleteSubports

LEMMA SwapStepOK ==
  ASSUME TrunkInv, NEW i \in Iteration, SwapSubportIps(i)
  PROVE  After(i)
BY SwapListOK, SwapTryOK, SwapShortOK, SwapMoveOK, SwapRelease1OK, SwapRelease2OK
   DEF SwapSubportIps

LEMMA InitInv == Init => TrunkInv
<1> SUFFICES ASSUME Init PROVE TrunkInv
  OBVIOUS
<1>1. \A t \in Object : /\ subports[t] \in Seq(Nat) /\ Numbered(subports[t])
                        /\ links[t] = DOMAIN subports[t] /\ links[t] \in SUBSET Nat
  <2>1. <<1>> \in Seq(Nat) /\ Numbered(<<1>>) /\ DOMAIN <<1>> = {1} /\ {1} \in SUBSET Nat
    BY DEF Numbered
  <2>2. <<>> \in Seq(Nat) /\ Numbered(<<>>) /\ DOMAIN <<>> = {} /\ {} \in SUBSET Nat
    BY DEF Numbered
  <2> QED
    BY <2>1, <2>2, TrunksAssumption DEF Init
<1>2. TypeOK
  <2>1. LockTypeOK
    BY DEF Init, LockInit, LockTypeOK
  <2>2. pc \in [Iteration -> LocalPoints \cup CallPoints]
    BY NextWorkload DEF Init, LocalPoints, CallPoints, Stopped
  <2>3. subports \in [Object -> Seq(Nat)] /\ links \in [Object -> SUBSET Nat]
    BY <1>1 DEF Init
  <2>4. /\ todo \in [Iteration -> Seq(Object)] /\ cur \in [Iteration -> Seq(Object)]
        /\ seen \in [Iteration -> Seq(Nat)]
    BY DEF Init
  <2>5. {done, count, ops} \subseteq [Iteration -> Nat] /\ {faults, linkErrors} \subseteq Nat
    BY DEF Init
  <2>6. {trunks, servers} \subseteq SUBSET Object
    BY TrunksAssumption DEF Init
  <2>7. raced \in BOOLEAN
    BY DEF Init
  <2> QED
    BY <2>1, <2>2, <2>3, <2>4, <2>5, <2>6, <2>7 DEF TypeOK
<1>3. ASSUME NEW i \in Iteration PROVE Fits(pc[i], cur[i]) /\ Spot(i)
  <2>1. /\ cur[i] = <<>> /\ held[i] = {}
        /\ pc[i] \in EmptyPoints \cup {"pod_create", "pod_acquire", "done", "failed"}
        /\ pc[i] \notin HandPoints \cup PairPoints \cup Trailing
        /\ pc[i] \notin {"delete_server", "delete_link", "add_server"} \cup {"swap_loop"}
    BY NextWorkload DEF Init, LockInit, EmptyPoints, HandPoints, PairPoints, Trailing, PodPoints,
       OnePoints
  <2>2. Working(i) = {}
    BY <2>1, WorkingNone
  <2> QED
    BY <2>1, <2>2 DEF Fits, Spot, HandPoints, PodPoints, OnePoints
<1>4. LockOwnership
  BY DEF Init, LockInit, LockOwnership
<1> QED
  BY <1>1, <1>2, <1>3, <1>4, TrunksAssumption DEF TrunkInv, Orderly, Tidy, Init

LEMMA NextInv == TrunkInv /\ [Next]_vars => TrunkInv'
<1> SUFFICES ASSUME TrunkInv, [Next]_vars PROVE TrunkInv'
  OBVIOUS
<1>1. ASSUME NEW i \in Iteration, Step(i) \/ Raise(i) PROVE TrunkInv'
  BY <1>1, PodStepOK, AddStepOK, DeleteStepOK, SwapStepOK, RaiseOK, AfterKeepsInv DEF Step
<1>2. CASE UNCHANGED vars
  <2>1. UNCHANGED <<locked, held, trunks, servers, subports, links, pc, todo, cur, seen, done,
                    count, ops, faults, linkErrors, raced>>
    BY <1>2 DEF vars, cloud, locals, bounds
  <2>2. TypeOK'
    BY <2>1 DEF TrunkInv, TypeOK, LockTypeOK
  <2>3. ASSUME Orderly PROVE Orderly'
    <3>1. LockOwnership' /\ \A t \in Object : Tidy(t) => Tidy(t)'
      BY <2>1, <2>3 DEF Orderly, LockOwnership, Tidy, Numbered
    <3>2. \A i \in Iteration : Mine(i)' = Mine(i) /\ Segment(i)' = Segment(i)
      BY <2>1 DEF Mine, Segment
    <3>3. \A i \in Iteration : Working(i)' = Working(i)
      BY <2>1, <3>2 DEF Working
    <3>4. \A i \in Iteration : Working(i) \subseteq Object
      BY <2>3, WorksOnHeld DEF TrunkInv, TypeOK, LockTypeOK, Orderly
    <3>5. \A i \in Iteration : Spot(i)'
      BY <2>1, <2>3, <3>1, <3>2, <3>3, <3>4 DEF Orderly, Spot, Numbered
    <3> QED
      BY <2>1, <2>3, <3>1, <3>5 DEF Orderly
  <2> QED
    BY <2>1, <2>2, <2>3 DEF TrunkInv
<1> QED
  BY <1>1, <1>2 DEF Next, Terminated

--------------------------------------------------------------------------------
(***************************************************************************)
(* The values stay what the operators expect of them: neither an append nor *)
(* a count taken from a listing leaves the trunks' sequences or the         *)
(* counters outside their types.                                            *)
(***************************************************************************)
THEOREM TypeCorrect == Spec => []TypeOK
<1>1. TrunkInv => TypeOK
  BY DEF TrunkInv
<1> QED
  BY <1>1, InitInv, NextInv, PTL DEF Spec

(***************************************************************************)
(* While no creator found its new trunk already locked, no two iterations   *)
(* work on one trunk, and one that ran to its end holds none: whatever      *)
(* workloads are selected, and whatever calls raise in the others.          *)
(***************************************************************************)
THEOREM TrunksGivenBack == Spec => []LocksWorkUnlessRaced
<1>1. TrunkInv => LocksWorkUnlessRaced
  <2> SUFFICES ASSUME TrunkInv, ~raced
               PROVE  /\ TrunkExclusion
                      /\ \A i \in Iteration : pc[i] = "done" => held[i] = {}
    BY DEF LocksWorkUnlessRaced
  <2>1. Orderly
    BY DEF TrunkInv
  <2>2. TrunkExclusion
    BY <2>1, WorksOnHeld DEF Orderly, LockOwnership, TrunkExclusion
  <2>3. ASSUME NEW i \in Iteration, pc[i] = "done" PROVE held[i] = {}
    BY <2>1, <2>3, WorkingNone DEF Orderly, Spot
  <2> QED
    BY <2>2, <2>3
<1> QED
  BY <1>1, InitInv, NextInv, PTL DEF Spec

(***************************************************************************)
(* While no creator found its new trunk already locked, a free trunk has    *)
(* subports 1 to n in order and their interfaces: the segment computed from *)
(* the number of subports is free, and the last one is the one deleted.     *)
(***************************************************************************)
THEOREM SegmentsStayInOrder == Spec => []FreeTrunksNumbered
<1>1. TrunkInv => FreeTrunksNumbered
  <2> SUFFICES ASSUME TrunkInv, ~raced, NEW t \in trunks \ locked PROVE Tidy(t)
    BY DEF FreeTrunksNumbered, Tidy, Numbered
  <2> QED
    BY DEF TrunkInv, TypeOK, Orderly
<1> QED
  BY <1>1, InitInv, NextInv, PTL DEF Spec

(***************************************************************************)
(* Until a creator finds its new trunk already locked, the table as the     *)
(* trunk workloads use it is the abstract lock service; the step in which   *)
(* that happens changes no row.                                             *)
(***************************************************************************)
THEOREM TableServesUnlessRaced == Spec => Service!Init /\ [][Service!Next \/ raced']_Holder
<1>1. Init => Service!Init
  BY DEF Init, LockInit, Service!Init, Holder
<1>2. TrunkInv /\ [Next]_vars => [Service!Next \/ raced']_Holder
  <2> SUFFICES ASSUME TrunkInv, [Next]_vars, ~raced' PROVE Service!Next \/ UNCHANGED Holder
    OBVIOUS
  <2>1. ASSUME NEW i \in Iteration, Step(i) \/ Raise(i)
        PROVE  Service!Next \/ UNCHANGED Holder
    <3>1. ~raced /\ LockStep(i)
      BY <2>1, PodStepOK, AddStepOK, DeleteStepOK, SwapStepOK, RaiseOK DEF Step, After, Keeps
    <3>2. LockTypeOK /\ LockOwnership
      BY <3>1 DEF TrunkInv, TypeOK, Orderly
    <3> QED
      BY <3>1, <3>2, LockStepImplementsService
  <2>2. CASE UNCHANGED vars
    BY <2>2 DEF vars, Holder
  <2> QED
    BY <2>1, <2>2 DEF Next, Terminated
<1> QED
  BY <1>1, <1>2, InitInv, NextInv, PTL DEF Spec
================================================================================
