---------------------------- MODULE LockTable_proofs ----------------------------
(***************************************************************************)
(* What the proofs about all dynamic workloads need of the lock table: a    *)
(* step that inserts one free row, or deletes one row of its own iteration, *)
(* leaves every row with one owner and is a step of the abstract service.   *)
(***************************************************************************)
EXTENDS LockTable, TLAPS

(* What a step of i does to the lock table: at most one row, its own. *)
LockStep(i) ==
  \/ UNCHANGED lockVars
  \/ \E o \in Object : \/ Acquired(i, o)
                       \/ o \in held[i] /\ Release(i, o)

LEMMA OwnersStay ==
  ASSUME LockTypeOK, LockOwnership, NEW i \in Iteration, LockStep(i)
  PROVE  /\ LockOwnership'
         /\ \A j \in Iteration \ {i} : held'[j] = held[j]
         /\ locked \ locked' \subseteq held[i] \ held'[i]
<1> USE DEF LockTypeOK, LockOwnership
<1>1. CASE UNCHANGED lockVars
  BY <1>1 DEF lockVars
<1>2. ASSUME NEW t \in Object, Acquired(i, t)
      PROVE  /\ LockOwnership' /\ \A j \in Iteration \ {i} : held'[j] = held[j]
             /\ locked \subseteq locked'
  <2>1. \A j \in Iteration : held'[j] = IF j = i THEN held[i] \cup {t} ELSE held[j]
    BY <1>2 DEF Acquired
  <2>2. \A j \in Iteration : t \notin held[j]
    BY <1>2 DEF Acquired
  <2>3. locked' = UNION {held'[j] : j \in Iteration}
    BY <1>2, <2>1 DEF Acquired
  <2> QED
    BY <1>2, <2>1, <2>2, <2>3 DEF Acquired
<1>3. ASSUME NEW t \in Object, t \in held[i], Release(i, t)
      PROVE  /\ LockOwnership' /\ \A j \in Iteration \ {i} : held'[j] = held[j]
             /\ locked \ locked' \subseteq held[i] \ held'[i]
  <2>1. \A j \in Iteration : held'[j] = IF j = i THEN held[i] \ {t} ELSE held[j]
    BY <1>3 DEF Release
  <2>2. \A j \in Iteration : j # i => t \notin held[j]
    BY <1>3
  <2>3. locked' = UNION {held'[j] : j \in Iteration}
    BY <1>3, <2>1, <2>2 DEF Release
  <2> QED
    BY <1>3, <2>1, <2>3 DEF Release
<1> QED
  BY <1>1, <1>2, <1>3 DEF LockStep

(***************************************************************************)
(* Such a step is a step of the abstract service, or none.                 *)
(***************************************************************************)
LEMMA LockStepImplementsService ==
  ASSUME LockTypeOK, LockOwnership, NEW i \in Iteration, LockStep(i)
  PROVE  Service!Next \/ UNCHANGED Holder
<1> USE DEF LockTypeOK, LockOwnership
<1>1. CASE UNCHANGED lockVars
  BY <1>1 DEF lockVars, Holder
<1>2. ASSUME NEW o \in Object, Acquired(i, o) PROVE Service!Next
  <2>1. \A j \in Iteration : held'[j] = IF j = i THEN held[i] \cup {o} ELSE held[j]
    BY <1>2 DEF Acquired
  <2>2. Holder[o] = {}
    BY <1>2 DEF Acquired, Holder
  <2>3. Holder' = [Holder EXCEPT ![o] = {i}]
    <3>1. \A j \in Iteration : o \notin held[j]
      BY <1>2 DEF Acquired
    <3>2. {j \in Iteration : o \in held'[j]} = {i}
      BY <2>1, <3>1
    <3>3. \A p \in Object : p # o =>
             {j \in Iteration : p \in held'[j]} = {j \in Iteration : p \in held[j]}
      BY <2>1
    <3>4. \A p \in Object : Holder'[p] = IF p = o THEN {i} ELSE Holder[p]
      BY <3>2, <3>3 DEF Holder
    <3>5. /\ Holder = [p \in Object |-> Holder[p]]
          /\ Holder' = [p \in Object |-> Holder'[p]]
      BY DEF Holder
    <3> QED
      BY <3>4, <3>5
  <2> QED
    BY <2>2, <2>3 DEF Service!Next, Service!Acquire
<1>3. ASSUME NEW o \in Object, o \in held[i], Release(i, o) PROVE Service!Next
  <2>1. \A j \in Iteration : held'[j] = IF j = i THEN held[i] \ {o} ELSE held[j]
    BY <1>3 DEF Release
  <2>2. \A j \in Iteration : o \in held[j] <=> j = i
    BY <1>3
  <2>3. Holder[o] = {i}
    BY <2>2 DEF Holder
  <2>4. Holder' = [Holder EXCEPT ![o] = {}]
    <3>1. {j \in Iteration : o \in held'[j]} = {}
      BY <2>1, <2>2
    <3>2. \A p \in Object : p # o =>
             {j \in Iteration : p \in held'[j]} = {j \in Iteration : p \in held[j]}
      BY <2>1
    <3>3. \A p \in Object : Holder'[p] = IF p = o THEN {} ELSE Holder[p]
      BY <3>1, <3>2 DEF Holder
    <3>4. /\ Holder = [p \in Object |-> Holder[p]]
          /\ Holder' = [p \in Object |-> Holder'[p]]
      BY DEF Holder
    <3> QED
      BY <3>3, <3>4
  <2> QED
    BY <2>3, <2>4 DEF Service!Next, Service!Release
<1> QED
  BY <1>1, <1>2, <1>3 DEF LockStep

================================================================================
