------------------------------- MODULE LockTable -------------------------------
(***************************************************************************)
(* The RallyLock table (one row per locked object, keyed by its uuid) and   *)
(* LockUtils, through which the dynamic workloads use it.  A row does not   *)
(* say who inserted it; held is what each iteration itself knows to have    *)
(* inserted and not yet deleted.                                            *)
(***************************************************************************)
CONSTANTS Iteration, \* the Rally iterations that run at the same time
          Object     \* what can be locked, by uuid

VARIABLES locked,    \* the rows of the table
          held       \* held[i]: rows iteration i inserted and did not delete

lockVars == <<locked, held>>

LockTypeOK == /\ locked \in SUBSET Object
              /\ held \in [Iteration -> SUBSET Object]

LockInit == /\ locked = {}
            /\ held = [i \in Iteration |-> {}]

(* Mutant: a table without its primary key. *)
AcquiredTwice(i, o) == /\ locked' = locked \cup {o}
                       /\ held' = [held EXCEPT ![i] = @ \cup {o}]

(* get_lock commits a new row. *)
Acquired(i, o) == /\ o \notin locked
                  /\ locked' = locked \cup {o}
                  /\ held' = [held EXCEPT ![i] = @ \cup {o}]

(* The primary key is taken: DBDuplicateEntry, acquire_lock returns False. *)
Refused(o) == /\ o \in locked
              /\ UNCHANGED lockVars

(* The row is deleted by uuid, whoever inserted it. *)
Release(i, o) == /\ locked' = locked \ {o}
                 /\ held' = [held EXCEPT ![i] = @ \ {o}]

--------------------------------------------------------------------------------
(***************************************************************************)
(* The rows of the table are exactly what the iterations know they hold,   *)
(* and no row is known to two of them.                                     *)
(***************************************************************************)
LockOwnership ==
  /\ locked = UNION {held[i] : i \in Iteration}
  /\ \A i, j \in Iteration : i # j => held[i] \cap held[j] = {}

(* The abstract service: who holds each object. *)
Holder == [o \in Object |-> {i \in Iteration : o \in held[i]}]
Service == INSTANCE LockService WITH holder <- Holder
================================================================================
