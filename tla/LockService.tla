------------------------------ MODULE LockService ------------------------------
(***************************************************************************)
(* What the lock table of the dynamic workloads promises its users: an     *)
(* object is held by at most one iteration, only a free object can be      *)
(* acquired and only the iteration that holds an object can free it.       *)
(* Nothing is promised about WHEN a holder lets go.                        *)
(***************************************************************************)
CONSTANTS Iteration, \* the Rally iterations that run at the same time
          Object     \* what can be locked: servers, trunks, networks

VARIABLE holder      \* holder[o]: the set of iterations that hold o

Init == holder = [o \in Object |-> {}]

Acquire(i, o) == /\ holder[o] = {}
                 /\ holder' = [holder EXCEPT ![o] = {i}]

Release(i, o) == /\ holder[o] = {i}
                 /\ holder' = [holder EXCEPT ![o] = {}]

Next == \E i \in Iteration, o \in Object : Acquire(i, o) \/ Release(i, o)

Spec == Init /\ [][Next]_holder
================================================================================
