------------------------------ MODULE RallyCleanup ------------------------------
(***************************************************************************)
(* The script an operator runs between two runs of a task: it deletes what  *)
(* bears a name of Rally, and every floating IP of the cloud, whoever made  *)
(* it, one kind of resource after the other.  Each kind is listed, a pool   *)
(* of processes deletes a resource each, and the kind is listed again until *)
(* it is empty or all the processes returned in time.                       *)
(***************************************************************************)
EXTENDS NetworkContext, Sequences

CONSTANTS MaxAttempts, \* MAX_ATTEMPTS, of the networks
          MaxSweeps    \* bound: runs of the script
ASSUME SweepAssumption == MaxAttempts \in Nat \ {0} /\ MaxSweeps \in Nat

VARIABLES stage,    \* the kind being deleted, of Order
          todo,     \* resources whose process has not returned
          pool,     \* the pool is at work
          ret,      \* what cleanup_with_concurrency will return
          tries,    \* lists of networks made
          doomed,   \* servers nova is deleting
          sweeps,
          withLinks \* --cleanup_external_network_links

sweepVars == <<stage, todo, pool, ret, tries, doomed, sweeps, withLinks>>
vars == <<contextVars, sweepVars>>

Order == <<"server", "fip", "port", "router", "group", "network">>
Kind == Order[stage]

TypeOK == /\ ContextTypeOK
          /\ at \in ContextPoints \cup {"sweep", "sweep_link"}
          /\ stage \in DOMAIN Order
          /\ {todo, doomed} \subseteq SUBSET Things
          /\ {pool, ret, withLinks} \subseteq BOOLEAN
          /\ tries \in 0..MaxAttempts
          /\ sweeps \in 0..MaxSweeps

Init == /\ ContextInit
        /\ stage = 1 /\ todo = {} /\ pool = FALSE /\ ret = TRUE /\ tries = 0 /\ doomed = {}
        /\ sweeps = 0 /\ withLinks = FALSE

Contexts == <<task, round, tenant, created, subnetted, bound, unserved>>

StartSweep == /\ At("between")
              /\ sweeps < MaxSweeps
              /\ sweeps' = sweeps + 1
              /\ at' = "sweep" /\ stage' = 1
              /\ tries' = 0
              /\ withLinks' \in BOOLEAN
              /\ UNCHANGED <<Contexts, index, Cloud, kept, faults, todo, pool, ret, doomed>>

--------------------------------------------------------------------------------
(* Servers, ports, routers, groups and networks are listed by name, and neutron may *)
(* have given a router's port none; of floating IPs all there are.                  *)
Found(kind) == {x \in left : x[1] = kind /\ (kind = "port" => task.named)}

(* Nova and neutron refuse to delete what something else still uses. *)
Blockers(x) == LET On(kinds) == {<<kind, x[2], x[3]>> : kind \in kinds} IN
               CASE x[1] = "network" -> On({"server", "fip", "port"})
                 [] x[1] = "router" -> On({"port"})
                 [] x[1] = "port" -> On({"fip"})
                 [] x[1] = "group" -> On({"server"})
                 [] OTHER -> {}
Refused(x) == \/ Blockers(x) \cap left # {}
              \/ x[1] = "network" /\ task.foreign /\ x[3] = 1

(* Mutant: one attempt too many. *)
LastTryLate == Kind = "network" /\ tries > MaxAttempts
LastTry == Kind = "network" /\ tries = MaxAttempts

NextStage == IF stage < Len(Order) THEN stage' = stage + 1 /\ UNCHANGED <<at, index>>
             ELSE at' = "sweep_link" /\ index' = 1 /\ UNCHANGED stage

(* The list is empty, or the networks were tried often enough. *)
ListDone ==
  /\ At("sweep") /\ ~pool
  /\ Found(Kind) = {} \/ LastTry
  /\ NextStage
  /\ UNCHANGED <<Contexts, Cloud, kept, faults, todo, pool, ret, tries, doomed, sweeps, withLinks>>

ListAndMap ==
  /\ At("sweep") /\ ~pool
  /\ Found(Kind) # {} /\ ~LastTry
  /\ todo' = Found(Kind)
  /\ pool' = TRUE /\ ret' = TRUE
  /\ tries' = IF Kind = "network" THEN tries + 1 ELSE tries
  /\ UNCHANGED <<Contexts, at, stage, index, Cloud, kept, faults, doomed, sweeps, withLinks>>

(* delete_<kind> of one process: it shows the resource, deletes it and looks    *)
(* for a while whether it is gone; a server may stay longer than that.          *)
Worker(x) ==
  /\ pool /\ x \in todo
  /\ todo' = todo \ {x}
  /\ \/ /\ x \in left /\ ~Refused(x)
        /\ \/ left' = left \ {x} /\ doomed' = doomed \ {x}
           \/ x[1] = "server" /\ doomed' = doomed \cup {x} /\ UNCHANGED left
        /\ UNCHANGED <<ret, faults>>
     \/ /\ ((x \notin left \/ Refused(x)) /\ UNCHANGED faults) \/ Fault
        /\ ret' = FALSE
        /\ UNCHANGED <<left, doomed>>
  /\ UNCHANGED <<Contexts, at, index, links, kept, stage, pool, tries, sweeps, withLinks>>

(* The wait is over before the processes are: they are terminated. *)
TimeOut == /\ pool /\ todo # {}
           /\ Fault
           /\ todo' = {} /\ ret' = FALSE
           /\ UNCHANGED <<Contexts, at, index, Cloud, kept, stage, pool, tries, doomed, sweeps,
                         withLinks>>

(* Mutant: processes that raised do not matter. *)
CollectAnyway ==
  /\ At("sweep") /\ pool /\ todo = {}
  /\ pool' = FALSE
  /\ IF Kind # "server" THEN NextStage ELSE UNCHANGED <<at, stage, index>>
  /\ UNCHANGED <<Contexts, Cloud, kept, faults, todo, ret, tries, doomed, sweeps, withLinks>>

(* Mutant: the networks are tried until they are gone. *)
CollectForEver ==
  /\ At("sweep") /\ pool /\ todo = {}
  /\ pool' = FALSE
  /\ tries' = 0
  /\ IF Kind # "server" /\ ret THEN NextStage ELSE UNCHANGED <<at, stage, index>>
  /\ UNCHANGED <<Contexts, Cloud, kept, faults, todo, ret, doomed, sweeps, withLinks>>

(* The servers are listed again whatever the pool returned. *)
Collect ==
  /\ At("sweep") /\ pool /\ todo = {}
  /\ pool' = FALSE
  /\ IF Kind # "server" /\ ret THEN NextStage ELSE UNCHANGED <<at, stage, index>>
  /\ UNCHANGED <<Contexts, Cloud, kept, faults, todo, ret, tries, doomed, sweeps, withLinks>>

Vanish(x) == /\ x \in doomed
             /\ doomed' = doomed \ {x} /\ left' = left \ {x}
             /\ UNCHANGED <<Contexts, at, index, links, kept, faults, stage, todo, pool, ret,
                            tries, sweeps, withLinks>>

(* cleanup_external_network_links: those of the configuration, one by one. *)
SweepLink ==
  /\ At("sweep_link")
  /\ \/ /\ withLinks /\ task.vlans /\ index <= N
        /\ DeleteLink(index)
        /\ index' = index + 1
        /\ UNCHANGED at
     \/ /\ ~withLinks \/ ~task.vlans \/ index > N
        /\ at' = "between"
        /\ UNCHANGED <<index, links, kept, faults>>
  /\ UNCHANGED <<Contexts, left, sweepVars>>

SweepStep == \/ StartSweep \/ TimeOut \/ SweepLink
             \/ ListDone \/ ListAndMap \/ Collect
             \/ \E x \in Things : Worker(x)

--------------------------------------------------------------------------------
Terminated == At("over") /\ UNCHANGED vars

Step == SweepStep \/ (ContextStep /\ UNCHANGED sweepVars)
Next == Step \/ (\E x \in Things : Vanish(x)) \/ Terminated

(* The script and its processes run on, and nova ends the deletions it began. *)
Spec == /\ Init /\ [][Next]_vars
        /\ WF_vars(Step)
        /\ \A r \in 1..Runs, n \in 1..MaxNetworks : WF_vars(Vanish(<<"server", r, n>>))

--------------------------------------------------------------------------------
(***************************************************************************)
(* When the script is done, nothing of Rally and no floating IP is left on  *)
(* the cloud, whatever processes raised or were terminated, but networks it *)
(* tried to delete the last time it could; and the links of the             *)
(* configuration are gone if it was asked for them, but those whose         *)
(* deletion failed.                                                         *)
(***************************************************************************)
SweptClean ==
  At("sweep_link") =>
    /\ left = {} \/ (tries = MaxAttempts /\ left \subseteq Networks)
    /\ withLinks /\ task.vlans /\ index > N =>
         \A n \in links : n > N \/ Link(n) \in kept

(***************************************************************************)
(* The script ends, provided that nova deletes the servers and that each    *)
(* router's port bears a name by which the script finds it: no router it    *)
(* cannot delete and no process that raises keeps it for ever.              *)
(***************************************************************************)
SweepEnds == (task.named /\ At("sweep")) ~> At("between")
================================================================================
