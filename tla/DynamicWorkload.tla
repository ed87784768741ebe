----------------------------- MODULE DynamicWorkload -----------------------------
(***************************************************************************)
(* Iterations that run the load balancer, provider network and OpenShift    *)
(* workloads of one task at the same time, on one cloud, one lock table and *)
(* one jump host of the tester.                                             *)
(***************************************************************************)
EXTENDS ProviderNetwork, Octavia, OcpOnOsp

vars == <<lockVars, iterationVars, providerVars, octaviaVars, kubeVars>>

TypeOK == /\ LockTypeOK
          /\ selected \in Selections
          /\ pc \in [Iteration -> Entries \cup Stopped \cup NetPoints \cup OctaviaPoints
                                  \cup KubePoints]
          /\ faults \in 0..MaxFaults
          /\ ProviderTypeOK
          /\ OctaviaTypeOK
          /\ KubeTypeOK

Init == LockInit /\ IterationInit /\ ProviderInit /\ OctaviaInit /\ KubeInit

Step(i) == \/ ProviderStep(i) /\ UNCHANGED <<octaviaVars, kubeVars>>
           \/ OctaviaStep(i) /\ UNCHANGED <<providerVars, kubeVars>>
           \/ OcpStep(i) /\ UNCHANGED <<providerVars, octaviaVars>>

Breaks(i) == Raise(i) /\ UNCHANGED <<providerVars, octaviaVars, kubeVars>>

Settles(l) == Settle(l) /\ UNCHANGED <<providerVars, kubeVars>>

AllStopped == \A i \in Iteration : pc[i] \in Stopped
Terminated == AllStopped /\ UNCHANGED vars

Next == \/ \E i \in Iteration : Step(i) \/ Breaks(i)
        \/ \E l \in LoadBalancer : Settles(l)
        \/ Terminated

(* Each iteration is a process of its own, and octavia ends what it began. *)
Fairness == /\ \A i \in Iteration : WF_vars(Step(i))
            /\ \A l \in LoadBalancer : WF_vars(Settles(l))

Spec == Init /\ [][Next]_vars /\ Fairness

--------------------------------------------------------------------------------
(***************************************************************************)
(* Every iteration comes to its end: no retry of octavia's 409 and no wait  *)
(* for a load balancer others keep changing goes on for ever.               *)
(***************************************************************************)
EveryIterationEnds == <>AllStopped
================================================================================
