-------------------------------- MODULE OcpOnOsp --------------------------------
(***************************************************************************)
(* The OpenShift workloads.  run_kube_burner_workload reads the script of   *)
(* the workload, writes it back with the kubeconfig of the iteration's      *)
(* cluster in it, and runs it: one file for every iteration, which run in   *)
(* processes of their own.                                                  *)
(***************************************************************************)
EXTENDS DynamicIteration

CONSTANTS Cluster,   \* the clusters of ocp_kubeconfig_paths
          ClusterOf  \* the one of each iteration: its number modulo the clusters
ASSUME ClusterAssumption == /\ ClusterOf \in [Iteration -> Cluster]
                            /\ {"none", "template", "empty"} \cap Cluster = {}

VARIABLES script,    \* what the file says: "template", "empty", or a cluster
          read,      \* read[i]: what the iteration read of it
          ran,       \* ran[i]: what the script it ran said
          overlapped \* history: two iterations were between reading and running

kubeVars == <<script, read, ran, overlapped>>

KubePoints == {"kube_truncate", "kube_write", "kube_run"}
Content == {"none", "template", "empty"} \cup Cluster

KubeTypeOK == /\ script \in Content
              /\ read \in [Iteration -> Content]
              /\ ran \in [Iteration -> Content]
              /\ overlapped \in BOOLEAN

KubeInit == /\ script = "template"
            /\ read = [i \in Iteration |-> "none"]
            /\ ran = read
            /\ overlapped = FALSE

KubeRead(i) ==
  /\ At(i, "e2e_kube_burner")
  /\ read' = [read EXCEPT ![i] = script]
  /\ overlapped' = (overlapped \/ \E j \in Iteration \ {i} : pc[j] \in KubePoints)
  /\ Goto(i, "kube_truncate")
  /\ UNCHANGED <<lockVars, script, ran>>

(* open(script_file_path, "w") *)
KubeTruncate(i) == /\ At(i, "kube_truncate")
                   /\ script' = "empty"
                   /\ Goto(i, "kube_write")
                   /\ UNCHANGED <<lockVars, read, ran, overlapped>>

(* Mutant: the export an earlier iteration inserted is kept, after the new one. *)
KubeWriteKeeps(i) ==
  /\ At(i, "kube_write")
  /\ script' = IF read[i] = "template" THEN ClusterOf[i] ELSE read[i]
  /\ Goto(i, "kube_run")
  /\ UNCHANGED <<lockVars, read, ran, overlapped>>

(* The lines read, with the export of this cluster after the first and without *)
(* any other: an empty script stays empty.                                     *)
KubeWrite(i) ==
  /\ At(i, "kube_write")
  /\ script' = IF read[i] = "empty" THEN "empty" ELSE ClusterOf[i]
  /\ Goto(i, "kube_run")
  /\ UNCHANGED <<lockVars, read, ran, overlapped>>

(* subprocess.run with check: a script that fails raises; an empty one does not. *)
KubeRun(i) == /\ At(i, "kube_run")
              /\ ran' = [ran EXCEPT ![i] = script]
              /\ Goto(i, AfterKubeBurner)
              /\ UNCHANGED <<lockVars, script, read, overlapped>>

(* install_ocp_cluster: one playbook. *)
InstallOcp(i) == /\ At(i, "ocp_on_osp")
                 /\ Goto(i, "done")
                 /\ UNCHANGED <<lockVars, kubeVars>>

OcpStep(i) == KubeRead(i) \/ KubeTruncate(i) \/ KubeWrite(i) \/ KubeRun(i) \/ InstallOcp(i)

--------------------------------------------------------------------------------
(***************************************************************************)
(* An iteration's kube-burner works on the cluster of that iteration, as    *)
(* long as no two iterations were between the reading and the running of    *)
(* the one file: they do rewrite it for one another one after the other.    *)
(* It runs an empty script, without an error, only if one failed before     *)
(* between truncating the file and writing it.                              *)
(***************************************************************************)
RunsOnItsCluster ==
  overlapped \/ \A i \in Iteration : \/ ran[i] \in {"none", ClusterOf[i]}
                                     \/ ran[i] = "empty" /\ faults > 0
================================================================================
