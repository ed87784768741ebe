------------------------------ MODULE BrowbeatRun ------------------------------
(***************************************************************************)
(* One call of browbeat.py: a command, or a run.  A run has metadata,       *)
(* filebeat and collectd before, the workloads in the order and number of   *)
(* the rerun type, collectd after, the report card and the exit status.     *)
(* The counters and the report card are class attributes of WorkloadBase,   *)
(* shared by every workload object.                                         *)
(***************************************************************************)
EXTENDS Naturals, Sequences, FiniteSets

CONSTANTS Configs,   \* configurations: the workloads in order
          Shipped,   \* the scenario files of the shaker package, as installed
          Rerun,     \* browbeat.rerun
          MaxSteps   \* bound: steps of one workflow scenario whose indexing fails

Kinds == {"rally", "shaker", "workflow"}
Statuses == {"pass", "fail"} \* of a line of the report card
Indexings == {"success", "failure", "disabled"}
Unset == "unset" \* a setting the workload does not make, or the file does not have
Null == "null"

(* What a scenario file of Shaker may say; compute_nodes is treated as density. *)
FileContent == [room : {"single_room", "double_room", Unset}, density : Nat,
                progression : {"linear", "quadratic", Unset}]
ASSUME WorkloadsAssumption ==
  /\ Shipped \in [DOMAIN Shipped -> FileContent]
  /\ Rerun \in Nat \ {0}
  /\ MaxSteps \in Nat
  /\ \A c \in DOMAIN Configs : Len(Configs[c]) \in Nat /\ DOMAIN Configs[c] = 1..Len(Configs[c])
  /\ \A c \in DOMAIN Configs : \A w \in DOMAIN Configs[c] :
       /\ Configs[c][w].kind \in Kinds
       /\ Configs[c][w].selected \in BOOLEAN \* enabled, and named on the command line
       /\ Configs[c][w].kind = "shaker" =>
            /\ Configs[c][w].file \in DOMAIN Shipped
            /\ Configs[c][w].placement \in {"single_room", "double_room", Unset}
            /\ Configs[c][w].density \in Nat \* 0: not set
            /\ Configs[c][w].progression \in {"linear", "quadratic", Null, Unset}
       /\ Len(Configs[c][w].scenarios) \in Nat
       /\ DOMAIN Configs[c][w].scenarios = 1..Len(Configs[c][w].scenarios)
       /\ \A s \in DOMAIN Configs[c][w].scenarios :
            /\ Configs[c][w].scenarios[s].enabled \in BOOLEAN
            /\ Configs[c][w].scenarios[s].usable \in BOOLEAN \* known deployment, result directory
            /\ Configs[c][w].scenarios[s].concurrencies \in Nat

VARIABLES conf,     \* the options: number, rerunType, es, filebeat, collectd
          at,       \* where main is
          pass,     \* run_iteration of the workloads now run
          wl, sc,   \* the workload, the scenario to be taken next
          jobs,     \* tests of the current scenario still to be run
          files,    \* the scenario files of the shaker package
          environ,  \* where OS_AUTH_URL comes from: the shell, overcloudrc or clouds.yaml
          success, failure, totalTests, totalScenarios, indexFailures,
          report,   \* WorkloadBase.browbeat, the report card: lines per status and indexing
          dumped,   \* the report card is written
          metadata, \* every metadata file is there
          filebeat, collectd, \* running on the cloud
          ansibleFailed,      \* history: a playbook failed after the workloads
          terminate,
          afterSignal,        \* history: workloads started after SIGINT
          executed,           \* history: the tests begun, in order
          served,   \* history: the credentials of the clients of Workflow
          unread,   \* history: Workflow tests whose scenario could not be read
          cached,   \* history: the cache of the workload's Elastic may hold documents
          lost,     \* history: the ways in which documents have missed Elasticsearch
          exit                \* exit status

counters == <<success, failure, totalTests, totalScenarios, indexFailures, report>>
cloud == <<metadata, filebeat, collectd, ansibleFailed>>
place == <<pass, wl, sc, jobs, files, environ>>
history == <<afterSignal, executed, served, unread, cached, lost>>
vars == <<conf, at, place, counters, dumped, cloud, terminate, history, exit>>

NoExit == 255
Workloads == Configs[conf.number]
Running == {"main", "metadata", "filebeat", "collectd", "loop", "clients", "workload",
            "scenario", "test", "stop", "verdict", "reported"}
(* A flush that failed during a test of a kind, that raised, or that closed a cache. *)
Ways == Kinds \cup {"swallowed", "closing"}
Sources == {"shell", "overcloudrc", "clouds.yaml"} \* of the credentials

Init ==
  /\ conf \in [number : DOMAIN Configs, rerunType : {"iteration", "complete"}, es : BOOLEAN,
               filebeat : BOOLEAN, collectd : BOOLEAN]
  /\ at = "main"
  /\ pass = 0 /\ wl = 1 /\ sc = 1 /\ jobs = <<>>
  /\ files = Shipped /\ environ = "unread"
  /\ success = 0 /\ failure = 0 /\ totalTests = 0 /\ totalScenarios = 0 /\ indexFailures = 0
  /\ report = [k \in Kinds |-> [s \in Statuses |-> [i \in Indexings |-> 0]]]
  /\ dumped = FALSE
  /\ metadata = FALSE /\ filebeat = FALSE /\ collectd = FALSE /\ ansibleFailed = FALSE
  /\ terminate = FALSE
  /\ afterSignal = 0
  /\ executed = <<>> /\ served = {}
  /\ unread = 0
  /\ cached = FALSE /\ lost = {}
  /\ exit = NoExit

--------------------------------------------------------------------------------
(* The command line *)

Ends(where, status) ==
  /\ at = "main"
  /\ at' = where /\ exit' = status
  /\ UNCHANGED <<conf, place, counters, dumped, cloud, terminate, history>>

(* A file that is missing or does not conform to the schemas raises. *)
InvalidConfig == Ends("crashed", 1)

(* get_uuid, query and compare: 0 whatever was found, unless reading it raises. *)
ReadElastic == Ends("exited", 0) \/ Ends("crashed", 1)

(* main returns False, exit status 0, if there is no such path; with one, the    *)
(* Rally object is made without the time stamp it requires, which raises.        *)
PostProcess == Ends("exited", 0) \/ Ends("crashed", 1)

(* A workload of another name. *)
InvalidWorkload == Ends("exited", 1)

StartRun ==
  /\ at = "main"
  /\ at' = "metadata"
  /\ UNCHANGED <<conf, place, counters, dumped, cloud, terminate, history, exit>>

--------------------------------------------------------------------------------
(* Before the workloads.  Whether a playbook did its work is only logged. *)

Metadata ==
  /\ at = "metadata"
  /\ at' = "filebeat"
  /\ metadata' \in IF conf.es THEN BOOLEAN ELSE {metadata}
  /\ UNCHANGED <<conf, place, counters, dumped, filebeat, collectd, ansibleFailed, terminate,
                 history, exit>>

StartFilebeat ==
  /\ at = "filebeat"
  /\ at' = "collectd"
  /\ filebeat' \in IF conf.filebeat THEN BOOLEAN ELSE {FALSE}
  /\ UNCHANGED <<conf, place, counters, dumped, metadata, collectd, ansibleFailed, terminate,
                 history, exit>>

(* check_collectd_config and start_collectd, either of which may fail *)
StartCollectd ==
  /\ at = "collectd"
  /\ at' = "loop"
  /\ collectd' \in IF conf.collectd THEN BOOLEAN ELSE {FALSE}
  /\ UNCHANGED <<conf, place, counters, dumped, metadata, filebeat, ansibleFailed, terminate,
                 history, exit>>

--------------------------------------------------------------------------------
(* run_iteration and run_complete *)

(* Mutant: skipping does not move on. *)
SkipWorkloadStays ==
  /\ at = "loop"
  /\ wl <= Len(Workloads) /\ ~Workloads[wl].selected
  /\ UNCHANGED vars

SkipWorkload ==
  /\ at = "loop"
  /\ wl <= Len(Workloads) /\ ~Workloads[wl].selected
  /\ wl' = wl + 1
  /\ UNCHANGED <<conf, at, pass, sc, jobs, files, environ, counters, dumped, cloud, terminate,
                 history, exit>>

(* A fresh workload object, a deep copy of the configuration. *)
StartWorkload ==
  /\ at = "loop"
  /\ wl <= Len(Workloads) /\ Workloads[wl].selected
  /\ at' = IF Workloads[wl].kind = "workflow" THEN "clients" ELSE "workload"
  /\ sc' = 1
  /\ afterSignal' = IF terminate THEN afterSignal + 1 ELSE afterSignal
  /\ UNCHANGED <<conf, pass, wl, jobs, files, environ, counters, dumped, cloud, terminate,
                 executed, served, unread, cached, lost, exit>>

(* Mutant: the files are read for every workload. *)
ReadCredentialsAgain == environ' \in Sources \cup {Unset}

(* What the process was started with, or the files as they are now; the files    *)
(* only set what they name, and may not name OS_AUTH_URL.                         *)
ReadCredentials ==
  environ' \in IF environ = "unread" THEN Sources \cup {Unset} ELSE {environ}

(* A Workflow workload first makes its clients; without credentials, or without  *)
(* rally_openstack, that raises.                                                 *)
InitializeClients ==
  /\ at = "clients"
  /\ ReadCredentials
  /\ \/ /\ environ' # Unset
        /\ at' = "workload"
        /\ served' = served \cup {environ'}
        /\ UNCHANGED exit
     \/ at' = "crashed" /\ exit' = 1 /\ UNCHANGED served
  /\ UNCHANGED <<conf, pass, wl, sc, jobs, files, counters, dumped, cloud, terminate, afterSignal,
                 executed, unread, cached, lost>>

(* The workload object goes, and with it its Elastic: __del__ flushes the cache, and *)
(* nobody sees whether that succeeds.                                            *)
CloseCache ==
  /\ cached' = FALSE
  /\ \/ UNCHANGED lost
     \/ cached /\ lost' = lost \cup {"closing"}

(* Mutant: SIGINT is noticed only after all the workloads. *)
EndWorkloadDeaf ==
  /\ at = "workload"
  /\ sc > Len(Workloads[wl].scenarios)
  /\ at' = "loop"
  /\ wl' = wl + 1
  /\ CloseCache
  /\ UNCHANGED <<conf, pass, sc, jobs, files, environ, counters, dumped, cloud, terminate,
                 afterSignal, executed, served, unread, exit>>

(* Mutant: SIGINT leaves the program from within the loop. *)
EndWorkloadLeaves ==
  /\ at = "workload"
  /\ sc > Len(Workloads[wl].scenarios)
  /\ at' = IF terminate THEN "verdict" ELSE "loop"
  /\ wl' = wl + 1
  /\ CloseCache
  /\ UNCHANGED <<conf, pass, sc, jobs, files, environ, counters, dumped, cloud, terminate,
                 afterSignal, executed, served, unread, exit>>

EndWorkload ==
  /\ at = "workload"
  /\ sc > Len(Workloads[wl].scenarios)
  /\ at' = IF terminate THEN "stop" ELSE "loop"
  /\ wl' = wl + 1
  /\ CloseCache
  /\ UNCHANGED <<conf, pass, sc, jobs, files, environ, counters, dumped, cloud, terminate,
                 afterSignal, executed, served, unread, exit>>

(* Mutant: one pass too many. *)
EndPassOnceMore ==
  /\ at = "loop"
  /\ wl > Len(Workloads)
  /\ IF conf.rerunType = "complete" /\ pass < Rerun
     THEN pass' = pass + 1 /\ wl' = 1 /\ UNCHANGED at
     ELSE at' = "stop" /\ UNCHANGED <<pass, wl>>
  /\ UNCHANGED <<conf, sc, jobs, files, environ, counters, dumped, cloud, terminate, history,
                 exit>>

EndPass ==
  /\ at = "loop"
  /\ wl > Len(Workloads)
  /\ IF conf.rerunType = "complete" /\ pass + 1 < Rerun
     THEN pass' = pass + 1 /\ wl' = 1 /\ UNCHANGED at
     ELSE at' = "stop" /\ UNCHANGED <<pass, wl>>
  /\ UNCHANGED <<conf, sc, jobs, files, environ, counters, dumped, cloud, terminate, history,
                 exit>>

--------------------------------------------------------------------------------
(* run_workload of a workload, scenario by scenario, test by test *)

(* Mutant: every call repeats the tests, a pass of complete too. *)
RunsAlways(kind, k) == IF kind = "workflow" THEN <<k>> ELSE [r \in 1..Rerun |-> r - 1]

(* The runs a workload makes of each of its tests when it is called for pass k. *)
Runs(kind, k) ==
  IF kind = "workflow" \/ conf.rerunType = "complete" THEN <<k>>
  ELSE [r \in 1..Rerun |-> r - 1]

(* Every concurrency, and every run of it, in the order of the loops. *)
JobsOf(kind, scenario, k) ==
  LET runs == Runs(kind, k)
      n == Len(runs)
  IN [j \in 1..scenario.concurrencies * n |->
        [concurrency |-> ((j - 1) \div n) + 1, run |-> runs[((j - 1) % n) + 1]]]

Scenario == Workloads[wl].scenarios[sc]

StartScenario ==
  /\ at = "workload"
  /\ sc <= Len(Workloads[wl].scenarios)
  /\ IF Scenario.enabled
     THEN /\ totalScenarios' = totalScenarios + 1
          /\ jobs' = IF Scenario.usable THEN JobsOf(Workloads[wl].kind, Scenario, pass) ELSE <<>>
     ELSE UNCHANGED <<totalScenarios, jobs>>
  /\ at' = "scenario"
  /\ UNCHANGED <<conf, pass, wl, sc, files, environ, success, failure, totalTests,
                 indexFailures, report, dumped,
                 cloud, terminate, history, exit>>

EndScenario ==
  /\ at = "scenario"
  /\ jobs = <<>>
  /\ sc' = sc + 1
  /\ at' = "workload"
  /\ UNCHANGED <<conf, pass, wl, jobs, files, environ, counters, dumped, cloud, terminate,
                 history, exit>>

(* Mutant: a progression that is not asked for is left as it is. *)
SetScenarioStale(w, file) ==
  [room |-> IF w.placement = Unset \/ file.room = Unset THEN "double_room" ELSE w.placement,
   density |-> IF file.density = 0 THEN 0 ELSE IF w.density = 0 THEN 1 ELSE w.density,
   progression |-> IF file.progression = Unset \/ w.progression = Null THEN Unset
                   ELSE IF w.progression = Unset THEN file.progression ELSE w.progression]

(* set_scenario rewrites the installed file: it replaces what the file has and  *)
(* adds nothing but a room.                                                     *)
SetScenario(w, file) ==
  [room |-> IF w.placement = Unset \/ file.room = Unset THEN "double_room" ELSE w.placement,
   density |-> IF file.density = 0 THEN 0 ELSE IF w.density = 0 THEN 1 ELSE w.density,
   progression |-> IF file.progression = Unset \/ w.progression = Null THEN Unset
                   ELSE IF w.progression = Unset THEN "linear" ELSE w.progression]

BeginTest ==
  /\ at = "scenario"
  /\ jobs # <<>>
  /\ at' = "test"
  /\ totalTests' = totalTests + 1
  /\ executed' = Append(executed, [wl |-> wl, sc |-> sc, concurrency |-> Head(jobs).concurrency,
                                   run |-> Head(jobs).run])
  /\ files' = LET w == Workloads[wl]
              IN IF w.kind = "shaker" THEN [files EXCEPT ![w.file] = SetScenario(w, @)] ELSE files
  /\ UNCHANGED <<conf, pass, wl, sc, jobs, environ, success, failure, totalScenarios,
                 indexFailures, report, dumped,
                 cloud, terminate, afterSignal, served, unread, cached, lost, exit>>

(* update_total_pass_tests or update_total_fail_tests, and get_time_dict *)
Passes == success' = success + 1 /\ UNCHANGED failure
Fails == failure' = failure + 1 /\ UNCHANGED success
Reports(status, index) ==
  report' = [report EXCEPT ![Workloads[wl].kind][status][index] = @ + 1]
AddIndexFailures(n) == indexFailures' = indexFailures + n

EndTest(kind) ==
  /\ at = "test"
  /\ Workloads[wl].kind = kind
  /\ at' = "scenario"
  /\ jobs' = Tail(jobs)
  /\ UNCHANGED <<conf, pass, wl, sc, files, environ, totalTests, totalScenarios, dumped, cloud,
                 terminate,
                 afterSignal, executed, served, exit>>

(* Whether documents were put into the cache, and in which ways some were lost. *)
NothingIndexed == UNCHANGED <<cached, lost>>
Indexed(ways) ==
  /\ conf.es
  /\ ways # {} => metadata
  /\ cached' = (cached \/ metadata)
  /\ lost' = lost \cup ways

(* Mutant: a task that is not found is only reported. *)
RallyTestUncounted ==
  /\ EndTest("rally") /\ UNCHANGED unread /\ NothingIndexed
  /\ \/ UNCHANGED <<success, failure>> /\ Reports("fail", "disabled") /\ AddIndexFailures(0)
     \/ Passes /\ ~conf.es /\ Reports("pass", "disabled") /\ AddIndexFailures(0)

(* Mutant: what json_result returns is only reported. *)
RallyTestIndexIgnored ==
  /\ EndTest("rally") /\ UNCHANGED unread
  /\ \/ Fails /\ NothingIndexed /\ Reports("fail", "disabled") /\ AddIndexFailures(0)
     \/ Passes /\ Indexed({"rally"}) /\ Reports("pass", "failure") /\ AddIndexFailures(0)
     \/ Passes /\ Indexed({}) /\ Reports("pass", "success") /\ AddIndexFailures(0)

(* Rally: a task id was found, or it was not; only found tasks are indexed, and *)
(* one without documents asks for no metadata.                                 *)
RallyTest ==
  /\ EndTest("rally") /\ UNCHANGED unread
  /\ \/ Fails /\ NothingIndexed /\ Reports("fail", "disabled") /\ AddIndexFailures(0)
     \/ Passes /\ ~conf.es /\ NothingIndexed /\ Reports("pass", "disabled") /\ AddIndexFailures(0)
     \/ Passes /\ Indexed({}) /\ Reports("pass", "success") /\ AddIndexFailures(0)
     \/ Passes /\ Indexed({"rally"}) /\ Reports("pass", "failure") /\ AddIndexFailures(1)

(* Mutant: a test without an output file is counted and left out of the report. *)
ShakerTestUnreported ==
  /\ EndTest("shaker") /\ UNCHANGED unread /\ NothingIndexed
  /\ \/ Fails /\ UNCHANGED report /\ AddIndexFailures(0)
     \/ Passes /\ ~conf.es /\ Reports("pass", "disabled") /\ AddIndexFailures(0)

(* Mutant: result_check is not told what send_to_elastic returned. *)
ShakerTestIndexIgnored ==
  /\ EndTest("shaker") /\ UNCHANGED unread /\ AddIndexFailures(0)
  /\ NothingIndexed \/ Indexed({}) \/ Indexed({"shaker"})
  /\ \/ Fails /\ Reports("fail", "disabled")
     \/ Passes /\ Reports("pass", "disabled")

(* Shaker: without an output file one error document is indexed, with one every record; *)
(* a test fails without the file or for one of its records.                            *)
ShakerTest ==
  /\ EndTest("shaker") /\ UNCHANGED unread
  /\ \/ Fails /\ ~conf.es /\ NothingIndexed /\ Reports("fail", "disabled") /\ AddIndexFailures(0)
     \/ Passes /\ ~conf.es /\ NothingIndexed /\ Reports("pass", "disabled") /\ AddIndexFailures(0)
     \/ /\ Fails /\ metadata /\ Indexed({}) /\ Reports("fail", "success")
        /\ AddIndexFailures(0)
     \/ /\ Fails /\ Indexed({"shaker"}) /\ Reports("fail", "failure")
        /\ indexFailures' \in {indexFailures, indexFailures + 1}
     \/ Passes /\ Indexed({}) /\ Reports("pass", "success") /\ AddIndexFailures(0)
     \/ Passes /\ Indexed({"shaker"}) /\ Reports("pass", "failure") /\ AddIndexFailures(0)

(* The steps of a scenario are run and indexed: n flushes fail, and one may raise, *)
(* which the engine catches and does not count.                                  *)
IndexedSteps(n, raised) ==
  /\ AddIndexFailures(n)
  /\ \/ ~conf.es /\ n = 0 /\ ~raised /\ NothingIndexed
     \/ Indexed({way \in {"workflow", "swallowed"} : IF way = "workflow" THEN n > 0 ELSE raised})

(* Workflow: a scenario file that cannot be loaded, or steps that are run. *)
WorkflowTest ==
  /\ EndTest("workflow")
  /\ \/ /\ Fails /\ UNCHANGED report /\ AddIndexFailures(0) /\ unread' = unread + 1
        /\ NothingIndexed
     \/ /\ \E n \in 0..MaxSteps, raised \in BOOLEAN : IndexedSteps(n, raised)
        /\ UNCHANGED unread
        /\ \/ Passes /\ Reports("pass", "success")
           \/ Fails /\ Reports("fail", "failure")

(* exit(1) inside a workload, or an exception nobody catches: combine_metadata   *)
(* without its files, no result directory, a deployment that is not found, a     *)
(* result that cannot be parsed.                                                 *)
Crash ==
  /\ at \in {"workload", "scenario", "test"}
  /\ at' = "crashed"
  /\ exit' = 1
  /\ success' \in IF at = "test" /\ Workloads[wl].kind = "rally" THEN {success, success + 1}
                 ELSE {success} \* Rally counts before it indexes
  /\ UNCHANGED <<conf, place, failure, totalTests, totalScenarios, indexFailures, report, dumped,
                 cloud, terminate, history>>

--------------------------------------------------------------------------------
(* After the workloads *)

StopCollectd ==
  /\ at = "stop"
  /\ at' = "verdict"
  /\ IF conf.collectd
     THEN \/ collectd' = FALSE /\ UNCHANGED ansibleFailed
          \/ ansibleFailed' = TRUE /\ UNCHANGED collectd
     ELSE UNCHANGED <<collectd, ansibleFailed>>
  /\ UNCHANGED <<conf, place, counters, dumped, metadata, filebeat, terminate, history, exit>>

Exit(status) == at' = "exited" /\ exit' = status

Interrupted == /\ at = "verdict" /\ terminate
               /\ Exit(1)
               /\ UNCHANGED <<dumped, filebeat, ansibleFailed>>

DumpReport == /\ at = "verdict" /\ ~terminate
              /\ at' = "reported"
              /\ dumped' = TRUE
              /\ UNCHANGED <<filebeat, ansibleFailed, exit>>

TestsFailed == /\ at = "reported" /\ failure > 0
               /\ Exit(1)
               /\ UNCHANGED <<dumped, filebeat, ansibleFailed>>

IndexingFailed == /\ at = "reported" /\ failure = 0 /\ indexFailures > 0
                  /\ Exit(2)
                  /\ UNCHANGED <<dumped, filebeat, ansibleFailed>>

Succeeded == /\ at = "reported" /\ failure = 0 /\ indexFailures = 0
             /\ Exit(0)
             /\ IF conf.filebeat
                THEN \/ filebeat' = FALSE /\ UNCHANGED ansibleFailed
                     \/ ansibleFailed' = TRUE /\ UNCHANGED filebeat
                ELSE UNCHANGED <<filebeat, ansibleFailed>>
             /\ UNCHANGED dumped

Verdict == /\ Interrupted \/ DumpReport \/ TestsFailed \/ IndexingFailed \/ Succeeded
           /\ UNCHANGED <<conf, place, counters, metadata, collectd, terminate, history>>

(* SIGINT, at any time *)
Signal == /\ at \in Running
          /\ ~terminate
          /\ terminate' = TRUE
          /\ UNCHANGED <<conf, at, place, counters, dumped, cloud, history, exit>>

Over == at \in {"exited", "crashed"}
Terminated == Over /\ UNCHANGED vars

Step == \/ InvalidConfig \/ ReadElastic \/ PostProcess \/ InvalidWorkload \/ StartRun
        \/ Metadata \/ StartFilebeat \/ StartCollectd
        \/ SkipWorkload \/ StartWorkload \/ InitializeClients \/ EndWorkload \/ EndPass
        \/ StartScenario \/ EndScenario \/ BeginTest
        \/ RallyTest \/ ShakerTest \/ WorkflowTest \/ Crash
        \/ StopCollectd \/ Verdict

Next == Step \/ Signal \/ Terminated

(* Every command browbeat waits for comes to an end; the user need not send SIGINT. *)
Spec == Init /\ [][Next]_vars /\ WF_vars(Step)

--------------------------------------------------------------------------------
TypeOK ==
  /\ conf \in [number : DOMAIN Configs, rerunType : {"iteration", "complete"}, es : BOOLEAN,
               filebeat : BOOLEAN, collectd : BOOLEAN]
  /\ at \in Running \cup {"exited", "crashed"}
  /\ pass \in 0..Rerun - 1
  /\ wl \in 1..Len(Workloads) + 1
  /\ sc \in Nat \ {0}
  /\ report \in [Kinds -> [Statuses -> [Indexings -> Nat]]]
  /\ files \in [DOMAIN Shipped -> FileContent]
  /\ served \subseteq Sources
  /\ environ \in Sources \cup {"unread", Unset}
  /\ {success, failure, totalTests, totalScenarios, indexFailures, afterSignal, unread}
       \subseteq Nat
  /\ {dumped, metadata, filebeat, collectd, ansibleFailed, terminate, cached} \subseteq BOOLEAN
  /\ lost \subseteq Ways
  /\ exit \in {0, 1, 2, NoExit}

MarkedIn(k, status) ==
  report[k][status]["success"] + report[k][status]["failure"] + report[k][status]["disabled"]
Marked(status) ==
  MarkedIn("rally", status) + MarkedIn("shaker", status) + MarkedIn("workflow", status)

(***************************************************************************)
(* Every test begun is counted as passed or as failed, once: the counters  *)
(* the three kinds of workload update on a dozen paths agree with each     *)
(* other and with the lines of the report card, but for Workflow scenarios *)
(* whose file cannot be read, which are counted and never reported.        *)
(***************************************************************************)
CountsAgree ==
  LET counted == success + failure
  IN /\ totalTests \in CASE at = "test"    -> {counted + 1}
                         [] at = "crashed" -> {counted, counted + 1}
                         [] OTHER          -> {counted}
     /\ at # "crashed" => Marked("pass") = success /\ Marked("fail") + unread = failure

(* The tests the configuration asks for.  With iteration the workload repeats its *)
(* tests itself, and a Workflow has no loop that does.                            *)
Planned ==
  LET RunsOf(w) == IF conf.rerunType = "iteration" /\ Workloads[w].kind = "workflow"
                   THEN {0} ELSE 0..Rerun - 1
      RunnableOf(w) == {s \in DOMAIN Workloads[w].scenarios :
                          /\ Workloads[w].scenarios[s].enabled
                          /\ Workloads[w].scenarios[s].usable}
      TestsOf(w, s) == {[wl |-> w, sc |-> s, concurrency |-> c, run |-> r] :
                          c \in 1..Workloads[w].scenarios[s].concurrencies, r \in RunsOf(w)}
  IN UNION {UNION {TestsOf(w, s) : s \in RunnableOf(w)} :
              w \in {v \in DOMAIN Workloads : Workloads[v].selected}}

(***************************************************************************)
(* A run that gets as far as its report card, whatever SIGINT did, has     *)
(* executed every test of the configuration exactly once, whichever of the *)
(* two loops, run_complete's or the workload's own, repeats it: complete   *)
(* finishes a pass over all the workloads before the next one, iteration a *)
(* workload before the next one.                                           *)
(***************************************************************************)
EveryPlannedTest ==
  /\ dumped => /\ {executed[n] : n \in DOMAIN executed} = Planned
               /\ Len(executed) = Cardinality(Planned)
  /\ \A m, n \in DOMAIN executed : m < n =>
       IF conf.rerunType = "complete" THEN executed[m].run <= executed[n].run
       ELSE executed[m].wl <= executed[n].wl

(***************************************************************************)
(* Whatever was run before, in this pass or an earlier one, a Shaker test   *)
(* runs with the settings of its workload or the defaults, with two         *)
(* exceptions: no test has a progression after one that asked for null on   *)
(* the same file, and a placement is ignored on the first use of a file     *)
(* without a room.                                                          *)
(***************************************************************************)
ShakerRunsAsAsked ==
  at = "test" /\ Workloads[wl].kind = "shaker" =>
    LET w == Workloads[wl]
        Earlier == {Workloads[executed[n].wl] : n \in 1..Len(executed) - 1}
        Before == {v \in Earlier : v.kind = "shaker" /\ v.file = w.file}
        file == files[w.file]
        shipped == Shipped[w.file]
    IN /\ file.room = IF w.placement = Unset \/ (shipped.room = Unset /\ Before = {})
                      THEN "double_room" ELSE w.placement
       /\ shipped.density > 0 => file.density = IF w.density = 0 THEN 1 ELSE w.density
       /\ file.progression = IF \/ shipped.progression = Unset
                                \/ \E v \in Before \cup {w} : v.progression = Null
                             THEN Unset
                             ELSE IF w.progression = Unset THEN "linear" ELSE w.progression

(***************************************************************************)
(* All Workflow workloads of a run act on one cloud with one set of         *)
(* credentials, whatever becomes of the files between its passes.           *)
(***************************************************************************)
OneCloud == Cardinality(served) <= 1

(***************************************************************************)
(* What a test measures does not depend on the tests before it, but as     *)
(* ShakerRunsAsAsked says.                                                 *)
(***************************************************************************)
TestsRunAsAsked == ShakerRunsAsAsked /\ OneCloud

(***************************************************************************)
(* The exit status of a run that was not interrupted: 1 if and only if a   *)
(* test failed, 2 only if none did and results of Rally or Workflow were   *)
(* not indexed, and 0 only if neither happened.  Lost without a trace in   *)
(* it are documents of Shaker tests that passed (shaker.py:212), those of  *)
(* an indexing that raised in a step that may fail (workflow.py:398-402),  *)
(* and what a workload flushed when it was done (elastic.py:55-56).        *)
(***************************************************************************)
StatusTells ==
  LET failed == Marked("fail") + unread
  IN /\ exit = 0 => failed = 0 /\ lost \cap {"rally", "workflow"} = {}
     /\ exit = 1 /\ dumped => failed > 0
     /\ exit = 2 => failed = 0 /\ lost \cap {"rally", "workflow"} # {}

(***************************************************************************)
(* The report card has a line with failed indexing for Rally or Shaker if  *)
(* and only if documents of one of its tests were lost during the test:    *)
(* for Shaker nothing else tells of them.                                  *)
(***************************************************************************)
CardTells ==
  \A k \in {"rally", "shaker"} :
    k \in lost <=> \E status \in Statuses : report[k][status]["failure"] > 0

(***************************************************************************)
(* What went wrong in a test is told by the exit status or by the report   *)
(* card, over any workloads and passes (browbeat.py:204-224).              *)
(***************************************************************************)
OutcomeIsTold == StatusTells /\ CardTells

(***************************************************************************)
(* After SIGINT at most one more workload is started, whatever rerun type  *)
(* and count of passes are left.                                           *)
(***************************************************************************)
AtMostOneWorkloadAfterSignal == afterSignal <= 1

(***************************************************************************)
(* However a run ends, interrupted or with failures, collectd is stopped   *)
(* unless the playbook itself fails; a crash inside a workload excepted.   *)
(***************************************************************************)
CollectdStopped == at = "exited" /\ ~ansibleFailed => ~collectd

(***************************************************************************)
(* SIGINT, or the end of the workloads, leads through the same orderly end. *)
(***************************************************************************)
EndsInOrder == AtMostOneWorkloadAfterSignal /\ CollectdStopped

(***************************************************************************)
(* Every run ends with an exit status.                                     *)
(***************************************************************************)
RunEnds == <>(Over /\ exit # NoExit)
================================================================================
