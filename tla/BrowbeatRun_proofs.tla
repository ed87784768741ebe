--------------------------- MODULE BrowbeatRun_proofs ---------------------------
(***************************************************************************)
(* Proofs about BrowbeatRun for any configurations, scenario files and      *)
(* number of reruns: its type invariant, that counters and report card      *)
(* agree, what exit status and report card tell, the orderly end, one cloud, *)
(* the settings Shaker tests run with, and that every planned test is run   *)
(* once.                                                                    *)
(***************************************************************************)
EXTENDS BrowbeatRun, FiniteSetTheorems, TLAPS

LEMMA Lengths ==
  /\ Rerun \in Nat \ {0}
  /\ \A c \in DOMAIN Configs : Len(Configs[c]) \in Nat /\ DOMAIN Configs[c] = 1..Len(Configs[c])
BY WorkloadsAssumption

(* Inside a workload, wl is the number of one. *)
InWorkload ==
  at \in {"clients", "workload", "scenario", "test"} => wl \in DOMAIN Workloads

(* One more line on the report card. *)
LEMMA ReportedOnce ==
  ASSUME TypeOK, InWorkload, at = "test", NEW s \in Statuses, NEW x \in Indexings, Reports(s, x)
  PROVE  /\ report' \in [Kinds -> [Statuses -> [Indexings -> Nat]]]
         /\ \A l \in Kinds, t \in Statuses, y \in Indexings :
              \/ l = Workloads[wl].kind /\ t = s /\ y = x
              \/ report'[l][t][y] = report[l][t][y]
         /\ report'[Workloads[wl].kind][s][x] > 0
         /\ Marked(s)' = Marked(s) + 1
         /\ \A t \in Statuses \ {s} : Marked(t)' = Marked(t)
<1> DEFINE k == Workloads[wl].kind
<1>1. k \in Kinds
  BY WorkloadsAssumption DEF TypeOK, InWorkload, Workloads
<1>2. /\ report \in [Kinds -> [Statuses -> [Indexings -> Nat]]]
      /\ report' = [report EXCEPT ![k][s][x] = @ + 1]
  BY DEF TypeOK, Reports
<1> HIDE DEF k
<1>3. report' \in [Kinds -> [Statuses -> [Indexings -> Nat]]]
  BY <1>1, <1>2
<1>4. \A l \in Kinds, t \in Statuses, y \in Indexings :
        /\ report[l][t][y] \in Nat
        /\ report'[l][t][y] = IF l = k /\ t = s /\ y = x THEN report[l][t][y] + 1
                              ELSE report[l][t][y]
  BY <1>1, <1>2
<1>5. \A l \in Kinds, t \in Statuses :
        /\ MarkedIn(l, t) \in Nat
        /\ MarkedIn(l, t)' = IF l = k /\ t = s THEN MarkedIn(l, t) + 1 ELSE MarkedIn(l, t)
  BY <1>4 DEF MarkedIn, Indexings
<1>6. \A t \in Statuses : Marked(t)' = IF t = s THEN Marked(t) + 1 ELSE Marked(t)
  BY <1>1, <1>5 DEF Marked, Kinds
<1>7. report'[k][s][x] > 0
  <2>1. report[k][s][x] \in Nat /\ report'[k][s][x] = report[k][s][x] + 1
    BY <1>1, <1>4
  <2> QED
    BY <2>1
<1> QED
  BY <1>3, <1>4, <1>6, <1>7 DEF k

(* What the end of a test does to the counters, the report card and the losses: it *)
(* passes or fails, and has a line that says so unless its scenario could not be   *)
(* read.  A loss of Rally or Workflow is counted, and what is counted is a loss of  *)
(* theirs, or of a Shaker test that fails.                                         *)
Counted == {"rally", "workflow"}

Written(s, x) ==
  /\ Reports(s, x)
  /\ UNCHANGED unread
  /\ \A k \in {"rally", "shaker"} :
       k \in lost' <=> k \in lost \/ (k = Workloads[wl].kind /\ x = "failure")
  /\ "workflow" \in lost' \ lost => indexFailures' > indexFailures
  /\ x = "failure" /\ Workloads[wl].kind = "rally" => indexFailures' > indexFailures
  /\ indexFailures' > indexFailures => s = "fail" \/ lost' \cap Counted # {}

TestOver ==
  /\ at = "test" /\ at' = "scenario"
  /\ jobs' = Tail(jobs)
  /\ UNCHANGED <<conf, pass, wl, sc, files, environ, totalTests, totalScenarios, dumped, cloud,
                 terminate, afterSignal, executed, served, exit>>
  /\ indexFailures' \in Nat /\ indexFailures' >= indexFailures
  /\ lost \subseteq lost' /\ lost' \subseteq Ways /\ cached' \in BOOLEAN
  /\ \/ Passes /\ \E x \in Indexings : Written("pass", x)
     \/ Fails /\ \E x \in Indexings : Written("fail", x)
     \/ Fails /\ unread' = unread + 1 /\ UNCHANGED <<report, indexFailures, lost>>

LEMMA LosesWays ==
  ASSUME TypeOK, NEW ways \in SUBSET Ways, (NothingIndexed /\ ways = {}) \/ Indexed(ways)
  PROVE  lost' = lost \cup ways /\ lost' \subseteq Ways /\ cached' \in BOOLEAN
BY DEF NothingIndexed, Indexed, TypeOK

LEMMA TestsEnd ==
  ASSUME TypeOK, InWorkload, RallyTest \/ ShakerTest \/ WorkflowTest
  PROVE  TestOver
<1> USE DEF EndTest, AddIndexFailures
<1>1. indexFailures \in Nat
  BY DEF TypeOK
<1>2. CASE RallyTest
  <2>1. PICK ways \in {{}, {"rally"}} :
          /\ (NothingIndexed /\ ways = {}) \/ Indexed(ways)
          /\ \/ Passes /\ \E x \in {"disabled", "success"} :
                            Reports("pass", x) /\ ways = {} /\ AddIndexFailures(0)
             \/ Passes /\ Reports("pass", "failure") /\ ways = {"rally"} /\ AddIndexFailures(1)
             \/ Fails /\ Reports("fail", "disabled") /\ ways = {} /\ AddIndexFailures(0)
    BY <1>2 DEF RallyTest
  <2>2. lost' = lost \cup ways /\ lost' \subseteq Ways /\ cached' \in BOOLEAN
    BY <2>1, LosesWays DEF Ways, Kinds
  <2> QED
    BY <1>1, <1>2, <2>1, <2>2 DEF RallyTest, TestOver, Written, Counted, Indexings
<1>3. CASE ShakerTest
  <2>1. PICK ways \in {{}, {"shaker"}}, s \in Statuses, x \in Indexings :
          /\ (NothingIndexed /\ ways = {}) \/ Indexed(ways)
          /\ IF s = "pass" THEN Passes ELSE Fails
          /\ Reports(s, x)
          /\ x = "failure" <=> ways # {}
          /\ indexFailures' \in {indexFailures, indexFailures + 1}
          /\ s = "pass" => indexFailures' = indexFailures
    BY <1>1, <1>3 DEF ShakerTest, Statuses, Indexings
  <2>2. lost' = lost \cup ways /\ lost' \subseteq Ways /\ cached' \in BOOLEAN
    BY <2>1, LosesWays DEF Ways, Kinds
  <2> QED
    BY <1>1, <1>3, <2>1, <2>2 DEF ShakerTest, TestOver, Written, Counted, Statuses
<1>4. CASE WorkflowTest
  <2>1. at = "test" /\ at' = "scenario" /\ Workloads[wl].kind = "workflow"
    BY <1>4 DEF WorkflowTest
  <2>2. CASE /\ Fails /\ UNCHANGED report /\ AddIndexFailures(0) /\ unread' = unread + 1
             /\ NothingIndexed
    BY <1>1, <1>4, <2>2 DEF WorkflowTest, NothingIndexed, TestOver, TypeOK
  <2>3. ASSUME NEW n \in 0..MaxSteps, NEW raised \in BOOLEAN, IndexedSteps(n, raised),
               UNCHANGED unread,
               \/ Passes /\ Reports("pass", "success")
               \/ Fails /\ Reports("fail", "failure")
        PROVE  TestOver
    <3> DEFINE ways == {way \in {"workflow", "swallowed"} :
                          IF way = "workflow" THEN n > 0 ELSE raised}
    <3>1. n \in Nat
      BY <2>3, WorkloadsAssumption
    <3>2. (NothingIndexed /\ ways = {}) \/ Indexed(ways)
      BY <2>3, <3>1 DEF IndexedSteps
    <3>3. ways \subseteq Ways
      BY DEF Ways, Kinds
    <3>4. lost' = lost \cup ways /\ lost' \subseteq Ways /\ cached' \in BOOLEAN
      BY <3>2, <3>3, LosesWays
    <3>5. indexFailures' = indexFailures + n
      BY <2>3 DEF IndexedSteps
    <3>6. indexFailures' > indexFailures <=> "workflow" \in ways
      BY <1>1, <3>1, <3>5
    <3>7. "rally" \notin ways /\ "shaker" \notin ways
      OBVIOUS
    <3> HIDE DEF ways
    <3> QED
      BY <1>1, <1>4, <2>1, <2>3, <3>1, <3>4, <3>5, <3>6, <3>7
      DEF WorkflowTest, TestOver, Written, Counted, Indexings
  <2> QED
    BY <1>4, <2>2, <2>3 DEF WorkflowTest
<1> QED
  BY <1>2, <1>3, <1>4

--------------------------------------------------------------------------------
(***************************************************************************)
(* Every variable keeps its type: wl never passes the last workload by more *)
(* than one, pass never reaches Rerun, a rewritten scenario file is one.    *)
(***************************************************************************)
LEMMA TypesInit == Init => TypeOK /\ InWorkload
<1> SUFFICES ASSUME Init PROVE TypeOK /\ InWorkload
  OBVIOUS
<1>1. wl \in 1..Len(Workloads) + 1 /\ pass \in 0..Rerun - 1 /\ sc \in Nat \ {0}
  BY Lengths DEF Init, Workloads
<1>2. files \in [DOMAIN Shipped -> FileContent] /\ served \subseteq Sources
  BY WorkloadsAssumption DEF Init
<1>3. report \in [Kinds -> [Statuses -> [Indexings -> Nat]]]
  BY DEF Init
<1>4. {success, failure, totalTests, totalScenarios, indexFailures, afterSignal, unread}
        \subseteq Nat
  BY DEF Init
<1>5. /\ {dumped, metadata, filebeat, collectd, ansibleFailed, terminate, cached} \subseteq BOOLEAN
      /\ lost \subseteq Ways
  BY DEF Init
<1>6. environ \in Sources \cup {"unread", Unset} /\ at \in Running /\ exit = NoExit
  BY DEF Init, Running
<1>7. InWorkload
  BY DEF Init, InWorkload
<1> QED
  BY <1>1, <1>2, <1>3, <1>4, <1>5, <1>6, <1>7 DEF Init, TypeOK

LEMMA ScenarioIsSet ==
  ASSUME NEW w, NEW file \in FileContent,
         w.placement \in {"single_room", "double_room", Unset},
         w.density \in Nat,
         w.progression \in {"linear", "quadratic", Null, Unset}
  PROVE  SetScenario(w, file) \in FileContent
BY DEF SetScenario, FileContent, Unset, Null

LEMMA TypesStep == TypeOK /\ InWorkload /\ [Next]_vars => TypeOK' /\ InWorkload'
<1> SUFFICES ASSUME TypeOK, InWorkload, [Next]_vars PROVE TypeOK' /\ InWorkload'
  OBVIOUS
<1> USE Lengths
        DEF TypeOK, InWorkload, Workloads, Running, Sources, place, counters, cloud, history
<1>1. CASE InvalidConfig
  BY <1>1 DEF InvalidConfig, Ends
<1>2. CASE ReadElastic
  BY <1>2, ZenonT(30) DEF ReadElastic, Ends
<1>3. CASE PostProcess
  BY <1>3, ZenonT(30) DEF PostProcess, Ends
<1>4. CASE InvalidWorkload
  BY <1>4 DEF InvalidWorkload, Ends
<1>5. CASE StartRun
  BY <1>5 DEF StartRun
<1>6. CASE Metadata
  BY <1>6 DEF Metadata
<1>7. CASE StartFilebeat
  BY <1>7 DEF StartFilebeat
<1>8. CASE StartCollectd
  BY <1>8 DEF StartCollectd
<1>9. CASE SkipWorkload
  BY <1>9 DEF SkipWorkload
<1>10. CASE StartWorkload
  BY <1>10, SMTT(30) DEF StartWorkload
<1>11. CASE InitializeClients
  <2>1. environ' \in Sources \cup {Unset}
    BY <1>11 DEF InitializeClients, ReadCredentials
  <2>2. served' \subseteq Sources
    BY <1>11, <2>1 DEF InitializeClients, Unset
  <2> QED
    BY <1>11, <2>1, <2>2 DEF InitializeClients
<1>12. CASE EndWorkload
  <2>1. cached' \in BOOLEAN /\ lost' \subseteq Ways
    BY <1>12 DEF EndWorkload, CloseCache, Ways
  <2>2. wl' \in 1..Len(Configs[conf.number]) + 1
    BY <1>12, SMTT(30) DEF EndWorkload
  <2> QED
    BY <1>12, <2>1, <2>2 DEF EndWorkload
<1>13. CASE EndPass
  BY <1>13, SMTT(30) DEF EndPass
<1>14. CASE StartScenario
  BY <1>14, SMTT(30) DEF StartScenario
<1>15. CASE EndScenario
  BY <1>15 DEF EndScenario
<1>16. CASE BeginTest
  <2>1. files' \in [DOMAIN Shipped -> FileContent]
    <3>1. CASE Workloads[wl].kind = "shaker"
      <4> DEFINE w == Workloads[wl]
      <4>1. /\ w.file \in DOMAIN Shipped
            /\ w.placement \in {"single_room", "double_room", Unset}
            /\ w.density \in Nat
            /\ w.progression \in {"linear", "quadratic", Null, Unset}
        BY <1>16, <3>1, WorkloadsAssumption DEF BeginTest
      <4>2. files[w.file] \in FileContent
        BY <4>1
      <4>3. SetScenario(w, files[w.file]) \in FileContent
        <5> HIDE DEF w
        <5> QED
          BY <4>1, <4>2, ScenarioIsSet
      <4>4. files' = [files EXCEPT ![w.file] = SetScenario(w, @)]
        BY <1>16, <3>1 DEF BeginTest
      <4> QED
        BY <4>1, <4>3, <4>4
    <3> QED
      BY <1>16, <3>1 DEF BeginTest
  <2>2. totalTests' \in Nat
    BY <1>16, SMTT(30) DEF BeginTest
  <2> QED
    BY <1>16, <2>1, <2>2 DEF BeginTest
<1>17. CASE RallyTest \/ ShakerTest \/ WorkflowTest
  <2>1. TestOver
    BY <1>17, TestsEnd
  <2>2. report' \in [Kinds -> [Statuses -> [Indexings -> Nat]]]
    <3>1. \A s \in Statuses, x \in Indexings :
            Reports(s, x) => report' \in [Kinds -> [Statuses -> [Indexings -> Nat]]]
      BY <2>1, ReportedOnce DEF TestOver
    <3> QED
      BY <2>1, <3>1 DEF TestOver, Written, Statuses
  <2>3. {success', failure', totalTests', totalScenarios', indexFailures', unread'} \subseteq Nat
    <3>1. success' \in Nat /\ failure' \in Nat
      BY <2>1, SMTT(30) DEF TestOver, Passes, Fails
    <3>2. unread' \in Nat
      BY <2>1 DEF TestOver, Written
    <3>3. totalTests' \in Nat /\ totalScenarios' \in Nat /\ indexFailures' \in Nat
      BY <2>1 DEF TestOver
    <3> QED
      BY <3>1, <3>2, <3>3
  <2> QED
    BY <2>1, <2>2, <2>3 DEF TestOver
<1>20. CASE Crash
  BY <1>20 DEF Crash
<1>21. CASE StopCollectd
  BY <1>21 DEF StopCollectd
<1>22. CASE Verdict
  BY <1>22, ZenonT(30)
  DEF Verdict, Interrupted, DumpReport, TestsFailed, IndexingFailed, Succeeded, Exit
<1>23. CASE Signal
  BY <1>23 DEF Signal
<1>24. CASE UNCHANGED vars
  BY <1>24 DEF vars
<1> QED
  BY <1>1, <1>2, <1>3, <1>4, <1>5, <1>6, <1>7, <1>8, <1>9, <1>10, <1>11, <1>12, <1>13, <1>14,
     <1>15, <1>16, <1>17, <1>20, <1>21, <1>22, <1>23, <1>24 DEF Next, Step, Terminated

(***************************************************************************)
(* Every variable of a run keeps its type, for any configurations, any      *)
(* number of reruns and any shipped scenario files.                         *)
(***************************************************************************)
THEOREM TypeCorrect == Spec => []TypeOK
BY TypesInit, TypesStep, PTL DEF Spec

--------------------------------------------------------------------------------
(* CountsAgree is inductive with the types. *)

LEMMA MarkedIsNat ==
  ASSUME report \in [Kinds -> [Statuses -> [Indexings -> Nat]]], NEW s \in Statuses
  PROVE  Marked(s) \in Nat
<1>1. \A k \in Kinds : MarkedIn(k, s) \in Nat
  BY DEF MarkedIn, Indexings
<1> QED
  BY <1>1 DEF Marked, Kinds

LEMMA NothingReported ==
  ASSUME Init
  PROVE  /\ \A k \in Kinds, s \in Statuses, i \in Indexings : report[k][s][i] = 0
         /\ Marked("pass") = 0 /\ Marked("fail") = 0
<1>1. \A k \in Kinds, s \in Statuses, i \in Indexings : report[k][s][i] = 0
  BY DEF Init
<1>2. \A k \in Kinds, s \in Statuses : MarkedIn(k, s) = 0
  BY <1>1 DEF MarkedIn, Indexings
<1> QED
  BY <1>1, <1>2 DEF Marked, Kinds, Statuses

LEMMA CountInit == Init => CountsAgree
<1> SUFFICES ASSUME Init PROVE CountsAgree
  OBVIOUS
<1>1. Marked("pass") = 0 /\ Marked("fail") = 0
  BY NothingReported
<1> QED
  BY <1>1 DEF Init, CountsAgree

(* Steps that leave alone what is counted and told. *)
Quiet == /\ UNCHANGED <<success, failure, totalTests, indexFailures, report, unread>>
         /\ at \notin {"test", "crashed"} /\ at' # "test"

LEMMA QuietCounts ==
  ASSUME CountsAgree, Quiet
  PROVE  CountsAgree'
<1>1. UNCHANGED <<Marked("pass"), Marked("fail")>>
  BY DEF Quiet, Marked, MarkedIn
<1> QED
  BY <1>1 DEF Quiet, CountsAgree

LEMMA CountStep == TypeOK /\ InWorkload /\ CountsAgree /\ [Next]_vars => CountsAgree'
<1> SUFFICES ASSUME TypeOK, InWorkload, CountsAgree, [Next]_vars PROVE CountsAgree'
  OBVIOUS
<1> USE DEF place, counters, cloud, history
<1>1. CASE \/ InvalidConfig \/ ReadElastic \/ PostProcess \/ InvalidWorkload \/ StartRun
           \/ Metadata \/ StartFilebeat \/ StartCollectd
  <2>1. Quiet
    BY <1>1 DEF InvalidConfig, ReadElastic, PostProcess, InvalidWorkload, Ends, StartRun, Metadata,
                StartFilebeat, StartCollectd, Quiet
  <2> QED
    BY <2>1, QuietCounts
<1>2. CASE \/ SkipWorkload \/ StartWorkload \/ InitializeClients \/ EndWorkload \/ EndPass
           \/ StartScenario \/ EndScenario \/ StopCollectd
  <2>1. Quiet
    BY <1>2 DEF SkipWorkload, StartWorkload, InitializeClients, EndWorkload, EndPass,
                StartScenario, EndScenario, StopCollectd, Quiet
  <2> QED
    BY <2>1, QuietCounts
<1>3. CASE Verdict
  <2>1. Quiet
    BY <1>3 DEF Verdict, Interrupted, DumpReport, TestsFailed, IndexingFailed, Succeeded, Exit,
                Quiet
  <2> QED
    BY <2>1, QuietCounts
<1>4. CASE Signal \/ UNCHANGED vars
  <2>1. UNCHANGED <<at, success, failure, totalTests, report, unread>>
    BY <1>4 DEF Signal, vars
  <2>2. UNCHANGED <<Marked("pass"), Marked("fail")>>
    BY <2>1 DEF Marked, MarkedIn
  <2> QED
    BY <2>1, <2>2 DEF CountsAgree
<1>5. CASE BeginTest
  <2>1. /\ at = "scenario" /\ at' = "test" /\ totalTests' = totalTests + 1
        /\ UNCHANGED <<success, failure, report, unread>>
    BY <1>5 DEF BeginTest
  <2>2. UNCHANGED <<Marked("pass"), Marked("fail")>>
    BY <2>1 DEF Marked, MarkedIn
  <2> QED
    BY <2>1, <2>2 DEF CountsAgree
<1>6. CASE RallyTest \/ ShakerTest \/ WorkflowTest
  <2>1. TestOver
    BY <1>6, TestsEnd
  <2>2. /\ success \in Nat /\ failure \in Nat /\ totalTests = success + failure + 1
        /\ unread \in Nat
        /\ Marked("pass") = success /\ Marked("fail") + unread = failure
        /\ Marked("pass") \in Nat /\ Marked("fail") \in Nat
    BY <2>1, MarkedIsNat DEF TestOver, CountsAgree, TypeOK, Statuses
  <2>3. /\ totalTests' = success' + failure'
        /\ Marked("pass")' = success' /\ Marked("fail")' + unread' = failure'
    <3>1. ASSUME Passes, NEW x \in Indexings, Written("pass", x)
          PROVE  /\ totalTests' = success' + failure'
                 /\ Marked("pass")' = success' /\ Marked("fail")' + unread' = failure'
      <4>1. Marked("pass")' = Marked("pass") + 1 /\ Marked("fail")' = Marked("fail")
        BY <2>1, <3>1, ReportedOnce DEF TestOver, Written, Statuses
      <4> QED
        BY <2>1, <2>2, <3>1, <4>1 DEF TestOver, Passes, Written
    <3>2. ASSUME Fails, NEW x \in Indexings, Written("fail", x)
          PROVE  /\ totalTests' = success' + failure'
                 /\ Marked("pass")' = success' /\ Marked("fail")' + unread' = failure'
      <4>1. Marked("fail")' = Marked("fail") + 1 /\ Marked("pass")' = Marked("pass")
        BY <2>1, <3>2, ReportedOnce DEF TestOver, Written, Statuses
      <4> QED
        BY <2>1, <2>2, <3>2, <4>1 DEF TestOver, Fails, Written
    <3>3. CASE Fails /\ UNCHANGED report /\ unread' = unread + 1
      <4>1. UNCHANGED <<Marked("pass"), Marked("fail")>>
        BY <3>3 DEF Marked, MarkedIn
      <4> QED
        BY <2>1, <2>2, <3>3, <4>1 DEF TestOver, Fails
    <3> QED
      BY <2>1, <3>1, <3>2, <3>3 DEF TestOver
  <2> QED
    BY <2>1, <2>3 DEF TestOver, CountsAgree
<1>7. CASE Crash
  <2>1. /\ at \in {"workload", "scenario", "test"} /\ at' = "crashed"
        /\ UNCHANGED <<failure, totalTests>>
        /\ success' = success \/ (at = "test" /\ success' = success + 1)
    BY <1>7 DEF Crash
  <2>2. success \in Nat /\ failure \in Nat
    BY DEF TypeOK
  <2>3. totalTests = success + failure \/ (at = "test" /\ totalTests = success + failure + 1)
    BY <2>1 DEF CountsAgree
  <2>4. at = "test" => totalTests = success + failure + 1
    BY DEF CountsAgree
  <2>5. totalTests \in {success' + failure', success' + failure' + 1}
    BY <2>1, <2>2, <2>3, <2>4
  <2> QED
    BY <2>1, <2>5 DEF CountsAgree
<1> QED
  BY <1>1, <1>2, <1>3, <1>4, <1>5, <1>6, <1>7 DEF Next, Step, Terminated

(***************************************************************************)
(* Every test begun is counted once and, but for unreadable Workflow files, *)
(* has one line on the report card, for any configuration.                  *)
(***************************************************************************)
THEOREM CountsCorrect == Spec => []CountsAgree
<1>1. Spec => [](TypeOK /\ InWorkload /\ CountsAgree)
  BY TypesInit, TypesStep, CountInit, CountStep, PTL DEF Spec
<1> QED
  BY <1>1, PTL

--------------------------------------------------------------------------------
(***************************************************************************)
(* What is told of the losses.  The exit status is made of two counters,    *)
(* so the induction needs what they know of the losses, and when an exit    *)
(* status is given at all; the counter of failures is CountsAgree's.        *)
(***************************************************************************)
LossesCounted ==
  /\ indexFailures = 0 => lost \cap Counted = {}
  /\ indexFailures > 0 => failure > 0 \/ lost \cap Counted # {}

StatusEarned ==
  /\ at = "main" => failure = 0 /\ indexFailures = 0
  /\ dumped => at \in {"reported", "exited"}
  /\ exit = NoExit \/ at \in {"exited", "crashed"}
  /\ exit = 0 => at = "exited" /\ failure = 0 /\ indexFailures = 0
  /\ exit = 1 /\ dumped => failure > 0
  /\ exit = 2 => at = "exited" /\ failure = 0 /\ indexFailures > 0

ToldInv == CardTells /\ LossesCounted /\ StatusEarned

LEMMA ToldInit == Init => ToldInv
<1> SUFFICES ASSUME Init PROVE ToldInv
  OBVIOUS
<1>1. CardTells
  BY NothingReported DEF Init, CardTells, Kinds, Statuses, Indexings
<1> QED
  BY <1>1 DEF Init, ToldInv, LossesCounted, StatusEarned, NoExit

(* Steps that lose nothing in a test, and give an exit status only if they crash. *)
Untold ==
  /\ UNCHANGED <<report, failure, indexFailures, dumped>>
  /\ lost' = lost \/ lost' = lost \cup {"closing"}
  /\ at' # "main" /\ ~dumped /\ exit = NoExit
  /\ exit' = NoExit \/ (exit' = 1 /\ at' = "crashed")

LEMMA UntoldKeeps ==
  ASSUME ToldInv, Untold
  PROVE  ToldInv'
<1>1. CardTells'
  BY DEF ToldInv, CardTells, Untold
<1>2. lost' \cap Counted = lost \cap Counted
  BY DEF Untold, Counted
<1>3. LossesCounted'
  BY <1>2 DEF ToldInv, LossesCounted, Untold
<1> QED
  BY <1>1, <1>3 DEF Untold, ToldInv, StatusEarned, NoExit

LEMMA ToldStep == TypeOK /\ InWorkload /\ ToldInv /\ [Next]_vars => ToldInv'
<1> SUFFICES ASSUME TypeOK, InWorkload, ToldInv, [Next]_vars PROVE ToldInv'
  OBVIOUS
<1> USE DEF place, counters, cloud, history
<1>0. at \notin {"reported", "exited", "crashed"} => ~dumped /\ exit = NoExit
  BY DEF ToldInv, StatusEarned, TypeOK
<1>1. CASE InvalidConfig \/ ReadElastic \/ PostProcess \/ InvalidWorkload
  <2>1. /\ at = "main" /\ at' \in {"exited", "crashed"}
        /\ exit' = 1 \/ (exit' = 0 /\ at' = "exited")
        /\ UNCHANGED <<report, failure, indexFailures, dumped, lost>>
    BY <1>1 DEF InvalidConfig, ReadElastic, PostProcess, InvalidWorkload, Ends
  <2>2. CardTells' /\ LossesCounted'
    BY <2>1 DEF ToldInv, CardTells, LossesCounted
  <2> QED
    BY <1>0, <2>1, <2>2 DEF ToldInv, StatusEarned, NoExit
<1>2. CASE \/ StartRun \/ Metadata \/ StartFilebeat \/ StartCollectd
           \/ SkipWorkload \/ StartWorkload \/ InitializeClients
  <2>1. Untold
    BY <1>0, <1>2 DEF StartRun, Metadata, StartFilebeat, StartCollectd, SkipWorkload,
                      StartWorkload, InitializeClients, Untold
  <2> QED
    BY <2>1, UntoldKeeps
<1>3. CASE EndWorkload \/ EndPass \/ StartScenario \/ EndScenario
  <2>1. Untold
    BY <1>0, <1>3 DEF EndWorkload, CloseCache, EndPass, StartScenario, EndScenario, Untold
  <2> QED
    BY <2>1, UntoldKeeps
<1>4. CASE BeginTest \/ Crash \/ StopCollectd
  <2>1. Untold
    BY <1>0, <1>4 DEF BeginTest, Crash, StopCollectd, Untold
  <2> QED
    BY <2>1, UntoldKeeps
<1>5. CASE RallyTest \/ ShakerTest \/ WorkflowTest
  <2>1. TestOver
    BY <1>5, TestsEnd
  <2>2. /\ at = "test" /\ at' = "scenario" /\ UNCHANGED <<dumped, exit>> /\ lost \subseteq lost'
        /\ failure \in Nat /\ indexFailures \in Nat /\ indexFailures' \in Nat
        /\ indexFailures' >= indexFailures
        /\ Workloads[wl].kind \in Kinds
    BY <2>1, WorkloadsAssumption DEF TestOver, TypeOK, InWorkload, Workloads
  <2>3. StatusEarned'
    BY <1>0, <2>2 DEF StatusEarned, NoExit
  <2>4. failure' \in {failure, failure + 1}
    BY <2>1 DEF TestOver, Passes, Fails
  <2>5. ASSUME NEW s \in Statuses, NEW x \in Indexings, Written(s, x), s = "fail" => Fails
        PROVE  CardTells' /\ LossesCounted'
    <3>1. CardTells'
      <4> SUFFICES ASSUME NEW k \in {"rally", "shaker"}
                   PROVE  k \in lost' <=> \E t \in Statuses : report'[k][t]["failure"] > 0
        BY DEF CardTells
      <4>1. k \in lost <=> \E t \in Statuses : report[k][t]["failure"] > 0
        BY DEF ToldInv, CardTells
      <4>2. /\ \A l \in Kinds, t \in Statuses, y \in Indexings :
                 \/ l = Workloads[wl].kind /\ t = s /\ y = x
                 \/ report'[l][t][y] = report[l][t][y]
            /\ report'[Workloads[wl].kind][s][x] > 0
        BY <2>2, <2>5, ReportedOnce DEF Written
      <4>3. k \in Kinds /\ "failure" \in Indexings
        BY DEF Kinds, Indexings
      <4>4. k \in lost' <=> k \in lost \/ (k = Workloads[wl].kind /\ x = "failure")
        BY <2>5 DEF Written
      <4>5. CASE k = Workloads[wl].kind /\ x = "failure"
        BY <4>2, <4>4, <4>5
      <4>6. CASE ~(k = Workloads[wl].kind /\ x = "failure")
        <5>1. \A t \in Statuses : report'[k][t]["failure"] = report[k][t]["failure"]
          BY <4>2, <4>3, <4>6
        <5> QED
          BY <4>1, <4>4, <4>6, <5>1
      <4> QED
        BY <4>5, <4>6
    <3>2. CASE indexFailures' = 0
      <4>1. indexFailures = 0 /\ lost \cap Counted = {}
        BY <2>2, <3>2 DEF ToldInv, LossesCounted
      <4>2. "workflow" \notin lost' \ lost
            /\ ~(x = "failure" /\ Workloads[wl].kind = "rally")
        BY <2>5, <3>2, <4>1 DEF Written
      <4>3. "rally" \notin lost'
        BY <2>5, <4>1, <4>2 DEF Written, Counted
      <4>4. lost' \cap Counted = {}
        BY <4>1, <4>2, <4>3 DEF Counted
      <4> QED
        BY <3>1, <3>2, <4>4 DEF LossesCounted
    <3>3. CASE indexFailures' > 0
      <4>1. failure' > 0 \/ lost' \cap Counted # {}
        <5>1. CASE indexFailures > 0
          BY <2>2, <2>4, <5>1 DEF ToldInv, LossesCounted
        <5>2. CASE indexFailures = 0
          <6>1. s = "fail" \/ lost' \cap Counted # {}
            BY <2>5, <3>3, <5>2 DEF Written
          <6>2. Fails => failure' > 0
            BY <2>2 DEF Fails
          <6> QED
            BY <2>5, <6>1, <6>2
        <5> QED
          BY <2>2, <5>1, <5>2
      <4> QED
        BY <3>1, <3>3, <4>1 DEF LossesCounted
    <3> QED
      BY <2>2, <3>2, <3>3
  <2>6. CASE Fails /\ unread' = unread + 1 /\ UNCHANGED <<report, indexFailures, lost>>
    <3>1. CardTells'
      BY <2>6 DEF ToldInv, CardTells
    <3>2. LossesCounted'
      BY <2>2, <2>6 DEF ToldInv, LossesCounted, Fails
    <3> QED
      BY <2>3, <3>1, <3>2 DEF ToldInv
  <2>7. CASE Passes /\ \E x \in Indexings : Written("pass", x)
    BY <2>3, <2>5, <2>7 DEF ToldInv, Statuses
  <2>8. CASE Fails /\ \E x \in Indexings : Written("fail", x)
    BY <2>3, <2>5, <2>8 DEF ToldInv, Statuses
  <2> QED
    BY <2>1, <2>6, <2>7, <2>8 DEF TestOver
<1>6. CASE Verdict
  <2>1. /\ UNCHANGED <<report, failure, indexFailures, lost>> /\ failure \in Nat
        /\ indexFailures \in Nat /\ at \in {"verdict", "reported"}
    BY <1>6 DEF Verdict, Interrupted, DumpReport, TestsFailed, IndexingFailed, Succeeded, TypeOK
  <2>2. CardTells' /\ LossesCounted'
    BY <2>1 DEF ToldInv, CardTells, LossesCounted
  <2>3. exit = NoExit /\ (at = "verdict" => ~dumped)
    BY <2>1 DEF ToldInv, StatusEarned
  <2>4. StatusEarned'
    <3>1. CASE Interrupted
      BY <2>1, <2>3, <3>1 DEF Interrupted, Exit, StatusEarned, NoExit
    <3>2. CASE DumpReport
      BY <2>1, <2>3, <3>2 DEF DumpReport, StatusEarned, NoExit
    <3>3. CASE TestsFailed
      BY <2>1, <2>3, <3>3 DEF TestsFailed, Exit, StatusEarned, NoExit
    <3>4. CASE IndexingFailed
      BY <2>1, <2>3, <3>4 DEF IndexingFailed, Exit, StatusEarned, NoExit
    <3>5. CASE Succeeded
      BY <2>1, <2>3, <3>5 DEF Succeeded, Exit, StatusEarned, NoExit
    <3> QED
      BY <1>6, <3>1, <3>2, <3>3, <3>4, <3>5 DEF Verdict
  <2> QED
    BY <2>2, <2>4 DEF ToldInv
<1>7. CASE Signal \/ UNCHANGED vars
  <2>1. UNCHANGED <<at, report, failure, indexFailures, dumped, lost, exit>>
    BY <1>7 DEF Signal, vars
  <2> QED
    BY <2>1 DEF ToldInv, CardTells, LossesCounted, StatusEarned
<1> QED
  BY <1>1, <1>2, <1>3, <1>4, <1>5, <1>6, <1>7 DEF Next, Step, Terminated

(***************************************************************************)
(* For any configuration: exit status 1 of a run that was not interrupted   *)
(* means failed tests, 2 none but lost results of Rally or Workflow, 0      *)
(* neither; and a loss during a test of Rally or Shaker has its line on the *)
(* report card, which no test without a loss has.                           *)
(***************************************************************************)
THEOREM OutcomeCorrect == Spec => []OutcomeIsTold
<1>1. Spec => [](TypeOK /\ InWorkload /\ CountsAgree /\ ToldInv)
  BY TypesInit, TypesStep, CountInit, CountStep, ToldInit, ToldStep, PTL DEF Spec
<1>2. ASSUME TypeOK, CountsAgree, ToldInv PROVE OutcomeIsTold
  <2>1. Marked("fail") \in Nat /\ unread \in Nat /\ failure \in Nat /\ indexFailures \in Nat
    BY MarkedIsNat, <1>2 DEF TypeOK, Statuses
  <2>2. at # "crashed" => Marked("fail") + unread = failure
    BY <1>2 DEF CountsAgree
  <2>3. exit \in {0, 2} \/ dumped => at # "crashed"
    BY <1>2 DEF ToldInv, StatusEarned
  <2>4. /\ exit \in {0, 2} => Marked("fail") + unread = 0
        /\ exit = 1 /\ dumped => Marked("fail") + unread > 0
    BY <1>2, <2>2, <2>3 DEF ToldInv, StatusEarned
  <2>5. /\ exit = 0 => lost \cap Counted = {}
        /\ exit = 2 => lost \cap Counted # {}
    BY <1>2, <2>1 DEF ToldInv, StatusEarned, LossesCounted
  <2>6. StatusTells
    BY <2>4, <2>5 DEF StatusTells, Counted
  <2> QED
    BY <1>2, <2>6 DEF OutcomeIsTold, ToldInv
<1> QED
  BY <1>1, <1>2, PTL

--------------------------------------------------------------------------------
(***************************************************************************)
(* The orderly end: after SIGINT the workload in hand is the last one, and  *)
(* collectd is only left running if its playbook failed.                    *)
(***************************************************************************)
OrderInv ==
  /\ afterSignal \in {0, 1}
  /\ ~terminate => afterSignal = 0
  /\ afterSignal = 1 => at \notin {"main", "metadata", "filebeat", "collectd", "loop"}
  /\ at \in {"main", "metadata", "filebeat", "collectd"} \/ ~conf.collectd => ~collectd
  /\ at \in {"verdict", "reported", "exited"} /\ ~ansibleFailed => ~collectd

LEMMA OrderInit == Init => OrderInv
BY DEF Init, OrderInv

(* Steps between the start and the end of the workloads. *)
Amid == /\ UNCHANGED <<conf, afterSignal, terminate, collectd, ansibleFailed>>
        /\ at' \notin {"main", "metadata", "filebeat", "collectd", "loop"}
        /\ at' \notin {"verdict", "reported", "exited"}
        /\ at \notin {"main", "metadata", "filebeat", "collectd"}

LEMMA OrderStep == TypeOK /\ OrderInv /\ [Next]_vars => OrderInv'
<1> SUFFICES ASSUME TypeOK, OrderInv, [Next]_vars PROVE OrderInv'
  OBVIOUS
<1> USE DEF OrderInv, place, counters, cloud, history
<1>1. CASE InvalidConfig \/ ReadElastic \/ PostProcess \/ InvalidWorkload \/ StartRun
  BY <1>1 DEF InvalidConfig, ReadElastic, PostProcess, InvalidWorkload, StartRun, Ends
<1>2. CASE Metadata \/ StartFilebeat
  <2>1. /\ at \in {"metadata", "filebeat"} /\ at' \in {"filebeat", "collectd"}
        /\ UNCHANGED <<conf, afterSignal, terminate, collectd, ansibleFailed>>
    BY <1>2 DEF Metadata, StartFilebeat
  <2> QED
    BY <2>1
<1>3. CASE StartCollectd
  BY <1>3 DEF StartCollectd
<1>4. CASE SkipWorkload \/ EndPass
  BY <1>4 DEF SkipWorkload, EndPass
<1>5. CASE StartWorkload
  <2>1. /\ at = "loop" /\ at' \in {"clients", "workload"}
        /\ afterSignal' = IF terminate THEN afterSignal + 1 ELSE afterSignal
        /\ UNCHANGED <<conf, terminate, collectd, ansibleFailed>>
    BY <1>5 DEF StartWorkload
  <2>2. afterSignal = 0
    BY <2>1
  <2> QED
    BY <2>1, <2>2
<1>6. CASE EndWorkload
  BY <1>6 DEF EndWorkload
<1>7. CASE InitializeClients \/ StartScenario \/ EndScenario \/ BeginTest \/ Crash
  <2>1. Amid
    BY <1>7 DEF InitializeClients, StartScenario, EndScenario, BeginTest, Crash, Amid
  <2> QED
    BY <2>1 DEF Amid
<1>8. CASE RallyTest \/ ShakerTest \/ WorkflowTest
  <2>1. Amid
    BY <1>8 DEF RallyTest, ShakerTest, WorkflowTest, EndTest, Amid
  <2> QED
    BY <2>1 DEF Amid
<1>9. CASE StopCollectd
  BY <1>9 DEF StopCollectd
<1>10. CASE Verdict
  BY <1>10 DEF Verdict, Interrupted, DumpReport, TestsFailed, IndexingFailed, Succeeded, Exit,
               TypeOK
<1>11. CASE Signal
  BY <1>11 DEF Signal
<1>12. CASE UNCHANGED vars
  BY <1>12 DEF vars
<1> QED
  BY <1>1, <1>2, <1>3, <1>4, <1>5, <1>6, <1>7, <1>8, <1>9, <1>10, <1>11, <1>12
     DEF Next, Step, Terminated

(***************************************************************************)
(* Whenever SIGINT comes, at most one workload is started after it, and     *)
(* every way out but a crash stops collectd, or its playbook failed.        *)
(***************************************************************************)
THEOREM OrderlyEnd == Spec => []EndsInOrder
<1>1. Spec => [](TypeOK /\ InWorkload /\ OrderInv)
  BY TypesInit, TypesStep, OrderInit, OrderStep, PTL DEF Spec
<1>2. OrderInv => EndsInOrder
  BY DEF OrderInv, EndsInOrder, AtMostOneWorkloadAfterSignal, CollectdStopped
<1> QED
  BY <1>1, <1>2, PTL

--------------------------------------------------------------------------------
(***************************************************************************)
(* What a test runs with.  environ is read once and never changes after, so *)
(* every client is made with it.  A scenario file is what the workloads     *)
(* that used it so far have made of the shipped one: whether it has a room, *)
(* a density and a progression follows from who they were, and the rest is  *)
(* overwritten by each of them.                                             *)
(***************************************************************************)
OneSource == served \subseteq {environ} /\ (environ = "unread" => served = {})

IsSeq(s) == \E S : s \in Seq(S)

LEMMA AppendTo ==
  ASSUME NEW s, IsSeq(s), NEW e
  PROVE  /\ IsSeq(Append(s, e))
         /\ Len(s) \in Nat /\ Len(Append(s, e)) = Len(s) + 1
         /\ \A n \in 1..Len(s) : Append(s, e)[n] = s[n]
         /\ Append(s, e)[Len(s) + 1] = e
<1>1. PICK S : s \in Seq(S)
  BY DEF IsSeq
<1>2. s \in Seq(S \cup {e}) /\ e \in S \cup {e}
  BY <1>1
<1>3. Append(s, e) \in Seq(S \cup {e})
  BY <1>2
<1> QED
  BY <1>2, <1>3 DEF IsSeq

(* The workloads that used file f in the first n tests, in all of them, and before *)
(* the last one.                                                                   *)
UsersOf(f, n) ==
  {v \in {Workloads[executed[k].wl] : k \in 1..n} : v.kind = "shaker" /\ v.file = f}
Users(f) == UsersOf(f, Len(executed))
UsersBefore(f) == UsersOf(f, Len(executed) - 1)

FileFollows(f) ==
  /\ IF Users(f) = {} THEN files[f].room = Shipped[f].room ELSE files[f].room # Unset
  /\ Shipped[f].density > 0 => files[f].density > 0
  /\ files[f].progression = Unset <=> \/ Shipped[f].progression = Unset
                                     \/ \E v \in Users(f) : v.progression = Null

FilesFollow == IsSeq(executed) /\ \A f \in DOMAIN Shipped : FileFollows(f)

AskedInv == OneSource /\ FilesFollow /\ ShakerRunsAsAsked

LEMMA AskedInit == Init => AskedInv
<1> SUFFICES ASSUME Init PROVE AskedInv
  OBVIOUS
<1>1. OneSource
  BY DEF Init, OneSource
<1>2. executed \in Seq({}) /\ Len(executed) = 0
  BY DEF Init
<1>3. \A f : Users(f) = {}
  BY <1>2 DEF Users, UsersOf
<1>4. FilesFollow
  BY <1>2, <1>3 DEF Init, FilesFollow, FileFollows, IsSeq
<1>5. ShakerRunsAsAsked
  BY DEF Init, ShakerRunsAsAsked
<1> QED
  BY <1>1, <1>4, <1>5 DEF AskedInv

LEMMA UsersAfterTest ==
  ASSUME IsSeq(executed), BeginTest, NEW f
  PROVE  /\ UsersBefore(f)' = Users(f)
         /\ Users(f)' = IF Workloads[wl].kind = "shaker" /\ Workloads[wl].file = f
                        THEN Users(f) \cup {Workloads[wl]} ELSE Users(f)
         /\ IsSeq(executed')
<1>1. PICK e : e.wl = wl /\ executed' = Append(executed, e)
  BY DEF BeginTest
<1>2. UNCHANGED <<conf, wl>> /\ Workloads' = Workloads
  BY DEF BeginTest, Workloads
<1>3. /\ IsSeq(executed') /\ Len(executed) \in Nat /\ Len(executed') = Len(executed) + 1
      /\ \A n \in 1..Len(executed) : executed'[n] = executed[n]
      /\ executed'[Len(executed) + 1] = e
  BY <1>1, AppendTo
<1>4. {Workloads'[executed'[k].wl] : k \in 1..Len(executed') - 1}
        = {Workloads[executed[k].wl] : k \in 1..Len(executed)}
  BY <1>2, <1>3
<1>5. 1..Len(executed') = (1..Len(executed)) \cup {Len(executed) + 1}
  BY <1>3
<1>6. UsersBefore(f)' = Users(f)
  BY <1>4 DEF UsersBefore, UsersOf, Users
<1>7. {Workloads'[executed'[k].wl] : k \in 1..Len(executed')}
        = {Workloads[executed[k].wl] : k \in 1..Len(executed)} \cup {Workloads[wl]}
  BY <1>1, <1>2, <1>3, <1>5
<1>8. Users(f)' = IF Workloads[wl].kind = "shaker" /\ Workloads[wl].file = f
                 THEN Users(f) \cup {Workloads[wl]} ELSE Users(f)
  BY <1>7 DEF UsersOf, Users
<1> QED
  BY <1>3, <1>6, <1>8

LEMMA SettingsMade ==
  ASSUME NEW w, NEW old \in FileContent,
         w.placement \in {"single_room", "double_room", Unset},
         w.density \in Nat,
         w.progression \in {"linear", "quadratic", Null, Unset}
  PROVE  LET new == SetScenario(w, old)
         IN /\ new.room = IF w.placement = Unset \/ old.room = Unset THEN "double_room"
                          ELSE w.placement
            /\ old.density > 0 => new.density = IF w.density = 0 THEN 1 ELSE w.density
            /\ new.progression = IF old.progression = Unset \/ w.progression = Null THEN Unset
                                 ELSE IF w.progression = Unset THEN "linear" ELSE w.progression
            /\ new.room # Unset
            /\ old.density > 0 => new.density > 0
            /\ new.progression = Unset <=> old.progression = Unset \/ w.progression = Null
<1>1. old.density \in Nat
  BY DEF FileContent
<1> QED
  BY <1>1 DEF SetScenario, Unset, Null

LEMMA OneSourceStep ==
  ASSUME TypeOK, OneSource, [Next]_vars
  PROVE  OneSource'
<1> USE DEF OneSource, place, counters, cloud, history
<1>1. CASE InitializeClients
  BY <1>1 DEF InitializeClients, ReadCredentials, TypeOK, Sources, Unset
<1>2. CASE RallyTest \/ ShakerTest \/ WorkflowTest
  BY <1>2 DEF RallyTest, ShakerTest, WorkflowTest, EndTest
<1>3. CASE \/ InvalidConfig \/ ReadElastic \/ PostProcess \/ InvalidWorkload \/ StartRun
           \/ Metadata \/ StartFilebeat \/ StartCollectd \/ SkipWorkload \/ StartWorkload
  <2>1. UNCHANGED <<environ, served>>
    BY <1>3 DEF InvalidConfig, ReadElastic, PostProcess, InvalidWorkload, StartRun, Ends,
                Metadata, StartFilebeat, StartCollectd, SkipWorkload, StartWorkload
  <2> QED
    BY <2>1
<1>4. CASE \/ EndWorkload \/ EndPass \/ StartScenario \/ EndScenario \/ BeginTest \/ Crash
           \/ StopCollectd \/ Verdict \/ Signal \/ UNCHANGED vars
  <2>1. UNCHANGED <<environ, served>>
    BY <1>4 DEF EndWorkload, EndPass, StartScenario, EndScenario, BeginTest, Crash,
                StopCollectd, Verdict, Signal, vars
  <2> QED
    BY <2>1
<1> QED
  BY <1>1, <1>2, <1>3, <1>4 DEF Next, Step, Terminated

(* Every step but the beginning of a test leaves the files and the tests alone. *)
LEMMA OnlyTestsRewrite ==
  ASSUME [Next]_vars, ~BeginTest
  PROVE  /\ UNCHANGED <<conf, files, executed>>
         /\ at' = "test" => at = "test" /\ UNCHANGED wl
<1> USE DEF place, counters, cloud, history
<1>1. CASE RallyTest \/ ShakerTest \/ WorkflowTest
  BY <1>1 DEF RallyTest, ShakerTest, WorkflowTest, EndTest
<1>2. CASE \/ InvalidConfig \/ ReadElastic \/ PostProcess \/ InvalidWorkload \/ StartRun
           \/ Metadata \/ StartFilebeat \/ StartCollectd \/ SkipWorkload \/ StartWorkload
  BY <1>2 DEF InvalidConfig, ReadElastic, PostProcess, InvalidWorkload, StartRun, Ends,
              Metadata, StartFilebeat, StartCollectd, SkipWorkload, StartWorkload
<1>3. CASE \/ EndWorkload \/ EndPass \/ StartScenario \/ EndScenario \/ Crash
           \/ InitializeClients \/ StopCollectd
  BY <1>3 DEF EndWorkload, EndPass, StartScenario, EndScenario, Crash, InitializeClients,
              StopCollectd
<1>4. CASE Verdict \/ Signal \/ UNCHANGED vars
  BY <1>4 DEF Verdict, Interrupted, DumpReport, TestsFailed, IndexingFailed, Succeeded, Exit,
              Signal, vars
<1> QED
  BY <1>1, <1>2, <1>3, <1>4 DEF Next, Step, Terminated

LEMMA AskedStep == TypeOK /\ InWorkload /\ AskedInv /\ [Next]_vars => AskedInv'
<1> SUFFICES ASSUME TypeOK, InWorkload, AskedInv, [Next]_vars PROVE AskedInv'
  OBVIOUS
<1>1. OneSource'
  BY OneSourceStep DEF AskedInv
<1>2. CASE ~BeginTest
  <2>1. /\ UNCHANGED <<conf, files, executed>>
        /\ at' = "test" => at = "test" /\ UNCHANGED wl
    BY <1>2, OnlyTestsRewrite
  <2>2. FilesFollow'
    BY <2>1 DEF AskedInv, FilesFollow, FileFollows, Users, UsersOf, Workloads
  <2>3. ShakerRunsAsAsked'
    BY <2>1, SMTT(30) DEF AskedInv, ShakerRunsAsAsked, Workloads
  <2> QED
    BY <1>1, <2>2, <2>3 DEF AskedInv
<1>3. CASE BeginTest
  <2> DEFINE w == Workloads[wl]
  <2>1. IsSeq(executed) /\ \A f \in DOMAIN Shipped : FileFollows(f)
    BY DEF AskedInv, FilesFollow
  <2>2. UNCHANGED <<conf, wl>> /\ Workloads' = Workloads /\ at = "scenario"
    BY <1>3 DEF BeginTest, Workloads
  <2>3. wl \in DOMAIN Workloads /\ conf.number \in DOMAIN Configs
    BY <2>2 DEF InWorkload, TypeOK
  <2>4. IsSeq(executed')
    BY <1>3, <2>1, UsersAfterTest
  <2>5. CASE w.kind # "shaker"
    <3>1. UNCHANGED files
      BY <1>3, <2>5 DEF BeginTest
    <3>2. \A f : Users(f)' = Users(f)
      BY <1>3, <2>1, <2>5, UsersAfterTest
    <3>3. \A f \in DOMAIN Shipped : FileFollows(f)'
      BY <2>1, <3>1, <3>2 DEF FileFollows
    <3>4. ShakerRunsAsAsked'
      BY <2>2, <2>5 DEF ShakerRunsAsAsked
    <3> QED
      BY <1>1, <2>4, <3>3, <3>4 DEF AskedInv, FilesFollow
  <2>6. CASE w.kind = "shaker"
    <3>1. /\ w.file \in DOMAIN Shipped
          /\ w.placement \in {"single_room", "double_room", Unset}
          /\ w.density \in Nat
          /\ w.progression \in {"linear", "quadratic", Null, Unset}
      BY <2>3, <2>6, WorkloadsAssumption DEF Workloads
    <3>2. files' = [files EXCEPT ![w.file] = SetScenario(w, @)]
      BY <1>3, <2>6 DEF BeginTest
    <3>3. files \in [DOMAIN Shipped -> FileContent] /\ Shipped \in [DOMAIN Shipped -> FileContent]
      BY WorkloadsAssumption DEF TypeOK
    <3>4. \A f : /\ UsersBefore(f)' = Users(f)
                 /\ Users(f)' = IF w.file = f THEN Users(f) \cup {w} ELSE Users(f)
      BY <1>3, <2>1, <2>6, UsersAfterTest
    <3> HIDE DEF w
    <3>5. \A f \in DOMAIN Shipped :
            files'[f] = IF f = w.file THEN SetScenario(w, files[f]) ELSE files[f]
      BY <3>1, <3>2, <3>3
    <3>6. ASSUME NEW f \in DOMAIN Shipped, f # w.file PROVE FileFollows(f)'
      <4>1. Users(f)' = Users(f) /\ files'[f] = files[f] /\ FileFollows(f)
        BY <2>1, <3>4, <3>5, <3>6
      <4> QED
        BY <4>1 DEF FileFollows
    <3>7. ASSUME NEW f \in DOMAIN Shipped, f = w.file PROVE FileFollows(f)'
      <4>1. /\ Users(f)' = Users(f) \cup {w} /\ FileFollows(f)
            /\ files'[f] = SetScenario(w, files[f]) /\ files[f] \in FileContent
        BY <2>1, <3>3, <3>4, <3>5, <3>7
      <4>2. /\ files'[f].room # Unset
            /\ files[f].density > 0 => files'[f].density > 0
            /\ files'[f].progression = Unset
                 <=> files[f].progression = Unset \/ w.progression = Null
        BY <3>1, <4>1, SettingsMade
      <4> QED
        BY <4>1, <4>2 DEF FileFollows
    <3>8. FilesFollow'
      BY <2>4, <3>6, <3>7 DEF FilesFollow
    <3>9. ShakerRunsAsAsked'
      <4>1. PICK f \in DOMAIN Shipped : f = w.file
        BY <3>1
      <4>2. /\ FileFollows(f) /\ files[f] \in FileContent /\ files'[f] = SetScenario(w, files[f])
            /\ UsersBefore(f)' = Users(f)
        BY <2>1, <3>3, <3>4, <3>5, <4>1
      <4>3. /\ files'[f].room = IF w.placement = Unset \/ files[f].room = Unset
                                THEN "double_room" ELSE w.placement
            /\ files[f].density > 0 => files'[f].density = IF w.density = 0 THEN 1 ELSE w.density
            /\ files'[f].progression =
                 IF files[f].progression = Unset \/ w.progression = Null THEN Unset
                 ELSE IF w.progression = Unset THEN "linear" ELSE w.progression
        BY <3>1, <4>2, SettingsMade
      <4> DEFINE Before == UsersBefore(f)'
      <4>4. /\ files'[f].room = IF \/ w.placement = Unset
                                   \/ Shipped[f].room = Unset /\ Before = {}
                                THEN "double_room" ELSE w.placement
        BY <3>1, <4>2, <4>3 DEF FileFollows, Unset
      <4>5. Shipped[f].density > 0 => files'[f].density = IF w.density = 0 THEN 1 ELSE w.density
        BY <4>2, <4>3 DEF FileFollows
      <4>6. files'[f].progression = IF \/ Shipped[f].progression = Unset
                                       \/ \E v \in Before \cup {w} : v.progression = Null
                                    THEN Unset
                                    ELSE IF w.progression = Unset THEN "linear"
                                    ELSE w.progression
        BY <4>2, <4>3 DEF FileFollows
      <4>7. w = Workloads'[wl']
        BY <2>2 DEF w
      <4> QED
        BY <4>1, <4>4, <4>5, <4>6, <4>7 DEF ShakerRunsAsAsked, UsersBefore, UsersOf
    <3> QED
      BY <1>1, <3>8, <3>9 DEF AskedInv
  <2> QED
    BY <2>5, <2>6
<1> QED
  BY <1>2, <1>3

(***************************************************************************)
(* For any configurations and shipped files, a Shaker test runs with the    *)
(* settings of its workload, but for the two exceptions ShakerRunsAsAsked   *)
(* names, and all Workflow workloads act on one cloud.                      *)
(***************************************************************************)
THEOREM RunAsAsked == Spec => []TestsRunAsAsked
<1>1. Spec => [](TypeOK /\ InWorkload /\ AskedInv)
  BY TypesInit, TypesStep, AskedInit, AskedStep, PTL DEF Spec
<1>2. AskedInv => TestsRunAsAsked
  <2> SUFFICES ASSUME AskedInv PROVE ShakerRunsAsAsked /\ Cardinality(served) <= 1
    BY DEF TestsRunAsAsked, OneCloud
  <2>1. IsFiniteSet({environ}) /\ Cardinality({environ}) = 1
    BY FS_Singleton
  <2>2. Cardinality(served) <= Cardinality({environ})
    BY <2>1, FS_Subset DEF AskedInv, OneSource
  <2> QED
    BY <2>1, <2>2 DEF AskedInv
<1> QED
  BY <1>1, <1>2, PTL

--------------------------------------------------------------------------------
(***************************************************************************)
(* The tests begun are, at every point of the loops, those the loops have   *)
(* been past: with complete, all of the passes before and, of this pass or  *)
(* of the only one of iteration, those of the workloads, scenarios and jobs *)
(* before.  When no workload is left and SIGINT was not seen, that is all   *)
(* of them.                                                                 *)
(***************************************************************************)
Inside == at \in {"clients", "workload", "scenario", "test"}
InScenario == at \in {"scenario", "test"}
InLoop == Inside \/ at \in {"main", "metadata", "filebeat", "collectd", "loop"}

TestOf(j) == [wl |-> wl, sc |-> sc, concurrency |-> j.concurrency, run |-> j.run]
JobOf(t) == [concurrency |-> t.concurrency, run |-> t.run]

(* The jobs of the current scenario that are still to begin. *)
Waiting == CASE at = "scenario" -> Range(jobs)
             [] at = "test" -> Range(Tail(jobs))
             [] OTHER -> {}

(* The loops have been past t. *)
Earlier(t) ==
  \/ t.wl < wl
  \/ /\ Inside /\ t.wl = wl
     /\ t.sc < sc \/ (InScenario /\ t.sc = sc /\ JobOf(t) \notin Waiting)
ThisPass(run) == conf.rerunType = "complete" => run = pass
Begun(t) ==
  \/ conf.rerunType = "complete" /\ t.run < pass
  \/ ThisPass(t.run) /\ Earlier(t)

OnePass == conf.rerunType = "iteration" => pass = 0

Executed == {executed[n] : n \in DOMAIN executed}

InOrder ==
  \A m, n \in DOMAIN executed : m < n =>
    IF conf.rerunType = "complete" THEN executed[m].run <= executed[n].run
    ELSE executed[m].wl <= executed[n].wl

JobsPlanned ==
  /\ at \notin {"scenario", "test", "crashed"} => jobs = <<>>
  /\ InScenario => /\ IsSeq(jobs)
                   /\ \A m, n \in DOMAIN jobs : jobs[m] = jobs[n] => m = n
                   /\ \A j \in Range(jobs) : /\ j = JobOf(j)
                                                /\ TestOf(j) \in Planned /\ ThisPass(j.run)
  /\ at = "test" => jobs # <<>>

PlanFollowed ==
  /\ InLoop => Executed = {t \in Planned : Begun(t)}
  /\ at \in {"stop", "verdict"} /\ ~terminate => Executed = Planned
  /\ dumped => at \in {"reported", "exited"} /\ Executed = Planned

TestsOnce ==
  /\ IsSeq(executed)
  /\ \A m, n \in DOMAIN executed : executed[m] = executed[n] => m = n

PlanInv ==
  /\ OnePass
  /\ Inside => Workloads[wl].selected
  /\ JobsPlanned /\ PlanFollowed /\ TestsOnce /\ InOrder

(* Quotients and remainders, which number the jobs of a scenario. *)
LEMMA Division ==
  ASSUME NEW n \in Nat \ {0}, NEW k \in Nat
  PROVE  k \div n \in Nat /\ (k % n) \in 0..n - 1 /\ k = (k \div n) * n + (k % n)
OBVIOUS

LEMMA DivisionUnique ==
  ASSUME NEW n \in Nat \ {0}, NEW q \in Nat, NEW r \in 0..n - 1
  PROVE  (q * n + r) \div n = q /\ (q * n + r) % n = r
OBVIOUS

LEMMA JobNumber ==
  ASSUME NEW n \in Nat \ {0}, NEW c \in Nat, NEW q \in 0..c - 1, NEW r \in 0..n - 1
  PROVE  q * n + r + 1 \in 1..c * n
OBVIOUS

LEMMA QuotientBelow ==
  ASSUME NEW n \in Nat \ {0}, NEW c \in Nat, NEW q \in Nat, NEW r \in 0..n - 1,
         q * n + r < c * n
  PROVE  q < c
OBVIOUS

(* JobsOf has each concurrency with each run, once. *)
LEMMA JobsAreProduct ==
  ASSUME NEW kind, NEW scenario, NEW k, scenario.concurrencies \in Nat,
         NEW n \in Nat \ {0}, Len(Runs(kind, k)) = n,
         \A x, y \in 1..n : Runs(kind, k)[x] = Runs(kind, k)[y] => x = y
  PROVE  LET js == JobsOf(kind, scenario, k)
             R == {Runs(kind, k)[x] : x \in 1..n}
         IN /\ IsSeq(js)
            /\ \A x, y \in DOMAIN js : js[x] = js[y] => x = y
            /\ \A j \in Range(js) :
                 \E c \in 1..scenario.concurrencies, r \in R : j = [concurrency |-> c, run |-> r]
            /\ \A c \in 1..scenario.concurrencies, r \in R :
                 [concurrency |-> c, run |-> r] \in Range(js)
<1> DEFINE runs == Runs(kind, k)
           C == scenario.concurrencies
           J(x) == [concurrency |-> ((x - 1) \div n) + 1, run |-> runs[((x - 1) % n) + 1]]
           js == JobsOf(kind, scenario, k)
           R == {runs[x] : x \in 1..n}
<1>1. js = [x \in 1..C * n |-> J(x)] /\ C * n \in Nat
  BY DEF JobsOf
<1> HIDE DEF runs, js, C
<1>2. IsSeq(js) /\ DOMAIN js = 1..C * n
  <2> DEFINE N == C * n
             S == {J(x) : x \in 1..N}
  <2>1. js \in [1..N -> S] /\ N \in Nat
    BY <1>1
  <2> HIDE DEF N, S
  <2>2. js \in Seq(S) /\ DOMAIN js = 1..N
    BY <2>1
  <2> QED
    BY <2>2 DEF IsSeq, N
<1>3. C \in Nat /\ \A x, y \in 1..n : runs[x] = runs[y] => x = y
  BY DEF runs, C
<1>4. ASSUME NEW x \in 1..C * n
      PROVE  /\ (x - 1) \div n \in 0..C - 1 /\ ((x - 1) % n) \in 0..n - 1
             /\ x - 1 = ((x - 1) \div n) * n + ((x - 1) % n)
  <2>1. x - 1 \in Nat /\ x - 1 < C * n
    BY <1>1
  <2> DEFINE y == x - 1
             q == y \div n
             r == y % n
  <2>2. q \in Nat /\ r \in 0..n - 1 /\ y = q * n + r
    BY <2>1, Division
  <2>3. q < C
    <3> HIDE DEF q, r
    <3> QED
      BY <1>3, <2>1, <2>2, QuotientBelow
  <2> QED
    BY <1>3, <2>2, <2>3
<1>5. ASSUME NEW x \in DOMAIN js, NEW y \in DOMAIN js, js[x] = js[y] PROVE x = y
  <2> DEFINE qx == (x - 1) \div n
             rx == (x - 1) % n
             qy == (y - 1) \div n
             ry == (y - 1) % n
  <2>1. /\ qx \in 0..C - 1 /\ rx \in 0..n - 1 /\ x - 1 = qx * n + rx
        /\ qy \in 0..C - 1 /\ ry \in 0..n - 1 /\ y - 1 = qy * n + ry
        /\ x \in Nat /\ y \in Nat
    BY <1>1, <1>2, <1>4
  <2>2. /\ js[x].concurrency = qx + 1 /\ js[x].run = runs[rx + 1]
        /\ js[y].concurrency = qy + 1 /\ js[y].run = runs[ry + 1]
    BY <1>1, <1>2
  <2> HIDE DEF qx, rx, qy, ry
  <2>3. qx + 1 = qy + 1 /\ runs[rx + 1] = runs[ry + 1]
    BY <1>5, <2>2
  <2>4. qx = qy /\ rx = ry
    BY <1>3, <2>1, <2>3
  <2> QED
    BY <2>1, <2>4
<1>6. ASSUME NEW j \in Range(js)
      PROVE  \E c \in 1..C, r \in R : j = [concurrency |-> c, run |-> r]
  <2>1. PICK x \in 1..C * n : j = J(x)
    BY <1>1, <1>2 DEF Range
  <2>2. (x - 1) \div n \in 0..C - 1 /\ ((x - 1) % n) \in 0..n - 1
    BY <1>4
  <2> DEFINE q == (x - 1) \div n
             r == (x - 1) % n
  <2>3. q + 1 \in 1..C /\ r + 1 \in 1..n
    <3> HIDE DEF q, r
    <3> QED
      BY <1>3, <2>2 DEF q, r
  <2> QED
    BY <2>1, <2>3, ZenonT(30)
<1>7. ASSUME NEW c \in 1..C, NEW r \in R
      PROVE  [concurrency |-> c, run |-> r] \in Range(js)
  <2>1. PICK y \in 1..n : r = runs[y]
    OBVIOUS
  <2> DEFINE q == c - 1
             z == y - 1
             x == q * n + z + 1
  <2>2. q \in 0..C - 1 /\ z \in 0..n - 1 /\ q \in Nat /\ q + 1 = c /\ z + 1 = y
    BY <1>3
  <2> HIDE DEF q, z
  <2>3. x \in 1..C * n
    BY <1>3, <2>2, JobNumber
  <2>4. x - 1 = q * n + z
    <3>1. q * n \in Nat
      BY <2>2
    <3> QED
      BY <2>2, <3>1
  <2>5. (x - 1) \div n = q /\ (x - 1) % n = z
    <3> HIDE DEF x
    <3> QED
      BY <2>2, <2>4, DivisionUnique, ZenonT(30)
  <2>6. J(x) = [concurrency |-> c, run |-> r]
    BY <2>1, <2>2, <2>5
  <2> HIDE DEF x
  <2> QED
    BY <1>1, <1>2, <2>3, <2>6 DEF Range
<1> QED
  BY <1>2, <1>5, <1>6, <1>7 DEF js, R, runs, C

(* The runs of workload w the configuration asks for, in one pass or in all. *)
RunsPlanned(w) == IF conf.rerunType = "iteration" /\ Workloads[w].kind = "workflow"
                  THEN {0} ELSE 0..Rerun - 1

LEMMA PlannedTests ==
  /\ \A t \in Planned :
       /\ t.wl \in DOMAIN Workloads /\ Workloads[t.wl].selected
       /\ t.sc \in DOMAIN Workloads[t.wl].scenarios
       /\ Workloads[t.wl].scenarios[t.sc].enabled /\ Workloads[t.wl].scenarios[t.sc].usable
       /\ t.concurrency \in 1..Workloads[t.wl].scenarios[t.sc].concurrencies
       /\ t.run \in RunsPlanned(t.wl)
       /\ t = [wl |-> t.wl, sc |-> t.sc, concurrency |-> t.concurrency, run |-> t.run]
  /\ \A w \in DOMAIN Workloads : \A s \in DOMAIN Workloads[w].scenarios :
       Workloads[w].selected /\ Workloads[w].scenarios[s].enabled
         /\ Workloads[w].scenarios[s].usable =>
           \A c \in 1..Workloads[w].scenarios[s].concurrencies, r \in RunsPlanned(w) :
             [wl |-> w, sc |-> s, concurrency |-> c, run |-> r] \in Planned
<1> DEFINE Sc(w, s) == Workloads[w].scenarios[s]
           T(w, s) == {[wl |-> w, sc |-> s, concurrency |-> c, run |-> r] :
                         c \in 1..Sc(w, s).concurrencies, r \in RunsPlanned(w)}
           S(w) == {s \in DOMAIN Workloads[w].scenarios : Sc(w, s).enabled /\ Sc(w, s).usable}
           W == {v \in DOMAIN Workloads : Workloads[v].selected}
<1>1. Planned = UNION {UNION {T(w, s) : s \in S(w)} : w \in W}
  BY DEF Planned, RunsPlanned
<1>2. ASSUME NEW t \in Planned
      PROVE  \E w \in W : \E s \in S(w) : t \in T(w, s)
  <2>1. PICK w \in W : t \in UNION {T(w, s) : s \in S(w)}
    BY <1>1
  <2>2. PICK s \in S(w) : t \in T(w, s)
    BY <2>1
  <2> QED
    BY <2>2
<1>3. ASSUME NEW w \in W, NEW s \in S(w), NEW t \in T(w, s) PROVE t \in Planned
  BY <1>1
<1> QED
  BY <1>2, <1>3

(* Called for this pass, a workload makes those of its planned runs that belong to it. *)
LEMMA RunsMade ==
  ASSUME TypeOK, OnePass, NEW w \in DOMAIN Workloads
  PROVE  LET runs == Runs(Workloads[w].kind, pass)
             n == Len(runs)
         IN /\ n \in Nat \ {0}
            /\ \A x, y \in 1..n : runs[x] = runs[y] => x = y
            /\ {runs[x] : x \in 1..n} = {r \in RunsPlanned(w) : ThisPass(r)}
<1> DEFINE kind == Workloads[w].kind
           runs == Runs(kind, pass)
           Now == {r \in RunsPlanned(w) : ThisPass(r)}
<1>1. /\ Rerun \in Nat \ {0} /\ pass \in 0..Rerun - 1
      /\ conf.rerunType \in {"iteration", "complete"}
  BY Lengths DEF TypeOK
<1>2. CASE kind = "workflow" \/ conf.rerunType = "complete"
  <2>1. runs = <<pass>>
    BY <1>2 DEF Runs
  <2>2. Now = {pass}
    BY <1>1, <1>2 DEF RunsPlanned, ThisPass, OnePass
  <2> HIDE DEF runs, Now
  <2>3. Len(runs) = 1 /\ runs[1] = pass
    BY <2>1
  <2>4. {runs[x] : x \in 1..1} = {pass}
    BY <2>3
  <2> QED
    BY <2>2, <2>3, <2>4 DEF runs, Now
<1>3. CASE kind # "workflow" /\ conf.rerunType # "complete"
  <2>1. runs = [r \in 1..Rerun |-> r - 1]
    BY <1>3 DEF Runs
  <2>2. Now = 0..Rerun - 1
    BY <1>1, <1>3 DEF RunsPlanned, ThisPass
  <2> HIDE DEF runs, Now
  <2>3. runs \in [1..Rerun -> Nat]
    BY <1>1, <2>1
  <2>4. Len(runs) = Rerun
    BY <1>1, <2>3
  <2>5. \A x \in 1..Rerun : runs[x] = x - 1
    BY <2>1
  <2>6. {runs[x] : x \in 1..Rerun} = 0..Rerun - 1
    <3>1. ASSUME NEW r \in 0..Rerun - 1 PROVE r + 1 \in 1..Rerun /\ runs[r + 1] = r
      BY <1>1, <2>5
    <3> QED
      BY <1>1, <2>5, <3>1
  <2>7. \A x, y \in 1..Rerun : runs[x] = runs[y] => x = y
    BY <1>1, <2>5
  <2> QED
    BY <1>1, <2>2, <2>4, <2>6, <2>7 DEF runs, Now
<1> QED
  BY <1>2, <1>3

(* The jobs of a scenario, each once, are its planned tests of this pass. *)
LEMMA JobsMade ==
  ASSUME TypeOK, OnePass, wl \in DOMAIN Workloads, Workloads[wl].selected,
         sc \in DOMAIN Workloads[wl].scenarios, Scenario.enabled, Scenario.usable
  PROVE  LET js == JobsOf(Workloads[wl].kind, Scenario, pass)
         IN /\ IsSeq(js)
            /\ \A m, n \in DOMAIN js : js[m] = js[n] => m = n
            /\ \A j \in Range(js) : /\ j = JobOf(j)
                                       /\ TestOf(j) \in Planned /\ ThisPass(j.run)
            /\ \A t \in Planned : t.wl = wl /\ t.sc = sc /\ ThisPass(t.run)
                                    => JobOf(t) \in Range(js)
<1> DEFINE kind == Workloads[wl].kind
           js == JobsOf(kind, Scenario, pass)
           runs == Runs(kind, pass)
           n == Len(runs)
           C == Scenario.concurrencies
           R == {r \in RunsPlanned(wl) : ThisPass(r)}
<1>1. C \in Nat
  BY WorkloadsAssumption DEF TypeOK, Workloads, Scenario
<1>2. /\ n \in Nat \ {0} /\ \A x, y \in 1..n : runs[x] = runs[y] => x = y
      /\ {runs[x] : x \in 1..n} = R
  BY RunsMade
<1> HIDE DEF R, kind
<1>3. /\ IsSeq(js)
      /\ \A x, y \in DOMAIN js : js[x] = js[y] => x = y
      /\ \A j \in Range(js) : \E c \in 1..C, r \in R : j = [concurrency |-> c, run |-> r]
      /\ \A c \in 1..C, r \in R : [concurrency |-> c, run |-> r] \in Range(js)
  BY <1>1, <1>2, JobsAreProduct
<1> HIDE DEF js
<1>4. ASSUME NEW j \in Range(js)
      PROVE  j = JobOf(j) /\ TestOf(j) \in Planned /\ ThisPass(j.run)
  <2>1. PICK c \in 1..C, r \in R : j = [concurrency |-> c, run |-> r]
    BY <1>3
  <2>2. r \in RunsPlanned(wl) /\ ThisPass(r)
    BY DEF R
  <2>3. TestOf(j) = [wl |-> wl, sc |-> sc, concurrency |-> c, run |-> r]
    BY <2>1 DEF TestOf
  <2>4. TestOf(j) \in Planned
    BY <2>2, <2>3, PlannedTests DEF Scenario
  <2> QED
    BY <2>1, <2>2, <2>4 DEF JobOf
<1>5. ASSUME NEW t \in Planned, t.wl = wl, t.sc = sc, ThisPass(t.run)
      PROVE  JobOf(t) \in Range(js)
  <2>1. t.concurrency \in 1..C /\ t.run \in RunsPlanned(wl)
    BY <1>5, PlannedTests DEF Scenario
  <2>2. t.run \in R
    BY <1>5, <2>1 DEF R
  <2> QED
    BY <1>3, <2>1, <2>2 DEF JobOf
<1> QED
  BY <1>3, <1>4, <1>5 DEF js, kind

LEMMA TailOf ==
  ASSUME NEW s, IsSeq(s), s # <<>>, \A m, n \in DOMAIN s : s[m] = s[n] => m = n
  PROVE  /\ IsSeq(Tail(s)) /\ \A m, n \in DOMAIN Tail(s) : Tail(s)[m] = Tail(s)[n] => m = n
         /\ Head(s) \in Range(s) /\ Range(Tail(s)) = Range(s) \ {Head(s)}
<1>1. PICK S : s \in Seq(S)
  BY DEF IsSeq
<1>2. /\ Tail(s) \in Seq(S) /\ Len(s) \in Nat \ {0} /\ Len(Tail(s)) = Len(s) - 1
      /\ DOMAIN s = 1..Len(s) /\ DOMAIN Tail(s) = 1..Len(Tail(s))
      /\ \A n \in 1..Len(s) - 1 : Tail(s)[n] = s[n + 1]
      /\ Head(s) = s[1]
  BY <1>1
<1>3. \A m, n \in DOMAIN Tail(s) : Tail(s)[m] = Tail(s)[n] => m = n
  <2>1. \A n \in DOMAIN Tail(s) : n \in Nat /\ n + 1 \in DOMAIN s /\ Tail(s)[n] = s[n + 1]
    BY <1>2
  <2>2. \A m, n \in DOMAIN Tail(s) : Tail(s)[m] = Tail(s)[n] => m + 1 = n + 1
    BY <2>1
  <2> QED
    BY <2>1, <2>2
<1>4. Range(Tail(s)) = Range(s) \ {Head(s)}
  <2>1. ASSUME NEW n \in DOMAIN Tail(s) PROVE Tail(s)[n] \in Range(s) \ {Head(s)}
    <3>1. n + 1 \in DOMAIN s /\ 1 \in DOMAIN s /\ n + 1 # 1 /\ Tail(s)[n] = s[n + 1]
      BY <1>2
    <3>2. s[n + 1] # s[1]
      BY <3>1
    <3> QED
      BY <1>2, <3>1, <3>2 DEF Range
  <2>2. ASSUME NEW n \in DOMAIN s, s[n] # Head(s) PROVE s[n] \in Range(Tail(s))
    <3>1. n # 1
      BY <1>2, <2>2
    <3>2. n - 1 \in DOMAIN Tail(s) /\ Tail(s)[n - 1] = s[n]
      BY <1>2, <3>1
    <3> QED
      BY <3>2 DEF Range
  <2> QED
    BY <2>1, <2>2 DEF Range
<1>5. Head(s) \in Range(s)
  BY <1>2 DEF Range
<1> QED
  BY <1>2, <1>3, <1>4, <1>5 DEF IsSeq

LEMMA PlanInit == Init => PlanInv
<1> SUFFICES ASSUME Init PROVE PlanInv
  OBVIOUS
<1>1. /\ executed = <<>> /\ jobs = <<>> /\ at = "main" /\ wl = 1 /\ pass = 0 /\ ~dumped
      /\ conf.number \in DOMAIN Configs /\ conf.rerunType \in {"iteration", "complete"}
  BY DEF Init
<1>2. Executed = {} /\ TestsOnce /\ InOrder
  <2>1. executed \in Seq({}) /\ DOMAIN executed = {}
    BY <1>1
  <2> QED
    BY <2>1 DEF Executed, TestsOnce, InOrder, IsSeq
<1>3. ASSUME NEW t \in Planned PROVE ~Begun(t)
  <2>1. t.wl \in DOMAIN Workloads /\ t.run \in RunsPlanned(t.wl)
    BY PlannedTests
  <2>2. t.wl \in Nat \ {0} /\ t.run \in Nat
    BY <1>1, <2>1, Lengths DEF Workloads, RunsPlanned
  <2> QED
    BY <1>1, <2>2 DEF Begun, Earlier, Inside
<1>4. PlanFollowed
  BY <1>1, <1>2, <1>3 DEF PlanFollowed
<1> QED
  BY <1>1, <1>2, <1>4 DEF PlanInv, OnePass, Inside, JobsPlanned, InScenario

(* Steps that begin no test. *)
LEMMA PlanKept ==
  ASSUME PlanInv, UNCHANGED <<conf, executed>>
  PROVE  /\ Planned' = Planned /\ Executed' = Executed /\ Workloads' = Workloads
         /\ TestsOnce' /\ InOrder'
BY DEF PlanInv, Planned, Workloads, Executed, TestsOnce, InOrder

LEMMA LoopKeeps ==
  ASSUME PlanInv, InLoop, InLoop', UNCHANGED <<conf, executed, dumped>>,
         OnePass', Inside' => Workloads[wl'].selected, JobsPlanned',
         \A t \in Planned : Begun(t)' <=> Begun(t)
  PROVE  PlanInv'
<1>1. at \notin {"stop", "verdict", "reported", "exited"} /\ at' \notin {"stop", "verdict"}
  BY DEF InLoop, Inside
<1>2. Executed = {t \in Planned : Begun(t)} /\ ~dumped
  BY <1>1 DEF PlanInv, PlanFollowed
<1>3. PlanFollowed'
  BY <1>1, <1>2, PlanKept DEF PlanFollowed
<1> QED
  BY <1>3, PlanKept DEF PlanInv

(* Steps out of the loops, and those after them. *)
LEMMA OutsideKeeps ==
  ASSUME PlanInv, ~InLoop', UNCHANGED <<conf, pass, jobs, executed>>,
         at' # "crashed" => jobs = <<>>,
         at' \in {"stop", "verdict"} /\ ~terminate' => Executed = Planned,
         dumped' => at' \in {"reported", "exited"} /\ Executed = Planned
  PROVE  PlanInv'
<1>1. ~Inside' /\ at' \notin {"scenario", "test"} /\ ~InScenario'
  BY DEF InLoop, Inside, InScenario
<1>2. JobsPlanned'
  BY <1>1 DEF JobsPlanned
<1>3. PlanFollowed'
  BY PlanKept DEF PlanFollowed
<1> QED
  BY <1>1, <1>2, <1>3, PlanKept DEF PlanInv, OnePass

LEMMA PlannedNumbers ==
  ASSUME TypeOK, NEW t \in Planned
  PROVE  /\ t.wl \in Nat \ {0} /\ t.wl <= Len(Workloads) /\ Workloads[t.wl].selected
         /\ t.sc \in Nat \ {0} /\ t.sc <= Len(Workloads[t.wl].scenarios)
         /\ Len(Workloads) \in Nat /\ Len(Workloads[t.wl].scenarios) \in Nat
         /\ t.run \in 0..Rerun - 1 /\ Rerun \in Nat \ {0}
         /\ wl \in Nat /\ sc \in Nat /\ pass \in Nat /\ pass < Rerun
<1>1. /\ t.wl \in DOMAIN Workloads /\ Workloads[t.wl].selected
      /\ t.sc \in DOMAIN Workloads[t.wl].scenarios /\ t.run \in RunsPlanned(t.wl)
  BY PlannedTests
<1>2. conf.number \in DOMAIN Configs
  BY DEF TypeOK
<1>3. DOMAIN Workloads = 1..Len(Workloads) /\ Len(Workloads) \in Nat
  BY <1>2, Lengths DEF Workloads
<1>4. /\ DOMAIN Workloads[t.wl].scenarios = 1..Len(Workloads[t.wl].scenarios)
      /\ Len(Workloads[t.wl].scenarios) \in Nat
  BY <1>1, <1>2, WorkloadsAssumption DEF Workloads
<1>5. t.run \in 0..Rerun - 1 /\ Rerun \in Nat \ {0}
  BY <1>1, Lengths DEF RunsPlanned
<1>6. wl \in Nat /\ sc \in Nat /\ pass \in Nat /\ pass < Rerun
  BY <1>3, <1>5 DEF TypeOK
<1> QED
  BY <1>1, <1>3, <1>4, <1>5, <1>6


LEMMA PlanStartsAndSkips ==
  ASSUME TypeOK, InWorkload, PlanInv,
         \/ StartRun \/ Metadata \/ StartFilebeat \/ StartCollectd
         \/ SkipWorkload \/ StartWorkload \/ EndScenario
  PROVE  PlanInv'
<1> USE DEF place, counters, cloud, history
<1>1. CASE StartRun \/ Metadata \/ StartFilebeat \/ StartCollectd
  <2>1. /\ at \in {"main", "metadata", "filebeat", "collectd"}
        /\ at' \in {"metadata", "filebeat", "collectd", "loop"}
        /\ UNCHANGED <<conf, pass, wl, sc, jobs, executed, dumped>>
    BY <1>1 DEF StartRun, Metadata, StartFilebeat, StartCollectd
  <2>2. InLoop /\ InLoop' /\ ~Inside /\ ~Inside' /\ ~InScenario'
    BY <2>1 DEF InLoop, Inside, InScenario
  <2>3. JobsPlanned' /\ OnePass'
    BY <2>1, <2>2 DEF PlanInv, JobsPlanned, OnePass
  <2>4. \A t : Begun(t)' <=> Begun(t)
    BY <2>1, <2>2 DEF Begun, Earlier, ThisPass
  <2> QED
    BY <2>1, <2>2, <2>3, <2>4, LoopKeeps
<1>2. CASE SkipWorkload
  <2>1. /\ at = "loop" /\ at' = "loop" /\ wl' = wl + 1 /\ ~Workloads[wl].selected
        /\ UNCHANGED <<conf, pass, sc, jobs, executed, dumped>>
    BY <1>2 DEF SkipWorkload
  <2>2. InLoop /\ InLoop' /\ ~Inside /\ ~Inside' /\ ~InScenario'
    BY <2>1 DEF InLoop, Inside, InScenario
  <2>3. JobsPlanned' /\ OnePass'
    BY <2>1, <2>2 DEF PlanInv, JobsPlanned, OnePass
  <2>4. ASSUME NEW t \in Planned PROVE Begun(t)' <=> Begun(t)
    <3>1. t.wl # wl /\ t.wl \in Nat /\ wl \in Nat
      BY <2>1, PlannedNumbers
    <3> QED
      BY <2>1, <2>2, <3>1 DEF Begun, Earlier, ThisPass
  <2> QED
    BY <2>1, <2>2, <2>3, <2>4, LoopKeeps
<1>3. CASE StartWorkload
  <2>1. /\ at = "loop" /\ at' \in {"clients", "workload"} /\ sc' = 1 /\ Workloads[wl].selected
        /\ UNCHANGED <<conf, pass, wl, jobs, executed, dumped>>
    BY <1>3 DEF StartWorkload
  <2>2. InLoop /\ InLoop' /\ ~Inside /\ ~InScenario'
    BY <2>1 DEF InLoop, Inside, InScenario
  <2>3. JobsPlanned' /\ OnePass'
    BY <2>1, <2>2 DEF PlanInv, JobsPlanned, OnePass
  <2>4. ASSUME NEW t \in Planned PROVE Begun(t)' <=> Begun(t)
    <3>1. Earlier(t)' <=> Earlier(t)
      BY <2>1, <2>2, PlannedNumbers DEF Earlier
    <3> QED
      BY <2>1, <3>1 DEF Begun, ThisPass
  <2> QED
    BY <2>1, <2>2, <2>3, <2>4, LoopKeeps
<1>4. CASE EndScenario
  <2>1. /\ at = "scenario" /\ at' = "workload" /\ sc' = sc + 1 /\ jobs = <<>>
        /\ UNCHANGED <<conf, pass, wl, jobs, executed, dumped>>
    BY <1>4 DEF EndScenario
  <2>2. InLoop /\ InLoop' /\ Inside /\ Inside' /\ InScenario /\ ~InScenario'
    BY <2>1 DEF InLoop, Inside, InScenario
  <2>3. JobsPlanned' /\ OnePass'
    BY <2>1, <2>2 DEF PlanInv, JobsPlanned, OnePass
  <2>4. Waiting = {}
    BY <2>1 DEF Waiting, Range
  <2>5. ASSUME NEW t \in Planned PROVE Begun(t)' <=> Begun(t)
    <3>1. Earlier(t)' <=> Earlier(t)
      BY <2>1, <2>2, <2>4, PlannedNumbers DEF Earlier
    <3> QED
      BY <2>1, <3>1 DEF Begun, ThisPass
  <2>6. Inside' => Workloads[wl'].selected
    BY <2>1, <2>2 DEF PlanInv
  <2> QED
    BY <2>1, <2>2, <2>3, <2>5, <2>6, LoopKeeps
<1> QED
  BY <1>1, <1>2, <1>3, <1>4

(* Clients are made, or the run crashes. *)
LEMMA PlanClients ==
  ASSUME PlanInv, InitializeClients
  PROVE  PlanInv'
<1>1. /\ at = "clients" /\ at' \in {"workload", "crashed"}
      /\ UNCHANGED <<conf, pass, wl, sc, jobs, executed, dumped>>
  BY DEF InitializeClients, place, counters, cloud, history
<1>2. ~dumped /\ InLoop /\ Inside /\ ~InScenario /\ jobs = <<>>
  BY <1>1 DEF PlanInv, PlanFollowed, InLoop, Inside, InScenario, JobsPlanned
<1>3. CASE at' = "workload"
  <2>1. InLoop' /\ Inside' /\ ~InScenario' /\ OnePass'
    BY <1>1, <1>3 DEF InLoop, Inside, InScenario, PlanInv, OnePass
  <2>2. JobsPlanned'
    BY <1>1, <1>2, <1>3, <2>1 DEF JobsPlanned
  <2>3. \A t : Begun(t)' <=> Begun(t)
    BY <1>1, <1>2, <2>1 DEF Begun, Earlier, ThisPass
  <2>4. Inside' => Workloads[wl'].selected
    BY <1>1, <1>2 DEF PlanInv
  <2> QED
    BY <1>1, <1>2, <2>1, <2>2, <2>3, <2>4, LoopKeeps
<1>4. CASE at' = "crashed"
  <2>1. ~InLoop'
    BY <1>4 DEF InLoop, Inside
  <2> QED
    BY <1>1, <1>2, <1>4, <2>1, OutsideKeeps
<1> QED
  BY <1>1, <1>3, <1>4

(* The last scenario of a workload is over: the loop goes on, or stops after SIGINT. *)
LEMMA PlanEndWorkload ==
  ASSUME TypeOK, InWorkload, PlanInv, EndWorkload
  PROVE  PlanInv'
<1>1. /\ at = "workload" /\ at' = (IF terminate THEN "stop" ELSE "loop") /\ wl' = wl + 1
      /\ sc > Len(Workloads[wl].scenarios)
      /\ UNCHANGED <<conf, pass, sc, jobs, executed, dumped, terminate>>
  BY DEF EndWorkload, place, counters, cloud, history
<1>2. ~dumped /\ InLoop /\ Inside /\ ~InScenario /\ jobs = <<>>
  BY <1>1 DEF PlanInv, PlanFollowed, InLoop, Inside, InScenario, JobsPlanned
<1>3. CASE terminate
  <2>1. ~InLoop'
    BY <1>1, <1>3 DEF InLoop, Inside
  <2> QED
    BY <1>1, <1>2, <1>3, <2>1, OutsideKeeps
<1>4. CASE ~terminate
  <2>1. InLoop' /\ ~Inside' /\ ~InScenario' /\ OnePass' /\ at' = "loop"
    BY <1>1, <1>4 DEF InLoop, Inside, InScenario, PlanInv, OnePass
  <2>2. JobsPlanned'
    BY <1>1, <1>2, <2>1 DEF JobsPlanned
  <2>3. ASSUME NEW t \in Planned PROVE Begun(t)' <=> Begun(t)
    <3>1. t.wl = wl => t.sc < sc
      BY <1>1, PlannedNumbers
    <3>2. Earlier(t)' <=> Earlier(t)
      BY <1>1, <1>2, <2>1, <3>1, PlannedNumbers DEF Earlier
    <3> QED
      BY <1>1, <3>2 DEF Begun, ThisPass
  <2> QED
    BY <1>1, <1>2, <2>1, <2>2, <2>3, LoopKeeps
<1> QED
  BY <1>3, <1>4

(* The last workload of a pass is over: the next pass begins, or all tests are done. *)
LEMMA PlanEndPass ==
  ASSUME TypeOK, PlanInv, EndPass
  PROVE  PlanInv'
<1>1. /\ at = "loop" /\ wl > Len(Workloads)
      /\ IF conf.rerunType = "complete" /\ pass + 1 < Rerun
         THEN pass' = pass + 1 /\ wl' = 1 /\ at' = "loop"
         ELSE at' = "stop" /\ UNCHANGED <<pass, wl>>
      /\ UNCHANGED <<conf, sc, jobs, executed, dumped, terminate>>
  BY DEF EndPass, place, counters, cloud, history
<1>2. ~dumped /\ InLoop /\ ~Inside /\ ~InScenario /\ jobs = <<>>
  BY <1>1 DEF PlanInv, PlanFollowed, InLoop, Inside, InScenario, JobsPlanned
<1>3. ASSUME NEW t \in Planned
      PROVE  /\ Earlier(t) /\ t.wl \in Nat \ {0} /\ pass \in Nat /\ Rerun \in Nat /\ pass < Rerun
             /\ t.run \in 0..Rerun - 1
  BY <1>1, PlannedNumbers DEF Earlier
<1>4. CASE conf.rerunType = "complete" /\ pass + 1 < Rerun
  <2>1. /\ InLoop' /\ ~Inside' /\ ~InScenario' /\ OnePass' /\ at' = "loop" /\ wl' = 1
        /\ pass' = pass + 1
    BY <1>1, <1>4 DEF InLoop, Inside, InScenario, OnePass
  <2>2. JobsPlanned'
    BY <1>1, <1>2, <2>1 DEF JobsPlanned
  <2>3. ASSUME NEW t \in Planned PROVE Begun(t)' <=> Begun(t)
    <3>1. ~Earlier(t)'
      BY <1>3, <2>1 DEF Earlier
    <3>2. /\ Begun(t)' <=> t.run < pass + 1
          /\ Begun(t) <=> t.run < pass \/ t.run = pass
      BY <1>1, <1>3, <1>4, <2>1, <3>1 DEF Begun, ThisPass
    <3> QED
      BY <1>3, <3>2
  <2> QED
    BY <1>1, <1>2, <2>1, <2>2, <2>3, LoopKeeps
<1>5. CASE ~(conf.rerunType = "complete" /\ pass + 1 < Rerun)
  <2>1. at' = "stop" /\ ~InLoop' /\ UNCHANGED pass
    BY <1>1, <1>5 DEF InLoop, Inside
  <2>2. \A t \in Planned : Begun(t)
    BY <1>3, <1>5 DEF Begun, ThisPass
  <2>3. Executed = Planned
    BY <1>2, <2>2 DEF PlanInv, PlanFollowed
  <2> QED
    BY <1>1, <1>2, <2>1, <2>3, OutsideKeeps
<1> QED
  BY <1>4, <1>5

(* The jobs of a scenario are made: none of its planned tests of this pass is past. *)
LEMMA PlanStartScenario ==
  ASSUME TypeOK, InWorkload, PlanInv, StartScenario
  PROVE  PlanInv'
<1>1. /\ at = "workload" /\ at' = "scenario" /\ sc <= Len(Workloads[wl].scenarios)
      /\ IF Scenario.enabled
         THEN jobs' = IF Scenario.usable THEN JobsOf(Workloads[wl].kind, Scenario, pass)
                      ELSE <<>>
         ELSE UNCHANGED jobs
      /\ UNCHANGED <<conf, pass, wl, sc, executed, dumped>>
  BY DEF StartScenario, place, counters, cloud, history
<1>2. /\ InLoop /\ Inside /\ ~InScenario /\ jobs = <<>> /\ InLoop' /\ Inside' /\ InScenario'
      /\ Workloads[wl].selected /\ OnePass /\ OnePass' /\ wl \in DOMAIN Workloads
  BY <1>1 DEF PlanInv, InLoop, Inside, InScenario, JobsPlanned, OnePass, InWorkload
<1>3. UNCHANGED <<Planned, Workloads>> /\ (at' = "scenario" => Waiting' = Range(jobs'))
  BY <1>1, PlanKept DEF Waiting
<1>4. CASE Scenario.enabled /\ Scenario.usable /\ sc \in DOMAIN Workloads[wl].scenarios
  <2>1. jobs' = JobsOf(Workloads[wl].kind, Scenario, pass)
    BY <1>1, <1>4
  <2>2. /\ IsSeq(jobs') /\ \A m, n \in DOMAIN jobs' : jobs'[m] = jobs'[n] => m = n
        /\ \A j \in Range(jobs') : /\ j = JobOf(j)
                                      /\ TestOf(j) \in Planned /\ ThisPass(j.run)
        /\ \A t \in Planned : t.wl = wl /\ t.sc = sc /\ ThisPass(t.run)
                                => JobOf(t) \in Range(jobs')
    BY <1>2, <1>4, <2>1, JobsMade
  <2>3. JobsPlanned'
    BY <1>1, <1>3, <2>2 DEF JobsPlanned, TestOf, ThisPass
  <2>4. ASSUME NEW t \in Planned PROVE Begun(t)' <=> Begun(t)
    <3>1. ThisPass(t.run) => (Earlier(t)' <=> Earlier(t))
      BY <1>1, <1>2, <1>3, <2>2, PlannedNumbers DEF Earlier
    <3> QED
      BY <1>1, <3>1 DEF Begun, ThisPass
  <2> QED
    BY <1>1, <1>2, <2>3, <2>4, LoopKeeps
<1>5. CASE ~(Scenario.enabled /\ Scenario.usable /\ sc \in DOMAIN Workloads[wl].scenarios)
  <2>1. \A t \in Planned : t.wl # wl \/ t.sc # sc
    BY <1>5, PlannedTests DEF Scenario
  <2>2. CASE jobs' = <<>>
    <3>1. JobsPlanned'
      <4>1. jobs' \in Seq({}) /\ DOMAIN jobs' = {}
        BY <2>2
      <4> QED
        BY <1>1, <4>1 DEF JobsPlanned, IsSeq, Range
    <3>2. ASSUME NEW t \in Planned PROVE Begun(t)' <=> Begun(t)
      <4>1. Earlier(t)' <=> Earlier(t)
        BY <1>1, <1>2, <2>1 DEF Earlier
      <4> QED
        BY <1>1, <4>1 DEF Begun, ThisPass
    <3> QED
      BY <1>1, <1>2, <3>1, <3>2, LoopKeeps
  <2>3. sc \in DOMAIN Workloads[wl].scenarios
    <3>1. /\ DOMAIN Workloads[wl].scenarios = 1..Len(Workloads[wl].scenarios)
          /\ Len(Workloads[wl].scenarios) \in Nat /\ sc \in Nat \ {0}
      BY <1>2, WorkloadsAssumption DEF TypeOK, Workloads
    <3> QED
      BY <1>1, <3>1
  <2> QED
    BY <1>1, <1>2, <1>5, <2>2, <2>3
<1> QED
  BY <1>4, <1>5

(* The next job of the scenario begins: a planned test that was never begun. *)
LEMMA PlanBeginTest ==
  ASSUME TypeOK, PlanInv, BeginTest
  PROVE  PlanInv'
<1> DEFINE j == Head(jobs)
<1>1. /\ at = "scenario" /\ at' = "test" /\ jobs # <<>> /\ executed' = Append(executed, TestOf(j))
      /\ UNCHANGED <<conf, pass, wl, sc, jobs, dumped>>
  BY DEF BeginTest, TestOf, place, cloud, history
<1>2. /\ InLoop /\ Inside /\ InScenario /\ InLoop' /\ Inside' /\ InScenario'
      /\ Workloads[wl].selected /\ OnePass /\ ~dumped /\ TestsOnce /\ InOrder
      /\ Executed = {t \in Planned : Begun(t)}
  BY <1>1 DEF PlanInv, PlanFollowed, InLoop, Inside, InScenario
<1>3. Planned' = Planned /\ Workloads' = Workloads /\ OnePass'
  BY <1>1, <1>2 DEF Planned, Workloads, OnePass
<1>4. /\ IsSeq(jobs) /\ \A m, n \in DOMAIN jobs : jobs[m] = jobs[n] => m = n
      /\ \A i \in Range(jobs) : /\ i = JobOf(i)
                                   /\ TestOf(i) \in Planned /\ ThisPass(i.run)
  BY <1>2 DEF PlanInv, JobsPlanned
<1>5. j \in Range(jobs) /\ Range(Tail(jobs)) = Range(jobs) \ {j}
  BY <1>1, <1>4, TailOf
<1>6. JobsPlanned'
  BY <1>1, <1>2, <1>3, <1>4 DEF JobsPlanned, TestOf, ThisPass, InScenario
<1>7. Waiting = Range(jobs) /\ Waiting' = Range(jobs) \ {j}
  BY <1>1, <1>5 DEF Waiting
<1>8. TestOf(j) \in Planned /\ ThisPass(j.run) /\ j = JobOf(TestOf(j))
  BY <1>4, <1>5 DEF TestOf, JobOf
<1> HIDE DEF j
<1>9. TestOf(j).wl = wl /\ TestOf(j).sc = sc /\ TestOf(j).run = j.run
  BY DEF TestOf
<1>10. pass \in Nat /\ wl \in Nat /\ sc \in Nat
  BY Lengths DEF TypeOK
<1>11. TestOf(j) \notin Executed
  BY <1>2, <1>5, <1>7, <1>8, <1>9, <1>10 DEF Begun, Earlier, ThisPass
<1>12. ASSUME NEW t \in Planned PROVE Begun(t)' <=> Begun(t) \/ t = TestOf(j)
  <2>1. t = TestOf(j) <=> t.wl = wl /\ t.sc = sc /\ JobOf(t) = j
    <3>1. t = [wl |-> t.wl, sc |-> t.sc, concurrency |-> t.concurrency, run |-> t.run]
      BY PlannedTests
    <3>2. JobOf(t) = j => t.concurrency = j.concurrency /\ t.run = j.run
      BY <1>8 DEF JobOf
    <3> QED
      BY <1>8, <1>9, <3>1, <3>2 DEF TestOf
  <2>2. Earlier(t)' <=> Earlier(t) \/ t = TestOf(j)
    BY <1>1, <1>2, <1>7, <1>10, <2>1, PlannedNumbers DEF Earlier
  <2>3. t = TestOf(j) => ThisPass(t.run)
    BY <1>8, <1>9
  <2> QED
    BY <1>1, <2>2, <2>3 DEF Begun, ThisPass
<1>13. /\ IsSeq(executed') /\ Len(executed) \in Nat /\ Len(executed') = Len(executed) + 1
       /\ \A n \in 1..Len(executed) : executed'[n] = executed[n]
       /\ executed'[Len(executed) + 1] = TestOf(j)
       /\ DOMAIN executed = 1..Len(executed) /\ DOMAIN executed' = 1..Len(executed')
  <2>1. IsSeq(executed)
    BY <1>2 DEF TestsOnce
  <2>2. \A s : IsSeq(s) => DOMAIN s = 1..Len(s)
    BY DEF IsSeq
  <2> HIDE DEF IsSeq
  <2> QED
    BY <1>1, <2>1, <2>2, AppendTo
<1>14. Executed' = Executed \cup {TestOf(j)}
  <2>1. DOMAIN executed' = DOMAIN executed \cup {Len(executed) + 1}
    BY <1>13
  <2> QED
    BY <1>13, <2>1 DEF Executed
<1>15. PlanFollowed'
  <2>1. Executed' = {t \in Planned : Begun(t)'}
    BY <1>2, <1>8, <1>12, <1>14
  <2> QED
    BY <1>1, <1>2, <1>3, <2>1 DEF PlanFollowed
<1>16. TestsOnce'
  <2>1. \A m \in DOMAIN executed : executed[m] # TestOf(j)
    BY <1>11 DEF Executed
  <2>2. ASSUME NEW m \in DOMAIN executed', NEW n \in DOMAIN executed', executed'[m] = executed'[n]
        PROVE  m = n
    <3>1. \A k \in DOMAIN executed' :
            \/ k \in DOMAIN executed /\ executed'[k] = executed[k]
            \/ k = Len(executed) + 1 /\ executed'[k] = TestOf(j)
      BY <1>13
    <3> QED
      BY <1>2, <2>1, <2>2, <3>1 DEF TestsOnce
  <2> QED
    BY <1>13, <2>2 DEF TestsOnce
<1>17. InOrder'
  <2>1. ASSUME NEW m \in DOMAIN executed
        PROVE  IF conf.rerunType = "complete" THEN executed[m].run <= TestOf(j).run
               ELSE executed[m].wl <= TestOf(j).wl
    <3>1. executed[m] \in Planned /\ Begun(executed[m])
      BY <1>2 DEF Executed
    <3> DEFINE t == executed[m]
    <3>2. t.wl \in Nat /\ t.run \in Nat
      BY <3>1, PlannedNumbers
    <3>3. conf.rerunType = "complete" => t.run <= pass /\ j.run = pass
      BY <1>8, <1>10, <3>1, <3>2 DEF Begun, ThisPass
    <3>4. conf.rerunType # "complete" => t.wl <= wl
      BY <1>10, <3>1, <3>2 DEF Begun, Earlier
    <3> QED
      BY <1>9, <3>3, <3>4
  <2>2. ASSUME NEW m \in DOMAIN executed', NEW n \in DOMAIN executed', m < n
        PROVE  IF conf.rerunType = "complete" THEN executed'[m].run <= executed'[n].run
               ELSE executed'[m].wl <= executed'[n].wl
    <3>1. m \in DOMAIN executed /\ executed'[m] = executed[m]
      BY <1>13, <2>2
    <3>2. CASE n \in DOMAIN executed
      BY <1>2, <1>13, <2>2, <3>1, <3>2 DEF InOrder
    <3>3. CASE n = Len(executed) + 1
      BY <1>13, <2>1, <3>1, <3>3
    <3> QED
      BY <1>13, <3>2, <3>3
  <2> QED
    BY <1>1, <2>2 DEF InOrder
<1> QED
  BY <1>1, <1>2, <1>3, <1>6, <1>15, <1>16, <1>17 DEF PlanInv

(* A test is over: its job is done, and the next one is taken from the rest. *)
LEMMA PlanTestOver ==
  ASSUME PlanInv, TestOver
  PROVE  PlanInv'
<1>1. /\ at = "test" /\ at' = "scenario" /\ jobs' = Tail(jobs)
      /\ UNCHANGED <<conf, pass, wl, sc, executed, dumped>>
  BY DEF TestOver
<1>2. /\ InLoop /\ Inside /\ InScenario /\ InLoop' /\ Inside' /\ InScenario'
      /\ Workloads[wl].selected /\ OnePass /\ OnePass'
  BY <1>1 DEF PlanInv, InLoop, Inside, InScenario, OnePass
<1>3. /\ IsSeq(jobs) /\ \A m, n \in DOMAIN jobs : jobs[m] = jobs[n] => m = n
      /\ \A i \in Range(jobs) : /\ i = JobOf(i)
                                   /\ TestOf(i) \in Planned /\ ThisPass(i.run)
      /\ jobs # <<>>
  BY <1>1, <1>2 DEF PlanInv, JobsPlanned
<1>4. /\ IsSeq(jobs') /\ \A m, n \in DOMAIN jobs' : jobs'[m] = jobs'[n] => m = n
      /\ Range(jobs') \subseteq Range(jobs)
  BY <1>1, <1>3, TailOf
<1>5. UNCHANGED <<Planned, Workloads>>
  BY <1>1, PlanKept
<1>6. JobsPlanned'
  BY <1>1, <1>3, <1>4, <1>5 DEF JobsPlanned, TestOf, ThisPass
<1>7. Waiting' = Waiting
  BY <1>1 DEF Waiting
<1>8. \A t : Begun(t)' <=> Begun(t)
  BY <1>1, <1>2, <1>7 DEF Begun, Earlier, ThisPass
<1> QED
  BY <1>1, <1>2, <1>6, <1>8, LoopKeeps

(* The command line, a crash, and the end of the run. *)
LEMMA PlanEnds ==
  ASSUME PlanInv, \/ InvalidConfig \/ ReadElastic \/ PostProcess \/ InvalidWorkload
                  \/ Crash \/ StopCollectd \/ Verdict
  PROVE  PlanInv'
<1> USE DEF place, counters, cloud, history
<1>1. CASE InvalidConfig \/ ReadElastic \/ PostProcess \/ InvalidWorkload \/ Crash
  <2>1. /\ at \in {"main", "workload", "scenario", "test"} /\ at' \in {"exited", "crashed"}
        /\ at' = "exited" => at = "main"
        /\ UNCHANGED <<conf, pass, jobs, executed, dumped>>
    BY <1>1 DEF InvalidConfig, ReadElastic, PostProcess, InvalidWorkload, Ends, Crash
  <2>2. ~InLoop' /\ ~dumped /\ (at' # "crashed" => jobs = <<>>)
    BY <2>1 DEF PlanInv, PlanFollowed, InLoop, Inside, JobsPlanned
  <2> QED
    BY <2>1, <2>2, OutsideKeeps
<1>2. CASE StopCollectd
  <2>1. /\ at = "stop" /\ at' = "verdict"
        /\ UNCHANGED <<conf, pass, jobs, executed, dumped, terminate>>
    BY <1>2 DEF StopCollectd
  <2>2. /\ ~InLoop' /\ ~dumped /\ jobs = <<>>
        /\ ~terminate => Executed = Planned
    BY <2>1 DEF PlanInv, PlanFollowed, InLoop, Inside, JobsPlanned
  <2> QED
    BY <2>1, <2>2, OutsideKeeps
<1>3. CASE Verdict
  <2>1. /\ at \in {"verdict", "reported"} /\ at' \in {"reported", "exited"}
        /\ dumped' => dumped \/ (at = "verdict" /\ ~terminate)
        /\ UNCHANGED <<conf, pass, jobs, executed, terminate>>
    BY <1>3 DEF Verdict, Interrupted, DumpReport, TestsFailed, IndexingFailed, Succeeded, Exit
  <2>2. /\ ~InLoop' /\ jobs = <<>>
        /\ dumped' => Executed = Planned
    BY <2>1 DEF PlanInv, PlanFollowed, InLoop, Inside, JobsPlanned
  <2> QED
    BY <2>1, <2>2, OutsideKeeps
<1> QED
  BY <1>1, <1>2, <1>3

(* SIGINT only sets terminate. *)
LEMMA PlanSignal ==
  ASSUME PlanInv, Signal \/ UNCHANGED vars
  PROVE  PlanInv'
<1>1. /\ UNCHANGED <<conf, at, pass, wl, sc, jobs, executed, dumped>>
      /\ terminate => terminate'
  BY DEF Signal, vars, place, counters, cloud, history
<1>2. UNCHANGED <<Inside, InScenario, InLoop, Waiting, OnePass>>
  BY <1>1 DEF Inside, InScenario, InLoop, Waiting, OnePass
<1>3. \A t : Begun(t)' <=> Begun(t)
  BY <1>1, <1>2 DEF Begun, Earlier, ThisPass
<1>4. JobsPlanned'
  BY <1>1, <1>2, PlanKept DEF PlanInv, JobsPlanned, TestOf, ThisPass
<1>5. PlanFollowed'
  BY <1>1, <1>2, <1>3, PlanKept DEF PlanInv, PlanFollowed
<1> QED
  BY <1>1, <1>2, <1>4, <1>5, PlanKept DEF PlanInv

LEMMA PlanStep == TypeOK /\ InWorkload /\ PlanInv /\ [Next]_vars => PlanInv'
<1> SUFFICES ASSUME TypeOK, InWorkload, PlanInv, [Next]_vars PROVE PlanInv'
  OBVIOUS
<1>1. RallyTest \/ ShakerTest \/ WorkflowTest => PlanInv'
  BY TestsEnd, PlanTestOver
<1> QED
  BY <1>1, PlanStartsAndSkips, PlanClients, PlanEndWorkload, PlanEndPass, PlanStartScenario,
     PlanBeginTest, PlanEnds, PlanSignal DEF Next, Step, Terminated

(* A list without repetitions is as long as the set of its elements is large. *)
LEMMA LengthIsSize ==
  ASSUME NEW s, IsSeq(s), \A m, n \in DOMAIN s : s[m] = s[n] => m = n
  PROVE  Len(s) = Cardinality(Range(s))
<1>1. PICK S : s \in Seq(S)
  BY DEF IsSeq
<1>2. Len(s) \in Nat /\ DOMAIN s = 1..Len(s)
  BY <1>1
<1>3. s \in Injection(1..Len(s), Range(s)) /\ s \in Surjection(1..Len(s), Range(s))
  <2>1. s \in [1..Len(s) -> Range(s)]
    BY <1>1, <1>2 DEF Range
  <2>2. \A e \in Range(s) : \E n \in 1..Len(s) : s[n] = e
    BY <1>2 DEF Range
  <2> QED
    BY <1>2, <2>1, <2>2 DEF Injection, IsInjective, Surjection
<1>4. IsFiniteSet(1..Len(s)) /\ Cardinality(1..Len(s)) = Len(s)
  BY <1>2, FS_Interval, SMTT(30)
<1> QED
  BY <1>3, <1>4, FS_Surjection

(***************************************************************************)
(* For any configurations and number of reruns, a run that writes its       *)
(* report card has executed each planned test exactly once, complete pass   *)
(* by pass and iteration workload by workload.                              *)
(***************************************************************************)
THEOREM PlanIsFollowed == Spec => []EveryPlannedTest
<1>1. Spec => [](TypeOK /\ InWorkload /\ PlanInv)
  BY TypesInit, TypesStep, PlanInit, PlanStep, PTL DEF Spec
<1>2. PlanInv => EveryPlannedTest
  <2> SUFFICES ASSUME PlanInv PROVE EveryPlannedTest
    OBVIOUS
  <2>1. dumped => Executed = Planned
    BY DEF PlanInv, PlanFollowed
  <2>2. Len(executed) = Cardinality(Executed)
    BY LengthIsSize DEF PlanInv, TestsOnce, Executed, Range
  <2>3. InOrder
    BY DEF PlanInv
  <2> QED
    BY <2>1, <2>2, <2>3 DEF EveryPlannedTest, Executed, InOrder
<1> QED
  BY <1>1, <1>2, PTL
================================================================================
