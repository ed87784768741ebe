---------------------------- MODULE MCElasticCache -----------------------------
(***************************************************************************)
(* Instances for TLC: the documents of a Rally task, with a file each or    *)
(* the one of the test, compared with those of an earlier run; and, for the *)
(* reading of results, every short task and output of a few keys.           *)
(***************************************************************************)
EXTENDS ElasticComparison, ResultDocuments

CONSTANTS d1, d2, d3, o1, o2, o3

ThreeDocs == {d1, d2, d3}
OwnFile == [d \in Doc |-> d]
SharedFile == [d \in Doc |-> "test-rally-elastic.json"]
OneFile == {"test-rally-elastic.json"}

Says(scenario, setting, document) ==
  [scenario |-> scenario, setting |-> setting, action |-> document.action,
   error |-> document.error]
Result(action) == [action |-> action, error |-> FALSE]

(* The second run: an iteration of two actions, and one whose first action failed. *)
SecondTask == << [names |-> <<"nova.boot", "nova.list", "complete">>, failed |-> FALSE],
                 [names |-> <<"nova.boot">>, failed |-> TRUE] >>
Error == [action |-> "nova.boot", error |-> TRUE]
ASSUME Values(RallyDocuments(SecondTask)) = {Result("nova.boot"), Result("nova.list"), Error}

(* The first run had one of its actions, another test and another scenario. *)
SomeAttr ==
  [d \in {d1, d2, d3, o1, o2, o3} |->
     CASE d = d1 -> Says("boot-list", "8x2", Result("nova.boot"))
       [] d = d2 -> Says("boot-list", "8x2", Result("nova.list"))
       [] d = d3 -> Says("boot-list", "8x2", Error)
       [] d = o1 -> Says("boot-list", "8x2", Result("nova.list"))
       [] d = o2 -> Says("boot-list", "8x4", Result("nova.boot"))
       [] d = o3 -> Says("delete", "8x2", Result("nova.delete"))]

SomeNames == {"nova.boot", "nova.list", "complete"}
Lists == {"complete"}
ShortTasks ==
  LET Reads == {<<>>, <<"nova.boot">>, <<"nova.list", "nova.boot">>, <<"nova.list", "complete">>}
  IN SeqOf([names : Reads, failed : BOOLEAN], 3)
ShortOutputs ==
  LET Records == [ok : BOOLEAN, shell : BOOLEAN, metrics : {{"time"}, {"time", "ping_icmp"}},
                  samples : 0..1]
  IN [found : BOOLEAN, scenarios : 0..1, records : SeqOf(Records, 2)]
================================================================================
