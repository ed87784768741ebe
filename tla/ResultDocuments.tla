---------------------------- MODULE ResultDocuments ----------------------------
(***************************************************************************)
(* The documents that Rally and Shaker results become: json_parse goes      *)
(* through the iterations of a Rally task and send_to_elastic through the   *)
(* records of a Shaker output, each with variables that one turn of the     *)
(* loop leaves to the next.                                                 *)
(***************************************************************************)
EXTENDS ElasticCache, FiniteSets, SequencesExt

CONSTANTS Name,     \* keys of the dictionaries of an iteration
          ListName, \* those with a list, output's additive and complete
          Tasks,    \* task results: the iterations in order
          Outputs   \* Shaker outputs

NoName == "unbound"

(* names: the keys of atomic_actions and of output in the order of the JSON. *)
Iteration == [names : Seq(Name), failed : BOOLEAN]
(* metrics: in the record's meta; samples: of each metric. *)
Record == [ok : BOOLEAN, shell : BOOLEAN, metrics : SUBSET STRING, samples : Nat]

ASSUME DocumentsAssumption ==
  /\ NoName \notin Name
  /\ \A task \in Tasks : task \in Seq(Iteration)
  /\ \A output \in Outputs : /\ output.found \in BOOLEAN /\ output.scenarios \in Nat
                             /\ output.records \in Seq(Record)

Values(seq) == {seq[k] : k \in DOMAIN seq}

--------------------------------------------------------------------------------
(* Mutant: an iteration does not see the name the one before has read. *)
ParseIterationAnew(read, iteration) ==
  LET value == IF iteration.names = <<>> THEN NoName ELSE Last(iteration.names)
  IN IF read.raised THEN read
     ELSE [value |-> value,
           raw |-> [a \in Name \ ListName |->
                      read.raw[a] + (IF a \in Values(iteration.names) THEN 1 ELSE 0)],
           errors |-> IF iteration.failed THEN Append(read.errors, value) ELSE read.errors,
           raised |-> iteration.failed /\ value = NoName]

(* One turn of the loop: value is the last key read, in this turn or an earlier *)
(* one; an error takes its name, and raises if no key has ever been read.       *)
ParseIteration(read, iteration) ==
  LET value == IF iteration.names = <<>> THEN read.value ELSE Last(iteration.names)
  IN IF read.raised THEN read
     ELSE [value |-> value,
           raw |-> [a \in Name \ ListName |->
                      read.raw[a] + (IF a \in Values(iteration.names) THEN 1 ELSE 0)],
           errors |-> IF iteration.failed THEN Append(read.errors, value) ELSE read.errors,
           raised |-> iteration.failed /\ value = NoName]

JsonParse(task) ==
  FoldLeft(ParseIteration,
           [value |-> NoName, raw |-> [a \in Name \ ListName |-> 0], errors |-> <<>>,
            raised |-> FALSE],
           task)

(* What json_result then indexes: the errors in order and a result for each action. *)
RallyDocuments(task) ==
  LET read == JsonParse(task)
      ran == {a \in Name \ ListName : read.raw[a] > 0}
  IN [k \in DOMAIN read.errors |-> [action |-> read.errors[k], error |-> TRUE]]
     \o SetToSeq({[action |-> a, error |-> FALSE] : a \in ran})

--------------------------------------------------------------------------------
(* Mutant: a record of the shell executor is passed over. *)
SendRecordOkOnly(sent, record) ==
  IF sent.raised \/ (record.ok /\ record.shell) THEN sent
  ELSE IF record.ok
       THEN [sent EXCEPT !.raised = record.metrics \ {"time"} # {} /\ record.samples > 0]
       ELSE IF sent.described THEN [sent EXCEPT !.errors = @ + 1] ELSE [sent EXCEPT !.raised = TRUE]

(* A record that is not ok, or of the shell executor, is an error document with  *)
(* what was found about the scenarios, if there was any; one with samples raises *)
(* at its first value, as Python 3 has no list of keys to look an index up in.   *)
SendRecord(sent, record) ==
  IF sent.raised THEN sent
  ELSE IF record.ok /\ ~record.shell
       THEN [sent EXCEPT !.raised = record.metrics \ {"time"} # {} /\ record.samples > 0]
       ELSE IF sent.described THEN [sent EXCEPT !.errors = @ + 1] ELSE [sent EXCEPT !.raised = TRUE]

SendToElastic(output) ==
  IF ~output.found THEN [described |-> FALSE, errors |-> 1, raised |-> FALSE]
  ELSE FoldLeft(SendRecord, [described |-> output.scenarios > 0, errors |-> 0, raised |-> FALSE],
                output.records)

--------------------------------------------------------------------------------
Failed(task) == {k \in DOMAIN task : task[k].failed}
Nth(S, n) == CHOOSE k \in S : Cardinality({j \in S : j <= k}) = n

(* Each failed iteration is one error, named for a key of its own or, if it has *)
(* none, of the last iteration with one; the durations of failed iterations     *)
(* count in the results as those of the others do.                              *)
RallyDocumentsTell ==
  \A task \in Tasks :
    LET read == JsonParse(task)
        Named(k) == {j \in 1..k : task[j].names # <<>>}
    IN IF \E k \in Failed(task) : Named(k) = {}
       THEN read.raised
       ELSE /\ ~read.raised
            /\ Len(read.errors) = Cardinality(Failed(task))
            /\ \A n \in DOMAIN read.errors :
                 LET k == Nth(Failed(task), n)
                 IN \E j \in Named(k) : /\ read.errors[n] \in Values(task[j].names)
                                        /\ \A i \in Named(k) : i <= j
            /\ \A a \in Name \ ListName :
                 read.raw[a] = Cardinality({k \in DOMAIN task : a \in Values(task[k].names)})

(* Shaker results are all errors: what is sent for a whole output tells which   *)
(* records failed, and those of the shell executor among them.                  *)
ShakerDocumentsTell ==
  \A output \in Outputs :
    LET sent == SendToElastic(output)
        Measured(r) == r.ok /\ ~r.shell /\ r.metrics \ {"time"} # {} /\ r.samples > 0
    IN output.found /\ ~sent.raised =>
         /\ \A k \in DOMAIN output.records : ~Measured(output.records[k])
         /\ sent.errors = Cardinality({k \in DOMAIN output.records :
                                         ~output.records[k].ok \/ output.records[k].shell})

(***************************************************************************)
(* What is going to be indexed tells how a test went, whatever order its    *)
(* iterations or records failed in: an error document for each that failed  *)
(* and none else, named for an action the task had reached, or an exception *)
(* before anything is indexed.                                              *)
(***************************************************************************)
ResultsBecomeDocuments ==
  pending = Doc /\ pc = "ready" => RallyDocumentsTell /\ ShakerDocumentsTell
================================================================================
