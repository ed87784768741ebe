--------------------------- MODULE ElasticComparison ---------------------------
(***************************************************************************)
(* browbeat.py --query compares the Rally results of two runs while one of  *)
(* them may still be uploading its documents: it reads the results of both, *)
(* reduces those of one scenario and action to a percentile, then reads the *)
(* errors of both and prints a row for what both runs have.                 *)
(***************************************************************************)
EXTENDS ElasticCache

CONSTANTS OldDoc, \* documents of the first run, all uploaded once
          Attr    \* what a document says of itself

AllDocs == Doc \cup OldDoc
ASSUME AttrAssumption ==
  /\ OldDoc \cap Doc = {} /\ NoDoc \notin OldDoc
  /\ Attr \in [AllDocs -> [scenario: STRING, setting: STRING, action: STRING, error: BOOLEAN]]

VARIABLES reader,   \* where the comparison is
          combined, \* --combined: one row for all times and concurrencies
          data,     \* data[d]: how often d is in the results read
          errors,   \* errors[d]: how often d is in the errors read
          late      \* history: documents uploaded after the results were read

readerVars == <<reader, combined, data, errors, late>>
comparisonVars == <<vars, readerVars>>

ReaderTypeOK == /\ reader \in {"idle", "digested", "printed", "raised"}
                /\ combined \in BOOLEAN
                /\ {data, errors} \subseteq [AllDocs -> Nat]
                /\ late \in SUBSET Doc

ComparisonTypeOK == TypeOK /\ ReaderTypeOK

Nothing == [d \in AllDocs |-> 0]
ComparisonInit == /\ Init
                  /\ reader = "idle" /\ combined = FALSE
                  /\ data = Nothing /\ errors = Nothing
                  /\ late = {}

--------------------------------------------------------------------------------
(* get_results: whatever has the uuid, results and errors alike; the scroll is  *)
(* over the index as it was when the search began. The documents of the first   *)
(* run do not change, so that its search and the second one are one step.       *)
Hits(docs) == [d \in AllDocs |-> IF d \notin docs THEN 0 ELSE IF d \in OldDoc THEN 1 ELSE es[d]]

(* Mutant: the documents of errors are passed over. *)
DigestsResultsOnly(hits) == \E d \in Doc : hits[d] > 0

(* get_result_data: a run without a document gives no list to go through, and   *)
(* the document of an error has no raw data; both raise.                        *)
Digests(hits) == /\ \E d \in Doc : hits[d] > 0
                 /\ \A d \in AllDocs : Attr[d].error => hits[d] = 0

(* summarize_results for both uuids. *)
ReadResults(combine) ==
  /\ reader = "idle"
  /\ LET hits == Hits(AllDocs)
     IN IF Digests(hits)
        THEN reader' = "digested" /\ data' = hits /\ combined' = combine
        ELSE reader' = "raised" /\ UNCHANGED <<data, combined>>
  /\ UNCHANGED <<vars, errors, late>>

(* get_errors for both uuids. *)
ReadErrors ==
  /\ reader = "digested"
  /\ reader' = "printed"
  /\ errors' = Hits({d \in AllDocs : Attr[d].error})
  /\ UNCHANGED <<vars, combined, data, late>>

--------------------------------------------------------------------------------
(* The keys of the nested summary, and the rows of the table.                   *)
Key(d) == IF combined THEN <<Attr[d].scenario, Attr[d].action>>
          ELSE <<Attr[d].scenario, Attr[d].setting, Attr[d].action>>
Summarized(docs) == {d \in docs : data[d] > 0}
KeysOf(docs) == {Key(d) : d \in Summarized(docs)}
Rows == KeysOf(OldDoc) \cap KeysOf(Doc)
Missing == {Attr[d].scenario : d \in Summarized(OldDoc)}
           \ {Attr[d].scenario : d \in Summarized(Doc)}
ErrorsOf(docs, key) == {d \in docs : errors[d] > 0 /\ Key(d) = key}

Upload == /\ Step
          /\ late' = IF reader # "digested" THEN late
                     ELSE late \cup {d \in Doc : es'[d] > es[d]}
          /\ UNCHANGED <<reader, combined, data, errors>>

ComparisonNext == \/ Upload
                  \/ \E combine \in BOOLEAN : ReadResults(combine)
                  \/ ReadErrors
                  \/ Terminated /\ UNCHANGED readerVars

ComparisonSpec == /\ ComparisonInit
                  /\ [][ComparisonNext]_comparisonVars
                  /\ WF_comparisonVars(Upload)

--------------------------------------------------------------------------------
(***************************************************************************)
(* A printed comparison counts no error, unless its document was uploaded   *)
(* while the comparison ran: a run with errors is not compared at all.  A   *)
(* document counts once in its row unless an upload of it failed, and one   *)
(* of the first run without a row has its scenario among the missing ones,  *)
(* or the second run has the scenario without the action, or not with these *)
(* times and concurrency.                                                   *)
(***************************************************************************)
ComparisonIsHonest ==
  reader = "printed" =>
    LET rows == Rows
        missing == Missing
        second == Summarized(Doc)
    IN /\ \A docs \in {Doc, OldDoc}, key \in rows : ErrorsOf(docs, key) \subseteq late
       /\ \A d \in Doc : data[d] > 1 => d \in resent
       /\ \A d \in Summarized(OldDoc) :
            Key(d) \in rows \/ Attr[d].scenario \in missing
            \/ \E e \in second : Attr[e].scenario = Attr[d].scenario /\ Key(e) # Key(d)
================================================================================
