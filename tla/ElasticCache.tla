----------------------------- MODULE ElasticCache ------------------------------
(***************************************************************************)
(* The upload cache of one Elastic object: index_result collects documents, *)
(* flush_cache pushes them to Elasticsearch in bulk, tries a second time    *)
(* and then writes them to files; __del__ flushes what is left when the     *)
(* workload object that owns the cache goes away.                           *)
(***************************************************************************)
EXTENDS Naturals, Sequences

CONSTANTS Doc,           \* documents the tests of one workload index
          FileName,
          FileOf,        \* FileOf[d]: the file d is dumped to when uploads fail
          MaxCache,      \* max_cache_size
          NoDoc,         \* what an absent or truncated file holds
          MaxDiskErrors  \* bound: files that cannot be written

ASSUME CacheAssumption == /\ FileOf \in [Doc -> FileName]
                          /\ MaxCache \in Nat
                          /\ MaxDiskErrors \in Nat
                          /\ NoDoc \notin Doc

VARIABLES pending,       \* documents no test has indexed yet
          cache,         \* self.cache
          es,            \* es[d]: copies of d in Elasticsearch
          file,          \* file[f]: the document saved in f
          pc,            \* ready, flush, dump, raised, gone or aborted
          closing,       \* the flush is the one of __del__
          attempt,       \* uploads of this flush_cache begun
          dumped,        \* items of the cache this flush_cache has written to files
          testOk,        \* every index_result of the running test returned True
          indexFailures, \* WorkloadBase.index_failures
          diskErrors,
          resent         \* history: documents that were in an upload that failed

vars == <<pending, cache, es, file, pc, closing, attempt, dumped,
          testOk, indexFailures, diskErrors, resent>>

Retry == 2 \* uploads tried by one flush_cache
Cached == {cache[k] : k \in DOMAIN cache}

TypeOK == /\ pending \in SUBSET Doc
          /\ cache \in Seq(Doc)
          /\ es \in [Doc -> Nat]
          /\ file \in [FileName -> Doc \cup {NoDoc}]
          /\ pc \in {"ready", "flush", "dump", "raised", "gone", "aborted"}
          /\ closing \in BOOLEAN
          /\ attempt \in 1..Retry
          /\ dumped \in Nat
          /\ testOk \in BOOLEAN
          /\ indexFailures \in Nat
          /\ diskErrors \in Nat
          /\ resent \in SUBSET Doc

Init == /\ pending = Doc
        /\ cache = <<>>
        /\ es = [d \in Doc |-> 0]
        /\ file = [f \in FileName |-> NoDoc]
        /\ pc = "ready"
        /\ closing = FALSE
        /\ attempt = 1
        /\ dumped = 0
        /\ testOk = TRUE
        /\ indexFailures = 0
        /\ diskErrors = 0
        /\ resent = {}

--------------------------------------------------------------------------------
(* flush_cache is entered with at least one document in the cache. *)
StartFlush == pc' = "flush" /\ attempt' = 1 /\ dumped' = 0

(* The document is only cached, or the cache is over its size or its age. *)
IndexResult(d) ==
  /\ pc = "ready"
  /\ d \in pending
  /\ pending' = pending \ {d}
  /\ cache' = Append(cache, d)
  /\ \/ /\ Len(cache) + 1 <= MaxCache
        /\ UNCHANGED <<pc, attempt, dumped>>
     \/ StartFlush
  /\ UNCHANGED <<es, file, closing, testOk, indexFailures, diskErrors, resent>>

(* The caller goes on with True or False; __del__ ignores which. *)
FlushReturns(ok) ==
  /\ cache' = <<>>
  /\ pc' = IF closing THEN "gone" ELSE "ready"
  /\ testOk' = (testOk /\ (ok \/ closing))

(* Mutant: the cache is not emptied. *)
BulkSucceedsKeeps ==
  /\ pc = "flush"
  /\ es' = [d \in Doc |-> IF d \in Cached THEN es[d] + 1 ELSE es[d]]
  /\ pc' = IF closing THEN "gone" ELSE "ready"
  /\ UNCHANGED <<pending, cache, file, closing, attempt, dumped, testOk, indexFailures,
                 diskErrors, resent>>

BulkSucceeds ==
  /\ pc = "flush"
  /\ es' = [d \in Doc |-> IF d \in Cached THEN es[d] + 1 ELSE es[d]]
  /\ FlushReturns(TRUE)
  /\ UNCHANGED <<pending, file, closing, attempt, dumped, indexFailures, diskErrors, resent>>

(* Mutant: one upload too many. *)
BulkFailsOnceMore ==
  /\ pc = "flush"
  /\ \E S \in SUBSET Cached : es' = [d \in Doc |-> IF d \in S THEN es[d] + 1 ELSE es[d]]
  /\ resent' = resent \cup Cached
  /\ \/ attempt <= Retry /\ attempt' = attempt + 1 /\ UNCHANGED pc
     \/ attempt > Retry /\ pc' = "dump" /\ UNCHANGED attempt
  /\ UNCHANGED <<pending, cache, file, closing, dumped, testOk, indexFailures, diskErrors>>

(* Mutant: after the last attempt the loop starts over. *)
BulkFailsForEver ==
  /\ pc = "flush"
  /\ resent' = resent \cup Cached
  /\ attempt' = IF attempt < Retry THEN attempt + 1 ELSE 1
  /\ UNCHANGED <<pending, cache, es, file, pc, closing, dumped, testOk, indexFailures,
                 diskErrors>>

(* The upload raises, after Elasticsearch has stored any part of it. *)
BulkFails ==
  /\ pc = "flush"
  /\ \E S \in SUBSET Cached : es' = [d \in Doc |-> IF d \in S THEN es[d] + 1 ELSE es[d]]
  /\ resent' = resent \cup Cached
  /\ \/ attempt < Retry /\ attempt' = attempt + 1 /\ UNCHANGED pc
     \/ attempt = Retry /\ pc' = "dump" /\ UNCHANGED attempt
  /\ UNCHANGED <<pending, cache, file, closing, dumped, testOk, indexFailures, diskErrors>>

DumpItem ==
  /\ pc = "dump"
  /\ dumped < Len(cache)
  /\ file' = [file EXCEPT ![FileOf[cache[dumped + 1]]] = cache[dumped + 1]]
  /\ dumped' = dumped + 1
  /\ UNCHANGED <<pending, cache, es, pc, closing, attempt, testOk, indexFailures, diskErrors,
                 resent>>

(* open or json.dump raises, before or after the file was truncated. *)
DumpRaises ==
  /\ pc = "dump"
  /\ dumped < Len(cache)
  /\ diskErrors < MaxDiskErrors
  /\ diskErrors' = diskErrors + 1
  /\ file' \in {file, [file EXCEPT ![FileOf[cache[dumped + 1]]] = NoDoc]}
  /\ pc' = IF closing THEN "aborted" ELSE "raised"
  /\ UNCHANGED <<pending, cache, es, closing, attempt, dumped, testOk, indexFailures, resent>>

(* Mutant: the last item is left out. *)
DumpDoneEarly ==
  /\ pc = "dump"
  /\ dumped + 1 >= Len(cache)
  /\ FlushReturns(FALSE)
  /\ UNCHANGED <<pending, es, file, closing, attempt, dumped, indexFailures, diskErrors, resent>>

(* Mutant: saving the files counts as success. *)
DumpDoneWell ==
  /\ pc = "dump"
  /\ dumped = Len(cache)
  /\ FlushReturns(TRUE)
  /\ UNCHANGED <<pending, es, file, closing, attempt, dumped, indexFailures, diskErrors, resent>>

DumpDone ==
  /\ pc = "dump"
  /\ dumped = Len(cache)
  /\ FlushReturns(FALSE)
  /\ UNCHANGED <<pending, es, file, closing, attempt, dumped, indexFailures, diskErrors, resent>>

(* The test is over: one index_result that returned False counts as one failure. *)
EndTest ==
  /\ pc = "ready"
  /\ ~testOk
  /\ testOk' = TRUE
  /\ indexFailures' = indexFailures + 1
  /\ UNCHANGED <<pending, cache, es, file, pc, closing, attempt, dumped, diskErrors, resent>>

(* The workload is over, or an exception unwinds it: __del__ flushes. *)
Delete ==
  /\ \/ pc = "ready" /\ pending = {} /\ testOk
     \/ pc = "raised"
  /\ closing' = TRUE
  /\ IF cache = <<>> THEN pc' = "gone" /\ UNCHANGED <<attempt, dumped>> ELSE StartFlush
  /\ UNCHANGED <<pending, cache, es, file, testOk, indexFailures, diskErrors, resent>>

(* Workflow catches the exception and goes on with its next step. *)
Caught ==
  /\ pc = "raised"
  /\ pc' = "ready"
  /\ UNCHANGED <<pending, cache, es, file, closing, attempt, dumped, testOk, indexFailures,
                 diskErrors, resent>>

Over == pc \in {"gone", "aborted"}
Terminated == Over /\ UNCHANGED vars

Step == \/ \E d \in Doc : IndexResult(d)
        \/ BulkSucceeds \/ BulkFails \/ DumpItem \/ DumpRaises \/ DumpDone
        \/ EndTest \/ Delete \/ Caught

Next == Step \/ Terminated

(* Every call returns or raises: the bulk helper and the disk answer in the end. *)
Spec == Init /\ [][Next]_vars /\ WF_vars(Step)

--------------------------------------------------------------------------------
Stored(d) == es[d] > 0 \/ file[FileOf[d]] = d

(***************************************************************************)
(* Unless the last dump itself is refused by the disk, every document that *)
(* was indexed is in Elasticsearch, in its file or still in the cache of a *)
(* living object, through partial uploads, retries, dumps and exceptions.  *)
(***************************************************************************)
EveryDocKept ==
  \A d \in Doc : d \in pending \/ Stored(d) \/ (d \in Cached /\ pc # "gone")

(***************************************************************************)
(* While the workload runs, a document that reached neither Elasticsearch  *)
(* nor the cache again has made its test an indexing failure.              *)
(***************************************************************************)
FailuresReported ==
  ~closing => \A d \in Doc :
    \/ d \in pending \cup Cached
    \/ es[d] > 0
    \/ ~testOk
    \/ indexFailures > 0

(***************************************************************************)
(* A document is stored twice only if it was in an upload that failed.     *)
(***************************************************************************)
DuplicatesAreRetries == \A d \in Doc : es[d] > 1 => d \in resent

(***************************************************************************)
(* The object always goes away: no flush retries for ever, whatever fails. *)
(***************************************************************************)
FlushingEnds == <>Over
================================================================================
