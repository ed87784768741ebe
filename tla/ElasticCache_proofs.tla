-------------------------- MODULE ElasticCache_proofs --------------------------
(***************************************************************************)
(* Proofs about ElasticCache, the comparison that reads beside it and the  *)
(* documents it is given, for any documents, cache size and number of disk *)
(* errors, any tasks and outputs: the type invariants, that documents are  *)
(* kept, failures reported and duplicates explained, that what the         *)
(* comparison prints is so and that the documents tell how a test went.    *)
(* Fairness plays no part: the lemmas are about the uploads without it, so *)
(* that they hold of the uploads a comparison watches, too.                *)
(***************************************************************************)
EXTENDS ElasticComparison, ResultDocuments, FiniteSetTheorems, WellFoundedInduction, TLAPS

Uploading == Init /\ [][Next]_vars

(* The elements of a sequence of documents. *)
Elements(s) == {s[k] : k \in DOMAIN s}

LEMMA ElementsOfAppend ==
  ASSUME NEW s \in Seq(Doc), NEW d \in Doc
  PROVE  Elements(Append(s, d)) = Elements(s) \cup {d}
<1>1. DOMAIN Append(s, d) = 1..Len(s) + 1 /\ DOMAIN s = 1..Len(s) /\ Len(s) \in Nat
  OBVIOUS
<1>2. /\ \A k \in 1..Len(s) : Append(s, d)[k] = s[k]
      /\ Append(s, d)[Len(s) + 1] = d
  OBVIOUS
<1>3. 1..Len(s) + 1 = (1..Len(s)) \cup {Len(s) + 1}
  BY <1>1
<1> QED
  BY <1>1, <1>2, <1>3 DEF Elements

LEMMA ElementsOfEmpty == Elements(<<>>) = {}
BY DEF Elements

LEMMA UploadsType ==
  ASSUME TypeOK, [Next]_vars
  PROVE  TypeOK'
<1> USE CacheAssumption DEF TypeOK, Retry
<1>1. ASSUME NEW d \in Doc, IndexResult(d) PROVE TypeOK'
  BY <1>1 DEF IndexResult, StartFlush
<1>2. CASE BulkSucceeds
  BY <1>2 DEF BulkSucceeds, FlushReturns
<1>3. CASE BulkFails
  <2>1. es' \in [Doc -> Nat]
    BY <1>3 DEF BulkFails
  <2>2. attempt' \in 1..Retry
    BY <1>3 DEF BulkFails
  <2>3. resent' \in SUBSET Doc
    BY <1>3 DEF BulkFails, Cached
  <2>4. pc' \in {"ready", "flush", "dump", "raised", "gone", "aborted"}
    BY <1>3 DEF BulkFails
  <2> QED
    BY <1>3, <2>1, <2>2, <2>3, <2>4 DEF BulkFails
<1>4. CASE DumpItem
  <2>1. cache[dumped + 1] \in Doc
    BY <1>4 DEF DumpItem
  <2> QED
    BY <1>4, <2>1 DEF DumpItem
<1>5. CASE DumpRaises
  BY <1>5 DEF DumpRaises
<1>6. CASE DumpDone
  BY <1>6 DEF DumpDone, FlushReturns
<1>7. CASE EndTest
  BY <1>7 DEF EndTest
<1>8. CASE Delete
  BY <1>8 DEF Delete, StartFlush
<1>9. CASE Caught
  BY <1>9 DEF Caught
<1>10. CASE UNCHANGED vars
  BY <1>10 DEF vars
<1> QED
  BY <1>1, <1>2, <1>3, <1>4, <1>5, <1>6, <1>7, <1>8, <1>9, <1>10 DEF Next, Step, Terminated

LEMMA UploadsKeepTypes == Uploading => []TypeOK
<1>1. Init => TypeOK
  <2> SUFFICES ASSUME Init PROVE TypeOK
    OBVIOUS
  <2>1. cache \in Seq(Doc) /\ attempt \in 1..Retry
    BY DEF Init, Retry
  <2>2. es \in [Doc -> Nat] /\ file \in [FileName -> Doc \cup {NoDoc}]
    BY DEF Init
  <2>3. /\ pending \in SUBSET Doc /\ resent \in SUBSET Doc
        /\ pc \in {"ready", "flush", "dump", "raised", "gone", "aborted"}
        /\ closing \in BOOLEAN /\ testOk \in BOOLEAN
        /\ dumped \in Nat /\ indexFailures \in Nat /\ diskErrors \in Nat
    BY DEF Init
  <2> QED
    BY <2>1, <2>2, <2>3 DEF TypeOK
<1>2. TypeOK /\ [Next]_vars => TypeOK'
  BY UploadsType
<1> QED
  BY <1>1, <1>2, PTL DEF Uploading

(***************************************************************************)
(* Every variable keeps its type.                                          *)
(***************************************************************************)
THEOREM TypeCorrect == Spec => []TypeOK
BY UploadsKeepTypes, PTL DEF Spec, Uploading

--------------------------------------------------------------------------------
LEMMA CachedAfterIndex ==
  ASSUME TypeOK, NEW d \in Doc, IndexResult(d)
  PROVE  Cached' = Cached \cup {d}
<1>1. cache \in Seq(Doc) /\ cache' = Append(cache, d)
  BY DEF TypeOK, IndexResult
<1>2. Cached = Elements(cache) /\ Cached' = Elements(cache')
  BY DEF Cached, Elements
<1> QED
  BY <1>1, <1>2, ElementsOfAppend

LEMMA CachedAfterFlush ==
  ASSUME NEW ok \in BOOLEAN, FlushReturns(ok)
  PROVE  Cached' = {}
BY ElementsOfEmpty DEF FlushReturns, Cached, Elements

LEMMA CachedUnchanged == UNCHANGED cache => UNCHANGED Cached
BY DEF Cached

LEMMA UploadsReportFailures == Uploading => []FailuresReported
<1>1. Init => FailuresReported
  BY DEF Init, FailuresReported
<1>2. TypeOK /\ FailuresReported /\ [Next]_vars => FailuresReported'
  <2> SUFFICES ASSUME TypeOK, FailuresReported, [Next]_vars PROVE FailuresReported'
    OBVIOUS
  <2> USE DEF FailuresReported
  <2>1. ASSUME NEW d \in Doc, IndexResult(d) PROVE FailuresReported'
    <3>1. Cached' = Cached \cup {d}
      BY <2>1, CachedAfterIndex
    <3> QED
      BY <2>1, <3>1 DEF IndexResult
  <2>2. CASE BulkSucceeds
    <3>1. /\ \A d \in Doc : es[d] \in Nat
          /\ \A d \in Doc : es'[d] = IF d \in Cached THEN es[d] + 1 ELSE es[d]
      BY <2>2 DEF BulkSucceeds, TypeOK
    <3>2. \A d \in Doc : (es[d] > 0 \/ d \in Cached) => es'[d] > 0
      BY <3>1
    <3> QED
      BY <2>2, <3>2 DEF BulkSucceeds, FlushReturns
  <2>3. CASE BulkFails
    <3>1. \A d \in Doc : es[d] > 0 => es'[d] > 0
      BY <2>3 DEF BulkFails, TypeOK
    <3>2. UNCHANGED Cached
      BY <2>3, CachedUnchanged DEF BulkFails
    <3> QED
      BY <2>3, <3>1, <3>2 DEF BulkFails
  <2>4. CASE DumpItem
    BY <2>4, CachedUnchanged DEF DumpItem
  <2>5. CASE DumpRaises
    BY <2>5, CachedUnchanged DEF DumpRaises
  <2>6. CASE DumpDone
    BY <2>6 DEF DumpDone, FlushReturns
  <2>7. CASE EndTest
    BY <2>7 DEF EndTest, TypeOK
  <2>8. CASE Delete
    BY <2>8 DEF Delete
  <2>9. CASE Caught
    BY <2>9, CachedUnchanged DEF Caught
  <2>10. CASE UNCHANGED vars
    BY <2>10, CachedUnchanged DEF vars
  <2> QED
    BY <2>1, <2>2, <2>3, <2>4, <2>5, <2>6, <2>7, <2>8, <2>9, <2>10 DEF Next, Step, Terminated
<1> QED
  BY <1>1, <1>2, UploadsKeepTypes, PTL DEF Uploading

(***************************************************************************)
(* While the workload runs, a document that is lost to Elasticsearch has   *)
(* made its test an indexing failure: the invariant is inductive as it     *)
(* stands, because flush_cache returns False exactly when both uploads     *)
(* failed.                                                                 *)
(***************************************************************************)
THEOREM FailuresAreReported == Spec => []FailuresReported
BY UploadsReportFailures, PTL DEF Spec, Uploading

--------------------------------------------------------------------------------
(* A document that was uploaded and is cached again, or still, is one of a failed upload. *)
UploadHistory ==
  \A d \in Doc : /\ d \in pending => es[d] = 0 /\ d \notin Cached
                 /\ d \in Cached /\ es[d] > 0 => d \in resent
                 /\ es[d] > 1 => d \in resent

LEMMA UploadsRepeatOnFailure == Uploading => []DuplicatesAreRetries
<1>1. Init => UploadHistory
  <2> SUFFICES ASSUME Init PROVE UploadHistory
    OBVIOUS
  <2>1. Cached = {}
    BY ElementsOfEmpty DEF Init, Cached, Elements
  <2>2. ASSUME NEW d \in Doc PROVE es[d] = 0
    BY DEF Init
  <2>3. ASSUME NEW n, n = 0 PROVE ~(n > 1)
    BY <2>3
  <2> QED
    BY <2>1, <2>2, <2>3 DEF UploadHistory
<1>2. TypeOK /\ UploadHistory /\ [Next]_vars => UploadHistory'
  <2> SUFFICES ASSUME TypeOK, UploadHistory, [Next]_vars PROVE UploadHistory'
    OBVIOUS
  <2> USE DEF UploadHistory
  <2>1. ASSUME NEW d \in Doc, IndexResult(d) PROVE UploadHistory'
    <3>1. Cached' = Cached \cup {d}
      BY <2>1, CachedAfterIndex
    <3>2. /\ d \in pending /\ pending' = pending \ {d}
          /\ UNCHANGED <<es, resent>>
      BY <2>1 DEF IndexResult
    <3> QED
      BY <3>1, <3>2
  <2>2. CASE BulkSucceeds
    <3>1. \A d \in Doc : es'[d] = IF d \in Cached THEN es[d] + 1 ELSE es[d]
      BY <2>2 DEF BulkSucceeds
    <3>2. Cached' = {}
      BY <2>2, CachedAfterFlush DEF BulkSucceeds
    <3>3. \A d \in Doc : es[d] \in Nat
      BY DEF TypeOK
    <3> QED
      BY <2>2, <3>1, <3>2, <3>3 DEF BulkSucceeds
  <2>3. CASE BulkFails
    <3>1. PICK S \in SUBSET Cached :
             es' = [d \in Doc |-> IF d \in S THEN es[d] + 1 ELSE es[d]]
      BY <2>3 DEF BulkFails
    <3>2. \A d \in Doc : es'[d] = es[d] \/ d \in Cached
      BY <3>1
    <3>3. resent' = resent \cup Cached /\ UNCHANGED <<pending, Cached>>
      BY <2>3, CachedUnchanged DEF BulkFails
    <3> QED
      BY <3>2, <3>3
  <2>4. CASE DumpItem
    BY <2>4, CachedUnchanged DEF DumpItem
  <2>5. CASE DumpRaises
    BY <2>5, CachedUnchanged DEF DumpRaises
  <2>6. CASE DumpDone
    BY <2>6, CachedAfterFlush DEF DumpDone
  <2>7. CASE EndTest
    BY <2>7, CachedUnchanged DEF EndTest
  <2>8. CASE Delete
    BY <2>8, CachedUnchanged DEF Delete
  <2>9. CASE Caught
    BY <2>9, CachedUnchanged DEF Caught
  <2>10. CASE UNCHANGED vars
    BY <2>10, CachedUnchanged DEF vars
  <2> QED
    BY <2>1, <2>2, <2>3, <2>4, <2>5, <2>6, <2>7, <2>8, <2>9, <2>10 DEF Next, Step, Terminated
<1>3. UploadHistory => DuplicatesAreRetries
  BY DEF UploadHistory, DuplicatesAreRetries
<1> QED
  BY <1>1, <1>2, <1>3, UploadsKeepTypes, PTL DEF Uploading

(***************************************************************************)
(* Only a retry stores a document twice.                                   *)
(***************************************************************************)
THEOREM DuplicatesOnlyByRetry == Spec => []DuplicatesAreRetries
BY UploadsRepeatOnFailure, PTL DEF Spec, Uploading

--------------------------------------------------------------------------------
(* No two documents are dumped to one file: so Shaker names them, by record. *)
OwnFiles == \A a, b \in Doc : FileOf[a] = FileOf[b] => a = b

(* What flush_cache has written so far of its cache is still there. *)
DumpProgress ==
  /\ pc = "flush" => dumped = 0
  /\ pc = "dump" => /\ dumped <= Len(cache)
                    /\ \A k \in 1..dumped : file[FileOf[cache[k]]] = cache[k]

KeptInv == TypeOK /\ EveryDocKept /\ DumpProgress

LEMMA KeptStep ==
  ASSUME OwnFiles, KeptInv, [Next]_vars
  PROVE  EveryDocKept' /\ DumpProgress'
<1> USE DEF KeptInv, EveryDocKept, DumpProgress, Stored
<1>1. ASSUME NEW d \in Doc, IndexResult(d) PROVE EveryDocKept' /\ DumpProgress'
  <2>1. Cached' = Cached \cup {d}
    BY <1>1, CachedAfterIndex
  <2>2. pc' \in {"ready", "flush"} /\ (pc' = "flush" => dumped' = 0)
    BY <1>1 DEF IndexResult, StartFlush
  <2> QED
    BY <1>1, <2>1, <2>2 DEF IndexResult
<1>2. CASE BulkSucceeds
  <2>1. /\ \A d \in Doc : es[d] \in Nat
        /\ \A d \in Doc : es'[d] = IF d \in Cached THEN es[d] + 1 ELSE es[d]
    BY <1>2 DEF BulkSucceeds, TypeOK
  <2>2. \A d \in Doc : (es[d] > 0 \/ d \in Cached) => es'[d] > 0
    BY <2>1
  <2>3. UNCHANGED <<pending, file>> /\ pc' \in {"gone", "ready"}
    BY <1>2 DEF BulkSucceeds, FlushReturns
  <2> QED
    BY <2>2, <2>3
<1>3. CASE BulkFails
  <2>1. \A d \in Doc : es[d] > 0 => es'[d] > 0
    BY <1>3 DEF BulkFails, TypeOK
  <2>2. UNCHANGED <<pending, file, cache, dumped, Cached>>
    BY <1>3, CachedUnchanged DEF BulkFails
  <2>3. dumped = 0 /\ pc' \in {"flush", "dump"} /\ pc = "flush"
    BY <1>3 DEF BulkFails
  <2>4. EveryDocKept'
    BY <2>1, <2>2, <2>3
  <2>5. DumpProgress'
    BY <2>2, <2>3 DEF TypeOK
  <2> QED
    BY <2>4, <2>5
<1>4. CASE DumpItem
  <2> DEFINE c == cache[dumped + 1]
  <2>1. dumped + 1 \in 1..Len(cache) /\ dumped \in Nat /\ Len(cache) \in Nat
    BY <1>4 DEF DumpItem, TypeOK
  <2>2. c \in Doc
    BY <2>1 DEF TypeOK
  <2>3. /\ file' = [file EXCEPT ![FileOf[c]] = c]
        /\ dumped' = dumped + 1
        /\ UNCHANGED <<pending, cache, es, pc, Cached>>
    BY <1>4, CachedUnchanged DEF DumpItem
  <2>4. FileOf[c] \in FileName /\ file \in [FileName -> Doc \cup {NoDoc}]
    BY <2>2, CacheAssumption DEF TypeOK
  <2> HIDE DEF c
  <2>5. file'[FileOf[c]] = c /\ \A d \in Doc : d # c => file'[FileOf[d]] = file[FileOf[d]]
    BY <2>2, <2>3, <2>4, CacheAssumption DEF OwnFiles
  <2>6. EveryDocKept'
    BY <2>3, <2>5
  <2>7. ASSUME NEW k \in 1..dumped' PROVE file'[FileOf[cache[k]]] = cache[k]
    <3>1. CASE k = dumped + 1
      BY <3>1, <2>5 DEF c
    <3>2. CASE k \in 1..dumped
      <4>1. cache[k] \in Doc
        BY <3>2, <2>1 DEF TypeOK
      <4>2. file[FileOf[cache[k]]] = cache[k]
        BY <3>2, <1>4 DEF DumpItem
      <4> QED
        BY <4>1, <4>2, <2>5
    <3> QED
      BY <3>1, <3>2, <2>1, <2>3
  <2>8. DumpProgress'
    BY <2>1, <2>3, <2>7, <1>4 DEF DumpItem
  <2> QED
    BY <2>6, <2>8
<1>5. CASE DumpRaises
  <2> DEFINE c == cache[dumped + 1]
  <2>1. dumped + 1 \in 1..Len(cache)
    BY <1>5 DEF DumpRaises, TypeOK
  <2>2. c \in Doc /\ c \in Cached
    BY <2>1 DEF TypeOK, Cached
  <2>3. /\ file' \in {file, [file EXCEPT ![FileOf[c]] = NoDoc]}
        /\ UNCHANGED <<pending, es, Cached>>
        /\ pc' \in {"aborted", "raised"}
    BY <1>5, CachedUnchanged DEF DumpRaises
  <2> HIDE DEF c
  <2>4. FileOf \in [Doc -> FileName] /\ file \in [FileName -> Doc \cup {NoDoc}]
    BY CacheAssumption DEF TypeOK
  <2>5. \A d \in Doc : d # c => file'[FileOf[d]] = file[FileOf[d]]
    BY <2>2, <2>3, <2>4 DEF OwnFiles
  <2>6. pc = "dump"
    BY <1>5 DEF DumpRaises
  <2> QED
    BY <2>2, <2>3, <2>5, <2>6
<1>6. CASE DumpDone
  <2>1. \A d \in Cached : file[FileOf[d]] = d
    BY <1>6 DEF DumpDone, Cached, TypeOK
  <2>2. UNCHANGED <<pending, es, file>> /\ pc' \in {"gone", "ready"}
    BY <1>6 DEF DumpDone, FlushReturns
  <2> QED
    BY <2>1, <2>2
<1>7. CASE EndTest
  BY <1>7, CachedUnchanged DEF EndTest
<1>8. CASE Delete
  <2>1. UNCHANGED <<pending, cache, es, file, Cached>>
    BY <1>8, CachedUnchanged DEF Delete
  <2>2. cache = <<>> => Cached = {}
    BY ElementsOfEmpty DEF Cached, Elements
  <2>3. \/ cache = <<>> /\ pc' = "gone"
        \/ pc' = "flush" /\ dumped' = 0
    BY <1>8 DEF Delete, StartFlush
  <2> QED
    BY <2>1, <2>2, <2>3
<1>9. CASE Caught
  BY <1>9, CachedUnchanged DEF Caught
<1>10. CASE UNCHANGED vars
  BY <1>10, CachedUnchanged DEF vars
<1> QED
  BY <1>1, <1>2, <1>3, <1>4, <1>5, <1>6, <1>7, <1>8, <1>9, <1>10 DEF Next, Step, Terminated

LEMMA UploadsKeepDocs == OwnFiles => (Uploading => []EveryDocKept)
<1> SUFFICES ASSUME OwnFiles PROVE Uploading => []EveryDocKept
  OBVIOUS
<1>1. Init => EveryDocKept /\ DumpProgress
  BY DEF Init, EveryDocKept, DumpProgress
<1>2. TypeOK /\ (EveryDocKept /\ DumpProgress) /\ [Next]_vars => (EveryDocKept /\ DumpProgress)'
  BY KeptStep DEF KeptInv
<1> QED
  BY <1>1, <1>2, UploadsKeepTypes, PTL DEF Uploading

(***************************************************************************)
(* With a file for each document, as Shaker names them, no document is     *)
(* lost but by a dump the disk refuses: the induction needs to know what   *)
(* the dump has written so far.                                            *)
(***************************************************************************)
THEOREM DocsAreKept == OwnFiles => (Spec => []EveryDocKept)
BY UploadsKeepDocs, PTL DEF Spec, Uploading

--------------------------------------------------------------------------------
(* The comparison reads; the uploads it watches are those of ElasticCache. *)
LEMMA ReaderOnlyReads == [ComparisonNext]_comparisonVars => [Next]_vars
BY DEF ComparisonNext, Upload, ReadResults, ReadErrors, Terminated, comparisonVars, Next

LEMMA ComparisonIsUploading == ComparisonSpec => Uploading
<1>1. ComparisonInit => Init
  BY DEF ComparisonInit
<1> QED
  BY <1>1, ReaderOnlyReads, PTL DEF ComparisonSpec, Uploading

(***************************************************************************)
(* A comparison at any time leaves to the uploads what holds of them        *)
(* whatever their documents' files are called, one name for all those of a  *)
(* Rally test included: no failure unreported, no duplicate unexplained.    *)
(***************************************************************************)
THEOREM UploadsUndisturbed == ComparisonSpec => [](FailuresReported /\ DuplicatesAreRetries)
BY ComparisonIsUploading, UploadsReportFailures, UploadsRepeatOnFailure, PTL

(* The documents of each index read are as often in it as they are there. *)
LEMMA HitsType ==
  ASSUME TypeOK, NEW docs
  PROVE  /\ Hits(docs) \in [AllDocs -> Nat]
         /\ \A d \in Doc : Hits(docs)[d] = IF d \in docs THEN es[d] ELSE 0
         /\ \A d \in OldDoc : Hits(docs)[d] = IF d \in docs THEN 1 ELSE 0
<1>1. \A d \in AllDocs : d \notin OldDoc => d \in Doc /\ es[d] \in Nat
  BY DEF AllDocs, TypeOK
<1>2. \A d \in Doc : d \notin OldDoc /\ d \in AllDocs
  BY AttrAssumption DEF AllDocs
<1>3. \A d \in OldDoc : d \in AllDocs
  BY DEF AllDocs
<1> QED
  BY <1>1, <1>2, <1>3 DEF Hits

(***************************************************************************)
(* Every variable of the comparison keeps its type.                        *)
(***************************************************************************)
THEOREM ComparisonTypeCorrect == ComparisonSpec => []ComparisonTypeOK
<1>1. ComparisonInit => ReaderTypeOK
  <2> SUFFICES ASSUME ComparisonInit PROVE ReaderTypeOK
    OBVIOUS
  <2>1. Nothing \in [AllDocs -> Nat] /\ {} \in SUBSET Doc
    BY DEF Nothing
  <2> QED
    BY <2>1 DEF ComparisonInit, ReaderTypeOK
<1>2. TypeOK /\ ReaderTypeOK /\ [ComparisonNext]_comparisonVars => ReaderTypeOK'
  <2> SUFFICES ASSUME TypeOK, ReaderTypeOK, [ComparisonNext]_comparisonVars
               PROVE  ReaderTypeOK'
    OBVIOUS
  <2> USE DEF ReaderTypeOK
  <2>1. CASE Upload
    <3>1. late' \in SUBSET Doc
      BY <2>1 DEF Upload
    <3> QED
      BY <2>1, <3>1 DEF Upload
  <2>2. ASSUME NEW combine \in BOOLEAN, ReadResults(combine) PROVE ReaderTypeOK'
    BY <2>2, HitsType DEF ReadResults
  <2>3. CASE ReadErrors
    BY <2>3, HitsType DEF ReadErrors
  <2>4. CASE UNCHANGED readerVars
    BY <2>4 DEF readerVars
  <2> QED
    BY <2>1, <2>2, <2>3, <2>4 DEF ComparisonNext, comparisonVars
<1> QED
  BY <1>1, <1>2, ComparisonIsUploading, UploadsKeepTypes, PTL DEF ComparisonSpec, ComparisonTypeOK

--------------------------------------------------------------------------------
LEMMA ResentGrows ==
  ASSUME [Next]_vars
  PROVE  resent \subseteq resent'
BY DEF Next, Step, IndexResult, BulkSucceeds, BulkFails, DumpItem, DumpRaises, DumpDone, EndTest,
       Delete, Caught, Terminated, vars

(* What was read is what there was then.  Past the digest no result read is an *)
(* error, and an error that is there has come since.                           *)
ReadTruly ==
  /\ \A d \in Doc : data[d] > 1 => d \in resent
  /\ reader \in {"digested", "printed"} => \A d \in OldDoc : ~Attr[d].error
  /\ reader = "digested" => \A d \in Doc : Attr[d].error /\ es[d] > 0 => d \in late
  /\ reader = "printed" => \A d \in AllDocs : errors[d] > 0 => d \in late

LEMMA ReadTrulyStep ==
  ASSUME TypeOK, ReaderTypeOK, DuplicatesAreRetries, ReadTruly, [ComparisonNext]_comparisonVars
  PROVE  ReadTruly'
<1>1. resent \subseteq resent'
  BY ReaderOnlyReads, ResentGrows
<1>2. CASE Upload
  <2>1. UNCHANGED <<reader, data, errors>>
    BY <1>2 DEF Upload
  <2>2. late \subseteq late' /\ (reader = "printed" => late' = late)
    BY <1>2 DEF Upload
  <2>3. ASSUME reader = "digested", NEW d \in Doc, Attr[d].error, es'[d] > 0
        PROVE  d \in late'
    <3>1. CASE es'[d] > es[d]
      BY <3>1, <2>3, <1>2 DEF Upload
    <3>2. CASE ~(es'[d] > es[d])
      <4>1. es[d] \in Nat /\ es'[d] \in Nat
        <5>1. TypeOK'
          BY ReaderOnlyReads, UploadsType
        <5> QED
          BY <5>1 DEF TypeOK
      <4>2. es[d] > 0
        BY <2>3, <3>2, <4>1
      <4> QED
        BY <4>2, <2>3, <2>2 DEF ReadTruly
    <3> QED
      BY <3>1, <3>2
  <2> QED
    BY <1>1, <2>1, <2>2, <2>3 DEF ReadTruly
<1>3. ASSUME NEW combine \in BOOLEAN, ReadResults(combine) PROVE ReadTruly'
  <2>1. UNCHANGED <<es, resent, errors, late>>
    BY <1>3 DEF ReadResults, vars
  <2>2. CASE reader' = "raised" /\ UNCHANGED data
    BY <2>1, <2>2, <1>3 DEF ReadTruly
  <2>3. CASE reader' = "digested" /\ data' = Hits(AllDocs) /\ Digests(Hits(AllDocs))
    <3>1. /\ \A d \in Doc : d \in AllDocs /\ data'[d] = es[d]
          /\ \A d \in OldDoc : d \in AllDocs /\ data'[d] = 1
      BY <2>3, HitsType DEF AllDocs
    <3>2. \A d \in AllDocs : Attr[d].error => data'[d] = 0
      BY <2>3 DEF Digests
    <3>3. \A d \in OldDoc : ~Attr[d].error
      BY <3>1, <3>2
    <3>4. \A d \in Doc : Attr[d].error => ~(es[d] > 0)
      <4> SUFFICES ASSUME NEW d \in Doc, Attr[d].error PROVE ~(es[d] > 0)
        OBVIOUS
      <4>1. es[d] = 0
        BY <3>1, <3>2
      <4> QED
        BY <4>1
    <3>5. \A d \in Doc : data'[d] > 1 => d \in resent
      BY <3>1 DEF DuplicatesAreRetries
    <3> QED
      BY <2>1, <2>3, <3>3, <3>4, <3>5 DEF ReadTruly
  <2> QED
    BY <2>2, <2>3, <1>3 DEF ReadResults
<1>4. CASE ReadErrors
  <2>1. reader = "digested" /\ reader' = "printed" /\ UNCHANGED <<es, resent, data, late>>
    BY <1>4 DEF ReadErrors, vars
  <2>2. ASSUME NEW d \in AllDocs, errors'[d] > 0 PROVE d \in late
    <3> DEFINE failed == {e \in AllDocs : Attr[e].error}
    <3>1. errors' = Hits(failed)
      BY <1>4 DEF ReadErrors
    <3>2. d \in Doc => d \in failed /\ es[d] > 0
      BY <3>1, <2>2, HitsType
    <3>3. d \in OldDoc => d \in failed
      BY <3>1, <2>2, HitsType
    <3> QED
      BY <2>1, <3>2, <3>3 DEF ReadTruly, AllDocs
  <2> QED
    BY <2>1, <2>2 DEF ReadTruly
<1>5. CASE UNCHANGED comparisonVars
  BY <1>5 DEF ReadTruly, comparisonVars, readerVars, vars
<1> QED
  BY <1>2, <1>3, <1>4, <1>5 DEF ComparisonNext, Terminated, comparisonVars

LEMMA TrueReadingsAreHonest ==
  ASSUME ReadTruly
  PROVE  ComparisonIsHonest
<1> SUFFICES ASSUME reader = "printed" PROVE ComparisonIsHonest
  BY DEF ComparisonIsHonest
<1>1. ASSUME NEW docs \in {Doc, OldDoc}, NEW key \in Rows PROVE ErrorsOf(docs, key) \subseteq late
  BY DEF ErrorsOf, ReadTruly, AllDocs
<1>2. ASSUME NEW d \in Summarized(OldDoc)
      PROVE  \/ Key(d) \in Rows
             \/ Attr[d].scenario \in Missing
             \/ \E e \in Summarized(Doc) : Attr[e].scenario = Attr[d].scenario /\ Key(e) # Key(d)
  <2>1. CASE Attr[d].scenario \notin {Attr[e].scenario : e \in Summarized(Doc)}
    BY <2>1 DEF Missing
  <2>2. ASSUME NEW e \in Summarized(Doc), Attr[e].scenario = Attr[d].scenario
        PROVE  Key(d) \in Rows \/ Key(e) # Key(d)
    BY <2>2 DEF Rows, KeysOf
  <2> QED
    BY <2>1, <2>2
<1> QED
  BY <1>1, <1>2 DEF ReadTruly, ComparisonIsHonest

(***************************************************************************)
(* What a comparison prints is so, at whatever time of the uploads it      *)
(* reads: its rows count errors only of documents that came between its    *)
(* two readings, a document counts twice only after a failed upload, and   *)
(* what has no row is accounted for.  The induction needs that an error    *)
(* already there makes the first reading raise.                            *)
(***************************************************************************)
THEOREM ComparisonHonest == ComparisonSpec => []ComparisonIsHonest
<1>1. ComparisonInit => ReadTruly
  <2> SUFFICES ASSUME ComparisonInit PROVE ReadTruly
    OBVIOUS
  <2>1. \A d \in Doc : data[d] = 0
    BY DEF ComparisonInit, Nothing, AllDocs
  <2> QED
    BY <2>1 DEF ComparisonInit, ReadTruly
<1>2. TypeOK /\ ReaderTypeOK /\ DuplicatesAreRetries /\ ReadTruly
      /\ [ComparisonNext]_comparisonVars => ReadTruly'
  BY ReadTrulyStep
<1>3. ComparisonTypeOK => TypeOK /\ ReaderTypeOK
  BY DEF ComparisonTypeOK
<1>4. ReadTruly => ComparisonIsHonest
  BY TrueReadingsAreHonest
<1> QED
  BY <1>1, <1>2, <1>3, <1>4, ComparisonTypeCorrect, ComparisonIsUploading, UploadsRepeatOnFailure,
     PTL DEF ComparisonSpec

--------------------------------------------------------------------------------
(* The documents of a test: json_parse and send_to_elastic are loops, FoldLeft   *)
(* in ResultDocuments.  That one invariant holds after every turn goes by the    *)
(* least turn where it does not, as an induction over data has to without the    *)
(* theorems that take an operator.                                               *)
LEMMA Least ==
  ASSUME NEW T \in SUBSET Nat, T # {}
  PROVE  \E m \in T : \A k \in T : k >= m
<1>1. PICK m \in T : \A k \in T : <<k, m>> \notin OpToRel(<, Nat)
  BY WFMin, NatLessThanWellFounded
<1>2. \A k \in T : ~(k < m)
  BY <1>1 DEF OpToRel
<1> QED
  BY <1>2

(* A property of the first turn that each turn hands on is one of every turn. *)
LEMMA UpTo ==
  ASSUME NEW n \in Nat, NEW T, 0 \in T, \A k \in 0..n - 1 : k \in T => k + 1 \in T
  PROVE  \A k \in 0..n : k \in T
<1> SUFFICES ASSUME NEW j \in 0..n, j \notin T PROVE FALSE
  OBVIOUS
<1> DEFINE Missed == {k \in 0..n : k \notin T}
<1>1. PICK m \in Missed : \A k \in Missed : k >= m
  <2>1. Missed \in SUBSET Nat /\ j \in Missed
    OBVIOUS
  <2> QED
    BY <2>1, Least
<1>2. m - 1 \in 0..n - 1 /\ m - 1 \notin Missed
  BY <1>1
<1> QED
  BY <1>1, <1>2

LEMMA MaxIn ==
  ASSUME NEW n \in Nat, NEW s \in SUBSET (1..n), s # {}
  PROVE  Max(s) \in s /\ \A x \in s : x <= Max(s)
<1> DEFINE T == {k \in Nat : \E x \in s : x = n - k}
<1>1. T \in SUBSET Nat /\ T # {}
  <2>1. PICK x \in s : TRUE
    OBVIOUS
  <2>2. n - x \in Nat /\ x = n - (n - x)
    OBVIOUS
  <2> QED
    BY <2>2
<1>2. PICK m \in T : \A k \in T : k >= m
  BY <1>1, Least
<1>3. n - m \in s
  BY <1>2
<1>4. ASSUME NEW x \in s PROVE n - m >= x
  <2>1. n - x \in Nat /\ x = n - (n - x)
    OBVIOUS
  <2>2. n - x \in T
    BY <2>1
  <2> QED
    BY <1>2, <2>2
<1>5. \E x \in s : \A y \in s : x >= y
  BY <1>3, <1>4
<1> QED
  BY <1>5 DEF Max

(* h[s]: what op makes of base over the members of s, the largest last, as FoldLeft does it. *)
Folded(h, m, base, op) ==
  \A s \in SUBSET (1..m) : h[s] = IF s = {} THEN base ELSE op[Max(s)][h[s \ {Max(s)}]]

(* The function that a fold chooses exists, for one member more and so for any number. *)
LEMMA FoldMore ==
  ASSUME NEW n \in Nat, NEW State, NEW base \in State, NEW op \in [1..n -> [State -> State]],
         NEW m \in 0..n - 1, NEW h \in [SUBSET (1..m) -> State], Folded(h, m, base, op)
  PROVE  \E g \in [SUBSET (1..m + 1) -> State] : Folded(g, m + 1, base, op)
<1> DEFINE G(s) == IF m + 1 \in s THEN op[m + 1][h[s \ {m + 1}]] ELSE h[s]
           g == [s \in SUBSET (1..m + 1) |-> G(s)]
<1>1. m + 1 \in 1..n
  OBVIOUS
<1>2. ASSUME NEW s \in SUBSET (1..m + 1) PROVE s \ {m + 1} \in SUBSET (1..m)
  OBVIOUS
<1>3. ASSUME NEW s \in SUBSET (1..m + 1), m + 1 \notin s PROVE s \in SUBSET (1..m)
  BY <1>2, <1>3
<1>4. ASSUME NEW s \in SUBSET (1..m + 1) PROVE G(s) \in State
  <2>1. CASE m + 1 \in s
    <3>1. h[s \ {m + 1}] \in State
      BY <1>2
    <3>2. op[m + 1] \in [State -> State]
      BY <1>1
    <3> QED
      BY <2>1, <3>1, <3>2
  <2>2. CASE m + 1 \notin s
    BY <1>3, <2>2
  <2> QED
    BY <2>1, <2>2
<1>5. g \in [SUBSET (1..m + 1) -> State]
  BY <1>4
<1>6. ASSUME NEW s \in SUBSET (1..m + 1)
      PROVE  g[s] = IF s = {} THEN base ELSE op[Max(s)][g[s \ {Max(s)}]]
  <2>1. CASE m + 1 \in s
    <3>1. Max(s) = m + 1
      <4>1. m + 1 \in s /\ \A y \in s : m + 1 >= y
        BY <2>1
      <4>2. ASSUME NEW x \in s, \A y \in s : x >= y PROVE x = m + 1
        BY <2>1, <4>2
      <4> QED
        BY <4>1, <4>2, Zenon DEF Max
    <3>2. s \ {m + 1} \in SUBSET (1..m) /\ s \ {m + 1} \in SUBSET (1..m + 1)
      BY <1>2
    <3>3. g[s \ {m + 1}] = h[s \ {m + 1}]
      BY <3>2
    <3> QED
      BY <2>1, <3>1, <3>3
  <2>2. CASE m + 1 \notin s
    <3>1. s \in SUBSET (1..m)
      BY <1>3, <2>2
    <3>2. g[s] = h[s] /\ h[s] = IF s = {} THEN base ELSE op[Max(s)][h[s \ {Max(s)}]]
      BY <2>2, <3>1 DEF Folded
    <3>3. m + 1 \notin s \ {Max(s)} /\ s \ {Max(s)} \in SUBSET (1..m + 1)
      BY <2>2
    <3>4. g[s \ {Max(s)}] = h[s \ {Max(s)}]
      BY <3>3
    <3> QED
      BY <3>2, <3>4
  <2> QED
    BY <2>1, <2>2
<1> HIDE DEF g
<1>7. Folded(g, m + 1, base, op)
  BY <1>6 DEF Folded
<1> QED
  BY <1>5, <1>7

LEMMA FoldExists ==
  ASSUME NEW n \in Nat, NEW State, NEW base \in State, NEW op \in [1..n -> [State -> State]]
  PROVE  \E h \in [SUBSET (1..n) -> State] : Folded(h, n, base, op)
<1> DEFINE T == {m \in 0..n : \E h \in [SUBSET (1..m) -> State] : Folded(h, m, base, op)}
<1>1. 0 \in T
  <2>1. SUBSET (1..0) = {{}}
    OBVIOUS
  <2> DEFINE h0 == [s \in SUBSET (1..0) |-> base]
  <2>2. h0 \in [SUBSET (1..0) -> State]
    OBVIOUS
  <2>3. Folded(h0, 0, base, op)
    BY <2>1 DEF Folded
  <2> QED
    BY <2>2, <2>3
<1>2. ASSUME NEW m \in 0..n - 1, m \in T PROVE m + 1 \in T
  <2>1. PICK h \in [SUBSET (1..m) -> State] : Folded(h, m, base, op)
    BY <1>2
  <2>2. \E g \in [SUBSET (1..m + 1) -> State] : Folded(g, m + 1, base, op)
    BY <2>1, FoldMore
  <2>3. m + 1 \in 0..n
    OBVIOUS
  <2> QED
    BY <2>2, <2>3
<1>3. n \in T
  <2> HIDE DEF T
  <2>1. \A k \in 0..n - 1 : k \in T => k + 1 \in T
    BY <1>2
  <2>2. \A k \in 0..n : k \in T
    BY <1>1, <2>1, UpTo
  <2> QED
    BY <2>2
<1> QED
  BY <1>3

(* A fold from the left goes through the sequence turn by turn. *)
Turns(r, m, base, op) == /\ r[0] = base
                         /\ \A k \in 1..m : r[k] = op[k][r[k - 1]]

LEMMA FoldedByTurns ==
  ASSUME NEW n \in Nat, NEW State, NEW base \in State, NEW op \in [1..n -> [State -> State]],
         NEW h, h[{}] = base,
         \A s \in SUBSET (1..n) : s # {} /\ h[s \ {Max(s)}] \in State
                                  => h[s] = op[Max(s)][h[s \ {Max(s)}]]
  PROVE  \E r \in [0..n -> State] : r[n] = h[1..n] /\ Turns(r, n, base, op)
<1> DEFINE r == [k \in 0..n |-> h[1..k]]
           T == {k \in 0..n : h[1..k] \in State}
<1>1. h[1..0] = base
  BY 1..0 = {}
<1>2. ASSUME NEW k \in 1..n, h[1..k - 1] \in State PROVE h[1..k] = op[k][h[1..k - 1]]
  <2>1. Max(1..k) = k
    <3>1. k \in 1..k /\ \A y \in 1..k : k >= y
      OBVIOUS
    <3>2. ASSUME NEW x \in 1..k, \A y \in 1..k : x >= y PROVE x = k
      BY <3>1, <3>2
    <3> QED
      BY <3>1, <3>2, Zenon DEF Max
  <2>2. (1..k) \ {k} = 1..k - 1
    <3>1. \A x \in Int : x \in (1..k) \ {k} <=> x \in 1..k - 1
      OBVIOUS
    <3> QED
      BY <3>1
  <2>3. 1..k # {} /\ 1..k \in SUBSET (1..n)
    <3>1. k \in 1..k
      OBVIOUS
    <3>2. \A x \in 1..k : x \in 1..n
      OBVIOUS
    <3> QED
      BY <3>1, <3>2
  <2> QED
    BY <1>2, <2>1, <2>2, <2>3
<1>3. ASSUME NEW k \in 0..n - 1, k \in T PROVE k + 1 \in T
  <2>1. k + 1 \in 1..n /\ (k + 1) - 1 = k
    OBVIOUS
  <2>2. h[1..k + 1] = op[k + 1][h[1..k]]
    BY <1>2, <1>3, <2>1
  <2>3. op[k + 1] \in [State -> State]
    BY <2>1
  <2> QED
    BY <1>3, <2>1, <2>2, <2>3
<1>4. \A k \in 0..n : k \in T
  <2>1. 0 \in T
    BY <1>1
  <2>2. \A k \in 0..n - 1 : k \in T => k + 1 \in T
    BY <1>3
  <2> HIDE DEF T
  <2> QED
    BY <2>1, <2>2, UpTo
<1>5. r \in [0..n -> State] /\ r[n] = h[1..n]
  BY <1>4
<1>6. Turns(r, n, base, op)
  <2>1. r[0] = base
    BY <1>1
  <2>2. ASSUME NEW k \in 1..n PROVE r[k] = op[k][r[k - 1]]
    <3>1. k \in 0..n /\ k - 1 \in 0..n
      OBVIOUS
    <3> QED
      BY <1>2, <1>4, <3>1
  <2> HIDE DEF r
  <2> QED
    BY <2>1, <2>2 DEF Turns
<1> HIDE DEF r
<1> QED
  BY <1>5, <1>6

--------------------------------------------------------------------------------
(* The loop of json_parse. *)
Start == [value |-> NoName, raw |-> [a \in Name \ ListName |-> 0], errors |-> <<>>,
          raised |-> FALSE]
Readings == [value : Name \cup {NoName}, raw : [Name \ ListName -> Nat],
             errors : Seq(Name \cup {NoName}), raised : BOOLEAN]

LEMMA ParsesOn ==
  ASSUME NEW read \in Readings, NEW iteration \in Iteration
  PROVE  ParseIteration(read, iteration) \in Readings
<1> DEFINE value == IF iteration.names = <<>> THEN read.value ELSE Last(iteration.names)
<1>1. value \in Name \cup {NoName}
  BY DEF Readings, Iteration, Last
<1>2. /\ Append(read.errors, value) \in Seq(Name \cup {NoName})
      /\ read.errors \in Seq(Name \cup {NoName})
  BY <1>1 DEF Readings
<1>3. \A a \in Name \ ListName :
        read.raw[a] + (IF a \in Values(iteration.names) THEN 1 ELSE 0) \in Nat
  BY DEF Readings
<1>4. (iteration.failed /\ value = NoName) \in BOOLEAN
  OBVIOUS
<1> HIDE DEF value
<1> QED
  BY <1>1, <1>2, <1>3, <1>4 DEF Readings, Iteration, ParseIteration, value

RallyFold(task) ==
  CHOOSE h : h = [s \in SUBSET DOMAIN task |->
                    IF s = {} THEN Start ELSE ParseIteration(h[s \ {Max(s)}], task[Max(s)])]

LEMMA JsonParseFolds ==
  ASSUME NEW task
  PROVE  JsonParse(task) = RallyFold(task)[DOMAIN task]
BY DEF JsonParse, FoldLeft, MapThenFoldSet, Start, RallyFold

(* json_parse goes from one reading to the next, an iteration at a time. *)
LEMMA RallyTurns ==
  ASSUME NEW task \in Seq(Iteration)
  PROVE  \E read \in [0..Len(task) -> Readings] :
           /\ read[0] = Start
           /\ \A k \in 1..Len(task) : read[k] = ParseIteration(read[k - 1], task[k])
           /\ JsonParse(task) = read[Len(task)]
<1> DEFINE n == Len(task)
           op == [k \in 1..n |-> [x \in Readings |-> ParseIteration(x, task[k])]]
           h == RallyFold(task)
<1>1. n \in Nat /\ DOMAIN task = 1..n /\ \A k \in 1..n : task[k] \in Iteration
  OBVIOUS
<1>2. Start \in Readings
  BY DEF Start, Readings
<1>3. op \in [1..n -> [Readings -> Readings]]
  BY <1>1, ParsesOn
<1>4. \A k \in 1..n, x \in Readings : op[k][x] = ParseIteration(x, task[k])
  OBVIOUS
<1> HIDE DEF op, n
<1>5. PICK g \in [SUBSET (1..n) -> Readings] : Folded(g, n, Start, op)
  BY <1>1, <1>2, <1>3, FoldExists
<1>6. g = [s \in SUBSET (1..n) |->
             IF s = {} THEN Start ELSE ParseIteration(g[s \ {Max(s)}], task[Max(s)])]
  <2>1. ASSUME NEW s \in SUBSET (1..n)
        PROVE  g[s] = IF s = {} THEN Start ELSE ParseIteration(g[s \ {Max(s)}], task[Max(s)])
    <3>1. s # {} => Max(s) \in 1..n /\ s \ {Max(s)} \in SUBSET (1..n)
      BY <1>1, MaxIn
    <3>2. s # {} => g[s \ {Max(s)}] \in Readings
      BY <1>5, <3>1
    <3> QED
      BY <1>4, <1>5, <3>1, <3>2 DEF Folded
  <2> QED
    BY <1>5, <2>1
<1>7. h = [s \in SUBSET (1..n) |->
             IF s = {} THEN Start ELSE ParseIteration(h[s \ {Max(s)}], task[Max(s)])]
  BY <1>1, <1>6 DEF RallyFold
<1>8. h[1..n] = JsonParse(task)
  BY <1>1, JsonParseFolds
<1>9. /\ h[{}] = Start
      /\ \A s \in SUBSET (1..n) : s # {} /\ h[s \ {Max(s)}] \in Readings
                                 => h[s] = op[Max(s)][h[s \ {Max(s)}]]
  <2>1. \A s \in SUBSET (1..n) :
          h[s] = IF s = {} THEN Start ELSE ParseIteration(h[s \ {Max(s)}], task[Max(s)])
    BY <1>7
  <2>2. \A s \in SUBSET (1..n) : s # {} => Max(s) \in 1..n
    BY <1>1, MaxIn
  <2> HIDE DEF h
  <2> QED
    BY <1>4, <2>1, <2>2
<1>10. PICK r \in [0..n -> Readings] : r[n] = h[1..n] /\ Turns(r, n, Start, op)
  BY <1>1, <1>2, <1>3, <1>9, FoldedByTurns
<1>11. ASSUME NEW k \in 1..n PROVE r[k] = ParseIteration(r[k - 1], task[k])
  <2>1. k - 1 \in 0..n /\ r[k] = op[k][r[k - 1]]
    BY <1>1, <1>10 DEF Turns
  <2> QED
    BY <1>4, <1>10, <2>1
<1> QED
  BY <1>8, <1>10, <1>11 DEF Turns, n

--------------------------------------------------------------------------------
(* Counting the turns of a loop. *)
UpToTurn(S, k) == {j \in S : j <= k}

LEMMA CountIsFinite ==
  ASSUME NEW n \in Nat, NEW S \in SUBSET (1..n), NEW k
  PROVE  IsFiniteSet(UpToTurn(S, k)) /\ Cardinality(UpToTurn(S, k)) \in Nat
<1>1. UpToTurn(S, k) \in SUBSET (1..n)
  BY DEF UpToTurn
<1>2. IsFiniteSet(1..n)
  BY FS_Interval
<1> QED
  BY <1>1, <1>2, FS_Subset, FS_CardinalityType

LEMMA CountOn ==
  ASSUME NEW n \in Nat, NEW S \in SUBSET (1..n), NEW k \in 1..n
  PROVE  Cardinality(UpToTurn(S, k))
           = Cardinality(UpToTurn(S, k - 1)) + (IF k \in S THEN 1 ELSE 0)
<1>0. \A j \in S : (j <= k <=> j = k \/ j <= k - 1) /\ ~(k <= k - 1)
  <2> SUFFICES ASSUME NEW j \in S PROVE (j <= k <=> j = k \/ j <= k - 1) /\ ~(k <= k - 1)
    OBVIOUS
  <2>1. j \in Int /\ k \in Int
    OBVIOUS
  <2> QED
    BY <2>1
<1>1. CASE k \in S
  <2>1. UpToTurn(S, k) = UpToTurn(S, k - 1) \cup {k} /\ k \notin UpToTurn(S, k - 1)
    BY <1>0, <1>1 DEF UpToTurn
  <2>2. IsFiniteSet(UpToTurn(S, k - 1))
    BY CountIsFinite
  <2> QED
    BY <1>1, <2>1, <2>2, FS_AddElement
<1>2. CASE k \notin S
  <2>1. UpToTurn(S, k) = UpToTurn(S, k - 1)
    BY <1>0, <1>2 DEF UpToTurn
  <2>2. Cardinality(UpToTurn(S, k - 1)) \in Nat
    BY CountIsFinite
  <2> QED
    BY <1>2, <2>1, <2>2
<1> QED
  BY <1>1, <1>2

LEMMA CountFrom ==
  ASSUME NEW n \in Nat, NEW S \in SUBSET (1..n)
  PROVE  Cardinality(UpToTurn(S, 0)) = 0 /\ UpToTurn(S, n) = S
<1>1. UpToTurn(S, 0) = {} /\ UpToTurn(S, n) = S
  <2>1. \A j \in S : j <= n /\ ~(j <= 0)
    <3> SUFFICES ASSUME NEW j \in S PROVE j <= n /\ ~(j <= 0)
      OBVIOUS
    <3>1. j \in 1..n
      OBVIOUS
    <3> QED
      BY <3>1
  <2> QED
    BY <2>1 DEF UpToTurn
<1> QED
  BY <1>1, FS_EmptySet

(* Which member of S comes at a given place. *)
LEMMA NthIs ==
  ASSUME NEW n \in Nat, NEW S \in SUBSET (1..n), NEW f \in S
  PROVE  Nth(S, Cardinality(UpToTurn(S, f))) = f
<1>1. ASSUME NEW a \in S, NEW b \in S, a < b
      PROVE  Cardinality(UpToTurn(S, a)) # Cardinality(UpToTurn(S, b))
  <2>1. UpToTurn(S, a) \subseteq UpToTurn(S, b) /\ b \in UpToTurn(S, b) \ UpToTurn(S, a)
    <3>1. a \in Int /\ b \in Int /\ \A j \in S : j \in Int
      OBVIOUS
    <3>2. \A j \in S : j <= a => j <= b
      BY <1>1, <3>1
    <3>3. b <= b /\ ~(b <= a)
      BY <1>1, <3>1
    <3> QED
      BY <3>2, <3>3 DEF UpToTurn
  <2>2. UpToTurn(S, a) # UpToTurn(S, b)
    BY <2>1
  <2> QED
    BY <2>1, <2>2, CountIsFinite, FS_Subset
<1>2. ASSUME NEW g \in S, Cardinality(UpToTurn(S, g)) = Cardinality(UpToTurn(S, f))
      PROVE  g = f
  BY <1>1, <1>2
<1> QED
  BY <1>2 DEF Nth, UpToTurn

--------------------------------------------------------------------------------
(* What the loop of json_parse knows after k turns. *)
NamedTurns(task, k) == {j \in 1..k : task[j].names # <<>>}
LastNamed(task, k, j) == j \in NamedTurns(task, k) /\ \A i \in NamedTurns(task, k) : i <= j
With(task, a) == {k \in DOMAIN task : a \in Values(task[k].names)}

NameKept(task, k, read) ==
  IF NamedTurns(task, k) = {} THEN read.value = NoName
  ELSE \E j \in 1..k : LastNamed(task, k, j) /\ read.value = Last(task[j].names)

ErrorsKept(task, k, read) ==
  /\ Len(read.errors) = Cardinality(UpToTurn(Failed(task), k))
  /\ \A n \in 1..Len(read.errors) :
       \E f \in Failed(task) : /\ Cardinality(UpToTurn(Failed(task), f)) = n
                               /\ \E j \in 1..f : /\ LastNamed(task, f, j)
                                                  /\ read.errors[n] \in Values(task[j].names)

CountsKept(task, k, read) ==
  \A a \in Name \ ListName : read.raw[a] = Cardinality(UpToTurn(With(task, a), k))

Told(task, k, read) ==
  /\ read.raised <=> \E f \in Failed(task) : f <= k /\ NamedTurns(task, f) = {}
  /\ ~read.raised => /\ NameKept(task, k, read)
                     /\ ErrorsKept(task, k, read)
                     /\ CountsKept(task, k, read)

LEMMA NamedTurnsOn ==
  ASSUME NEW task \in Seq(Iteration), NEW k \in 1..Len(task)
  PROVE  /\ task[k].names = <<>> => NamedTurns(task, k) = NamedTurns(task, k - 1)
         /\ task[k].names # <<>> => LastNamed(task, k, k)
<1>1. \A j \in Int : (j \in 1..k <=> j = k \/ j \in 1..k - 1) /\ (j \in 1..k => j <= k)
  OBVIOUS
<1>2. \A j \in 1..k : j \in Int
  OBVIOUS
<1>3. \A j \in 1..k - 1 : j \in Int
  OBVIOUS
<1>4. k \in 1..k
  OBVIOUS
<1>5. ASSUME task[k].names = <<>> PROVE NamedTurns(task, k) = NamedTurns(task, k - 1)
  BY <1>1, <1>2, <1>3, <1>5 DEF NamedTurns
<1>6. ASSUME task[k].names # <<>> PROVE LastNamed(task, k, k)
  BY <1>1, <1>2, <1>4, <1>6 DEF NamedTurns, LastNamed
<1> QED
  BY <1>5, <1>6

LEMMA FirstTurn ==
  ASSUME NEW task \in Seq(Iteration)
  PROVE  Told(task, 0, Start)
<1>1. \A f \in Failed(task) : ~(f <= 0)
  <2>1. \A f \in 1..Len(task) : ~(f <= 0)
    OBVIOUS
  <2> QED
    BY <2>1 DEF Failed
<1>2. NamedTurns(task, 0) = {}
  <2>1. 1..0 = {}
    OBVIOUS
  <2> QED
    BY <2>1 DEF NamedTurns
<1>3. Cardinality(UpToTurn(Failed(task), 0)) = 0
  <2>1. Failed(task) \in SUBSET (1..Len(task)) /\ Len(task) \in Nat
    BY DEF Failed
  <2> QED
    BY <2>1, CountFrom
<1>4. ASSUME NEW a \in Name \ ListName PROVE Cardinality(UpToTurn(With(task, a), 0)) = 0
  <2>1. With(task, a) \in SUBSET (1..Len(task)) /\ Len(task) \in Nat
    BY DEF With
  <2> QED
    BY <2>1, CountFrom
<1>5. /\ ~Start.raised /\ Start.value = NoName /\ Start.errors = <<>>
      /\ \A a \in Name \ ListName : Start.raw[a] = 0
  BY DEF Start
<1>6. NameKept(task, 0, Start)
  BY <1>2, <1>5 DEF NameKept
<1>7. ErrorsKept(task, 0, Start)
  <2>1. Len(Start.errors) = 0 /\ 1..0 = {}
    BY <1>5
  <2> QED
    BY <1>3, <2>1 DEF ErrorsKept
<1>8. CountsKept(task, 0, Start)
  BY <1>4, <1>5 DEF CountsKept
<1> QED
  BY <1>1, <1>5, <1>6, <1>7, <1>8 DEF Told

(* One turn keeps what the loop knows: the step of the induction. *)
LEMMA NextTurn ==
  ASSUME NEW task \in Seq(Iteration), NEW k \in 1..Len(task), NEW read \in Readings,
         Told(task, k - 1, read)
  PROVE  Told(task, k, ParseIteration(read, task[k]))
<1> DEFINE next == ParseIteration(read, task[k])
           F == Failed(task)
           value == IF task[k].names = <<>> THEN read.value ELSE Last(task[k].names)
<1>1. /\ k \in Int /\ k - 1 \in Int /\ Len(task) \in Nat
      /\ task[k] \in Iteration
      /\ F \in SUBSET (1..Len(task))
      /\ \A f \in F : f \in Int
      /\ k \in F <=> task[k].failed
  BY DEF Failed
<1>2. \A f \in F : (f <= k <=> f = k \/ f <= k - 1) /\ f <= f
  BY <1>1
<1>3. CASE read.raised
  <2>1. next = read
    BY <1>3 DEF ParseIteration
  <2>2. \E f \in F : f <= k /\ NamedTurns(task, f) = {}
    BY <1>2, <1>3 DEF Told
  <2> QED
    BY <1>3, <2>1, <2>2 DEF Told
<1>4. CASE ~read.raised
  <2>1. /\ next.value = value
        /\ next.raw = [a \in Name \ ListName |->
                         read.raw[a] + (IF a \in Values(task[k].names) THEN 1 ELSE 0)]
        /\ next.errors = IF task[k].failed THEN Append(read.errors, value) ELSE read.errors
        /\ next.raised = (task[k].failed /\ value = NoName)
    BY <1>4 DEF ParseIteration
  <2>2. /\ NameKept(task, k - 1, read) /\ ErrorsKept(task, k - 1, read)
        /\ CountsKept(task, k - 1, read)
        /\ \A f \in F : f <= k - 1 => NamedTurns(task, f) # {}
    BY <1>4 DEF Told
  <2> HIDE DEF next, F
  <2>3. NameKept(task, k, next)
    <3>1. CASE task[k].names = <<>>
      <4>1. NamedTurns(task, k) = NamedTurns(task, k - 1) /\ value = read.value
        BY <3>1, NamedTurnsOn
      <4>2. \A j \in 1..k - 1 : j \in 1..k
        OBVIOUS
      <4> QED
        BY <2>1, <2>2, <4>1, <4>2 DEF NameKept, LastNamed
    <3>2. CASE task[k].names # <<>>
      <4>1. LastNamed(task, k, k) /\ k \in 1..k
        BY <3>2, NamedTurnsOn
      <4> QED
        BY <2>1, <3>2, <4>1 DEF NameKept, LastNamed
    <3> QED
      BY <3>1, <3>2
  <2>4. value = NoName <=> NamedTurns(task, k) = {}
    <3>1. ASSUME NEW j \in 1..k, LastNamed(task, k, j) PROVE Last(task[j].names) # NoName
      <4>1. j \in 1..Len(task) /\ task[j] \in Iteration /\ task[j].names # <<>>
        BY <3>1 DEF LastNamed, NamedTurns
      <4>2. Last(task[j].names) \in Name
        BY <4>1 DEF Iteration, Last
      <4> QED
        BY <4>2, DocumentsAssumption
    <3> QED
      BY <2>1, <2>3, <3>1 DEF NameKept
  <2>5. next.raised <=> \E f \in F : f <= k /\ NamedTurns(task, f) = {}
    BY <1>1, <1>2, <2>1, <2>2, <2>4
  <2>6. ASSUME ~next.raised PROVE ErrorsKept(task, k, next)
    <3>1. CASE ~task[k].failed
      <4>1. next.errors = read.errors
        BY <2>1, <3>1
      <4>2. Cardinality(UpToTurn(F, k)) = Cardinality(UpToTurn(F, k - 1))
        <5>1. UpToTurn(F, k) = UpToTurn(F, k - 1)
          BY <1>1, <1>2, <3>1 DEF UpToTurn
        <5> QED
          BY <5>1
      <4> QED
        BY <2>2, <4>1, <4>2 DEF ErrorsKept, F
    <3>2. CASE task[k].failed
      <4> DEFINE m == Len(read.errors)
      <4>1. read.errors \in Seq(Name \cup {NoName}) /\ m \in Nat
        BY DEF Readings
      <4>2. next.errors = Append(read.errors, value)
        BY <2>1, <3>2
      <4>3. Len(next.errors) = m + 1 /\ next.errors[m + 1] = value
            /\ \A n \in 1..m : next.errors[n] = read.errors[n]
        BY <4>1, <4>2
      <4>4. Cardinality(UpToTurn(F, k)) = m + 1
        <5>1. Cardinality(UpToTurn(F, k - 1)) = m
          BY <2>2 DEF ErrorsKept, F
        <5>2. k \in F
          BY <1>1, <3>2 DEF F
        <5> QED
          BY <1>1, <5>1, <5>2, CountOn
      <4>5. \E j \in 1..k : LastNamed(task, k, j) /\ value \in Values(task[j].names)
        <5>1. NamedTurns(task, k) # {}
          BY <2>1, <2>4, <2>6, <3>2
        <5>2. PICK j \in 1..k : LastNamed(task, k, j) /\ value = Last(task[j].names)
          BY <2>1, <2>3, <5>1 DEF NameKept
        <5>3. j \in 1..Len(task) /\ task[j] \in Iteration /\ task[j].names # <<>>
          BY <5>2 DEF LastNamed, NamedTurns
        <5>4. Last(task[j].names) \in Values(task[j].names)
          BY <5>3 DEF Iteration, Last, Values
        <5> QED
          BY <5>2, <5>4
      <4>6. ASSUME NEW n \in 1..m + 1
            PROVE  \E f \in F : /\ Cardinality(UpToTurn(F, f)) = n
                                /\ \E j \in 1..f : /\ LastNamed(task, f, j)
                                                   /\ next.errors[n] \in Values(task[j].names)
        <5>1. CASE n = m + 1
          BY <1>1, <3>2, <4>3, <4>4, <4>5, <5>1 DEF F
        <5>2. CASE n # m + 1
          <6>1. n \in 1..m
            BY <4>1, <5>2
          <6> QED
            BY <2>2, <4>3, <6>1 DEF ErrorsKept, F
        <5> QED
          BY <5>1, <5>2
      <4> HIDE DEF m
      <4> QED
        BY <4>3, <4>4, <4>6 DEF ErrorsKept, F
    <3> QED
      BY <3>1, <3>2
  <2>7. CountsKept(task, k, next)
    <3> SUFFICES ASSUME NEW a \in Name \ ListName
                 PROVE  next.raw[a] = Cardinality(UpToTurn(With(task, a), k))
      BY DEF CountsKept
    <3>1. /\ With(task, a) \in SUBSET (1..Len(task))
          /\ k \in With(task, a) <=> a \in Values(task[k].names)
      BY DEF With
    <3>2. read.raw[a] = Cardinality(UpToTurn(With(task, a), k - 1))
      BY <2>2 DEF CountsKept
    <3>3. Cardinality(UpToTurn(With(task, a), k))
            = Cardinality(UpToTurn(With(task, a), k - 1))
              + (IF k \in With(task, a) THEN 1 ELSE 0)
      BY <1>1, <3>1, CountOn
    <3>4. next.raw[a] = read.raw[a] + (IF a \in Values(task[k].names) THEN 1 ELSE 0)
      BY <2>1
    <3> QED
      BY <3>1, <3>2, <3>3, <3>4
  <2>8. next.raised <=> \E f \in Failed(task) : f <= k /\ NamedTurns(task, f) = {}
    BY <2>5 DEF F
  <2>9. Told(task, k, next)
    BY <2>3, <2>6, <2>7, <2>8 DEF Told
  <2> QED
    BY <2>9 DEF next
<1> QED
  BY <1>3, <1>4

LEMMA JsonParseTold ==
  ASSUME NEW task \in Seq(Iteration)
  PROVE  JsonParse(task) \in Readings /\ Told(task, Len(task), JsonParse(task))
<1>1. Len(task) \in Nat
  OBVIOUS
<1>2. PICK read \in [0..Len(task) -> Readings] :
           /\ read[0] = Start
           /\ \A k \in 1..Len(task) : read[k] = ParseIteration(read[k - 1], task[k])
           /\ JsonParse(task) = read[Len(task)]
  BY RallyTurns
<1> DEFINE T == {k \in 0..Len(task) : Told(task, k, read[k])}
<1>3. 0 \in T
  BY <1>1, <1>2, FirstTurn
<1>4. ASSUME NEW k \in 0..Len(task) - 1, k \in T PROVE k + 1 \in T
  <2>1. k + 1 \in 1..Len(task) /\ (k + 1) - 1 = k /\ k + 1 \in 0..Len(task) /\ k \in 0..Len(task)
    BY <1>1
  <2>2. Told(task, k + 1, ParseIteration(read[k], task[k + 1]))
    <3>1. read[k] \in Readings /\ Told(task, (k + 1) - 1, read[k])
      BY <1>4, <2>1
    <3> QED
      BY <2>1, <3>1, NextTurn
  <2>3. read[k + 1] = ParseIteration(read[k], task[k + 1])
    BY <1>2, <2>1
  <2> QED
    BY <2>1, <2>2, <2>3
<1>5. \A k \in 0..Len(task) : k \in T
  <2>1. \A k \in 0..Len(task) - 1 : k \in T => k + 1 \in T
    BY <1>4
  <2> HIDE DEF T
  <2> QED
    BY <1>1, <1>3, <2>1, UpTo
<1>6. Len(task) \in 0..Len(task)
  BY <1>1
<1>7. Told(task, Len(task), read[Len(task)])
  BY <1>5, <1>6
<1> QED
  BY <1>2, <1>6, <1>7

(* What json_parse makes of a task names its failed iterations. *)
LEMMA RallyTells == RallyDocumentsTell
<1> SUFFICES ASSUME NEW task \in Tasks
             PROVE  LET read == JsonParse(task)
                        Named(k) == {j \in 1..k : task[j].names # <<>>}
                    IN IF \E k \in Failed(task) : Named(k) = {}
                       THEN read.raised
                       ELSE /\ ~read.raised
                            /\ Len(read.errors) = Cardinality(Failed(task))
                            /\ \A n \in DOMAIN read.errors :
                                 LET k == Nth(Failed(task), n)
                                 IN \E j \in Named(k) :
                                      /\ read.errors[n] \in Values(task[j].names)
                                      /\ \A i \in Named(k) : i <= j
                            /\ \A a \in Name \ ListName :
                                 read.raw[a]
                                   = Cardinality({k \in DOMAIN task : a \in Values(task[k].names)})
  BY DEF RallyDocumentsTell
<1> DEFINE read == JsonParse(task)
           Named(k) == NamedTurns(task, k)
<1>1. /\ task \in Seq(Iteration) /\ Len(task) \in Nat
      /\ Failed(task) \in SUBSET (1..Len(task))
      /\ \A f \in Failed(task) : f <= Len(task)
      /\ \A a \in Name : With(task, a) \in SUBSET (1..Len(task))
  BY DocumentsAssumption DEF Failed, With
<1>2. read \in Readings /\ Told(task, Len(task), read)
  BY <1>1, JsonParseTold
<1> HIDE DEF read
<1>3. read.raised <=> \E k \in Failed(task) : Named(k) = {}
  BY <1>1, <1>2 DEF Told
<1>4. ASSUME ~read.raised
      PROVE  /\ Len(read.errors) = Cardinality(Failed(task))
             /\ \A n \in DOMAIN read.errors :
                  \E j \in Named(Nth(Failed(task), n)) :
                     /\ read.errors[n] \in Values(task[j].names)
                     /\ \A i \in Named(Nth(Failed(task), n)) : i <= j
             /\ \A a \in Name \ ListName : read.raw[a] = Cardinality(With(task, a))
  <2>1. ErrorsKept(task, Len(task), read) /\ CountsKept(task, Len(task), read)
    BY <1>2, <1>4 DEF Told
  <2>2. Len(read.errors) = Cardinality(Failed(task))
    BY <1>1, <2>1, CountFrom DEF ErrorsKept
  <2>3. ASSUME NEW n \in DOMAIN read.errors
        PROVE  \E j \in Named(Nth(Failed(task), n)) :
                     /\ read.errors[n] \in Values(task[j].names)
                     /\ \A i \in Named(Nth(Failed(task), n)) : i <= j
    <3>1. n \in 1..Len(read.errors)
      BY <1>2 DEF Readings
    <3>2. PICK f \in Failed(task) :
             /\ Cardinality(UpToTurn(Failed(task), f)) = n
             /\ \E j \in 1..f : LastNamed(task, f, j) /\ read.errors[n] \in Values(task[j].names)
      BY <2>1, <3>1 DEF ErrorsKept
    <3>3. Nth(Failed(task), n) = f
      BY <1>1, <3>2, NthIs
    <3> QED
      BY <3>2, <3>3 DEF LastNamed
  <2>4. ASSUME NEW a \in Name \ ListName PROVE read.raw[a] = Cardinality(With(task, a))
    BY <1>1, <2>1, CountFrom DEF CountsKept
  <2> QED
    BY <2>2, <2>3, <2>4
<1> QED
  BY <1>3, <1>4 DEF read, NamedTurns, With

--------------------------------------------------------------------------------
(* The loop of send_to_elastic. *)
Sendings == [described : BOOLEAN, errors : Nat, raised : BOOLEAN]
Begin(output) == [described |-> output.scenarios > 0, errors |-> 0, raised |-> FALSE]
ShakerFold(output) ==
  CHOOSE h : h = [s \in SUBSET DOMAIN output.records |->
                    IF s = {} THEN Begin(output)
                    ELSE SendRecord(h[s \ {Max(s)}], output.records[Max(s)])]

LEMMA SendsOn ==
  ASSUME NEW sent \in Sendings, NEW record \in Record
  PROVE  SendRecord(sent, record) \in Sendings
<1>1. ASSUME NEW stopped \in BOOLEAN PROVE [sent EXCEPT !.raised = stopped] \in Sendings
  BY DEF Sendings
<1>2. [sent EXCEPT !.errors = sent.errors + 1] \in Sendings
  BY DEF Sendings
<1>3. (record.metrics \ {"time"} # {} /\ record.samples > 0) \in BOOLEAN
  OBVIOUS
<1>4. [sent EXCEPT !.raised = (record.metrics \ {"time"} # {} /\ record.samples > 0)] \in Sendings
  BY <1>1, <1>3
<1>5. [sent EXCEPT !.raised = TRUE] \in Sendings
  BY <1>1
<1> QED
  BY <1>2, <1>4, <1>5 DEF SendRecord

LEMMA SendToElasticFolds ==
  ASSUME NEW output, output.found
  PROVE  SendToElastic(output) = ShakerFold(output)[DOMAIN output.records]
BY DEF SendToElastic, FoldLeft, MapThenFoldSet, Begin, ShakerFold

(* send_to_elastic goes from one record to the next. *)
LEMMA ShakerTurns ==
  ASSUME NEW output, output.found, output.scenarios \in Nat, output.records \in Seq(Record)
  PROVE  \E sent \in [0..Len(output.records) -> Sendings] :
           /\ sent[0] = Begin(output)
           /\ \A k \in 1..Len(output.records) :
                sent[k] = SendRecord(sent[k - 1], output.records[k])
           /\ SendToElastic(output) = sent[Len(output.records)]
<1> DEFINE n == Len(output.records)
           op == [k \in 1..n |-> [x \in Sendings |-> SendRecord(x, output.records[k])]]
           h == ShakerFold(output)
<1>1. /\ n \in Nat /\ DOMAIN output.records = 1..n
      /\ \A k \in 1..n : output.records[k] \in Record
  OBVIOUS
<1>2. Begin(output) \in Sendings
  BY DEF Begin, Sendings
<1>3. op \in [1..n -> [Sendings -> Sendings]]
  BY <1>1, SendsOn
<1>4. \A k \in 1..n, x \in Sendings : op[k][x] = SendRecord(x, output.records[k])
  OBVIOUS
<1> HIDE DEF op, n
<1>5. PICK g \in [SUBSET (1..n) -> Sendings] : Folded(g, n, Begin(output), op)
  BY <1>1, <1>2, <1>3, FoldExists
<1>6. g = [s \in SUBSET (1..n) |->
             IF s = {} THEN Begin(output)
             ELSE SendRecord(g[s \ {Max(s)}], output.records[Max(s)])]
  <2>1. ASSUME NEW s \in SUBSET (1..n)
        PROVE  g[s] = IF s = {} THEN Begin(output)
                      ELSE SendRecord(g[s \ {Max(s)}], output.records[Max(s)])
    <3>1. s # {} => Max(s) \in 1..n /\ s \ {Max(s)} \in SUBSET (1..n)
      BY <1>1, MaxIn
    <3>2. s # {} => g[s \ {Max(s)}] \in Sendings
      BY <1>5, <3>1
    <3> QED
      BY <1>4, <1>5, <3>1, <3>2 DEF Folded
  <2> QED
    BY <1>5, <2>1
<1>7. h = [s \in SUBSET (1..n) |->
             IF s = {} THEN Begin(output)
             ELSE SendRecord(h[s \ {Max(s)}], output.records[Max(s)])]
  BY <1>1, <1>6 DEF ShakerFold
<1>8. h[1..n] = SendToElastic(output)
  BY <1>1, SendToElasticFolds
<1>9. /\ h[{}] = Begin(output)
      /\ \A s \in SUBSET (1..n) : s # {} /\ h[s \ {Max(s)}] \in Sendings
                                 => h[s] = op[Max(s)][h[s \ {Max(s)}]]
  <2>1. \A s \in SUBSET (1..n) :
          h[s] = IF s = {} THEN Begin(output)
                 ELSE SendRecord(h[s \ {Max(s)}], output.records[Max(s)])
    BY <1>7
  <2>2. \A s \in SUBSET (1..n) : s # {} => Max(s) \in 1..n
    BY <1>1, MaxIn
  <2> HIDE DEF h
  <2> QED
    BY <1>4, <2>1, <2>2
<1>10. PICK r \in [0..n -> Sendings] : r[n] = h[1..n] /\ Turns(r, n, Begin(output), op)
  BY <1>1, <1>2, <1>3, <1>9, FoldedByTurns
<1>11. ASSUME NEW k \in 1..n PROVE r[k] = SendRecord(r[k - 1], output.records[k])
  <2>1. k - 1 \in 0..n /\ r[k] = op[k][r[k - 1]]
    BY <1>1, <1>10 DEF Turns
  <2> QED
    BY <1>4, <1>10, <2>1
<1> QED
  BY <1>8, <1>10, <1>11 DEF Turns, n

Measured(r) == r.ok /\ ~r.shell /\ r.metrics \ {"time"} # {} /\ r.samples > 0
Faulty(records) == {k \in DOMAIN records : ~records[k].ok \/ records[k].shell}

(* What the loop of send_to_elastic has sent after k turns. *)
SentSoFar(records, k, sent) ==
  ~sent.raised => /\ \A j \in 1..k : ~Measured(records[j])
                  /\ sent.errors = Cardinality(UpToTurn(Faulty(records), k))

LEMMA NextSent ==
  ASSUME NEW records \in Seq(Record), NEW k \in 1..Len(records), NEW sent \in Sendings,
         SentSoFar(records, k - 1, sent)
  PROVE  SentSoFar(records, k, SendRecord(sent, records[k]))
<1> DEFINE next == SendRecord(sent, records[k])
           S == Faulty(records)
<1> SUFFICES ASSUME ~next.raised
             PROVE  /\ \A j \in 1..k : ~Measured(records[j])
                    /\ next.errors = Cardinality(UpToTurn(S, k))
  BY DEF SentSoFar
<1>1. Len(records) \in Nat /\ S \in SUBSET (1..Len(records))
      /\ (k \in S <=> ~records[k].ok \/ records[k].shell)
  BY DEF Faulty
<1>2. ~sent.raised
  BY DEF SendRecord
<1>3. /\ \A j \in 1..k - 1 : ~Measured(records[j])
      /\ sent.errors = Cardinality(UpToTurn(S, k - 1))
  BY <1>2 DEF SentSoFar
<1>4. ~Measured(records[k]) /\ next.errors = sent.errors + (IF k \in S THEN 1 ELSE 0)
  <2>1. records[k] \in Record
    OBVIOUS
  <2> QED
    BY <1>1, <1>2, <2>1 DEF SendRecord, Measured, Sendings, Record
<1>5. \A j \in 1..k : j = k \/ j \in 1..k - 1
  OBVIOUS
<1>6. Cardinality(UpToTurn(S, k))
        = Cardinality(UpToTurn(S, k - 1)) + (IF k \in S THEN 1 ELSE 0)
  <2> HIDE DEF S
  <2> QED
    BY <1>1, CountOn
<1> HIDE DEF next, S
<1> QED
  BY <1>3, <1>4, <1>5, <1>6

(* What send_to_elastic sends for an output tells its faulty records. *)
LEMMA ShakerTells == ShakerDocumentsTell
<1> SUFFICES ASSUME NEW output \in Outputs, output.found, ~SendToElastic(output).raised
             PROVE  /\ \A k \in DOMAIN output.records : ~Measured(output.records[k])
                    /\ SendToElastic(output).errors = Cardinality(Faulty(output.records))
  BY DEF ShakerDocumentsTell, Measured, Faulty
<1> DEFINE records == output.records
           n == Len(records)
<1>1. /\ output.scenarios \in Nat /\ records \in Seq(Record) /\ n \in Nat
      /\ DOMAIN records = 1..n /\ Faulty(records) \in SUBSET (1..n)
  BY DocumentsAssumption DEF Faulty
<1>2. PICK sent \in [0..n -> Sendings] :
           /\ sent[0] = Begin(output)
           /\ \A k \in 1..n : sent[k] = SendRecord(sent[k - 1], records[k])
           /\ SendToElastic(output) = sent[n]
  BY <1>1, ShakerTurns
<1> HIDE DEF records, n
<1> DEFINE T == {k \in 0..n : SentSoFar(records, k, sent[k])}
<1>3. 0 \in T
  <2>1. sent[0].errors = 0
    BY <1>2 DEF Begin
  <2>2. Cardinality(UpToTurn(Faulty(records), 0)) = 0
    BY <1>1, CountFrom
  <2> QED
    BY <1>1, <2>1, <2>2 DEF SentSoFar
<1>4. ASSUME NEW k \in 0..n - 1, k \in T PROVE k + 1 \in T
  <2>1. k + 1 \in 1..n /\ (k + 1) - 1 = k /\ k + 1 \in 0..n /\ k \in 0..n
    BY <1>1
  <2>2. SentSoFar(records, k + 1, SendRecord(sent[k], records[k + 1]))
    <3>1. sent[k] \in Sendings /\ SentSoFar(records, (k + 1) - 1, sent[k])
      BY <1>4, <2>1
    <3> QED
      BY <1>1, <2>1, <3>1, NextSent DEF n
  <2>3. sent[k + 1] = SendRecord(sent[k], records[k + 1])
    BY <1>2, <2>1
  <2> QED
    BY <2>1, <2>2, <2>3
<1>5. \A k \in 0..n : k \in T
  <2>1. \A k \in 0..n - 1 : k \in T => k + 1 \in T
    BY <1>4
  <2> HIDE DEF T
  <2> QED
    BY <1>1, <1>3, <2>1, UpTo
<1>6. SentSoFar(records, n, sent[n])
  BY <1>1, <1>5
<1>7. UpToTurn(Faulty(records), n) = Faulty(records)
  BY <1>1, CountFrom
<1> QED
  BY <1>1, <1>2, <1>6, <1>7 DEF SentSoFar, records

(***************************************************************************)
(* Whatever the tasks and outputs hold, and however long they are, what is *)
(* indexed for them names each failed iteration once, in order, for a key  *)
(* the task had reached, counts every measured action, and tells faulty    *)
(* Shaker records apart from measured ones; or the loop raises first.      *)
(***************************************************************************)
THEOREM DocumentsTell == Spec => []ResultsBecomeDocuments
<1>1. ResultsBecomeDocuments
  BY RallyTells, ShakerTells DEF ResultsBecomeDocuments
<1> QED
  BY <1>1, PTL
================================================================================
