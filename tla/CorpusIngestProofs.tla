-------------------------- MODULE CorpusIngestProofs --------------------------
(***************************************************************************)
(* Proofs about CorpusIngest for any number of ingests, retrievals, files  *)
(* and contents.  A replacement deletes only documents of its own source   *)
(* and commits together with the new document of that source; the          *)
(* inductive invariant says so of every open transaction.                  *)
(***************************************************************************)
EXTENDS CorpusIngest, SequenceTheorems, TLAPS

\* What an ingest holds at each stage: files to go, the hash it compared, the
\* content it embedded.
HoldsItsFile ==
    \A i \in Ingests :
        /\ stage[i] \in Working \cup {"lock"} => todo[i] # <<>>
        /\ stage[i] \in {"load", "select"} \cup InTransaction => hash[i] \in Contents
        /\ stage[i] \in {"select"} \cup InTransaction => draft[i] \in Contents

\* What the open transaction of an ingest has touched: rows of the file's
\* source, and at the commit a new document of that source.
TouchesOwnSource ==
    \A i \in Ingests :
        /\ \A d \in existing[i] :
             stage[i] \in InTransaction /\ d.source = SourceOf[File(i)]
        /\ deleted[i] \subseteq existing[i]
        /\ \A d \in inserted[i] :
             stage[i] = "commit" /\ d.source = SourceOf[File(i)]
        /\ stage[i] = "commit" => inserted[i] # {}

IInv == TypeOK /\ HoldsItsFile /\ TouchesOwnSource

\* Who started an ingest is known once it runs, and a route at work holds the
\* lock unless its connection was lost.
HoldsLock ==
    \A i \in Ingests :
        /\ stage[i] = "idle" <=> kind[i] = "none"
        /\ kind[i] = "route" /\ stage[i] \in Working /\ ~lost => lock = i

\* While nothing runs beside it, an open transaction sees the corpus as it is:
\* it replaces every document of its source by one.
SeesItsSource ==
    SingleFlight => \A i \in Ingests :
        /\ stage[i] \in InTransaction =>
             existing[i] = {d \in docs : d.source = SourceOf[File(i)]}
        /\ stage[i] \in {"insert", "commit"} => deleted[i] = existing[i]
        /\ \A d, e \in inserted[i] : d = e

FlightInv == IInv /\ HoldsLock /\ SeesItsSource /\ OneDocumentPerSource

-----------------------------------------------------------------------------
\* The tail of a sequence of more than one file is not empty.
LEMMA TailNotEmpty ==
    ASSUME NEW s \in Seq(Files), Len(s) > 1 PROVE Tail(s) # <<>>
<1>1. Len(Tail(s)) = Len(s) - 1 /\ Len(s) \in Nat
  BY s # <<>>
<1>2. ASSUME Tail(s) = <<>> PROVE Len(Tail(s)) = 0
  BY <1>2, EmptySeq
<1> QED
  BY <1>1, <1>2

\* An ingest at work has a file that it is at.
LEMMA AtWork ==
    ASSUME IInv, NEW i \in Ingests, stage[i] \in Working
    PROVE todo[i] # <<>> /\ File(i) \in Files
<1>1. todo[i] \in Seq(Files) /\ todo[i] # <<>>
  BY DEF IInv, TypeOK, HoldsItsFile
<1> QED
  BY <1>1 DEF File

\* Outside a transaction an ingest has touched nothing.
LEMMA NothingTouched ==
    ASSUME IInv, NEW i \in Ingests, stage[i] \notin InTransaction
    PROVE existing[i] = {} /\ deleted[i] = {} /\ inserted[i] = {}
  BY DEF IInv, TouchesOwnSource, InTransaction

\* Every step keeps the types, which needs that an ingest at work holds a file.
LEMMA TypeStep ==
    ASSUME IInv, [Next]_vars PROVE TypeOK'
<1>1. ASSUME NEW i \in Ingests, Post(i) PROVE TypeOK'
  BY <1>1, RequestsAssumption DEF Post, Goto, readerVars, IInv, TypeOK,
       Working, InTransaction, Ended, Stage
<1>2. ASSUME NEW i \in Ingests, CommandLine(i) PROVE TypeOK'
  BY <1>2, RequestsAssumption DEF CommandLine, Goto, readerVars, IInv, TypeOK,
       Working, InTransaction, Ended, Stage
<1>3. ASSUME NEW i \in Ingests, TryLock(i) PROVE TypeOK'
  BY <1>3 DEF TryLock, Goto, ingestVars, readerVars, IInv, TypeOK, Working,
       InTransaction, Ended, Stage
<1>4. ASSUME NEW i \in Ingests, ReportUnchanged(i) PROVE TypeOK'
  <2> DEFINE report == [file |-> File(i), hash |-> disk[File(i)],
                        verdict |-> "unchanged"]
  <2>1. todo[i] \in Seq(Files) /\ todo[i] # <<>> /\ File(i) \in Files
    BY <1>4, AtWork DEF ReportUnchanged, IInv, TypeOK, Working, InTransaction
  <2>2. report \in Report
    BY <1>4, <2>1 DEF ReportUnchanged, IInv, TypeOK, HoldsItsFile,
         InTransaction, Report
  <2>3. manifest' \in [Ingests -> Seq(Report)] /\ todo' \in [Ingests ->
       Seq(Files)]
    <3> HIDE DEF report
    <3>1. FinishFile(i, report)
      BY <1>4 DEF ReportUnchanged, report
    <3> QED
      BY <2>1, <2>2, <3>1 DEF IInv, TypeOK, FinishFile
  <2>4. docs' \subseteq Document
    BY <1>4 DEF ReportUnchanged, Committed, IInv, TypeOK
  <2>5. stage' \in [Ingests -> Stage]
    BY <1>4 DEF ReportUnchanged, FinishFile, Goto, IInv, TypeOK, Working,
         InTransaction, Ended, Stage
  <2> QED
    BY <1>4, <2>3, <2>4, <2>5 DEF ReportUnchanged, FinishFile, ForgetFile,
         readerVars, IInv, TypeOK
<1>5. ASSUME NEW i \in Ingests, FindChanged(i) PROVE TypeOK'
  <2>1. File(i) \in Files
    BY <1>5, AtWork DEF FindChanged, Working
  <2> QED
    BY <1>5, <2>1 DEF FindChanged, Goto, readerVars, IInv, TypeOK, Working,
         InTransaction, Ended, Stage
<1>6. ASSUME NEW i \in Ingests, LoadAndEmbed(i) PROVE TypeOK'
  <2>1. File(i) \in Files
    BY <1>6, AtWork DEF LoadAndEmbed, Working
  <2> QED
    BY <1>6, <2>1 DEF LoadAndEmbed, Goto, readerVars, IInv, TypeOK, Working,
         InTransaction, Ended, Stage
<1>7. ASSUME NEW i \in Ingests, SelectExisting(i) PROVE TypeOK'
  BY <1>7 DEF SelectExisting, Goto, readerVars, IInv, TypeOK, Working,
       InTransaction, Ended, Stage
<1>8. ASSUME NEW i \in Ingests, DeleteExisting(i) PROVE TypeOK'
  BY <1>8 DEF DeleteExisting, Goto, readerVars, IInv, TypeOK, Working,
       InTransaction, Ended, Stage
<1>9. ASSUME NEW i \in Ingests, InsertDocument(i) PROVE TypeOK'
  <2>1. NewDocument(i) \in Document
    BY <1>9, AtWork, FilesAssumption, SMTT(30) DEF InsertDocument, NewDocument,
         Document, IInv, TypeOK, HoldsItsFile, Working, InTransaction,
         Ended, Stage
  <2> QED
    BY <1>9, <2>1 DEF InsertDocument, Goto, readerVars, IInv, TypeOK,
         Working, InTransaction, Ended, Stage
<1>10. ASSUME NEW i \in Ingests, Commit(i) PROVE TypeOK'
  <2> DEFINE report == [file |-> File(i), hash |-> hash[i],
                        verdict |-> IF existing[i] = {} THEN "new" ELSE "replace"]
  <2>1. todo[i] \in Seq(Files) /\ todo[i] # <<>> /\ File(i) \in Files
    BY <1>10, AtWork DEF Commit, IInv, TypeOK, Working, InTransaction
  <2>2. report \in Report
    BY <1>10, <2>1 DEF Commit, IInv, TypeOK, HoldsItsFile, InTransaction, Report
  <2>3. manifest' \in [Ingests -> Seq(Report)] /\ todo' \in [Ingests ->
       Seq(Files)]
    <3> HIDE DEF report
    <3>1. FinishFile(i, report)
      BY <1>10 DEF Commit, report
    <3> QED
      BY <2>1, <2>2, <3>1 DEF IInv, TypeOK, FinishFile
  <2>4. docs' \subseteq Document
    BY <1>10 DEF Commit, Committed, IInv, TypeOK
  <2>5. stage' \in [Ingests -> Stage]
    BY <1>10 DEF Commit, FinishFile, Goto, IInv, TypeOK, Working,
         InTransaction, Ended, Stage
  <2> QED
    BY <1>10, <2>3, <2>4, <2>5 DEF Commit, FinishFile, ForgetFile,
         readerVars, IInv, TypeOK
<1>11. ASSUME NEW i \in Ingests, Collide(i) PROVE TypeOK'
  BY <1>11 DEF Collide, Unwind, ForgetRun, ForgetFile, Goto, readerVars, IInv,
       TypeOK, Working, InTransaction, Ended, Stage
<1>12. ASSUME NEW i \in Ingests, Unlock(i) PROVE TypeOK'
  BY <1>12 DEF Unlock, Goto, ingestVars, readerVars, IInv, TypeOK, Working,
       InTransaction, Ended, Stage
<1>13. ASSUME NEW i \in Ingests, Fail(i) PROVE TypeOK'
  BY <1>13 DEF Fail, Unwind, ForgetRun, ForgetFile, Committed, Goto,
       readerVars, IInv, TypeOK, Working, InTransaction, Ended, Stage
<1>14. ASSUME NEW i \in Ingests, Crash(i) PROVE TypeOK'
  BY <1>14 DEF Crash, ForgetRun, ForgetFile, Committed, Goto, readerVars,
       IInv, TypeOK, Working, InTransaction, Ended, Stage
<1>15. ASSUME NEW i \in Ingests, LoseLock(i) PROVE TypeOK'
  BY <1>15 DEF LoseLock, ingestVars, readerVars, IInv, TypeOK
<1>16. ASSUME NEW r \in Readers, Retrieve(r) PROVE TypeOK'
  <2>1. Identities \subseteq Embedders
    BY DEF Identities, Document, IInv, TypeOK
  <2> QED
    BY <1>16, <2>1 DEF Retrieve, CheckEmbedder, Search, ingestVars, IInv, TypeOK
<1>17. ASSUME NEW f \in Files, Edit(f) PROVE TypeOK'
  <2>1. disk' \in [Files -> Contents]
    <3>1. PICK c \in VersionsOf[f] : disk' = [disk EXCEPT ![f] = c]
      BY <1>17 DEF Edit
    <3>2. c \in Contents
      BY FilesAssumption
    <3>3. disk \in [Files -> Contents]
      BY DEF IInv, TypeOK
    <3> QED
      BY <3>1, <3>2, <3>3
  <2>2. edits' \in 0..MaxEdits
    BY <1>17, BoundsAssumption DEF Edit, IInv, TypeOK
  <2> QED
    BY <1>17, <2>1, <2>2 DEF Edit, ingestVars, readerVars, IInv, TypeOK
<1>18. CASE UNCHANGED vars
  BY <1>18 DEF vars, ingestVars, readerVars, IInv, TypeOK
<1>19. QED
  BY <1>1, <1>2, <1>3, <1>4, <1>5, <1>6, <1>7, <1>8, <1>9, <1>10, <1>11,
       <1>12, <1>13, <1>14, <1>15, <1>16, <1>17, <1>18 DEF Next, Step

\* Every step keeps what an ingest holds at each stage.
LEMMA HoldsStep ==
    ASSUME IInv, [Next]_vars PROVE HoldsItsFile'
<1>1. ASSUME NEW i \in Ingests, Post(i) PROVE HoldsItsFile'
  BY <1>1 DEF Post, Goto, readerVars, IInv, TypeOK, HoldsItsFile, Working,
       InTransaction
<1>2. ASSUME NEW i \in Ingests, CommandLine(i) PROVE HoldsItsFile'
  BY <1>2 DEF CommandLine, Goto, readerVars, IInv, TypeOK, HoldsItsFile,
       Working, InTransaction
<1>3. ASSUME NEW i \in Ingests, TryLock(i) PROVE HoldsItsFile'
  BY <1>3 DEF TryLock, Goto, ingestVars, readerVars, IInv, TypeOK,
       HoldsItsFile, Working, InTransaction
<1>4. ASSUME NEW i \in Ingests, ReportUnchanged(i) PROVE HoldsItsFile'
  <2>1. Len(todo[i]) > 1 => Tail(todo[i]) # <<>>
    BY <1>4, AtWork, TailNotEmpty DEF ReportUnchanged, IInv, TypeOK,
         Working, InTransaction
  <2> QED
    BY <1>4, <2>1 DEF ReportUnchanged, FinishFile, ForgetFile, Goto, IInv,
         TypeOK, HoldsItsFile, Working, InTransaction
<1>5. ASSUME NEW i \in Ingests, FindChanged(i) PROVE HoldsItsFile'
  BY <1>5, AtWork, FilesAssumption DEF FindChanged, Goto, readerVars, IInv,
       TypeOK, HoldsItsFile, Working, InTransaction
<1>6. ASSUME NEW i \in Ingests, LoadAndEmbed(i) PROVE HoldsItsFile'
  BY <1>6, AtWork, FilesAssumption DEF LoadAndEmbed, Goto, readerVars, IInv,
       TypeOK, HoldsItsFile, Working, InTransaction
<1>7. ASSUME NEW i \in Ingests, SelectExisting(i) PROVE HoldsItsFile'
  BY <1>7 DEF SelectExisting, Goto, readerVars, IInv, TypeOK, HoldsItsFile,
       Working, InTransaction
<1>8. ASSUME NEW i \in Ingests, DeleteExisting(i) PROVE HoldsItsFile'
  BY <1>8 DEF DeleteExisting, Goto, readerVars, IInv, TypeOK, HoldsItsFile,
       Working, InTransaction
<1>9. ASSUME NEW i \in Ingests, InsertDocument(i) PROVE HoldsItsFile'
  BY <1>9 DEF InsertDocument, Goto, readerVars, IInv, TypeOK, HoldsItsFile,
       Working, InTransaction
<1>10. ASSUME NEW i \in Ingests, Commit(i) PROVE HoldsItsFile'
  <2>1. Len(todo[i]) > 1 => Tail(todo[i]) # <<>>
    BY <1>10, AtWork, TailNotEmpty DEF Commit, IInv, TypeOK, Working,
         InTransaction
  <2> QED
    BY <1>10, <2>1 DEF Commit, FinishFile, ForgetFile, Goto, IInv, TypeOK,
         HoldsItsFile, Working, InTransaction
<1>11. ASSUME NEW i \in Ingests, Collide(i) PROVE HoldsItsFile'
  BY <1>11 DEF Collide, Unwind, ForgetRun, ForgetFile, Goto, readerVars, IInv,
       TypeOK, HoldsItsFile, Working, InTransaction
<1>12. ASSUME NEW i \in Ingests, Unlock(i) PROVE HoldsItsFile'
  BY <1>12 DEF Unlock, Goto, ingestVars, readerVars, IInv, TypeOK,
       HoldsItsFile, Working, InTransaction
<1>13. ASSUME NEW i \in Ingests, Fail(i) PROVE HoldsItsFile'
  BY <1>13 DEF Fail, Unwind, ForgetRun, ForgetFile, Committed, Goto,
       readerVars, IInv, TypeOK, HoldsItsFile, Working, InTransaction
<1>14. ASSUME NEW i \in Ingests, Crash(i) PROVE HoldsItsFile'
  BY <1>14 DEF Crash, ForgetRun, ForgetFile, Committed, Goto, readerVars,
       IInv, TypeOK, HoldsItsFile, Working, InTransaction
<1>15. ASSUME NEW i \in Ingests, LoseLock(i) PROVE HoldsItsFile'
  BY <1>15 DEF LoseLock, ingestVars, readerVars, IInv, TypeOK, HoldsItsFile,
       Working, InTransaction
<1>16. ASSUME NEW r \in Readers, Retrieve(r) PROVE HoldsItsFile'
  BY <1>16 DEF Retrieve, CheckEmbedder, Search, Identities, ingestVars, IInv,
       TypeOK, HoldsItsFile, Working, InTransaction
<1>17. ASSUME NEW f \in Files, Edit(f) PROVE HoldsItsFile'
  BY <1>17 DEF Edit, ingestVars, readerVars, IInv, TypeOK, HoldsItsFile,
       Working, InTransaction
<1>18. CASE UNCHANGED vars
  BY <1>18 DEF vars, ingestVars, readerVars, IInv, TypeOK, HoldsItsFile,
       Working, InTransaction
<1>19. QED
  BY <1>1, <1>2, <1>3, <1>4, <1>5, <1>6, <1>7, <1>8, <1>9, <1>10, <1>11,
       <1>12, <1>13, <1>14, <1>15, <1>16, <1>17, <1>18 DEF Next, Step

\* Every step keeps what an open transaction has touched.
LEMMA TouchesStep ==
    ASSUME IInv, [Next]_vars PROVE TouchesOwnSource'
<1>1. ASSUME NEW i \in Ingests, Post(i) PROVE TouchesOwnSource'
  <2>1. existing[i] = {} /\ deleted[i] = {} /\ inserted[i] = {}
    BY <1>1, NothingTouched DEF Post, InTransaction
  <2>2. /\ stage'[i] # "commit"
        /\ UNCHANGED <<existing, deleted, inserted>>
        /\ \A j \in Ingests \ {i} : stage'[j] = stage[j] /\ todo'[j] = todo[j]
    BY <1>1 DEF Post, Goto, IInv, TypeOK
  <2> QED
    BY <2>1, <2>2 DEF IInv, TouchesOwnSource, File
<1>2. ASSUME NEW i \in Ingests, CommandLine(i) PROVE TouchesOwnSource'
  <2>1. existing[i] = {} /\ deleted[i] = {} /\ inserted[i] = {}
    BY <1>2, NothingTouched DEF CommandLine, InTransaction
  <2>2. /\ stage'[i] # "commit"
        /\ UNCHANGED <<existing, deleted, inserted>>
        /\ \A j \in Ingests \ {i} : stage'[j] = stage[j] /\ todo'[j] = todo[j]
    BY <1>2 DEF CommandLine, Goto, IInv, TypeOK
  <2> QED
    BY <2>1, <2>2 DEF IInv, TouchesOwnSource, File
<1>3. ASSUME NEW i \in Ingests, TryLock(i) PROVE TouchesOwnSource'
  BY <1>3 DEF TryLock, Goto, ingestVars, readerVars, IInv, TypeOK,
       TouchesOwnSource, File, InTransaction
<1>4. ASSUME NEW i \in Ingests, ReportUnchanged(i) PROVE TouchesOwnSource'
  <2>1. stage'[i] # "commit" /\ existing'[i] = {} /\ deleted'[i] = {} /\
       inserted'[i] = {}
    BY <1>4 DEF ReportUnchanged, FinishFile, ForgetFile, Goto, IInv, TypeOK
  <2>2. \A j \in Ingests \ {i} :
          /\ stage'[j] = stage[j] /\ todo'[j] = todo[j] /\ existing'[j] = existing[j]
          /\ deleted'[j] = deleted[j] /\ inserted'[j] = inserted[j]
    BY <1>4 DEF ReportUnchanged, FinishFile, ForgetFile, Goto, IInv, TypeOK
  <2> QED
    BY <2>1, <2>2 DEF IInv, TouchesOwnSource, File
<1>5. ASSUME NEW i \in Ingests, FindChanged(i) PROVE TouchesOwnSource'
  BY <1>5 DEF FindChanged, Goto, readerVars, IInv, TypeOK, TouchesOwnSource,
       File, InTransaction
<1>6. ASSUME NEW i \in Ingests, LoadAndEmbed(i) PROVE TouchesOwnSource'
  BY <1>6 DEF LoadAndEmbed, Goto, readerVars, IInv, TypeOK, TouchesOwnSource,
       File, InTransaction
<1>7. ASSUME NEW i \in Ingests, SelectExisting(i) PROVE TouchesOwnSource'
  BY <1>7 DEF SelectExisting, Goto, readerVars, IInv, TypeOK,
       TouchesOwnSource, File, InTransaction
<1>8. ASSUME NEW i \in Ingests, DeleteExisting(i) PROVE TouchesOwnSource'
  BY <1>8 DEF DeleteExisting, Goto, readerVars, IInv, TypeOK,
       TouchesOwnSource, File, InTransaction
<1>9. ASSUME NEW i \in Ingests, InsertDocument(i) PROVE TouchesOwnSource'
  <2>1. NewDocument(i).source = SourceOf[File(i)]
    BY DEF NewDocument
  <2> QED
    BY <1>9, <2>1 DEF InsertDocument, Goto, readerVars, IInv, TypeOK,
         TouchesOwnSource, File, InTransaction
<1>10. ASSUME NEW i \in Ingests, Commit(i) PROVE TouchesOwnSource'
  <2>1. stage'[i] # "commit" /\ existing'[i] = {} /\ deleted'[i] = {} /\
       inserted'[i] = {}
    BY <1>10 DEF Commit, FinishFile, ForgetFile, Goto, IInv, TypeOK
  <2>2. \A j \in Ingests \ {i} :
          /\ stage'[j] = stage[j] /\ todo'[j] = todo[j] /\ existing'[j] = existing[j]
          /\ deleted'[j] = deleted[j] /\ inserted'[j] = inserted[j]
    BY <1>10 DEF Commit, FinishFile, ForgetFile, Goto, IInv, TypeOK
  <2> QED
    BY <2>1, <2>2 DEF IInv, TouchesOwnSource, File
<1>11. ASSUME NEW i \in Ingests, Collide(i) PROVE TouchesOwnSource'
  BY <1>11 DEF Collide, Unwind, ForgetRun, ForgetFile, Goto, readerVars, IInv,
       TypeOK, TouchesOwnSource, File, InTransaction
<1>12. ASSUME NEW i \in Ingests, Unlock(i) PROVE TouchesOwnSource'
  BY <1>12 DEF Unlock, Goto, ingestVars, readerVars, IInv, TypeOK,
       TouchesOwnSource, File, InTransaction
<1>13. ASSUME NEW i \in Ingests, Fail(i) PROVE TouchesOwnSource'
  BY <1>13 DEF Fail, Unwind, ForgetRun, ForgetFile, Committed, Goto,
       readerVars, IInv, TypeOK, TouchesOwnSource, File, InTransaction
<1>14. ASSUME NEW i \in Ingests, Crash(i) PROVE TouchesOwnSource'
  BY <1>14 DEF Crash, ForgetRun, ForgetFile, Committed, Goto, readerVars,
       IInv, TypeOK, TouchesOwnSource, File, InTransaction
<1>15. ASSUME NEW i \in Ingests, LoseLock(i) PROVE TouchesOwnSource'
  BY <1>15 DEF LoseLock, ingestVars, readerVars, IInv, TypeOK,
       TouchesOwnSource, File, InTransaction
<1>16. ASSUME NEW r \in Readers, Retrieve(r) PROVE TouchesOwnSource'
  BY <1>16 DEF Retrieve, CheckEmbedder, Search, Identities, ingestVars, IInv,
       TypeOK, TouchesOwnSource, File, InTransaction
<1>17. ASSUME NEW f \in Files, Edit(f) PROVE TouchesOwnSource'
  BY <1>17 DEF Edit, ingestVars, readerVars, IInv, TypeOK, TouchesOwnSource,
       File, InTransaction
<1>18. CASE UNCHANGED vars
  BY <1>18 DEF vars, ingestVars, readerVars, IInv, TypeOK, TouchesOwnSource,
       File, InTransaction
<1>19. QED
  BY <1>1, <1>2, <1>3, <1>4, <1>5, <1>6, <1>7, <1>8, <1>9, <1>10, <1>11,
       <1>12, <1>13, <1>14, <1>15, <1>16, <1>17, <1>18 DEF Next, Step

-----------------------------------------------------------------------------
\* The initial states satisfy the inductive invariant.
LEMMA InitInv == Init => IInv
<1> SUFFICES ASSUME Init PROVE IInv
  OBVIOUS
<1>1. docs \subseteq Document
  <2>1. \A f \in Files, c \in Contents, e \in Embedders :
          EarlierDocument(f, c, e) \in Document
    BY FilesAssumption DEF EarlierDocument, Document
  <2> QED
    BY <2>1 DEF Init, EarlierCorpora
<1>2. edits \in 0..MaxEdits
  BY BoundsAssumption DEF Init
<1>3. /\ todo \in [Ingests -> Seq(Files)]
      /\ manifest \in [Ingests -> Seq(Report)]
  BY DEF Init
<1>4. TypeOK
  BY <1>1, <1>2, <1>3, EmbeddersAssumption DEF Init, TypeOK, Stage
<1> QED
  BY <1>4 DEF Init, IInv, HoldsItsFile, TouchesOwnSource, Working, InTransaction

LEMMA Invariance == Spec => []IInv
<1>1. IInv /\ [Next]_vars => IInv'
  BY TypeStep, HoldsStep, TouchesStep DEF IInv
<1> QED
  BY InitInv, <1>1, PTL DEF Spec

\* Every variable of the pipeline keeps its type: the file, hash and content an
\* ingest works with are there whenever it uses them.
THEOREM CorpusTypeCorrect == Spec => []TypeOK
<1>1. IInv => TypeOK
  BY DEF IInv
<1> QED
  BY Invariance, <1>1, PTL

\* A commit takes no source away.
LEMMA CommitKeepsSources ==
    ASSUME IInv, NEW i \in Ingests, stage[i] = "commit", docs' = Committed(i)
    PROVE \A d \in docs : \E e \in docs' : e.source = d.source
<1>1. PICK new \in inserted[i] : new.source = SourceOf[File(i)]
  BY DEF IInv, TouchesOwnSource
<1> TAKE d \in docs
<1>2. CASE d \in deleted[i]
  <2>1. d.source = new.source
    BY <1>1, <1>2 DEF IInv, TouchesOwnSource
  <2> QED
    BY <2>1 DEF Committed
<1>3. CASE d \notin deleted[i]
  BY <1>3 DEF Committed
<1> QED
  BY <1>2, <1>3

\* A source that can be searched stays searchable, for any number of ingests
\* that replace it at once, fail or die: pipeline.py deletes and inserts in one
\* transaction and deletes nothing else.
THEOREM SourcesStaySearchable == Spec => SourceNeverVanishes
<1> DEFINE Kept == \A d \in docs : \E e \in docs' : e.source = d.source
<1>1. ASSUME IInv, [Next]_vars PROVE [Kept]_vars
  <2>1. ASSUME NEW i \in Ingests, Commit(i) PROVE Kept
    BY <1>1, <2>1, CommitKeepsSources DEF Commit
  <2>2. ASSUME NEW i \in Ingests, Fail(i) \/ Crash(i) PROVE Kept
    BY <1>1, <2>2, CommitKeepsSources DEF Fail, Crash
  <2>3. CASE UNCHANGED docs
    BY <2>3
  <2>4. ASSUME NEW i \in Ingests,
               Post(i) \/ CommandLine(i) \/ Step(i) \/ LoseLock(i), ~Commit(i)
        PROVE UNCHANGED docs
    BY <2>4 DEF Post, CommandLine, Step, LoseLock, TryLock, ReportUnchanged,
         FindChanged, LoadAndEmbed, SelectExisting, DeleteExisting,
         InsertDocument, Collide, Unlock
  <2>5. ASSUME NEW r \in Readers, Retrieve(r) PROVE UNCHANGED docs
    BY <2>5 DEF Retrieve, CheckEmbedder, Search
  <2>6. ASSUME NEW f \in Files, Edit(f) PROVE UNCHANGED docs
    BY <2>6 DEF Edit
  <2> HIDE DEF Kept
  <2> QED
    BY <1>1, <2>1, <2>2, <2>3, <2>4, <2>5, <2>6 DEF Next
<1> QED
  BY Invariance, <1>1, PTL DEF Spec, SourceNeverVanishes

-----------------------------------------------------------------------------
\* Ingests that exclude each other: no step of a run that is single-flight
\* afterwards was taken while it was not, and only one is at work.
LEMMA FlightBefore ==
    ASSUME IInv, HoldsLock, [Next]_vars, SingleFlight' PROVE SingleFlight
<1> DEFINE Grows == /\ lost => lost'
                    /\ \A i \in Ingests : kind[i] = "cli" => kind'[i] = "cli"
                    /\ \A i \in Ingests : stage[i] # "idle" => stage'[i] # "idle"
<1>1. ASSUME NEW i \in Ingests, Post(i) PROVE Grows
  BY <1>1 DEF Post, Goto, HoldsLock, IInv, TypeOK
<1>2. ASSUME NEW i \in Ingests, CommandLine(i) PROVE Grows
  BY <1>2 DEF CommandLine, Goto, HoldsLock, IInv, TypeOK
<1>3. ASSUME NEW i \in Ingests, TryLock(i) \/ Unlock(i) \/ LoseLock(i) PROVE
     Grows
  BY <1>3 DEF TryLock, Unlock, LoseLock, Goto, ingestVars, IInv, TypeOK
<1>4. ASSUME NEW i \in Ingests, ReportUnchanged(i) \/ Commit(i) PROVE Grows
  BY <1>4 DEF ReportUnchanged, Commit, FinishFile, Goto, IInv, TypeOK
<1>5. ASSUME NEW i \in Ingests,
             FindChanged(i) \/ LoadAndEmbed(i) \/ SelectExisting(i)
             \/ DeleteExisting(i) \/ InsertDocument(i)
      PROVE Grows
  BY <1>5 DEF FindChanged, LoadAndEmbed, SelectExisting, DeleteExisting,
       InsertDocument, Goto, IInv, TypeOK
<1>6. ASSUME NEW i \in Ingests, Collide(i) \/ Fail(i) \/ Crash(i) PROVE Grows
  BY <1>6 DEF Collide, Fail, Crash, Unwind, Goto, IInv, TypeOK
<1>7. ASSUME NEW r \in Readers, Retrieve(r) PROVE Grows
  BY <1>7 DEF Retrieve, CheckEmbedder, Search, ingestVars
<1>8. ASSUME NEW f \in Files, Edit(f) PROVE Grows
  BY <1>8 DEF Edit, ingestVars
<1>9. ASSUME UNCHANGED vars PROVE Grows
  BY <1>9 DEF vars, ingestVars, readerVars, IInv, TypeOK
<1>10. ASSUME Next PROVE Grows
  <2> HIDE DEF Grows
  <2> QED
    BY <1>10, <1>1, <1>2, <1>3, <1>4, <1>5, <1>6, <1>7, <1>8 DEF Next, Step
<1>11. Grows
  BY <1>9, <1>10
<1> QED
  BY <1>11 DEF SingleFlight, IInv, TypeOK

LEMMA OneAtWork ==
    ASSUME IInv, HoldsLock, SingleFlight,
           NEW i \in Ingests, stage[i] \in Working,
           NEW j \in Ingests, stage[j] \in Working
    PROVE i = j
<1>1. stage[i] # "idle" /\ stage[j] # "idle"
  BY DEF Working, InTransaction
<1>2. kind[i] \in {"route", "cli"} /\ kind[j] \in {"route", "cli"}
  BY <1>1 DEF HoldsLock, IInv, TypeOK
<1>3. CASE kind[i] = "cli" \/ kind[j] = "cli"
  BY <1>1, <1>3 DEF SingleFlight
<1>4. CASE kind[i] = "route" /\ kind[j] = "route"
  BY <1>4 DEF HoldsLock, SingleFlight
<1> QED
  BY <1>2, <1>3, <1>4

\* Every step keeps who holds the lock.
LEMMA LockStep ==
    ASSUME IInv, HoldsLock, [Next]_vars PROVE HoldsLock'
<1>1. ASSUME NEW i \in Ingests, Post(i) PROVE HoldsLock'
  BY <1>1 DEF Post, Goto, readerVars, HoldsLock, Working, InTransaction, IInv,
       TypeOK
<1>2. ASSUME NEW i \in Ingests, CommandLine(i) PROVE HoldsLock'
  BY <1>2 DEF CommandLine, Goto, readerVars, HoldsLock, Working,
       InTransaction, IInv, TypeOK
<1>3. ASSUME NEW i \in Ingests, TryLock(i) PROVE HoldsLock'
  BY <1>3, NoneAssumption DEF TryLock, Goto, ingestVars, readerVars,
       HoldsLock, Working, InTransaction, IInv, TypeOK
<1>4. ASSUME NEW i \in Ingests, ReportUnchanged(i) PROVE HoldsLock'
  <2>1. /\ UNCHANGED <<kind, lock, lost>>
        /\ stage[i] \in Working /\ stage'[i] # "idle"
        /\ \A j \in Ingests \ {i} : stage'[j] = stage[j]
    BY <1>4 DEF ReportUnchanged, FinishFile, Goto, Working, InTransaction,
         IInv, TypeOK
  <2> QED
    BY <2>1 DEF HoldsLock, Working, InTransaction
<1>5. ASSUME NEW i \in Ingests, FindChanged(i) PROVE HoldsLock'
  BY <1>5 DEF FindChanged, Goto, readerVars, HoldsLock, Working,
       InTransaction, IInv, TypeOK
<1>6. ASSUME NEW i \in Ingests, LoadAndEmbed(i) PROVE HoldsLock'
  BY <1>6 DEF LoadAndEmbed, Goto, readerVars, HoldsLock, Working,
       InTransaction, IInv, TypeOK
<1>7. ASSUME NEW i \in Ingests, SelectExisting(i) PROVE HoldsLock'
  BY <1>7 DEF SelectExisting, Goto, readerVars, HoldsLock, Working,
       InTransaction, IInv, TypeOK
<1>8. ASSUME NEW i \in Ingests, DeleteExisting(i) PROVE HoldsLock'
  BY <1>8 DEF DeleteExisting, Goto, readerVars, HoldsLock, Working,
       InTransaction, IInv, TypeOK
<1>9. ASSUME NEW i \in Ingests, InsertDocument(i) PROVE HoldsLock'
  BY <1>9 DEF InsertDocument, Goto, readerVars, HoldsLock, Working,
       InTransaction, IInv, TypeOK
<1>10. ASSUME NEW i \in Ingests, Commit(i) PROVE HoldsLock'
  <2>1. /\ UNCHANGED <<kind, lock, lost>>
        /\ stage[i] \in Working /\ stage'[i] # "idle"
        /\ \A j \in Ingests \ {i} : stage'[j] = stage[j]
    BY <1>10 DEF Commit, FinishFile, Goto, Working, InTransaction, IInv, TypeOK
  <2> QED
    BY <2>1 DEF HoldsLock, Working, InTransaction
<1>11. ASSUME NEW i \in Ingests, Collide(i) PROVE HoldsLock'
  BY <1>11 DEF Collide, Unwind, ForgetRun, ForgetFile, Goto, readerVars,
       HoldsLock, Working, InTransaction, IInv, TypeOK
<1>12. ASSUME NEW i \in Ingests, Unlock(i) PROVE HoldsLock'
  BY <1>12 DEF Unlock, Goto, ingestVars, readerVars, HoldsLock, Working,
       InTransaction, IInv, TypeOK
<1>13. ASSUME NEW i \in Ingests, Fail(i) PROVE HoldsLock'
  BY <1>13 DEF Fail, Unwind, ForgetRun, ForgetFile, Committed, Goto,
       readerVars, HoldsLock, Working, InTransaction, IInv, TypeOK
<1>14. ASSUME NEW i \in Ingests, Crash(i) PROVE HoldsLock'
  BY <1>14 DEF Crash, ForgetRun, ForgetFile, Committed, Goto, readerVars,
       HoldsLock, Working, InTransaction, IInv, TypeOK
<1>15. ASSUME NEW i \in Ingests, LoseLock(i) PROVE HoldsLock'
  BY <1>15 DEF LoseLock, ingestVars, readerVars, HoldsLock, Working,
       InTransaction, IInv, TypeOK
<1>16. ASSUME NEW r \in Readers, Retrieve(r) PROVE HoldsLock'
  BY <1>16 DEF Retrieve, CheckEmbedder, Search, Identities, ingestVars,
       HoldsLock, Working, InTransaction, IInv, TypeOK
<1>17. ASSUME NEW f \in Files, Edit(f) PROVE HoldsLock'
  BY <1>17 DEF Edit, ingestVars, readerVars, HoldsLock, Working,
       InTransaction, IInv, TypeOK
<1>18. CASE UNCHANGED vars
  BY <1>18 DEF vars, ingestVars, readerVars, HoldsLock, Working,
       InTransaction, IInv, TypeOK
<1>19. QED
  BY <1>1, <1>2, <1>3, <1>4, <1>5, <1>6, <1>7, <1>8, <1>9, <1>10, <1>11,
       <1>12, <1>13, <1>14, <1>15, <1>16, <1>17, <1>18 DEF Next, Step

\* Steps that end the transaction of an ingest at work, or touch the rows of
\* none, leave every other ingest as it was.
OthersUntouched(i) ==
    \A j \in Ingests \ {i} :
        /\ stage'[j] = stage[j] /\ todo'[j] = todo[j]
        /\ existing'[j] = existing[j] /\ deleted'[j] = deleted[j]
        /\ inserted'[j] = inserted[j]

LEMMA EndsTransaction ==
    ASSUME FlightInv, SingleFlight, NEW i \in Ingests, stage[i] \in Working,
           OthersUntouched(i), stage'[i] \notin InTransaction, inserted'[i] = {},
           docs' = docs \/ (stage[i] = "commit" /\ docs' = Committed(i))
    PROVE SeesItsSource' /\ OneDocumentPerSource'
<1>1. ASSUME NEW j \in Ingests, j # i PROVE stage[j] \notin InTransaction
  BY <1>1, OneAtWork DEF FlightInv, Working
<1>2. SeesItsSource'
  <2>1. \A j \in Ingests : stage'[j] \notin InTransaction
    BY <1>1 DEF OthersUntouched
  <2>2. \A j \in Ingests : \A d, e \in inserted'[j] : d = e
    BY DEF OthersUntouched, FlightInv, SeesItsSource
  <2> QED
    BY <2>1, <2>2 DEF SeesItsSource, InTransaction
<1>3. CASE docs' = docs
  BY <1>2, <1>3 DEF FlightInv, OneDocumentPerSource
<1>4. CASE stage[i] = "commit" /\ docs' = Committed(i)
  <2>1. \A d \in docs : d.source = SourceOf[File(i)] => d \in deleted[i]
    BY <1>4 DEF FlightInv, SeesItsSource, InTransaction
  <2>2. \A d \in inserted[i] : d.source = SourceOf[File(i)]
    BY DEF FlightInv, IInv, TouchesOwnSource
  <2>3. \A d, e \in inserted[i] : d = e
    BY DEF FlightInv, SeesItsSource
  <2>4. \A d, e \in docs : d.source = e.source => d = e
    BY DEF FlightInv, OneDocumentPerSource
  <2>5. \A d, e \in docs' : d.source = e.source => d = e
    BY <1>4, <2>1, <2>2, <2>3, <2>4 DEF Committed
  <2> QED
    BY <1>2, <2>5 DEF OneDocumentPerSource
<1> QED
  BY <1>2, <1>3, <1>4

\* Steps outside a transaction and without a commit change nothing it sees.
LEMMA TouchesNothing ==
    ASSUME FlightInv, SingleFlight, NEW i \in Ingests,
           stage[i] \notin InTransaction, stage'[i] \notin InTransaction,
           \A j \in Ingests \ {i} : stage'[j] = stage[j] /\ todo'[j] = todo[j],
           UNCHANGED <<docs, existing, deleted, inserted>>
    PROVE SeesItsSource' /\ OneDocumentPerSource'
<1>1. OneDocumentPerSource'
  BY DEF FlightInv, OneDocumentPerSource
<1>2. SeesItsSource'
  BY DEF FlightInv, SeesItsSource, InTransaction, File
<1> QED
  BY <1>1, <1>2

\* Every step keeps the view of the open transaction and one document per
\* source, unless ingests run beside each other after it.
LEMMA FlightStep ==
    ASSUME FlightInv, [Next]_vars PROVE SeesItsSource' /\ OneDocumentPerSource'
<1> DEFINE Goal == SeesItsSource' /\ OneDocumentPerSource'
<1> SUFFICES ASSUME SingleFlight' PROVE Goal
  BY DEF SeesItsSource, OneDocumentPerSource
<1>0. SingleFlight
  BY FlightBefore DEF FlightInv
<1>1. ASSUME NEW i \in Ingests, Post(i) \/ CommandLine(i) \/ TryLock(i) \/
     Unlock(i)
      PROVE Goal
  <2>1. /\ stage[i] \notin InTransaction /\ stage'[i] \notin InTransaction
        /\ \A j \in Ingests \ {i} : stage'[j] = stage[j] /\ todo'[j] = todo[j]
        /\ UNCHANGED <<docs, existing, deleted, inserted>>
    BY <1>1 DEF Post, CommandLine, TryLock, Unlock, Goto, ingestVars,
         InTransaction,
         FlightInv, IInv, TypeOK
  <2> QED
    BY <1>0, <2>1, TouchesNothing
<1>2. ASSUME NEW i \in Ingests, FindChanged(i) \/ LoadAndEmbed(i) PROVE Goal
  <2>1. /\ stage[i] \notin InTransaction /\ stage'[i] \notin InTransaction
        /\ \A j \in Ingests \ {i} : stage'[j] = stage[j] /\ todo'[j] = todo[j]
        /\ UNCHANGED <<docs, existing, deleted, inserted>>
    BY <1>2 DEF FindChanged, LoadAndEmbed, Goto, InTransaction, FlightInv,
         IInv, TypeOK
  <2> QED
    BY <1>0, <2>1, TouchesNothing
<1>3. ASSUME NEW i \in Ingests, ReportUnchanged(i) \/ Commit(i) PROVE Goal
  <2>1. stage[i] \in Working
    BY <1>3 DEF ReportUnchanged, Commit, Working, InTransaction
  <2>2. stage'[i] \notin InTransaction /\ inserted'[i] = {}
    BY <1>3 DEF ReportUnchanged, Commit, FinishFile, ForgetFile, Goto,
         InTransaction, FlightInv, IInv, TypeOK
  <2>3. OthersUntouched(i)
    BY <1>3 DEF ReportUnchanged, Commit, FinishFile, ForgetFile, Goto,
         OthersUntouched, FlightInv, IInv, TypeOK
  <2>4. docs' = docs \/ (stage[i] = "commit" /\ docs' = Committed(i))
    BY <1>3 DEF ReportUnchanged, Commit
  <2> QED
    BY <1>0, <2>1, <2>2, <2>3, <2>4, EndsTransaction
<1>4. ASSUME NEW i \in Ingests, Collide(i) \/ Fail(i) \/ Crash(i), stage[i] \in
     Working
      PROVE Goal
  <2>1. stage'[i] \notin InTransaction /\ inserted'[i] = {}
    BY <1>4 DEF Collide, Fail, Crash, Unwind, ForgetRun, ForgetFile, Goto,
         InTransaction, FlightInv, IInv, TypeOK
  <2>2. OthersUntouched(i)
    BY <1>4 DEF Collide, Fail, Crash, Unwind, ForgetRun, ForgetFile, Goto,
         OthersUntouched, FlightInv, IInv, TypeOK
  <2>3. docs' = docs \/ (stage[i] = "commit" /\ docs' = Committed(i))
    BY <1>4 DEF Collide, Fail, Crash
  <2> QED
    BY <1>0, <1>4, <2>1, <2>2, <2>3, EndsTransaction
<1>5. ASSUME NEW i \in Ingests, Crash(i), stage[i] \notin Working PROVE Goal
  <2>1. existing[i] = {} /\ deleted[i] = {} /\ inserted[i] = {}
    BY <1>5, NothingTouched DEF FlightInv, Working
  <2>2. UNCHANGED <<existing, deleted, inserted>>
    BY <1>5, <2>1 DEF Crash, ForgetRun, ForgetFile, FlightInv, IInv, TypeOK
  <2>3. /\ stage[i] \notin InTransaction /\ stage'[i] \notin InTransaction
        /\ \A j \in Ingests \ {i} : stage'[j] = stage[j] /\ todo'[j] = todo[j]
        /\ UNCHANGED docs
    BY <1>5 DEF Crash, ForgetRun, Goto, Working, InTransaction, FlightInv,
         IInv, TypeOK
  <2> QED
    BY <1>0, <2>2, <2>3, TouchesNothing
<1>6. ASSUME NEW i \in Ingests, SelectExisting(i) PROVE Goal
  BY <1>0, <1>6 DEF SelectExisting, Goto, File, SeesItsSource,
       OneDocumentPerSource,
     InTransaction, FlightInv, IInv, TypeOK
<1>7. ASSUME NEW i \in Ingests, DeleteExisting(i) PROVE Goal
  <2>1. existing[i] \cap docs = existing[i]
    BY <1>0, <1>7 DEF DeleteExisting, FlightInv, SeesItsSource, InTransaction
  <2> QED
    BY <1>0, <1>7, <2>1 DEF DeleteExisting, Goto, File, SeesItsSource,
       OneDocumentPerSource, InTransaction, FlightInv, IInv, TypeOK
<1>8. ASSUME NEW i \in Ingests, InsertDocument(i) PROVE Goal
  BY <1>0, <1>8 DEF InsertDocument, Goto, File, SeesItsSource,
       OneDocumentPerSource,
     InTransaction, FlightInv, IInv, TypeOK
<1>9. ASSUME UNCHANGED <<docs, stage, todo, existing, deleted, inserted>> PROVE
     Goal
  BY <1>0, <1>9 DEF File, SeesItsSource, OneDocumentPerSource, FlightInv
<1>10. ASSUME NEW i \in Ingests, LoseLock(i)
       PROVE UNCHANGED <<docs, stage, todo, existing, deleted, inserted>>
  BY <1>10 DEF LoseLock, ingestVars
<1>11. ASSUME NEW r \in Readers, Retrieve(r)
       PROVE UNCHANGED <<docs, stage, todo, existing, deleted, inserted>>
  BY <1>11 DEF Retrieve, CheckEmbedder, Search, ingestVars
<1>12. ASSUME NEW f \in Files, Edit(f)
       PROVE UNCHANGED <<docs, stage, todo, existing, deleted, inserted>>
  BY <1>12 DEF Edit, ingestVars
<1>13. ASSUME UNCHANGED vars
       PROVE UNCHANGED <<docs, stage, todo, existing, deleted, inserted>>
  BY <1>13 DEF vars, ingestVars
<1>14. ASSUME NEW i \in Ingests, Collide(i) \/ Fail(i) PROVE stage[i] \in
     Working
  BY <1>14 DEF Collide, Fail, Working, InTransaction
<1> HIDE DEF Goal
<1> QED
  BY <1>1, <1>2, <1>3, <1>4, <1>5, <1>6, <1>7, <1>8, <1>9, <1>10, <1>11, <1>12,
     <1>13, <1>14 DEF Next, Step

\* Single flight, for any number of ingests and whatever fails or dies: as long
\* as only routes run and no lock was lost, or one command line runs by itself,
\* a source has at most one document.
THEOREM SingleFlightKeepsOneDocument == Spec => []OneDocumentPerSource
<1>1. Init => FlightInv
  <2> SUFFICES ASSUME Init PROVE FlightInv
    OBVIOUS
  <2>1. HoldsLock
    BY DEF Init, HoldsLock, Working, InTransaction
  <2>2. SeesItsSource
    BY DEF Init, SeesItsSource, InTransaction
  <2>3. OneDocumentPerSource
    BY DEF Init, EarlierCorpora, OneDocumentPerSource
  <2> QED
    BY <2>1, <2>2, <2>3, InitInv DEF FlightInv
<1>2. FlightInv /\ [Next]_vars => FlightInv'
  <2> SUFFICES ASSUME FlightInv, [Next]_vars PROVE FlightInv'
    OBVIOUS
  <2>1. IInv'
    BY TypeStep, HoldsStep, TouchesStep DEF FlightInv, IInv
  <2>2. HoldsLock'
    BY LockStep DEF FlightInv
  <2> QED
    BY <2>1, <2>2, FlightStep DEF FlightInv
<1>3. FlightInv => OneDocumentPerSource
  BY DEF FlightInv
<1> QED
  BY <1>1, <1>2, <1>3, PTL DEF Spec

-----------------------------------------------------------------------------
\* What a retrieval between its two statements relies on: the corpus it checked
\* stays, and only an ingest with another embedder can mix it.
OneEmbedder == \A i \in Ingests : embedder[i] = Deployed

FindsItsOwn ==
    /\ \A i \in Ingests : stage[i] = "idle" => embedder[i] = Deployed
    /\ \A i \in Ingests : \A d \in inserted[i] : d.embedder = embedder[i]
    /\ \A r \in Readers : reader[r] = "search" =>
          docs # {} /\ (OneEmbedder => Identities = {Deployed})
    /\ SearchesOwnVectors

\* What a step can do to the corpus.
LEMMA CorpusCases ==
    ASSUME [Next]_vars
    PROVE  \/ UNCHANGED docs
           \/ \E i \in Ingests : stage[i] = "commit" /\ docs' = Committed(i)
<1>1. ASSUME NEW i \in Ingests, Commit(i) \/ Fail(i) \/ Crash(i)
      PROVE  UNCHANGED docs \/ (stage[i] = "commit" /\ docs' = Committed(i))
  BY <1>1 DEF Commit, Fail, Crash
<1>2. ASSUME NEW i \in Ingests,
             Post(i) \/ CommandLine(i) \/ Step(i) \/ LoseLock(i), ~Commit(i)
      PROVE  UNCHANGED docs
  BY <1>2 DEF Post, CommandLine, Step, LoseLock, TryLock, ReportUnchanged,
       FindChanged, LoadAndEmbed, SelectExisting, DeleteExisting,
       InsertDocument, Collide, Unlock
<1>3. ASSUME NEW r \in Readers, Retrieve(r) PROVE UNCHANGED docs
  BY <1>3 DEF Retrieve, CheckEmbedder, Search
<1>4. ASSUME NEW f \in Files, Edit(f) PROVE UNCHANGED docs
  BY <1>4 DEF Edit
<1>5. ASSUME UNCHANGED vars PROVE UNCHANGED docs
  BY <1>5 DEF vars
<1> QED
  BY <1>1, <1>2, <1>3, <1>4, <1>5 DEF Next

\* An ingest has its embedder from its start, and its row is made with it.
LEMMA EmbedderStep ==
    ASSUME IInv, FindsItsOwn, [Next]_vars
    PROVE  /\ \A i \in Ingests : stage'[i] = "idle" => embedder'[i] = Deployed
           /\ \A i \in Ingests : \A d \in inserted'[i] : d.embedder = embedder'[i]
           /\ \A i \in Ingests : stage[i] # "idle" => embedder'[i] = embedder[i]
<1> DEFINE Goal(i) == /\ stage'[i] = "idle" => embedder'[i] = Deployed
                      /\ \A d \in inserted'[i] : d.embedder = embedder'[i]
                      /\ stage[i] # "idle" => embedder'[i] = embedder[i]
<1> SUFFICES ASSUME NEW i \in Ingests PROVE Goal(i)
  OBVIOUS
<1>t. /\ stage[i] = "idle" => embedder[i] = Deployed
      /\ \A d \in inserted[i] : d.embedder = embedder[i]
      /\ stage[i] = "idle" => inserted[i] = {}
  BY NothingTouched DEF FindsItsOwn, InTransaction
<1>1. ASSUME NEW j \in Ingests, Post(j) PROVE Goal(i)
  BY <1>1, <1>t DEF Post, Goto, IInv, TypeOK
<1>2. ASSUME NEW j \in Ingests, CommandLine(j) PROVE Goal(i)
  BY <1>2, <1>t DEF CommandLine, Goto, IInv, TypeOK
<1>3. ASSUME NEW j \in Ingests,
             TryLock(j) \/ Unlock(j) \/ FindChanged(j) \/ LoadAndEmbed(j)
             \/ SelectExisting(j) \/ DeleteExisting(j)
      PROVE  Goal(i)
  BY <1>3, <1>t DEF TryLock, Unlock, FindChanged, LoadAndEmbed, SelectExisting,
       DeleteExisting, Goto, ingestVars, IInv, TypeOK
<1>4. ASSUME NEW j \in Ingests, InsertDocument(j) PROVE Goal(i)
  <2>1. /\ UNCHANGED embedder
        /\ inserted'[i] = IF i = j THEN {NewDocument(j)} ELSE inserted[i]
        /\ stage'[i] = "idle" => stage[i] = "idle"
    BY <1>4 DEF InsertDocument, Goto, IInv, TypeOK
  <2>2. NewDocument(j).embedder = embedder[j]
    BY DEF NewDocument
  <2> QED
    BY <1>t, <2>1, <2>2
<1>5. ASSUME NEW j \in Ingests,
             ReportUnchanged(j) \/ Commit(j) \/ Collide(j) \/ Fail(j) \/ Crash(j)
      PROVE  Goal(i)
  <2>1. /\ UNCHANGED embedder
        /\ inserted'[i] = {} \/ inserted'[i] = inserted[i]
        /\ stage'[i] = "idle" => stage[i] = "idle"
    BY <1>5 DEF ReportUnchanged, Commit, Collide, Fail, Crash, FinishFile, Unwind,
         ForgetRun, ForgetFile, Goto, IInv, TypeOK
  <2> QED
    BY <1>t, <2>1
<1>6. ASSUME UNCHANGED <<stage, embedder, inserted>> PROVE Goal(i)
  BY <1>6, <1>t
<1>7. ASSUME NEW j \in Ingests, LoseLock(j) PROVE UNCHANGED <<stage, embedder, inserted>>
  BY <1>7 DEF LoseLock, ingestVars
<1>8. ASSUME NEW r \in Readers, Retrieve(r) PROVE UNCHANGED <<stage, embedder, inserted>>
  BY <1>8 DEF Retrieve, CheckEmbedder, Search, ingestVars
<1>9. ASSUME NEW f \in Files, Edit(f) PROVE UNCHANGED <<stage, embedder, inserted>>
  BY <1>9 DEF Edit, ingestVars
<1>10. ASSUME UNCHANGED vars PROVE UNCHANGED <<stage, embedder, inserted>>
  BY <1>10 DEF vars, ingestVars
<1> HIDE DEF Goal
<1> QED
  BY <1>1, <1>2, <1>3, <1>4, <1>5, <1>6, <1>7, <1>8, <1>9, <1>10 DEF Next, Step

\* A corpus with the query's embedder keeps it, whoever commits.
LEMMA IdentitiesStay ==
    ASSUME IInv, FindsItsOwn, [Next]_vars, docs # {}
    PROVE  /\ docs' # {}
           /\ OneEmbedder /\ Identities = {Deployed} => Identities' = {Deployed}
<1>1. CASE UNCHANGED docs
  BY <1>1 DEF Identities
<1>2. ASSUME NEW i \in Ingests, stage[i] = "commit", docs' = Committed(i)
      PROVE  /\ docs' # {}
             /\ OneEmbedder /\ Identities = {Deployed} => Identities' = {Deployed}
  <2>1. docs' # {}
    BY <1>2, CommitKeepsSources
  <2>2. ASSUME OneEmbedder, Identities = {Deployed}, NEW d \in docs'
        PROVE  d.embedder = Deployed
    <3>1. d \in docs \/ d \in inserted[i]
      BY <1>2 DEF Committed
    <3> QED
      BY <2>2, <3>1 DEF Identities, FindsItsOwn, OneEmbedder
  <2> QED
    BY <2>1, <2>2 DEF Identities
<1> QED
  BY <1>1, <1>2, CorpusCases

\* The readers, one step further.
LEMMA ReaderCases ==
    ASSUME IInv, [Next]_vars, NEW r \in Readers
    PROVE  \/ reader'[r] = reader[r] /\ ranked'[r] = ranked[r]
           \/ CheckEmbedder(r) /\ reader'[r] = "search" /\ ranked'[r] = ranked[r]
           \/ Search(r) /\ reader'[r] = "done" /\ ranked'[r] = Identities
<1>1. ASSUME NEW i \in Ingests,
             Post(i) \/ CommandLine(i) \/ Step(i) \/ Fail(i) \/ Crash(i) \/ LoseLock(i)
      PROVE  UNCHANGED readerVars
  BY <1>1 DEF Post, CommandLine, Step, LoseLock, TryLock, ReportUnchanged,
       FindChanged, LoadAndEmbed, SelectExisting, DeleteExisting,
       InsertDocument, Commit, Collide, Unlock, Fail, Crash, Unwind
<1>2. ASSUME NEW f \in Files, Edit(f) PROVE UNCHANGED readerVars
  BY <1>2 DEF Edit
<1>3. ASSUME UNCHANGED vars PROVE UNCHANGED readerVars
  BY <1>3 DEF vars
<1>4. ASSUME UNCHANGED readerVars PROVE reader'[r] = reader[r] /\ ranked'[r] = ranked[r]
  BY <1>4 DEF readerVars
<1>5. ASSUME NEW q \in Readers, Retrieve(q)
      PROVE  \/ reader'[r] = reader[r] /\ ranked'[r] = ranked[r]
             \/ CheckEmbedder(r) /\ reader'[r] = "search" /\ ranked'[r] = ranked[r]
             \/ Search(r) /\ reader'[r] = "done" /\ ranked'[r] = Identities
  <2>1. CASE CheckEmbedder(q)
    BY <2>1 DEF CheckEmbedder, IInv, TypeOK
  <2>2. CASE Search(q)
    BY <2>2 DEF Search, IInv, TypeOK
  <2> QED
    BY <1>5, <2>1, <2>2 DEF Retrieve
<1> QED
  BY <1>1, <1>2, <1>3, <1>4, <1>5 DEF Next

LEMMA FindsStep == ASSUME IInv, FindsItsOwn, [Next]_vars PROVE FindsItsOwn'
<1>1. OneEmbedder' => OneEmbedder
  BY EmbedderStep DEF FindsItsOwn, OneEmbedder
<1>2. ASSUME NEW r \in Readers
      PROVE  /\ reader'[r] = "search" =>
                   docs' # {} /\ (OneEmbedder' => Identities' = {Deployed})
             /\ reader'[r] = "done" =>
                   ranked'[r] # {} /\ (OneEmbedder' => ranked'[r] = {Deployed})
  <2>1. /\ reader[r] = "search" => docs # {} /\ (OneEmbedder => Identities = {Deployed})
        /\ reader[r] = "done" => ranked[r] # {} /\ (OneEmbedder => ranked[r] = {Deployed})
    BY DEF FindsItsOwn, SearchesOwnVectors, OneEmbedder
  <2>2. CASE reader'[r] = reader[r] /\ ranked'[r] = ranked[r]
    BY <1>1, <2>1, <2>2, IdentitiesStay
  <2>3. CASE CheckEmbedder(r) /\ reader'[r] = "search"
    <3>1. Identities = {Deployed} /\ UNCHANGED docs
      BY <2>3 DEF CheckEmbedder
    <3> QED
      BY <2>3, <3>1 DEF Identities
  <2>4. CASE Search(r) /\ reader'[r] = "done" /\ ranked'[r] = Identities
    <3>1. reader[r] = "search"
      BY <2>4 DEF Search
    <3>2. Identities # {}
      BY <2>1, <3>1 DEF Identities
    <3> QED
      BY <1>1, <2>1, <2>4, <3>1, <3>2
  <2> QED
    BY <2>2, <2>3, <2>4, ReaderCases
<1> QED
  BY <1>2, EmbedderStep DEF FindsItsOwn, SearchesOwnVectors, OneEmbedder

\* A retrieval whose identity check passed ranks something, and nothing of
\* another embedder unless an ingest with one is about, whatever commits, fails
\* or dies between its two statements.
THEOREM RetrievalFindsItsOwn == Spec => []SearchesOwnVectors
<1>1. Init => IInv /\ FindsItsOwn
  <2> SUFFICES ASSUME Init PROVE FindsItsOwn
    BY InitInv
  <2> QED
    BY DEF Init, FindsItsOwn, SearchesOwnVectors
<1>2. IInv /\ FindsItsOwn /\ [Next]_vars => (IInv /\ FindsItsOwn)'
  BY FindsStep, TypeStep, HoldsStep, TouchesStep DEF IInv
<1>3. FindsItsOwn => SearchesOwnVectors
  BY DEF FindsItsOwn
<1> QED
  BY <1>1, <1>2, <1>3, PTL DEF Spec

-----------------------------------------------------------------------------
\* The manifest.  A hash names a document only if no file of another source may
\* hold the same content: then an unchanged file is found under its own source.
OwnContents ==
    \A f, g \in Files : VersionsOf[f] \cap VersionsOf[g] # {} => SourceOf[f] = SourceOf[g]

\* What is on disk, in the corpus and in a transaction comes from the files.
FromFile(d) == \E f \in Files : d.source = SourceOf[f] /\ d.hash \in VersionsOf[f]

FromFiles ==
    /\ \A f \in Files : disk[f] \in VersionsOf[f]
    /\ \A d \in docs : FromFile(d)
    /\ \A i \in Ingests :
         /\ stage[i] \in {"load", "select"} \cup InTransaction => hash[i] \in VersionsOf[File(i)]
         /\ \A d \in inserted[i] :
               FromFile(d) /\ d.hash = hash[i] /\ d.embedder = embedder[i]

LastIn(m, n) == \A k \in (n+1)..Len(m) : SourceOf[m[k].file] # SourceOf[m[n].file]

\* What a manifest m of a client e says is so of the corpus D.
SaysSo(m, D, e) ==
    \A n \in DOMAIN m : LastIn(m, n) =>
        \E d \in D : /\ d.hash = m[n].hash
                     /\ d.source = SourceOf[m[n].file]
                     /\ m[n].verdict # "unchanged" => d.embedder = e

\* At every step of an ingest that nothing runs beside.
Alone(i) == stage[i] \in Working \cup {"unlock"} /\ (kind[i] = "cli" \/ lock = i)

ManifestTrue ==
    /\ \A i \in Ingests : stage[i] \in {"idle", "lock"} => manifest[i] = <<>>
    /\ SingleFlight => \A i \in Ingests : Alone(i) => SaysSo(manifest[i], docs, embedder[i])

ReportInv == FlightInv /\ FromFiles /\ ManifestTrue

LEMMA EmptySaysSo == \A D, e : SaysSo(<<>>, D, e)
BY DEF SaysSo

\* A report more: the document it speaks of is there, and of the others none of
\* another source went.
LEMMA AppendSaysSo ==
    ASSUME NEW m \in Seq(Report), NEW report \in Report, NEW D, NEW E, NEW e, SaysSo(m, D, e),
           \A d \in D : d.source # SourceOf[report.file] => d \in E,
           \E d \in E : /\ d.hash = report.hash /\ d.source = SourceOf[report.file]
                        /\ report.verdict # "unchanged" => d.embedder = e
    PROVE  SaysSo(Append(m, report), E, e)
<1> DEFINE a == Append(m, report)
           l == Len(m)
<1>1. /\ l \in Nat /\ Len(a) = l + 1 /\ DOMAIN a = 1..(l + 1) /\ DOMAIN m = 1..l
      /\ \A n \in 1..l : a[n] = m[n]
      /\ a[l + 1] = report
  OBVIOUS
<1> HIDE DEF a, l
<1> SUFFICES ASSUME NEW n \in 1..(l + 1), LastIn(a, n)
             PROVE  \E d \in E : /\ d.hash = a[n].hash
                                 /\ d.source = SourceOf[a[n].file]
                                 /\ a[n].verdict # "unchanged" => d.embedder = e
  BY <1>1 DEF SaysSo, a
<1>2. CASE n = l + 1
  BY <1>1, <1>2
<1>3. CASE n # l + 1
  <2>1. n \in 1..l /\ a[n] = m[n]
    BY <1>1, <1>3
  <2>2. LastIn(m, n)
    <3>1. ASSUME NEW k \in (n+1)..Len(m) PROVE SourceOf[m[k].file] # SourceOf[m[n].file]
      <4>1. k \in (n+1)..Len(a) /\ k \in 1..l
        BY <1>1, <2>1, <3>1 DEF l
      <4> QED
        BY <1>1, <2>1, <4>1 DEF LastIn
    <3> QED
      BY <3>1 DEF LastIn
  <2>3. SourceOf[report.file] # SourceOf[m[n].file]
    <3>1. l + 1 \in (n+1)..Len(a)
      BY <1>1, <2>1
    <3> QED
      BY <1>1, <2>1, <3>1 DEF LastIn
  <2>4. PICK d \in D : /\ d.hash = m[n].hash /\ d.source = SourceOf[m[n].file]
                       /\ m[n].verdict # "unchanged" => d.embedder = e
    BY <1>1, <2>1, <2>2 DEF SaysSo
  <2>5. d \in E
    BY <2>3, <2>4
  <2> QED
    BY <2>1, <2>4, <2>5
<1> QED
  BY <1>2, <1>3

\* The part of FromFiles about one ingest.
OwnFile(i) ==
    /\ stage[i] \in {"load", "select"} \cup InTransaction => hash[i] \in VersionsOf[File(i)]
    /\ \A d \in inserted[i] : FromFile(d) /\ d.hash = hash[i] /\ d.embedder = embedder[i]

LEMMA OwnFileStep ==
    ASSUME IInv, FromFiles, [Next]_vars, NEW i \in Ingests PROVE OwnFile(i)'
<1>t. OwnFile(i) /\ (stage[i] \notin InTransaction => inserted[i] = {})
  BY NothingTouched DEF FromFiles, OwnFile
<1>1. ASSUME NEW j \in Ingests, Post(j) \/ CommandLine(j) PROVE OwnFile(i)'
  <2>1. CASE i = j
    <3>1. stage'[i] \in {"lock", "check", "refused"} /\ inserted' = inserted
          /\ stage[i] = "idle"
      BY <1>1, <2>1 DEF Post, CommandLine, Goto, IInv, TypeOK
    <3>2. inserted'[i] = {}
      BY <1>t, <3>1 DEF InTransaction
    <3> QED
      BY <3>1, <3>2 DEF OwnFile, InTransaction
  <2>2. CASE i # j
    <3>1. /\ stage'[i] = stage[i] /\ todo'[i] = todo[i] /\ embedder'[i] = embedder[i]
          /\ UNCHANGED <<hash, inserted>>
      BY <1>1, <2>2 DEF Post, CommandLine, Goto, IInv, TypeOK
    <3> QED
      BY <1>t, <3>1 DEF OwnFile, File, FromFile
  <2> QED
    BY <2>1, <2>2
<1>2. ASSUME NEW j \in Ingests, TryLock(j) \/ Unlock(j) PROVE OwnFile(i)'
  <2>1. /\ UNCHANGED ingestVars
        /\ stage'[i] = stage[i] \/ stage'[i] \in {"check", "refused", "done", "failed"}
    BY <1>2 DEF TryLock, Unlock, Goto, IInv, TypeOK
  <2> QED
    BY <1>t, <2>1 DEF OwnFile, File, FromFile, ingestVars, InTransaction
<1>3. ASSUME NEW j \in Ingests, FindChanged(j) PROVE OwnFile(i)'
  <2>1. UNCHANGED <<todo, inserted, embedder>>
    BY <1>3 DEF FindChanged
  <2>2. CASE i = j
    <3>1. File(i) \in Files /\ stage[i] = "check"
      BY <1>3, <2>2, AtWork DEF FindChanged, Working
    <3>2. hash'[i] = disk[File(i)] /\ inserted[i] = {}
      BY <1>3, <1>t, <2>2 DEF FindChanged, InTransaction, IInv, TypeOK
    <3> QED
      BY <2>1, <3>1, <3>2 DEF FromFiles, OwnFile, File
  <2>3. CASE i # j
    <3>1. stage'[i] = stage[i] /\ hash'[i] = hash[i]
      BY <1>3, <2>3 DEF FindChanged, Goto, IInv, TypeOK
    <3> QED
      BY <1>t, <2>1, <3>1 DEF OwnFile, File, FromFile
  <2> QED
    BY <2>2, <2>3
<1>4. ASSUME NEW j \in Ingests,
             LoadAndEmbed(j) \/ SelectExisting(j) \/ DeleteExisting(j)
      PROVE  OwnFile(i)'
  <2>1. /\ UNCHANGED <<todo, inserted, embedder, hash>>
        /\ \/ stage'[i] = stage[i]
           \/ stage[i] \in {"load", "select", "delete"}
    BY <1>4 DEF LoadAndEmbed, SelectExisting, DeleteExisting, Goto, IInv, TypeOK
  <2> QED
    BY <1>t, <2>1 DEF OwnFile, File, FromFile, InTransaction
<1>5. ASSUME NEW j \in Ingests, InsertDocument(j) PROVE OwnFile(i)'
  <2>1. UNCHANGED <<todo, embedder, hash>>
    BY <1>5 DEF InsertDocument
  <2>2. CASE i = j
    <3>1. File(i) \in Files /\ hash[i] \in VersionsOf[File(i)]
      BY <1>5, <1>t, <2>2, AtWork DEF InsertDocument, Working, InTransaction, OwnFile
    <3>2. inserted'[i] = {NewDocument(i)}
      BY <1>5, <2>2 DEF InsertDocument, IInv, TypeOK
    <3>3. /\ NewDocument(i).source = SourceOf[File(i)] /\ NewDocument(i).hash = hash[i]
          /\ NewDocument(i).embedder = embedder[i]
      BY DEF NewDocument
    <3>4. FromFile(NewDocument(i))
      BY <3>1, <3>3 DEF FromFile
    <3> QED
      BY <2>1, <3>1, <3>2, <3>3, <3>4 DEF OwnFile, File, FromFile
  <2>3. CASE i # j
    <3>1. stage'[i] = stage[i] /\ inserted'[i] = inserted[i]
      BY <1>5, <2>3 DEF InsertDocument, Goto, IInv, TypeOK
    <3> QED
      BY <1>t, <2>1, <3>1 DEF OwnFile, File, FromFile
  <2> QED
    BY <2>2, <2>3
<1>6. ASSUME NEW j \in Ingests,
             ReportUnchanged(j) \/ Commit(j) \/ Collide(j) \/ Fail(j) \/ Crash(j)
      PROVE  OwnFile(i)'
  <2>1. CASE i = j
    <3>1. /\ inserted'[i] = {}
          /\ stage'[i] \in {"check", "unlock", "unwind", "done", "failed", "crashed"}
      BY <1>6, <2>1 DEF ReportUnchanged, Commit, Collide, Fail, Crash, FinishFile, Unwind,
           ForgetRun, ForgetFile, Goto, IInv, TypeOK
    <3> QED
      BY <3>1 DEF OwnFile, InTransaction
  <2>2. CASE i # j
    <3>1. /\ stage'[i] = stage[i] /\ todo'[i] = todo[i] /\ hash'[i] = hash[i]
          /\ inserted'[i] = inserted[i] /\ UNCHANGED embedder
      BY <1>6, <2>2 DEF ReportUnchanged, Commit, Collide, Fail, Crash, FinishFile, Unwind,
           ForgetRun, ForgetFile, Goto, IInv, TypeOK
    <3> QED
      BY <1>t, <3>1 DEF OwnFile, File, FromFile
  <2> QED
    BY <2>1, <2>2
<1>7. ASSUME UNCHANGED <<stage, ingestVars>> PROVE OwnFile(i)'
  BY <1>7, <1>t DEF OwnFile, File, FromFile, ingestVars
<1>8. ASSUME NEW j \in Ingests, LoseLock(j) PROVE UNCHANGED <<stage, ingestVars>>
  BY <1>8 DEF LoseLock
<1>9. ASSUME NEW r \in Readers, Retrieve(r) PROVE UNCHANGED <<stage, ingestVars>>
  BY <1>9 DEF Retrieve, CheckEmbedder, Search
<1>10. ASSUME NEW f \in Files, Edit(f) PROVE UNCHANGED <<stage, ingestVars>>
  BY <1>10 DEF Edit
<1>11. ASSUME UNCHANGED vars PROVE UNCHANGED <<stage, ingestVars>>
  BY <1>11 DEF vars
<1> QED
  BY <1>1, <1>2, <1>3, <1>4, <1>5, <1>6, <1>7, <1>8, <1>9, <1>10, <1>11 DEF Next, Step

LEMMA FromFilesStep == ASSUME IInv, FromFiles, [Next]_vars PROVE FromFiles'
<1>1. \A f \in Files : disk'[f] \in VersionsOf[f]
  <2>1. UNCHANGED disk \/ \E f \in Files : Edit(f)
    BY DEF Next, Step, Post, CommandLine, LoseLock, TryLock, ReportUnchanged,
       FindChanged, LoadAndEmbed, SelectExisting, DeleteExisting, InsertDocument,
       Commit, Collide, Unlock, Fail, Crash, Unwind, Retrieve, CheckEmbedder, Search, vars
  <2>2. ASSUME NEW f \in Files, Edit(f) PROVE \A g \in Files : disk'[g] \in VersionsOf[g]
    BY <2>2 DEF Edit, FromFiles, IInv, TypeOK
  <2> QED
    BY <2>1, <2>2 DEF FromFiles
<1>2. \A d \in docs' : FromFile(d)
  <2>1. ASSUME NEW i \in Ingests, docs' = Committed(i) PROVE \A d \in docs' : FromFile(d)
    BY <2>1 DEF Committed, FromFiles
  <2> QED
    BY <2>1, CorpusCases DEF FromFiles
<1>3. \A i \in Ingests : OwnFile(i)'
  BY OwnFileStep
<1> QED
  BY <1>1, <1>2, <1>3 DEF FromFiles, OwnFile, FromFile

\* A file that is reported is reported truly.
LEMMA ReportedTruly ==
    ASSUME OwnContents, IInv, FromFiles, NEW i \in Ingests, ReportUnchanged(i) \/ Commit(i),
           SaysSo(manifest[i], docs, embedder[i])
    PROVE  SaysSo(manifest'[i], docs', embedder[i]) /\ embedder' = embedder
<1>1. File(i) \in Files /\ manifest[i] \in Seq(Report) /\ stage[i] \in Working
  BY AtWork DEF ReportUnchanged, Commit, Working, InTransaction, IInv, TypeOK
<1>2. CASE ReportUnchanged(i)
  <2> DEFINE report == [file |-> File(i), hash |-> disk[File(i)], verdict |-> "unchanged"]
  <2>1. PICK d \in docs : d.hash = disk[File(i)]
    BY <1>2 DEF ReportUnchanged
  <2>2. d.source = SourceOf[File(i)]
    <3>1. PICK f \in Files : d.source = SourceOf[f] /\ d.hash \in VersionsOf[f]
      BY <2>1 DEF FromFiles, FromFile
    <3>2. disk[File(i)] \in VersionsOf[f] \cap VersionsOf[File(i)]
      BY <1>1, <2>1, <3>1 DEF FromFiles
    <3> QED
      BY <1>1, <3>1, <3>2 DEF OwnContents
  <2>3. report \in Report
    BY <1>1 DEF Report, IInv, TypeOK
  <2>4. manifest'[i] = Append(manifest[i], report) /\ docs' = docs /\ embedder' = embedder
    BY <1>2 DEF ReportUnchanged, FinishFile, IInv, TypeOK
  <2>5. /\ report.hash = disk[File(i)] /\ SourceOf[report.file] = SourceOf[File(i)]
        /\ report.verdict = "unchanged"
    OBVIOUS
  <2> HIDE DEF report
  <2>6. \E e \in docs : /\ e.hash = report.hash /\ e.source = SourceOf[report.file]
                        /\ report.verdict # "unchanged" => e.embedder = embedder[i]
    BY <2>1, <2>2, <2>5
  <2>7. SaysSo(Append(manifest[i], report), docs, embedder[i])
    BY <1>1, <2>3, <2>6, AppendSaysSo
  <2> QED
    BY <2>4, <2>7
<1>3. CASE Commit(i)
  <2> DEFINE report == [file |-> File(i), hash |-> hash[i],
                        verdict |-> IF existing[i] = {} THEN "new" ELSE "replace"]
  <2>1. stage[i] = "commit" /\ docs' = Committed(i) /\ embedder' = embedder
    BY <1>3 DEF Commit
  <2>2. PICK new \in inserted[i] :
           new.source = SourceOf[File(i)] /\ new.hash = hash[i] /\ new.embedder = embedder[i]
    BY <2>1 DEF IInv, TouchesOwnSource, FromFiles
  <2>3. report \in Report
    BY <1>1, <2>1 DEF Report, IInv, TypeOK, HoldsItsFile, InTransaction
  <2>4. manifest'[i] = Append(manifest[i], report)
    BY <1>3 DEF Commit, FinishFile, IInv, TypeOK
  <2>5. report.hash = hash[i] /\ SourceOf[report.file] = SourceOf[File(i)]
    OBVIOUS
  <2> HIDE DEF report
  <2>6. \A d \in docs : d.source # SourceOf[report.file] => d \in docs'
    BY <2>1, <2>5 DEF Committed, IInv, TouchesOwnSource
  <2>7. \E e \in docs' : /\ e.hash = report.hash /\ e.source = SourceOf[report.file]
                         /\ report.verdict # "unchanged" => e.embedder = embedder[i]
    BY <2>1, <2>2, <2>5 DEF Committed
  <2>8. SaysSo(Append(manifest[i], report), docs', embedder[i])
    BY <1>1, <2>3, <2>6, <2>7, AppendSaysSo
  <2> QED
    BY <2>1, <2>4, <2>8
<1> QED
  BY <1>2, <1>3

\* What an ingest that nothing runs beside says changes with its own reports only.
LEMMA AloneCases ==
    ASSUME IInv, HoldsLock, ManifestTrue, SingleFlight, SingleFlight', [Next]_vars,
           NEW i \in Ingests, Alone(i)'
    PROVE  \/ manifest'[i] = <<>>
           \/ /\ Alone(i) /\ docs' = docs
              /\ manifest'[i] = manifest[i] /\ embedder'[i] = embedder[i]
           \/ Alone(i) /\ (ReportUnchanged(i) \/ Commit(i))
<1> DEFINE Goal == \/ manifest'[i] = <<>>
                   \/ /\ Alone(i) /\ docs' = docs
                      /\ manifest'[i] = manifest[i] /\ embedder'[i] = embedder[i]
                   \/ Alone(i) /\ (ReportUnchanged(i) \/ Commit(i))
<1>t. /\ stage'[i] \in Working \cup {"unlock"} /\ (kind'[i] = "cli" \/ lock' = i)
      /\ stage[i] \in {"idle", "lock"} => manifest[i] = <<>>
  BY DEF Alone, ManifestTrue
<1>e. \A j \in Ingests \ {i} : Alone(i) => stage[j] \notin Working
  <2> SUFFICES ASSUME NEW j \in Ingests \ {i}, Alone(i), stage[j] \in Working PROVE FALSE
    OBVIOUS
  <2>1. stage[i] # "idle" /\ stage[j] # "idle"
    BY DEF Alone, Working, InTransaction
  <2>2. kind[j] \in {"route", "cli"}
    BY <2>1 DEF HoldsLock, IInv, TypeOK
  <2>3. kind[i] # "cli" /\ kind[j] # "cli"
    BY <2>1 DEF SingleFlight
  <2> QED
    BY <2>2, <2>3 DEF Alone, HoldsLock, SingleFlight
<1>1. ASSUME NEW j \in Ingests, Post(j) \/ CommandLine(j) PROVE Goal
  <2>1. CASE i = j
    BY <1>1, <1>t, <2>1 DEF Post, CommandLine, IInv, TypeOK
  <2>2. CASE i # j
    <3>1. /\ stage'[i] = stage[i] /\ kind'[i] = kind[i] /\ embedder'[i] = embedder[i]
          /\ UNCHANGED <<lock, docs, manifest>>
      BY <1>1, <2>2 DEF Post, CommandLine, Goto, IInv, TypeOK
    <3> QED
      BY <1>t, <3>1 DEF Alone
  <2> QED
    BY <2>1, <2>2
<1>2. ASSUME NEW j \in Ingests, TryLock(j) PROVE Goal
  <2>1. UNCHANGED <<ingestVars, docs>>
    BY <1>2 DEF TryLock
  <2>2. CASE i = j
    BY <1>2, <1>t, <2>1, <2>2 DEF TryLock, ingestVars
  <2>3. CASE i # j
    <3>1. stage'[i] = stage[i] /\ (lock' = i => lock = i)
      BY <1>2, <2>3 DEF TryLock, Goto, IInv, TypeOK
    <3> QED
      BY <1>t, <2>1, <3>1 DEF Alone, ingestVars
  <2> QED
    BY <2>2, <2>3
<1>3. ASSUME NEW j \in Ingests, Unlock(j) PROVE Goal
  <2>1. UNCHANGED <<ingestVars, docs>>
    BY <1>3 DEF Unlock
  <2>2. CASE i = j
    <3>1. stage'[i] \in {"done", "failed"}
      BY <1>3, <2>2 DEF Unlock, Goto, IInv, TypeOK
    <3> QED
      BY <1>t, <3>1 DEF Working, InTransaction
  <2>3. CASE i # j
    <3>1. stage'[i] = stage[i] /\ (lock' = i => lock = i)
      BY <1>3, <2>3, NoneAssumption DEF Unlock, Goto, IInv, TypeOK
    <3> QED
      BY <1>t, <2>1, <3>1 DEF Alone, ingestVars
  <2> QED
    BY <2>2, <2>3
<1>4. ASSUME NEW j \in Ingests,
             FindChanged(j) \/ LoadAndEmbed(j) \/ SelectExisting(j) \/ DeleteExisting(j)
             \/ InsertDocument(j)
      PROVE  Goal
  <2>1. UNCHANGED <<docs, lock, kind, embedder, manifest>>
    BY <1>4 DEF FindChanged, LoadAndEmbed, SelectExisting, DeleteExisting, InsertDocument
  <2>2. stage'[i] = stage[i] \/ stage[i] \in Working
    BY <1>4 DEF FindChanged, LoadAndEmbed, SelectExisting, DeleteExisting, InsertDocument,
         Goto, IInv, TypeOK, Working, InTransaction
  <2> QED
    BY <1>t, <2>1, <2>2 DEF Alone
<1>5. ASSUME NEW j \in Ingests, ReportUnchanged(j) \/ Commit(j) PROVE Goal
  <2>1. UNCHANGED <<lock, kind, embedder>> /\ stage[j] \in Working
    BY <1>5 DEF ReportUnchanged, Commit, Working, InTransaction
  <2>2. CASE i = j
    BY <1>5, <1>t, <2>1, <2>2 DEF Alone
  <2>3. CASE i # j
    <3>1. stage'[i] = stage[i] /\ manifest'[i] = manifest[i]
      BY <1>5, <2>3 DEF ReportUnchanged, Commit, FinishFile, Goto, IInv, TypeOK
    <3>2. Alone(i)
      BY <1>t, <2>1, <3>1 DEF Alone
    <3> QED
      BY <1>e, <2>1, <2>3, <3>2
  <2> QED
    BY <2>2, <2>3
<1>6. ASSUME NEW j \in Ingests, Collide(j) \/ Fail(j) \/ Crash(j) PROVE Goal
  <2>1. CASE i = j
    <3>1. stage'[i] \in {"unwind", "failed", "crashed"}
      BY <1>6, <2>1 DEF Collide, Fail, Crash, Unwind, Goto, IInv, TypeOK
    <3> QED
      BY <1>t, <3>1 DEF Working, InTransaction
  <2>2. CASE i # j
    <3>1. /\ stage'[i] = stage[i] /\ manifest'[i] = manifest[i]
          /\ UNCHANGED <<kind, embedder>> /\ (lock' = i => lock = i)
          /\ docs' = docs \/ stage[j] = "commit"
      BY <1>6, <2>2, NoneAssumption DEF Collide, Fail, Crash, Unwind, ForgetRun, Goto, IInv, TypeOK
    <3>2. Alone(i)
      BY <1>t, <3>1 DEF Alone
    <3>3. stage[j] # "commit"
      BY <1>e, <2>2, <3>2 DEF Working, InTransaction
    <3> QED
      BY <3>1, <3>2, <3>3
  <2> QED
    BY <2>1, <2>2
<1>7. ASSUME UNCHANGED <<stage, ingestVars, docs>>, lock' = i => lock = i PROVE Goal
  BY <1>7, <1>t DEF Alone, ingestVars
<1>8. ASSUME NEW j \in Ingests, LoseLock(j) PROVE Goal
  BY <1>7, <1>8, NoneAssumption DEF LoseLock
<1>9. ASSUME NEW r \in Readers, Retrieve(r) PROVE Goal
  BY <1>7, <1>9 DEF Retrieve, CheckEmbedder, Search
<1>10. ASSUME NEW f \in Files, Edit(f) PROVE Goal
  BY <1>7, <1>10 DEF Edit
<1>11. ASSUME UNCHANGED vars PROVE Goal
  BY <1>7, <1>11 DEF vars
<1> HIDE DEF Goal
<1>12. Goal
  BY <1>1, <1>2, <1>3, <1>4, <1>5, <1>6, <1>8, <1>9, <1>10, <1>11 DEF Next, Step
<1> QED
  BY <1>12 DEF Goal

LEMMA ManifestStep ==
    ASSUME OwnContents, ReportInv, [Next]_vars PROVE ManifestTrue'
<1>t. IInv /\ HoldsLock /\ FromFiles /\ ManifestTrue
  BY DEF ReportInv, FlightInv
<1>1. ASSUME NEW i \in Ingests, stage'[i] \in {"idle", "lock"} PROVE manifest'[i] = <<>>
  <2>1. stage[i] \in {"idle", "lock"} => manifest[i] = <<>>
    BY <1>t DEF ManifestTrue
  <2>2. ASSUME NEW j \in Ingests,
               Post(j) \/ CommandLine(j) \/ TryLock(j) \/ Unlock(j) \/ FindChanged(j)
               \/ LoadAndEmbed(j) \/ SelectExisting(j) \/ DeleteExisting(j)
               \/ InsertDocument(j)
        PROVE  manifest'[i] = <<>>
    <3>1. UNCHANGED manifest /\ (stage[i] = stage'[i] \/ stage[i] = "idle")
      BY <1>1, <1>t, <2>2 DEF Post, CommandLine, TryLock, Unlock, FindChanged, LoadAndEmbed,
           SelectExisting, DeleteExisting, InsertDocument, Goto, ingestVars, IInv, TypeOK
    <3> QED
      BY <1>1, <2>1, <3>1
  <2>3. ASSUME NEW j \in Ingests,
               ReportUnchanged(j) \/ Commit(j) \/ Collide(j) \/ Fail(j) \/ Crash(j)
        PROVE  manifest'[i] = <<>>
    <3>1. i # j
      BY <1>1, <1>t, <2>3 DEF ReportUnchanged, Commit, Collide, Fail, Crash, FinishFile,
           Unwind, Goto, IInv, TypeOK
    <3>2. stage'[i] = stage[i] /\ manifest'[i] = manifest[i]
      BY <1>t, <2>3, <3>1 DEF ReportUnchanged, Commit, Collide, Fail, Crash, FinishFile,
           Unwind, ForgetRun, Goto, IInv, TypeOK
    <3> QED
      BY <1>1, <2>1, <3>2
  <2>4. ASSUME NEW j \in Ingests, LoseLock(j) PROVE UNCHANGED <<stage, manifest>>
    BY <2>4 DEF LoseLock, ingestVars
  <2>5. ASSUME NEW r \in Readers, Retrieve(r) PROVE UNCHANGED <<stage, manifest>>
    BY <2>5 DEF Retrieve, CheckEmbedder, Search, ingestVars
  <2>6. ASSUME NEW f \in Files, Edit(f) PROVE UNCHANGED <<stage, manifest>>
    BY <2>6 DEF Edit, ingestVars
  <2>7. ASSUME UNCHANGED vars PROVE UNCHANGED <<stage, manifest>>
    BY <2>7 DEF vars, ingestVars
  <2> QED
    BY <1>1, <2>1, <2>2, <2>3, <2>4, <2>5, <2>6, <2>7 DEF Next, Step
<1>2. ASSUME SingleFlight', NEW i \in Ingests, Alone(i)'
      PROVE  SaysSo(manifest'[i], docs', embedder'[i])
  <2>1. SingleFlight
    BY <1>t, <1>2, FlightBefore
  <2>2. CASE manifest'[i] = <<>>
    BY <2>2, EmptySaysSo
  <2>3. CASE /\ Alone(i) /\ docs' = docs
             /\ manifest'[i] = manifest[i] /\ embedder'[i] = embedder[i]
    BY <1>t, <2>1, <2>3 DEF ManifestTrue
  <2>4. CASE Alone(i) /\ (ReportUnchanged(i) \/ Commit(i))
    <3>1. SaysSo(manifest[i], docs, embedder[i])
      BY <1>t, <2>1, <2>4 DEF ManifestTrue
    <3> QED
      BY <1>t, <2>4, <3>1, ReportedTruly
  <2> QED
    BY <1>t, <1>2, <2>1, <2>2, <2>3, <2>4, AloneCases
<1> QED
  BY <1>1, <1>2 DEF ManifestTrue

\* An ingest that ends well says the truth.
LEMMA DoneSaysSo ==
    ASSUME OwnContents, ReportInv, Next, SingleFlight, NEW i \in Ingests,
           stage[i] # "done", stage'[i] = "done"
    PROVE  SaysSo(manifest'[i], docs', embedder[i])
<1>t. IInv /\ HoldsLock /\ FromFiles /\ ManifestTrue
  BY DEF ReportInv, FlightInv
<1>1. ASSUME NEW j \in Ingests, ReportUnchanged(j) \/ Commit(j)
      PROVE  SaysSo(manifest'[i], docs', embedder[i])
  <2>1. i = j
    BY <1>1, <1>t DEF ReportUnchanged, Commit, FinishFile, Goto, IInv, TypeOK
  <2>2. stage[i] \in Working /\ kind[i] # "route"
    BY <1>1, <1>t, <2>1 DEF ReportUnchanged, Commit, FinishFile, Goto, Working, InTransaction,
         IInv, TypeOK
  <2>3. kind[i] = "cli"
    BY <1>t, <2>2 DEF HoldsLock, Working, InTransaction, IInv, TypeOK
  <2>4. SaysSo(manifest[i], docs, embedder[i])
    BY <1>t, <2>2, <2>3 DEF ManifestTrue, Alone
  <2> QED
    BY <1>1, <1>t, <2>1, <2>4, ReportedTruly
<1>2. ASSUME NEW j \in Ingests, Unlock(j) PROVE SaysSo(manifest'[i], docs', embedder[i])
  <2>1. i = j /\ stage[i] = "unlock" /\ lock = i /\ UNCHANGED <<docs, manifest>>
    BY <1>2, <1>t DEF Unlock, Goto, ingestVars, IInv, TypeOK
  <2> QED
    BY <1>t, <2>1 DEF ManifestTrue, Alone
<1>3. ASSUME NEW j \in Ingests,
             Post(j) \/ CommandLine(j) \/ TryLock(j) \/ FindChanged(j) \/ LoadAndEmbed(j)
             \/ SelectExisting(j) \/ DeleteExisting(j) \/ InsertDocument(j) \/ Collide(j)
             \/ Fail(j) \/ Crash(j) \/ LoseLock(j)
      PROVE  FALSE
  BY <1>3, <1>t DEF Post, CommandLine, TryLock, FindChanged, LoadAndEmbed, SelectExisting,
       DeleteExisting, InsertDocument, Collide, Fail, Crash, LoseLock, Unwind, Goto, IInv, TypeOK
<1>4. ASSUME NEW r \in Readers, Retrieve(r) PROVE FALSE
  BY <1>4 DEF Retrieve, CheckEmbedder, Search
<1>5. ASSUME NEW f \in Files, Edit(f) PROVE FALSE
  BY <1>5 DEF Edit
<1> QED
  BY <1>1, <1>2, <1>3, <1>4, <1>5 DEF Next, Step

LEMMA ReportStep ==
    ASSUME OwnContents, ReportInv, [Next]_vars PROVE ReportInv'
<1>1. FlightInv /\ IInv /\ HoldsLock /\ FromFiles
  BY DEF ReportInv, FlightInv
<1>2. IInv' /\ HoldsLock' /\ SeesItsSource' /\ OneDocumentPerSource'
  BY <1>1, TypeStep, HoldsStep, TouchesStep, LockStep, FlightStep DEF IInv
<1>3. FromFiles' /\ ManifestTrue'
  BY <1>1, FromFilesStep, ManifestStep
<1> QED
  BY <1>2, <1>3 DEF ReportInv, FlightInv

LEMMA ReportInit == Init => ReportInv
<1> SUFFICES ASSUME Init PROVE ReportInv
  OBVIOUS
<1>1. HoldsLock /\ SeesItsSource /\ OneDocumentPerSource
  BY DEF Init, HoldsLock, SeesItsSource, EarlierCorpora, OneDocumentPerSource, Working,
     InTransaction
<1>2. FromFiles
  <2>1. \A d \in docs : FromFile(d)
    BY DEF Init, EarlierCorpora, FromFile
  <2>2. \A f \in Files : disk[f] \in VersionsOf[f]
    BY DEF Init
  <2>3. \A i \in Ingests : stage[i] = "idle" /\ inserted[i] = {}
    BY DEF Init
  <2> QED
    BY <2>1, <2>2, <2>3 DEF FromFiles, InTransaction
<1>3. ManifestTrue
  BY DEF Init, ManifestTrue, Alone, Working, InTransaction
<1> QED
  BY <1>1, <1>2, <1>3, InitInv DEF ReportInv, FlightInv

\* The manifest of an ingest that nothing ran beside is true of the corpus when
\* it ends well, as long as no two sources share a content: pipeline.py looks a
\* hash up among all documents.
THEOREM ManifestIsTrue == ASSUME OwnContents PROVE Spec => ManifestIsCorpus
<1>1. ReportInv /\ [Next]_vars => ReportInv'
  BY OwnContents, ReportStep
<1>2. ReportInv /\ [Next]_vars =>
        [\A i \in Ingests :
           stage[i] # "done" /\ stage'[i] = "done" /\ SingleFlight =>
             \A n \in DOMAIN manifest'[i] : LastOfSource(i, n)' =>
               \E d \in docs' :
                 /\ d.hash = manifest'[i][n].hash
                 /\ d.source = SourceOf[manifest'[i][n].file]
                 /\ manifest'[i][n].verdict # "unchanged" => d.embedder = embedder[i]]_vars
  BY OwnContents, DoneSaysSo DEF SaysSo, LastIn, LastOfSource
<1> QED
  BY <1>1, <1>2, ReportInit, PTL DEF Spec, ManifestIsCorpus
=============================================================================
