----------------------------- MODULE CorpusIngest -----------------------------
(***************************************************************************)
(* How documents get into the corpus and how retrieval reads it while that *)
(* happens: ingest/pipeline.py, started by POST /ingest under a Postgres   *)
(* advisory lock (api/routes/ingest.py) or by the command line without it  *)
(* (ingest/__main__.py), and retrieval/service.py, which first asks which  *)
(* embedders the corpus was made with and then searches it.                *)
(*                                                                         *)
(* An ingest holds no transaction while it reads a file, compares hashes   *)
(* and embeds; only the replacement of a document is one transaction, run  *)
(* at READ COMMITTED: its SELECT sees what is committed, its DELETE waits  *)
(* for the row locks of another transaction, its INSERT waits for whoever  *)
(* is inserting or deleting the same content_hash.                         *)
(*                                                                         *)
(* A content is a model value and its own hash: the chunking configuration *)
(* never changes while the system runs.  A document stands for its chunks, *)
(* which are written in the same transaction and share its embedder.       *)
(***************************************************************************)
EXTENDS Naturals, Sequences, FiniteSetsExt

CONSTANTS
    Ingests,      \* runs of the pipeline, on any replica or command line
    Readers,      \* retrievals
    Files,        \* files on disk with a loader that takes them
    Contents,     \* what a file may hold
    VersionsOf,   \* [Files -> SUBSET Contents], what this file may hold
    ChunksOf,     \* [Contents -> Nat], the chunks a content is cut into
    Sources,      \* the values of documents.source_uri
    SourceOf,     \* [Files -> Sources], as the file's loader states it
    Directory,    \* the files discover() returns for the corpus directory
    Requests,     \* the sequences of files a POST /ingest may resolve to
    MaxChunks,    \* settings.ingest_max_chunks
    Embedders,    \* identities of embedding clients
    Deployed,     \* the identity the API embeds documents and queries with
    MaxEdits,     \* bound: how often a file changes on disk
    None

ASSUME FilesAssumption ==
    /\ VersionsOf \in [Files -> SUBSET Contents]
    /\ \A f \in Files : VersionsOf[f] # {}
    /\ SourceOf \in [Files -> Sources]
    /\ ChunksOf \in [Contents -> Nat]
ASSUME RequestsAssumption ==
    /\ Directory \in Seq(Files)
    /\ Requests \subseteq Seq(Files)
ASSUME EmbeddersAssumption == Deployed \in Embedders
ASSUME BoundsAssumption == MaxChunks \in Nat /\ MaxEdits \in Nat
ASSUME NoneAssumption == None \notin Ingests \cup Contents

VARIABLES
    disk,      \* [Files -> Contents]
    edits,     \* how often a file has changed
    docs,      \* the committed rows of documents, each with its chunks
    lock,      \* the ingest whose connection holds the advisory lock
    lost,      \* history: a connection that held the lock was lost
    stage,     \* where an ingest is
    kind,      \* who started it: the route or the command line
    embedder,  \* the identity of its embedding client
    todo,      \* the files it has not finished
    hash,      \* content_hash of the file it is at
    draft,     \* the content its loader read
    existing,  \* the rows its SELECT by source_uri returned
    deleted,   \* rows its open transaction has deleted
    inserted,  \* rows its open transaction has inserted
    manifest,  \* the reports of the files it has finished
    reader,    \* where a retrieval is
    ranked     \* the embedders of the chunks its search ranked

ingestVars == <<kind, embedder, todo, hash, draft, existing, deleted, inserted,
                manifest>>
readerVars == <<reader, ranked>>
vars == <<disk, edits, docs, lock, lost, stage, ingestVars, readerVars>>

Document == [by : Ingests \cup {None}, at : Nat, source : Sources,
             hash : Contents, content : Contents, embedder : Embedders]
Report == [file : Files, hash : Contents,
           verdict : {"new", "unchanged", "replace"}]
InTransaction == {"delete", "insert", "commit"}
Working == {"check", "load", "select"} \cup InTransaction
Ended == {"done", "failed", "refused", "crashed"}
Stage == {"idle", "lock", "unlock", "unwind"} \cup Working \cup Ended

TypeOK ==
    /\ disk \in [Files -> Contents]
    /\ edits \in 0..MaxEdits
    /\ docs \subseteq Document
    /\ lock \in Ingests \cup {None}
    /\ lost \in BOOLEAN
    /\ stage \in [Ingests -> Stage]
    /\ kind \in [Ingests -> {"route", "cli", "none"}]
    /\ embedder \in [Ingests -> Embedders]
    /\ todo \in [Ingests -> Seq(Files)]
    /\ hash \in [Ingests -> Contents \cup {None}]
    /\ draft \in [Ingests -> Contents \cup {None}]
    /\ existing \in [Ingests -> SUBSET Document]
    /\ deleted \in [Ingests -> SUBSET Document]
    /\ inserted \in [Ingests -> SUBSET Document]
    /\ manifest \in [Ingests -> Seq(Report)]
    /\ reader \in [Readers -> {"idle", "search", "done"}]
    /\ ranked \in [Readers -> SUBSET Embedders]

-----------------------------------------------------------------------------
\* The corpus an earlier ingest left: of some files the content they had then,
\* at most one document of a source, all made with one embedder.
EarlierDocument(f, c, e) ==
    [by |-> None, at |-> 0, source |-> SourceOf[f], hash |-> c, content |-> c,
     embedder |-> e]
EarlierCorpora ==
    {D \in UNION {SUBSET {EarlierDocument(f, c, e) : f \in Files, c \in Contents} :
                    e \in Embedders} :
        /\ \A d \in D : \E f \in Files :
               d.source = SourceOf[f] /\ d.hash \in VersionsOf[f]
        /\ \A d, e \in D : d # e => d.source # e.source /\ d.hash # e.hash}

Init ==
    /\ disk \in {d \in [Files -> Contents] : \A f \in Files : d[f] \in VersionsOf[f]}
    /\ edits = 0
    /\ docs \in EarlierCorpora
    /\ lock = None
    /\ lost = FALSE
    /\ stage = [i \in Ingests |-> "idle"]
    /\ kind = [i \in Ingests |-> "none"]
    /\ embedder = [i \in Ingests |-> Deployed]
    /\ todo = [i \in Ingests |-> <<>>]
    /\ hash = [i \in Ingests |-> None]
    /\ draft = [i \in Ingests |-> None]
    /\ existing = [i \in Ingests |-> {}]
    /\ deleted = [i \in Ingests |-> {}]
    /\ inserted = [i \in Ingests |-> {}]
    /\ manifest = [i \in Ingests |-> <<>>]
    /\ reader = [r \in Readers |-> "idle"]
    /\ ranked = [r \in Readers |-> {}]

Goto(i, s) == stage' = [stage EXCEPT ![i] = s]
File(i) == Head(todo[i])

\* The state of an ingest that is between two files, or over.
ForgetFile(i) ==
    /\ hash' = [hash EXCEPT ![i] = None]
    /\ draft' = [draft EXCEPT ![i] = None]
    /\ existing' = [existing EXCEPT ![i] = {}]
    /\ deleted' = [deleted EXCEPT ![i] = {}]
    /\ inserted' = [inserted EXCEPT ![i] = {}]

\* An exception or the end of the process takes the unwritten manifest along.
ForgetRun(i) ==
    /\ ForgetFile(i)
    /\ todo' = [todo EXCEPT ![i] = <<>>]
    /\ manifest' = [manifest EXCEPT ![i] = <<>>]

\* The file is reported; after the last one the route leaves its lock.
FinishFile(i, report) ==
    /\ manifest' = [manifest EXCEPT ![i] = Append(@, report)]
    /\ todo' = [todo EXCEPT ![i] = Tail(@)]
    /\ Goto(i, IF Len(todo[i]) > 1 THEN "check"
               ELSE IF kind[i] = "route" THEN "unlock" ELSE "done")
    /\ ForgetFile(i)

-----------------------------------------------------------------------------
\* The dry run prices every file asked for, changed or not.
PricedChunks(files) ==
    MapThenSumSet(LAMBDA n : ChunksOf[disk[files[n]]], DOMAIN files)

\* POST /ingest, but for a request that only wants the dry run: nothing to
\* ingest and a dry run above the bound end here.
Post(i) ==
    /\ stage[i] = "idle"
    /\ \E files \in Requests :
         IF files = <<>> \/ PricedChunks(files) > MaxChunks
         THEN Goto(i, "refused") /\ UNCHANGED todo
         ELSE Goto(i, "lock") /\ todo' = [todo EXCEPT ![i] = files]
    /\ kind' = [kind EXCEPT ![i] = "route"]
    /\ UNCHANGED <<disk, edits, docs, lock, lost, embedder, hash, draft,
                   existing, deleted, inserted, manifest, readerVars>>

\* python -m rag_qa.ingest: the whole directory, any embedder, no lock.
CommandLine(i) ==
    /\ stage[i] = "idle"
    /\ \E e \in Embedders : embedder' = [embedder EXCEPT ![i] = e]
    /\ todo' = [todo EXCEPT ![i] = Directory]
    /\ kind' = [kind EXCEPT ![i] = "cli"]
    /\ Goto(i, IF Directory = <<>> THEN "refused" ELSE "check")
    /\ UNCHANGED <<disk, edits, docs, lock, lost, hash, draft, existing,
                   deleted, inserted, manifest, readerVars>>

\* Mutant: an asyncio.Lock, which another replica does not see.
TryLockOfReplica(i) ==
    /\ stage[i] = "lock"
    /\ lock' = IF lock = None THEN i ELSE lock
    /\ Goto(i, "check")
    /\ UNCHANGED <<disk, edits, docs, lost, ingestVars, readerVars>>

\* pg_try_advisory_lock on a connection the route keeps for the whole ingest.
TryLock(i) ==
    /\ stage[i] = "lock"
    /\ IF lock = None
       THEN lock' = i /\ Goto(i, "check")
       ELSE lock' = lock /\ Goto(i, "refused")
    /\ UNCHANGED <<disk, edits, docs, lost, ingestVars, readerVars>>

\* Mutant: what is embedded was never read.
FindChangedUnread(i) ==
    /\ stage[i] = "check"
    /\ \A d \in docs : d.hash # disk[File(i)]
    /\ hash' = [hash EXCEPT ![i] = disk[File(i)]]
    /\ Goto(i, "select")
    /\ UNCHANGED <<disk, edits, docs, lock, lost, kind, embedder, todo, draft,
                   existing, deleted, inserted, manifest, readerVars>>

\* Mutant: a source that has a document counts as unchanged.
ReportUnchangedBySource(i) ==
    /\ stage[i] = "check"
    /\ \E d \in docs : d.source = SourceOf[File(i)]
    /\ FinishFile(i, [file |-> File(i), hash |-> disk[File(i)],
                      verdict |-> "unchanged"])
    /\ UNCHANGED <<disk, edits, docs, lock, lost, kind, embedder, readerVars>>

\* The file is read and hashed, and the hash looked up among all documents.
ReportUnchanged(i) ==
    /\ stage[i] = "check"
    /\ \E d \in docs : d.hash = disk[File(i)]
    /\ FinishFile(i, [file |-> File(i), hash |-> disk[File(i)],
                      verdict |-> "unchanged"])
    /\ UNCHANGED <<disk, edits, docs, lock, lost, kind, embedder, readerVars>>

FindChanged(i) ==
    /\ stage[i] = "check"
    /\ \A d \in docs : d.hash # disk[File(i)]
    /\ hash' = [hash EXCEPT ![i] = disk[File(i)]]
    /\ Goto(i, "load")
    /\ UNCHANGED <<disk, edits, docs, lock, lost, kind, embedder, todo, draft,
                   existing, deleted, inserted, manifest, readerVars>>

\* The loader reads the file again; what it read is chunked and embedded.
LoadAndEmbed(i) ==
    /\ stage[i] = "load"
    /\ draft' = [draft EXCEPT ![i] = disk[File(i)]]
    /\ Goto(i, "select")
    /\ UNCHANGED <<disk, edits, docs, lock, lost, kind, embedder, todo, hash,
                   existing, deleted, inserted, manifest, readerVars>>

-----------------------------------------------------------------------------
\* The transaction of _upsert.
SelectExisting(i) ==
    /\ stage[i] = "select"
    /\ existing' = [existing EXCEPT ![i] =
                      {d \in docs : d.source = SourceOf[File(i)]}]
    /\ Goto(i, "delete")
    /\ UNCHANGED <<disk, edits, docs, lock, lost, kind, embedder, todo, hash,
                   draft, deleted, inserted, manifest, readerVars>>

Others(i) == Ingests \ {i}

\* Mutant: the old document is deleted in a transaction of its own.
DeleteExistingAtOnce(i) ==
    /\ stage[i] = "delete"
    /\ docs' = docs \ existing[i]
    /\ Goto(i, "insert")
    /\ UNCHANGED <<disk, edits, lock, lost, kind, embedder, todo, hash, draft,
                   existing, deleted, inserted, manifest, readerVars>>

\* Waits for a row another transaction has deleted; a row that is gone by then
\* matches nothing, which is no error.
DeleteExisting(i) ==
    /\ stage[i] = "delete"
    /\ \A j \in Others(i) : existing[i] \cap docs \cap deleted[j] = {}
    /\ deleted' = [deleted EXCEPT ![i] = existing[i] \cap docs]
    /\ Goto(i, "insert")
    /\ UNCHANGED <<disk, edits, docs, lock, lost, kind, embedder, todo, hash,
                   draft, existing, inserted, manifest, readerVars>>

NewDocument(i) ==
    [by |-> i, at |-> Len(manifest[i]), source |-> SourceOf[File(i)],
     hash |-> hash[i], content |-> draft[i], embedder |-> embedder[i]]

\* The unique content_hash: its key is free unless a committed row holds it or
\* another open transaction inserted it or deleted the row that holds it.
KeyHolders(i) == {d \in docs \ deleted[i] : d.hash = hash[i]}
KeyContested(i) ==
    \E j \in Others(i) : \E d \in deleted[j] \cup inserted[j] : d.hash = hash[i]

InsertDocument(i) ==
    /\ stage[i] = "insert"
    /\ ~KeyContested(i)
    /\ KeyHolders(i) = {}
    /\ inserted' = [inserted EXCEPT ![i] = {NewDocument(i)}]
    /\ Goto(i, "commit")
    /\ UNCHANGED <<disk, edits, docs, lock, lost, kind, embedder, todo, hash,
                   draft, existing, deleted, manifest, readerVars>>

Committed(i) == (docs \ deleted[i]) \cup inserted[i]

Commit(i) ==
    /\ stage[i] = "commit"
    /\ docs' = Committed(i)
    /\ FinishFile(i, [file |-> File(i), hash |-> hash[i],
                      verdict |-> IF existing[i] = {} THEN "new" ELSE "replace"])
    /\ UNCHANGED <<disk, edits, lock, lost, kind, embedder, readerVars>>

-----------------------------------------------------------------------------
\* An exception ends the ingest: an open transaction is rolled back, or was
\* committed without the program hearing of it, and the route still unlocks.
Unwind(i) ==
    /\ Goto(i, IF kind[i] = "route" THEN "unwind" ELSE "failed")
    /\ ForgetRun(i)
    /\ UNCHANGED <<disk, edits, lock, lost, kind, embedder, readerVars>>

\* The unique constraint refuses a hash that was committed since the check.
Collide(i) ==
    /\ stage[i] = "insert"
    /\ ~KeyContested(i)
    /\ KeyHolders(i) # {}
    /\ Unwind(i)
    /\ UNCHANGED docs

\* A loader, the embedding provider or the database fails.
Fail(i) ==
    /\ stage[i] \in Working
    /\ Unwind(i)
    /\ \/ UNCHANGED docs
       \/ stage[i] = "commit" /\ docs' = Committed(i)

\* Mutant: without the finally an exception skips the unlock.
UnlockAfterSuccess(i) ==
    /\ stage[i] \in {"unlock", "unwind"}
    /\ lock' = IF lock = i /\ stage[i] = "unlock" THEN None ELSE lock
    /\ Goto(i, IF stage[i] = "unlock" /\ lock = i THEN "done" ELSE "failed")
    /\ UNCHANGED <<disk, edits, docs, lost, ingestVars, readerVars>>

\* The route's finally: the unlock fails when its connection is gone.
Unlock(i) ==
    /\ stage[i] \in {"unlock", "unwind"}
    /\ lock' = IF lock = i THEN None ELSE lock
    /\ Goto(i, IF stage[i] = "unlock" /\ lock = i THEN "done" ELSE "failed")
    /\ UNCHANGED <<disk, edits, docs, lost, ingestVars, readerVars>>

\* The process dies: the server rolls back, or finishes a commit under way,
\* and gives up the lock with the connection.
Crash(i) ==
    /\ stage[i] \in Working \cup {"lock", "unlock", "unwind"}
    /\ \/ UNCHANGED docs
       \/ stage[i] = "commit" /\ docs' = Committed(i)
    /\ lock' = IF lock = i THEN None ELSE lock
    /\ Goto(i, "crashed")
    /\ ForgetRun(i)
    /\ UNCHANGED <<disk, edits, lost, kind, embedder, readerVars>>

\* The connection of the lock breaks while the ingest works on others.
LoseLock(i) ==
    /\ lock = i
    /\ lock' = None
    /\ lost' = TRUE
    /\ UNCHANGED <<disk, edits, docs, stage, ingestVars, readerVars>>

\* Someone puts another version of a file into the directory.
Edit(f) ==
    /\ edits < MaxEdits
    /\ edits' = edits + 1
    /\ \E c \in VersionsOf[f] \ {disk[f]} : disk' = [disk EXCEPT ![f] = c]
    /\ UNCHANGED <<docs, lock, lost, stage, ingestVars, readerVars>>

-----------------------------------------------------------------------------
\* Retrieval: which embedders is the corpus made with?  None, several or not
\* the one of the query is EmptyCorpusError or EmbedderMismatchError, which
\* leaves nothing behind.
Identities == {d.embedder : d \in docs}

\* Mutant: the query's embedder need only be among those of the corpus.
CheckEmbedderAmong(r) ==
    /\ reader[r] = "idle"
    /\ Deployed \in Identities
    /\ reader' = [reader EXCEPT ![r] = "search"]
    /\ UNCHANGED <<disk, edits, docs, lock, lost, stage, ingestVars, ranked>>

CheckEmbedder(r) ==
    /\ reader[r] = "idle"
    /\ Identities = {Deployed}
    /\ reader' = [reader EXCEPT ![r] = "search"]
    /\ UNCHANGED <<disk, edits, docs, lock, lost, stage, ingestVars, ranked>>

\* The search is a statement of its own.  Which chunks are near is data: what
\* matters here is with which embedders the chunks it ranks were made.
Search(r) ==
    /\ reader[r] = "search"
    /\ reader' = [reader EXCEPT ![r] = "done"]
    /\ ranked' = [ranked EXCEPT ![r] = Identities]
    /\ UNCHANGED <<disk, edits, docs, lock, lost, stage, ingestVars>>

-----------------------------------------------------------------------------
Step(i) ==
    \/ TryLock(i) \/ ReportUnchanged(i) \/ FindChanged(i) \/ LoadAndEmbed(i)
    \/ SelectExisting(i) \/ DeleteExisting(i) \/ InsertDocument(i)
    \/ Commit(i) \/ Collide(i) \/ Unlock(i)

Retrieve(r) == CheckEmbedder(r) \/ Search(r)

Next ==
    \/ \E i \in Ingests :
         Post(i) \/ CommandLine(i) \/ Step(i) \/ Fail(i) \/ Crash(i) \/ LoseLock(i)
    \/ \E r \in Readers : Retrieve(r)
    \/ \E f \in Files : Edit(f)

Spec == Init /\ [][Next]_vars

\* Embedding retries are bounded and the database ends a wait for a row when
\* the transaction that holds it ends, so a started ingest goes on.
FairSpec == Spec /\ \A i \in Ingests : WF_vars(Step(i))

-----------------------------------------------------------------------------
\* No two ingests can be between their hash check and their commit: only the
\* route runs, and no lock was lost, or the command line runs by itself.
SingleFlight ==
    /\ ~lost
    /\ \A i, j \in Ingests : kind[i] = "cli" /\ stage[j] # "idle" => i = j

\* Whatever fails or dies, ingests that exclude each other leave at most one
\* document of a source: the replacement deletes what any earlier one wrote.
OneDocumentPerSource ==
    SingleFlight => \A d, e \in docs : d.source = e.source => d = e

\* A source that can be searched stays searchable while its document is being
\* replaced, however many ingests replace it and wherever they fail.
SourceNeverVanishes ==
    [][\A d \in docs : \E e \in docs' : e.source = d.source]_vars

\* A retrieval whose identity check passed finds something and, unless an
\* ingest with another embedder is about, nothing of another embedder,
\* although an ingest may commit between its two statements.
SearchesOwnVectors ==
    \A r \in Readers : reader[r] = "done" =>
        /\ ranked[r] # {}
        /\ (\A i \in Ingests : embedder[i] = Deployed) => ranked[r] = {Deployed}

\* The report of file n of ingest i is the last word on its source.
LastOfSource(i, n) ==
    \A m \in (n+1)..Len(manifest[i]) :
        SourceOf[manifest[i][m].file] # SourceOf[manifest[i][n].file]

\* When an ingest that nothing ran beside ends well, what its manifest says is
\* so: every file's content is in the corpus under its source, and what it
\* calls new or replaced was embedded by its own client.
ManifestIsCorpus ==
    [][\A i \in Ingests :
         stage[i] # "done" /\ stage'[i] = "done" /\ SingleFlight =>
           \A n \in DOMAIN manifest'[i] : LastOfSource(i, n)' =>
             \E d \in docs' :
               /\ d.hash = manifest'[i][n].hash
               /\ d.source = SourceOf[manifest'[i][n].file]
               /\ manifest'[i][n].verdict # "unchanged" => d.embedder = embedder[i]]_vars

\* A started ingest ends, whatever it waits for, and leaves the lock free for
\* the next.
IngestsEnd ==
    \A i \in Ingests :
        (stage[i] \notin {"idle"} \cup Ended) ~> (stage[i] \in Ended /\ lock # i)
=============================================================================
