# Verification of rag-qa

TLA+ specifications of the question-answering service in `src/`, the TLC runs
that check them on small instances, and TLAPS proofs of what matters most for
every instance. Each specification is read off the Python code; `PROJECT.json`
names, for every definition, the lines it stands for.

## The system

A question reaches `POST /query` on one of several replicas. The route asks the
replica's spend guard, retrieves chunks from PostgreSQL, asks the guard again
with the worst case this prompt can cost, calls a language model, writes a
`query_log` row and settles. The answer goes back whole or as server-sent
events. Documents get into the corpus through `POST /ingest` or the command
line. Everything in a replica runs on one event loop: between two `await`s
nothing else runs, at an `await` anything may.

| Component | State | Operations | Talks to | Correct when |
|---|---|---|---|---|
| Spend guard, `api/budget.py` | cached day and month totals, deltas since the refresh, claims, a lock, a clock reading | `check`, `reserve`, `settle`, `release`, `record`, `_refresh`, `snapshot` | query route (calls), `query_log` (SELECT), `/metrics` (snapshot) | claims are exact; each ceiling is overshot by at most one worst case; a refusal names its real reason; a refresh is one query |
| Query route, `api/routes/query.py` | semaphore, set of background tasks, a queue and a claim per stream | `query`, `_retrieve`, `_reserve`, `_pump`, `_sse_body` | guard, retriever, generator, middleware (shared outcome) | no claim leaks on any path; generation outlives the client; the client is told the end |
| Generator, `generation/service.py` | none of its own | `answer`, `stream_answer`, `_finalize`, `_write_query_log` | provider client, parser, `query_log` | the row, the frames and the charge agree |
| Answer parser, `generation/citations.py` | verdict buffer, held marker, held line, pending text | `feed`, `finish` | generator | the result does not depend on slicing; no token leaks; no prose waits |
| Telemetry, `api/middleware.py`, `api/metrics.py` | outcome per request, counters | completion record, `observe_*` | every route, the pump | one record per request, one count per error, whatever way the error took |
| Ingestion, `ingest/pipeline.py`, `api/routes/ingest.py`, `ingest/__main__.py` | documents and chunks, an advisory lock | hash check, embed, replace, commit | database, embedder | one document per source; a crash leaves whole documents |
| Embedder, `ingest/embedder.py` | semaphore, attempts | `embed_all` | provider | a vector for every text, in order, or an error; bounded retries |
| Retrieval, `retrieval/` | none | identity check, vector search, rerank | database, embedder | all chunks of one embedder |
| Pool and bound, `api/concurrency.py`, `db/engine.py` | connections, permits, locks | checkout, acquire, lock | everything with a session | nothing leaks; nobody waits in a circle; the reserve is there |
| Pricing, `generation/pricing.py` | a dated table | `resolve_rate`, `compute_cost`, `recompute_cost` | generator, guard | the worst case bounds the cost, over a rate change too |
| Chunker and loaders, `ingest/chunker.py`, `ingest/loaders/` | none | sectioning, packing, redistribution, rescue | pipeline | no text is lost or repeated; chunks have their sizes |
| Settings, startup, keys, errors, `api/deps.py`, `api/app.py`, `api/auth.py`, `api/errors.py`, `api/conditions.py` | settings, what the app was given or built | `from_env`, `require_serving`, `_lifespan`, `verify`, `translate`, `envelope` | every route | a misconfigured process does not serve; a refusal says what it is and when to come back |
| Corpus registry, schemas, evaluation reports | static | | | |

What is hard here: a coroutine suspended on a lock or a SELECT while money is
claimed and settled around it; a row that is visible before its request
settles; midnight and the end of a month inside a request; a provider that
bills and then fails; a client that leaves; a pump, a timer and a middleware
that share a queue and a dictionary; text that arrives in arbitrary slices;
requests of four kinds that share connections, permits and locks; batches that
fail among siblings that go on; chunks that three later passes add to; an error
that may be rendered in two places.
`PROJECT.json` lists these hazards at their lines with the properties that
would catch them.

## Modules

| Module | What it is |
|---|---|
| `SpendGuard` | the guards of all replicas, `query_log`, the requests, time, restarts |
| `MCSpendGuard` | its TLC instances |
| `SpendGuardProofs` | types, the refresh lock, exact claims; every step preserves the accounts; both ceilings; what a guard reports is so: headroom, one refresh a window, pressure, only real spend |
| `AnswerReference` | what a whole completion means, declaratively |
| `AnswerParser`, `MCAnswerParser` | the parser, one action per call of `feed` and `finish` |
| `AnswerParserProofs` | all three properties of `AnswerParser`, for completions of any length in any slices |
| `StreamContract` | the frames a streaming client is promised |
| `AnswerStream`, `MCAnswerStream` | pump, body, heartbeat, client and middleware of one streamed answer |
| `AnswerStreamProofs` | its invariants and the refinement of `StreamContract`, for answers of any length |
| `CorpusIngest`, `MCCorpusIngest` | ingests by the route and the command line, the corpus, a retrieval |
| `CorpusIngestProofs` | types, a source is always searchable, one document per source, retrieval ranks its own vectors, the manifest is true |
| `BoundedUse` | what a pool, a semaphore or a lock promises |
| `QueryPool`, `MCQueryPool` | queries, probes and ingests over one semaphore, one pool and two locks |
| `QueryPoolProofs` | the resources are exact, nobody waits in a circle, the reserve, the refinement of `BoundedUse` |
| `Chunker` | `chunk_document` as operators |
| `Loaders` | how each loader sections a parsed file |
| `EmbedContract` | what `embed_all` promises its caller |
| `EmbedBatches` | `embed_all`, its tasks, retries and failures |
| `DocumentPipeline`, `MCDocumentPipeline` | loader, chunker, embedder and store composed for one file |
| `SequenceInduction` | induction over an index, the value of a recursive definition, flattened sequences |
| `DocumentProofs` | what the loaders section, the chunker's sizes, completeness and order, its rescue, what is stored of a file, the refinements of `EmbedContract` and `BoundedUse`, for documents of any length |
| `RequestOutcome`, `MCRequestOutcome` | startup, keys, errors, responses and counters of the routes |
| `RequestOutcomeProofs` | all three properties of `RequestOutcome`, for any requests and environments |

### SpendGuard

`guard[r]` is the `SpendGuard` object of replica `r`; `cachedDay` stands for
`_refreshed_at`, `_cached_day` and `_cached_month`, which are assigned together,
and `fresh` for "younger than the TTL". `spent[s][d]` is what a SELECT with
`created_at >= d` would sum for source `s`. A request walks through `stage`:
`check` and `reserve` are the suspensions in `_current`, `calling` the provider
call, `billed` the time between the provider's last event and the commit,
`logged` the time between the commit and the resumption of the route.

| Code | Action |
|---|---|
| `check`, `reserve` up to `_current` | `Arrive`, `Retrieved` (both `Ask`) |
| `_current`: re-check, refresh, its failure | `FollowRefresh`; `BeginRefresh`, `ReadTotals`, `CompleteRefresh`; `RefreshFails` |
| `_enforce`, `_admit`, without a suspension | `Decide`, part of the action that leads to it |
| provider call, bill, commit, settle | `CallProvider`, `ProviderBills`, `LogRow`, `Settle` |
| exceptions, cancellation | `RetrievalFails`, `ProviderFails`, `AnswerLost`, `CommitUnacknowledged` |
| TTL, UTC midnight, process death | `Expire`, `Midnight`, `Restart` |

The last four variables are history: what a refresh forgot (`settling`,
`forgotten`, `worst`) and what was logged and never settled (`noCount`). They
let the ceiling be stated exactly instead of being weakened to what happens to
hold.

Money is an integer; `Cent` units are a cent, so the flooring of the derived
daily ceiling is modelled. The calendar is a function from days to months.

### AnswerParser

`parser` is the object's fields plus the events it has returned; `Feed` takes
the character step along a slice (`Fed`) and flushes, as `feed` does. A character
is a string of the model and a text a sequence of them; in the runs a verdict
token is spelt with one or two.
`AnswerReference` never looks at a slice: it finds the header, removes the
lines that are a token behind indentation, finds every `[digits]` in the rest
and renders it. The runs compare the two after every slice and at the end.

### AnswerStream

A step is what one coroutine does between two suspension points, so the settle
and the frame of `AnswerComplete` are one action, and the commit before it
another. `queue`, `pending` (what the body's outstanding `__anext__` has
taken) and `frames` are the way of an event to the client. `outcome` is the
dictionary the pump shares with the middleware through a ContextVar.
`StreamContract` knows only `frames`; `KeepsContract` checks that the stream
implements it, with the variable of the same name as the refinement mapping.

### CorpusIngest

An ingest is a row of `stage`, from one session or transaction of the code to
the next: nothing is held open while a file is read, hashed and embedded, and
only `_upsert` is a transaction.

| Code | Action |
|---|---|
| `POST /ingest` up to the lock, its dry run against the bound | `Post` |
| `python -m rag_qa.ingest` | `CommandLine` |
| `single_flight`, entry and `finally` | `TryLock`, `Unlock` |
| reading, hashing, `_existing_hashes` | `ReportUnchanged`, `FindChanged` |
| loader, `chunk_document`, `embed_all` | `LoadAndEmbed` |
| `_upsert`: SELECT, DELETE, INSERT, COMMIT | `SelectExisting`, `DeleteExisting`, `InsertDocument` or `Collide`, `Commit` |
| an exception, process death, a broken connection | `Fail`, `Crash`, `LoseLock` |
| `Retriever.retrieve` | `CheckEmbedder`, `Search` |

`docs` is what is committed. A transaction keeps what it deleted and inserted
in `deleted` and `inserted` until it commits, as READ COMMITTED hides it; a
DELETE waits for the rows another transaction deleted, an INSERT for whoever is
changing the row of its `content_hash`. A content is a model value and is its
own hash. A document has the hash of what was read first and the content of
what the loader read afterwards, which differ when the file changed in between.
A document carries a provenance (`by`, `at`) for its generated key.

`SingleFlight` says when ingests exclude each other: only the route is used
and no connection that held the lock broke (`lost`), or a command line runs by
itself. What needs exclusion is stated under it; that a source never vanishes
is not.

What the model shows and no property forbids, because nothing in the
repository promises otherwise:

- Two ingests that do not exclude each other can both insert a document of one
  source; both stay until the source is ingested with other content.
- The hash does not cover the embedder: over a corpus made by the fake embedder
  an ingest of unchanged files reports "unchanged" and the corpus stays
  foreign, so the re-ingesting that `api/conditions.py:142` advises needs the
  old documents deleted first.
- The loader reads the file after its hash was compared (`pipeline.py:205`).
  A file that changes in between is stored under the hash of its earlier
  version.
- A file named in a request need not be one that `discover` returns, and each
  loader states one fixed `source_uri` for whatever it reads: a second PDF
  replaces the first.

### QueryPool

`stage[r]` says where a request is suspended and, through the sets `Retrieving`,
`Refreshing`, `Locked`, `LockSession` and `Working`, what it holds; `permits`,
`free`, `refresher` and `advisory` are the resources' own state. That the two
agree after any failure is `ResourcesExact`.

| Code | Action |
|---|---|
| `query` up to the guard, `_current` with fresh totals | `Arrive`, `Pass` |
| `_current` with stale ones: lock, session, aggregate | `TakeRefreshLock`, `CheckOut`, `EndRefresh` |
| `_retrieve`: semaphore or `Overloaded` | `AcquirePermit`, `Shed` |
| `Retriever.retrieve`: embedding, then a session | `Embed`, `CheckOut`, `EndSearch` |
| provider call, `_write_query_log` | `Generate`, `CheckOut`, `EndStatement` |
| `single_flight`, a document, `finally` | `TryLock`, `NextDocument`, `EndDocument`, `Unlock` |
| `pool_timeout`, an exception, a cancellation | `Fail`, which unwinds what is held |

The same actions, seen through four refinement mappings, are four bounded uses:
`KeepsBounds` instantiates `BoundedUse` for the semaphore, the pool and both
locks.

### Documents

`DocumentPipeline` takes one file from its loader to its rows. `Chunker` and
`Loaders` are operators over sections and units: a sentence is an identity and
a number of tokens, a heading a sequence of words. `Belongs` says, from the file
alone, which sentences a document should have; `TextIsStored` compares.
`Readable` says what each loader counts on in a file: sentences numbered as they
stand in the file; in a
regulation no text under a heading, and annexes behind the articles; in a
standard, running headers that are what `strip_page_furniture` takes for them,
lines that form a title of the outline and are headings, and no such line
between the bookmark of the first body section and its heading.
`EmbedBatches` runs between chunking and storing, one task a batch. `gather`
raises with the first task that does; the others keep their permits and go on,
so the model goes on after the document has failed until they have ended.

| Code | Definition |
|---|---|
| `route_loader`, the loaders' walks | `Sectioned`: `LoadEdgar`, `LoadEurlex`, `LoadNist` |
| `_build_groups`, the packing loop, `_overlap_units` | `Groups`, `Pack` with `Continue`, `Seed` and `Overlap` |
| the redistribution, the rescue merge | `Redistribute`, `Rescue` with `Joined` and `AfterNext` |
| `run_batch`: semaphore, attempt, backoff | `Acquire`, `Answer`, `Transient`, `Retry`, `Refuse` |
| `gather` | `GatherReturns`, `GatherRaises` |
| `_upsert`'s rows, `zip(strict=True)` | `Store` |

### RequestOutcome

`env` is the process environment and what `create_app` was handed; raw values
stay raw, so `_bool` and `_decimal` are modelled by what they accept. A request
goes from `routed` through keys, validation, guard, retrieval, reservation and
provider; wherever the code raises, `error[r]` becomes the exception, with `api`
false if it leaves the handler as something that is no `ApiError`. There are two
ways out: `Handle`, by the handlers of `app.py` inside the metrics middleware,
and `Unhandled`, in `RequestContextMiddleware` outside it. `Finish` is what
`_record` counts. The guard, the pool and the ingest are here only as what they
raise; their own modules say when.

What the model shows and no property forbids:

- A response that `Unhandled` renders is missing from `rag_qa_requests_total`
  (`middleware.py:121` says it is finished there so that it carries "the metrics
  counter"; the counter is in the middleware inside). The failure counters do see
  it.
- `GET /health` answers 503 without an error code, so it is in no failure
  counter.
- A key with a character outside ASCII is answered 500 `internal_error` when a
  key is configured, since `compare_digest` refuses such text (`auth.py:43`). A
  body that is no JSON is refused with 422 before any key is looked at.

## Runs

| Run | Question | Result |
|---|---|---|
| `guard_one_replica` | an evaluation and two visitors on one replica, two days, refresh, failure and restart anywhere: are the claims exact, does the guard count what it must, do both ceilings hold? | holds |
| `guard_two_replicas` | an evaluation and a visitor beside another replica: does each replica keep its month, and does every request leave the guard? | holds |
| `guard_forgets` | "one replica can spend at most ceiling + one worst-case query", when all settle | violated |
| `parser` | text sent, text withheld, answer and order of events against the reference, for every slicing | holds |
| `parser_numerals` | is any text of the provider read? | violated |
| `stream` | contract, accounting, telemetry and termination under every interleaving | holds |
| `corpus_ingest` | two ingests, failures, crashes, a lost lock, an edited file, a retrieval: do sources stay searchable, does exclusion give one document per source and a true manifest, does every ingest end? | holds |
| `stream_errors` | is one failed response counted once? | violated |
| `query_pool` | two queries, a probe and two ingests on a pool of two: do permits, connections and locks come back whatever fails, does nobody wait in a circle, does everybody end? | holds |
| `documents` | filings, regulations and standards: is every sentence stored once, in order, in chunks of the right size with their own vectors, under failing batches? | holds |
| `chunk_repeats` | is no run of sentences repeated right behind itself? | violated |
| `request_outcome` | every route, key and failure under some ninety environments: are the failure counters exact, does `Retry-After` agree with the reset, is nothing served that the operator did not spell out? | holds |

### What the violated runs show

- **A refresh forgets** (`budget.py:629`). A request settles after the SELECT
  was evaluated and before its result is processed: its row is not in the
  totals, and its delta is cleared. Until the next refresh the replica admits
  as if that money were there. `MonthlyCeiling` and `DailyCeiling` hold with the
  forgotten amount on the right-hand side; without it they do not.
- **Digits that are not decimal** (`citations.py:242`). `isdigit()` is true for
  a superscript; `int()` raises.
- **Errors counted twice** (`query.py:233`, `middleware.py:176`).
- **A repeated overlap** (`chunker.py:189`). The redistribution compares the last
  unit of the chunk before with the first unit of the tail. An overlap is seeded
  with as many sentences as reach the threshold; when it is two or more, the last
  of them is not the first, and they are inserted a second time: the tail
  `[x, y, z]` becomes `[x, y, x, y, z]`. With the shipped limits it takes a long
  sentence followed by short ones.

Not stated as runs, and still to be seen in the models:

- **Billed and lost** (`query.py:245`). When the stream or the INSERT fails after
  the provider billed, the claim is released and nothing is recorded
  (`ProviderBills`, `AnswerLost`). The ceilings are stated over rows and claims.
- **A trailing token and a blank** (`citations.py:227`). A line stops being
  watched at the blank behind a token, so the token reaches the client and the
  header's verdict stands, although the header would have accepted the blank.
- **A record without its verdict** (`middleware.py:141`). The record is written
  when the body is over, which for a client that left is before the pump knows.
  `RecordMatchesStream` says what does hold.
- **A label the budget did not expect** (`chunker.py:159`). Two sections of one
  path in one chunk repeat its leaf twice, and the budget has room for one: a
  heading longer than the slack takes the chunk above `target_max`
  (`RoomForPaths`, with the bound of `SPEC-003-ingestion.md:299`). Text is
  counted as the sum of its units; a tokenizer may count the joined text
  otherwise, for which the slack is all there is.
- **A small chunk that is passed and could be joined later** (`chunker.py:224`).
  The rescue leaves a chunk under `hard_min` behind when neither neighbour has
  room. If it then joins the next chunk to one of another item, the breadcrumb of
  that chunk gets shorter, and the small one would fit; the rescue does not look
  back. It takes some 730 tokens under a long subheading between a short text of
  the same item and a short item. The spec says that a chunk stays small when
  there is "no neighbor with room" (`SPEC-003-ingestion.md:112`);
  `SmallFoundNoRoom` states what does hold, the run has such files (`Regained`).
- **An annex named twice** (`eurlex_html.py:137`). The title found behind an annex
  heading is the heading itself: "Annex I — ANNEX I" (`AnnexTitle`).

### Bounds

- Guard: three requests, one or two replicas, days 0 and 1 (one day where
  fairness is checked), ceilings of one to three units, worst cases of up to two.
  A change of month is covered by the proofs. Three requests are needed for
  one to hold a claim, one to refresh and one to be turned away; two days for a
  claim carried over midnight; a ceiling of three with claims of two for an
  admission that overshoots. `LastDay` bounds the clock; nothing else is capped.
- Parser: six headers and up to four further slices of letters, blanks,
  newlines, brackets and digits, some of several characters; markers of at most
  two digits and verdict lines of at most three characters, so that both bounds
  are met and exceeded (`MaxSlices`, `MaxMarkerDigits`, `MaxVerdictLine`).
- Stream: one answer, at most two text events (`MaxDeltas`). Answers share
  nothing but counters.
- Ingestion: two ingests, one retrieval, three files of two sources, four
  contents, one edit (`MaxEdits`). Two ingests are what a race over one source
  needs; the third file gives two files of one source in one request; the
  chunks of one content version exceed `MaxChunks` with another file's, so the
  bound is met and exceeded. Every content is one file's, so a hash is contested
  only between ingests of the same file, and two transactions never wait for
  each other in a circle.

- Pool: two queries, a probe, two ingests, two connections with one of them in
  reserve and hence one permit. With one permit and one connection to spare, every
  resource is contested by requests of different kinds; the second ingest contests
  the advisory lock. The proofs are for any number of each.
- Documents: every filing of up to four parts out of nine kinds, filings with
  text under an item and under its subheading, with two subheadings of one path,
  with a large section before a small item,
  regulations with recitals, chapters and annexes, standards with right, early and
  missing bookmarks; limits of 4, 7 and 12 tokens with an overlap of 4, so that a
  section falls below, between and above them and a sentence is cut; at most four
  batches (`MaxBatches`) of two under
  two permits and two attempts.
- Requests: two, since they share nothing but counters; environments that differ
  from a working one in keys and switches, in budgets, or in what `create_app` is
  given; a window with no or one whole second left (`MaxSeconds`).

### Fairness

`SpendGuard!FairSpec`: weak fairness of each request's own steps. The event loop
resumes every ready coroutine, and every await of a request ends: the database
driver and the provider clients have timeouts, so the alternative to success is
one of the failures, never silence. Nothing is assumed of time, restarts or
arrivals. `AnswerStream!FairSpec`: weak fairness of the pump, of the body and of
the record, and of the provider's last event, since a stream is bounded by
`max_tokens`. No fairness for clients, timers or cancellation.
`CorpusIngest!FairSpec`: weak fairness of each ingest's own steps. The embedding
retries are bounded, and PostgreSQL ends a wait for a row when the transaction
that holds it ends. Nothing is assumed of failures, requests or retrievals. The
run allows the end of all behaviour: when both ingests are over and the file was
edited, nothing is left to do. `QueryPool!FairSpec`: weak fairness of each
request's next step, as every wait ends by itself or by its own timeout, and
strong fairness of `Unlock`, which becomes possible again after every document,
since a request names finitely many files. Failures and timeouts are not fair: no
request needs one to get on. `DocumentPipeline!FairSpec`: weak fairness of each
embedding task and of `gather`; a call of the client has a timeout and a backoff
is a sleep.

## Proofs

TLAPS proves, for every finite set of requests, any replicas, any calendar and
all amounts and limits the assumptions of `SpendGuard` admit, for any number
of ingests, retrievals, files, sources and contents, for documents of any
length under any limits, and for completions of any length in any slices:

| Theorem | Property |
|---|---|
| `SpendGuardProofs!TypeCorrect` | `TypeOK` |
| `SpendGuardProofs!LockHeldByAsker` | the holder of a refresh lock is one of the replica's suspended requests |
| `SpendGuardProofs!ReservationsExact` | `ClaimsExact` |
| `SpendGuardProofs!BookkeepingSound` | `Bookkeeping` |
| `SpendGuardProofs!OwnRowsCounted` | `CountsOwnRows` |
| `SpendGuardProofs!MonthlyCeilingHolds` | `MonthlyCeiling` |
| `SpendGuardProofs!DailyCeilingHolds` | `DailyCeiling` |
| `SpendGuardProofs!HeadroomHonest` | `HeadroomNeverOverstated` |
| `SpendGuardProofs!OneRefreshPerWindow` | `OneQueryPerWindow` |
| `SpendGuardProofs!PressurePasses` | `PressureIsTransient` |
| `SpendGuardProofs!OnlyRealSpendCounts` | `SpendIsReal` |
| `AnswerParserProofs!ParserInvHolds` | the parser has read exactly what it was fed (`ParserInv`) |
| `AnswerParserProofs!SettledIsSent` | `NothingLeakedOrWithheld` |
| `AnswerParserProofs!AnswerIsTheReference` | `AnswerIsReference` |
| `AnswerParserProofs!EventsComeInOrder` | `EventsInOrder` |
| `CorpusIngestProofs!CorpusTypeCorrect` | `CorpusIngest!TypeOK` |
| `CorpusIngestProofs!SourcesStaySearchable` | `SourceNeverVanishes` |
| `CorpusIngestProofs!SingleFlightKeepsOneDocument` | `OneDocumentPerSource` |
| `CorpusIngestProofs!RetrievalFindsItsOwn` | `SearchesOwnVectors` |
| `CorpusIngestProofs!ManifestIsTrue` | `ManifestIsCorpus`, under `OwnContents` |
| `QueryPoolProofs!PoolTypeCorrect` | `QueryPool!TypeOK` |
| `QueryPoolProofs!ResourcesAreExact` | `ResourcesExact` |
| `QueryPoolProofs!NobodyWaitsInACircle` | `SomebodyMoves` |
| `QueryPoolProofs!ReserveIsKept` | `ReserveKept` |
| `QueryPoolProofs!EachResourceIsBounded` | `KeepsBounds`: four refinements of `BoundedUse` |
| `AnswerStreamProofs!CompleteIsAccounted` | `CompleteMeansAccounted` |
| `AnswerStreamProofs!NoStaleVerdict` | `LastVerdictStands` |
| `AnswerStreamProofs!RecordIsTrue` | `RecordMatchesStream` |
| `AnswerStreamProofs!StreamImplementsContract` | `KeepsContract`: the refinement of `StreamContract` |
| `DocumentProofs!EmbedKeepsItsPromise` | `EmbedsAsPromised`: the refinements of `EmbedContract` and `BoundedUse` |
| `DocumentProofs!ChunksAreInBounds` | `ChunksFit` |
| `DocumentProofs!NoSentenceIsLost` | the chunker's part of `TextIsStored`: sentences in are sentences out, each row with its own vector |
| `DocumentProofs!SectionsAreToldInOrder` | the chunker's other part: the rows tell the sections in their order, and what goes back repeats what was told |
| `DocumentProofs!TextIsKept` | `TextIsStored`, from the file to its rows |
| `DocumentProofs!SmallChunksFoundNoRoom` | `SmallFoundNoRoom` |
| `DocumentProofs!RescueEnds` | the rescue loop ends after at most two passes a chunk |
| `RequestOutcomeProofs!FailureSignalExact` | `FailureSignalIsExact` |
| `RequestOutcomeProofs!ClockHonest` | `ClockIsHonest` |
| `RequestOutcomeProofs!ServesAsMeant` | `ServesOnlyAsMeant` |

Assumptions of `SpendGuard`: `PopulationAssumption` (finitely many requests, each with a replica
and a source), `CalendarAssumption` (a month starts no later than its days, and
months do not overlap), `MoneyAssumption` (configured limits are positive, worst
cases are bounded). Of `CorpusIngest`: `FilesAssumption` (every file has
something it may hold, a source and a number of chunks), `RequestsAssumption`
(a request resolves to a sequence of files), `EmbeddersAssumption`,
`BoundsAssumption` and `NoneAssumption` (typing). Of `QueryPool`:
`RequestsAssumption` (finitely many requests of disjoint kinds) and
`PoolAssumption` (at least two connections, a reserve smaller than the pool, one
connection a retrieval). Of `AnswerStream` and `RequestOutcome`: that
`None` is none of the other values (`NoneAssumption`), that a window has a whole
number of seconds left (`SecondsAssumption`) and that requests are finitely many
(`RequestsAssumption`). Of `AnswerReference` and `AnswerParser`: that the tokens
are different words, not empty and without a blank, a newline or a bracket, that
no such character counts as a digit, that every chunk has a numeral and the two
length bounds are numbers, at least one digit allowed (`ParserAssumption`), and
that what is fed is text (`SlicesAssumption`); nothing is assumed of the
characters, the digits or how a token begins, so tokens that are prefixes of one
another and digits that `int()` refuses are covered. Of `Chunker` and `EmbedBatches`: that the limits are
positive and in order, the margins numbers and the batch bounds positive (`ChunkerAssumption`,
`EmbedAssumption`). TLC evaluates them on every
run of their module. Three hypotheses are the theorems' own. `ManifestIsTrue`
needs `OwnContents`, that two files which may hold the same content have one
source. `_existing_hashes` looks a hash up among all documents, so the copy of a
document under another source would be reported unchanged and not stored. The
theorems about documents need `Chunkable(W, I)`: a loader returns sections, and
their headings leave room for the text (`RoomForPaths`). It has three parts, each
a sum that `chunker.py` takes for granted: siblings leave `hard_min` beside the
longest of their paths and one leaf more; a path leaves room for a cut sentence;
and a path that two sections share ends in a heading of at most the slack of
eight tokens. The third is there because the code has no room for more: a chunk
over two sections of one path is labelled with the leaf twice behind the whole
path, and the budget reserves it once (`chunker.py:159`). With a repeated
subheading longer than the slack TLC violates `ChunksFit`. `FilesAreChunkable`
has TLC evaluate the hypothesis on every file of the run, among them two
sections of one path. `TextIsKept` also needs `FilesAreRead(V)`: every file is
one of the three kinds and `Readable`. Where a file is not, the loader does lose
text: a line that is the first or last of most pages of a PDF goes, header or
not, and a line that happens to have the words of a heading below its bookmark is
taken for that heading. `FilesAreReadable` has TLC evaluate
this one on every file too.

The argument for the guard. A ceiling is not inductive: that a replica's rows stay below it
says nothing about what its guard believes. `ClaimsExact` ties the guard's
reservations to the open claims; the sum of claims is the cardinality of a set
of units, so that adding or removing one request is a fact about finite sets.
`CountsOwnRows` ties the cached totals and the delta to the replica's own rows,
with a slack for rows that are logged and not settled, for what the last refresh
forgot and for what never settles; `SelectCounts`, a conjunct of `Bookkeeping`,
says the same of a SELECT that is still under way, and carries the proof over
`ReadTotals` and `CompleteRefresh`. With both, an admission at a guard below its
ceiling bounds the rows and the open claims together, and every other step moves
money between the terms or only shrinks them. A ceiling of an earlier day
appears in `DailyCeiling` because a claim taken before midnight is spent after
it.

What a guard reports follows. The headroom is the ceiling less what
`CountsOwnRows` says the guard counts, and a later window holds fewer rows than
an earlier one. A refresh inside the lock finds the cache still stale, because
only the holder refreshes and what a cache loses by expiry it does not regain
(`StaleForHolder`). A guard that refuses for pressure and is not exhausted has
reservations, which by `ClaimsExact` some open claim accounts for. `SpendIsReal`
is inductive once it also speaks of the SELECT that is under way: its result is
at most what the rows sum to for the clock of the request that issued it, since
rows are only added (`ReadIsSpent`, `RowsStay`); the delta is bounded by the
replica's own rows less those logged and not settled (`AddedIsOwn`).

The argument for the parser. The properties compare the parser with a reading of
the whole text, so they say nothing of what the parser remembers; the invariant
`ParserInv` does. Until the verdict is decided the parser is a new one that holds
the line (`CharRead`); after that it has read the body (`HasRead`): a held line
is the last line of the body and may still become a control line, and the prose
before it has been read; if no line is held, all of the prose has. Having read
prose (`Prosed`) means that what was written is its rendering up to the open
marker, the digits since are held, and the citations are its citations. One more
character keeps this, since for each part of the reference a lemma says what the
character changes: the last line goes on or ends (`BodyGrows`), a marker opens,
grows, closes or breaks (`OpenGrows`, `MarkersGrow`), the rendering takes the
character, the citation or nothing (`RenderedGrows`, `RenderedClose`), the
citations take one more or none (`UsesGrow`). A line that once cannot become a
control line never will (`HopeEnds`), which is why the parser may release it, and
it holds no bracket (`HopefulLine`), which is why it may release it unread. Runs
over slices follow by induction (`CharRuns`), as for the documents below. In the
verdict line the kept characters are fed as body when the line gets too long
(`ReadsVerdict`).

The argument for the corpus. The types alone are not inductive: that a report
names a file needs that an ingest at work has one, which `HoldsItsFile` adds.
`TouchesOwnSource` says that an open transaction has deleted rows of its file's
source only and, at the commit, has inserted a document of that source; so no
commit takes a source away, whatever else ran (`SourcesStaySearchable`). For
`OneDocumentPerSource`, `HoldsLock` says that a route at work holds the lock
unless a connection was lost, hence at most one ingest is at work while
ingests exclude each other; then nothing changes the corpus between its SELECT
and its commit (`SeesItsSource`), and the commit replaces every document of the
source by one. `SingleFlight` can only become false along a behaviour
(`FlightBefore`), so the induction may assume it before every step that keeps
it. For a retrieval between its two statements, `FindsItsOwn` says that while
all ingests embed as deployed the corpus it has checked stays non-empty and of
one embedder. For the manifest, everything on disk, in the corpus and in a
transaction comes from a file (`FromFiles`), so with `OwnContents` a known hash
is known under the right source; `ManifestTrue` then says of an ingest that
nothing runs beside that each report so far which is the last word on its source
is so, after every step and not only at the end.

The argument for the pool. The counters are tied to the requests' stages by
`ResourcesExact`, which with the types is inductive: each action moves one
request between sets whose cardinality the counters follow. The rest are
consequences of it. If a request is blocked, whatever it lacks is held: a permit
or the refresh lock by a query that has or wants a connection, all connections
by sessions. A session in a statement can go on; the only session that wants
more is that of the one ingest with the advisory lock, and the pool has at least
two connections, so another one is in a statement or the second is free
(`SomebodyMoves`). Searches hold a permit each and there are fewer permits than
connections by the reserve (`ReserveKept`).

The argument for the stream. The contract speaks of the frames a client has; what
makes it hold is what the pump queues. `Ordered` therefore takes the frames, the
one the body has taken and the queue as one chain, in which each may follow the
one before it and says what the pump knows (`May`): a first verdict is the
header's, a correction is the final one and exists only if there is something to
correct, "complete" needs a pump that is done. `Reached` says how far the chain
is at each suspension of the pump, so each of its steps extends the chain by
what may come next; the steps of the body only move its inner borders. What a
chain of frames excludes is then local: nothing may follow "complete" but the
sentinel, and the sentinel is never delivered. `Accounted` and `Closed` tie the
row, the claim and the record to the pump.

The argument for the outcomes. Each step of a handler raises an error that fits its
condition, goes on behind the key or answers one who may ask (`HandlerMoves`); of
the three kinds of step, and of the two ways out, `Consistent` is preserved request
by request. The counters follow because a request is counted once, when it is
done, by the code it was rendered with: the set of done requests with that code
grows by one.

The argument for the documents. What the chunker computes is recursive, and an
induction over data needs a predicate for a parameter. `SequenceInduction` takes
a set instead: a set of naturals that has zero and every successor has them all,
by the least one it lacks (`UptoInduction`); a recursive definition over an
index has a value (`Recursion`), which is what its CHOOSE chose. With these each
pass is followed index by index. A unit fits alone under the breadcrumb of its
group (`UnitsFit`), for a sentence that would not is cut. Packing keeps a chunk
within the budget of its group, the seeded overlap included, or at the one unit
it had to take with what fits before it (`PackFits`). The redistribution stops
when the tail has reached `hard_min`, and adds one unit to less
(`RedistributeFits`); the rescue measures what it joins, and each of its passes
joins or moves on (`RescueEnds`). The breadcrumb of a chunk is no longer than the
longest path of the group and its leaf (`BreadcrumbFits`). Beside the bound each
pass carries what the chunks hold together, which makes `NoSentenceIsLost`. The
batches are slices that meet at multiples of the batch size, so all answers in
order are all texts (`BatchesMakeAll`); a task's attempts only move it along
(`StepMoves`), and a batch that has ended has answered or given up
(`EmbedKeeps`).

The order needs more than that each chunk is in order, since an overlap is told
twice. `InOrder` says of a sequence of units that one which goes back repeats an
earlier one. It is not enough for packing to keep it of each chunk: `Telling`
takes the packed chunks and the open one as one sequence, and a unit that is not
before any held one may follow (`OrderGoesOn`). The redistribution puts units in
front of a tail which the chunk before it ends with, so they have been told; the
rescue changes the borders between chunks and not their sequence, since what it
joins is adjacent (`RescueTells`). Groups tell their units one after the other
because sections do.

What is small after the rescue is argued against its direction. A chunk that was
passed found no room in the chunk before it and none for the next one, and
`SmallFoundNoRoom` must survive what follows: joining more to the next chunk
leaves what it began with in front, so the units there was no room for stay; and
a chunk before it is only changed when the rescue goes back to it, which joins it
to that one.

The argument for the loaders. Each has its own way of going through a file, and
each is shown to give sections that hold exactly what `Belongs` collects and are
in sequence. The EDGAR walk keeps the sentences since the last heading apart from
the sections it has closed: together they are what the parts up to here tell
(`Gathers`), for each of the four ways a part is treated (`FilingIsSectioned`). A
regulation is read twice, for its articles and for its annexes; an annex ends
where the next one or the notes begin, so the parts of two annexes do not meet,
and since annexes follow the articles the two readings can be put one behind the
other (`RegulationIsSectioned`). In a standard the lines that stay are those of
the file without furniture, in order (`LinesStay`); each search starts behind the
place of the one before, so places descend (`PositionsDescend`) and the bodies
between them do not overlap and leave nothing out but headings (`BodiesFollow`).
The first place is the first body heading, since nothing between its bookmark
and it forms it (`FirstPlace`); and that this heading among the lines that stay
is the first of its words in the file follows from the order of the sentences
(`SameHeading`). A heading that no bookmark led to is text of a body, which is
why `TextIsStored` leaves headings open (`StandardIsSectioned`). `TextIsKept`
puts the loader, the chunker's two parts and the rows together.

Every invariant and action property that a passing run checks is proved, of
`DocumentPipeline` under the two hypotheses above. Only model-checked is every
liveness property: fairness is out of the prover's reach.

## Plan

What could still be modelled: `Pricing` and the retrieval filters as operators
against a reference, and the statistics of the evaluation reports likewise. Each
is arithmetic or selection over data, without the interleavings that the modules
above are about.

## Not modelled

Parsing of HTML and PDF, sentence splitting and prompt text (data), message texts
and schemas, log layout, the text of `/metrics` and its latency, token and cost
series (sums of one statement each), the corpus registry (a validated table),
pricing (arithmetic over a table of three models), evaluation reports and scripts
(offline statistics over files) and migrations. Of an ingest, the dry run alone
(it changes nothing) and the report's counts; of retrieval, ranking, filters and
the reranker; of the settings, the numeric tuning variables. FIFO order of locks
and semaphores is not assumed, so the checks cover every order.
