--------------------------- MODULE DocumentPipeline ---------------------------
(***************************************************************************)
(* One file on its way through ingest_paths of ingest/pipeline.py: the     *)
(* loader sections it, the chunker cuts it, embed_all embeds the chunks    *)
(* while the event loop runs other things, and _upsert stores one row for  *)
(* each chunk with its vector.  CorpusIngest has what goes on around it.   *)
(***************************************************************************)
EXTENDS Chunker, Loaders, EmbedBatches

CONSTANT Files   \* files: [loader, content]

VARIABLES
    file,       \* the file
    stage,      \* "load", "chunk", "embed", "stored" or "failed"
    sections,   \* what the loader found
    rows        \* the chunks of the committed document, by ordinal

vars == <<file, stage, sections, rows, embedVars>>

-----------------------------------------------------------------------------
\* route_loader has chosen by suffix and content.
Sectioned(f) ==
    CASE f.loader = "edgar_10k"   -> LoadEdgar(f.content)
      [] f.loader = "eurlex_html" -> LoadEurlex(f.content)
      [] f.loader = "nist_pdf"    -> LoadNist(f.content)

Init ==
    /\ file \in Files
    /\ stage = "load"
    /\ sections = <<>> /\ rows = <<>>
    /\ EmbedInit

Load ==
    /\ stage = "load"
    /\ stage' = "chunk"
    /\ sections' = Sectioned(file)
    /\ UNCHANGED <<file, rows, embedVars>>

Chunk ==
    /\ stage = "chunk"
    /\ stage' = "embed"
    /\ EmbedAll(ChunkDocument(sections))
    /\ UNCHANGED <<file, sections, rows>>

Embed ==
    /\ EmbedNext
    /\ UNCHANGED <<file, stage, sections, rows>>

\* _upsert: chunks and vectors side by side; zip is strict, so a vector too few
\* would raise.
Store ==
    /\ stage = "embed" /\ status = "done"
    /\ Len(vectors) = Len(texts)
    /\ stage' = "stored"
    /\ rows' = [i \in DOMAIN texts |-> [chunk |-> texts[i], embedding |-> vectors[i]]]
    /\ UNCHANGED <<file, sections, embedVars>>

Fail ==
    /\ stage = "embed" /\ status = "raised"
    /\ stage' = "failed"
    /\ UNCHANGED <<file, sections, rows, embedVars>>

Finished ==
    /\ stage \in {"stored", "failed"}
    /\ \A b \in DOMAIN task : Ended(b)
    /\ UNCHANGED vars

Next == Load \/ Chunk \/ Embed \/ Store \/ Fail \/ Finished

Spec == Init /\ [][Next]_vars

\* Loading and chunking run in one piece; only the embedding can be kept waiting.
FairSpec == Spec /\ EmbedFairness

-----------------------------------------------------------------------------
(***************************************************************************)
(* What should come out, read off the file and not off the code.           *)
(***************************************************************************)

Ids(sentences) == {s.id : s \in Range(sentences)}

\* A filing: everything behind the first item heading but headings and tables
\* of numbers.  The heading of an item is the last block of its words.
BelongsInFiling(parts) ==
    LET Heading(i) == parts[i].kind = "item"
                      /\ \A j \in i + 1..Len(parts) :
                             parts[j].kind = "item" => parts[j].words # parts[i].words
    IN  UNION {Ids(parts[i].sentences) : i \in
                   {i \in DOMAIN parts : /\ ~Heading(i) /\ parts[i].kind \notin {"bold", "numeric"}
                                         /\ \E j \in 1..i : Heading(j)}}

\* A regulation: recitals, articles and annexes up to the footnotes.
BelongsInRegulation(parts) ==
    UNION {Ids(parts[i].sentences) : i \in
               {i \in DOMAIN parts :
                   \/ parts[i].kind \in {"recital", "article"}
                   \/ /\ parts[i].kind = "text"
                      /\ \E j \in 1..i : /\ parts[j].kind = "annex"
                                         /\ \A k \in j..i : parts[k].kind # "notes"}}

\* A standard: the lines behind the heading of the first body section, without
\* page numbers and running headers; a heading that no bookmark led to is text.
BelongsInStandard(document) ==
    LET lines == FlattenSeq(document.pages)
        first == Min({i \in DOMAIN lines : lines[i].kind = "title" /\ lines[i].words = document.first})
    IN  UNION {Ids(lines[i].sentences) : i \in {i \in first..Len(lines) : lines[i].kind = "line"}}

Headings(f) ==
    IF f.loader # "nist_pdf" THEN {}
    ELSE UNION {Ids(l.sentences) : l \in {l \in Range(FlattenSeq(f.content.pages)) : l.kind = "title"}}

Belongs(f) ==
    CASE f.loader = "edgar_10k"   -> BelongsInFiling(f.content)
      [] f.loader = "eurlex_html" -> BelongsInRegulation(f.content)
      [] f.loader = "nist_pdf"    -> BelongsInStandard(f.content)

-----------------------------------------------------------------------------
(***************************************************************************)
(* What the chunker counts on in the sections it is given, over any words  *)
(* and identities.                                                         *)
(***************************************************************************)
SectionSet(W, I) ==
    [path : Seq(Seq(W)) \ {<<>>}, sentences : Seq([id : I, tokens : Nat])]

\* Siblings leave room for their breadcrumb and a leaf of it once more.  A path
\* that two sections share ends in a short heading: the label of a chunk over
\* both repeats it twice, and the budget has room for one.
RoomForPaths(sectioned) ==
    /\ \A i, j \in DOMAIN sectioned :
           Front(sectioned[i].path) = Front(sectioned[j].path) =>
               PathTokens(sectioned[i].path) + Len(Last(sectioned[j].path)) + PackMargin + HardMin
                   <= TargetMax
    /\ \A i \in DOMAIN sectioned : PathTokens(sectioned[i].path) + SplitMargin < TargetMax
    /\ \A i, j \in DOMAIN sectioned :
           i # j /\ sectioned[i].path = sectioned[j].path =>
               Len(Last(sectioned[i].path)) <= PackMargin

Chunkable(W, I) ==
    \A f \in Files : Sectioned(f) \in Seq(SectionSet(W, I)) /\ RoomForPaths(Sectioned(f))

-----------------------------------------------------------------------------
(***************************************************************************)
(* What the loaders count on in a file.  Sentences are numbered as they    *)
(* stand in it.                                                            *)
(***************************************************************************)
Kinds == {"item", "bold", "block", "text", "table", "numeric",
          "chapter", "part", "recital", "article", "annex", "title", "notes",
          "line", "number", "header"}

PartSet(W, I) == [kind : Kinds, words : Seq(W), sentences : Seq([id : I, tokens : Nat])]

Rising(sentences) == \A a, b \in DOMAIN sentences : a < b => sentences[a].id < sentences[b].id

\* Of parts or sections: they tell their sentences in the order of the file.
InSequence(parts) ==
    /\ \A i \in DOMAIN parts : Rising(parts[i].sentences)
    /\ \A i, j \in DOMAIN parts : i < j =>
           \A s \in Ids(parts[i].sentences), t \in Ids(parts[j].sentences) : s < t

ReadableFiling(W, parts) ==
    /\ parts \in Seq(PartSet(W, Nat)) /\ InSequence(parts)
    /\ \A i \in DOMAIN parts : parts[i].words # None

\* Headings are not text, and the annexes follow the articles.
ReadableRegulation(W, parts) ==
    /\ parts \in Seq(PartSet(W, Nat)) /\ InSequence(parts)
    /\ \A i \in DOMAIN parts :
           parts[i].kind \notin {"recital", "article", "text"} => parts[i].sentences = <<>>
    /\ \A i, j \in DOMAIN parts :
           parts[i].kind = "annex" /\ parts[j].kind \in {"recital", "article"} => j < i

\* The running headers are what strip_page_furniture takes for them; lines that
\* form a title of the outline are headings; and the heading of the first body
\* section is the first there is from its bookmark on.
ReadableStandard(W, document) ==
    LET pages == document.pages
        text  == Stripped(pages)
        lines == FlattenSeq(text)
        entries == BodyEntries(document.outline, document.first)
        IsFirst(l) == l.kind = "title" /\ l.words = document.first
        heading == Min({i \in DOMAIN lines : IsFirst(lines[i])})
        bookmark == FirstLines(text)[Min({Head(entries).page, Len(text)})]
    IN  /\ pages \in Seq(Seq(PartSet(W, Nat))) /\ pages # <<>> /\ InSequence(FlattenSeq(pages))
        /\ document.outline \in Seq([title : Seq(W), depth : Nat, page : Nat \ {0}])
        /\ document.first \in Seq(W)
        /\ \E i \in DOMAIN document.outline : document.outline[i].title = document.first
        /\ \A l \in Range(FlattenSeq(pages)) :
               /\ l.kind \in {"line", "title", "number", "header"}
               /\ l.kind = "header" <=> l.words \in Furniture(pages)
               /\ l.kind = "title" => l.sentences # <<>>
        /\ \E i \in DOMAIN lines : IsFirst(lines[i])
        /\ \A e \in Range(entries) : \A i \in DOMAIN lines :
               \A k \in i..i + MatchWindow(lines, i, e.title) - 1 : lines[k].kind = "title"
        /\ bookmark <= heading
        /\ \A i \in bookmark..heading - 1 : MatchWindow(lines, i, document.first) = 0

Readable(W, f) ==
    CASE f.loader = "edgar_10k"   -> ReadableFiling(W, f.content)
      [] f.loader = "eurlex_html" -> ReadableRegulation(W, f.content)
      [] f.loader = "nist_pdf"    -> ReadableStandard(W, f.content)

-----------------------------------------------------------------------------
(***************************************************************************)
(* Properties.                                                             *)
(***************************************************************************)

\* The sentences of a document in the order its rows give them.
Told == FlattenSeq([i \in DOMAIN rows |-> rows[i].chunk.units])

\* No loader loses text and no cut, overlap, redistribution or rescue of the
\* chunker does: the rows hold every sentence that belongs to the document, in
\* its order, and nothing else; each row is embedded as itself.
TextIsStored ==
    stage = "stored" =>
        /\ {u.sentence : u \in Range(Told)} \ Headings(file) = Belongs(file)
        /\ \A i, j \in DOMAIN Told :
               i < j /\ Told[j].sentence < Told[i].sentence
                   => \E k \in 1..i : Told[k].sentence = Told[j].sentence
        /\ \A i \in DOMAIN rows : rows[i].embedding = rows[i].chunk

Units(i) == rows[i].chunk.units

\* SPEC-003 AC-4: every chunk is at most target_max with its breadcrumb, though
\* the overlap, the redistribution and the rescue all add to a chunk that was
\* packed under its budget.
ChunksFit ==
    \A i \in DOMAIN rows : TokenCount(sections, Units(i)) <= TargetMax

\* SPEC-003 AC-4: a chunk is below hard_min only where "no neighbor can absorb" it.
\* The chunk before it has no room; the next one had none when the rescue came by,
\* for all of it or for as much as it held by then.  It may have room since: the
\* breadcrumb of a chunk gets shorter when it takes in one of another parent, and
\* the rescue does not look back.
SmallFoundNoRoom ==
    \A i \in DOMAIN rows : Small(Units(i)) =>
        /\ i > 1 => ~CanJoin(sections, Units(i - 1), Units(i))
        /\ i < Len(rows) =>
               \E n \in DOMAIN Units(i + 1) : ~CanJoin(sections, Units(i), SubSeq(Units(i + 1), 1, n))

\* chunk_document, on its redistribution: it stops "before creating an adjacent
\* duplicate of the tail's seeded overlap"; no chunk holds the same run of units
\* twice in succession.
NoAdjacentDuplicate ==
    stage = "embed" =>
        \A units \in Range(AllPacked(sections)) : \A i \in DOMAIN units :
            \A n \in 1..(Len(units) - i + 1) \div 2 :
                SubSeq(units, i, i + n - 1) # SubSeq(units, i + n, i + 2 * n - 1)
=============================================================================
