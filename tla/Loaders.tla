------------------------------- MODULE Loaders -------------------------------
(***************************************************************************)
(* The sectioning of the three loaders of ingest/loaders: what of a parsed *)
(* file becomes a section, under which headings.  A file is the sequence   *)
(* of the parts its loader's walk stops at; a part has its words, if it    *)
(* may be a heading, and its sentences.  Parsing of HTML and PDF and the   *)
(* normalisation of characters are left out.                               *)
(***************************************************************************)
EXTENDS Naturals, Sequences, SequencesExt, FiniteSetsExt

CONSTANTS
    DocLabel,   \* the first heading of every path of a loader's document
    Numbers,    \* words like "2.1", which may precede a heading of a PDF
    None

Section(path, sentences) == [path |-> path, sentences |-> sentences]

\* The section of a heading, if there is text under it.
SectionOf(path, sentences) == IF sentences = <<>> THEN <<>> ELSE <<Section(path, sentences)>>

Sentences(parts) == FlattenSeq([i \in DOMAIN parts |-> parts[i].sentences])

-----------------------------------------------------------------------------
(***************************************************************************)
(* EDGAR 10-K.  Parts: "item" (a short block "Item N."), "bold" (a block   *)
(* that is one bold span), "block", "text" (loose text), "table" and       *)
(* "numeric" (a table at or above the threshold).                          *)
(***************************************************************************)

\* _find_item_headings: of several candidates the last one is the heading.
ItemHeadings(parts) ==
    {i \in DOMAIN parts :
        /\ parts[i].kind = "item"
        /\ \A j \in i + 1..Len(parts) : parts[j].kind = "item" => parts[j].words # parts[i].words}

EdgarPath(walk) ==
    <<DocLabel, walk.item>> \o (IF walk.sub = None THEN <<>> ELSE <<walk.sub>>)

Flush(walk) ==
    [walk EXCEPT !.lines = <<>>,
                 !.sections = IF walk.item = None THEN @
                              ELSE @ \o SectionOf(EdgarPath(walk), walk.lines)]

\* Fault: a bold subheading does not end the section before it.
WalkUnflushed(parts, walk, i) ==
    IF i \in ItemHeadings(parts)
    THEN [Flush(walk) EXCEPT !.item = parts[i].words, !.sub = None]
    ELSE IF walk.item = None \/ parts[i].kind = "numeric" THEN walk
    ELSE IF parts[i].kind = "bold" THEN [walk EXCEPT !.sub = parts[i].words, !.lines = <<>>]
    ELSE [walk EXCEPT !.lines = @ \o parts[i].sentences]

\* One node of the walk.  Nothing before the first item is kept; a candidate
\* that is not the heading is a block like any other.
Walk(parts, walk, i) ==
    IF i \in ItemHeadings(parts)
    THEN [Flush(walk) EXCEPT !.item = parts[i].words, !.sub = None]
    ELSE IF walk.item = None \/ parts[i].kind = "numeric" THEN walk
    ELSE IF parts[i].kind = "bold" THEN [Flush(walk) EXCEPT !.sub = parts[i].words]
    ELSE [walk EXCEPT !.lines = @ \o parts[i].sentences]

LoadEdgar(parts) ==
    LET start == [item |-> None, sub |-> None, lines |-> <<>>, sections |-> <<>>]
        walk[i \in 0..Len(parts)] == IF i = 0 THEN start ELSE Walk(parts, walk[i - 1], i)
    IN  Flush(walk[Len(parts)]).sections

-----------------------------------------------------------------------------
(***************************************************************************)
(* EUR-Lex.  Parts: "chapter", "part" (a section of a chapter), "recital", *)
(* "article", "annex", "title" (any other oj-doc-ti), "text" and "notes"   *)
(* (the footnote panel).                                                   *)
(***************************************************************************)

\* _article_context: the nearest chapter before an article, and the nearest
\* section after that chapter.
ArticleContext(parts, i) ==
    LET chapters == {j \in 1..i : parts[j].kind = "chapter"}
        chapter  == Max(chapters)
        within   == {j \in 1..i : parts[j].kind = "part" /\ \A k \in chapters : k < j}
    IN  (IF chapters = {} THEN <<>> ELSE <<parts[chapter].words>>)
        \o (IF within = {} THEN <<>> ELSE <<parts[Max(within)].words>>)

\* The strings between an annex heading, its own included, and the next annex
\* or the footnotes.
AnnexEnd(parts, i) ==
    Min({j \in i + 1..Len(parts) : parts[j].kind \in {"annex", "notes"}} \cup {Len(parts) + 1})

\* The title _load_annexes gives it: the first oj-doc-ti string of these, which
\* is the heading's own.
AnnexTitle(parts, i) ==
    LET strings == {j \in i..AnnexEnd(parts, i) - 1 : parts[j].kind \in {"annex", "title"}}
    IN  parts[Min(strings)].words

\* _load_articles_and_recitals, one part.
Subdivision(parts, i) ==
    CASE parts[i].kind = "recital" ->
            SectionOf(<<DocLabel, <<"Preamble">>, parts[i].words>>, parts[i].sentences)
      [] parts[i].kind = "article" ->
            SectionOf(<<DocLabel>> \o ArticleContext(parts, i) \o <<parts[i].words>>,
                      parts[i].sentences)
      [] OTHER -> <<>>

\* _load_annexes, one boundary.
Annex(parts, i) ==
    IF parts[i].kind # "annex" THEN <<>>
    ELSE SectionOf(<<DocLabel, parts[i].words \o AnnexTitle(parts, i)>>,
                   Sentences(SubSeq(parts, i + 1, AnnexEnd(parts, i) - 1)))

LoadEurlex(parts) ==
    FlattenSeq([i \in DOMAIN parts |-> Subdivision(parts, i)])
    \o FlattenSeq([i \in DOMAIN parts |-> Annex(parts, i)])

-----------------------------------------------------------------------------
(***************************************************************************)
(* NIST PDF.  A file is its pages, sequences of lines, and its outline:    *)
(* entries of a title, a depth and a page.                                 *)
(***************************************************************************)

\* strip_page_furniture: the first or last line of more than half of the pages.
Furniture(pages) ==
    LET full == {i \in DOMAIN pages : pages[i] # <<>>}
        Often(text, Edge(_)) ==
            2 * Cardinality({i \in full : Edge(pages[i]).words = text}) > Len(pages)
    IN  {l.words : l \in {l \in Range(FlattenSeq(pages)) : Often(l.words, Head) \/ Often(l.words, Last)}}

EmptyLine == [kind |-> "line", words |-> <<>>, sentences |-> <<>>]

\* Bare page numbers go too; a page without lines is one empty line.
Stripped(pages) ==
    LET running == Furniture(pages)
        Keeps(l) == l.words \notin running /\ l.kind # "number"
        Kept(p)  == FlattenSeq([k \in DOMAIN p |-> IF Keeps(p[k]) THEN <<p[k]>> ELSE <<>>])
    IN  [i \in DOMAIN pages |-> IF Kept(pages[i]) = <<>> THEN <<EmptyLine>> ELSE Kept(pages[i])]

\* _match_window: how many lines from start on form the heading; 0 if none do.
MatchWindow(lines, start, title) ==
    LET Words(w) == FlattenSeq([k \in 1..w |-> lines[start + k - 1].words])
        Forms(w) == /\ start + w - 1 <= Len(lines)
                    /\ \/ Words(w) = title
                       \/ \E n \in Numbers : Words(w) = <<n>> \o title
        widths == {w \in 1..3 : Forms(w)}
    IN  IF widths = {} THEN 0 ELSE Min(widths)

\* Where a heading is looked for: from its page on, behind the one before it.
SearchFrom(page, floor) == Max({page, floor})

\* The line of a heading and how many it takes, 0 where none was found.
Locate(lines, pageLine, floor, e) ==
    LET start == SearchFrom(pageLine[Min({e.page, Len(pageLine)})], floor)
        hits  == {i \in start..Len(lines) : MatchWindow(lines, i, e.title) > 0}
    IN  IF hits = {} THEN [line |-> start, width |-> 0]
        ELSE [line |-> Min(hits), width |-> MatchWindow(lines, Min(hits), e.title)]

\* Positions(..)[i] is that of entry i; the search for it starts behind entry i - 1.
Positions(lines, pageLine, entries) ==
    LET position[i \in 0..Len(entries)] ==
            IF i = 0 THEN [line |-> 1, width |-> 0]
            ELSE LET before == position[i - 1]
                 IN  Locate(lines, pageLine, before.line + before.width, entries[i])
    IN  position

\* The titles the stack holds at entry i: those no later entry of the same or a
\* lesser depth has closed.
OutlinePath(entries, i) ==
    LET Open(j) == \A k \in j + 1..i : entries[k].depth > entries[j].depth
        stack   == SelectSeq([j \in 1..i |-> j], Open)
    IN  <<DocLabel>> \o [k \in DOMAIN stack |-> entries[stack[k]].title]

\* The outline from the first body section on.
BodyEntries(outline, first) ==
    LET found == {i \in DOMAIN outline : outline[i].title = first}
    IN  IF found = {} THEN outline ELSE SubSeq(outline, Min(found), Len(outline))

\* The index of the first line of each page.
FirstLines(pages) == [i \in DOMAIN pages |-> 1 + Len(FlattenSeq(SubSeq(pages, 1, i - 1)))]

LoadNist(file) ==
    LET pages     == Stripped(file.pages)
        lines     == FlattenSeq(pages)
        entries   == BodyEntries(file.outline, file.first)
        positions == Positions(lines, FirstLines(pages), entries)
        Start(i)  == positions[i].line + positions[i].width
        End(i)    == IF i < Len(entries) THEN positions[i + 1].line - 1 ELSE Len(lines)
        Body(i)   == SectionOf(OutlinePath(entries, i), Sentences(SubSeq(lines, Start(i), End(i))))
    IN  FlattenSeq([i \in DOMAIN entries |-> Body(i)])
=============================================================================
