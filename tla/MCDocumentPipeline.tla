------------------------- MODULE MCDocumentPipeline -------------------------
(***************************************************************************)
(* Files for DocumentPipeline: every short filing over a few kinds of      *)
(* parts, some regulations and some standards.                             *)
(***************************************************************************)
EXTENDS DocumentPipeline

\* A part with the token counts of its sentences; Numbered gives these their
\* identities, in the order of the file.
Part(kind, words, tokens) == [kind |-> kind, words |-> words, tokens |-> tokens]

Numbered(parts) ==
    [i \in DOMAIN parts |->
        [kind |-> parts[i].kind, words |-> parts[i].words,
         sentences |-> [k \in DOMAIN parts[i].tokens |->
                           [id |-> 10 * i + k, tokens |-> parts[i].tokens[k]]]]]

Block(tokens) == Part("block", <<>>, tokens)

FilingParts ==
    {Part("item", <<"1">>, <<1>>), Part("item", <<"1A">>, <<1>>), Part("bold", <<"sub">>, <<>>),
     Part("numeric", <<>>, <<3>>)}
    \cup {Block(t) : t \in {<<6>>, <<1, 1>>, <<1>>, <<3>>, <<10, 2>>}}

Filings(n) == {[loader |-> "edgar_10k", content |-> Numbered(<<first>> \o rest)] :
                  first \in {Part("item", <<"1">>, <<1>>), Block(<<1>>)}, rest \in [1..n -> FilingParts]}

\* An item with text of its own and under a subheading, and a second item.
TwoItems == {[loader |-> "edgar_10k", content |-> Numbered(
        <<Part("item", <<"1">>, <<1>>), Block(a), Part("bold", <<"sub">>, <<>>), Block(b),
          Part("item", <<"1A">>, <<1>>), Block(c)>>)] :
    a \in {<<>>, <<1>>, <<3>>}, b \in {<<1>>, <<1, 1>>, <<5>>}, c \in {<<1>>, <<2, 4>>, <<6, 3>>}}

\* Two subheadings of the same words under one item: siblings with one path.
Twins == {[loader |-> "edgar_10k", content |-> Numbered(
        <<Part("item", <<"1">>, <<1>>), Part("bold", <<"sub">>, <<>>), Block(a),
          Part("bold", <<"sub">>, <<>>), Block(b)>>)] :
    a \in {<<1>>, <<3>>, <<1, 2>>, <<4, 2>>}, b \in {<<1>>, <<2, 1>>, <<5>>, <<7>>}}

\* An item's own text, a large section under a heading of two words, and a small
\* item: once the last two are joined, their breadcrumb is the shorter one.
Regained == {[loader |-> "edgar_10k", content |-> Numbered(
        <<Part("item", <<"1">>, <<1>>), Block(a), Part("bold", <<"sub", "heading">>, <<>>), Block(b),
          Part("item", <<"1A">>, <<1>>), Block(c)>>)] :
    a \in {<<1>>, <<2>>}, b \in {<<6>>, <<7>>}, c \in {<<1>>, <<2>>}}

AnnexOf(n, tokens) == <<Part("annex", <<n>>, <<>>), Part("title", <<"List">>, <<>>), Part("text", <<>>, tokens)>>
Article(n, tokens) == Part("article", <<n>>, tokens)

Regulations == {[loader |-> "eurlex_html", content |-> Numbered(c)] : c \in
    {<<Part("recital", <<"r1">>, a), Part("recital", <<"r2">>, b), Part("recital", <<"r3">>, <<2>>),
       Part("chapter", <<"C1">>, <<>>), Article("a1", b), Part("part", <<"S1">>, <<>>), Article("a2", a),
       Part("chapter", <<"C2">>, <<>>), Article("a3", <<4, 4>>)>>
     \o AnnexOf("I", a) \o AnnexOf("II", b) \o <<Part("notes", <<>>, <<>>), Part("text", <<>>, <<2>>)>> :
        a \in {<<>>, <<2>>, <<5>>}, b \in {<<1>>, <<3, 3>>}}}

Line(words, tokens) == Part("line", words, tokens)
Heading(words) == Part("title", words, <<1>>)
Header == Part("header", <<"AI RMF">>, <<1>>)

Paged(pages) ==
    LET start == [i \in DOMAIN pages |-> Len(FlattenSeq(SubSeq(pages, 1, i - 1)))]
        lines == Numbered(FlattenSeq(pages))
    IN  [i \in DOMAIN pages |-> SubSeq(lines, start[i] + 1, start[i] + Len(pages[i]))]

Entry(title, depth, page) == [title |-> title, depth |-> depth, page |-> page]

\* A page number, a table of contents, a wrapped and a numbered heading, and
\* outlines whose bookmarks are right, early or missing from the text.
Standards == {[loader |-> "nist_pdf",
               content |-> [pages |-> Paged(p), outline |-> o, first |-> <<"Summary">>]] :
    p \in {<< <<Header, Line(<<"Summary", "2">>, <<1>>)>>,
              <<Header, Heading(<<"Summary">>), Line(<<"x">>, a), Part("number", <<"2">>, <<1>>)>>,
              <<Header, Heading(<<"2.1", "Risk">>), Heading(<<"Framing">>), Line(<<"y">>, b), Heading(<<"Govern">>)>>,
              <<Header, Line(<<"z">>, <<2, 2>>)>> >> : a \in {<<2>>, <<3, 3>>}, b \in {<<>>, <<4>>}},
    o \in {<<Entry(<<"Contents">>, 0, 1), Entry(<<"Summary">>, 0, s), Entry(<<"Risk", "Framing">>, 0, r),
             Entry(<<"Govern">>, 1, g)>> : s \in {1, 2}, r \in {1, 3}, g \in {2, 3}}
          \cup {<<Entry(<<"Summary">>, 0, 2), Entry(<<"Map">>, 1, 3), Entry(<<"Govern">>, 0, 3)>>}}

TheLabel == <<"Doc">>

AllFiles == Filings(3) \cup TwoItems \cup Twins \cup Regained \cup Regulations \cup Standards

\* The proofs are about files whose sections are such.
ASSUME FilesAreChunkable == Chunkable(STRING, Nat)

ASSUME FilesAreReadable == \A f \in AllFiles : Readable(STRING, f)
=============================================================================
