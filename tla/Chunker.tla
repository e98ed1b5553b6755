------------------------------- MODULE Chunker -------------------------------
(***************************************************************************)
(* chunk_document of ingest/chunker.py: sections of sentences are grouped, *)
(* packed under a token budget with an overlap, the last chunk of a group  *)
(* is filled up from the one before it, and chunks that are still too      *)
(* small are joined to a neighbour.                                        *)
(*                                                                         *)
(* A section is a heading path and sentences; a sentence is an identity    *)
(* and a number of tokens, and a heading is a sequence of words, one token *)
(* each.  A unit is a sentence or a piece of one and knows which, since    *)
(* the code compares units by identity.  Tokens are taken to add up: a     *)
(* chunk has those of its breadcrumb and of its units.                     *)
(***************************************************************************)
EXTENDS Naturals, Sequences, SequencesExt, FiniteSetsExt

CONSTANTS
    TargetMin,          \* IngestConfig.target_min
    TargetMax,          \* IngestConfig.target_max
    HardMin,            \* IngestConfig.hard_min
    OverlapThreshold,   \* int(overlap_ratio * target_max)
    SplitMargin,        \* the slack for a breadcrumb when a sentence is cut: 16
    PackMargin          \* ... and when a chunk is packed: 8

ASSUME ChunkerAssumption ==
    /\ {TargetMin, TargetMax, HardMin, OverlapThreshold} \subseteq Nat \ {0}
    /\ {SplitMargin, PackMargin} \subseteq Nat
    /\ HardMin < TargetMin /\ TargetMin < TargetMax

TokensOf(units) ==
    LET sum[i \in 0..Len(units)] == IF i = 0 THEN 0 ELSE sum[i - 1] + units[i].tokens
    IN  sum[Len(units)]

PathTokens(path) == Len(FlattenSeq(path))

LastOf(s, k) == SubSeq(s, Len(s) - k + 1, Len(s))
ButLast(s, k) == SubSeq(s, 1, Len(s) - k)

-----------------------------------------------------------------------------
(***************************************************************************)
(* Units and groups.                                                       *)
(***************************************************************************)

\* A sentence beyond the unit budget is cut at token boundaries.
SplitOversized(unit, budget) ==
    IF unit.tokens <= budget THEN <<unit>>
    ELSE LET pieces == (unit.tokens + budget - 1) \div budget
         IN  [k \in 1..pieces |->
                 [unit EXCEPT !.piece = k,
                              !.tokens = IF k < pieces THEN budget ELSE @ - budget * (pieces - 1)]]

UnitsOf(sections, i) ==
    LET budget == TargetMax - (PathTokens(sections[i].path) + SplitMargin)
        Pieces(s) == SplitOversized([section |-> i, sentence |-> s.id, piece |-> 1,
                                     tokens |-> s.tokens], budget)
    IN  FlattenSeq([j \in DOMAIN sections[i].sentences |-> Pieces(sections[i].sentences[j])])

\* Siblings share a group until it has target_min, as long as it fits.
AddToGroups(sections, groups, i) ==
    LET units  == UnitsOf(sections, i)
        parent == Front(sections[i].path)
        Joins  == /\ groups # <<>> /\ Last(groups).parent = parent
                  /\ TokensOf(Last(groups).units) < TargetMin
                  /\ TokensOf(Last(groups).units) + TokensOf(units) <= TargetMax
    IN  IF units = <<>> THEN groups
        ELSE IF Joins
        THEN Append(Front(groups), [Last(groups) EXCEPT !.units = @ \o units,
                                                        !.sections = @ \cup {i}])
        ELSE Append(groups, [parent |-> parent, units |-> units, sections |-> {i}])

Groups(sections) ==
    LET groups[i \in 0..Len(sections)] ==
            IF i = 0 THEN <<>> ELSE AddToGroups(sections, groups[i - 1], i)
    IN  groups[Len(sections)]

\* The longest breadcrumb of the group and its longest leaf once more, since a
\* range label repeats a leaf.
Budget(sections, group) ==
    LET longest == Max({PathTokens(sections[i].path) : i \in group.sections})
        leaf    == Max({Len(Last(sections[i].path)) : i \in group.sections})
        rest    == TargetMax - (longest + leaf + PackMargin)
    IN  IF rest > HardMin THEN rest ELSE HardMin

-----------------------------------------------------------------------------
(***************************************************************************)
(* Packing.                                                                *)
(***************************************************************************)

\* The whole sentences a chunk repeats of the one before it: trailing ones of
\* the section it starts in, up to the first that reaches the threshold, and
\* never the whole chunk.
Overlap(previous, section) ==
    LET Suffices(k) ==
            /\ \A u \in Range(LastOf(previous, k)) : u.section = section
            /\ k > 1 => TokensOf(LastOf(previous, k - 1)) < OverlapThreshold
    IN  LastOf(previous, Max({0} \cup {k \in 1..Len(previous) - 1 : Suffices(k)}))

\* ... and what of it leaves room for the next unit.
Seed(previous, unit, budget) ==
    LET overlap == Overlap(previous, unit.section)
        Fits(k) == TokensOf(LastOf(overlap, k)) + unit.tokens <= budget
    IN  LastOf(overlap, Max({0} \cup {k \in 1..Len(overlap) : Fits(k)}))

\* Fault: the overlap is kept whether or not there is room for it.
ContinueCrowded(previous, unit, budget) == Append(Overlap(previous, unit.section), unit)

\* The chunk that follows a full one.
Continue(previous, unit, budget) == Append(Seed(previous, unit, budget), unit)

PackUnit(s, u, budget) ==
    IF s.current # <<>> /\ TokensOf(s.current) + u.tokens > budget
    THEN [packed |-> Append(s.packed, s.current), current |-> Continue(s.current, u, budget)]
    ELSE [s EXCEPT !.current = Append(@, u)]

Pack(units, budget) ==
    LET packing[i \in 0..Len(units)] ==
            IF i = 0 THEN [packed |-> <<>>, current |-> <<>>]
            ELSE PackUnit(packing[i - 1], units[i], budget)
        end == packing[Len(units)]
    IN  IF end.current = <<>> THEN end.packed ELSE Append(end.packed, end.current)

\* A last chunk under hard_min takes trailing units of its predecessor, unless
\* that would leave the predecessor under it, or the unit opens the chunk
\* already.
Redistribute(packed) ==
    LET n    == Len(packed)
        tail == packed[n]
        prev == packed[n - 1]
        Taken(m) == LastOf(prev, m) \o tail
        GoesOn(m) == /\ TokensOf(Taken(m)) < HardMin
                     /\ Len(prev) - m > 1
                     /\ TokensOf(ButLast(prev, m + 1)) >= HardMin
                     /\ prev[Len(prev) - m] # Head(Taken(m))
        moved == CHOOSE m \in 0..Len(prev) : ~GoesOn(m) /\ \A k \in 0..m - 1 : GoesOn(k)
    IN  IF n < 2 THEN packed
        ELSE [packed EXCEPT ![n - 1] = ButLast(@, moved), ![n] = Taken(moved)]

\* all_packed before the rescue.
AllPacked(sections) ==
    LET PackGroup(g) == Redistribute(Pack(g.units, Budget(sections, g)))
    IN  FlattenSeq([i \in DOMAIN Groups(sections) |-> PackGroup(Groups(sections)[i])])

-----------------------------------------------------------------------------
(***************************************************************************)
(* Breadcrumbs and the rescue of small chunks.                             *)
(***************************************************************************)

\* One section's own path; else the common ancestors and a label of the first
\* and the last section.
SectionPath(sections, units) ==
    LET used  == {u.section : u \in Range(units)}
        first == sections[Min(used)].path
        final == sections[Max(used)].path
        Common(k) == \A i \in used : Len(sections[i].path) >= k
                                     /\ SubSeq(sections[i].path, 1, k) = SubSeq(first, 1, k)
        depth == Max({k \in 0..Len(first) : Common(k)})
        Label(path) == IF Len(path) > depth THEN path[depth + 1] ELSE Last(path)
    IN  IF Cardinality(used) = 1 THEN first
        ELSE SubSeq(first, 1, depth) \o <<Label(first) \o Label(final)>>

\* The token_count of a chunk as it is rendered.
TokenCount(sections, units) == PathTokens(SectionPath(sections, units)) + TokensOf(units)

Small(units) == TokensOf(units) < HardMin

CanJoin(sections, a, b) == TokenCount(sections, a \o b) <= TargetMax

\* Chunk i and the next one become one.
Joined(chunks, i) ==
    SubSeq(chunks, 1, i - 1) \o <<chunks[i] \o chunks[i + 1]>> \o SubSeq(chunks, i + 2, Len(chunks))

\* Fault: a chunk that took in the next one is not looked at again.
AfterNextPassing(i) == i + 1

\* Where the loop looks after chunk i took in the next one.
AfterNext(i) == i

\* One pass of the loop; chunk s.at is looked at.
RescueStep(sections, s) ==
    LET chunks == s.chunks
        i      == s.at
    IN  IF i > Len(chunks) THEN s
        ELSE IF ~Small(chunks[i]) THEN [s EXCEPT !.at = i + 1]
        ELSE IF i > 1 /\ CanJoin(sections, chunks[i - 1], chunks[i])
        THEN [chunks |-> Joined(chunks, i - 1), at |-> i - 1]
        ELSE IF i < Len(chunks) /\ CanJoin(sections, chunks[i], chunks[i + 1])
        THEN [chunks |-> Joined(chunks, i), at |-> AfterNext(i)]
        ELSE [s EXCEPT !.at = i + 1]

\* A pass goes on to the next chunk or makes one less of them, so there are fewer
\* than two for every chunk.
Rescue(sections, packed) ==
    LET loop[k \in 0..2 * Len(packed)] ==
            IF k = 0 THEN [chunks |-> packed, at |-> 1] ELSE RescueStep(sections, loop[k - 1])
    IN  loop[2 * Len(packed)].chunks

ChunkDocument(sections) ==
    LET packed == Rescue(sections, AllPacked(sections))
    IN  [i \in DOMAIN packed |-> [path  |-> SectionPath(sections, packed[i]),
                                  units |-> packed[i]]]
=============================================================================
