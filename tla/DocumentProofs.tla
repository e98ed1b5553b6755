---------------------------- MODULE DocumentProofs ----------------------------
(***************************************************************************)
(* Proofs about DocumentPipeline, for documents of any length, any limits  *)
(* and any number of batches.                                              *)
(*                                                                         *)
(* Chunks: every unit fits alone under the breadcrumb of its group.        *)
(* Packing keeps a chunk within the budget, or at one unit with what fits  *)
(* before it; the redistribution adds to a tail that is under hard_min;    *)
(* the rescue measures what it joins.  Each pass also keeps what the       *)
(* chunks hold between them.  A recursive definition is first shown to     *)
(* have a value (Recursion) and then followed by induction on the index.   *)
(*                                                                         *)
(* Order: units that go back to an earlier sentence repeat one that was    *)
(* told; packing, redistribution and rescue keep that.                     *)
(*                                                                         *)
(* Loaders: the walk through a filing, the articles and annexes of a       *)
(* regulation and the places of the headings of a standard each tell what  *)
(* belongs to the document, in its order.                                  *)
(*                                                                         *)
(* Batches: slices of the texts that meet at multiples of the batch size,  *)
(* so their answers in order are the texts.                                *)
(***************************************************************************)
EXTENDS DocumentPipeline, SequenceInduction, SequenceTheorems, FiniteSetTheorems

(***************************************************************************)
(* Tokens add up.                                                          *)
(***************************************************************************)

Measured(U) == \A u \in U : u.tokens \in Nat

\* f[i] is what the first i units have.
Sums(f, units, n) == f[0] = 0 /\ \A i \in 1..n : f[i] = f[i - 1] + units[i].tokens

LEMMA TokensPrefixes ==
    ASSUME NEW U, Measured(U), NEW units \in Seq(U), NEW n \in Nat, n = Len(units)
    PROVE  \E f \in [0..n -> Nat] : TokensOf(units) = f[n] /\ Sums(f, units, n)
<1> DEFINE Eq(g) == g = [i \in 0..n |-> IF i = 0 THEN 0 ELSE g[i - 1] + units[i].tokens]
           step == [p \in (1..n) \X Nat |-> p[2] + units[p[1]].tokens]
<1>1. \A i \in 1..n : units[i].tokens \in Nat
  BY DEF Measured
<1>2. step \in [(1..n) \X Nat -> Nat]
  BY <1>1
<1>3. \E f \in [0..n -> Nat] : Recurses(f, n, 0, step)
  <2> HIDE DEF step
  <2> QED
    BY <1>2, Recursion
<1>4. PICK f \in [0..n -> Nat] : Recurses(f, n, 0, step)
  BY <1>3
<1>5. f[0] = 0
  BY <1>4 DEF Recurses
<1>6. ASSUME NEW i \in 1..n PROVE f[i] = f[i - 1] + units[i].tokens
  <2>1. i - 1 \in 0..n
    OBVIOUS
  <2>2. f[i] = step[<<i, f[i - 1]>>]
    BY <1>4 DEF Recurses
  <2> QED
    BY <2>1, <2>2
<1> HIDE DEF step
<1>7. Eq(f)
  <2>1. ASSUME NEW i \in 0..n PROVE f[i] = IF i = 0 THEN 0 ELSE f[i - 1] + units[i].tokens
    BY <1>5, <1>6
  <2> QED
    BY <2>1
<1>8. PICK h : h = (CHOOSE x : Eq(x))
  OBVIOUS
<1>9. Eq(h)
  <2> HIDE DEF Eq
  <2> QED
    BY <1>7, <1>8
<1>10. TokensOf(units) = h[n]
  BY <1>8 DEF TokensOf
<1>11. h[0] = 0 /\ \A i \in 1..n : h[i] = h[i - 1] + units[i].tokens
  BY <1>9
<1>12. h = f
  <2> DEFINE G == {i \in Nat : h[i] = f[i]}
  <2>1. 0 \in G
    BY <1>5, <1>11
  <2>2. ASSUME NEW i \in 1..n, i - 1 \in G PROVE i \in G
    <3>1. h[i - 1] = f[i - 1]
      BY <2>2
    <3> QED
      BY <1>6, <1>11, <3>1
  <2>3. \A i \in 0..n : i \in G
    <3> HIDE DEF G
    <3> QED
      BY <2>1, <2>2, UptoInduction
  <2> QED
    BY <1>9, <2>3
<1>13. Sums(f, units, n)
  BY <1>5, <1>6 DEF Sums
<1> QED
  BY <1>10, <1>12, <1>13

LEMMA TokensUnique ==
    ASSUME NEW U, Measured(U), NEW units \in Seq(U), NEW n \in Nat, n = Len(units),
           NEW p, Sums(p, units, n)
    PROVE  TokensOf(units) = p[n]
<1>1. PICK f \in [0..n -> Nat] : TokensOf(units) = f[n] /\ Sums(f, units, n)
  BY TokensPrefixes
<1> DEFINE G == {i \in Nat : f[i] = p[i]}
<1>2. 0 \in G
  BY <1>1 DEF Sums
<1>3. ASSUME NEW i \in 1..n, i - 1 \in G PROVE i \in G
  <2>1. f[i - 1] = p[i - 1]
    BY <1>3
  <2> QED
    BY <1>1, <2>1 DEF Sums
<1>4. n \in 0..n
  OBVIOUS
<1>5. n \in G
  <2> HIDE DEF G
  <2>1. \A i \in 0..n : i \in G
    BY <1>2, <1>3, UptoInduction
  <2> QED
    BY <1>4, <2>1
<1> QED
  BY <1>1, <1>5

LEMMA TokensType ==
    ASSUME NEW U, Measured(U), NEW units \in Seq(U)
    PROVE  TokensOf(units) \in Nat
<1>1. PICK n \in Nat : n = Len(units)
  OBVIOUS
<1>2. PICK f \in [0..n -> Nat] : TokensOf(units) = f[n] /\ Sums(f, units, n)
  BY <1>1, TokensPrefixes
<1> QED
  BY <1>2

LEMMA TokensConcat ==
    ASSUME NEW U, Measured(U), NEW s \in Seq(U), NEW t \in Seq(U)
    PROVE  TokensOf(s \o t) = TokensOf(s) + TokensOf(t)
<1> DEFINE both == s \o t
<1>1. PICK m \in Nat : m = Len(s)
  OBVIOUS
<1>2. PICK n \in Nat : n = Len(t)
  OBVIOUS
<1>3. both \in Seq(U) /\ Len(both) = m + n
  BY <1>1, <1>2, ConcatProperties
<1>4. \A i \in 1..m : both[i] = s[i]
  BY <1>1, <1>2, ConcatProperties
<1>5. \A i \in m + 1..m + n : both[i] = t[i - m]
  BY <1>1, <1>2, ConcatProperties
<1> HIDE DEF both
<1>6. PICK f \in [0..m -> Nat] : TokensOf(s) = f[m] /\ Sums(f, s, m)
  BY <1>1, TokensPrefixes
<1>7. PICK g \in [0..n -> Nat] : TokensOf(t) = g[n] /\ Sums(g, t, n)
  BY <1>2, TokensPrefixes
<1> DEFINE p == [i \in 0..m + n |-> IF i <= m THEN f[i] ELSE f[m] + g[i - m]]
<1>8. Sums(p, both, m + n)
  <2>1. p[0] = 0
    BY <1>6 DEF Sums
  <2>2. ASSUME NEW i \in 1..m + n PROVE p[i] = p[i - 1] + both[i].tokens
    <3>1. CASE i <= m
      <4>1. i \in 1..m /\ i - 1 <= m /\ i \in 0..m + n /\ i - 1 \in 0..m + n
        BY <3>1
      <4>2. p[i] = f[i] /\ p[i - 1] = f[i - 1]
        BY <3>1, <4>1
      <4>3. f[i] = f[i - 1] + s[i].tokens
        BY <1>6, <4>1 DEF Sums
      <4> QED
        BY <1>4, <4>1, <4>2, <4>3
    <3>2. CASE i > m
      <4>1. i \in m + 1..m + n /\ i \in 0..m + n /\ i - 1 \in 0..m + n /\ i - m \in 1..n
        BY <3>2
      <4>2. g[i - m] = g[(i - m) - 1] + t[i - m].tokens
        BY <1>7, <4>1 DEF Sums
      <4>3. p[i] = f[m] + g[i - m]
        BY <3>2, <4>1
      <4>4. t[i - m] \in U /\ t[i - m].tokens \in Nat
        <5>1. t[i - m] \in U
          BY <1>2, <4>1
        <5> QED
          BY <5>1 DEF Measured
      <4>5. p[i - 1] = f[m] + g[(i - m) - 1]
        <5>1. CASE i = m + 1
          <6>1. g[(i - m) - 1] = 0 /\ f[m] \in Nat
            BY <1>7, <5>1 DEF Sums
          <6>2. p[i - 1] = f[m]
            BY <4>1, <5>1
          <6> QED
            BY <6>1, <6>2
        <5>2. CASE i # m + 1
          <6>1. ~(i - 1 <= m) /\ (i - 1) - m = (i - m) - 1
            BY <3>2, <5>2
          <6> QED
            BY <4>1, <6>1
        <5> QED
          BY <5>1, <5>2
      <4>6. f[m] \in Nat /\ g[(i - m) - 1] \in Nat
        BY <4>1
      <4> HIDE DEF p
      <4>7. both[i] = t[i - m]
        BY <1>5, <4>1
      <4>8. PICK a \in Nat : a = f[m]
        BY <4>6
      <4>9. PICK b \in Nat : b = g[(i - m) - 1]
        BY <4>6
      <4>10. PICK d \in Nat : d = t[i - m].tokens
        BY <4>4
      <4>11. p[i] = a + (b + d) /\ p[i - 1] = a + b
        BY <4>2, <4>3, <4>5, <4>8, <4>9, <4>10
      <4>12. both[i].tokens = d
        BY <4>7, <4>10
      <4>13. a + (b + d) = (a + b) + d
        OBVIOUS
      <4> QED
        BY <4>11, <4>12, <4>13
    <3> QED
      BY <3>1, <3>2
  <2> HIDE DEF p
  <2> QED
    BY <2>1, <2>2 DEF Sums
<1>9. p[m + n] = f[m] + g[n]
  <2>1. CASE n = 0
    BY <1>7, <2>1 DEF Sums
  <2>2. CASE n # 0
    <3>1. ~(m + n <= m) /\ (m + n) - m = n /\ m + n \in 0..m + n
      BY <2>2
    <3> QED
      BY <3>1
  <2> QED
    BY <2>1, <2>2
<1> HIDE DEF p
<1>10. m + n \in Nat
  OBVIOUS
<1>11. TokensOf(both) = p[m + n]
  BY <1>3, <1>8, <1>10, TokensUnique
<1> QED
  BY <1>6, <1>7, <1>9, <1>11 DEF both

LEMMA TokensOne ==
    ASSUME NEW U, Measured(U), NEW u \in U
    PROVE  TokensOf(<<u>>) = u.tokens
<1> DEFINE p == [i \in 0..1 |-> IF i = 0 THEN 0 ELSE u.tokens]
<1>1. u.tokens \in Nat
  BY DEF Measured
<1>2. <<u>> \in Seq(U) /\ Len(<<u>>) = 1 /\ <<u>>[1] = u
  OBVIOUS
<1>3. p[0] = 0 /\ p[1] = u.tokens
  OBVIOUS
<1> HIDE DEF p
<1>4. Sums(p, <<u>>, 1)
  <2>1. ASSUME NEW i \in 1..1 PROVE p[i] = p[i - 1] + <<u>>[i].tokens
    BY <1>1, <1>2, <1>3
  <2> QED
    BY <1>3, <2>1 DEF Sums
<1>5. 1 \in Nat
  OBVIOUS
<1> QED
  BY <1>2, <1>3, <1>4, <1>5, TokensUnique

-----------------------------------------------------------------------------
(***************************************************************************)
(* Heading paths.                                                          *)
(***************************************************************************)

\* A path is a heading behind its parents.
LEMMA PathSplit ==
    ASSUME NEW W, NEW path \in Seq(W), path # <<>>
    PROVE  /\ Front(path) \in Seq(W) /\ Last(path) \in W
           /\ Len(Front(path)) = Len(path) - 1
           /\ path = Append(Front(path), Last(path))
           /\ Len(path) \in Nat \ {0}
<1>1. PICK front \in Seq(W), word \in W : path = Append(front, word)
  BY SequenceEmptyOrAppend
<1>2. Len(path) = Len(front) + 1 /\ path[Len(front) + 1] = word /\ Len(front) \in Nat
  BY <1>1, AppendProperties
<1>3. \A i \in 1..Len(front) : path[i] = front[i]
  BY <1>1, AppendProperties
<1>4. Last(path) = word
  BY <1>2 DEF Last
<1>5. Front(path) = front
  <2>1. Front(path) = SubSeq(path, 1, Len(front))
    BY <1>2 DEF Front
  <2>2. /\ SubSeq(path, 1, Len(front)) \in Seq(W)
        /\ Len(SubSeq(path, 1, Len(front))) = Len(front)
        /\ \A i \in 1..Len(front) : SubSeq(path, 1, Len(front))[i] = path[i]
    <3>1. 1 \in Int /\ Len(front) \in Int /\ \A i \in 1..Len(front) : path[i] \in W
      BY <1>2, <1>3, ElementOfSeq
    <3> QED
      BY <1>2, <3>1, SubSeqProperties
  <2> QED
    BY <1>3, <2>1, <2>2, SeqEqual
<1> QED
  BY <1>1, <1>2, <1>4, <1>5

LEMMA PathTokensType ==
    ASSUME NEW W, NEW path \in Seq(Seq(W))
    PROVE  PathTokens(path) \in Nat
<1>1. FlattenSeq(path) \in Seq(W)
  BY FlattenType
<1> QED
  BY <1>1, LenProperties DEF PathTokens

LEMMA PathTokensAppend ==
    ASSUME NEW W, NEW path \in Seq(Seq(W)), NEW words \in Seq(W)
    PROVE  PathTokens(Append(path, words)) = PathTokens(path) + Len(words)
<1>1. FlattenSeq(Append(path, words)) = FlattenSeq(path) \o words
  BY FlattenAppend
<1>2. FlattenSeq(path) \in Seq(W)
  BY FlattenType
<1> QED
  BY <1>1, <1>2, ConcatProperties DEF PathTokens

LEMMA LeafTokens ==
    ASSUME NEW W, NEW path \in Seq(Seq(W)), path # <<>>
    PROVE  /\ PathTokens(path) = PathTokens(Front(path)) + Len(Last(path))
           /\ PathTokens(path) \in Nat /\ PathTokens(Front(path)) \in Nat /\ Len(Last(path)) \in Nat
<1>1. Front(path) \in Seq(Seq(W)) /\ Last(path) \in Seq(W) /\ path = Append(Front(path), Last(path))
  BY PathSplit
<1>2. PathTokens(Append(Front(path), Last(path))) = PathTokens(Front(path)) + Len(Last(path))
  BY <1>1, PathTokensAppend
<1>3. PathTokens(path) \in Nat /\ PathTokens(Front(path)) \in Nat
  BY <1>1, PathTokensType
<1> QED
  BY <1>1, <1>2, <1>3, LenProperties

-----------------------------------------------------------------------------
(***************************************************************************)
(* The breadcrumb of a chunk.                                              *)
(***************************************************************************)

\* The sections of a group have their parents in common.
Siblings(sectioned, group, parent) ==
    \A i \in group : Front(sectioned[i].path) = parent

\* The longest breadcrumb and the longest leaf of a group.
Longest(ss, group) == Max({PathTokens(ss[i].path) : i \in group})
LongestLeaf(ss, group) == Max({Len(Last(ss[i].path)) : i \in group})

LEMMA GroupPaths ==
    ASSUME NEW W, NEW I, NEW ss \in Seq(SectionSet(W, I)), RoomForPaths(ss),
           NEW group \in SUBSET (DOMAIN ss), group # {}, NEW parent, Siblings(ss, group, parent)
    PROVE  /\ Longest(ss, group) \in Nat /\ LongestLeaf(ss, group) \in Nat
           /\ Longest(ss, group) + LongestLeaf(ss, group) + PackMargin + HardMin <= TargetMax
           /\ \A i \in group :
                  /\ PathTokens(ss[i].path) \in Nat /\ PathTokens(ss[i].path) <= Longest(ss, group)
                  /\ Len(Last(ss[i].path)) \in Nat /\ Len(Last(ss[i].path)) <= LongestLeaf(ss, group)
<1> USE ChunkerAssumption
<1> DEFINE Paths == {PathTokens(ss[i].path) : i \in group}
           Leaves == {Len(Last(ss[i].path)) : i \in group}
<1>1. ASSUME NEW i \in group
      PROVE  /\ PathTokens(ss[i].path) \in 0..TargetMax
             /\ Len(Last(ss[i].path)) \in 0..TargetMax
  <2>1. i \in DOMAIN ss
    OBVIOUS
  <2>2. ss[i] \in SectionSet(W, I)
    BY <2>1
  <2>3. ss[i].path \in Seq(Seq(W)) /\ ss[i].path # <<>>
    BY <2>2 DEF SectionSet
  <2>4. PathTokens(ss[i].path) \in Nat /\ Len(Last(ss[i].path)) \in Nat
    BY <2>3, LeafTokens
  <2>5. PathTokens(ss[i].path) + Len(Last(ss[i].path)) + PackMargin + HardMin <= TargetMax
    BY <2>1 DEF RoomForPaths
  <2> QED
    BY <2>4, <2>5
<1>2. PICK k \in group : TRUE
  OBVIOUS
<1>3. TargetMax \in Nat
  OBVIOUS
<1>4. Paths \subseteq 0..TargetMax /\ Paths # {}
  BY <1>1, <1>2
<1>5. Leaves \subseteq 0..TargetMax /\ Leaves # {}
  BY <1>1, <1>2
<1>6. Max(Paths) \in Paths /\ \A x \in Paths : x <= Max(Paths)
  <2> HIDE DEF Paths
  <2> QED
    BY <1>3, <1>4, MaxOf
<1>7. Max(Leaves) \in Leaves /\ \A x \in Leaves : x <= Max(Leaves)
  <2> HIDE DEF Leaves
  <2> QED
    BY <1>3, <1>5, MaxOf
<1>8. PICK i \in group : Max(Paths) = PathTokens(ss[i].path)
  BY <1>6
<1>9. PICK j \in group : Max(Leaves) = Len(Last(ss[j].path))
  BY <1>7
<1>10. PathTokens(ss[i].path) + Len(Last(ss[j].path)) + PackMargin + HardMin <= TargetMax
  <2>1. i \in DOMAIN ss /\ j \in DOMAIN ss
    OBVIOUS
  <2>2. Front(ss[i].path) = Front(ss[j].path)
    BY DEF Siblings
  <2> QED
    BY <2>1, <2>2 DEF RoomForPaths
<1>11. Max(Paths) \in Nat /\ Max(Leaves) \in Nat
  BY <1>1, <1>8, <1>9
<1>12. ASSUME NEW m \in group
       PROVE  /\ PathTokens(ss[m].path) \in Nat /\ PathTokens(ss[m].path) <= Max(Paths)
              /\ Len(Last(ss[m].path)) \in Nat /\ Len(Last(ss[m].path)) <= Max(Leaves)
  <2>1. PathTokens(ss[m].path) \in Nat /\ Len(Last(ss[m].path)) \in Nat
    BY <1>1
  <2>2. PathTokens(ss[m].path) \in Paths /\ Len(Last(ss[m].path)) \in Leaves
    OBVIOUS
  <2> HIDE DEF Paths, Leaves
  <2> QED
    BY <1>6, <1>7, <2>1, <2>2
<1>13. Max(Paths) + Max(Leaves) + PackMargin + HardMin <= TargetMax
  BY <1>8, <1>9, <1>10
<1> QED
  BY <1>11, <1>12, <1>13 DEF Longest, LongestLeaf

\* A breadcrumb is a path of the group, or a label that repeats a leaf, or, if
\* all sections of the chunk have the same path, one that repeats two short ones.
LEMMA BreadcrumbFits ==
    ASSUME NEW W, NEW I, NEW ss \in Seq(SectionSet(W, I)), RoomForPaths(ss),
           NEW group \in SUBSET (DOMAIN ss), NEW parent, Siblings(ss, group, parent),
           NEW U, \A u \in U : u.section \in group, NEW units \in Seq(U), units # <<>>,
           NEW longest \in Nat, NEW leaf \in Nat,
           \A i \in group : /\ PathTokens(ss[i].path) \in Nat /\ PathTokens(ss[i].path) <= longest
                            /\ Len(Last(ss[i].path)) \in Nat /\ Len(Last(ss[i].path)) <= leaf
    PROVE  /\ PathTokens(SectionPath(ss, units)) \in Nat
           /\ PathTokens(SectionPath(ss, units)) <= longest + leaf + PackMargin
<1> USE ChunkerAssumption
<1> DEFINE used  == {u.section : u \in Range(units)}
           first == ss[Min(used)].path
           final == ss[Max(used)].path
           Common(k) == \A i \in used : Len(ss[i].path) >= k
                                        /\ SubSeq(ss[i].path, 1, k) = SubSeq(first, 1, k)
           Depths == {k \in 0..Len(first) : Common(k)}
           depth == Max(Depths)
           Label(path) == IF Len(path) > depth THEN path[depth + 1] ELSE Last(path)
           crumb == IF Cardinality(used) = 1 THEN first
                    ELSE SubSeq(first, 1, depth) \o <<Label(first) \o Label(final)>>
<1>1. SectionPath(ss, units) = crumb
  BY DEF SectionPath
<1>2. used \subseteq group /\ used # {}
  <2>1. Range(units) \subseteq U
    <3>1. \A i \in DOMAIN units : units[i] \in U
      OBVIOUS
    <3> QED
      BY <3>1 DEF Range
  <2>2. \A u \in Range(units) : u.section \in group
    BY <2>1
  <2>3. 1 \in DOMAIN units
    OBVIOUS
  <2>4. units[1] \in Range(units)
    BY <2>3 DEF Range
  <2> QED
    BY <2>2, <2>4
<1>3. PICK n \in Nat : n = Len(ss)
  OBVIOUS
<1>4. group \subseteq 1..n /\ used \subseteq 0..n /\ used \subseteq Nat
  <2>1. DOMAIN ss = 1..n
    BY <1>3
  <2>2. group \subseteq 1..n
    BY <2>1, Zenon
  <2>3. 1..n \subseteq 0..n /\ 0..n \subseteq Nat
    OBVIOUS
  <2> HIDE DEF used
  <2>4. used \subseteq 1..n
    BY <1>2, <2>2, Zenon
  <2> QED
    BY <2>2, <2>3, <2>4, Zenon
<1>5. Min(used) \in used /\ Max(used) \in used
  <2> HIDE DEF used
  <2> QED
    BY <1>2, <1>4, MinOf, MaxOf
<1> HIDE DEF used
<1>6. Min(used) \in group /\ Max(used) \in group
  BY <1>2, <1>5
<1>7. \A i \in group : ss[i].path \in Seq(Seq(W)) /\ ss[i].path # <<>>
  <2> SUFFICES ASSUME NEW i \in group PROVE ss[i].path \in Seq(Seq(W)) /\ ss[i].path # <<>>
    OBVIOUS
  <2>1. i \in DOMAIN ss
    OBVIOUS
  <2>2. ss[i] \in SectionSet(W, I)
    BY <2>1
  <2> QED
    BY <2>2 DEF SectionSet
<1>8. CASE Cardinality(used) = 1
  <2>1. crumb = first
    BY <1>8
  <2>2. PathTokens(first) \in Nat /\ PathTokens(first) <= longest
    BY <1>6
  <2> HIDE DEF crumb, first
  <2>3. PackMargin \in Nat
    OBVIOUS
  <2> QED
    BY <1>1, <2>1, <2>2, <2>3
<1>9. CASE Cardinality(used) # 1
  <2>1. /\ first \in Seq(Seq(W)) /\ first # <<>> /\ final \in Seq(Seq(W)) /\ final # <<>>
        /\ Front(first) = parent /\ Front(final) = parent
    BY <1>6, <1>7 DEF Siblings
  <2>2. Min(used) # Max(used)
    <3> SUFFICES ASSUME Min(used) = Max(used) PROVE FALSE
      OBVIOUS
    <3>1. \A x \in used : Min(used) <= x /\ x <= Max(used)
      BY <1>2, <1>4, MinOf, MaxOf
    <3>2. \A x \in used : x = Min(used)
      <4> SUFFICES ASSUME NEW x \in used PROVE x = Min(used)
        OBVIOUS
      <4>1. x \in Nat /\ Min(used) \in Nat
        BY <1>4, <1>5
      <4> QED
        BY <3>1, <4>1
    <3>3. used = {Min(used)}
      BY <1>5, <3>2
    <3> QED
      BY <1>9, <3>3, FS_Singleton
  <2>3. PICK m \in Nat : m = Len(parent)
    BY <2>1, PathSplit, LenProperties
  <2>4. /\ Len(first) = m + 1 /\ Len(final) = m + 1
        /\ parent \in Seq(Seq(W))
        /\ Last(first) \in Seq(W) /\ Last(final) \in Seq(W)
        /\ first = Append(parent, Last(first))
    <3> HIDE DEF first, final
    <3>1. /\ Front(first) \in Seq(Seq(W)) /\ Last(first) \in Seq(W)
          /\ Len(Front(first)) = Len(first) - 1 /\ Len(first) \in Nat
          /\ first = Append(Front(first), Last(first))
      BY <2>1, PathSplit
    <3>2. /\ Last(final) \in Seq(W)
          /\ Len(Front(final)) = Len(final) - 1 /\ Len(final) \in Nat
      BY <2>1, PathSplit
    <3>3. Len(first) = m + 1 /\ Len(final) = m + 1
      <4>1. Len(Front(first)) = m /\ Len(Front(final)) = m
        BY <2>1, <2>3
      <4>2. Len(first) \in Nat /\ Len(first) - 1 = m
        BY <3>1, <4>1
      <4>3. Len(final) \in Nat /\ Len(final) - 1 = m
        BY <3>2, <4>1
      <4> QED
        BY <4>2, <4>3
    <3> QED
      BY <2>1, <3>1, <3>2, <3>3
  <2>5. \A i \in used : Len(ss[i].path) = m + 1 /\ SubSeq(ss[i].path, 1, m) = parent
    <3> SUFFICES ASSUME NEW i \in used
                 PROVE  Len(ss[i].path) = m + 1 /\ SubSeq(ss[i].path, 1, m) = parent
      OBVIOUS
    <3>1. i \in group
      BY <1>2
    <3>2. Front(ss[i].path) = parent
      BY <3>1 DEF Siblings
    <3>3. Len(Front(ss[i].path)) = Len(ss[i].path) - 1 /\ Len(ss[i].path) \in Nat
      BY <1>7, <3>1, PathSplit
    <3>4. Len(ss[i].path) = m + 1
      BY <2>3, <3>2, <3>3
    <3> QED
      BY <3>2, <3>4 DEF Front
  <2>6. SubSeq(first, 1, m) = parent
    BY <1>5, <2>5
  <2>7. Common(m)
    <3>1. \A i \in used : Len(ss[i].path) >= m
      BY <2>5
    <3> QED
      BY <2>5, <2>6, <3>1
  <2>8. m \in Depths /\ Depths \subseteq 0..m + 1
    <3>1. m \in 0..Len(first)
      BY <2>4
    <3> HIDE DEF Common, first
    <3> QED
      BY <2>4, <2>7, <3>1
  <2>9. depth \in Depths /\ m <= depth
    <3>1. m + 1 \in Nat
      OBVIOUS
    <3> HIDE DEF Depths
    <3> QED
      BY <2>8, <3>1, MaxOf
  <2>10. Common(depth) /\ depth \in {m, m + 1}
    <3>1. Common(depth)
      BY <2>9
    <3>2. depth \in 0..m + 1
      BY <2>8, <2>9
    <3> HIDE DEF Common, depth
    <3> QED
      BY <2>9, <3>1, <3>2
  <2>11. Label(first) = Last(first) /\ Label(final) = Last(final)
    <3> HIDE DEF first, final, depth
    <3>1. CASE depth = m
      BY <2>4, <3>1 DEF Last
    <3>2. CASE depth = m + 1
      BY <2>4, <3>2
    <3> QED
      BY <2>10, <3>1, <3>2
  <2>12. crumb = Append(SubSeq(first, 1, depth), Last(first) \o Last(final))
    <3>1. crumb = SubSeq(first, 1, depth) \o <<Last(first) \o Last(final)>>
      BY <1>9, <2>11
    <3>2. SubSeq(first, 1, depth) \in Seq(Seq(W))
      <4>1. depth \in Int /\ 1 \in Int /\ \A i \in 1..depth : first[i] \in Seq(W)
        <5> HIDE DEF first, depth
        <5>1. \A i \in 1..depth : i \in 1..Len(first)
          BY <2>4, <2>10
        <5> QED
          BY <2>1, <2>10, <5>1, ElementOfSeq
      <4> QED
        BY <4>1, SubSeqProperties
    <3>3. Last(first) \o Last(final) \in Seq(W)
      BY <2>4, ConcatProperties
    <3> HIDE DEF crumb, first, final, depth
    <3> QED
      BY <3>1, <3>2, <3>3, AppendIsConcat
  <2>13. /\ PathTokens(first) = PathTokens(parent) + Len(Last(first))
         /\ PathTokens(parent) \in Nat /\ Len(Last(first)) \in Nat /\ Len(Last(final)) \in Nat
    <3> HIDE DEF first, final
    <3> QED
      BY <2>1, LeafTokens
  <2>14. Last(first) \o Last(final) \in Seq(W)
         /\ Len(Last(first) \o Last(final)) = Len(Last(first)) + Len(Last(final))
    BY <2>4, ConcatProperties
  <2>15. CASE depth = m
    <3>1. crumb = Append(parent, Last(first) \o Last(final))
      BY <2>6, <2>12, <2>15
    <3>2. PathTokens(crumb) = PathTokens(parent) + Len(Last(first) \o Last(final))
      <4> HIDE DEF crumb, first, final
      <4> QED
        BY <2>4, <2>14, <3>1, PathTokensAppend
    <3>3. PathTokens(first) <= longest /\ Len(Last(final)) <= leaf
      BY <1>6
    <3> HIDE DEF crumb, first, final
    <3> QED
      BY <1>1, <2>13, <2>14, <3>2, <3>3, SMTT(60)
  <2>16. CASE depth = m + 1
    <3>1. SubSeq(first, 1, depth) = first
      <4> HIDE DEF first, depth
      <4> QED
        BY <2>1, <2>4, <2>16, SubSeqFull
    <3>2. PathTokens(crumb) = PathTokens(first) + Len(Last(first) \o Last(final))
      <4> HIDE DEF first, final, depth
      <4>1. crumb = Append(first, Last(first) \o Last(final))
        BY <2>12, <3>1
      <4> HIDE DEF crumb
      <4> QED
        BY <2>1, <2>14, <4>1, PathTokensAppend
    <3>3. final = first
      <4>1. SubSeq(final, 1, depth) = SubSeq(first, 1, depth)
        BY <1>5, <2>10
      <4>2. SubSeq(final, 1, depth) = final
        <5> HIDE DEF final, depth
        <5> QED
          BY <2>1, <2>4, <2>16, SubSeqFull
      <4> QED
        BY <3>1, <4>1, <4>2
    <3>4. Len(Last(first)) <= PackMargin
      <4>1. Min(used) \in DOMAIN ss /\ Max(used) \in DOMAIN ss
        BY <1>6
      <4> QED
        BY <2>2, <3>3, <4>1 DEF RoomForPaths
    <3>5. PathTokens(first) <= longest /\ Len(Last(first)) <= leaf
      BY <1>6
    <3>6. Len(Last(final)) = Len(Last(first))
      BY <3>3
    <3>7. PackMargin \in Nat
      BY ChunkerAssumption DEF ChunkerAssumption
    <3> HIDE DEF crumb, first, final
    <3> DEFINE total == PathTokens(crumb)
               all   == PathTokens(first)
               own   == Len(Last(first))
    <3>8. total = all + (own + own) /\ all \in Nat /\ own \in Nat
      BY <2>13, <2>14, <3>2, <3>6
    <3>9. own <= PackMargin /\ all <= longest /\ own <= leaf
      BY <3>4, <3>5
    <3> HIDE DEF total, all, own
    <3>10. total \in Nat /\ total <= longest + leaf + PackMargin
      BY <3>7, <3>8, <3>9
    <3>11. PathTokens(SectionPath(ss, units)) = total
      BY <1>1 DEF total
    <3> QED
      BY <3>10, <3>11
  <2> QED
    BY <2>10, <2>15, <2>16
<1> QED
  BY <1>8, <1>9

-----------------------------------------------------------------------------
(***************************************************************************)
(* Units.                                                                  *)
(***************************************************************************)

UnitSet(group, I) == [section : group, sentence : I, piece : Nat, tokens : Nat]

\* Units that fit into a chunk of their own.
FitUnits(ss, group, I) ==
    {u \in UnitSet(group, I) : u.tokens + PathTokens(ss[u.section].path) <= TargetMax}

LEMMA UnitsMeasured ==
    ASSUME NEW ss, NEW group, NEW I
    PROVE  Measured(FitUnits(ss, group, I))
BY DEF Measured, FitUnits, UnitSet

LEMMA Quotient ==
    ASSUME NEW a \in Nat, NEW b \in Nat \ {0}
    PROVE  a \div b \in Nat /\ b * (a \div b) <= a /\ a < b * (a \div b) + b
<1>1. a \div b \in Nat
  OBVIOUS
<1>2. b * (a \div b) <= a
  OBVIOUS
<1>3. a < b * (a \div b) + b
  OBVIOUS
<1> QED
  BY <1>1, <1>2, <1>3

PieceSet(unit, group, I, budget) ==
    {u \in UnitSet(group, I) : /\ u.section = unit.section /\ u.sentence = unit.sentence
                               /\ u.tokens <= budget}

\* The pieces of a cut sentence are within the budget, and there is one.
LEMMA PiecesFit ==
    ASSUME NEW group, NEW I, NEW unit \in UnitSet(group, I), NEW budget \in Nat \ {0}
    PROVE  /\ SplitOversized(unit, budget) \in Seq(PieceSet(unit, group, I, budget))
           /\ Len(SplitOversized(unit, budget)) \in Nat \ {0}
<1> DEFINE Pieces == PieceSet(unit, group, I, budget)
<1>1. unit.tokens \in Nat
  BY DEF UnitSet
<1>2. CASE unit.tokens <= budget
  <2>1. SplitOversized(unit, budget) = <<unit>>
    BY <1>2 DEF SplitOversized
  <2>2. unit \in Pieces
    BY <1>2 DEF PieceSet
  <2> HIDE DEF Pieces
  <2>3. <<unit>> \in Seq(Pieces) /\ Len(<<unit>>) = 1
    BY <2>2
  <2> QED
    BY <2>1, <2>3 DEF Pieces
<1>3. CASE ~(unit.tokens <= budget)
  <2> DEFINE pieces == (unit.tokens + budget - 1) \div budget
             cut == [k \in 1..pieces |->
                        [unit EXCEPT !.piece = k,
                                     !.tokens = IF k < pieces THEN budget
                                                ELSE @ - budget * (pieces - 1)]]
  <2>1. SplitOversized(unit, budget) = cut
    BY <1>3 DEF SplitOversized
  <2>2. unit.tokens + budget - 1 \in Nat
    BY <1>1, <1>3
  <2>3. /\ pieces \in Nat /\ budget * pieces <= unit.tokens + budget - 1
        /\ unit.tokens + budget - 1 < budget * pieces + budget
    BY <2>2, Quotient
  <2> HIDE DEF pieces
  <2>4. pieces # 0
    <3> SUFFICES ASSUME pieces = 0 PROVE FALSE
      OBVIOUS
    <3>1. budget * pieces = 0
      OBVIOUS
    <3> QED
      BY <1>1, <1>3, <2>3, <3>1
  <2>5. /\ unit.tokens - budget * (pieces - 1) \in Nat
        /\ unit.tokens - budget * (pieces - 1) <= budget
    <3>1. budget * (pieces - 1) = budget * pieces - budget /\ budget * pieces \in Nat
      BY <2>3
    <3> QED
      BY <1>1, <2>3, <3>1
  <2>6. \A k \in 1..pieces : cut[k] \in Pieces
    <3> SUFFICES ASSUME NEW k \in 1..pieces PROVE cut[k] \in Pieces
      OBVIOUS
    <3> DEFINE tokens == IF k < pieces THEN budget ELSE unit.tokens - budget * (pieces - 1)
    <3>1. tokens \in Nat /\ tokens <= budget
      BY <2>5
    <3>2. cut[k] = [unit EXCEPT !.piece = k, !.tokens = tokens]
      OBVIOUS
    <3> HIDE DEF tokens
    <3>3. k \in Nat
      BY <2>3
    <3> HIDE DEF cut
    <3> QED
      BY <3>1, <3>2, <3>3 DEF UnitSet, PieceSet
  <2>7. cut \in [1..pieces -> Pieces]
    BY <2>6
  <2>8. cut \in Seq(Pieces) /\ Len(cut) = pieces
    <3> HIDE DEF cut, Pieces
    <3> QED
      BY <2>3, <2>7
  <2> HIDE DEF cut
  <2> QED
    BY <2>1, <2>3, <2>4, <2>8
<1> QED
  BY <1>2, <1>3

LEMMA UnitsFit ==
    ASSUME NEW W, NEW I, NEW ss \in Seq(SectionSet(W, I)), RoomForPaths(ss), NEW i \in DOMAIN ss
    PROVE  UnitsOf(ss, i) \in Seq(FitUnits(ss, {i}, I))
<1> USE ChunkerAssumption
<1> DEFINE budget == TargetMax - (PathTokens(ss[i].path) + SplitMargin)
           Whole(s) == [section |-> i, sentence |-> s.id, piece |-> 1, tokens |-> s.tokens]
           split == [j \in DOMAIN ss[i].sentences |->
                        SplitOversized(Whole(ss[i].sentences[j]), budget)]
           Fit == FitUnits(ss, {i}, I)
<1>1. UnitsOf(ss, i) = FlattenSeq(split)
  BY DEF UnitsOf
<1>2. /\ ss[i].path \in Seq(Seq(W)) /\ ss[i].path # <<>>
      /\ ss[i].sentences \in Seq([id : I, tokens : Nat])
  <2>1. ss[i] \in SectionSet(W, I)
    OBVIOUS
  <2> QED
    BY <2>1 DEF SectionSet
<1>3. PathTokens(ss[i].path) \in Nat
  BY <1>2, PathTokensType
<1>4. budget \in Nat \ {0} /\ budget + PathTokens(ss[i].path) <= TargetMax
  <2>1. PathTokens(ss[i].path) + SplitMargin < TargetMax
    BY DEF RoomForPaths
  <2> QED
    BY <1>3, <2>1
<1> HIDE DEF budget
<1>5. ASSUME NEW s \in [id : I, tokens : Nat]
      PROVE  SplitOversized(Whole(s), budget) \in Seq(Fit)
  <2>1. Whole(s) \in UnitSet({i}, I)
    BY DEF UnitSet
  <2> DEFINE Pieces == PieceSet(Whole(s), {i}, I, budget)
  <2>2. SplitOversized(Whole(s), budget) \in Seq(Pieces)
    <3> HIDE DEF Whole
    <3> QED
      BY <1>4, <2>1, PiecesFit
  <2>3. Pieces \subseteq Fit
    <3> SUFFICES ASSUME NEW u \in Pieces PROVE u \in Fit
      OBVIOUS
    <3>1. u \in UnitSet({i}, I) /\ u.tokens <= budget
      BY DEF PieceSet
    <3>2. u.section = i /\ u.tokens \in Nat
      BY <3>1 DEF UnitSet
    <3>3. u.tokens + PathTokens(ss[u.section].path) <= TargetMax
      BY <1>3, <1>4, <3>1, <3>2
    <3> QED
      BY <3>1, <3>3 DEF FitUnits
  <2> HIDE DEF Pieces, Fit, Whole
  <2> QED
    BY <2>2, <2>3, SeqMonotonic
<1>6. split \in Seq(Seq(Fit))
  <2>1. PICK n \in Nat : n = Len(ss[i].sentences)
    BY <1>2
  <2>2. DOMAIN ss[i].sentences = 1..n
    BY <1>2, <2>1
  <2>3. \A j \in 1..n : ss[i].sentences[j] \in [id : I, tokens : Nat]
    BY <1>2, <2>1, ElementOfSeq
  <2>4. \A j \in 1..n : SplitOversized(Whole(ss[i].sentences[j]), budget) \in Seq(Fit)
    <3> HIDE DEF Whole, Fit
    <3> QED
      BY <1>5, <2>3
  <2>5. split \in [1..n -> Seq(Fit)]
    <3> HIDE DEF Whole, Fit
    <3> QED
      BY <2>2, <2>4
  <2> HIDE DEF split, Fit
  <2> QED
    BY <2>5
<1>7. FlattenSeq(split) \in Seq(Fit)
  <2> HIDE DEF split, Fit
  <2> QED
    BY <1>6, FlattenType
<1> QED
  BY <1>1, <1>7

-----------------------------------------------------------------------------
(***************************************************************************)
(* Both ends of a chunk, and what chunks hold.                             *)
(***************************************************************************)

LEMMA BothEnds ==
    ASSUME NEW U, NEW s \in Seq(U), NEW k \in 0..Len(s)
    PROVE  /\ LastOf(s, k) \in Seq(U) /\ Len(LastOf(s, k)) = k
           /\ ButLast(s, k) \in Seq(U) /\ Len(ButLast(s, k)) = Len(s) - k
           /\ ButLast(s, k) \o LastOf(s, k) = s
<1>1. PICK n \in Nat : n = Len(s)
  OBVIOUS
<1>2. \A i \in 1..n : s[i] \in U
  BY <1>1, ElementOfSeq
<1>3. /\ n - k + 1 \in Int /\ n \in Int /\ 1 \in Int /\ n - k \in Int
      /\ n - k + 1 \in 1..n + 1 /\ n - k \in 0..n
  BY <1>1
<1>4. /\ SubSeq(s, n - k + 1, n) \in Seq(U)
      /\ Len(SubSeq(s, n - k + 1, n)) = IF n - k + 1 <= n THEN n - (n - k + 1) + 1 ELSE 0
  <2>1. \A i \in n - k + 1..n : s[i] \in U
    BY <1>1, <1>2
  <2> QED
    BY <1>3, <2>1, SubSeqProperties
<1>5. Len(SubSeq(s, n - k + 1, n)) = k
  BY <1>1, <1>4
<1>6. /\ SubSeq(s, 1, n - k) \in Seq(U)
      /\ Len(SubSeq(s, 1, n - k)) = IF 1 <= n - k THEN (n - k) - 1 + 1 ELSE 0
  <2>1. \A i \in 1..n - k : s[i] \in U
    BY <1>1, <1>2
  <2> QED
    BY <1>3, <2>1, SubSeqProperties
<1>7. Len(SubSeq(s, 1, n - k)) = n - k
  BY <1>1, <1>6
<1>8. SubSeq(s, 1, n - k) \o SubSeq(s, (n - k) + 1, n) = SubSeq(s, 1, n)
  <2>1. 1 \in 1..Len(s) + 1 /\ n - k \in 1 - 1..Len(s) /\ n \in n - k..Len(s)
    BY <1>1
  <2> QED
    BY <2>1, ConcatAdjacentSubSeq
<1>9. SubSeq(s, 1, n) = s
  BY <1>1, SubSeqFull
<1>10. LastOf(s, k) = SubSeq(s, n - k + 1, n) /\ ButLast(s, k) = SubSeq(s, 1, n - k)
  BY <1>1 DEF LastOf, ButLast
<1> QED
  BY <1>1, <1>4, <1>5, <1>6, <1>7, <1>8, <1>9, <1>10

\* The units of a sequence of chunks.
Held(chunks) == UNION {Range(chunks[i]) : i \in DOMAIN chunks}

LEMMA HeldAppend ==
    ASSUME NEW C, NEW chunks \in Seq(C), NEW c \in C
    PROVE  Held(Append(chunks, c)) = Held(chunks) \cup Range(c)
<1> DEFINE both == Append(chunks, c)
<1>1. PICK n \in Nat : n = Len(chunks)
  OBVIOUS
<1>2. both \in Seq(C) /\ Len(both) = n + 1 /\ both[n + 1] = c
  BY <1>1, AppendProperties
<1>3. \A i \in 1..n : both[i] = chunks[i]
  BY <1>1, AppendProperties
<1>4. DOMAIN chunks = 1..n /\ DOMAIN both = 1..n + 1
  BY <1>1, <1>2, LenProperties
<1>5. 1..n + 1 = (1..n) \cup {n + 1}
  OBVIOUS
<1> HIDE DEF both
<1> QED
  BY <1>2, <1>3, <1>4, <1>5 DEF Held, both

-----------------------------------------------------------------------------
(***************************************************************************)
(* Packing.                                                                *)
(***************************************************************************)

LEMMA LastOfPart ==
    ASSUME NEW U, NEW s \in Seq(U), NEW k \in 0..Len(s)
    PROVE  Range(LastOf(s, k)) \subseteq Range(s)
<1>1. ButLast(s, k) \in Seq(U) /\ LastOf(s, k) \in Seq(U) /\ ButLast(s, k) \o LastOf(s, k) = s
  BY BothEnds
<1>2. Range(s) = Range(ButLast(s, k)) \cup Range(LastOf(s, k))
  BY <1>1, RangeConcat
<1> QED
  BY <1>2

LEMMA OverlapIsLast ==
    ASSUME NEW U, NEW previous \in Seq(U), NEW section
    PROVE  \E k \in 0..Len(previous) : Overlap(previous, section) = LastOf(previous, k)
<1> DEFINE Suffices(k) ==
               /\ \A u \in Range(LastOf(previous, k)) : u.section = section
               /\ k > 1 => TokensOf(LastOf(previous, k - 1)) < OverlapThreshold
           T == {0} \cup {k \in 1..Len(previous) - 1 : Suffices(k)}
<1>1. PICK n \in Nat : n = Len(previous)
  OBVIOUS
<1>2. T \subseteq 0..n /\ T # {}
  <2> HIDE DEF Suffices
  <2> QED
    BY <1>1
<1>3. Max(T) \in T
  <2> HIDE DEF T
  <2> QED
    BY <1>2, MaxOf
<1>4. Overlap(previous, section) = LastOf(previous, Max(T))
  BY DEF Overlap
<1> HIDE DEF T
<1> QED
  BY <1>1, <1>2, <1>3, <1>4

\* What a chunk repeats leaves room for its first new unit, or is nothing.
LEMMA SeedFits ==
    ASSUME NEW U, NEW previous \in Seq(U), NEW unit, NEW budget
    PROVE  /\ Seed(previous, unit, budget) \in Seq(U)
           /\ Range(Seed(previous, unit, budget)) \subseteq Range(previous)
           /\ \/ Seed(previous, unit, budget) = <<>>
              \/ TokensOf(Seed(previous, unit, budget)) + unit.tokens <= budget
<1> DEFINE overlap == Overlap(previous, unit.section)
           Fits(k) == TokensOf(LastOf(overlap, k)) + unit.tokens <= budget
           T == {0} \cup {k \in 1..Len(overlap) : Fits(k)}
<1>1. Seed(previous, unit, budget) = LastOf(overlap, Max(T))
  BY DEF Seed
<1>2. overlap \in Seq(U) /\ Range(overlap) \subseteq Range(previous)
  <2>1. PICK k \in 0..Len(previous) : overlap = LastOf(previous, k)
    BY OverlapIsLast
  <2> HIDE DEF overlap
  <2> QED
    BY <2>1, BothEnds, LastOfPart
<1> HIDE DEF overlap
<1>3. PICK n \in Nat : n = Len(overlap)
  BY <1>2
<1>4. T \subseteq 0..n /\ T # {}
  <2> HIDE DEF Fits
  <2> QED
    BY <1>3
<1>5. Max(T) \in T
  <2> HIDE DEF T
  <2> QED
    BY <1>3, <1>4, MaxOf
<1>6. Max(T) \in 0..Len(overlap)
  <2> HIDE DEF T
  <2> QED
    BY <1>3, <1>4, <1>5
<1>7. LastOf(overlap, Max(T)) \in Seq(U) /\ Len(LastOf(overlap, Max(T))) = Max(T)
      /\ Range(LastOf(overlap, Max(T))) \subseteq Range(previous)
  <2> HIDE DEF T
  <2> QED
    BY <1>2, <1>6, BothEnds, LastOfPart
<1>8. LastOf(overlap, Max(T)) = <<>> \/ Fits(Max(T))
  <2>1. CASE Max(T) = 0
    <3>1. Len(LastOf(overlap, Max(T))) = 0
      BY <1>7, <2>1
    <3> HIDE DEF T
    <3> QED
      BY <1>7, <3>1, EmptySeq
  <2>2. CASE Max(T) # 0
    BY <1>5, <2>2
  <2> QED
    BY <2>1, <2>2
<1> HIDE DEF T
<1> QED
  BY <1>1, <1>7, <1>8

\* A chunk is within the budget of its group, or a single unit.
Packable(U, budget) == {c \in Seq(U) : c # <<>> /\ (Len(c) = 1 \/ TokensOf(c) <= budget)}

Packings(U, budget) ==
    [packed : Seq(Packable(U, budget)), current : Packable(U, budget) \cup {<<>>}]

HeldBy(s) == Held(s.packed) \cup Range(s.current)

LEMMA OneMore ==
    ASSUME NEW U, Measured(U), NEW s \in Seq(U), NEW u \in U, NEW budget,
           s = <<>> \/ TokensOf(s) + u.tokens <= budget
    PROVE  Append(s, u) \in Packable(U, budget) /\ Range(Append(s, u)) = Range(s) \cup {u}
<1>1. Append(s, u) = s \o <<u>> /\ <<u>> \in Seq(U)
  BY AppendIsConcat
<1>2. Append(s, u) \in Seq(U) /\ Append(s, u) # <<>> /\ Len(Append(s, u)) = Len(s) + 1
  BY AppendProperties
<1>3. TokensOf(Append(s, u)) = TokensOf(s) + u.tokens
  BY <1>1, TokensConcat, TokensOne
<1>4. Range(Append(s, u)) = Range(s) \cup {u}
  <2>1. Range(s \o <<u>>) = Range(s) \cup Range(<<u>>)
    BY <1>1, RangeConcat
  <2> QED
    BY <1>1, <2>1, RangeOne
<1>5. Len(Append(s, u)) = 1 \/ TokensOf(Append(s, u)) <= budget
  <2>1. CASE s = <<>>
    <3>1. Len(s) = 0
      BY <2>1, EmptySeq
    <3> QED
      BY <1>2, <3>1
  <2>2. CASE TokensOf(s) + u.tokens <= budget
    BY <1>3, <2>2
  <2> QED
    BY <2>1, <2>2
<1> QED
  BY <1>2, <1>4, <1>5 DEF Packable

LEMMA PackUnitFits ==
    ASSUME NEW U, Measured(U), NEW budget \in Nat, NEW s \in Packings(U, budget), NEW u \in U
    PROVE  /\ PackUnit(s, u, budget) \in Packings(U, budget)
           /\ HeldBy(PackUnit(s, u, budget)) = HeldBy(s) \cup {u}
<1> DEFINE C == Packable(U, budget)
<1>1. s.packed \in Seq(C) /\ s.current \in C \cup {<<>>} /\ s.current \in Seq(U)
  <2>1. s.packed \in Seq(C) /\ s.current \in C \cup {<<>>}
    <3> HIDE DEF C
    <3> QED
      BY DEF Packings, C
  <2>2. C \subseteq Seq(U)
    BY DEF Packable
  <2>3. <<>> \in Seq(U)
    BY EmptySeq
  <2> HIDE DEF C
  <2> QED
    BY <2>1, <2>2, <2>3
<1>2. CASE s.current # <<>> /\ TokensOf(s.current) + u.tokens > budget
  <2> DEFINE seed == Seed(s.current, u, budget)
             next == Append(seed, u)
             all  == Append(s.packed, s.current)
  <2>1. PackUnit(s, u, budget) = [packed |-> all, current |-> next]
    BY <1>2 DEF PackUnit, Continue
  <2>2. /\ seed \in Seq(U) /\ Range(seed) \subseteq Range(s.current)
        /\ seed = <<>> \/ TokensOf(seed) + u.tokens <= budget
    BY <1>1, SeedFits
  <2> HIDE DEF seed
  <2>3. next \in C /\ Range(next) = Range(seed) \cup {u}
    BY <2>2, OneMore
  <2>4. s.current \in C
    BY <1>1, <1>2
  <2>5. all \in Seq(C) /\ Held(all) = Held(s.packed) \cup Range(s.current)
    <3> HIDE DEF C
    <3> QED
      BY <1>1, <2>4, AppendProperties, HeldAppend
  <2> HIDE DEF next, all, C
  <2>6. PackUnit(s, u, budget) \in Packings(U, budget)
    BY <2>1, <2>3, <2>5 DEF Packings, C
  <2>7. HeldBy(PackUnit(s, u, budget)) = Held(all) \cup Range(next)
    BY <2>1 DEF HeldBy
  <2>8. HeldBy(s) = Held(s.packed) \cup Range(s.current)
    BY DEF HeldBy
  <2> QED
    BY <2>2, <2>3, <2>5, <2>6, <2>7, <2>8
<1>3. CASE ~(s.current # <<>> /\ TokensOf(s.current) + u.tokens > budget)
  <2> DEFINE next == Append(s.current, u)
  <2>1. PackUnit(s, u, budget) = [s EXCEPT !.current = next]
    BY <1>3 DEF PackUnit
  <2>2. s.current = <<>> \/ TokensOf(s.current) + u.tokens <= budget
    <3>1. TokensOf(s.current) \in Nat
      BY <1>1, TokensType
    <3>2. u.tokens \in Nat
      BY DEF Measured
    <3> QED
      BY <1>3, <3>1, <3>2
  <2>3. next \in C /\ Range(next) = Range(s.current) \cup {u}
    BY <1>1, <2>2, OneMore
  <2> HIDE DEF next, C
  <2>4. PackUnit(s, u, budget) \in Packings(U, budget)
    BY <2>1, <2>3 DEF Packings, C
  <2>5. /\ PackUnit(s, u, budget).packed = s.packed
        /\ PackUnit(s, u, budget).current = next
    BY <2>1 DEF Packings
  <2> QED
    BY <2>3, <2>4, <2>5 DEF HeldBy
<1> QED
  BY <1>2, <1>3

LEMMA HeldNone == Held(<<>>) = {} /\ Range(<<>>) = {}
BY DEF Held, Range

\* The packing as the units go in, one at a time.
PackRun(units, budget, h, n) ==
    /\ h[0] = [packed |-> <<>>, current |-> <<>>]
    /\ \A i \in 1..n : h[i] = PackUnit(h[i - 1], units[i], budget)

LEMMA PackRuns ==
    ASSUME NEW U, Measured(U), NEW budget \in Nat, NEW units \in Seq(U),
           NEW n \in Nat, n = Len(units)
    PROVE  \E h : /\ PackRun(units, budget, h, n)
                  /\ Pack(units, budget) = IF h[n].current = <<>> THEN h[n].packed
                                           ELSE Append(h[n].packed, h[n].current)
<1> DEFINE C == Packable(U, budget)
           S == Packings(U, budget)
           base == [packed |-> <<>>, current |-> <<>>]
<1>2. DOMAIN units = 1..n /\ \A i \in 1..n : units[i] \in U
  BY LenProperties, ElementOfSeq
<1> DEFINE Eq(g) == g = [i \in 0..n |-> IF i = 0 THEN base ELSE PackUnit(g[i - 1], units[i], budget)]
           step == [p \in (1..n) \X S |-> PackUnit(p[2], units[p[1]], budget)]
<1>3. base \in S
  <2>1. <<>> \in Seq(C)
    BY EmptySeq
  <2> HIDE DEF C
  <2> QED
    BY <2>1 DEF Packings, C
<1> HIDE DEF base
<1>5. \A i \in 1..n : \A s \in S : PackUnit(s, units[i], budget) \in S
  BY <1>2, PackUnitFits
<1> HIDE DEF S
<1>6. step \in [(1..n) \X S -> S]
  BY <1>5
<1>7. \E f \in [0..n -> S] : Recurses(f, n, base, step)
  <2> HIDE DEF step
  <2> QED
    BY <1>3, <1>6, Recursion
<1>8. PICK f \in [0..n -> S] : Recurses(f, n, base, step)
  BY <1>7
<1>9. Eq(f)
  <2>1. f[0] = base
    BY <1>8 DEF Recurses
  <2>2. ASSUME NEW i \in 1..n PROVE f[i] = PackUnit(f[i - 1], units[i], budget)
    <3>1. i - 1 \in 0..n
      OBVIOUS
    <3>2. f[i - 1] \in S
      BY <3>1
    <3>3. f[i] = step[<<i, f[i - 1]>>]
      BY <1>8 DEF Recurses
    <3> QED
      BY <3>2, <3>3
  <2> HIDE DEF step
  <2>3. ASSUME NEW i \in 0..n
        PROVE  f[i] = IF i = 0 THEN base ELSE PackUnit(f[i - 1], units[i], budget)
    <3>1. CASE i = 0
      BY <2>1, <3>1
    <3>2. CASE i # 0
      <4>1. i \in 1..n
        BY <3>2
      <4> QED
        BY <2>2, <3>2, <4>1
    <3> QED
      BY <3>1, <3>2
  <2> QED
    BY <2>3
<1> HIDE DEF step
<1>10. PICK h : h = (CHOOSE x : Eq(x))
  OBVIOUS
<1>11. Eq(h)
  <2> HIDE DEF Eq
  <2> QED
    BY <1>9, <1>10
<1>12. Pack(units, budget) = IF h[n].current = <<>> THEN h[n].packed
                             ELSE Append(h[n].packed, h[n].current)
  BY <1>10 DEF Pack, base
<1>13. h[0] = base /\ \A i \in 1..n : h[i] = PackUnit(h[i - 1], units[i], budget)
  <2>1. \A i \in 0..n : h[i] = IF i = 0 THEN base ELSE PackUnit(h[i - 1], units[i], budget)
    BY <1>11
  <2> HIDE DEF Eq
  <2> QED
    BY <2>1
<1> QED
  BY <1>12, <1>13 DEF PackRun, base

LEMMA PackFits ==
    ASSUME NEW U, Measured(U), NEW budget \in Nat, NEW units \in Seq(U)
    PROVE  /\ Pack(units, budget) \in Seq(Packable(U, budget))
           /\ Held(Pack(units, budget)) = Range(units)
<1> DEFINE C == Packable(U, budget)
           S == Packings(U, budget)
           base == [packed |-> <<>>, current |-> <<>>]
<1>1. PICK n \in Nat : n = Len(units)
  OBVIOUS
<1>2. DOMAIN units = 1..n /\ \A i \in 1..n : units[i] \in U
  BY <1>1, LenProperties, ElementOfSeq
<1>3. base \in S
  <2>1. <<>> \in Seq(C)
    BY EmptySeq
  <2> HIDE DEF C
  <2> QED
    BY <2>1 DEF Packings, C
<1>4. HeldBy(base) = {}
  <2>1. base.packed = <<>> /\ base.current = <<>>
    OBVIOUS
  <2> HIDE DEF base
  <2> QED
    BY <2>1, HeldNone DEF HeldBy
<1>5. PICK h : PackRun(units, budget, h, n)
               /\ Pack(units, budget) = IF h[n].current = <<>> THEN h[n].packed
                                        ELSE Append(h[n].packed, h[n].current)
  BY <1>1, PackRuns
<1>12. Pack(units, budget) = IF h[n].current = <<>> THEN h[n].packed
                             ELSE Append(h[n].packed, h[n].current)
  BY <1>5
<1>13. h[0] = base /\ \A i \in 1..n : h[i] = PackUnit(h[i - 1], units[i], budget)
  BY <1>5 DEF PackRun
<1> HIDE DEF base, S
<1> DEFINE Seen(i) == {units[j] : j \in 1..i}
           G == {i \in Nat : h[i] \in S /\ HeldBy(h[i]) = Seen(i)}
<1>14. 0 \in G
  <2>1. Seen(0) = {}
    OBVIOUS
  <2> QED
    BY <1>3, <1>4, <1>13, <2>1
<1>15. ASSUME NEW i \in 1..n, i - 1 \in G PROVE i \in G
  <2>1. h[i - 1] \in S /\ HeldBy(h[i - 1]) = Seen(i - 1)
    BY <1>15
  <2>2. h[i] = PackUnit(h[i - 1], units[i], budget) /\ units[i] \in U
    BY <1>2, <1>13
  <2>3. Seen(i) = Seen(i - 1) \cup {units[i]}
    <3>1. 1..i = (1..i - 1) \cup {i}
      OBVIOUS
    <3> QED
      BY <3>1
  <2> HIDE DEF Seen
  <2>4. h[i] \in S /\ HeldBy(h[i]) = Seen(i)
    BY <2>1, <2>2, <2>3, PackUnitFits DEF S
  <2>5. i \in Nat
    OBVIOUS
  <2> QED
    BY <2>4, <2>5
<1>16. n \in G
  <2> HIDE DEF G
  <2>1. \A i \in 0..n : i \in G
    BY <1>14, <1>15, UptoInduction
  <2>2. n \in 0..n
    OBVIOUS
  <2> QED
    BY <2>1, <2>2
<1>17. h[n] \in S /\ HeldBy(h[n]) = Range(units)
  <2>1. Seen(n) = Range(units)
    BY <1>2 DEF Range
  <2> QED
    BY <1>16, <2>1
<1>18. /\ h[n].packed \in Seq(C) /\ h[n].current \in C \cup {<<>>}
       /\ Held(h[n].packed) \cup Range(h[n].current) = Range(units)
  <2> HIDE DEF C
  <2> QED
    BY <1>17 DEF S, Packings, HeldBy, C
<1>19. CASE h[n].current = <<>>
  BY <1>12, <1>18, <1>19, HeldNone
<1>20. CASE h[n].current # <<>>
  <2> HIDE DEF C
  <2>1. h[n].current \in C
    BY <1>18, <1>20
  <2>2. /\ Append(h[n].packed, h[n].current) \in Seq(C)
        /\ Held(Append(h[n].packed, h[n].current)) = Held(h[n].packed) \cup Range(h[n].current)
    BY <1>18, <2>1, AppendProperties, HeldAppend
  <2> QED
    BY <1>12, <1>18, <1>20, <2>2 DEF C
<1> QED
  BY <1>19, <1>20

-----------------------------------------------------------------------------
(***************************************************************************)
(* Redistribution.                                                         *)
(***************************************************************************)

\* A unit that moves leaves more behind than the tail has, so that the tail
\* stays under what its predecessor had.
LEMMA MovedFits ==
    ASSUME NEW U, Measured(U), NEW budget \in Nat,
           NEW prev \in Packable(U, budget), NEW tail \in Packable(U, budget),
           NEW moved \in 1..Len(prev),
           TokensOf(LastOf(prev, moved - 1) \o tail) < HardMin,
           Len(prev) - (moved - 1) > 1,
           TokensOf(ButLast(prev, moved)) >= HardMin
    PROVE  /\ ButLast(prev, moved) \in Packable(U, budget)
           /\ LastOf(prev, moved) \o tail \in Packable(U, budget)
<1> USE ChunkerAssumption
<1>1. prev \in Seq(U) /\ tail \in Seq(U) /\ prev # <<>> /\ tail # <<>>
  BY DEF Packable
<1>2. PICK n \in Nat : n = Len(prev)
  BY <1>1
<1>3. n - (moved - 1) > 1 /\ moved \in 1..n /\ moved \in 0..n /\ moved - 1 \in 0..n
  BY <1>2
<1>4. TokensOf(prev) <= budget
  <2>1. Len(prev) # 1
    BY <1>2, <1>3
  <2> QED
    BY <2>1 DEF Packable
<1> DEFINE a == ButLast(prev, moved)
           b == LastOf(prev, moved)
           c == LastOf(prev, moved - 1)
           u == prev[n - moved + 1]
<1>5. a \in Seq(U) /\ b \in Seq(U) /\ a \o b = prev /\ Len(a) = n - moved
  BY <1>1, <1>2, <1>3, BothEnds
<1>6. c \in Seq(U)
  BY <1>1, <1>2, <1>3, BothEnds
<1>7. u \in U /\ <<u>> \in Seq(U)
  <2>1. n - moved + 1 \in 1..Len(prev)
    BY <1>2, <1>3
  <2>2. u \in U
    BY <1>1, <2>1, ElementOfSeq
  <2> HIDE DEF u
  <2> QED
    BY <2>2
<1>8. b = <<u>> \o c
  <2>1. n - moved + 1 \in 1..Len(prev) /\ n \in n - moved + 1..Len(prev)
    BY <1>2, <1>3
  <2>2. SubSeq(prev, n - moved + 1, n) = <<prev[n - moved + 1]>> \o SubSeq(prev, (n - moved + 1) + 1, n)
    BY <1>1, <2>1, SubSeqRecursiveFirst
  <2>3. (n - moved + 1) + 1 = n - (moved - 1) + 1
    BY <1>3
  <2> QED
    BY <1>2, <2>2, <2>3 DEF LastOf
<1> HIDE DEF a, b, c, u
<1>9. /\ TokensOf(prev) = TokensOf(a) + TokensOf(b)
      /\ TokensOf(b) = TokensOf(<<u>>) + TokensOf(c)
      /\ TokensOf(b \o tail) = TokensOf(b) + TokensOf(tail)
      /\ TokensOf(c \o tail) = TokensOf(c) + TokensOf(tail)
  <2>1. TokensOf(prev) = TokensOf(a) + TokensOf(b)
    BY <1>5, TokensConcat
  <2>2. TokensOf(b) = TokensOf(<<u>>) + TokensOf(c)
    BY <1>6, <1>7, <1>8, TokensConcat
  <2>4. TokensOf(b \o tail) = TokensOf(b) + TokensOf(tail)
    BY <1>1, <1>5, TokensConcat
  <2>5. TokensOf(c \o tail) = TokensOf(c) + TokensOf(tail)
    BY <1>1, <1>6, TokensConcat
  <2> QED
    BY <2>1, <2>2, <2>4, <2>5
<1>10. /\ TokensOf(a) \in Nat /\ TokensOf(b) \in Nat /\ TokensOf(c) \in Nat
       /\ TokensOf(<<u>>) \in Nat /\ TokensOf(tail) \in Nat
  BY <1>1, <1>5, <1>6, <1>7, TokensType
<1>11. TokensOf(c \o tail) < HardMin /\ TokensOf(a) >= HardMin
  BY DEF a, c
<1>12. TokensOf(a) <= budget /\ TokensOf(b \o tail) <= budget
  <2>1. HardMin \in Nat
    OBVIOUS
  <2>2. PICK ta \in Nat : ta = TokensOf(a)
    BY <1>10
  <2>3. PICK tu \in Nat : tu = TokensOf(<<u>>)
    BY <1>10
  <2>4. PICK tc \in Nat : tc = TokensOf(c)
    BY <1>10
  <2>5. PICK tt \in Nat : tt = TokensOf(tail)
    BY <1>10
  <2>6. TokensOf(prev) = ta + (tu + tc) /\ TokensOf(b \o tail) = (tu + tc) + tt
    BY <1>9, <2>2, <2>3, <2>4, <2>5
  <2>7. tc + tt < HardMin /\ ta >= HardMin /\ ta + (tu + tc) <= budget
    BY <1>4, <1>9, <1>11, <2>2, <2>4, <2>5, <2>6
  <2>8. ta <= budget /\ (tu + tc) + tt <= budget
    BY <2>1, <2>7
  <2> QED
    BY <2>2, <2>6, <2>8
<1>13. a # <<>>
  <2>1. Len(a) # 0
    BY <1>3, <1>5
  <2> QED
    BY <2>1, EmptySeq
<1>14. b \o tail \in Seq(U) /\ b \o tail # <<>>
  <2>1. b \o tail \in Seq(U)
    BY <1>1, <1>5, ConcatProperties
  <2>2. b \o tail # <<>>
    BY <1>1, <1>5, ConcatEqualIffEmpty
  <2> QED
    BY <2>1, <2>2
<1> QED
  BY <1>5, <1>12, <1>13, <1>14 DEF Packable, a, b

LEMMA LastTwo ==
    ASSUME NEW U, NEW n \in Nat, n >= 2, NEW f \in [1..n -> Seq(U)]
    PROVE  FlattenSeq(f) = FlatTo(f, n - 2) \o (f[n - 1] \o f[n])
<1> DEFINE a == FlatTo(f, n - 2)
           b == f[n - 1]
           c == f[n]
<1>1. n \in 1..n /\ n - 1 \in 1..n /\ (n - 1) - 1 = n - 2 /\ n - 2 \in 0..n
  OBVIOUS
<1>2. FlattenSeq(f) = FlatTo(f, n - 1) \o c /\ FlatTo(f, n - 1) = a \o b
  BY <1>1, FlatStep
<1>3. a \in Seq(U) /\ b \in Seq(U) /\ c \in Seq(U)
  BY <1>1, FlatStep
<1> HIDE DEF a, b, c
<1>4. (a \o b) \o c = a \o (b \o c)
  BY <1>3, ConcatAssociative, SMTT(60)
<1> QED
  BY <1>2, <1>4 DEF a, b, c

\* The border of the last two of n sequences moves.
LEMMA BorderMoves ==
    ASSUME NEW U, NEW n \in Nat, n >= 2, NEW s \in [1..n -> Seq(U)], NEW t \in [1..n -> Seq(U)],
           \A j \in 1..n - 2 : s[j] = t[j],
           s[n - 1] \o s[n] = t[n - 1] \o t[n]
    PROVE  FlattenSeq(s) = FlattenSeq(t)
<1>1. /\ FlattenSeq(s) = FlatTo(s, n - 2) \o (s[n - 1] \o s[n])
      /\ FlattenSeq(t) = FlatTo(t, n - 2) \o (t[n - 1] \o t[n])
  BY LastTwo
<1>2. FlatTo(s, n - 2) = FlatTo(t, n - 2)
  <2>1. [i \in 1..n - 2 |-> s[i]] = [i \in 1..n - 2 |-> t[i]]
    OBVIOUS
  <2> QED
    BY <2>1 DEF FlatTo
<1> QED
  BY <1>1, <1>2

LEMMA RedistributeFits ==
    ASSUME NEW U, Measured(U), NEW budget \in Nat, NEW packed \in Seq(Packable(U, budget))
    PROVE  /\ Redistribute(packed) \in Seq(Packable(U, budget))
           /\ Held(Redistribute(packed)) = Held(packed)
           /\ FlattenSeq(Redistribute(packed)) = FlattenSeq(packed)
<1> DEFINE C == Packable(U, budget)
<1>1. PICK n \in Nat : n = Len(packed)
  OBVIOUS
<1>2. CASE n < 2
  <2>1. Redistribute(packed) = packed
    BY <1>1, <1>2 DEF Redistribute
  <2> QED
    BY <2>1
<1>3. CASE ~(n < 2)
  <2> DEFINE tail == packed[n]
             prev == packed[n - 1]
             Taken(m) == LastOf(prev, m) \o tail
             GoesOn(m) == /\ TokensOf(Taken(m)) < HardMin
                          /\ Len(prev) - m > 1
                          /\ TokensOf(ButLast(prev, m + 1)) >= HardMin
                          /\ prev[Len(prev) - m] # Head(Taken(m))
             Stops(m) == ~GoesOn(m) /\ \A k \in 0..m - 1 : GoesOn(k)
             moved == CHOOSE m \in 0..Len(prev) : Stops(m)
             T == {m \in 0..Len(prev) : ~GoesOn(m)}
             first == ButLast(prev, moved)
             last == Taken(moved)
  <2>1. Redistribute(packed) = [packed EXCEPT ![n - 1] = first, ![n] = last]
    BY <1>1, <1>3 DEF Redistribute
  <2>2. n \in 1..Len(packed) /\ n - 1 \in 1..Len(packed) /\ n # n - 1
    BY <1>1, <1>3
  <2>3. tail \in C /\ prev \in C
    <3> HIDE DEF C
    <3> QED
      BY <2>2, ElementOfSeq DEF C
  <2>4. tail \in Seq(U) /\ prev \in Seq(U) /\ prev # <<>>
    BY <2>3 DEF Packable
  <2> HIDE DEF tail, prev, C
  <2>5. PICK l \in Nat : l = Len(prev)
    BY <2>4
  <2>6. ~GoesOn(l)
    <3>1. ~(Len(prev) - l > 1)
      BY <2>5
    <3> QED
      BY <3>1
  <2> HIDE DEF GoesOn
  <2>7. T \subseteq Nat /\ T # {}
    BY <2>5, <2>6
  <2>8. PICK m \in T : \A x \in T : m <= x
    BY <2>7, NatMinimum
  <2>9. m \in 0..Len(prev) /\ Stops(m)
    <3>1. \A k \in 0..m - 1 : k \in 0..Len(prev) /\ k < m
      BY <2>5, <2>8
    <3>2. \A k \in 0..m - 1 : GoesOn(k)
      <4> SUFFICES ASSUME NEW k \in 0..m - 1, ~GoesOn(k) PROVE FALSE
        OBVIOUS
      <4>1. k \in T /\ k < m
        BY <3>1
      <4>2. m <= k /\ m \in Nat /\ k \in Nat
        BY <2>5, <2>8, <4>1
      <4> QED
        BY <4>1, <4>2
    <3> QED
      BY <2>8, <3>2
  <2>10. moved \in 0..Len(prev) /\ Stops(moved)
    <3> HIDE DEF Stops
    <3> QED
      BY <2>9
  <2> HIDE DEF moved, T
  <2>11. first \in Seq(U) /\ LastOf(prev, moved) \in Seq(U) /\ first \o LastOf(prev, moved) = prev
    BY <2>4, <2>10, BothEnds
  <2>12. first \in C /\ last \in C
    <3>1. CASE moved = 0
      <4>1. Len(LastOf(prev, moved)) = 0
        BY <2>4, <2>10, <3>1, BothEnds
      <4>2. LastOf(prev, moved) = <<>>
        BY <2>11, <4>1, EmptySeq
      <4>3. first = prev
        BY <2>11, <4>2, ConcatEmptySeq
      <4>4. last = tail
        BY <2>4, <4>2, ConcatEmptySeq
      <4> QED
        BY <2>3, <4>3, <4>4
    <3>2. CASE moved # 0
      <4>1. moved \in 1..Len(prev) /\ moved - 1 \in 0..moved - 1 /\ (moved - 1) + 1 = moved
        BY <2>5, <2>10, <3>2
      <4>2. GoesOn(moved - 1)
        BY <2>10, <4>1
      <4>3. /\ TokensOf(LastOf(prev, moved - 1) \o tail) < HardMin
            /\ Len(prev) - (moved - 1) > 1
            /\ TokensOf(ButLast(prev, (moved - 1) + 1)) >= HardMin
        BY <4>2 DEF GoesOn
      <4> QED
        BY <2>3, <4>1, <4>3, MovedFits DEF C
    <3> QED
      BY <3>1, <3>2
  <2>13. Range(first) \cup Range(last) = Range(prev) \cup Range(tail)
    <3>1. Range(last) = Range(LastOf(prev, moved)) \cup Range(tail)
      BY <2>4, <2>11, RangeConcat
    <3>2. Range(prev) = Range(first) \cup Range(LastOf(prev, moved))
      BY <2>11, RangeConcat, ZenonT(60)
    <3> QED
      BY <3>1, <3>2
  <2> HIDE DEF first, last
  <2> DEFINE once == [packed EXCEPT ![n - 1] = first]
             r == [once EXCEPT ![n] = last]
  <2>14. packed \in Seq(C)
    BY DEF C
  <2>15. /\ once \in Seq(C) /\ Len(once) = n
         /\ \A j \in 1..n : once[j] = IF j = n - 1 THEN first ELSE packed[j]
    BY <1>1, <2>2, <2>12, <2>14, ExceptSeq
  <2>16. Redistribute(packed) = r
    BY <2>1
  <2> HIDE DEF once
  <2>17. /\ r \in Seq(C) /\ Len(r) = n
         /\ \A j \in 1..n : r[j] = IF j = n THEN last ELSE once[j]
    BY <1>1, <2>2, <2>12, <2>15, ExceptSeq
  <2> HIDE DEF r
  <2>18. DOMAIN packed = 1..n /\ DOMAIN r = 1..n
    BY <1>1, <2>14, <2>17, LenProperties
  <2>19. r[n] = last /\ r[n - 1] = first /\ \A j \in 1..n : j # n /\ j # n - 1 => r[j] = packed[j]
    BY <1>1, <2>2, <2>15, <2>17
  <2>20. n \in 1..n /\ n - 1 \in 1..n /\ packed[n] = tail /\ packed[n - 1] = prev
    BY <1>1, <2>2 DEF tail, prev
  <2>21. Held(r) = Held(packed)
    <3>1. Held(r) = UNION {Range(r[j]) : j \in 1..n}
      BY <2>18 DEF Held
    <3>2. Held(packed) = UNION {Range(packed[j]) : j \in 1..n}
      BY <2>18 DEF Held
    <3>3. ASSUME NEW x \in Held(r) PROVE x \in Held(packed)
      <4>1. PICK j \in 1..n : x \in Range(r[j])
        BY <3>1, <3>3
      <4>2. CASE j = n \/ j = n - 1
        BY <2>13, <2>19, <2>20, <3>2, <4>1, <4>2
      <4>3. CASE j # n /\ j # n - 1
        BY <2>19, <3>2, <4>1, <4>3
      <4> QED
        BY <4>2, <4>3
    <3>4. ASSUME NEW x \in Held(packed) PROVE x \in Held(r)
      <4>1. PICK j \in 1..n : x \in Range(packed[j])
        BY <3>2, <3>4
      <4>2. CASE j = n \/ j = n - 1
        BY <2>13, <2>19, <2>20, <3>1, <4>1, <4>2
      <4>3. CASE j # n /\ j # n - 1
        BY <2>19, <3>1, <4>1, <4>3
      <4> QED
        BY <4>2, <4>3
    <3> QED
      BY <3>3, <3>4
  <2>22. FlattenSeq(r) = FlattenSeq(packed)
    <3>1. n \in Nat /\ n >= 2
      BY <1>3
    <3>2. r \in [1..n -> Seq(U)] /\ packed \in [1..n -> Seq(U)]
      <4>1. C \subseteq Seq(U)
        BY DEF C, Packable
      <4>2. r \in [1..n -> C] /\ packed \in [1..n -> C]
        BY <1>1, <2>14, <2>17
      <4> QED
        BY <4>1, <4>2
    <3>3. \A j \in 1..n - 2 : r[j] = packed[j]
      BY <2>19
    <3>4. r[n - 1] \o r[n] = packed[n - 1] \o packed[n]
      <4> DEFINE end == LastOf(prev, moved)
      <4>1. last = end \o tail
        BY DEF last
      <4> HIDE DEF end
      <4>2. first \in Seq(U) /\ end \in Seq(U) /\ tail \in Seq(U)
        BY <2>4, <2>11 DEF end
      <4>4. first \o end = prev
        BY <2>11 DEF end
      <4>3. (first \o end) \o tail = first \o (end \o tail)
        BY <4>2, ConcatAssociative, SMTT(60)
      <4> QED
        BY <2>19, <2>20, <4>1, <4>3, <4>4
    <3> QED
      BY <3>1, <3>2, <3>3, <3>4, BorderMoves
  <2> QED
    BY <2>16, <2>17, <2>21, <2>22 DEF C
<1> QED
  BY <1>2, <1>3

-----------------------------------------------------------------------------
(***************************************************************************)
(* Groups.                                                                 *)
(***************************************************************************)

GroupSet(ss, W, I) ==
    {g \in [parent : Seq(Seq(W)), units : Seq(FitUnits(ss, DOMAIN ss, I)),
            sections : SUBSET DOMAIN ss] :
        /\ g.sections # {}
        /\ g.units \in Seq(FitUnits(ss, g.sections, I))
        /\ Siblings(ss, g.sections, g.parent)}

\* The units of a sequence of groups.
Grouped(groups) == UNION {Range(groups[i].units) : i \in DOMAIN groups}

LEMMA GroupedAppend ==
    ASSUME NEW G, NEW groups \in Seq(G), NEW g \in G
    PROVE  Grouped(Append(groups, g)) = Grouped(groups) \cup Range(g.units)
<1> DEFINE both == Append(groups, g)
<1>1. PICK n \in Nat : n = Len(groups)
  OBVIOUS
<1>2. both \in Seq(G) /\ Len(both) = n + 1 /\ both[n + 1] = g
  BY <1>1, AppendProperties
<1>3. \A i \in 1..n : both[i] = groups[i]
  BY <1>1, AppendProperties
<1>4. DOMAIN groups = 1..n /\ DOMAIN both = 1..n + 1
  BY <1>1, <1>2, LenProperties
<1>5. 1..n + 1 = (1..n) \cup {n + 1}
  OBVIOUS
<1> HIDE DEF both
<1> QED
  BY <1>2, <1>3, <1>4, <1>5 DEF Grouped, both

LEMMA FitMonotonic ==
    ASSUME NEW ss, NEW I, NEW B, NEW A \in SUBSET B, NEW s \in Seq(FitUnits(ss, A, I))
    PROVE  s \in Seq(FitUnits(ss, B, I))
<1>1. FitUnits(ss, A, I) \subseteq FitUnits(ss, B, I)
  BY DEF FitUnits, UnitSet
<1> QED
  BY <1>1, SeqMonotonic

LEMMA Extended ==
    ASSUME NEW A, NEW B, NEW R, NEW g \in [parent : R, units : A, sections : B],
           NEW a \in A, NEW b \in B
    PROVE  /\ [g EXCEPT !.units = a, !.sections = b] \in [parent : R, units : A, sections : B]
           /\ [g EXCEPT !.units = a, !.sections = b].parent = g.parent
           /\ [g EXCEPT !.units = a, !.sections = b].units = a
           /\ [g EXCEPT !.units = a, !.sections = b].sections = b
OBVIOUS

\* What the units of a section do to the groups: nothing, for there are none, a
\* group more, or units more in the last one.
Grows(G, groups, units, grown) ==
    \/ units = <<>> /\ grown = groups
    \/ \E g \in G : g.units = units /\ grown = Append(groups, g)
    \/ \E front \in Seq(G), last \in G, g \in G :
           /\ groups = Append(front, last) /\ grown = Append(front, g)
           /\ g.units = last.units \o units

LEMMA AddToGroupsGrows ==
    ASSUME NEW W, NEW I, NEW ss \in Seq(SectionSet(W, I)), RoomForPaths(ss), NEW i \in DOMAIN ss,
           NEW groups \in Seq(GroupSet(ss, W, I))
    PROVE  Grows(GroupSet(ss, W, I), groups, UnitsOf(ss, i), AddToGroups(ss, groups, i))
<1> DEFINE G == GroupSet(ss, W, I)
           units == UnitsOf(ss, i)
           parent == Front(ss[i].path)
           Joins == /\ groups # <<>> /\ Last(groups).parent = parent
                    /\ TokensOf(Last(groups).units) < TargetMin
                    /\ TokensOf(Last(groups).units) + TokensOf(units) <= TargetMax
           joined == [Last(groups) EXCEPT !.units = @ \o units, !.sections = @ \cup {i}]
           alone == [parent |-> parent, units |-> units, sections |-> {i}]
<1>1. AddToGroups(ss, groups, i) = IF units = <<>> THEN groups
                                   ELSE IF Joins THEN Append(Front(groups), joined)
                                   ELSE Append(groups, alone)
  BY DEF AddToGroups
<1>2. units \in Seq(FitUnits(ss, {i}, I))
  BY UnitsFit
<1>3. units \in Seq(FitUnits(ss, DOMAIN ss, I))
  BY <1>2, FitMonotonic
<1>4. parent \in Seq(Seq(W))
  <2>1. ss[i] \in SectionSet(W, I)
    OBVIOUS
  <2>2. ss[i].path \in Seq(Seq(W)) /\ ss[i].path # <<>>
    BY <2>1 DEF SectionSet
  <2> QED
    BY <2>2, PathSplit
<1>5. alone \in G
  <2>1. Siblings(ss, {i}, parent)
    BY DEF Siblings
  <2> HIDE DEF units, parent
  <2> QED
    BY <1>2, <1>3, <1>4, <2>1 DEF GroupSet
<1>6. alone.units = units
  OBVIOUS
<1>7. ASSUME Joins
      PROVE  /\ joined \in G /\ joined.units = Last(groups).units \o units
             /\ Front(groups) \in Seq(G) /\ groups = Append(Front(groups), Last(groups))
             /\ Last(groups) \in G
  <2>1. Front(groups) \in Seq(G) /\ Last(groups) \in G /\ groups = Append(Front(groups), Last(groups))
    BY <1>7, PathSplit
  <2> DEFINE last == Last(groups)
             wide == last.sections \cup {i}
  <2>2. last.parent = parent
    BY <1>7
  <2> HIDE DEF last
  <2>3. last \in GroupSet(ss, W, I)
    BY <2>1 DEF last
  <2>4. /\ last.parent \in Seq(Seq(W)) /\ last.units \in Seq(FitUnits(ss, last.sections, I))
        /\ last.sections \in SUBSET DOMAIN ss
        /\ Siblings(ss, last.sections, last.parent)
    BY <2>3 DEF GroupSet
  <2>5. last.units \in Seq(FitUnits(ss, wide, I)) /\ units \in Seq(FitUnits(ss, wide, I))
    <3>1. last.sections \subseteq wide /\ {i} \subseteq wide
      OBVIOUS
    <3> HIDE DEF wide, units
    <3> QED
      BY <1>2, <2>4, <3>1, FitMonotonic
  <2>6. last.units \o units \in Seq(FitUnits(ss, wide, I))
    <3> HIDE DEF wide, units
    <3> QED
      BY <2>5, ConcatProperties
  <2>7. wide \in SUBSET DOMAIN ss /\ wide # {}
    BY <2>4
  <2>8. last.units \o units \in Seq(FitUnits(ss, DOMAIN ss, I))
    <3> HIDE DEF wide, units
    <3> QED
      BY <2>6, <2>7, FitMonotonic
  <2>9. Siblings(ss, wide, last.parent)
    BY <2>2, <2>4 DEF Siblings
  <2>10. /\ joined \in [parent : Seq(Seq(W)), units : Seq(FitUnits(ss, DOMAIN ss, I)),
                        sections : SUBSET DOMAIN ss]
         /\ joined.parent = last.parent /\ joined.units = last.units \o units
         /\ joined.sections = wide
    <3> DEFINE a == last.units \o units
    <3>1. joined = [last EXCEPT !.units = a, !.sections = wide]
      BY DEF last
    <3>2. a \in Seq(FitUnits(ss, DOMAIN ss, I)) /\ wide \in SUBSET DOMAIN ss
      BY <2>7, <2>8
    <3>3. last \in [parent : Seq(Seq(W)), units : Seq(FitUnits(ss, DOMAIN ss, I)),
                    sections : SUBSET DOMAIN ss]
      BY <2>3 DEF GroupSet
    <3> HIDE DEF joined, a, wide
    <3> QED
      BY <3>1, <3>2, <3>3, Extended DEF a
  <2> HIDE DEF wide, units, joined, parent
  <2>12. joined \in G
    BY <2>4, <2>6, <2>7, <2>8, <2>9, <2>10 DEF GroupSet
  <2>13. joined.units = last.units \o units
    BY <2>10
  <2> QED
    BY <2>1, <2>12, <2>13 DEF last
<1> HIDE DEF G, units, joined, alone, Joins
<1>8. CASE units = <<>>
  BY <1>1, <1>8 DEF Grows, units
<1>9. CASE units # <<>> /\ Joins
  <2>1. AddToGroups(ss, groups, i) = Append(Front(groups), joined)
    BY <1>1, <1>9
  <2>2. \E front \in Seq(G), last \in G, g \in G :
            /\ groups = Append(front, last) /\ AddToGroups(ss, groups, i) = Append(front, g)
            /\ g.units = last.units \o units
    BY <1>7, <1>9, <2>1
  <2> QED
    BY <2>2 DEF Grows, G, units
<1>10. CASE units # <<>> /\ ~Joins
  <2>1. AddToGroups(ss, groups, i) = Append(groups, alone)
    BY <1>1, <1>10
  <2>2. \E g \in G : g.units = units /\ AddToGroups(ss, groups, i) = Append(groups, g)
    BY <1>5, <1>6, <2>1
  <2> QED
    BY <2>2 DEF Grows, G, units
<1> QED
  BY <1>8, <1>9, <1>10

LEMMA AddToGroupsFits ==
    ASSUME NEW W, NEW I, NEW ss \in Seq(SectionSet(W, I)), RoomForPaths(ss), NEW i \in DOMAIN ss,
           NEW groups \in Seq(GroupSet(ss, W, I))
    PROVE  /\ AddToGroups(ss, groups, i) \in Seq(GroupSet(ss, W, I))
           /\ Grouped(AddToGroups(ss, groups, i)) = Grouped(groups) \cup Range(UnitsOf(ss, i))
<1> DEFINE G == GroupSet(ss, W, I)
           units == UnitsOf(ss, i)
           grown == AddToGroups(ss, groups, i)
           F == FitUnits(ss, DOMAIN ss, I)
<1>1. Grows(G, groups, units, grown)
  BY AddToGroupsGrows
<1>2. units \in Seq(F) /\ \A g \in G : g.units \in Seq(F)
  <2>1. units \in Seq(FitUnits(ss, {i}, I))
    BY UnitsFit
  <2>2. units \in Seq(F)
    BY <2>1, FitMonotonic
  <2> QED
    BY <2>2 DEF GroupSet
<1>3. groups \in Seq(G)
  OBVIOUS
<1> HIDE DEF G, units, grown, F
<1>4. CASE units = <<>> /\ grown = groups
  <2>1. Range(units) = {}
    BY <1>4, HeldNone
  <2> QED
    BY <1>3, <1>4, <2>1 DEF G, units, grown
<1>5. CASE \E g \in G : g.units = units /\ grown = Append(groups, g)
  <2>1. PICK g \in G : g.units = units /\ grown = Append(groups, g)
    BY <1>5
  <2>2. grown \in Seq(G)
    BY <1>3, <2>1, AppendProperties
  <2>3. Grouped(grown) = Grouped(groups) \cup Range(units)
    BY <1>3, <2>1, GroupedAppend
  <2> QED
    BY <2>2, <2>3 DEF G, units, grown
<1>6. CASE \E front \in Seq(G), last \in G, g \in G :
               /\ groups = Append(front, last) /\ grown = Append(front, g)
               /\ g.units = last.units \o units
  <2>1. PICK front \in Seq(G), last \in G, g \in G :
                 /\ groups = Append(front, last) /\ grown = Append(front, g)
                 /\ g.units = last.units \o units
    BY <1>6
  <2>2. grown \in Seq(G)
    BY <2>1, AppendProperties
  <2>3. /\ Grouped(grown) = Grouped(front) \cup Range(g.units)
        /\ Grouped(groups) = Grouped(front) \cup Range(last.units)
    BY <2>1, GroupedAppend
  <2>4. Range(last.units \o units) = Range(last.units) \cup Range(units)
    <3>1. last.units \in Seq(F) /\ units \in Seq(F)
      BY <1>2
    <3> QED
      BY <3>1, RangeConcat
  <2> QED
    BY <2>1, <2>2, <2>3, <2>4 DEF G, units, grown
<1> QED
  BY <1>1, <1>4, <1>5, <1>6 DEF Grows

\* The groups as the sections are added, one at a time.
GroupRun(ss, h, n) == h[0] = <<>> /\ \A i \in 1..n : h[i] = AddToGroups(ss, h[i - 1], i)

LEMMA GroupsRun ==
    ASSUME NEW W, NEW I, NEW ss \in Seq(SectionSet(W, I)), RoomForPaths(ss), NEW n \in Nat, n = Len(ss)
    PROVE  \E h : GroupRun(ss, h, n) /\ Groups(ss) = h[n]
<1> DEFINE S == Seq(GroupSet(ss, W, I))
<1>2. DOMAIN ss = 1..n
  BY LenProperties
<1> DEFINE Eq(g) == g = [i \in 0..n |-> IF i = 0 THEN <<>> ELSE AddToGroups(ss, g[i - 1], i)]
           step == [p \in (1..n) \X S |-> AddToGroups(ss, p[2], p[1])]
<1>3. <<>> \in S
  BY EmptySeq
<1>4. \A i \in 1..n : \A s \in S : AddToGroups(ss, s, i) \in S
  BY <1>2, AddToGroupsFits
<1> HIDE DEF S
<1>5. step \in [(1..n) \X S -> S]
  BY <1>4
<1>6. \E f \in [0..n -> S] : Recurses(f, n, <<>>, step)
  <2> HIDE DEF step
  <2> QED
    BY <1>3, <1>5, Recursion
<1>7. PICK f \in [0..n -> S] : Recurses(f, n, <<>>, step)
  BY <1>6
<1>8. Eq(f)
  <2>1. f[0] = <<>>
    BY <1>7 DEF Recurses
  <2>2. ASSUME NEW i \in 1..n PROVE f[i] = AddToGroups(ss, f[i - 1], i)
    <3>1. i - 1 \in 0..n
      OBVIOUS
    <3>2. f[i - 1] \in S
      BY <3>1
    <3>3. f[i] = step[<<i, f[i - 1]>>]
      BY <1>7 DEF Recurses
    <3> QED
      BY <3>2, <3>3
  <2> HIDE DEF step
  <2>3. ASSUME NEW i \in 0..n
        PROVE  f[i] = IF i = 0 THEN <<>> ELSE AddToGroups(ss, f[i - 1], i)
    <3>1. CASE i = 0
      BY <2>1, <3>1
    <3>2. CASE i # 0
      <4>1. i \in 1..n
        BY <3>2
      <4> QED
        BY <2>2, <3>2, <4>1
    <3> QED
      BY <3>1, <3>2
  <2> QED
    BY <2>3
<1> HIDE DEF step
<1>9. PICK h : h = (CHOOSE x : Eq(x))
  OBVIOUS
<1>10. Eq(h)
  <2> HIDE DEF Eq
  <2> QED
    BY <1>8, <1>9
<1>11. Groups(ss) = h[n]
  BY <1>9 DEF Groups
<1>12. h[0] = <<>> /\ \A i \in 1..n : h[i] = AddToGroups(ss, h[i - 1], i)
  <2>1. \A i \in 0..n : h[i] = IF i = 0 THEN <<>> ELSE AddToGroups(ss, h[i - 1], i)
    BY <1>10
  <2> HIDE DEF Eq
  <2> QED
    BY <2>1
<1> QED
  BY <1>11, <1>12 DEF GroupRun

LEMMA GroupsFit ==
    ASSUME NEW W, NEW I, NEW ss \in Seq(SectionSet(W, I)), RoomForPaths(ss)
    PROVE  /\ Groups(ss) \in Seq(GroupSet(ss, W, I))
           /\ Grouped(Groups(ss)) = UNION {Range(UnitsOf(ss, i)) : i \in DOMAIN ss}
<1> DEFINE S == Seq(GroupSet(ss, W, I))
<1>1. PICK n \in Nat : n = Len(ss)
  OBVIOUS
<1>2. DOMAIN ss = 1..n
  BY <1>1, LenProperties
<1>3. <<>> \in S /\ Grouped(<<>>) = {}
  BY EmptySeq DEF Grouped
<1>4. PICK h : GroupRun(ss, h, n) /\ Groups(ss) = h[n]
  BY <1>1, GroupsRun
<1>11. Groups(ss) = h[n]
  BY <1>4
<1>12. h[0] = <<>> /\ \A i \in 1..n : h[i] = AddToGroups(ss, h[i - 1], i)
  BY <1>4 DEF GroupRun
<1> HIDE DEF S
<1> DEFINE Seen(i) == UNION {Range(UnitsOf(ss, j)) : j \in 1..i}
           G == {i \in Nat : h[i] \in S /\ Grouped(h[i]) = Seen(i)}
<1>13. 0 \in G
  <2>1. Seen(0) = {}
    OBVIOUS
  <2> QED
    BY <1>3, <1>12, <2>1
<1>14. ASSUME NEW i \in 1..n, i - 1 \in G PROVE i \in G
  <2>1. h[i - 1] \in S /\ Grouped(h[i - 1]) = Seen(i - 1)
    BY <1>14
  <2>2. h[i] = AddToGroups(ss, h[i - 1], i) /\ i \in DOMAIN ss
    BY <1>2, <1>12
  <2>3. Seen(i) = Seen(i - 1) \cup Range(UnitsOf(ss, i))
    <3>1. 1..i = (1..i - 1) \cup {i}
      OBVIOUS
    <3> QED
      BY <3>1
  <2> HIDE DEF Seen
  <2>4. h[i] \in S /\ Grouped(h[i]) = Seen(i)
    BY <2>1, <2>2, <2>3, AddToGroupsFits DEF S
  <2>5. i \in Nat
    OBVIOUS
  <2> QED
    BY <2>4, <2>5
<1>15. n \in G
  <2> HIDE DEF G
  <2>1. \A i \in 0..n : i \in G
    BY <1>13, <1>14, UptoInduction
  <2>2. n \in 0..n
    OBVIOUS
  <2> QED
    BY <2>1, <2>2
<1> QED
  BY <1>2, <1>11, <1>15 DEF S

-----------------------------------------------------------------------------
(***************************************************************************)
(* All packed chunks.                                                      *)
(***************************************************************************)

LEMMA HeldFlatten ==
    ASSUME NEW C, NEW seqs \in Seq(Seq(C))
    PROVE  Held(FlattenSeq(seqs)) = UNION {Held(seqs[i]) : i \in DOMAIN seqs}
<1>1. \A chunks : Held(chunks) = UNION {Range(c) : c \in Range(chunks)}
  BY DEF Held, Range
<1>2. Range(FlattenSeq(seqs)) = UNION {Range(seqs[i]) : i \in DOMAIN seqs}
  BY FlattenRange
<1> QED
  BY <1>1, <1>2

\* Chunks that are within target_max as they are rendered.
FitChunks(ss, I) ==
    {c \in Seq(FitUnits(ss, DOMAIN ss, I)) : c # <<>> /\ TokenCount(ss, c) <= TargetMax}

LEMMA BudgetType ==
    ASSUME NEW W, NEW I, NEW ss \in Seq(SectionSet(W, I)), RoomForPaths(ss),
           NEW g \in GroupSet(ss, W, I)
    PROVE  Budget(ss, g) \in Nat
<1> USE ChunkerAssumption
<1> DEFINE longest == Longest(ss, g.sections)
           leaf    == LongestLeaf(ss, g.sections)
<1>1. g.sections \in SUBSET (DOMAIN ss) /\ g.sections # {} /\ Siblings(ss, g.sections, g.parent)
  BY DEF GroupSet
<1>2. longest \in Nat /\ leaf \in Nat /\ longest + leaf + PackMargin + HardMin <= TargetMax
  BY <1>1, GroupPaths
<1>3. Budget(ss, g) = IF TargetMax - (longest + leaf + PackMargin) > HardMin
                      THEN TargetMax - (longest + leaf + PackMargin) ELSE HardMin
  BY DEF Budget, Longest, LongestLeaf
<1> HIDE DEF longest, leaf
<1> QED
  BY <1>2, <1>3

LEMMA PackedFits ==
    ASSUME NEW W, NEW I, NEW ss \in Seq(SectionSet(W, I)), RoomForPaths(ss),
           NEW g \in GroupSet(ss, W, I),
           NEW c \in Packable(FitUnits(ss, g.sections, I), Budget(ss, g))
    PROVE  c \in FitChunks(ss, I)
<1> USE ChunkerAssumption
<1> DEFINE U == FitUnits(ss, g.sections, I)
           longest == Longest(ss, g.sections)
           leaf    == LongestLeaf(ss, g.sections)
<1>1. g.sections \in SUBSET (DOMAIN ss) /\ g.sections # {} /\ Siblings(ss, g.sections, g.parent)
  BY DEF GroupSet
<1>2. /\ c \in Seq(U) /\ c # <<>>
      /\ Len(c) = 1 \/ TokensOf(c) <= Budget(ss, g)
  <2> HIDE DEF U
  <2> QED
    BY DEF Packable, U
<1>3. c \in Seq(FitUnits(ss, DOMAIN ss, I))
  BY <1>1, <1>2, FitMonotonic
<1>4. Measured(U)
  BY UnitsMeasured
<1>5. TokensOf(c) \in Nat
  BY <1>2, <1>4, TokensType
<1>6. CASE Len(c) = 1
  <2> DEFINE u == c[1]
             used == {v.section : v \in Range(c)}
  <2>1. u \in U /\ c = <<u>>
    <3> HIDE DEF U
    <3>1. u \in U
      BY <1>2, <1>6, ElementOfSeq
    <3> QED
      BY <1>2, <1>6, <3>1
  <2> HIDE DEF u
  <2>2. Range(c) = {u}
    BY <2>1, RangeOne
  <2>3. used = {u.section}
    BY <2>2
  <2>4. /\ u.section \in g.sections /\ u.tokens \in Nat
        /\ u.tokens + PathTokens(ss[u.section].path) <= TargetMax
    BY <2>1 DEF FitUnits, UnitSet
  <2>5. u.section \in Nat
    <3>1. PICK n \in Nat : n = Len(ss)
      OBVIOUS
    <3>2. DOMAIN ss = 1..n
      BY <3>1, LenProperties
    <3>3. u.section \in 1..n
      BY <1>1, <2>4, <3>2
    <3> QED
      BY <3>3
  <2>6. Min(used) = u.section
    <3>1. used \subseteq Nat /\ used # {}
      BY <2>3, <2>5
    <3> HIDE DEF used
    <3>2. Min(used) \in used
      BY <3>1, MinOf
    <3> QED
      BY <2>3, <3>2
  <2>7. Cardinality(used) = 1
    BY <2>3, FS_Singleton
  <2>8. SectionPath(ss, c) = ss[u.section].path
    BY <2>6, <2>7 DEF SectionPath
  <2>9. TokensOf(c) = u.tokens
    <3> HIDE DEF U
    <3> QED
      BY <1>4, <2>1, TokensOne
  <2>10. PathTokens(ss[u.section].path) \in Nat
    BY <1>1, <2>4, GroupPaths
  <2>11. TokenCount(ss, c) = PathTokens(ss[u.section].path) + u.tokens
    BY <2>8, <2>9 DEF TokenCount
  <2>12. TokenCount(ss, c) <= TargetMax
    BY <2>4, <2>10, <2>11
  <2> QED
    BY <1>2, <1>3, <2>12 DEF FitChunks
<1>7. CASE TokensOf(c) <= Budget(ss, g)
  <2>1. /\ longest \in Nat /\ leaf \in Nat
        /\ longest + leaf + PackMargin + HardMin <= TargetMax
        /\ \A i \in g.sections :
               /\ PathTokens(ss[i].path) \in Nat /\ PathTokens(ss[i].path) <= longest
               /\ Len(Last(ss[i].path)) \in Nat /\ Len(Last(ss[i].path)) <= leaf
    BY <1>1, GroupPaths
  <2>2. Budget(ss, g) = IF TargetMax - (longest + leaf + PackMargin) > HardMin
                        THEN TargetMax - (longest + leaf + PackMargin) ELSE HardMin
    BY DEF Budget, Longest, LongestLeaf
  <2> HIDE DEF longest, leaf
  <2>3. \A u \in U : u.section \in g.sections
    BY DEF FitUnits, UnitSet
  <2> HIDE DEF U
  <2>4. /\ PathTokens(SectionPath(ss, c)) \in Nat
        /\ PathTokens(SectionPath(ss, c)) <= longest + leaf + PackMargin
    BY <1>1, <1>2, <2>1, <2>3, BreadcrumbFits
  <2>5. Budget(ss, g) <= TargetMax - (longest + leaf + PackMargin)
    BY <2>1, <2>2
  <2>6. TokenCount(ss, c) = PathTokens(SectionPath(ss, c)) + TokensOf(c)
    BY DEF TokenCount
  <2>7. TokenCount(ss, c) <= TargetMax
    <3>1. Budget(ss, g) \in Nat
      BY BudgetType
    <3> QED
      BY <1>5, <1>7, <2>1, <2>4, <2>5, <2>6, <3>1
  <2> QED
    BY <1>2, <1>3, <2>7 DEF FitChunks
<1> QED
  BY <1>2, <1>6, <1>7

\* The chunks of a group: they hold its units, and the redistribution does not
\* change in what order.
PackedGroup(ss, g) == Redistribute(Pack(g.units, Budget(ss, g)))

LEMMA PackedGroupFits ==
    ASSUME NEW W, NEW I, NEW ss \in Seq(SectionSet(W, I)), RoomForPaths(ss),
           NEW g \in GroupSet(ss, W, I)
    PROVE  /\ PackedGroup(ss, g) \in Seq(FitChunks(ss, I))
           /\ Held(PackedGroup(ss, g)) = Range(g.units)
           /\ FlattenSeq(PackedGroup(ss, g)) = FlattenSeq(Pack(g.units, Budget(ss, g)))
<1> DEFINE F == FitChunks(ss, I)
           U == FitUnits(ss, g.sections, I)
           budget == Budget(ss, g)
           packed == Pack(g.units, budget)
           C == Packable(U, budget)
<1>1. g.units \in Seq(U)
  BY DEF GroupSet
<1>2. budget \in Nat
  BY BudgetType
<1>3. Measured(U)
  BY UnitsMeasured
<1>4. C \subseteq F
  BY PackedFits
<1> HIDE DEF U, budget
<1>5. packed \in Seq(C) /\ Held(packed) = Range(g.units)
  BY <1>1, <1>2, <1>3, PackFits
<1> HIDE DEF packed
<1>6. /\ Redistribute(packed) \in Seq(C) /\ Held(Redistribute(packed)) = Held(packed)
      /\ FlattenSeq(Redistribute(packed)) = FlattenSeq(packed)
  BY <1>2, <1>3, <1>5, RedistributeFits
<1> HIDE DEF C, F
<1>7. Redistribute(packed) \in Seq(F)
  BY <1>4, <1>6, SeqMonotonic
<1> QED
  BY <1>5, <1>6, <1>7 DEF PackedGroup, packed, budget, F

LEMMA AllPackedFits ==
    ASSUME NEW W, NEW I, NEW ss \in Seq(SectionSet(W, I)), RoomForPaths(ss)
    PROVE  /\ AllPacked(ss) \in Seq(FitChunks(ss, I))
           /\ Held(AllPacked(ss)) = UNION {Range(UnitsOf(ss, i)) : i \in DOMAIN ss}
<1> DEFINE G == GroupSet(ss, W, I)
           F == FitChunks(ss, I)
           groups == Groups(ss)
           packs == [i \in DOMAIN groups |-> PackedGroup(ss, groups[i])]
<1>1. AllPacked(ss) = FlattenSeq(packs)
  BY DEF AllPacked, PackedGroup
<1>2. groups \in Seq(G) /\ Grouped(groups) = UNION {Range(UnitsOf(ss, i)) : i \in DOMAIN ss}
  BY GroupsFit
<1> HIDE DEF groups
<1>3. PICK n \in Nat : n = Len(groups)
  BY <1>2
<1>4. DOMAIN groups = 1..n /\ \A i \in 1..n : groups[i] \in G
  <2> HIDE DEF G
  <2> QED
    BY <1>2, <1>3, LenProperties, ElementOfSeq
<1>5. \A i \in 1..n : /\ PackedGroup(ss, groups[i]) \in Seq(F)
                     /\ Held(PackedGroup(ss, groups[i])) = Range(groups[i].units)
  BY <1>4, PackedGroupFits
<1> HIDE DEF F, G
<1>6. packs \in [1..n -> Seq(F)] /\ \A i \in 1..n : packs[i] = PackedGroup(ss, groups[i])
  BY <1>4, <1>5
<1>10. DOMAIN packs = 1..n
  BY <1>6
<1> HIDE DEF packs
<1>11. packs \in Seq(Seq(F))
  BY <1>6
<1>7. FlattenSeq(packs) \in Seq(F)
  BY <1>11, FlattenType
<1>8. Held(FlattenSeq(packs)) = UNION {Held(packs[i]) : i \in 1..n}
  BY <1>10, <1>11, HeldFlatten
<1>9. Grouped(groups) = UNION {Held(packs[i]) : i \in 1..n}
  BY <1>4, <1>5, <1>6 DEF Grouped
<1> QED
  BY <1>1, <1>2, <1>7, <1>8, <1>9 DEF F

-----------------------------------------------------------------------------
(***************************************************************************)
(* The rescue of small chunks.                                             *)
(***************************************************************************)

LEMMA HeldConcat ==
    ASSUME NEW C, NEW s \in Seq(C), NEW t \in Seq(C)
    PROVE  Held(s \o t) = Held(s) \cup Held(t)
<1>1. \A chunks : Held(chunks) = UNION {Range(c) : c \in Range(chunks)}
  BY DEF Held, Range
<1>2. Range(s \o t) = Range(s) \cup Range(t)
  BY RangeConcat
<1> QED
  BY <1>1, <1>2

LEMMA Concatenated ==
    ASSUME NEW C, NEW s \in Seq(C), NEW t \in Seq(C)
    PROVE  s \o t \in Seq(C) /\ Held(s \o t) = Held(s) \cup Held(t)
<1>1. s \o t \in Seq(C)
  BY ConcatProperties
<1> QED
  BY <1>1, HeldConcat

LEMMA ConcatenatedLength ==
    ASSUME NEW C, NEW s \in Seq(C), NEW t \in Seq(C)
    PROVE  Len(s \o t) = Len(s) + Len(t)
BY ConcatProperties

LEMMA HeldOne ==
    ASSUME NEW c
    PROVE  Held(<<c>>) = Range(c)
<1>1. Held(<<c>>) = UNION {Range(x) : x \in Range(<<c>>)}
  BY DEF Held, Range
<1> QED
  BY <1>1, RangeOne

MakesOne(F, a, b) == a \o b \in F /\ Range(a \o b) = Range(a) \cup Range(b)

LEMMA JoinFits ==
    ASSUME NEW ss, NEW I, NEW a \in FitChunks(ss, I), NEW b \in FitChunks(ss, I), CanJoin(ss, a, b)
    PROVE  MakesOne(FitChunks(ss, I), a, b)
<1> DEFINE U == FitUnits(ss, DOMAIN ss, I)
<1>1. a \in Seq(U) /\ b \in Seq(U) /\ a # <<>>
  <2> HIDE DEF U
  <2> QED
    BY DEF FitChunks, U
<1> HIDE DEF U
<1>2. a \o b \in Seq(U) /\ a \o b # <<>>
  BY <1>1, ConcatProperties, ConcatEqualIffEmpty
<1>3. TokenCount(ss, a \o b) <= TargetMax
  BY DEF CanJoin
<1>4. Range(a \o b) = Range(a) \cup Range(b)
  BY <1>1, RangeConcat
<1> QED
  BY <1>2, <1>3, <1>4 DEF FitChunks, U, MakesOne

\* Two neighbours and what is on both sides of them.
PartedAt(F, chunks, n, i, left, right) ==
    /\ left = SubSeq(chunks, 1, i - 1) /\ right = SubSeq(chunks, i + 2, n)
    /\ left \in Seq(F) /\ Len(left) = i - 1
    /\ right \in Seq(F) /\ Len(right) = n - i - 1
    /\ chunks = left \o (<<chunks[i]>> \o (<<chunks[i + 1]>> \o right))

LEMMA JoinedParts ==
    ASSUME NEW F, NEW chunks \in Seq(F), NEW n \in Nat, n = Len(chunks), NEW i \in 1..n - 1
    PROVE  \E left, right : PartedAt(F, chunks, n, i, left, right)
<1> DEFINE left == SubSeq(chunks, 1, i - 1)
           right == SubSeq(chunks, i + 2, n)
           a == chunks[i]
           b == chunks[i + 1]
<1>1. i \in 1..n /\ i + 1 \in 1..n /\ n \in i..n /\ n \in i + 1..n /\ i - 1 \in 0..n
  OBVIOUS
<1>2. left \in Seq(F) /\ Len(left) = i - 1
  <2>1. 1 \in Int /\ i - 1 \in Int /\ \A j \in 1..i - 1 : chunks[j] \in F
    BY <1>1, ElementOfSeq
  <2>2. left \in Seq(F) /\ Len(left) = IF 1 <= i - 1 THEN (i - 1) - 1 + 1 ELSE 0
    BY <2>1, SubSeqProperties
  <2> HIDE DEF left
  <2> QED
    BY <2>2
<1>3. right \in Seq(F) /\ Len(right) = n - i - 1
  <2>1. i + 2 \in Int /\ n \in Int /\ \A j \in i + 2..n : chunks[j] \in F
    BY <1>1, ElementOfSeq
  <2>2. right \in Seq(F) /\ Len(right) = IF i + 2 <= n THEN n - (i + 2) + 1 ELSE 0
    BY <2>1, SubSeqProperties
  <2> HIDE DEF right
  <2> QED
    BY <2>2
<1>4. chunks = left \o (<<a>> \o (<<b>> \o right))
  <2>1. SubSeq(chunks, 1, i - 1) \o SubSeq(chunks, (i - 1) + 1, n) = SubSeq(chunks, 1, n)
    <3>1. 1 \in 1..Len(chunks) + 1 /\ i - 1 \in 1 - 1..Len(chunks) /\ n \in i - 1..Len(chunks)
      BY <1>1
    <3> QED
      BY <3>1, ConcatAdjacentSubSeq
  <2>2. SubSeq(chunks, 1, n) = chunks
    BY SubSeqFull
  <2>3. SubSeq(chunks, i, n) = <<chunks[i]>> \o SubSeq(chunks, i + 1, n)
    BY <1>1, SubSeqRecursiveFirst
  <2>4. SubSeq(chunks, i + 1, n) = <<chunks[i + 1]>> \o SubSeq(chunks, (i + 1) + 1, n)
    BY <1>1, SubSeqRecursiveFirst
  <2>5. (i - 1) + 1 = i /\ (i + 1) + 1 = i + 2
    OBVIOUS
  <2> QED
    BY <2>1, <2>2, <2>3, <2>4, <2>5
<1>5. left = SubSeq(chunks, 1, i - 1) /\ right = SubSeq(chunks, i + 2, n)
  OBVIOUS
<1> HIDE DEF left, right
<1>6. PartedAt(F, chunks, n, i, left, right)
  BY <1>2, <1>3, <1>4, <1>5 DEF PartedAt
<1> QED
  BY <1>6

LEMMA JoinedFits ==
    ASSUME NEW F, NEW chunks \in Seq(F), NEW n \in Nat, n = Len(chunks),
           NEW i \in 1..n - 1, MakesOne(F, chunks[i], chunks[i + 1])
    PROVE  /\ Joined(chunks, i) \in Seq(F) /\ Len(Joined(chunks, i)) = n - 1
           /\ Held(Joined(chunks, i)) = Held(chunks)
<1> DEFINE a == chunks[i]
           b == chunks[i + 1]
<1>1. i \in 1..n /\ i + 1 \in 1..n /\ n \in i..n /\ n \in i + 1..n /\ i - 1 \in 0..n
  OBVIOUS
<1>2. a \in F /\ b \in F
  BY <1>1, ElementOfSeq
<1>3. PICK left, right : PartedAt(F, chunks, n, i, left, right)
  BY JoinedParts
<1>4. left \in Seq(F) /\ Len(left) = i - 1 /\ right \in Seq(F) /\ Len(right) = n - i - 1
  BY <1>3 DEF PartedAt
<1>5. chunks = left \o (<<a>> \o (<<b>> \o right))
  BY <1>3 DEF PartedAt
<1>6. Joined(chunks, i) = left \o <<a \o b>> \o right
  BY <1>3 DEF Joined, PartedAt
<1> HIDE DEF a, b
<1>7. a \o b \in F /\ Range(a \o b) = Range(a) \cup Range(b)
  BY DEF a, b, MakesOne
<1> DEFINE ab == a \o b
           oneA == <<a>>
           oneB == <<b>>
           oneAB == <<ab>>
<1> HIDE DEF ab
<1>8. oneAB \in Seq(F) /\ Len(oneAB) = 1 /\ oneA \in Seq(F) /\ oneB \in Seq(F)
  BY <1>2, <1>7 DEF ab
<1>9. Held(oneA) = Range(a) /\ Held(oneB) = Range(b) /\ Held(oneAB) = Range(ab)
  BY HeldOne
<1> HIDE DEF oneA, oneB, oneAB
<1> DEFINE most == left \o oneAB
           br == oneB \o right
           abr == oneA \o br
<1>10. most \in Seq(F) /\ Held(most) = Held(left) \cup Held(oneAB)
  BY <1>4, <1>8, Concatenated
<1>17. Len(most) = i
  <2>1. Len(most) = Len(left) + Len(oneAB)
    BY <1>4, <1>8, ConcatenatedLength
  <2> QED
    BY <1>4, <1>8, <2>1
<1> HIDE DEF most
<1>11. most \o right \in Seq(F) /\ Held(most \o right) = Held(most) \cup Held(right)
  BY <1>4, <1>10, Concatenated
<1>12. br \in Seq(F) /\ Held(br) = Held(oneB) \cup Held(right)
  BY <1>4, <1>8, Concatenated
<1> HIDE DEF br
<1>13. abr \in Seq(F) /\ Held(abr) = Held(oneA) \cup Held(br)
  BY <1>8, <1>12, Concatenated
<1> HIDE DEF abr
<1>14. Held(left \o abr) = Held(left) \cup Held(abr)
  BY <1>4, <1>13, Concatenated
<1>15. Joined(chunks, i) = most \o right /\ chunks = left \o abr
  BY <1>5, <1>6 DEF most, ab, br, abr, oneA, oneB, oneAB
<1>16. Len(most \o right) = n - 1
  <2>1. Len(most \o right) = Len(most) + Len(right)
    BY <1>4, <1>10, ConcatenatedLength
  <2> QED
    BY <1>4, <1>17, <2>1
<1>18. Held(most \o right) = Held(chunks)
  <2>1. Held(chunks) = Held(left) \cup Range(a) \cup Range(b) \cup Held(right)
    BY <1>9, <1>12, <1>13, <1>14, <1>15
  <2>2. Held(most \o right) = Held(left) \cup Range(ab) \cup Held(right)
    BY <1>9, <1>10, <1>11
  <2>3. Range(ab) = Range(a) \cup Range(b)
    BY <1>7 DEF ab
  <2> QED
    BY <2>1, <2>2, <2>3
<1> QED
  BY <1>11, <1>15, <1>16, <1>18

Loops(F) == [chunks : Seq(F), at : Nat \ {0}]

\* What is left to do: it gets less with every pass until the last chunk has
\* been looked at.
Left(s) == 2 * Len(s.chunks) - s.at

LEMMA RescueStepFits ==
    ASSUME NEW ss, NEW I, NEW s \in Loops(FitChunks(ss, I))
    PROVE  /\ RescueStep(ss, s) \in Loops(FitChunks(ss, I))
           /\ Held(RescueStep(ss, s).chunks) = Held(s.chunks)
           /\ IF s.at > Len(s.chunks) THEN RescueStep(ss, s) = s
              ELSE Left(RescueStep(ss, s)) < Left(s)
<1> DEFINE F == FitChunks(ss, I)
           chunks == s.chunks
           i == s.at
           Goes == /\ RescueStep(ss, s) \in Loops(F)
                   /\ Held(RescueStep(ss, s).chunks) = Held(chunks)
                   /\ Left(RescueStep(ss, s)) < Left(s)
<1>1. chunks \in Seq(F) /\ i \in Nat \ {0}
  <2> HIDE DEF F
  <2> QED
    BY DEF Loops, F
<1>3. PICK n \in Nat : n = Len(chunks)
  BY <1>1
<1>4. s \in Loops(F)
  OBVIOUS
<1>5. \A a, b \in F : CanJoin(ss, a, b) => MakesOne(F, a, b)
  BY JoinFits
<1>6. \A j \in 1..n : chunks[j] \in F
  <2> HIDE DEF F
  <2> QED
    BY <1>1, <1>3, ElementOfSeq
<1> HIDE DEF F
<1>7. ASSUME NEW j \in 1..n - 1, CanJoin(ss, chunks[j], chunks[j + 1])
      PROVE  /\ Joined(chunks, j) \in Seq(F) /\ Len(Joined(chunks, j)) = n - 1
             /\ Held(Joined(chunks, j)) = Held(chunks)
  <2>1. j \in 1..n /\ j + 1 \in 1..n
    OBVIOUS
  <2>2. MakesOne(F, chunks[j], chunks[j + 1])
    BY <1>5, <1>6, <1>7, <2>1
  <2> HIDE DEF chunks
  <2>3. n \in Nat /\ n = Len(chunks)
    BY <1>3
  <2>4. chunks \in Seq(F)
    BY <1>1
  <2> HIDE DEF i
  <2> QED
    BY <2>2, <2>3, <2>4, JoinedFits
<1>8. CASE i > n
  <2>1. RescueStep(ss, s) = s
    BY <1>3, <1>8 DEF RescueStep
  <2> QED
    BY <1>3, <1>4, <1>8, <2>1 DEF F
<1>9. ASSUME i <= n, RescueStep(ss, s) = [s EXCEPT !.at = i + 1]
      PROVE  Goes
  <2> DEFINE t == [s EXCEPT !.at = i + 1]
  <2>1. t \in Loops(F) /\ t.chunks = s.chunks /\ t.at = i + 1
    <3>1. i + 1 \in Nat \ {0}
      BY <1>1
    <3> QED
      BY <1>4, <3>1 DEF Loops
  <2> HIDE DEF t
  <2>2. Left(t) = 2 * n - (i + 1) /\ Left(s) = 2 * n - i
    BY <1>3, <2>1 DEF Left
  <2>3. Left(t) < Left(s)
    BY <1>1, <1>3, <2>2
  <2> QED
    BY <1>9, <2>1, <2>3 DEF t
<1>10. ASSUME NEW j \in 1..n - 1, CanJoin(ss, chunks[j], chunks[j + 1]), NEW at \in {i - 1, i}, at # 0,
              RescueStep(ss, s) = [chunks |-> Joined(chunks, j), at |-> at]
       PROVE  Goes
  <2> DEFINE joined == Joined(chunks, j)
             t == [chunks |-> joined, at |-> at]
  <2>1. joined \in Seq(F) /\ Len(joined) = n - 1 /\ Held(joined) = Held(chunks)
    BY <1>7, <1>10
  <2> HIDE DEF joined
  <2>2. at \in Nat \ {0} /\ at >= i - 1
    BY <1>1, <1>10
  <2>3. t \in Loops(F) /\ t.chunks = joined /\ t.at = at
    BY <2>1, <2>2 DEF Loops
  <2> HIDE DEF t
  <2>4. Left(t) = 2 * (n - 1) - at /\ Left(s) = 2 * n - i
    BY <1>3, <2>1, <2>3 DEF Left
  <2>5. Left(t) < Left(s)
    BY <1>1, <1>3, <2>2, <2>4
  <2>6. RescueStep(ss, s) = t
    BY <1>10 DEF t, joined
  <2> QED
    BY <2>1, <2>3, <2>5, <2>6
<1>11. CASE i <= n
  <2> DEFINE prev == i > 1 /\ CanJoin(ss, chunks[i - 1], chunks[i])
             next == i < Len(chunks) /\ CanJoin(ss, chunks[i], chunks[i + 1])
  <2>1. RescueStep(ss, s) = IF ~Small(chunks[i]) THEN [s EXCEPT !.at = i + 1]
                            ELSE IF prev THEN [chunks |-> Joined(chunks, i - 1), at |-> i - 1]
                            ELSE IF next THEN [chunks |-> Joined(chunks, i), at |-> i]
                            ELSE [s EXCEPT !.at = i + 1]
    <3>1. ~(i > Len(chunks))
      BY <1>1, <1>3, <1>11
    <3> QED
      BY <3>1 DEF RescueStep, AfterNext
  <2>2. ASSUME RescueStep(ss, s) = [s EXCEPT !.at = i + 1] PROVE Goes
    <3> HIDE DEF Goes
    <3> QED
      BY <1>9, <1>11, <2>2
  <2>3. ASSUME Small(chunks[i]), prev PROVE Goes
    <3>1. i - 1 \in 1..n - 1 /\ (i - 1) + 1 = i /\ i - 1 \in {i - 1, i} /\ i - 1 # 0
      BY <1>1, <1>3, <1>11, <2>3
    <3>2. RescueStep(ss, s) = [chunks |-> Joined(chunks, i - 1), at |-> i - 1]
      BY <2>1, <2>3
    <3>3. CanJoin(ss, chunks[i - 1], chunks[(i - 1) + 1])
      BY <2>3, <3>1
    <3> HIDE DEF chunks, i, Goes
    <3> QED
      BY <1>10, <3>1, <3>2, <3>3
  <2>4. ASSUME Small(chunks[i]), ~prev, next PROVE Goes
    <3>1. i \in 1..n - 1 /\ i \in {i - 1, i} /\ i # 0
      BY <1>1, <1>3, <1>11, <2>4
    <3>2. RescueStep(ss, s) = [chunks |-> Joined(chunks, i), at |-> i]
      BY <2>1, <2>4
    <3>3. CanJoin(ss, chunks[i], chunks[i + 1])
      BY <2>4
    <3> HIDE DEF chunks, i, Goes
    <3> QED
      BY <1>10, <3>1, <3>2, <3>3
  <2>5. Goes
    <3> HIDE DEF prev, next, Goes
    <3>1. \/ RescueStep(ss, s) = [s EXCEPT !.at = i + 1]
          \/ Small(chunks[i]) /\ prev
          \/ Small(chunks[i]) /\ ~prev /\ next
      BY <2>1
    <3> QED
      BY <2>2, <2>3, <2>4, <3>1
  <2>6. ~(s.at > Len(s.chunks))
    BY <1>1, <1>3, <1>11
  <2> QED
    BY <2>5, <2>6 DEF F
<1> QED
  <2>1. i > n \/ i <= n
    BY <1>1, <1>3
  <2> QED
    BY <1>8, <1>11, <2>1

\* The loop as the passes of Rescue, and that it has ended by the last of them.
RescueRun(ss, packed, loop, n) ==
    /\ loop[0] = [chunks |-> packed, at |-> 1]
    /\ \A k \in 1..2 * n : loop[k] = RescueStep(ss, loop[k - 1])

\* The rescue of chunk_document, a while loop that joins and may look at a chunk
\* again, is over after at most two passes for every chunk it was given; what it
\* leaves fits and holds what it was given.
THEOREM RescueEnds ==
    ASSUME NEW ss, NEW I, NEW packed \in Seq(FitChunks(ss, I)), NEW n \in Nat, n = Len(packed)
    PROVE  \E loop : /\ RescueRun(ss, packed, loop, n)
                     /\ Rescue(ss, packed) = loop[2 * n].chunks
                     /\ loop[2 * n].at > Len(loop[2 * n].chunks)
                     /\ loop[2 * n].chunks \in Seq(FitChunks(ss, I))
                     /\ Held(loop[2 * n].chunks) = Held(packed)
<1> DEFINE S == Loops(FitChunks(ss, I))
           base == [chunks |-> packed, at |-> 1]
           m == 2 * n
           Eq(g) == g = [k \in 0..m |-> IF k = 0 THEN base ELSE RescueStep(ss, g[k - 1])]
           step == [p \in (1..m) \X S |-> RescueStep(ss, p[2])]
<1>1. m \in Nat
  OBVIOUS
<1>2. base \in S /\ base.chunks = packed /\ base.at = 1
  BY DEF Loops
<1> HIDE DEF base, m
<1>3. \A s \in S : RescueStep(ss, s) \in S
  BY RescueStepFits
<1> HIDE DEF S
<1>4. step \in [(1..m) \X S -> S]
  BY <1>3
<1>5. \E f \in [0..m -> S] : Recurses(f, m, base, step)
  <2> HIDE DEF step
  <2> QED
    BY <1>1, <1>2, <1>4, Recursion
<1>6. PICK f \in [0..m -> S] : Recurses(f, m, base, step)
  BY <1>5
<1>7. Eq(f)
  <2>1. f[0] = base
    BY <1>6 DEF Recurses
  <2>2. ASSUME NEW i \in 1..m PROVE f[i] = RescueStep(ss, f[i - 1])
    <3>1. i - 1 \in 0..m
      BY <1>1
    <3>2. f[i - 1] \in S
      BY <3>1
    <3>3. f[i] = step[<<i, f[i - 1]>>]
      BY <1>6 DEF Recurses
    <3> QED
      BY <3>2, <3>3
  <2> HIDE DEF step
  <2>3. ASSUME NEW i \in 0..m
        PROVE  f[i] = IF i = 0 THEN base ELSE RescueStep(ss, f[i - 1])
    <3>1. CASE i = 0
      BY <2>1, <3>1
    <3>2. CASE i # 0
      <4>1. i \in 1..m
        BY <1>1, <3>2
      <4> QED
        BY <2>2, <3>2, <4>1
    <3> QED
      BY <3>1, <3>2
  <2> QED
    BY <2>3
<1> HIDE DEF step
<1>8. PICK h : h = (CHOOSE x : Eq(x))
  OBVIOUS
<1>9. Eq(h)
  <2> HIDE DEF Eq
  <2> QED
    BY <1>7, <1>8
<1>10. Rescue(ss, packed) = h[m].chunks
  BY <1>8 DEF Rescue, base, m
<1>11. h[0] = base /\ \A i \in 1..m : h[i] = RescueStep(ss, h[i - 1])
  <2>1. \A i \in 0..m : h[i] = IF i = 0 THEN base ELSE RescueStep(ss, h[i - 1])
    BY <1>9
  <2> HIDE DEF Eq
  <2> QED
    BY <1>1, <2>1
<1> HIDE DEF Eq
<1> DEFINE Over(s) == s.at > Len(s.chunks)
           G == {i \in Nat : /\ h[i] \in S /\ Held(h[i].chunks) = Held(packed)
                             /\ Over(h[i]) \/ Left(h[i]) <= m - 1 - i}
<1>12. 0 \in G
  <2>1. Left(base) = m - 1
    BY <1>2 DEF Left, m
  <2>2. Left(base) <= m - 1 - 0
    BY <1>1, <2>1
  <2> QED
    BY <1>2, <1>11, <2>2
<1>13. \A s \in S : Len(s.chunks) \in Nat /\ s.at \in Nat /\ Left(s) \in Int
  <2> SUFFICES ASSUME NEW s \in S PROVE Len(s.chunks) \in Nat /\ s.at \in Nat /\ Left(s) \in Int
    OBVIOUS
  <2>1. s.chunks \in Seq(FitChunks(ss, I)) /\ s.at \in Nat
    BY DEF S, Loops
  <2>2. Len(s.chunks) \in Nat
    BY <2>1, LenProperties
  <2> QED
    BY <2>1, <2>2 DEF Left
<1>14. ASSUME NEW i \in 1..m, i - 1 \in G PROVE i \in G
  <2>1. /\ h[i - 1] \in S /\ Held(h[i - 1].chunks) = Held(packed)
        /\ Over(h[i - 1]) \/ Left(h[i - 1]) <= m - 1 - (i - 1)
    BY <1>14
  <2>2. h[i] = RescueStep(ss, h[i - 1])
    BY <1>11
  <2>3. /\ h[i] \in S /\ Held(h[i].chunks) = Held(h[i - 1].chunks)
        /\ IF Over(h[i - 1]) THEN h[i] = h[i - 1] ELSE Left(h[i]) < Left(h[i - 1])
    BY <2>1, <2>2, RescueStepFits DEF S
  <2>4. Left(h[i]) \in Int /\ Left(h[i - 1]) \in Int
    BY <1>13, <2>1, <2>3
  <2>5. Over(h[i]) \/ Left(h[i]) <= m - 1 - i
    <3>1. CASE Over(h[i - 1])
      <4> HIDE DEF Over
      <4> QED
        BY <2>3, <3>1
    <3>2. CASE ~Over(h[i - 1])
      <4>1. Left(h[i]) < Left(h[i - 1]) /\ Left(h[i - 1]) <= m - 1 - (i - 1)
        BY <2>1, <2>3, <3>2
      <4>2. Left(h[i]) <= m - 1 - i
        BY <1>1, <2>4, <4>1
      <4> QED
        BY <4>2
    <3> QED
      BY <3>1, <3>2
  <2>6. i \in Nat
    BY <1>1
  <2> QED
    BY <2>1, <2>3, <2>5, <2>6
<1>15. m \in G
  <2> HIDE DEF G
  <2>1. \A i \in 0..m : i \in G
    <3>1. 0 \in G /\ \A i \in 1..m : i - 1 \in G => i \in G
      BY <1>12, <1>14
    <3> QED
      BY <1>1, <3>1, UptoInduction
  <2>2. m \in 0..m
    BY <1>1
  <2> QED
    BY <2>1, <2>2
<1>16. h[m].chunks \in Seq(FitChunks(ss, I)) /\ Held(h[m].chunks) = Held(packed)
  BY <1>15 DEF S, Loops
<1>17. h[m].at > Len(h[m].chunks)
  <2>1. CASE Over(h[m])
    BY <2>1
  <2>2. CASE Left(h[m]) <= m - 1 - m
    <3>1. h[m] \in S
      BY <1>15
    <3>2. Len(h[m].chunks) \in Nat /\ h[m].at \in Nat
      BY <1>13, <3>1
    <3>3. 2 * Len(h[m].chunks) - h[m].at <= m - 1 - m
      BY <2>2 DEF Left
    <3> QED
      BY <1>1, <3>2, <3>3
  <2> QED
    BY <1>15, <2>1, <2>2
<1>18. RescueRun(ss, packed, h, n)
  BY <1>11 DEF RescueRun, base, m
<1> QED
  BY <1>10, <1>16, <1>17, <1>18 DEF m

\* The units of the chunks of a document.
UnitsIn(chunks) == UNION {Range(chunks[i].units) : i \in DOMAIN chunks}

\* chunk_document: every chunk fits as it is rendered, and the chunks hold the
\* units of all sections and no others.
LEMMA ChunkDocumentFits ==
    ASSUME NEW W, NEW I, NEW ss \in Seq(SectionSet(W, I)), RoomForPaths(ss)
    PROVE  /\ ChunkDocument(ss) \in Seq([path : {SectionPath(ss, c) : c \in FitChunks(ss, I)},
                                         units : FitChunks(ss, I)])
           /\ UnitsIn(ChunkDocument(ss)) = UNION {Range(UnitsOf(ss, i)) : i \in DOMAIN ss}
<1> DEFINE F == FitChunks(ss, I)
           all == AllPacked(ss)
           packed == Rescue(ss, all)
           Row(c) == [path |-> SectionPath(ss, c), units |-> c]
           D == [path : {SectionPath(ss, c) : c \in F}, units : F]
           chunks == [i \in DOMAIN packed |-> Row(packed[i])]
<1>1. ChunkDocument(ss) = chunks
  BY DEF ChunkDocument
<1>2. all \in Seq(F) /\ Held(all) = UNION {Range(UnitsOf(ss, i)) : i \in DOMAIN ss}
  BY AllPackedFits
<1> HIDE DEF F, all
<1>3. packed \in Seq(F) /\ Held(packed) = Held(all)
  <2>1. PICK n \in Nat : n = Len(all)
    BY <1>2
  <2> QED
    BY <1>2, <2>1, RescueEnds DEF F
<1> HIDE DEF packed
<1>4. PICK n \in Nat : n = Len(packed)
  BY <1>3
<1>5. DOMAIN packed = 1..n /\ \A i \in 1..n : packed[i] \in F
  BY <1>3, <1>4, LenProperties, ElementOfSeq
<1>6. \A c \in F : Row(c) \in D /\ Row(c).units = c
  OBVIOUS
<1> HIDE DEF Row, D
<1>7. chunks \in [1..n -> D] /\ \A i \in 1..n : chunks[i].units = packed[i]
  BY <1>5, <1>6
<1>8. DOMAIN chunks = 1..n
  BY <1>5
<1> HIDE DEF chunks
<1>9. chunks \in Seq(D)
  BY <1>7
<1>10. UnitsIn(chunks) = Held(packed)
  BY <1>5, <1>7, <1>8 DEF Held, UnitsIn
<1> QED
  BY <1>1, <1>2, <1>3, <1>9, <1>10 DEF D, F

-----------------------------------------------------------------------------
(***************************************************************************)
(* Batches.                                                                *)
(***************************************************************************)

\* Batch b of texts ts, and its last text.
BatchEnd(ts, b) == IF b * BatchSize < Len(ts) THEN b * BatchSize ELSE Len(ts)
BatchOf(ts, b) == SubSeq(ts, (b - 1) * BatchSize + 1, BatchEnd(ts, b))

\* The texts before a batch end where it starts, the first batch is not empty of
\* texts when there are any, and the last one ends with them.
LEMMA BatchBorders ==
    ASSUME NEW n \in Nat, NEW c, c = (n + BatchSize - 1) \div BatchSize
    PROVE  /\ c \in Nat
           /\ c = 0 <=> n = 0
           /\ c * BatchSize >= n
           /\ \A b \in 1..c : (b - 1) * BatchSize < n
<1> USE EmbedAssumption
<1>1. BatchSize \in Nat \ {0}
  OBVIOUS
<1>2. PICK s \in Nat \ {0} : s = BatchSize
  BY <1>1
<1>3. n + s - 1 \in Nat
  BY <1>2
<1>4. c \in Nat /\ s * c <= n + s - 1 /\ n + s - 1 < s * c + s
  BY <1>2, <1>3, Quotient
<1>5. c * s = s * c
  BY <1>2, <1>4
<1>6. c * s >= n
  BY <1>2, <1>4, <1>5
<1>7. c = 0 => n = 0
  BY <1>6
<1>8. n = 0 => c = 0
  <2> SUFFICES ASSUME n = 0, c # 0 PROVE FALSE
    OBVIOUS
  <2>1. s * c >= s
    BY <1>2, <1>4
  <2> QED
    BY <1>2, <1>4, <2>1
<1>9. ASSUME NEW b \in 1..c PROVE (b - 1) * s < n
  <2>1. (b - 1) * s <= (c - 1) * s
    <3>1. PICK d \in Nat : d = c - b
      BY <1>4
    <3>2. (c - 1) * s = (b - 1) * s + d * s
      BY <1>2, <1>4, <3>1
    <3>3. d * s \in Nat
      BY <1>2
    <3> QED
      BY <1>2, <1>4, <3>2, <3>3
  <2>2. (c - 1) * s = s * c - s
    BY <1>2, <1>4
  <2>3. s * c - s < n
    BY <1>2, <1>4
  <2>4. (b - 1) * s \in Int
    BY <1>2, <1>4
  <2> QED
    BY <1>2, <1>4, <2>1, <2>2, <2>3, <2>4
<1> QED
  BY <1>2, <1>4, <1>6, <1>7, <1>8, <1>9

\* The batches in their order are the texts, whatever the size of the last one.
LEMMA BatchesMakeAll ==
    ASSUME NEW T, NEW ts \in Seq(T), NEW c, c = BatchCount(ts),
           NEW batches, batches = [b \in 1..c |-> BatchOf(ts, b)]
    PROVE  /\ c \in Nat
           /\ batches \in [1..c -> Seq(T)]
           /\ FlattenSeq(batches) = ts
<1> USE EmbedAssumption
<1>1. PICK n \in Nat : n = Len(ts)
  OBVIOUS
<1>2. PICK s \in Nat \ {0} : s = BatchSize
  OBVIOUS
<1>3. /\ c \in Nat /\ (c = 0 <=> n = 0) /\ c * s >= n
      /\ \A b \in 1..c : (b - 1) * s < n
  <2>1. c = (n + BatchSize - 1) \div BatchSize
    BY <1>1 DEF BatchCount
  <2> QED
    BY <1>2, <2>1, BatchBorders
<1> DEFINE End(b) == IF b * s < n THEN b * s ELSE n
<1>4. \A b \in 1..c : BatchOf(ts, b) = SubSeq(ts, (b - 1) * s + 1, End(b))
  BY <1>1, <1>2 DEF BatchOf, BatchEnd
<1>5. ASSUME NEW b \in 1..c PROVE (b - 1) * s \in 0..n - 1 /\ End(b) \in (b - 1) * s..n /\ End(b) \in Nat
  <2>1. (b - 1) * s \in Nat /\ b * s \in Nat
    BY <1>2, <1>3
  <2>2. b * s = (b - 1) * s + s
    BY <1>2, <1>3
  <2>3. (b - 1) * s < n
    BY <1>3
  <2> QED
    BY <1>1, <1>2, <2>1, <2>2, <2>3
<1> HIDE DEF End
<1>6. ASSUME NEW b \in 1..c PROVE BatchOf(ts, b) \in Seq(T)
  <2>1. \A i \in (b - 1) * s + 1..End(b) : ts[i] \in T
    <3>1. \A i \in (b - 1) * s + 1..End(b) : i \in 1..n
      <4>1. PICK low \in Nat : low = (b - 1) * s
        BY <1>5
      <4>2. PICK high \in Nat : high = End(b) /\ high <= n
        BY <1>1, <1>5
      <4>3. \A i \in low + 1..high : i \in 1..n
        BY <1>1, <4>2
      <4> QED
        BY <4>1, <4>2, <4>3
    <3>2. \A i \in 1..n : ts[i] \in T
      BY <1>1
    <3> QED
      BY <3>1, <3>2
  <2>2. (b - 1) * s + 1 \in Int /\ End(b) \in Int
    BY <1>5
  <2>3. SubSeq(ts, (b - 1) * s + 1, End(b)) \in Seq(T)
    BY <2>1, <2>2, SubSeqProperties
  <2> QED
    BY <1>4, <2>3
<1>7. batches \in [1..c -> Seq(T)] /\ \A b \in 1..c : batches[b] = BatchOf(ts, b)
  BY <1>6
<1>8. batches \in Seq(Seq(T)) /\ Len(batches) = c
  <2>1. c \in Nat /\ batches \in [1..c -> Seq(T)]
    BY <1>3, <1>7
  <2> DEFINE Texts == Seq(T)
  <2>2. batches \in [1..c -> Texts]
    BY <2>1
  <2> HIDE DEF Texts
  <2>3. batches \in Seq(Texts) /\ Len(batches) = c
    BY <2>1, <2>2, SMTT(60)
  <2> QED
    BY <2>3 DEF Texts
<1>9. CASE c = 0
  <2>1. FlattenSeq(batches) = batches
    BY <1>8, <1>9, FlattenNone
  <2>2. batches = <<>> /\ ts = <<>>
    BY <1>1, <1>3, <1>8, <1>9, EmptySeq
  <2> QED
    BY <1>3, <1>7, <2>1, <2>2
<1>10. CASE c # 0
  <2> DEFINE p == [b \in 1..c |-> SubSeq(ts, 1, End(b))]
  <2>1. p[1] = batches[1]
    <3>1. 1 \in 1..c /\ (1 - 1) * s + 1 = 1
      BY <1>2, <1>3, <1>10
    <3>2. batches[1] = SubSeq(ts, 1, End(1))
      BY <1>4, <1>7, <3>1
    <3> QED
      BY <3>1, <3>2
  <2>2. ASSUME NEW b \in 2..c PROVE p[b] = p[b - 1] \o batches[b]
    <3>1. b \in 1..c /\ b - 1 \in 1..c
      BY <1>3
    <3>2. End(b - 1) = (b - 1) * s
      <4>1. (b - 1) * s < n
        BY <1>3, <3>1
      <4> QED
        BY <4>1 DEF End
    <3>3. End(b - 1) \in 0..n /\ End(b) \in End(b - 1)..n
      BY <1>1, <1>5, <3>1, <3>2
    <3>4. SubSeq(ts, 1, End(b - 1)) \o SubSeq(ts, End(b - 1) + 1, End(b)) = SubSeq(ts, 1, End(b))
      <4>1. 1 \in 1..Len(ts) + 1 /\ End(b - 1) \in 1 - 1..Len(ts) /\ End(b) \in End(b - 1)..Len(ts)
        BY <1>1, <3>3
      <4> QED
        BY <4>1, ConcatAdjacentSubSeq
    <3>5. batches[b] = SubSeq(ts, End(b - 1) + 1, End(b))
      BY <1>4, <1>7, <3>1, <3>2
    <3> QED
      BY <3>1, <3>4, <3>5
  <2>3. PartsOf(p, batches, c)
    <3> HIDE DEF p
    <3> QED
      BY <2>1, <2>2 DEF PartsOf
  <2>4. FlattenSeq(batches) = p[c]
    <3> HIDE DEF p
    <3> QED
      BY <1>3, <1>8, <1>10, <2>3, FlattenUnique
  <2>5. End(c) = n
    <3>1. ~(c * s < n)
      <4>1. c * s \in Nat
        BY <1>2, <1>3
      <4> QED
        BY <1>1, <1>3, <4>1
    <3> QED
      BY <3>1 DEF End
  <2>6. p[c] = SubSeq(ts, 1, n)
    <3>1. c \in 1..c
      BY <1>3, <1>10
    <3> QED
      BY <2>5, <3>1
  <2>7. SubSeq(ts, 1, n) = ts
    BY <1>1, SubSeqFull
  <2> QED
    BY <1>3, <1>7, <2>4, <2>6, <2>7
<1> QED
  BY <1>9, <1>10

-----------------------------------------------------------------------------
(***************************************************************************)
(* embed_all.                                                              *)
(***************************************************************************)

TaskStates == {"waiting", "calling", "backoff", "answered", "raised"}

\* The tasks of a call are those of its batches, and one that answered has the
\* vectors of its own.
Batched(T, c) ==
    /\ task \in [1..c -> TaskStates]
    /\ answers \in [1..c -> Seq(T)]
    /\ \A b \in 1..c : task[b] = "answered" => answers[b] = BatchOf(texts, b)

EmbedInv(T) ==
    /\ texts \in Seq(T)
    /\ status = "idle" => texts = <<>> /\ task = <<>>
    /\ status # "idle" => /\ BatchCount(texts) <= MaxBatches
                          /\ Batched(T, BatchCount(texts))
    /\ status = "done" => vectors = texts

LEMMA BatchCountType ==
    ASSUME NEW T, NEW ts \in Seq(T)
    PROVE  BatchCount(ts) \in Nat
<1>1. Len(ts) \in Nat
  OBVIOUS
<1> QED
  BY <1>1, BatchBorders DEF BatchCount

LEMMA EmbedStarts ==
    ASSUME NEW T, NEW ts \in Seq(T), EmbedInv(T), EmbedAll(ts)
    PROVE  EmbedInv(T)' /\ Promise!Call
<1>1. PICK c \in Nat : c = BatchCount(ts)
  BY BatchCountType
<1>2. /\ status = "idle" /\ status' = "running" /\ texts' = ts /\ c <= MaxBatches
      /\ task' = [b \in 1..c |-> "waiting"] /\ answers' = [b \in 1..c |-> <<>>]
      /\ vectors' = vectors
  BY <1>1 DEF EmbedAll
<1>3. task' \in [1..c -> TaskStates] /\ \A b \in 1..c : task'[b] = "waiting"
  BY <1>2 DEF TaskStates
<1>4. answers' \in [1..c -> Seq(T)]
  <2>1. <<>> \in Seq(T)
    OBVIOUS
  <2> QED
    BY <1>2, <2>1
<1>5. Batched(T, c)'
  BY <1>3, <1>4 DEF Batched
<1>6. BatchCount(texts)' = c
  BY <1>1, <1>2 DEF BatchCount
<1>7. EmbedInv(T)'
  BY <1>2, <1>5, <1>6 DEF EmbedInv
<1> QED
  BY <1>2, <1>7 DEF Promise!Call

\* A task that moves, without an answer or with that of its batch.
Moves(c, b, to) ==
    /\ task' = [task EXCEPT ![b] = to]
    /\ \/ to # "answered" /\ answers' = answers
       \/ answers' = [answers EXCEPT ![b] = BatchOf(texts, b)]

LEMMA MovesKeeps ==
    ASSUME NEW T, NEW c \in Nat, c = BatchCount(texts), texts \in Seq(T), Batched(T, c),
           NEW b \in 1..c, NEW to \in TaskStates, Moves(c, b, to), texts' = texts
    PROVE  Batched(T, c)'
<1>1. task' \in [1..c -> TaskStates]
  BY DEF Moves, Batched
<1>2. BatchOf(texts, b) \in Seq(T)
  <2> DEFINE batches == [i \in 1..c |-> BatchOf(texts, i)]
  <2>1. batches \in [1..c -> Seq(T)]
    <3> HIDE DEF batches
    <3>1. batches = [i \in 1..c |-> BatchOf(texts, i)]
      BY DEF batches
    <3> QED
      BY <3>1, BatchesMakeAll
  <2> QED
    BY <2>1
<1>3. answers' \in [1..c -> Seq(T)]
  BY <1>2 DEF Moves, Batched
<1>4. ASSUME NEW i \in 1..c, task'[i] = "answered" PROVE answers'[i] = BatchOf(texts, i)
  <2>1. CASE i = b
    <3>1. task'[b] = to
      BY DEF Moves, Batched
    <3>2. answers' = [answers EXCEPT ![b] = BatchOf(texts, b)]
      BY <1>4, <2>1, <3>1 DEF Moves
    <3> QED
      BY <2>1, <3>2 DEF Batched
  <2>2. CASE i # b
    <3>1. task'[i] = task[i] /\ answers'[i] = answers[i]
      BY <2>2 DEF Moves, Batched
    <3> QED
      BY <1>4, <3>1 DEF Batched
  <2> QED
    BY <2>1, <2>2
<1>5. \A i \in 1..c : task'[i] = "answered" => answers'[i] = BatchOf(texts', i)
  BY <1>4
<1> QED
  BY <1>1, <1>3, <1>5 DEF Batched, BatchOf, BatchEnd

\* Every step of a task moves it.
LEMMA StepMoves ==
    ASSUME NEW c, NEW b, Step(b)
    PROVE  /\ UNCHANGED call
           /\ \E to \in TaskStates : Moves(c, b, to)
<1>1. CASE Acquire(b) \/ Retry(b)
  <2>1. Moves(c, b, "calling")
    BY <1>1 DEF Acquire, Retry, CallClient, MoveTo, Moves
  <2> QED
    BY <1>1, <2>1 DEF Acquire, Retry, CallClient, TaskStates
<1>2. CASE Answer(b)
  <2>1. Moves(c, b, "answered")
    BY <1>2 DEF Answer, MoveTo, Moves, Batch, BatchOf, BatchEnd
  <2> QED
    BY <1>2, <2>1 DEF Answer, TaskStates
<1>3. CASE Transient(b)
  <2>1. Moves(c, b, "raised") \/ Moves(c, b, "backoff")
    BY <1>3 DEF Transient, MoveTo, Moves
  <2> QED
    BY <1>3, <2>1 DEF Transient, TaskStates
<1>4. CASE Refuse(b)
  <2>1. Moves(c, b, "raised")
    BY <1>4 DEF Refuse, MoveTo, Moves
  <2> QED
    BY <1>4, <2>1 DEF Refuse, TaskStates
<1> QED
  BY <1>1, <1>2, <1>3, <1>4 DEF Step

\* gather returns when every batch has answered, and so with all the vectors.
LEMMA ReturnsAll ==
    ASSUME NEW T, EmbedInv(T), GatherReturns
    PROVE  vectors' = texts
<1>1. texts \in Seq(T) /\ status = "running" /\ Batched(T, BatchCount(texts))
  BY DEF EmbedInv, GatherReturns
<1>2. PICK c \in Nat : c = BatchCount(texts)
  BY <1>1, BatchCountType
<1>3. DOMAIN task = 1..c /\ answers \in [1..c -> Seq(T)]
  BY <1>1, <1>2 DEF Batched
<1>4. \A b \in 1..c : answers[b] = BatchOf(texts, b)
  BY <1>1, <1>2, <1>3 DEF Batched, GatherReturns
<1>5. answers = [b \in 1..c |-> BatchOf(texts, b)]
  BY <1>3, <1>4
<1>6. FlattenSeq(answers) = texts
  BY <1>1, <1>2, <1>5, BatchesMakeAll
<1> QED
  BY <1>6 DEF GatherReturns

LEMMA EmbedKeeps ==
    ASSUME NEW T, EmbedInv(T), EmbedNext
    PROVE  EmbedInv(T)' /\ (Promise!Raise \/ Promise!Return \/ UNCHANGED call)
<1>1. ASSUME NEW b \in DOMAIN task, Step(b)
      PROVE  EmbedInv(T)' /\ UNCHANGED call
  <2>1. status # "idle"
    <3>1. status = "idle" => DOMAIN task = {}
      BY DEF EmbedInv
    <3> QED
      BY <3>1
  <2>2. texts \in Seq(T) /\ Batched(T, BatchCount(texts)) /\ BatchCount(texts) <= MaxBatches
    BY <2>1 DEF EmbedInv
  <2>3. PICK c \in Nat : c = BatchCount(texts)
    BY <2>2, BatchCountType
  <2>4. b \in 1..c
    BY <2>2, <2>3 DEF Batched
  <2>5. UNCHANGED call /\ \E to \in TaskStates : Moves(c, b, to)
    BY <1>1, StepMoves
  <2>6. status' = status /\ texts' = texts /\ vectors' = vectors
    BY <2>5 DEF call
  <2>7. Batched(T, c)'
    BY <2>2, <2>3, <2>4, <2>5, <2>6, MovesKeeps
  <2>8. BatchCount(texts)' = c
    BY <2>3, <2>6 DEF BatchCount
  <2>9. EmbedInv(T)'
    BY <2>1, <2>2, <2>3, <2>6, <2>7, <2>8 DEF EmbedInv
  <2> QED
    BY <2>5, <2>9
<1>2. CASE GatherRaises
  <2>1. /\ status = "running" /\ status' = "raised" /\ texts' = texts /\ vectors' = vectors
        /\ task' = task /\ answers' = answers
    BY <1>2 DEF GatherRaises, tasks
  <2>2. EmbedInv(T)'
    BY <2>1 DEF EmbedInv, Batched, BatchCount, BatchOf, BatchEnd
  <2> QED
    BY <2>1, <2>2 DEF Promise!Raise
<1>3. CASE GatherReturns
  <2>1. /\ status = "running" /\ status' = "done" /\ texts' = texts
        /\ task' = task /\ answers' = answers
    BY <1>3 DEF GatherReturns, tasks
  <2>2. vectors' = texts
    BY <1>3, ReturnsAll
  <2>3. EmbedInv(T)'
    BY <2>1, <2>2 DEF EmbedInv, Batched, BatchCount, BatchOf, BatchEnd
  <2> QED
    BY <2>1, <2>2, <2>3 DEF Promise!Return
<1> QED
  BY <1>1, <1>2, <1>3 DEF EmbedNext, Gather

-----------------------------------------------------------------------------
(***************************************************************************)
(* The semaphore.                                                          *)
(***************************************************************************)

LEMMA InsideMoves ==
    ASSUME NEW b \in DOMAIN task, NEW to, task' = [task EXCEPT ![b] = to]
    PROVE  /\ Inside' = IF to \in {"calling", "backoff"} THEN Inside \cup {b} ELSE Inside \ {b}
           /\ b \in Inside <=> task[b] \in {"calling", "backoff"}
<1>1. DOMAIN task' = DOMAIN task /\ task'[b] = to /\ \A i \in DOMAIN task : i # b => task'[i] = task[i]
  OBVIOUS
<1> QED
  BY <1>1 DEF Inside

\* A task goes in through acquire alone, and goes out for good.
LEMMA StepPermitted ==
    ASSUME NEW b \in DOMAIN task, b \in 1..MaxBatches, Step(b)
    PROVE  Permits!Next
<1>1. CASE Acquire(b)
  <2>1. Inside' = Inside \cup {b} /\ b \notin Inside /\ Cardinality(Inside) < Concurrency
    BY <1>1, InsideMoves DEF Acquire, CallClient, MoveTo
  <2>2. b \in 1..MaxBatches \ Inside
    BY <2>1
  <2> QED
    BY <2>1, <2>2 DEF Permits!Next, Permits!Acquire, Permits!Cardinality, Cardinality
<1>2. CASE Retry(b)
  <2>1. Inside' = Inside
    BY <1>2, InsideMoves DEF Retry, CallClient, MoveTo
  <2>2. {} \in SUBSET Inside /\ Inside' = Inside \ {}
    BY <2>1
  <2> QED
    BY <2>2 DEF Permits!Next, Permits!Release
<1>3. ASSUME Inside' = Inside \ {b} \/ Inside' = Inside PROVE Permits!Next
  <2>1. \E over \in SUBSET Inside : Inside' = Inside \ over
    <3>1. Inside \cap {b} \in SUBSET Inside /\ Inside \ {b} = Inside \ (Inside \cap {b})
      OBVIOUS
    <3>2. {} \in SUBSET Inside /\ Inside \ {} = Inside
      OBVIOUS
    <3> QED
      BY <1>3, <3>1, <3>2
  <2> QED
    BY <2>1 DEF Permits!Next, Permits!Release
<1>4. CASE Answer(b)
  <2>1. Inside' = Inside \ {b}
    BY <1>4, InsideMoves DEF Answer, MoveTo
  <2> QED
    BY <1>3, <2>1
<1>5. CASE Refuse(b)
  <2>1. Inside' = Inside \ {b}
    BY <1>5, InsideMoves DEF Refuse, MoveTo
  <2> QED
    BY <1>3, <2>1
<1>6. CASE Transient(b)
  <2>1. task' = [task EXCEPT ![b] = IF attempt[b] = MaxAttempts THEN "raised" ELSE "backoff"]
        /\ task[b] = "calling"
    BY <1>6 DEF Transient, MoveTo
  <2>2. CASE attempt[b] = MaxAttempts
    <3>1. task' = [task EXCEPT ![b] = "raised"]
      BY <2>1, <2>2
    <3>2. Inside' = IF "raised" \in {"calling", "backoff"} THEN Inside \cup {b} ELSE Inside \ {b}
      BY <3>1, InsideMoves
    <3>3. Inside' = Inside \ {b}
      BY <3>2
    <3> QED
      BY <1>3, <3>3
  <2>3. CASE attempt[b] # MaxAttempts
    <3>1. Inside' = Inside \cup {b} /\ b \in Inside
      BY <2>1, <2>3, InsideMoves
    <3>2. Inside' = Inside
      BY <3>1
    <3> QED
      BY <1>3, <3>2
  <2> QED
    BY <2>2, <2>3
<1> QED
  BY <1>1, <1>2, <1>4, <1>5, <1>6 DEF Step

LEMMA EmbedPermitted ==
    ASSUME NEW T, EmbedInv(T), EmbedNext
    PROVE  Permits!Next \/ Inside' = Inside
<1>1. ASSUME NEW b \in DOMAIN task, Step(b) PROVE Permits!Next
  <2>1. status # "idle"
    <3>1. status = "idle" => DOMAIN task = {}
      BY DEF EmbedInv
    <3> QED
      BY <3>1
  <2>2. texts \in Seq(T) /\ Batched(T, BatchCount(texts)) /\ BatchCount(texts) <= MaxBatches
    BY <2>1 DEF EmbedInv
  <2>3. PICK c \in Nat : c = BatchCount(texts)
    BY <2>2, BatchCountType
  <2>4. b \in 1..c /\ c <= MaxBatches /\ MaxBatches \in Nat
    BY <2>2, <2>3, EmbedAssumption DEF Batched
  <2>5. b \in 1..MaxBatches
    BY <2>4
  <2> QED
    BY <1>1, <2>5, StepPermitted
<1>2. CASE Gather
  BY <1>2 DEF Gather, GatherRaises, GatherReturns, tasks, Inside
<1> QED
  BY <1>1, <1>2 DEF EmbedNext

-----------------------------------------------------------------------------
(***************************************************************************)
(* The pipeline.                                                           *)
(***************************************************************************)

AllChunks == UNION {Range(ChunkDocument(Sectioned(f))) : f \in Files}

\* How far the file is, by its stage.
Progress ==
    /\ file \in Files
    /\ stage \in {"load", "chunk", "embed", "stored", "failed"}
    /\ sections = IF stage = "load" THEN <<>> ELSE Sectioned(file)
    /\ stage \in {"load", "chunk"} <=> status = "idle"
    /\ status # "idle" => texts = ChunkDocument(sections)
    /\ IF stage = "stored" THEN /\ status = "done"
                                /\ rows = [i \in DOMAIN texts |-> [chunk |-> texts[i], embedding |-> vectors[i]]]
                           ELSE rows = <<>>

IInv == Progress /\ EmbedInv(AllChunks)

LEMMA ChunksTyped ==
    ASSUME NEW W, NEW I, Chunkable(W, I), NEW f \in Files
    PROVE  ChunkDocument(Sectioned(f)) \in Seq(AllChunks)
<1> DEFINE ts == ChunkDocument(Sectioned(f))
<1>1. Sectioned(f) \in Seq(SectionSet(W, I)) /\ RoomForPaths(Sectioned(f))
  BY DEF Chunkable
<1>2. \E D : ts \in Seq(D)
  BY <1>1, ChunkDocumentFits
<1>3. Range(ts) \subseteq AllChunks
  BY DEF AllChunks
<1> HIDE DEF ts
<1>4. ts \in Seq(Range(ts))
  <2>1. PICK D : ts \in Seq(D)
    BY <1>2
  <2>2. PICK n \in Nat : DOMAIN ts = 1..n /\ ts = [i \in 1..n |-> ts[i]]
    <3>1. Len(ts) \in Nat /\ DOMAIN ts = 1..Len(ts) /\ ts = [i \in 1..Len(ts) |-> ts[i]]
      BY <2>1
    <3> QED
      BY <3>1
  <2>3. ts \in [1..n -> Range(ts)]
    BY <2>2 DEF Range
  <2> QED
    BY <2>3
<1>5. ts \in Seq(AllChunks)
  <2>1. PICK n \in Nat : ts \in [1..n -> Range(ts)]
    BY <1>4
  <2>2. ts \in [1..n -> AllChunks]
    BY <1>3, <2>1
  <2> QED
    BY <2>2
<1> QED
  BY <1>5 DEF ts

LEMMA InitInv == Init => IInv
<1> SUFFICES ASSUME Init PROVE IInv
  OBVIOUS
<1>1. texts \in Seq(AllChunks)
  BY DEF Init, EmbedInit
<1>2. EmbedInv(AllChunks)
  BY <1>1 DEF Init, EmbedInit, EmbedInv
<1>3. Progress
  BY DEF Init, EmbedInit, Progress
<1> QED
  BY <1>2, <1>3 DEF IInv

\* What a step of the pipeline is to embed_all.
LEMMA NextKeeps ==
    ASSUME NEW W, NEW I, Chunkable(W, I), IInv, [Next]_vars
    PROVE  /\ IInv'
           /\ Promise!Next \/ UNCHANGED call
           /\ Permits!Next \/ Inside' = Inside
<1>1. CASE Load
  <2>1. UNCHANGED <<file, rows, embedVars>> /\ stage = "load" /\ stage' = "chunk"
        /\ sections' = Sectioned(file)
    BY <1>1 DEF Load
  <2>2. UNCHANGED <<status, texts, vectors, task, attempt, answers>> /\ UNCHANGED call
    BY <2>1 DEF embedVars, call, tasks
  <2>3. EmbedInv(AllChunks)'
    BY <2>2 DEF IInv, EmbedInv, Batched, BatchCount, BatchOf, BatchEnd, AllChunks
  <2>4. Progress'
    BY <2>1, <2>2 DEF IInv, Progress
  <2> QED
    BY <2>2, <2>3, <2>4 DEF IInv, Inside
<1>2. CASE Chunk
  <2> DEFINE ts == ChunkDocument(sections)
  <2>1. /\ stage = "chunk" /\ stage' = "embed" /\ EmbedAll(ts)
        /\ UNCHANGED <<file, sections, rows>>
    BY <1>2 DEF Chunk
  <2>2. file \in Files /\ sections = Sectioned(file) /\ rows = <<>> /\ status = "idle"
    BY <2>1 DEF IInv, Progress
  <2>3. ts \in Seq(AllChunks)
    BY <2>2, ChunksTyped
  <2> HIDE DEF ts
  <2>4. EmbedInv(AllChunks)' /\ Promise!Call
    BY <2>1, <2>3, EmbedStarts DEF IInv, AllChunks
  <2>5. status' = "running" /\ texts' = ts /\ task' = [b \in 1..BatchCount(ts) |-> "waiting"]
    BY <2>1 DEF EmbedAll
  <2>6. ts = ChunkDocument(sections')
    BY <2>1 DEF ts
  <2>7. Progress'
    BY <2>1, <2>2, <2>5, <2>6 DEF Progress
  <2>8. Inside' = {}
    BY <2>5 DEF Inside
  <2>9. Inside = {}
    <3>1. task = <<>>
      BY <2>2 DEF IInv, EmbedInv
    <3> QED
      BY <3>1 DEF Inside
  <2> QED
    BY <2>4, <2>7, <2>8, <2>9 DEF IInv, Promise!Next
<1>3. CASE Embed
  <2>1. EmbedNext /\ UNCHANGED <<file, stage, sections, rows>>
    BY <1>3 DEF Embed
  <2>2. EmbedInv(AllChunks)' /\ (Promise!Raise \/ Promise!Return \/ UNCHANGED call)
    BY <2>1, EmbedKeeps DEF IInv, AllChunks
  <2>3. Permits!Next \/ Inside' = Inside
    BY <2>1, EmbedPermitted DEF IInv
  <2>4. texts' = texts /\ (status' = "idle" <=> status = "idle") /\ (status = "done" => UNCHANGED call)
    BY <2>2 DEF Promise!Raise, Promise!Return, call
  <2>5. Progress'
    BY <2>1, <2>4 DEF IInv, Progress, call
  <2> QED
    BY <2>2, <2>3, <2>5 DEF IInv, Promise!Next
<1>4. CASE Store \/ Fail
  <2>1. UNCHANGED <<file, sections, embedVars>> /\ stage = "embed"
    BY <1>4 DEF Store, Fail
  <2>2. UNCHANGED <<status, texts, vectors, task, attempt, answers>> /\ UNCHANGED call
    BY <2>1 DEF embedVars, call, tasks
  <2>3. EmbedInv(AllChunks)'
    BY <2>2 DEF IInv, EmbedInv, Batched, BatchCount, BatchOf, BatchEnd, AllChunks
  <2>4. Progress'
    BY <1>4, <2>1, <2>2 DEF IInv, Progress, Store, Fail
  <2> QED
    BY <2>2, <2>3, <2>4 DEF IInv, Inside
<1>5. CASE Finished \/ UNCHANGED vars
  <2>1. UNCHANGED <<file, stage, sections, rows>> /\ UNCHANGED embedVars
    BY <1>5 DEF Finished, vars
  <2>2. UNCHANGED <<status, texts, vectors, task, attempt, answers>> /\ UNCHANGED call
    BY <2>1 DEF embedVars, call, tasks
  <2>3. EmbedInv(AllChunks)'
    BY <2>2 DEF IInv, EmbedInv, Batched, BatchCount, BatchOf, BatchEnd, AllChunks
  <2>4. Progress'
    BY <2>1, <2>2 DEF IInv, Progress
  <2> QED
    BY <2>2, <2>3, <2>4 DEF IInv, Inside
<1> QED
  BY <1>1, <1>2, <1>3, <1>4, <1>5 DEF Next

LEMMA Invariance ==
    ASSUME NEW W, NEW I, Chunkable(W, I)
    PROVE  Spec => []IInv
<1>1. IInv /\ [Next]_vars => IInv'
  BY NextKeeps
<1> QED
  BY <1>1, InitInv, PTL DEF Spec

\* embed_all raises or returns a vector for every chunk in order, and its tasks
\* are a bounded use of the semaphore, for any number of texts and attempts and
\* whichever batches fail: the refinement of EmbedContract and of BoundedUse.
THEOREM EmbedKeepsItsPromise ==
    ASSUME NEW W, NEW I, Chunkable(W, I)
    PROVE  Spec => EmbedsAsPromised
<1>1. Init => Promise!Init /\ Permits!Init
  BY DEF Init, EmbedInit, Promise!Init, Permits!Init, Inside
<1>2. IInv /\ [Next]_vars => [Promise!Next]_<<status, texts, vectors>> /\ [Permits!Next]_Inside
  BY NextKeeps DEF call
<1> QED
  BY <1>1, <1>2, Invariance, PTL DEF Spec, EmbedsAsPromised, Promise!Spec, Permits!Spec

\* What is stored, whatever the file: the rows are the chunks of its sections.
LEMMA RowsAreChunks ==
    ASSUME NEW W, NEW I, Chunkable(W, I), IInv, stage = "stored"
    PROVE  /\ sections \in Seq(SectionSet(W, I)) /\ RoomForPaths(sections)
           /\ \E n \in Nat : DOMAIN rows = 1..n /\ DOMAIN ChunkDocument(sections) = 1..n
           /\ \A i \in DOMAIN rows : /\ rows[i].chunk = ChunkDocument(sections)[i]
                                    /\ rows[i].embedding = rows[i].chunk
<1>1. /\ file \in Files /\ sections = Sectioned(file) /\ status = "done"
      /\ texts = ChunkDocument(sections) /\ vectors = texts /\ texts \in Seq(AllChunks)
      /\ rows = [i \in DOMAIN texts |-> [chunk |-> texts[i], embedding |-> vectors[i]]]
  BY DEF IInv, Progress, EmbedInv
<1>2. sections \in Seq(SectionSet(W, I)) /\ RoomForPaths(sections)
  BY <1>1 DEF Chunkable
<1>3. PICK n \in Nat : n = Len(texts)
  BY <1>1
<1>4. DOMAIN texts = 1..n
  BY <1>1, <1>3
<1>5. DOMAIN rows = 1..n
  BY <1>1, <1>4
<1>6. ASSUME NEW i \in DOMAIN rows
      PROVE  rows[i].chunk = ChunkDocument(sections)[i] /\ rows[i].embedding = rows[i].chunk
  <2>1. rows[i] = [chunk |-> texts[i], embedding |-> texts[i]]
    BY <1>1, <1>4, <1>5
  <2> QED
    BY <1>1, <2>1
<1> QED
  BY <1>1, <1>2, <1>4, <1>5, <1>6

\* SPEC-003 AC-4: every chunk stored is within target_max as it is rendered,
\* for files whose headings leave the room that RoomForPaths asks for.
THEOREM ChunksAreInBounds ==
    ASSUME NEW W, NEW I, Chunkable(W, I)
    PROVE  Spec => []ChunksFit
<1>1. ASSUME IInv PROVE ChunksFit
  <2>1. CASE stage # "stored"
    <3>1. rows = <<>>
      BY <1>1, <2>1 DEF IInv, Progress
    <3> QED
      BY <3>1 DEF ChunksFit
  <2>2. CASE stage = "stored"
    <3> SUFFICES ASSUME NEW i \in DOMAIN rows PROVE TokenCount(sections, Units(i)) <= TargetMax
      BY DEF ChunksFit
    <3> DEFINE C == ChunkDocument(sections)
               Fits == FitChunks(sections, I)
               D == [path : {SectionPath(sections, c) : c \in Fits}, units : Fits]
    <3>1. /\ sections \in Seq(SectionSet(W, I)) /\ RoomForPaths(sections)
          /\ i \in DOMAIN C /\ rows[i].chunk = C[i]
      BY <1>1, <2>2, RowsAreChunks
    <3>2. C \in Seq(D)
      BY <3>1, ChunkDocumentFits
    <3>3. \A c \in D : c.units \in FitChunks(sections, I)
      OBVIOUS
    <3> HIDE DEF C, D
    <3>4. C[i] \in D
      BY <3>1, <3>2
    <3>5. Units(i) \in FitChunks(sections, I)
      BY <3>1, <3>3, <3>4 DEF Units
    <3> QED
      BY <3>5 DEF FitChunks
  <2> QED
    BY <2>1, <2>2
<1> QED
  BY <1>1, Invariance, PTL

-----------------------------------------------------------------------------
(***************************************************************************)
(* No text is lost between the sections and the rows.                      *)
(***************************************************************************)

\* The sentences that units are of.
SentencesIn(units) == {u.sentence : u \in Range(units)}

\* The units of section i, cut into those of each of its n sentences.
CutsOf(ss, i, I, split, n) ==
    /\ split \in [1..n -> Seq(UnitSet({i}, I))]
    /\ UnitsOf(ss, i) = FlattenSeq(split)
    /\ \A j \in 1..n : SentencesIn(split[j]) = {ss[i].sentences[j].id}

LEMMA UnitsCut ==
    ASSUME NEW W, NEW I, NEW ss \in Seq(SectionSet(W, I)), RoomForPaths(ss), NEW i \in DOMAIN ss,
           NEW n \in Nat, n = Len(ss[i].sentences)
    PROVE  \E split : CutsOf(ss, i, I, split, n)
<1> USE ChunkerAssumption
<1> DEFINE budget == TargetMax - (PathTokens(ss[i].path) + SplitMargin)
           Whole(s) == [section |-> i, sentence |-> s.id, piece |-> 1, tokens |-> s.tokens]
           sentences == ss[i].sentences
           split == [j \in DOMAIN sentences |-> SplitOversized(Whole(sentences[j]), budget)]
           Set == UnitSet({i}, I)
<1>1. UnitsOf(ss, i) = FlattenSeq(split)
  BY DEF UnitsOf
<1>2. /\ ss[i].path \in Seq(Seq(W)) /\ sentences \in Seq([id : I, tokens : Nat])
  <2>1. ss[i] \in SectionSet(W, I)
    OBVIOUS
  <2> QED
    BY <2>1 DEF SectionSet
<1>3. PathTokens(ss[i].path) \in Nat
  BY <1>2, PathTokensType
<1>4. budget \in Nat \ {0}
  <2>1. PathTokens(ss[i].path) + SplitMargin < TargetMax
    BY DEF RoomForPaths
  <2> QED
    BY <1>3, <2>1
<1>5. n = Len(sentences)
  OBVIOUS
<1> HIDE DEF budget, sentences
<1>6. DOMAIN sentences = 1..n /\ \A j \in 1..n : sentences[j] \in [id : I, tokens : Nat]
  <2> DEFINE D == [id : I, tokens : Nat]
  <2>1. sentences \in Seq(D)
    BY <1>2
  <2> HIDE DEF D
  <2>2. DOMAIN sentences = 1..n /\ \A j \in 1..n : sentences[j] \in D
    BY <1>5, <2>1
  <2> QED
    BY <2>2 DEF D
<1>7. ASSUME NEW j \in 1..n
      PROVE  /\ split[j] \in Seq(Set)
             /\ SentencesIn(split[j]) = {sentences[j].id}
  <2>1. sentences[j] \in [id : I, tokens : Nat]
    BY <1>6
  <2>2. Whole(sentences[j]) \in Set /\ Whole(sentences[j]).sentence = sentences[j].id
    BY <2>1 DEF UnitSet
  <2> DEFINE unit == Whole(sentences[j])
             cut == SplitOversized(unit, budget)
             Pieces == PieceSet(unit, {i}, I, budget)
  <2>3. split[j] = cut
    BY <1>6
  <2> HIDE DEF Whole, split
  <2>4. cut \in Seq(Pieces) /\ Len(cut) \in Nat \ {0}
    <3> HIDE DEF unit
    <3>1. unit \in UnitSet({i}, I)
      BY <2>2 DEF unit
    <3> QED
      BY <1>4, <3>1, PiecesFit
  <2>5. Pieces \subseteq Set /\ \A u \in Pieces : u.sentence = sentences[j].id
    BY <2>2 DEF PieceSet
  <2> HIDE DEF cut, Pieces, Set, unit
  <2>6. cut \in Seq(Set)
    BY <2>4, <2>5, SeqMonotonic
  <2>7. Range(cut) \subseteq Pieces
    BY <2>4 DEF Range
  <2>8. cut[1] \in Range(cut)
    <3>1. 1 \in DOMAIN cut
      BY <2>4
    <3> QED
      BY <3>1 DEF Range
  <2>9. SentencesIn(cut) = {sentences[j].id}
    BY <2>5, <2>7, <2>8 DEF SentencesIn
  <2> QED
    BY <2>3, <2>6, <2>9
<1>8. DOMAIN split = 1..n
  BY <1>6
<1> HIDE DEF split, Set
<1>9. split \in [1..n -> Seq(Set)]
  BY <1>7, <1>8 DEF split
<1> QED
  BY <1>1, <1>7, <1>9 DEF sentences, Set, CutsOf

\* ... so every sentence of the section has one.
LEMMA UnitsTell ==
    ASSUME NEW W, NEW I, NEW ss \in Seq(SectionSet(W, I)), RoomForPaths(ss), NEW i \in DOMAIN ss
    PROVE  SentencesIn(UnitsOf(ss, i)) = Ids(ss[i].sentences)
<1> DEFINE sentences == ss[i].sentences
           Set == UnitSet({i}, I)
<1>1. sentences \in Seq([id : I, tokens : Nat])
  <2>1. ss[i] \in SectionSet(W, I)
    OBVIOUS
  <2> QED
    BY <2>1 DEF SectionSet
<1>2. PICK n \in Nat : n = Len(sentences)
  BY <1>1
<1>3. DOMAIN sentences = 1..n
  BY <1>1, <1>2
<1>4. PICK split : CutsOf(ss, i, I, split, n)
  BY <1>2, UnitsCut
<1>5. /\ split \in [1..n -> Seq(Set)]
      /\ UnitsOf(ss, i) = FlattenSeq(split)
      /\ \A j \in 1..n : SentencesIn(split[j]) = {sentences[j].id}
  BY <1>4 DEF CutsOf
<1> HIDE DEF sentences, Set
<1>6. Range(UnitsOf(ss, i)) = UNION {Range(split[j]) : j \in 1..n}
  <2>1. split \in Seq(Seq(Set)) /\ DOMAIN split = 1..n
    BY <1>5
  <2> QED
    BY <1>5, <2>1, FlattenRange
<1>7. Ids(sentences) = {sentences[j].id : j \in 1..n}
  BY <1>3 DEF Ids, Range
<1>8. SentencesIn(UnitsOf(ss, i)) = UNION {SentencesIn(split[j]) : j \in 1..n}
  BY <1>6 DEF SentencesIn
<1>9. UNION {SentencesIn(split[j]) : j \in 1..n} = {sentences[j].id : j \in 1..n}
  BY <1>5
<1> QED
  BY <1>7, <1>8, <1>9 DEF sentences

\* The stored rows hold the sentences of all sections and no others, and each
\* has the vector of its own text.
SectionsAreStored ==
    stage = "stored" =>
        /\ {u.sentence : u \in Range(Told)} = UNION {Ids(sections[i].sentences) : i \in DOMAIN sections}
        /\ \A i \in DOMAIN rows : rows[i].embedding = rows[i].chunk

\* The chunker's part of TextIsStored: between the sections a loader found and
\* the rows of the document no sentence is lost and none is made up.
THEOREM NoSentenceIsLost ==
    ASSUME NEW W, NEW I, Chunkable(W, I)
    PROVE  Spec => []SectionsAreStored
<1>1. ASSUME IInv, stage = "stored"
      PROVE  /\ {u.sentence : u \in Range(Told)}
                    = UNION {Ids(sections[i].sentences) : i \in DOMAIN sections}
             /\ \A i \in DOMAIN rows : rows[i].embedding = rows[i].chunk
  <2> DEFINE C == ChunkDocument(sections)
             F == FitUnits(sections, DOMAIN sections, I)
             Fits == FitChunks(sections, I)
             D == [path : {SectionPath(sections, c) : c \in Fits}, units : Fits]
             told == [i \in DOMAIN rows |-> rows[i].chunk.units]
  <2>1. /\ sections \in Seq(SectionSet(W, I)) /\ RoomForPaths(sections)
        /\ \A i \in DOMAIN rows : rows[i].chunk = C[i] /\ rows[i].embedding = rows[i].chunk
    BY <1>1, RowsAreChunks
  <2>2. PICK n \in Nat : DOMAIN rows = 1..n /\ DOMAIN C = 1..n
    BY <1>1, RowsAreChunks
  <2>3. /\ C \in Seq(D)
        /\ UnitsIn(C) = UNION {Range(UnitsOf(sections, i)) : i \in DOMAIN sections}
    BY <2>1, ChunkDocumentFits
  <2> HIDE DEF C
  <2>4. \A i \in 1..n : C[i].units \in Seq(F)
    <3> SUFFICES ASSUME NEW i \in 1..n PROVE C[i].units \in Seq(F)
      OBVIOUS
    <3>1. \A c \in D : c.units \in FitChunks(sections, I)
      OBVIOUS
    <3> HIDE DEF D
    <3>2. C[i] \in D
      BY <2>2, <2>3
    <3>3. C[i].units \in FitChunks(sections, I)
      BY <3>1, <3>2
    <3> QED
      BY <3>3 DEF FitChunks
  <2>5. DOMAIN told = 1..n /\ \A i \in 1..n : told[i] = C[i].units
    BY <2>1, <2>2
  <2> HIDE DEF told, F
  <2>6. told \in Seq(Seq(F))
    <3>1. told \in [1..n -> Seq(F)]
      BY <2>4, <2>5 DEF told
    <3> QED
      BY <3>1
  <2>7. Range(Told) = UNION {Range(told[i]) : i \in 1..n}
    <3>1. Told = FlattenSeq(told)
      BY DEF Told, told
    <3> QED
      BY <2>5, <2>6, <3>1, FlattenRange
  <2>8. Range(Told) = UNION {Range(UnitsOf(sections, i)) : i \in DOMAIN sections}
    BY <2>2, <2>3, <2>5, <2>7 DEF UnitsIn
  <2>9. {u.sentence : u \in Range(Told)}
            = UNION {{u.sentence : u \in Range(UnitsOf(sections, i))} : i \in DOMAIN sections}
    BY <2>8
  <2>10. \A i \in DOMAIN sections :
             {u.sentence : u \in Range(UnitsOf(sections, i))} = Ids(sections[i].sentences)
    BY <2>1, UnitsTell DEF SentencesIn
  <2>11. {u.sentence : u \in Range(Told)} = UNION {Ids(sections[i].sentences) : i \in DOMAIN sections}
    BY <2>9, <2>10
  <2> QED
    BY <2>1, <2>11
<1>2. IInv => SectionsAreStored
  BY <1>1 DEF SectionsAreStored
<1> QED
  BY <1>2, Invariance, PTL
-----------------------------------------------------------------------------
(***************************************************************************)
(* What the rescue leaves behind it: a chunk it passed found no room, and  *)
(* joins further on do not make any in the chunk before it.                *)
(***************************************************************************)

\* The passes of the rescue, one at a time.
LEMMA RescueStepCases ==
    ASSUME NEW ss, NEW s, NEW chunks, chunks = s.chunks, NEW i, i = s.at
    PROVE  \/ i > Len(chunks) /\ RescueStep(ss, s) = s
           \/ ~(i > Len(chunks)) /\ ~Small(chunks[i]) /\ RescueStep(ss, s) = [s EXCEPT !.at = i + 1]
           \/ /\ ~(i > Len(chunks)) /\ i > 1 /\ CanJoin(ss, chunks[i - 1], chunks[i])
              /\ RescueStep(ss, s) = [chunks |-> Joined(chunks, i - 1), at |-> i - 1]
           \/ /\ ~(i > Len(chunks)) /\ i < Len(chunks) /\ CanJoin(ss, chunks[i], chunks[i + 1])
              /\ RescueStep(ss, s) = [chunks |-> Joined(chunks, i), at |-> i]
           \/ /\ ~(i > Len(chunks))
              /\ ~(i > 1 /\ CanJoin(ss, chunks[i - 1], chunks[i]))
              /\ ~(i < Len(chunks) /\ CanJoin(ss, chunks[i], chunks[i + 1]))
              /\ RescueStep(ss, s) = [s EXCEPT !.at = i + 1]
  BY DEF RescueStep, AfterNext

\* What every pass keeps, holds at the end.
LEMMA RescueRunKeeps ==
    ASSUME NEW ss, NEW I, NEW packed \in Seq(FitChunks(ss, I)), NEW n \in Nat, NEW loop,
           RescueRun(ss, packed, loop, n), NEW G,
           [chunks |-> packed, at |-> 1] \in G,
           \A s \in Loops(FitChunks(ss, I)) : s \in G => RescueStep(ss, s) \in G
    PROVE  loop[2 * n] \in G /\ loop[2 * n] \in Loops(FitChunks(ss, I))
<1> DEFINE S == Loops(FitChunks(ss, I))
           base == [chunks |-> packed, at |-> 1]
           m == 2 * n
           K == {k \in Nat : loop[k] \in G /\ loop[k] \in S}
<1>1. m \in Nat
  OBVIOUS
<1>2. base \in S
  BY DEF Loops
<1>3. loop[0] = base /\ \A k \in 1..m : loop[k] = RescueStep(ss, loop[k - 1])
  BY DEF RescueRun
<1> HIDE DEF base, m
<1>4. \A s \in S : RescueStep(ss, s) \in S
  BY RescueStepFits
<1> HIDE DEF S
<1>5. base \in G /\ \A s \in S : s \in G => RescueStep(ss, s) \in G
  BY DEF base, S
<1>6. 0 \in K
  BY <1>2, <1>3, <1>5
<1>7. ASSUME NEW k \in 1..m, k - 1 \in K PROVE k \in K
  <2>1. k \in Nat
    BY <1>1
  <2>2. loop[k - 1] \in G /\ loop[k - 1] \in S /\ loop[k] = RescueStep(ss, loop[k - 1])
    BY <1>3, <1>7
  <2>3. loop[k] \in G /\ loop[k] \in S
    BY <1>4, <1>5, <2>2
  <2> QED
    BY <2>1, <2>3
<1> HIDE DEF K
<1>8. \A k \in 0..m : k \in K
  BY <1>1, <1>6, <1>7, UptoInduction
<1>9. m \in 0..m
  BY <1>1
<1>10. m \in K
  BY <1>8, <1>9
<1> QED
  BY <1>10 DEF K, S, m

\* The chunks after a join, by place.
LEMMA JoinedPlaces ==
    ASSUME NEW F, NEW chunks \in Seq(F), NEW n \in Nat, n = Len(chunks), NEW i \in 1..n - 1
    PROVE  /\ Len(Joined(chunks, i)) = n - 1
           /\ \A j \in 1..n - 1 : Joined(chunks, i)[j] = IF j < i THEN chunks[j]
                                                         ELSE IF j = i THEN chunks[i] \o chunks[i + 1]
                                                         ELSE chunks[j + 1]
<1> DEFINE left == SubSeq(chunks, 1, i - 1)
           right == SubSeq(chunks, i + 2, n)
           both == chunks[i] \o chunks[i + 1]
           one == <<both>>
           U == F \cup {both}
<1>1. Joined(chunks, i) = left \o one \o right
  BY DEF Joined
<1>2. left \in Seq(F) /\ Len(left) = i - 1 /\ \A j \in 1..i - 1 : left[j] = chunks[j]
  <2>1. 1 \in Int /\ i - 1 \in Int /\ \A j \in 1..i - 1 : chunks[j] \in F
    BY ElementOfSeq
  <2>2. left \in Seq(F) /\ Len(left) = (IF 1 <= i - 1 THEN (i - 1) - 1 + 1 ELSE 0)
        /\ \A j \in 1..Len(left) : left[j] = chunks[1 + j - 1]
    BY <2>1, SubSeqProperties
  <2> HIDE DEF left
  <2> QED
    BY <2>2
<1>3. right \in Seq(F) /\ Len(right) = n - i - 1 /\ \A j \in 1..n - i - 1 : right[j] = chunks[j + i + 1]
  <2>1. i + 2 \in Int /\ n \in Int /\ \A j \in i + 2..n : chunks[j] \in F
    BY ElementOfSeq
  <2>2. right \in Seq(F) /\ Len(right) = (IF i + 2 <= n THEN n - (i + 2) + 1 ELSE 0)
        /\ \A j \in 1..Len(right) : right[j] = chunks[i + 2 + j - 1]
    BY <2>1, SubSeqProperties
  <2> HIDE DEF right
  <2> QED
    BY <2>2
<1>4. left \in Seq(U) /\ right \in Seq(U) /\ one \in Seq(U) /\ Len(one) = 1
      /\ one[1] = both
  <2> HIDE DEF both
  <2>1. F \subseteq U /\ one \in Seq(U) /\ Len(one) = 1 /\ one[1] = both
    OBVIOUS
  <2>2. left \in Seq(U) /\ right \in Seq(U)
    <3> HIDE DEF left, right, U
    <3> QED
      BY <1>2, <1>3, <2>1, SeqMonotonic
  <2> QED
    BY <2>1, <2>2
<1> HIDE DEF left, right, one, U, both
<1> DEFINE most == left \o one
<1>5. most \in Seq(U) /\ Len(most) = i /\ \A j \in 1..i : most[j] = IF j < i THEN left[j] ELSE one[1]
  <2>1. most \in Seq(U) /\ Len(most) = Len(left) + Len(one)
    BY <1>4, ConcatProperties
  <2>2. \A j \in 1..Len(left) + Len(one) :
            most[j] = IF j <= Len(left) THEN left[j] ELSE one[j - Len(left)]
    BY <1>4, ConcatProperties
  <2> HIDE DEF most
  <2>3. i - 1 \in Nat /\ Len(left) + Len(one) = i
    BY <1>2, <1>4
  <2>4. ASSUME NEW j \in 1..i PROVE most[j] = IF j < i THEN left[j] ELSE one[1]
    <3>1. most[j] = IF j <= i - 1 THEN left[j] ELSE one[j - (i - 1)]
      BY <1>2, <2>2, <2>3
    <3>2. CASE j < i
      <4>1. j <= i - 1
        BY <3>2
      <4> QED
        BY <3>1, <3>2, <4>1
    <3>3. CASE j = i
      <4>1. ~(j <= i - 1) /\ j - (i - 1) = 1
        BY <3>3
      <4> QED
        BY <3>1, <3>3, <4>1
    <3> QED
      BY <3>2, <3>3
  <2> QED
    BY <2>1, <2>3, <2>4
<1> HIDE DEF most
<1>6. Len(most \o right) = n - 1
      /\ \A j \in 1..n - 1 : (most \o right)[j] = IF j <= i THEN most[j] ELSE right[j - i]
  <2>1. Len(most \o right) = Len(most) + Len(right)
        /\ \A j \in 1..Len(most) + Len(right) :
              (most \o right)[j] = IF j <= Len(most) THEN most[j] ELSE right[j - Len(most)]
    BY <1>4, <1>5, ConcatProperties
  <2>2. Len(most) + Len(right) = n - 1
    BY <1>3, <1>5
  <2> QED
    BY <1>5, <2>1, <2>2
<1>7. ASSUME NEW j \in 1..n - 1
      PROVE  (most \o right)[j] = IF j < i THEN chunks[j]
                                  ELSE IF j = i THEN chunks[i] \o chunks[i + 1] ELSE chunks[j + 1]
  <2>1. CASE j < i
    <3>1. j <= i /\ j \in 1..i /\ j \in 1..i - 1
      BY <2>1
    <3>2. (most \o right)[j] = most[j]
      BY <1>6, <3>1
    <3>3. most[j] = left[j]
      BY <1>5, <2>1, <3>1
    <3>4. left[j] = chunks[j]
      BY <1>2, <3>1
    <3> QED
      BY <2>1, <3>2, <3>3, <3>4
  <2>2. CASE j = i
    <3>1. j <= i /\ ~(j < i) /\ j \in 1..i
      BY <2>2
    <3>2. (most \o right)[j] = most[j]
      BY <1>6, <3>1
    <3>3. most[j] = one[1]
      BY <1>5, <3>1
    <3>4. (most \o right)[j] = both
      BY <1>4, <3>2, <3>3
    <3> QED
      BY <2>2, <3>1, <3>4 DEF both
  <2>3. CASE j > i
    <3>1. j - i \in 1..n - i - 1 /\ (j - i) + i + 1 = j + 1
      BY <2>3
    <3>2. right[j - i] = chunks[j + 1]
      BY <1>3, <3>1
    <3> QED
      BY <1>6, <2>3, <3>2
  <2>4. j < i \/ j = i \/ j > i
    OBVIOUS
  <2> QED
    BY <2>1, <2>2, <2>3, <2>4, Zenon
<1>8. Joined(chunks, i) = most \o right
  BY <1>1 DEF most
<1> DEFINE joined == most \o right
           Place(j) == IF j < i THEN chunks[j]
                       ELSE IF j = i THEN chunks[i] \o chunks[i + 1] ELSE chunks[j + 1]
<1>9. Len(joined) = n - 1 /\ \A j \in 1..n - 1 : joined[j] = Place(j)
  <2>1. \A j \in 1..n - 1 : joined[j] = Place(j)
    BY <1>7
  <2>2. Len(joined) = n - 1
    BY <1>6
  <2> HIDE DEF joined, Place
  <2> QED
    BY <2>1, <2>2
<1>10. Joined(chunks, i) = joined
  BY <1>8
<1> HIDE DEF joined
<1> QED
  BY <1>9, <1>10

\* No neighbour has room for chunk j: the next one, or what it began with.
NoRoom(ss, chunks, j) ==
    /\ j > 1 => ~CanJoin(ss, chunks[j - 1], chunks[j])
    /\ j < Len(chunks) =>
           \E m \in DOMAIN chunks[j + 1] : ~CanJoin(ss, chunks[j], SubSeq(chunks[j + 1], 1, m))

\* The small chunks the rescue has gone by found no room.
SmallPassed(ss, s) ==
    \A j \in 1..Len(s.chunks) : j < s.at /\ Small(s.chunks[j]) => NoRoom(ss, s.chunks, j)

LEMMA PrefixOfConcat ==
    ASSUME NEW U, NEW a \in Seq(U), NEW b \in Seq(U), NEW m \in DOMAIN a
    PROVE  m \in DOMAIN (a \o b) /\ SubSeq(a \o b, 1, m) = SubSeq(a, 1, m)
<1>1. PICK n \in Nat : n = Len(a) /\ DOMAIN a = 1..n
  BY LenProperties
<1>2. PICK k \in Nat : k = Len(b)
  BY LenProperties
<1> DEFINE ab == a \o b
<1>3. ab \in Seq(U) /\ Len(ab) = n + k /\ \A i \in 1..n + k : ab[i] = IF i <= n THEN a[i] ELSE b[i - n]
  BY <1>1, <1>2, ConcatProperties
<1> HIDE DEF ab
<1>4. m \in 1..n /\ DOMAIN ab = 1..n + k
  BY <1>1, <1>3, LenProperties
<1>5. \A i \in 1..m : ab[i] = a[i] /\ a[i] \in U /\ ab[i] \in U
  <2> SUFFICES ASSUME NEW i \in 1..m PROVE ab[i] = a[i] /\ a[i] \in U
    OBVIOUS
  <2>1. i \in 1..n /\ i \in 1..n + k /\ i <= n
    BY <1>4
  <2>2. a[i] \in U
    BY <1>1, <2>1, ElementOfSeq
  <2> QED
    BY <1>3, <2>1, <2>2
<1>6. SubSeq(ab, 1, m) \in Seq(U) /\ Len(SubSeq(ab, 1, m)) = m
      /\ \A i \in 1..m : SubSeq(ab, 1, m)[i] = a[i]
  <2> DEFINE part == SubSeq(ab, 1, m)
  <2>1. 1 \in Int /\ m \in Int /\ 1 <= m
    BY <1>4
  <2>2. part \in Seq(U) /\ Len(part) = (IF 1 <= m THEN m - 1 + 1 ELSE 0)
        /\ \A i \in 1..m - 1 + 1 : part[i] = ab[1 + i - 1]
    BY <1>5, <2>1, SubSeqProperties
  <2> HIDE DEF part
  <2>3. Len(part) = m /\ \A i \in 1..m : part[i] = ab[i]
    BY <2>1, <2>2
  <2> QED
    BY <1>5, <2>2, <2>3 DEF part
<1>7. SubSeq(a, 1, m) \in Seq(U) /\ Len(SubSeq(a, 1, m)) = m
      /\ \A i \in 1..m : SubSeq(a, 1, m)[i] = a[i]
  <2> DEFINE part == SubSeq(a, 1, m)
  <2>1. 1 \in Int /\ m \in Int /\ 1 <= m
    BY <1>4
  <2>2. part \in Seq(U) /\ Len(part) = (IF 1 <= m THEN m - 1 + 1 ELSE 0)
        /\ \A i \in 1..m - 1 + 1 : part[i] = a[1 + i - 1]
    BY <1>5, <2>1, SubSeqProperties
  <2> HIDE DEF part
  <2>3. Len(part) = m /\ \A i \in 1..m : part[i] = a[i]
    BY <2>1, <2>2
  <2> QED
    BY <2>2, <2>3 DEF part
<1>8. SubSeq(ab, 1, m) = SubSeq(a, 1, m)
  <2> DEFINE p == SubSeq(ab, 1, m)
             q == SubSeq(a, 1, m)
  <2>1. p \in Seq(U) /\ q \in Seq(U) /\ Len(p) = Len(q) /\ \A i \in 1..Len(p) : p[i] = q[i]
    BY <1>6, <1>7
  <2> HIDE DEF p, q
  <2>2. p = q
    BY <2>1, SeqEqual
  <2> QED
    BY <2>2 DEF p, q
<1>9. m \in DOMAIN ab
  BY <1>4
<1> QED
  BY <1>8, <1>9 DEF ab

\* A pass leaves no small chunk behind that had room, though it may look again
\* at the one it came from and may lengthen the one behind a chunk it has left.
LEMMA PassFindsRoom ==
    ASSUME NEW ss, NEW I, NEW s \in Loops(FitChunks(ss, I)), SmallPassed(ss, s)
    PROVE  SmallPassed(ss, RescueStep(ss, s))
<1> DEFINE U == FitUnits(ss, DOMAIN ss, I)
           F == FitChunks(ss, I)
           chunks == s.chunks
           i == s.at
           t == RescueStep(ss, s)
<1>1. chunks \in Seq(F) /\ i \in Nat \ {0} /\ s \in Loops(F)
  <2> HIDE DEF F
  <2> QED
    BY DEF Loops, F
<1>2. PICK n \in Nat : n = Len(chunks)
  BY <1>1, LenProperties
<1>3. \A j \in 1..n : chunks[j] \in F
  <2> HIDE DEF F, chunks
  <2> QED
    BY <1>1, <1>2, ElementOfSeq
<1>4. \A c \in F : c \in Seq(U) /\ c # <<>>
  BY DEF FitChunks
<1>5. \A j \in 1..n : j < i /\ Small(chunks[j]) => NoRoom(ss, chunks, j)
  BY <1>2 DEF SmallPassed
<1> HIDE DEF F, U
<1>6. ASSUME NEW j \in 1..n - 1, j <= i, t = [chunks |-> Joined(chunks, j), at |-> j]
      PROVE  SmallPassed(ss, t)
  <2> DEFINE joined == Joined(chunks, j)
  <2>1. Len(joined) = n - 1 /\ \A k \in 1..n - 1 : joined[k] = IF k < j THEN chunks[k]
                                      ELSE IF k = j THEN chunks[j] \o chunks[j + 1] ELSE chunks[k + 1]
    <3> HIDE DEF chunks
    <3> QED
      BY <1>1, <1>2, JoinedPlaces
  <2>2. t.chunks = joined /\ t.at = j
    BY <1>6
  <2> HIDE DEF joined
  <2> SUFFICES ASSUME NEW k \in 1..n - 1, k < j, Small(joined[k]) PROVE NoRoom(ss, joined, k)
    <3> HIDE DEF t
    <3> QED
      BY <2>1, <2>2 DEF SmallPassed
  <2>3. /\ joined[k] = chunks[k] /\ k \in 1..n /\ k < i /\ k < n
        /\ j \in 1..n /\ j + 1 \in 1..n
    BY <1>1, <1>6, <2>1
  <2>4. NoRoom(ss, chunks, k)
    BY <1>5, <2>3
  <2>5. k > 1 => ~CanJoin(ss, joined[k - 1], joined[k])
    <3> SUFFICES ASSUME k > 1 PROVE ~CanJoin(ss, joined[k - 1], joined[k])
      OBVIOUS
    <3>1. k - 1 \in 1..n - 1 /\ k - 1 < j
      OBVIOUS
    <3>2. joined[k - 1] = chunks[k - 1]
      BY <2>1, <3>1
    <3> QED
      BY <2>3, <2>4, <3>2 DEF NoRoom
  <2>6. PICK m \in DOMAIN chunks[k + 1] : ~CanJoin(ss, chunks[k], SubSeq(chunks[k + 1], 1, m))
    BY <1>2, <2>3, <2>4 DEF NoRoom
  <2>7. k < Len(joined) => \E l \in DOMAIN joined[k + 1] : ~CanJoin(ss, joined[k], SubSeq(joined[k + 1], 1, l))
    <3>1. k + 1 \in 1..n - 1
      BY <1>6
    <3>2. CASE k + 1 < j
      <4>1. joined[k + 1] = chunks[k + 1]
        BY <2>1, <3>1, <3>2
      <4> QED
        BY <2>3, <2>6, <4>1
    <3>3. CASE k + 1 = j
      <4>1. joined[k + 1] = chunks[j] \o chunks[j + 1]
        <5>1. ~(j < j) /\ j \in 1..n - 1
          OBVIOUS
        <5>2. joined[j] = chunks[j] \o chunks[j + 1]
          <6> HIDE DEF chunks
          <6> QED
            BY <2>1, <5>1
        <5> QED
          BY <3>3, <5>2
      <4>2. chunks[j] \in Seq(U) /\ chunks[j + 1] \in Seq(U) /\ m \in DOMAIN chunks[j]
        BY <1>3, <1>4, <2>3, <2>6, <3>3
      <4> DEFINE a == chunks[j]
                 b == chunks[j + 1]
      <4> HIDE DEF a, b, chunks
      <4>3. m \in DOMAIN (a \o b) /\ SubSeq(a \o b, 1, m) = SubSeq(a, 1, m)
        <5>1. a \in Seq(U) /\ b \in Seq(U) /\ m \in DOMAIN a
          BY <4>2 DEF a, b
        <5> QED
          BY <5>1, PrefixOfConcat
      <4>4. joined[k + 1] = a \o b /\ chunks[k + 1] = a
        BY <3>3, <4>1 DEF a, b
      <4> QED
        BY <2>3, <2>6, <4>3, <4>4
    <3>4. k + 1 < j \/ k + 1 = j
      OBVIOUS
    <3> QED
      BY <3>2, <3>3, <3>4
  <2> QED
    BY <2>5, <2>7 DEF NoRoom
<1>7. ASSUME i <= n, t = [s EXCEPT !.at = i + 1],
             \/ ~Small(chunks[i])
             \/ /\ ~(i > 1 /\ CanJoin(ss, chunks[i - 1], chunks[i]))
                /\ ~(i < n /\ CanJoin(ss, chunks[i], chunks[i + 1]))
      PROVE  SmallPassed(ss, t)
  <2>1. t.chunks = chunks /\ t.at = i + 1
    BY <1>1, <1>7 DEF Loops
  <2> HIDE DEF t
  <2> SUFFICES ASSUME NEW k \in 1..n, k < i + 1, Small(chunks[k]) PROVE NoRoom(ss, chunks, k)
    BY <1>2, <2>1 DEF SmallPassed
  <2>2. CASE k < i
    BY <1>5, <2>2
  <2>3. CASE k = i
    <3>1. k > 1 => ~CanJoin(ss, chunks[k - 1], chunks[k])
      BY <1>7, <2>3
    <3>2. k < n => \E m \in DOMAIN chunks[k + 1] : ~CanJoin(ss, chunks[k], SubSeq(chunks[k + 1], 1, m))
      <4> SUFFICES ASSUME k < n
                   PROVE  \E m \in DOMAIN chunks[k + 1] : ~CanJoin(ss, chunks[k], SubSeq(chunks[k + 1], 1, m))
        OBVIOUS
      <4>1. k + 1 \in 1..n
        OBVIOUS
      <4> DEFINE c == chunks[k + 1]
      <4>2. c \in Seq(U) /\ c # <<>>
        BY <1>3, <1>4, <4>1
      <4>3. ~CanJoin(ss, chunks[k], c)
        BY <1>7, <2>3
      <4> HIDE DEF c
      <4>4. SubSeq(c, 1, Len(c)) = c /\ Len(c) \in DOMAIN c
        <5>1. Len(c) \in Nat \ {0} /\ DOMAIN c = 1..Len(c)
          BY <4>2, EmptySeq, LenProperties
        <5> QED
          BY <4>2, <5>1, SubSeqFull
      <4> QED
        BY <4>3, <4>4 DEF c
    <3> QED
      BY <1>2, <3>1, <3>2 DEF NoRoom
  <2>4. k < i \/ k = i
    BY <1>1
  <2> QED
    BY <2>2, <2>3, <2>4
<1> SUFFICES SmallPassed(ss, t)
  OBVIOUS
<1> HIDE DEF t, chunks, i
<1>8. \/ i > Len(chunks) /\ t = s
      \/ ~(i > Len(chunks)) /\ ~Small(chunks[i]) /\ t = [s EXCEPT !.at = i + 1]
      \/ /\ ~(i > Len(chunks)) /\ i > 1
         /\ t = [chunks |-> Joined(chunks, i - 1), at |-> i - 1]
      \/ /\ ~(i > Len(chunks)) /\ i < Len(chunks)
         /\ t = [chunks |-> Joined(chunks, i), at |-> i]
      \/ /\ ~(i > Len(chunks))
         /\ ~(i > 1 /\ CanJoin(ss, chunks[i - 1], chunks[i]))
         /\ ~(i < Len(chunks) /\ CanJoin(ss, chunks[i], chunks[i + 1]))
         /\ t = [s EXCEPT !.at = i + 1]
  BY RescueStepCases DEF t, chunks, i
<1>9. CASE i > Len(chunks) /\ t = s
  BY <1>9
<1>10. CASE ~(i > Len(chunks)) /\ ~Small(chunks[i]) /\ t = [s EXCEPT !.at = i + 1]
  BY <1>1, <1>2, <1>7, <1>10
<1>11. CASE ~(i > Len(chunks)) /\ i > 1 /\ t = [chunks |-> Joined(chunks, i - 1), at |-> i - 1]
  <2>1. i - 1 \in 1..n - 1 /\ i - 1 <= i
    BY <1>1, <1>2, <1>11
  <2> QED
    BY <1>6, <1>11, <2>1
<1>12. CASE ~(i > Len(chunks)) /\ i < Len(chunks) /\ t = [chunks |-> Joined(chunks, i), at |-> i]
  <2>1. i \in 1..n - 1 /\ i <= i
    BY <1>1, <1>2, <1>12
  <2> QED
    BY <1>6, <1>12, <2>1
<1>13. CASE /\ ~(i > Len(chunks))
            /\ ~(i > 1 /\ CanJoin(ss, chunks[i - 1], chunks[i]))
            /\ ~(i < Len(chunks) /\ CanJoin(ss, chunks[i], chunks[i + 1]))
            /\ t = [s EXCEPT !.at = i + 1]
  <2>1. i <= n
    BY <1>1, <1>2, <1>13
  <2> QED
    BY <1>2, <1>7, <1>13, <2>1
<1> QED
  BY <1>8, <1>9, <1>10, <1>11, <1>12, <1>13

\* What chunk_document leaves below hard_min found no room.
LEMMA RescueLeavesNoRoom ==
    ASSUME NEW ss, NEW I, NEW packed \in Seq(FitChunks(ss, I))
    PROVE  \A j \in 1..Len(Rescue(ss, packed)) :
               Small(Rescue(ss, packed)[j]) => NoRoom(ss, Rescue(ss, packed), j)
<1> DEFINE F == FitChunks(ss, I)
           G == {s \in Loops(F) : SmallPassed(ss, s)}
           base == [chunks |-> packed, at |-> 1]
<1>1. PICK n \in Nat : n = Len(packed)
  BY LenProperties
<1>2. PICK loop : /\ RescueRun(ss, packed, loop, n)
                  /\ Rescue(ss, packed) = loop[2 * n].chunks
                  /\ loop[2 * n].at > Len(loop[2 * n].chunks)
                  /\ loop[2 * n].chunks \in Seq(F)
  BY <1>1, RescueEnds
<1>3. base \in G
  <2>1. base \in Loops(F) /\ base.chunks = packed /\ base.at = 1
    <3> HIDE DEF F
    <3> QED
      BY DEF Loops, F
  <2> HIDE DEF base, F
  <2>2. SmallPassed(ss, base)
    BY <1>1, <2>1 DEF SmallPassed
  <2> QED
    BY <2>1, <2>2
<1>4. \A s \in Loops(F) : s \in G => RescueStep(ss, s) \in G
  <2> SUFFICES ASSUME NEW s \in Loops(F), SmallPassed(ss, s)
               PROVE  RescueStep(ss, s) \in Loops(F) /\ SmallPassed(ss, RescueStep(ss, s))
    OBVIOUS
  <2> QED
    BY RescueStepFits, PassFindsRoom
<1> HIDE DEF G, base
<1>5. loop[2 * n] \in G
  BY <1>1, <1>2, <1>3, <1>4, RescueRunKeeps DEF base
<1> DEFINE end == loop[2 * n]
<1>6. SmallPassed(ss, end) /\ end \in Loops(F)
  BY <1>5 DEF G
<1> HIDE DEF end
<1>7. Rescue(ss, packed) = end.chunks /\ end.at > Len(end.chunks)
  BY <1>2 DEF end
<1>8. Len(end.chunks) \in Nat /\ end.at \in Nat
  <2> HIDE DEF F
  <2>1. end.chunks \in Seq(F) /\ end.at \in Nat
    BY <1>6 DEF Loops
  <2> QED
    BY <2>1, LenProperties
<1>9. \A j \in 1..Len(end.chunks) : j < end.at
  BY <1>7, <1>8
<1> QED
  BY <1>6, <1>7, <1>9 DEF SmallPassed

\* SPEC-003: whatever small chunk is stored, its neighbours had no room for it
\* when the rescue came by; the one before it has none now.
THEOREM SmallChunksFoundNoRoom ==
    ASSUME NEW W, NEW I, Chunkable(W, I)
    PROVE  Spec => []SmallFoundNoRoom
<1>1. ASSUME IInv PROVE SmallFoundNoRoom
  <2>1. CASE stage # "stored"
    <3>1. rows = <<>>
      BY <1>1, <2>1 DEF IInv, Progress
    <3> QED
      BY <3>1 DEF SmallFoundNoRoom
  <2>2. CASE stage = "stored"
    <3> DEFINE chunks == Rescue(sections, AllPacked(sections))
               C == ChunkDocument(sections)
    <3>1. /\ sections \in Seq(SectionSet(W, I)) /\ RoomForPaths(sections)
          /\ \A i \in DOMAIN rows : rows[i].chunk = C[i]
      BY <1>1, <2>2, RowsAreChunks
    <3>2. PICK n \in Nat : DOMAIN rows = 1..n /\ DOMAIN C = 1..n
      BY <1>1, <2>2, RowsAreChunks
    <3>3. AllPacked(sections) \in Seq(FitChunks(sections, I))
      BY <3>1, AllPackedFits
    <3>4. \A j \in 1..Len(chunks) : Small(chunks[j]) => NoRoom(sections, chunks, j)
      BY <3>3, RescueLeavesNoRoom
    <3>5. C = [i \in DOMAIN chunks |-> [path |-> SectionPath(sections, chunks[i]), units |-> chunks[i]]]
      BY DEF ChunkDocument
    <3> HIDE DEF chunks
    <3>6. DOMAIN chunks = 1..n /\ \A i \in 1..n : C[i].units = chunks[i]
      BY <3>2, <3>5
    <3> HIDE DEF C
    <3>7. Len(chunks) = n /\ Len(rows) = n
      <4>1. chunks \in Seq(FitChunks(sections, I))
        <5>1. PICK m \in Nat : m = Len(AllPacked(sections))
          BY <3>3, LenProperties
        <5> QED
          BY <3>3, <5>1, RescueEnds DEF chunks
      <4>2. DOMAIN chunks = 1..Len(chunks) /\ Len(chunks) \in Nat
        BY <4>1, LenProperties
      <4>3. Len(chunks) = n
        BY <3>6, <4>2
      <4>4. Len(rows) = n
        <5>1. \E k \in Nat : DOMAIN rows = 1..k
          BY <3>2
        <5> QED
          BY <3>2
      <4> QED
        BY <4>3, <4>4
    <3>8. \A i \in 1..n : Units(i) = chunks[i]
      BY <3>1, <3>2, <3>6 DEF Units
    <3> SUFFICES ASSUME NEW i \in 1..n, Small(chunks[i])
                 PROVE  /\ i > 1 => ~CanJoin(sections, Units(i - 1), chunks[i])
                        /\ i < n => \E m \in DOMAIN Units(i + 1) :
                                        ~CanJoin(sections, chunks[i], SubSeq(Units(i + 1), 1, m))
      BY <3>2, <3>7, <3>8 DEF SmallFoundNoRoom
    <3>9. NoRoom(sections, chunks, i)
      BY <3>4, <3>7
    <3>10. i > 1 => ~CanJoin(sections, Units(i - 1), chunks[i])
      <4> SUFFICES ASSUME i > 1 PROVE ~CanJoin(sections, Units(i - 1), chunks[i])
        OBVIOUS
      <4>1. i - 1 \in 1..n
        OBVIOUS
      <4> QED
        BY <3>8, <3>9, <4>1 DEF NoRoom
    <3>11. i < n => \E m \in DOMAIN Units(i + 1) : ~CanJoin(sections, chunks[i], SubSeq(Units(i + 1), 1, m))
      <4> SUFFICES ASSUME i < n
                   PROVE  \E m \in DOMAIN Units(i + 1) : ~CanJoin(sections, chunks[i], SubSeq(Units(i + 1), 1, m))
        OBVIOUS
      <4>1. i + 1 \in 1..n
        OBVIOUS
      <4> QED
        BY <3>7, <3>8, <3>9, <4>1 DEF NoRoom
    <3> QED
      BY <3>10, <3>11
  <2> QED
    BY <2>1, <2>2
<1> QED
  BY <1>1, Invariance, PTL

-----------------------------------------------------------------------------
(***************************************************************************)
(* The order in which the chunks tell the sentences of the sections.       *)
(***************************************************************************)

\* Units that go back to an earlier sentence repeat one that was there before.
InOrder(w) ==
    \A i, j \in DOMAIN w :
        i < j /\ w[j].sentence < w[i].sentence => \E k \in 1..i : w[k].sentence = w[j].sentence

\* Units that tell sentences of numbers.
NumberedUnits(U) == \A u \in U : u.sentence \in Nat

\* What follows is new and in order, or known.
LEMMA OrderGoesOn ==
    ASSUME NEW U, NumberedUnits(U), NEW v \in Seq(U), NEW w \in Seq(U), InOrder(v),
           InOrder(w) \/ SentencesIn(w) \subseteq SentencesIn(v),
           \A b \in Range(w) : \/ b.sentence \in SentencesIn(v)
                               \/ \A a \in Range(v) : a.sentence <= b.sentence
    PROVE  InOrder(v \o w)
<1> DEFINE both == v \o w
<1>1. PICK m \in Nat : m = Len(v)
  BY LenProperties
<1>2. PICK n \in Nat : n = Len(w)
  BY LenProperties
<1>3. /\ DOMAIN both = 1..m + n
      /\ \A i \in 1..m : both[i] = v[i]
      /\ \A i \in m + 1..m + n : both[i] = w[i - m] /\ i - m \in 1..n
  BY <1>1, <1>2, ConcatAt
<1>4. DOMAIN v = 1..m /\ DOMAIN w = 1..n
  BY <1>1, <1>2, LenProperties
<1>5. /\ \A i \in 1..m : v[i] \in U /\ v[i].sentence \in Nat
      /\ \A i \in 1..n : w[i] \in U /\ w[i].sentence \in Nat
  BY <1>1, <1>2, ElementOfSeq DEF NumberedUnits
<1> HIDE DEF both
<1>6. ASSUME NEW i \in 1..m, NEW x \in SentencesIn(v), x < v[i].sentence
      PROVE  \E k \in 1..i : v[k].sentence = x
  <2>1. PICK j \in 1..m : v[j].sentence = x
    BY <1>4 DEF SentencesIn, Range
  <2>2. CASE j <= i
    <3>1. j \in 1..i
      BY <2>2
    <3> QED
      BY <2>1, <3>1
  <2>3. CASE ~(j <= i)
    <3>1. i < j
      BY <2>3
    <3> QED
      BY <1>4, <1>6, <2>1, <3>1 DEF InOrder
  <2> QED
    BY <2>2, <2>3
<1>7. \A b \in Range(w) : b.sentence \in Nat
  BY <1>4, <1>5 DEF Range
<1> SUFFICES ASSUME NEW i \in 1..m + n, NEW j \in 1..m + n, i < j, both[j].sentence < both[i].sentence
             PROVE  \E k \in 1..i : both[k].sentence = both[j].sentence
  BY <1>3 DEF InOrder, both
<1>8. CASE j <= m
  <2>1. i \in 1..m /\ j \in 1..m /\ both[i] = v[i] /\ both[j] = v[j]
    BY <1>3, <1>8
  <2>2. PICK k \in 1..i : v[k].sentence = v[j].sentence
    BY <1>4, <2>1 DEF InOrder
  <2>3. k \in 1..m
    BY <2>1
  <2>4. both[k] = v[k]
    BY <1>3, <2>3
  <2> QED
    BY <2>1, <2>2, <2>4
<1>9. CASE i <= m /\ ~(j <= m)
  <2>1. i \in 1..m /\ j \in m + 1..m + n
    BY <1>9
  <2>2. both[i] = v[i] /\ both[j] = w[j - m] /\ j - m \in 1..n
    BY <1>3, <2>1
  <2>3. both[j] \in Range(w) /\ v[i] \in Range(v)
    BY <1>4, <2>1, <2>2 DEF Range
  <2>4. both[j].sentence \in SentencesIn(v)
    <3>1. SUFFICES ASSUME \A a \in Range(v) : a.sentence <= both[j].sentence PROVE FALSE
      BY <2>3
    <3>2. v[i].sentence <= both[j].sentence
      BY <2>3, <3>1
    <3>3. v[i].sentence \in Nat /\ both[j].sentence \in Nat
      BY <1>5, <1>7, <2>1, <2>3
    <3> QED
      BY <2>2, <3>2, <3>3
  <2>5. PICK k \in 1..i : v[k].sentence = both[j].sentence
    BY <1>6, <2>1, <2>2, <2>4
  <2>6. k \in 1..m
    BY <2>1
  <2>7. both[k] = v[k]
    BY <1>3, <2>6
  <2> QED
    BY <2>5, <2>7
<1>10. CASE ~(i <= m)
  <2>1. i \in m + 1..m + n /\ j \in m + 1..m + n
    BY <1>10
  <2>2. both[i] = w[i - m] /\ both[j] = w[j - m] /\ i - m \in 1..n /\ j - m \in 1..n /\ i - m < j - m
    <3>1. i - m < j - m
      BY <2>1
    <3> QED
      BY <1>3, <2>1, <3>1
  <2>3. CASE InOrder(w)
    <3>1. PICK k \in 1..i - m : w[k].sentence = w[j - m].sentence
      BY <1>4, <2>2, <2>3 DEF InOrder
    <3>2. k + m \in m + 1..m + n /\ k + m \in 1..i /\ (k + m) - m = k
      BY <2>1
    <3>3. both[k + m] = w[k]
      BY <1>3, <3>2
    <3> QED
      BY <2>2, <3>1, <3>2, <3>3
  <2>4. CASE SentencesIn(w) \subseteq SentencesIn(v)
    <3>1. w[j - m] \in Range(w)
      BY <1>4, <2>2 DEF Range
    <3>2. w[j - m].sentence \in SentencesIn(v)
      BY <2>4, <3>1 DEF SentencesIn
    <3>3. PICK k \in 1..m : v[k].sentence = w[j - m].sentence
      BY <1>4, <3>2 DEF SentencesIn, Range
    <3>4. k \in 1..i /\ both[k] = v[k]
      BY <1>3, <2>1
    <3> QED
      BY <2>2, <3>3, <3>4
  <2> QED
    BY <2>3, <2>4
<1> QED
  BY <1>8, <1>9, <1>10

LEMMA OrderNone == InOrder(<<>>) /\ SentencesIn(<<>>) = {}
BY HeldNone DEF InOrder, SentencesIn

LEMMA OrderOne ==
    ASSUME NEW u
    PROVE  InOrder(<<u>>) /\ SentencesIn(<<u>>) = {u.sentence} /\ Range(<<u>>) = {u}
<1>1. DOMAIN <<u>> = {1}
  OBVIOUS
<1>2. InOrder(<<u>>)
  BY <1>1 DEF InOrder
<1>3. Range(<<u>>) = {u}
  BY RangeOne
<1> QED
  BY <1>2, <1>3 DEF SentencesIn

\* Units whose sentences do not fall.
Ascending(w) == \A i, j \in DOMAIN w : i < j => w[i].sentence <= w[j].sentence

LEMMA HeldIsFlat ==
    ASSUME NEW U, NEW chunks \in Seq(Seq(U))
    PROVE  FlattenSeq(chunks) \in Seq(U) /\ Range(FlattenSeq(chunks)) = Held(chunks)
BY FlattenType, FlattenRange DEF Held

\* What is packed so far, chunk after chunk.
Telling(s) == FlattenSeq(s.packed) \o s.current

LEMMA TellingHolds ==
    ASSUME NEW U, NEW budget, NEW s \in Packings(U, budget)
    PROVE  /\ s.packed \in Seq(Seq(U)) /\ s.current \in Seq(U)
           /\ FlattenSeq(s.packed) \in Seq(U) /\ Telling(s) \in Seq(U)
           /\ Range(Telling(s)) = HeldBy(s)
<1> DEFINE C == Packable(U, budget)
<1>1. s.packed \in Seq(C) /\ s.current \in C \cup {<<>>}
  <2> HIDE DEF C
  <2> QED
    BY DEF Packings, C
<1>2. C \subseteq Seq(U) /\ <<>> \in Seq(U)
  BY EmptySeq DEF Packable
<1> HIDE DEF C
<1>3. s.packed \in Seq(Seq(U)) /\ s.current \in Seq(U)
  BY <1>1, <1>2, SeqMonotonic
<1>4. FlattenSeq(s.packed) \in Seq(U) /\ Range(FlattenSeq(s.packed)) = Held(s.packed)
  BY <1>3, HeldIsFlat
<1>5. Telling(s) \in Seq(U) /\ Range(Telling(s)) = Range(FlattenSeq(s.packed)) \cup Range(s.current)
  BY <1>3, <1>4, ConcatProperties, RangeConcat DEF Telling
<1> QED
  BY <1>3, <1>4, <1>5 DEF HeldBy

LEMMA AppendLater ==
    ASSUME NEW U, NEW v \in Seq(U), NEW w \in Seq(U), NEW u \in U
    PROVE  v \o Append(w, u) = (v \o w) \o <<u>>
<1>1. Append(w, u) = w \o <<u>> /\ <<u>> \in Seq(U)
  BY AppendIsConcat
<1>2. (v \o w) \o <<u>> = v \o (w \o <<u>>)
  BY <1>1, ConcatAssociative
<1> QED
  BY <1>1, <1>2

LEMMA OrderNext ==
    ASSUME NEW U, NumberedUnits(U), NEW v \in Seq(U), InOrder(v), NEW u \in U,
           \A a \in Range(v) : a.sentence <= u.sentence
    PROVE  InOrder(v \o <<u>>)
<1>1. <<u>> \in Seq(U) /\ InOrder(<<u>>) /\ Range(<<u>>) = {u}
  BY OrderOne
<1> QED
  BY <1>1, OrderGoesOn

\* A unit goes in that is not before those packed: neither it nor what its chunk
\* repeats puts the sentences out of order.
LEMMA PackUnitOrder ==
    ASSUME NEW U, Measured(U), NumberedUnits(U), NEW budget \in Nat, NEW s \in Packings(U, budget),
           NEW u \in U, InOrder(Telling(s)), \A a \in HeldBy(s) : a.sentence <= u.sentence
    PROVE  InOrder(Telling(PackUnit(s, u, budget)))
<1> DEFINE flat == FlattenSeq(s.packed)
           current == s.current
           v == flat \o current
<1>1. /\ s.packed \in Seq(Seq(U)) /\ current \in Seq(U) /\ flat \in Seq(U)
      /\ v \in Seq(U) /\ Range(v) = HeldBy(s)
  BY TellingHolds DEF Telling
<1>2. InOrder(v)
  BY DEF Telling
<1>3. CASE current # <<>> /\ TokensOf(current) + u.tokens > budget
  <2> DEFINE seed == Seed(current, u, budget)
             all  == Append(s.packed, current)
             next == Append(seed, u)
             w == v \o seed
  <2>1. PackUnit(s, u, budget) = [packed |-> all, current |-> next]
    BY <1>3 DEF PackUnit, Continue
  <2>2. seed \in Seq(U) /\ Range(seed) \subseteq Range(current)
    BY <1>1, SeedFits
  <2>3. FlattenSeq(all) = v
    BY <1>1, FlattenAppend
  <2>4. Range(v) = Range(flat) \cup Range(current)
    BY <1>1, RangeConcat
  <2> HIDE DEF seed, v
  <2>5. Telling(PackUnit(s, u, budget)) = w \o <<u>>
    <3>1. Telling(PackUnit(s, u, budget)) = v \o Append(seed, u)
      <4> HIDE DEF all
      <4>1. Telling(PackUnit(s, u, budget)) = FlattenSeq(all) \o next
        <5> HIDE DEF next
        <5>1. PackUnit(s, u, budget).packed = all /\ PackUnit(s, u, budget).current = next
          BY <2>1
        <5> QED
          BY <5>1 DEF Telling
      <4> QED
        BY <2>3, <4>1
    <3>2. v \o Append(seed, u) = (v \o seed) \o <<u>>
      BY <1>1, <2>2, AppendLater
    <3> QED
      BY <3>1, <3>2
  <2>6. w \in Seq(U) /\ Range(w) = Range(v) \cup Range(seed)
    BY <1>1, <2>2, ConcatProperties, RangeConcat
  <2>7. Range(w) = HeldBy(s)
    BY <1>1, <2>2, <2>4, <2>6
  <2>8. InOrder(w)
    <3>1. SentencesIn(seed) \subseteq SentencesIn(v) /\ \A b \in Range(seed) : b.sentence \in SentencesIn(v)
      BY <2>2, <2>4 DEF SentencesIn
    <3> QED
      BY <1>1, <1>2, <2>2, <3>1, OrderGoesOn
  <2> HIDE DEF w
  <2>9. InOrder(w \o <<u>>)
    BY <2>6, <2>7, <2>8, OrderNext
  <2> QED
    BY <2>5, <2>9
<1>4. CASE ~(current # <<>> /\ TokensOf(current) + u.tokens > budget)
  <2>1. PackUnit(s, u, budget) = [s EXCEPT !.current = Append(current, u)]
    BY <1>4 DEF PackUnit
  <2>2. /\ PackUnit(s, u, budget).packed = s.packed
        /\ PackUnit(s, u, budget).current = Append(current, u)
    BY <2>1 DEF Packings
  <2>3. Telling(PackUnit(s, u, budget)) = flat \o Append(current, u)
    BY <2>2 DEF Telling
  <2> HIDE DEF current, flat
  <2>4. Telling(PackUnit(s, u, budget)) = v \o <<u>>
    BY <1>1, <2>3, AppendLater
  <2> HIDE DEF v
  <2> QED
    BY <1>1, <1>2, <2>4, OrderNext
<1> QED
  BY <1>3, <1>4

\* The chunks of a group tell its sentences in order, though each may repeat some
\* of the one before.
LEMMA PackOrder ==
    ASSUME NEW U, Measured(U), NumberedUnits(U), NEW budget \in Nat, NEW units \in Seq(U), Ascending(units)
    PROVE  InOrder(FlattenSeq(Pack(units, budget)))
<1> DEFINE S == Packings(U, budget)
<1>1. PICK n \in Nat : n = Len(units)
  BY LenProperties
<1>2. DOMAIN units = 1..n /\ \A i \in 1..n : units[i] \in U
  BY <1>1, LenProperties, ElementOfSeq
<1>3. PICK h : PackRun(units, budget, h, n)
               /\ Pack(units, budget) = IF h[n].current = <<>> THEN h[n].packed
                                        ELSE Append(h[n].packed, h[n].current)
  BY <1>1, PackRuns
<1> DEFINE Seen(i) == {units[j] : j \in 1..i}
           G == {i \in Nat : h[i] \in S /\ HeldBy(h[i]) = Seen(i) /\ InOrder(Telling(h[i]))}
<1>4. 0 \in G
  <2> DEFINE base == [packed |-> <<>>, current |-> <<>>]
             C == Packable(U, budget)
  <2>1. base \in S
    <3>1. <<>> \in Seq(C)
      BY EmptySeq
    <3> HIDE DEF C
    <3> QED
      BY <3>1 DEF Packings, C
  <2>2. base.packed = <<>> /\ base.current = <<>> /\ h[0] = base
    BY <1>3 DEF PackRun
  <2> HIDE DEF base, S
  <2>3. HeldBy(base) = {} /\ Seen(0) = {}
    BY <2>2, HeldNone DEF HeldBy
  <2>4. Telling(base) = <<>>
    <3>1. FlattenSeq(<<>>) = <<>>
      BY FlattenNone, EmptySeq
    <3>2. <<>> \o <<>> = <<>>
      OBVIOUS
    <3> QED
      BY <2>2, <3>1, <3>2 DEF Telling
  <2>5. InOrder(Telling(base))
    BY <2>4, OrderNone
  <2> HIDE DEF Seen
  <2> QED
    BY <2>1, <2>2, <2>3, <2>5
<1>5. ASSUME NEW i \in 1..n, i - 1 \in G PROVE i \in G
  <2>1. h[i - 1] \in S /\ HeldBy(h[i - 1]) = Seen(i - 1) /\ InOrder(Telling(h[i - 1]))
    BY <1>5
  <2>2. h[i] = PackUnit(h[i - 1], units[i], budget) /\ units[i] \in U
    BY <1>2, <1>3 DEF PackRun
  <2>3. Seen(i) = Seen(i - 1) \cup {units[i]}
    <3>1. 1..i = (1..i - 1) \cup {i}
      OBVIOUS
    <3> QED
      BY <3>1
  <2>4. \A a \in Seen(i - 1) : a.sentence <= units[i].sentence
    <3> SUFFICES ASSUME NEW j \in 1..i - 1 PROVE units[j].sentence <= units[i].sentence
      OBVIOUS
    <3>1. j \in 1..n /\ j < i
      OBVIOUS
    <3> QED
      BY <1>2, <3>1 DEF Ascending
  <2> HIDE DEF Seen
  <2>5. h[i] \in S /\ HeldBy(h[i]) = Seen(i)
    BY <2>1, <2>2, <2>3, PackUnitFits
  <2>6. InOrder(Telling(h[i]))
    BY <2>1, <2>2, <2>4, PackUnitOrder
  <2>7. i \in Nat
    OBVIOUS
  <2> QED
    BY <2>5, <2>6, <2>7
<1> HIDE DEF G
<1>6. \A i \in 0..n : i \in G
  BY <1>4, <1>5, UptoInduction
<1>7. h[n] \in S /\ InOrder(Telling(h[n]))
  <2>1. n \in G
    BY <1>6
  <2> QED
    BY <2>1 DEF G
<1> DEFINE packed == h[n].packed
           current == h[n].current
<1>8. packed \in Seq(Seq(U)) /\ current \in Seq(U) /\ FlattenSeq(packed) \in Seq(U)
  BY <1>7, TellingHolds
<1>9. Telling(h[n]) = FlattenSeq(packed) \o current
  BY DEF Telling
<1> HIDE DEF packed, current, S
<1>10. Pack(units, budget) = IF current = <<>> THEN packed ELSE Append(packed, current)
  BY <1>3 DEF packed, current
<1>11. CASE current = <<>>
  <2>1. FlattenSeq(packed) \o current = FlattenSeq(packed)
    BY <1>8, <1>11, ConcatEmptySeq
  <2> QED
    BY <1>7, <1>9, <1>10, <1>11, <2>1
<1>12. CASE current # <<>>
  <2>1. FlattenSeq(Append(packed, current)) = FlattenSeq(packed) \o current
    BY <1>8, FlattenAppend
  <2> QED
    BY <1>7, <1>9, <1>10, <1>12, <2>1
<1> QED
  BY <1>11, <1>12

LEMMA RangeWithin ==
    ASSUME NEW U, NEW s \in Seq(U)
    PROVE  Range(s) \subseteq U
BY RangeEquality, ElementOfSeq

\* The units of a section whose sentences rise do not fall.
LEMMA UnitsAscend ==
    ASSUME NEW W, NEW ss \in Seq(SectionSet(W, Nat)), RoomForPaths(ss), NEW i \in DOMAIN ss,
           Rising(ss[i].sentences)
    PROVE  Ascending(UnitsOf(ss, i))
<1> DEFINE sentences == ss[i].sentences
           Set == UnitSet({i}, Nat)
           R == {p \in Set \X Set : p[1].sentence <= p[2].sentence}
<1>1. sentences \in Seq([id : Nat, tokens : Nat])
  <2>1. ss[i] \in SectionSet(W, Nat)
    OBVIOUS
  <2> QED
    BY <2>1 DEF SectionSet
<1>2. PICK n \in Nat : n = Len(sentences)
  BY <1>1
<1>3. DOMAIN sentences = 1..n /\ \A j \in 1..n : sentences[j].id \in Nat
  <2> DEFINE D == [id : Nat, tokens : Nat]
  <2>1. sentences \in Seq(D)
    BY <1>1
  <2> HIDE DEF D, sentences
  <2>2. DOMAIN sentences = 1..n /\ \A j \in 1..n : sentences[j] \in D
    BY <1>2, <2>1, LenProperties, ElementOfSeq
  <2> QED
    BY <2>2 DEF D
<1>4. PICK split : CutsOf(ss, i, Nat, split, n)
  BY <1>2, UnitsCut
<1>7. /\ split \in [1..n -> Seq(Set)] /\ UnitsOf(ss, i) = FlattenSeq(split)
       /\ \A j \in 1..n : SentencesIn(split[j]) = {sentences[j].id}
  BY <1>4 DEF CutsOf
<1>5. \A j, k \in 1..n : j < k => sentences[j].id < sentences[k].id
  BY <1>3 DEF Rising
<1> HIDE DEF sentences, Set
<1>6. \A j \in 1..n : \A u \in Range(split[j]) : u \in Set /\ u.sentence = sentences[j].id
  <2> SUFFICES ASSUME NEW j \in 1..n, NEW u \in Range(split[j])
               PROVE  u \in Set /\ u.sentence = sentences[j].id
    OBVIOUS
  <2>1. split[j] \in Seq(Set)
    BY <1>7
  <2>2. u \in Set
    BY <2>1, RangeWithin
  <2>3. u.sentence \in SentencesIn(split[j])
    BY DEF SentencesIn
  <2> QED
    BY <1>7, <2>2, <2>3
<1>8. \A j \in 1..n : Ordered(R, split[j])
  <2> SUFFICES ASSUME NEW j \in 1..n, NEW a \in DOMAIN split[j], NEW b \in DOMAIN split[j]
               PROVE  <<split[j][a], split[j][b]>> \in R
    BY DEF Ordered
  <2>1. split[j][a] \in Range(split[j]) /\ split[j][b] \in Range(split[j])
    BY DEF Range
  <2> QED
    BY <1>3, <1>6, <2>1
<1>9. \A j, k \in 1..n : j < k =>
          \A a \in Range(split[j]), b \in Range(split[k]) : <<a, b>> \in R
  BY <1>3, <1>5, <1>6
<1> HIDE DEF R
<1>10. Ordered(R, UnitsOf(ss, i))
  <2>1. split \in [1..n -> Seq(Set)] /\ n \in Nat
    BY <1>7
  <2>2. Ordered(R, FlattenSeq(split))
    BY <2>1, <1>8, <1>9, OrderedFlatten
  <2> QED
    BY <1>7, <2>2
<1> QED
  BY <1>10 DEF Ordered, Ascending, R

\* Units that may stand before others.
NotBefore(A, B) == \A a \in A, b \in B : a.sentence <= b.sentence

\* Groups that tell their units in order.
Ladder(groups) ==
    /\ \A i \in DOMAIN groups : Ascending(groups[i].units)
    /\ \A i, j \in DOMAIN groups : i < j => NotBefore(Range(groups[i].units), Range(groups[j].units))

LEMMA AscendingConcat ==
    ASSUME NEW U, NEW v \in Seq(U), NEW w \in Seq(U), Ascending(v), Ascending(w),
           NotBefore(Range(v), Range(w))
    PROVE  Ascending(v \o w)
<1> DEFINE R == {p \in U \X U : p[1].sentence <= p[2].sentence}
<1>1. ASSUME NEW x \in Seq(U) PROVE Ascending(x) <=> Ordered(R, x)
  <2>1. \A i \in DOMAIN x : x[i] \in U
    OBVIOUS
  <2> QED
    BY <2>1 DEF Ascending, Ordered
<1>2. \A a \in Range(v), b \in Range(w) : <<a, b>> \in R
  <2>1. Range(v) \subseteq U /\ Range(w) \subseteq U
    BY RangeWithin
  <2> QED
    BY <2>1 DEF NotBefore
<1> HIDE DEF R
<1>3. Ordered(R, v) /\ Ordered(R, w)
  BY <1>1
<1>4. Ordered(R, v \o w)
  BY <1>2, <1>3, OrderedConcat
<1>5. v \o w \in Seq(U)
  BY ConcatProperties
<1> QED
  BY <1>1, <1>4, <1>5

LEMMA LadderAppend ==
    ASSUME NEW G, NEW groups \in Seq(G), NEW g \in G
    PROVE  Ladder(Append(groups, g))
               <=> /\ Ladder(groups) /\ Ascending(g.units)
                   /\ NotBefore(Grouped(groups), Range(g.units))
<1> DEFINE both == Append(groups, g)
<1>1. PICK n \in Nat : n = Len(groups)
  OBVIOUS
<1>2. /\ DOMAIN groups = 1..n /\ DOMAIN both = 1..n + 1 /\ both[n + 1] = g
      /\ \A i \in 1..n : both[i] = groups[i]
  BY <1>1, AppendProperties, LenProperties
<1> HIDE DEF both
<1>3. 1..n + 1 = (1..n) \cup {n + 1} /\ \A i \in 1..n : i < n + 1 /\ i # n + 1
  OBVIOUS
<1>4. NotBefore(Grouped(groups), Range(g.units))
          <=> \A i \in 1..n : NotBefore(Range(groups[i].units), Range(g.units))
  BY <1>2 DEF NotBefore, Grouped
<1>5. ASSUME Ladder(both) PROVE Ladder(groups) /\ Ascending(g.units) /\ NotBefore(Grouped(groups), Range(g.units))
  <2>1. /\ \A i \in 1..n + 1 : Ascending(both[i].units)
        /\ \A i, j \in 1..n + 1 : i < j => NotBefore(Range(both[i].units), Range(both[j].units))
    BY <1>2, <1>5 DEF Ladder
  <2>2. \A i \in 1..n : NotBefore(Range(groups[i].units), Range(g.units))
    <3> SUFFICES ASSUME NEW i \in 1..n PROVE NotBefore(Range(groups[i].units), Range(g.units))
      OBVIOUS
    <3>1. i \in 1..n + 1 /\ n + 1 \in 1..n + 1 /\ i < n + 1
      OBVIOUS
    <3>2. NotBefore(Range(both[i].units), Range(both[n + 1].units))
      BY <2>1, <3>1
    <3> QED
      BY <1>2, <3>2
  <2>3. Ladder(groups)
    <3>1. \A i \in 1..n : i \in 1..n + 1 /\ both[i] = groups[i]
      BY <1>2
    <3>2. \A i \in 1..n : Ascending(groups[i].units)
      BY <2>1, <3>1
    <3>3. \A i, j \in 1..n : i < j => NotBefore(Range(groups[i].units), Range(groups[j].units))
      BY <2>1, <3>1
    <3> QED
      BY <1>2, <3>2, <3>3 DEF Ladder
  <2>4. Ascending(g.units)
    BY <1>2, <1>3, <2>1
  <2> QED
    BY <1>4, <2>2, <2>3, <2>4
<1>6. ASSUME Ladder(groups), Ascending(g.units), NotBefore(Grouped(groups), Range(g.units))
      PROVE  Ladder(both)
  <2>1. /\ \A i \in 1..n : Ascending(groups[i].units)
        /\ \A i, j \in 1..n : i < j => NotBefore(Range(groups[i].units), Range(groups[j].units))
    BY <1>2, <1>6 DEF Ladder
  <2>2. \A i \in 1..n : NotBefore(Range(groups[i].units), Range(g.units))
    BY <1>4, <1>6
  <2>3. ASSUME NEW i \in 1..n + 1 PROVE Ascending(both[i].units)
    <3>1. CASE i \in 1..n
      BY <1>2, <2>1, <3>1
    <3>2. CASE i = n + 1
      BY <1>2, <1>6, <3>2
    <3> QED
      BY <1>3, <3>1, <3>2
  <2>4. ASSUME NEW i \in 1..n + 1, NEW j \in 1..n + 1, i < j
        PROVE  NotBefore(Range(both[i].units), Range(both[j].units))
    <3>1. i \in 1..n /\ both[i] = groups[i]
      BY <1>2, <2>4
    <3>2. CASE j \in 1..n
      BY <1>2, <2>1, <2>4, <3>1, <3>2
    <3>3. CASE j = n + 1
      BY <1>2, <2>2, <3>1, <3>3
    <3> QED
      BY <1>3, <3>2, <3>3
  <2> QED
    BY <1>2, <2>3, <2>4 DEF Ladder
<1> QED
  BY <1>5, <1>6 DEF both

\* Units in order that are not before the groups' leave the groups in order.
LEMMA LadderGrows ==
    ASSUME NEW G, NEW F, \A g \in G : g.units \in Seq(F), NEW groups \in Seq(G), Ladder(groups),
           NEW units \in Seq(F), Ascending(units), NotBefore(Grouped(groups), Range(units)),
           NEW grown, Grows(G, groups, units, grown)
    PROVE  Ladder(grown)
<1>1. CASE units = <<>> /\ grown = groups
  BY <1>1
<1>2. CASE \E g \in G : g.units = units /\ grown = Append(groups, g)
  <2>1. PICK g \in G : g.units = units /\ grown = Append(groups, g)
    BY <1>2
  <2> QED
    BY <2>1, LadderAppend
<1>3. CASE \E front \in Seq(G), last \in G, g \in G :
               /\ groups = Append(front, last) /\ grown = Append(front, g)
               /\ g.units = last.units \o units
  <2>1. PICK front \in Seq(G), last \in G, g \in G :
                 /\ groups = Append(front, last) /\ grown = Append(front, g)
                 /\ g.units = last.units \o units
    BY <1>3
  <2>2. Ladder(front) /\ Ascending(last.units) /\ NotBefore(Grouped(front), Range(last.units))
    BY <2>1, LadderAppend
  <2>3. Grouped(groups) = Grouped(front) \cup Range(last.units)
    BY <2>1, GroupedAppend
  <2>4. NotBefore(Grouped(front), Range(units)) /\ NotBefore(Range(last.units), Range(units))
    BY <2>3 DEF NotBefore
  <2>5. last.units \in Seq(F)
    OBVIOUS
  <2>6. Ascending(g.units)
    BY <2>1, <2>2, <2>4, <2>5, AscendingConcat
  <2>7. Range(g.units) = Range(last.units) \cup Range(units)
    BY <2>1, <2>5, RangeConcat
  <2>8. NotBefore(Grouped(front), Range(g.units))
    BY <2>2, <2>4, <2>7 DEF NotBefore
  <2> QED
    BY <2>1, <2>2, <2>6, <2>8, LadderAppend
<1> QED
  BY <1>1, <1>2, <1>3 DEF Grows

\* Sections in order make groups in order.
LEMMA GroupsLadder ==
    ASSUME NEW W, NEW ss \in Seq(SectionSet(W, Nat)), RoomForPaths(ss), InSequence(ss)
    PROVE  Ladder(Groups(ss))
<1> DEFINE Set == GroupSet(ss, W, Nat)
           F == FitUnits(ss, DOMAIN ss, Nat)
<1>1. PICK n \in Nat : n = Len(ss)
  OBVIOUS
<1>2. DOMAIN ss = 1..n
  BY <1>1, LenProperties
<1>3. PICK h : GroupRun(ss, h, n) /\ Groups(ss) = h[n]
  BY <1>1, GroupsRun
<1>4. h[0] = <<>> /\ \A i \in 1..n : h[i] = AddToGroups(ss, h[i - 1], i)
  BY <1>3 DEF GroupRun
<1>5. \A g \in Set : g.units \in Seq(F)
  BY DEF GroupSet
<1>6. \A i \in 1..n : UnitsOf(ss, i) \in Seq(F) /\ Ascending(UnitsOf(ss, i))
  <2> SUFFICES ASSUME NEW i \in 1..n PROVE UnitsOf(ss, i) \in Seq(F) /\ Ascending(UnitsOf(ss, i))
    OBVIOUS
  <2>1. i \in DOMAIN ss
    BY <1>2
  <2>2. UnitsOf(ss, i) \in Seq(FitUnits(ss, {i}, Nat))
    BY <2>1, UnitsFit
  <2>3. UnitsOf(ss, i) \in Seq(F)
    BY <2>1, <2>2, FitMonotonic
  <2>4. Ascending(UnitsOf(ss, i))
    BY <2>1, UnitsAscend DEF InSequence
  <2> QED
    BY <2>3, <2>4
<1>7. \A i, j \in 1..n : i < j => NotBefore(Range(UnitsOf(ss, i)), Range(UnitsOf(ss, j)))
  <2> SUFFICES ASSUME NEW i \in 1..n, NEW j \in 1..n, i < j,
                      NEW a \in Range(UnitsOf(ss, i)), NEW b \in Range(UnitsOf(ss, j))
               PROVE  a.sentence <= b.sentence
    BY DEF NotBefore
  <2>1. a.sentence \in Ids(ss[i].sentences) /\ b.sentence \in Ids(ss[j].sentences)
    <3>1. i \in DOMAIN ss /\ j \in DOMAIN ss
      BY <1>2
    <3>2. /\ SentencesIn(UnitsOf(ss, i)) = Ids(ss[i].sentences)
          /\ SentencesIn(UnitsOf(ss, j)) = Ids(ss[j].sentences)
      BY <3>1, UnitsTell
    <3> QED
      BY <3>2 DEF SentencesIn
  <2>2. a.sentence < b.sentence
    <3>1. \A s \in Ids(ss[i].sentences), t \in Ids(ss[j].sentences) : s < t
      BY <1>2 DEF InSequence
    <3> QED
      BY <2>1, <3>1
  <2>3. a \in F /\ b \in F
    <3>1. UnitsOf(ss, i) \in Seq(F) /\ UnitsOf(ss, j) \in Seq(F)
      BY <1>6
    <3> HIDE DEF F
    <3>2. Range(UnitsOf(ss, i)) \subseteq F /\ Range(UnitsOf(ss, j)) \subseteq F
      BY <3>1, RangeWithin
    <3> QED
      BY <3>2
  <2>4. a.sentence \in Nat /\ b.sentence \in Nat
    BY <2>3 DEF FitUnits, UnitSet
  <2> QED
    BY <2>2, <2>4
<1> HIDE DEF Set, F
<1> DEFINE Seen(i) == UNION {Range(UnitsOf(ss, j)) : j \in 1..i}
           G == {i \in Nat : h[i] \in Seq(Set) /\ Grouped(h[i]) = Seen(i) /\ Ladder(h[i])}
<1>8. 0 \in G
  <2>1. Seen(0) = {}
    OBVIOUS
  <2>2. <<>> \in Seq(Set) /\ Grouped(<<>>) = {} /\ Ladder(<<>>)
    BY EmptySeq DEF Grouped, Ladder
  <2> QED
    BY <1>4, <2>1, <2>2
<1>9. ASSUME NEW i \in 1..n, i - 1 \in G PROVE i \in G
  <2>1. h[i - 1] \in Seq(Set) /\ Grouped(h[i - 1]) = Seen(i - 1) /\ Ladder(h[i - 1])
    BY <1>9
  <2>2. h[i] = AddToGroups(ss, h[i - 1], i) /\ i \in DOMAIN ss
    BY <1>2, <1>4
  <2>3. Seen(i) = Seen(i - 1) \cup Range(UnitsOf(ss, i))
    <3>1. 1..i = (1..i - 1) \cup {i}
      OBVIOUS
    <3> QED
      BY <3>1
  <2>4. NotBefore(Seen(i - 1), Range(UnitsOf(ss, i)))
    <3> SUFFICES ASSUME NEW j \in 1..i - 1, NEW a \in Range(UnitsOf(ss, j)), NEW b \in Range(UnitsOf(ss, i))
                 PROVE  a.sentence <= b.sentence
      BY DEF NotBefore
    <3>1. j \in 1..n /\ j < i
      OBVIOUS
    <3> QED
      BY <1>7, <3>1 DEF NotBefore
  <2> HIDE DEF Seen
  <2>5. h[i] \in Seq(Set) /\ Grouped(h[i]) = Seen(i)
    BY <2>1, <2>2, <2>3, AddToGroupsFits DEF Set
  <2>6. Grows(Set, h[i - 1], UnitsOf(ss, i), h[i])
    BY <2>1, <2>2, AddToGroupsGrows DEF Set
  <2>7. Ladder(h[i])
    BY <1>5, <1>6, <2>1, <2>4, <2>6, LadderGrows
  <2>8. i \in Nat
    OBVIOUS
  <2> QED
    BY <2>5, <2>7, <2>8
<1> HIDE DEF G
<1>10. \A i \in 0..n : i \in G
  BY <1>8, <1>9, UptoInduction
<1>11. n \in G
  BY <1>10
<1> QED
  BY <1>3, <1>11 DEF G

LEMMA FlattenTwo ==
    ASSUME NEW U, NEW a \in Seq(U), NEW b \in Seq(U)
    PROVE  /\ <<a>> \o <<b>> \in Seq(Seq(U)) /\ FlattenSeq(<<a>> \o <<b>>) = a \o b
<1> DEFINE oneA == <<a>>
           oneB == <<b>>
<1>1. oneA \in Seq(Seq(U)) /\ oneB \in Seq(Seq(U))
  OBVIOUS
<1>2. FlattenSeq(oneA) = a /\ FlattenSeq(oneB) = b
  BY FlattenOne
<1> HIDE DEF oneA, oneB
<1>3. FlattenSeq(oneA \o oneB) = a \o b /\ oneA \o oneB \in Seq(Seq(U))
  BY <1>1, <1>2, FlattenConcat, ConcatProperties
<1> QED
  BY <1>3 DEF oneA, oneB

\* Two sequences between two others, each for itself and as one.
Apart(l, a, b, r) == l \o (a \o (b \o r))
Between(l, m, r) == (l \o m) \o r

LEMMA RegroupFour ==
    ASSUME NEW V, NEW l \in Seq(V), NEW a \in Seq(V), NEW b \in Seq(V), NEW r \in Seq(V)
    PROVE  Apart(l, a, b, r) = Between(l, a \o b, r)
<1>1. a \o (b \o r) = (a \o b) \o r
  BY ConcatAssociative
<1>2. a \o b \in Seq(V)
  BY ConcatProperties
<1>3. l \o ((a \o b) \o r) = (l \o (a \o b)) \o r
  BY <1>2, ConcatAssociative, SMTT(60)
<1> QED
  BY <1>1, <1>3 DEF Apart, Between

\* A join does not change what the chunks tell.
LEMMA JoinedTells ==
    ASSUME NEW U, NEW chunks \in Seq(Seq(U)), NEW n \in Nat, n = Len(chunks), NEW i \in 1..n - 1
    PROVE  FlattenSeq(Joined(chunks, i)) = FlattenSeq(chunks)
<1> DEFINE V == Seq(U)
           a == chunks[i]
           b == chunks[i + 1]
           oneA == <<a>>
           oneB == <<b>>
           oneAB == <<a \o b>>
<1>1. a \in V /\ b \in V
  <2>1. i \in 1..n /\ i + 1 \in 1..n
    OBVIOUS
  <2> HIDE DEF V
  <2>2. chunks \in Seq(V)
    BY DEF V
  <2> QED
    BY <2>1, <2>2, ElementOfSeq
<1>2. PICK left, right : PartedAt(V, chunks, n, i, left, right)
  BY JoinedParts
<1>3. left \in Seq(V) /\ right \in Seq(V)
  BY <1>2 DEF PartedAt
<1>4. chunks = left \o (oneA \o (oneB \o right))
  BY <1>2 DEF PartedAt
<1>5. Joined(chunks, i) = (left \o oneAB) \o right
  BY <1>2 DEF Joined, PartedAt
<1> HIDE DEF a, b
<1>6. a \o b \in Seq(U)
  BY <1>1, ConcatProperties
<1>7. oneA \in Seq(V) /\ oneB \in Seq(V) /\ oneAB \in Seq(V)
  BY <1>1, <1>6
<1>8. FlattenSeq(oneAB) = a \o b
  BY <1>6, FlattenOne
<1>9. FlattenSeq(oneA \o oneB) = a \o b /\ oneA \o oneB \in Seq(V)
  BY <1>1, FlattenTwo
<1> DEFINE two == oneA \o oneB
           most == left \o two
           less == left \o oneAB
<1>10. chunks = most \o right
  <2>1. chunks = Apart(left, oneA, oneB, right)
    BY <1>4 DEF Apart
  <2> HIDE DEF oneA, oneB, V
  <2>2. chunks = Between(left, two, right)
    BY <1>3, <1>7, <2>1, RegroupFour
  <2> QED
    BY <2>2 DEF Between
<1> HIDE DEF oneA, oneB, oneAB
<1>11. two \in Seq(V) /\ FlattenSeq(two) = FlattenSeq(oneAB)
  BY <1>8, <1>9
<1> HIDE DEF two
<1>12. most \in Seq(V) /\ FlattenSeq(most) = FlattenSeq(left) \o FlattenSeq(two)
  BY <1>3, <1>11, FlattenConcat, ConcatProperties
<1>13. less \in Seq(V) /\ FlattenSeq(less) = FlattenSeq(left) \o FlattenSeq(oneAB)
  BY <1>3, <1>7, FlattenConcat, ConcatProperties
<1>14. Joined(chunks, i) = less \o right
  BY <1>5
<1>15. FlattenSeq(most) = FlattenSeq(less)
  BY <1>11, <1>12, <1>13
<1> HIDE DEF most, less
<1>16. FlattenSeq(most \o right) = FlattenSeq(most) \o FlattenSeq(right)
  BY <1>3, <1>12, FlattenConcat
<1>17. FlattenSeq(less \o right) = FlattenSeq(less) \o FlattenSeq(right)
  BY <1>3, <1>13, FlattenConcat
<1> QED
  BY <1>10, <1>14, <1>15, <1>16, <1>17

LEMMA RescueStepTells ==
    ASSUME NEW ss, NEW I, NEW s \in Loops(FitChunks(ss, I))
    PROVE  FlattenSeq(RescueStep(ss, s).chunks) = FlattenSeq(s.chunks)
<1> DEFINE F == FitChunks(ss, I)
           U == FitUnits(ss, DOMAIN ss, I)
           t == RescueStep(ss, s)
<1>1. PICK chunks, i : chunks = s.chunks /\ i = s.at
  OBVIOUS
<1>2. chunks \in Seq(F) /\ i \in Nat \ {0}
  <2> HIDE DEF F
  <2> QED
    BY <1>1 DEF Loops, F
<1>3. F \subseteq Seq(U)
  BY DEF FitChunks
<1> HIDE DEF F, U
<1>4. chunks \in Seq(Seq(U))
  BY <1>2, <1>3, SeqMonotonic
<1>5. PICK n \in Nat : n = Len(chunks)
  BY <1>4, LenProperties
<1>6. ASSUME NEW j \in 1..n - 1, NEW at, t = [chunks |-> Joined(chunks, j), at |-> at]
      PROVE  FlattenSeq(t.chunks) = FlattenSeq(chunks)
  <2>1. t.chunks = Joined(chunks, j)
    BY <1>6
  <2> HIDE DEF t
  <2> QED
    BY <1>4, <1>5, <2>1, JoinedTells
<1>7. ASSUME t = [s EXCEPT !.at = i + 1] PROVE FlattenSeq(t.chunks) = FlattenSeq(chunks)
  <2>1. t.chunks = s.chunks
    BY <1>7 DEF Loops
  <2> QED
    BY <1>1, <2>1
<1>8. \/ i > Len(chunks) /\ t = s
      \/ t = [s EXCEPT !.at = i + 1]
      \/ ~(i > Len(chunks)) /\ i > 1 /\ t = [chunks |-> Joined(chunks, i - 1), at |-> i - 1]
      \/ ~(i > Len(chunks)) /\ i < Len(chunks) /\ t = [chunks |-> Joined(chunks, i), at |-> i]
  BY <1>1, RescueStepCases
<1> HIDE DEF t
<1>9. CASE i > Len(chunks) /\ t = s
  BY <1>1, <1>9 DEF t
<1>10. CASE t = [s EXCEPT !.at = i + 1]
  BY <1>1, <1>7, <1>10 DEF t
<1>11. CASE ~(i > Len(chunks)) /\ i > 1 /\ t = [chunks |-> Joined(chunks, i - 1), at |-> i - 1]
  <2>1. i - 1 \in 1..n - 1
    BY <1>2, <1>5, <1>11
  <2> QED
    BY <1>1, <1>6, <1>11, <2>1 DEF t
<1>12. CASE ~(i > Len(chunks)) /\ i < Len(chunks) /\ t = [chunks |-> Joined(chunks, i), at |-> i]
  <2>1. i \in 1..n - 1
    BY <1>2, <1>5, <1>12
  <2> QED
    BY <1>1, <1>6, <1>12, <2>1 DEF t
<1> QED
  BY <1>8, <1>9, <1>10, <1>11, <1>12

\* The rescue does not either.
LEMMA RescueTells ==
    ASSUME NEW ss, NEW I, NEW packed \in Seq(FitChunks(ss, I))
    PROVE  FlattenSeq(Rescue(ss, packed)) = FlattenSeq(packed)
<1> DEFINE F == FitChunks(ss, I)
           G == {s \in Loops(F) : FlattenSeq(s.chunks) = FlattenSeq(packed)}
           base == [chunks |-> packed, at |-> 1]
<1>1. PICK n \in Nat : n = Len(packed)
  BY LenProperties
<1>2. PICK loop : /\ RescueRun(ss, packed, loop, n)
                  /\ Rescue(ss, packed) = loop[2 * n].chunks
                  /\ loop[2 * n].at > Len(loop[2 * n].chunks)
                  /\ loop[2 * n].chunks \in Seq(F)
  BY <1>1, RescueEnds
<1>3. base \in G
  <2>1. base \in Loops(F) /\ base.chunks = packed
    <3> HIDE DEF F
    <3> QED
      BY DEF Loops, F
  <2> HIDE DEF base, F
  <2> QED
    BY <2>1
<1>4. \A s \in Loops(F) : s \in G => RescueStep(ss, s) \in G
  <2> SUFFICES ASSUME NEW s \in Loops(F), FlattenSeq(s.chunks) = FlattenSeq(packed)
               PROVE  RescueStep(ss, s) \in Loops(F)
                      /\ FlattenSeq(RescueStep(ss, s).chunks) = FlattenSeq(packed)
    OBVIOUS
  <2> QED
    BY RescueStepFits, RescueStepTells
<1> HIDE DEF G, base
<1>5. loop[2 * n] \in G
  BY <1>1, <1>2, <1>3, <1>4, RescueRunKeeps DEF base
<1>6. FlattenSeq(loop[2 * n].chunks) = FlattenSeq(packed)
  BY <1>5 DEF G
<1> QED
  BY <1>2, <1>6

LEMMA UnitsNumbered ==
    ASSUME NEW ss, NEW group
    PROVE  NumberedUnits(FitUnits(ss, group, Nat))
BY DEF NumberedUnits, FitUnits, UnitSet

\* What the chunks of a group tell.
LEMMA PackedGroupTells ==
    ASSUME NEW W, NEW ss \in Seq(SectionSet(W, Nat)), RoomForPaths(ss),
           NEW g \in GroupSet(ss, W, Nat), Ascending(g.units)
    PROVE  /\ PackedGroup(ss, g) \in Seq(Seq(FitUnits(ss, DOMAIN ss, Nat)))
           /\ FlattenSeq(PackedGroup(ss, g)) \in Seq(FitUnits(ss, DOMAIN ss, Nat))
           /\ Range(FlattenSeq(PackedGroup(ss, g))) = Range(g.units)
           /\ InOrder(FlattenSeq(PackedGroup(ss, g)))
<1> DEFINE F == FitChunks(ss, Nat)
           U == FitUnits(ss, DOMAIN ss, Nat)
           V == FitUnits(ss, g.sections, Nat)
           chunks == PackedGroup(ss, g)
<1>1. /\ chunks \in Seq(F) /\ Held(chunks) = Range(g.units)
      /\ FlattenSeq(chunks) = FlattenSeq(Pack(g.units, Budget(ss, g)))
  BY PackedGroupFits
<1>2. F \subseteq Seq(U)
  BY DEF FitChunks
<1>3. g.units \in Seq(V)
  BY DEF GroupSet
<1>4. Budget(ss, g) \in Nat
  BY BudgetType
<1>5. Measured(V) /\ NumberedUnits(V)
  BY UnitsMeasured, UnitsNumbered
<1> HIDE DEF F, U, V, chunks
<1>6. chunks \in Seq(Seq(U))
  BY <1>1, <1>2, SeqMonotonic
<1>7. FlattenSeq(chunks) \in Seq(U) /\ Range(FlattenSeq(chunks)) = Range(g.units)
  BY <1>1, <1>6, HeldIsFlat
<1>8. InOrder(FlattenSeq(chunks))
  BY <1>1, <1>3, <1>4, <1>5, PackOrder
<1> QED
  BY <1>6, <1>7, <1>8 DEF chunks, U

\* All packed chunks tell the sentences of the sections in order.
LEMMA AllPackedOrder ==
    ASSUME NEW W, NEW ss \in Seq(SectionSet(W, Nat)), RoomForPaths(ss), InSequence(ss)
    PROVE  InOrder(FlattenSeq(AllPacked(ss)))
<1> DEFINE Set == GroupSet(ss, W, Nat)
           U == FitUnits(ss, DOMAIN ss, Nat)
           groups == Groups(ss)
           packs == [i \in DOMAIN groups |-> PackedGroup(ss, groups[i])]
<1>1. AllPacked(ss) = FlattenSeq(packs)
  BY DEF AllPacked, PackedGroup
<1>2. groups \in Seq(Set) /\ Ladder(groups)
  BY GroupsFit, GroupsLadder
<1> HIDE DEF groups
<1>3. PICK n \in Nat : n = Len(groups)
  BY <1>2
<1>4. DOMAIN groups = 1..n /\ \A i \in 1..n : groups[i] \in Set
  <2> HIDE DEF Set
  <2> QED
    BY <1>2, <1>3, LenProperties, ElementOfSeq
<1>5. /\ \A i \in 1..n : Ascending(groups[i].units)
      /\ \A i, j \in 1..n : i < j => NotBefore(Range(groups[i].units), Range(groups[j].units))
  BY <1>2, <1>4 DEF Ladder
<1>6. \A i \in 1..n : /\ PackedGroup(ss, groups[i]) \in Seq(Seq(U))
                      /\ FlattenSeq(PackedGroup(ss, groups[i])) \in Seq(U)
                      /\ Range(FlattenSeq(PackedGroup(ss, groups[i]))) = Range(groups[i].units)
                      /\ InOrder(FlattenSeq(PackedGroup(ss, groups[i])))
  BY <1>4, <1>5, PackedGroupTells
<1>7. NumberedUnits(U)
  BY UnitsNumbered
<1> HIDE DEF U, Set
<1>8. packs \in [1..n -> Seq(Seq(U))] /\ \A i \in 1..n : packs[i] = PackedGroup(ss, groups[i])
  BY <1>4, <1>6
<1> HIDE DEF packs
<1> DEFINE S == Seq(U)
           ToldBy(k) == FlattenSeq(FlatTo(packs, k))
           Seen(k) == UNION {Range(groups[j].units) : j \in 1..k}
           G == {k \in 0..n : Range(ToldBy(k)) = Seen(k) /\ InOrder(ToldBy(k))}
<1>9. /\ FlatTo(packs, 0) = <<>> /\ FlatTo(packs, n) = FlattenSeq(packs)
      /\ \A k \in 0..n : FlatTo(packs, k) \in Seq(S)
      /\ \A k \in 1..n : FlatTo(packs, k) = FlatTo(packs, k - 1) \o packs[k]
  <2>1. packs \in [1..n -> Seq(S)]
    BY <1>8
  <2> HIDE DEF S
  <2> QED
    BY <2>1, FlatStep
<1>10. 0 \in G
  <2>1. FlattenSeq(<<>>) = <<>>
    BY FlattenNone, EmptySeq
  <2>2. ToldBy(0) = <<>>
    BY <1>9, <2>1
  <2>3. Seen(0) = {}
    OBVIOUS
  <2>4. 0 \in 0..n
    OBVIOUS
  <2> HIDE DEF ToldBy, Seen
  <2> QED
    BY <2>2, <2>3, <2>4, HeldNone, OrderNone
<1>11. ASSUME NEW k \in 1..n, k - 1 \in G PROVE k \in G
  <2> DEFINE before == FlatTo(packs, k - 1)
             v == ToldBy(k - 1)
             w == FlattenSeq(packs[k])
  <2>1. k - 1 \in 0..n /\ k \in 0..n
    OBVIOUS
  <2>2. before \in Seq(S) /\ FlatTo(packs, k) = before \o packs[k]
    BY <1>9, <2>1
  <2>3. /\ packs[k] \in Seq(Seq(U)) /\ w \in Seq(U) /\ Range(w) = Range(groups[k].units)
        /\ InOrder(w)
    BY <1>6, <1>8
  <2>4. Range(v) = Seen(k - 1) /\ InOrder(v)
    BY <1>11
  <2>5. Seen(k) = Seen(k - 1) \cup Range(groups[k].units)
    <3>1. 1..k = (1..k - 1) \cup {k}
      OBVIOUS
    <3> QED
      BY <3>1
  <2>6. NotBefore(Seen(k - 1), Range(groups[k].units))
    <3> SUFFICES ASSUME NEW j \in 1..k - 1, NEW a \in Range(groups[j].units),
                        NEW b \in Range(groups[k].units)
                 PROVE  a.sentence <= b.sentence
      BY DEF NotBefore
    <3>1. j \in 1..n /\ j < k
      OBVIOUS
    <3> QED
      BY <1>5, <3>1 DEF NotBefore
  <2> HIDE DEF Seen
  <2>7. v \in Seq(U) /\ ToldBy(k) = v \o w
    <3>1. before \in Seq(Seq(U))
      BY <2>2
    <3> HIDE DEF before
    <3>2. FlattenSeq(before) \in Seq(U)
      BY <3>1, FlattenType
    <3>3. FlattenSeq(before \o packs[k]) = FlattenSeq(before) \o FlattenSeq(packs[k])
      BY <2>3, <3>1, FlattenConcat
    <3> QED
      BY <2>2, <3>2, <3>3 DEF before
  <2> HIDE DEF v, w, ToldBy
  <2>8. InOrder(v \o w)
    <3>1. \A b \in Range(w) : \A a \in Range(v) : a.sentence <= b.sentence
      BY <2>3, <2>4, <2>6 DEF NotBefore
    <3> QED
      BY <1>7, <2>3, <2>4, <2>7, <3>1, OrderGoesOn
  <2>9. Range(v \o w) = Range(v) \cup Range(w)
    BY <2>3, <2>7, RangeConcat
  <2> QED
    BY <2>1, <2>3, <2>4, <2>5, <2>7, <2>8, <2>9
<1> HIDE DEF G
<1>12. \A k \in 0..n : k \in G
  BY <1>10, <1>11, UptoInduction
<1>13. n \in G
  BY <1>12
<1> QED
  BY <1>1, <1>9, <1>13 DEF G

\* chunk_document tells the sentences of sections in order in order.
LEMMA ChunksInOrder ==
    ASSUME NEW W, NEW ss \in Seq(SectionSet(W, Nat)), RoomForPaths(ss), InSequence(ss)
    PROVE  InOrder(FlattenSeq(Rescue(ss, AllPacked(ss))))
<1>1. AllPacked(ss) \in Seq(FitChunks(ss, Nat))
  BY AllPackedFits
<1>2. FlattenSeq(Rescue(ss, AllPacked(ss))) = FlattenSeq(AllPacked(ss))
  BY <1>1, RescueTells
<1>3. InOrder(FlattenSeq(AllPacked(ss)))
  BY AllPackedOrder
<1> QED
  BY <1>2, <1>3

ToldInOrder == stage = "stored" => InOrder(Told)

\* The chunker's part of the order: the rows of a document tell the sentences of
\* its sections in the order of the sections, and what goes back repeats what was told.
THEOREM SectionsAreToldInOrder ==
    ASSUME NEW W, Chunkable(W, Nat), \A f \in Files : InSequence(Sectioned(f))
    PROVE  Spec => []ToldInOrder
<1>1. ASSUME IInv, stage = "stored" PROVE InOrder(Told)
  <2> DEFINE packed == Rescue(sections, AllPacked(sections))
             told == [i \in DOMAIN rows |-> rows[i].chunk.units]
  <2>1. /\ sections \in Seq(SectionSet(W, Nat)) /\ RoomForPaths(sections)
        /\ \A i \in DOMAIN rows : rows[i].chunk = ChunkDocument(sections)[i]
    BY <1>1, RowsAreChunks
  <2>2. PICK n \in Nat : DOMAIN rows = 1..n /\ DOMAIN ChunkDocument(sections) = 1..n
    BY <1>1, RowsAreChunks
  <2>3. InSequence(sections)
    BY <1>1 DEF IInv, Progress
  <2>4. AllPacked(sections) \in Seq(FitChunks(sections, Nat))
    BY <2>1, AllPackedFits
  <2>5. packed \in Seq(FitChunks(sections, Nat))
    <3>1. PICK m \in Nat : m = Len(AllPacked(sections))
      BY <2>4, LenProperties
    <3> QED
      BY <2>4, <3>1, RescueEnds
  <2>6. ChunkDocument(sections) = [i \in DOMAIN packed |-> [path |-> SectionPath(sections, packed[i]),
                                                           units |-> packed[i]]]
    BY DEF ChunkDocument
  <2>7. InOrder(FlattenSeq(packed))
    BY <2>1, <2>3, ChunksInOrder
  <2> HIDE DEF packed
  <2>8. DOMAIN packed = 1..n /\ \A i \in 1..n : ChunkDocument(sections)[i].units = packed[i]
    BY <2>2, <2>6
  <2>9. told = packed
    <3>1. told = [i \in 1..n |-> packed[i]]
      <4>1. \A i \in 1..n : rows[i].chunk.units = packed[i]
        BY <2>1, <2>2, <2>8
      <4> QED
        BY <2>2, <4>1
    <3>2. packed = [i \in 1..n |-> packed[i]]
      BY <2>5, <2>8
    <3> HIDE DEF told
    <3> QED
      BY <3>1, <3>2
  <2>10. Told = FlattenSeq(told)
    BY DEF Told
  <2> QED
    BY <2>7, <2>9, <2>10
<1>2. IInv => ToldInOrder
  BY <1>1 DEF ToldInOrder
<1>3. Spec => []IInv
  BY Invariance
<1> QED
  BY <1>2, <1>3, PTL

-----------------------------------------------------------------------------
(***************************************************************************)
(* What a loader finds: sections, their sentences and the order of these.  *)
(***************************************************************************)

\* The sentences of sections, or of the parts of a file.
IdsOf(ss) == UNION {Ids(ss[i].sentences) : i \in DOMAIN ss}

Numbered == [id : Nat, tokens : Nat]

\* All of one come before all of the other.
Precedes(A, B) == \A a \in A, b \in B : a < b

LEMMA IdsConcat ==
    ASSUME NEW D, NEW v \in Seq(D), NEW w \in Seq(D)
    PROVE  Ids(v \o w) = Ids(v) \cup Ids(w)
<1>1. Range(v \o w) = Range(v) \cup Range(w)
  BY RangeConcat
<1> QED
  BY <1>1 DEF Ids

LEMMA IdsNone == Ids(<<>>) = {}
BY HeldNone DEF Ids

LEMMA IdsFlatten ==
    ASSUME NEW D, NEW f \in Seq(Seq(D))
    PROVE  Ids(FlattenSeq(f)) = UNION {Ids(f[i]) : i \in DOMAIN f}
<1>1. Range(FlattenSeq(f)) = UNION {Range(f[i]) : i \in DOMAIN f}
  BY FlattenRange
<1> QED
  BY <1>1 DEF Ids

LEMMA RisingConcat ==
    ASSUME NEW D, NEW v \in Seq(D), NEW w \in Seq(D), Rising(v), Rising(w), Precedes(Ids(v), Ids(w))
    PROVE  Rising(v \o w)
<1> DEFINE R == {p \in D \X D : p[1].id < p[2].id}
<1>1. ASSUME NEW x \in Seq(D) PROVE Rising(x) <=> Ordered(R, x)
  <2>1. \A i \in DOMAIN x : x[i] \in D
    OBVIOUS
  <2> QED
    BY <2>1 DEF Rising, Ordered
<1>2. \A a \in Range(v), b \in Range(w) : <<a, b>> \in R
  <2>1. Range(v) \subseteq D /\ Range(w) \subseteq D
    BY RangeWithin
  <2> QED
    BY <2>1 DEF Precedes, Ids
<1> HIDE DEF R
<1>3. Ordered(R, v) /\ Ordered(R, w)
  BY <1>1
<1>4. Ordered(R, v \o w)
  BY <1>2, <1>3, OrderedConcat
<1>5. v \o w \in Seq(D)
  BY ConcatProperties
<1> QED
  BY <1>1, <1>4, <1>5

\* The same for pieces.
LEMMA RisingFlatten ==
    ASSUME NEW D, NEW n \in Nat, NEW f \in [1..n -> Seq(D)], \A i \in 1..n : Rising(f[i]),
           \A i, j \in 1..n : i < j => Precedes(Ids(f[i]), Ids(f[j]))
    PROVE  Rising(FlattenSeq(f))
<1> DEFINE R == {p \in D \X D : p[1].id < p[2].id}
<1>1. ASSUME NEW x \in Seq(D) PROVE Rising(x) <=> Ordered(R, x)
  <2>1. \A i \in DOMAIN x : x[i] \in D
    OBVIOUS
  <2> QED
    BY <2>1 DEF Rising, Ordered
<1>2. \A i, j \in 1..n : i < j => \A a \in Range(f[i]), b \in Range(f[j]) : <<a, b>> \in R
  <2> SUFFICES ASSUME NEW i \in 1..n, NEW j \in 1..n, i < j, NEW a \in Range(f[i]), NEW b \in Range(f[j])
               PROVE  <<a, b>> \in R
    OBVIOUS
  <2>1. Range(f[i]) \subseteq D /\ Range(f[j]) \subseteq D
    BY RangeWithin
  <2>2. a.id \in Ids(f[i]) /\ b.id \in Ids(f[j])
    BY DEF Ids
  <2>3. a.id < b.id
    BY <2>2 DEF Precedes
  <2> QED
    BY <2>1, <2>3
<1> HIDE DEF R
<1>3. \A i \in 1..n : Ordered(R, f[i])
  BY <1>1
<1>4. Ordered(R, FlattenSeq(f))
  BY <1>2, <1>3, OrderedFlatten
<1>5. FlattenSeq(f) \in Seq(D)
  <2>1. f \in Seq(Seq(D))
    OBVIOUS
  <2> QED
    BY <2>1, FlattenType
<1> QED
  BY <1>1, <1>4, <1>5

\* Sections one after the other.
LEMMA InSequenceConcat ==
    ASSUME NEW U, NEW v \in Seq(U), NEW w \in Seq(U), InSequence(v), InSequence(w),
           Precedes(IdsOf(v), IdsOf(w))
    PROVE  InSequence(v \o w)
<1> DEFINE R == {p \in U \X U : Precedes(Ids(p[1].sentences), Ids(p[2].sentences))}
           both == v \o w
<1>1. ASSUME NEW x \in Seq(U)
      PROVE  InSequence(x) <=> (\A a \in Range(x) : Rising(a.sentences)) /\ Ordered(R, x)
  <2>1. \A i \in DOMAIN x : x[i] \in U
    OBVIOUS
  <2>2. (\A a \in Range(x) : Rising(a.sentences)) <=> \A i \in DOMAIN x : Rising(x[i].sentences)
    BY DEF Range
  <2>3. Ordered(R, x) <=> \A i, j \in DOMAIN x : i < j =>
                              Precedes(Ids(x[i].sentences), Ids(x[j].sentences))
    BY <2>1 DEF Ordered
  <2> QED
    BY <2>2, <2>3 DEF InSequence, Precedes
<1>2. \A a \in Range(v), b \in Range(w) : <<a, b>> \in R
  <2> SUFFICES ASSUME NEW a \in Range(v), NEW b \in Range(w) PROVE <<a, b>> \in R
    OBVIOUS
  <2>1. Range(v) \subseteq U /\ Range(w) \subseteq U
    BY RangeWithin
  <2>2. Ids(a.sentences) \subseteq IdsOf(v) /\ Ids(b.sentences) \subseteq IdsOf(w)
    BY DEF IdsOf, Range
  <2> QED
    BY <2>1, <2>2 DEF Precedes
<1> HIDE DEF R
<1>3. Ordered(R, v) /\ Ordered(R, w)
      /\ (\A a \in Range(v) : Rising(a.sentences)) /\ (\A a \in Range(w) : Rising(a.sentences))
  BY <1>1
<1>4. Ordered(R, both)
  BY <1>2, <1>3, OrderedConcat
<1>5. both \in Seq(U) /\ Range(both) = Range(v) \cup Range(w)
  BY ConcatProperties, RangeConcat
<1> HIDE DEF both
<1>6. InSequence(both)
  BY <1>1, <1>3, <1>4, <1>5
<1> QED
  BY <1>6 DEF both

LEMMA IdsOfConcat ==
    ASSUME NEW U, NEW v \in Seq(U), NEW w \in Seq(U)
    PROVE  IdsOf(v \o w) = IdsOf(v) \cup IdsOf(w)
<1>1. \A x : IdsOf(x) = UNION {Ids(s.sentences) : s \in Range(x)}
  BY DEF IdsOf, Range
<1>2. Range(v \o w) = Range(v) \cup Range(w)
  BY RangeConcat
<1> QED
  BY <1>1, <1>2

\* The section of a heading, with its text or not there.
LEMMA SectionOfFits ==
    ASSUME NEW P, NEW path \in P, NEW D, NEW text \in Seq(D), Rising(text)
    PROVE  /\ SectionOf(path, text) \in Seq([path : P, sentences : Seq(D)])
           /\ InSequence(SectionOf(path, text)) /\ IdsOf(SectionOf(path, text)) = Ids(text)
<1>1. CASE text = <<>>
  <2>1. SectionOf(path, text) = <<>>
    BY <1>1 DEF SectionOf
  <2>2. InSequence(<<>>) /\ IdsOf(<<>>) = {}
    BY DEF InSequence, IdsOf
  <2> QED
    BY <1>1, <2>1, <2>2, IdsNone, EmptySeq
<1>2. CASE text # <<>>
  <2> DEFINE s == Section(path, text)
  <2>1. SectionOf(path, text) = <<s>>
    BY <1>2 DEF SectionOf
  <2>2. s \in [path : P, sentences : Seq(D)] /\ s.sentences = text
    BY DEF Section
  <2> HIDE DEF s
  <2>3. DOMAIN <<s>> = {1} /\ <<s>>[1] = s
    OBVIOUS
  <2>4. InSequence(<<s>>)
    BY <2>2, <2>3 DEF InSequence
  <2>5. IdsOf(<<s>>) = Ids(text)
    BY <2>2, <2>3 DEF IdsOf
  <2>6. <<s>> \in Seq([path : P, sentences : Seq(D)])
    <3> DEFINE Q == [path : P, sentences : Seq(D)]
    <3>1. s \in Q
      BY <2>2
    <3> HIDE DEF Q
    <3>2. <<s>> \in Seq(Q)
      BY <3>1
    <3> QED
      BY <3>2 DEF Q
  <2> QED
    BY <2>1, <2>4, <2>5, <2>6
<1> QED
  BY <1>1, <1>2

SectionsAt(n, path, text) == [i \in 1..n |-> SectionOf(path[i], text[i])]
AllOf(n, sets) == UNION {sets[i] : i \in 1..n}
IdsIn(text, n) == [i \in 1..n |-> Ids(text[i])]

\* Sections, in order, that hold the sentences of these numbers.
Holds(P, D, ids, found) ==
    found \in Seq([path : P, sentences : Seq(D)]) /\ InSequence(found) /\ IdsOf(found) = ids

\* Headings whose texts follow each other make sections that do.
LEMMA SectionsOfTexts ==
    ASSUME NEW P, NEW D, NEW n \in Nat, NEW path \in [1..n -> P], NEW text \in [1..n -> Seq(D)],
           \A i \in 1..n : Rising(text[i]),
           \A i, j \in 1..n : i < j => Precedes(Ids(text[i]), Ids(text[j]))
    PROVE  Holds(P, D, AllOf(n, IdsIn(text, n)), FlattenSeq(SectionsAt(n, path, text)))
<1> DEFINE found == SectionsAt(n, path, text)
           U == [path : P, sentences : Seq(D)]
           Seen(k) == UNION {Ids(text[i]) : i \in 1..k}
           flat(k) == FlatTo(found, k)
           G == {k \in 0..n : InSequence(flat(k)) /\ IdsOf(flat(k)) = Seen(k)}
<1>1. \A i \in 1..n : /\ found[i] \in Seq(U) /\ InSequence(found[i]) /\ IdsOf(found[i]) = Ids(text[i])
  <2> SUFFICES ASSUME NEW i \in 1..n
               PROVE  found[i] \in Seq(U) /\ InSequence(found[i]) /\ IdsOf(found[i]) = Ids(text[i])
    OBVIOUS
  <2>1. path[i] \in P /\ text[i] \in Seq(D) /\ Rising(text[i]) /\ found[i] = SectionOf(path[i], text[i])
    BY DEF SectionsAt
  <2> HIDE DEF found
  <2>2. /\ SectionOf(path[i], text[i]) \in Seq([path : P, sentences : Seq(D)])
        /\ InSequence(SectionOf(path[i], text[i])) /\ IdsOf(SectionOf(path[i], text[i])) = Ids(text[i])
    BY <2>1, SectionOfFits
  <2> QED
    BY <2>1, <2>2
<1> HIDE DEF U
<1>2. found \in [1..n -> Seq(U)]
  BY <1>1 DEF SectionsAt
<1> HIDE DEF found
<1>3. /\ flat(0) = <<>> /\ flat(n) = FlattenSeq(found)
      /\ \A k \in 0..n : flat(k) \in Seq(U)
      /\ \A k \in 1..n : flat(k) = flat(k - 1) \o found[k]
  BY <1>2, FlatStep
<1> HIDE DEF flat
<1>4. 0 \in G
  <2>1. InSequence(<<>>) /\ IdsOf(<<>>) = {}
    BY DEF InSequence, IdsOf
  <2>2. Seen(0) = {}
    OBVIOUS
  <2>3. 0 \in 0..n
    OBVIOUS
  <2> HIDE DEF Seen
  <2> QED
    BY <1>3, <2>1, <2>2, <2>3
<1>5. ASSUME NEW k \in 1..n, k - 1 \in G PROVE k \in G
  <2>1. k - 1 \in 0..n /\ k \in 0..n
    OBVIOUS
  <2>2. flat(k - 1) \in Seq(U) /\ flat(k) = flat(k - 1) \o found[k] /\ found[k] \in Seq(U)
    BY <1>1, <1>3, <2>1
  <2>3. InSequence(flat(k - 1)) /\ IdsOf(flat(k - 1)) = Seen(k - 1)
    BY <1>5
  <2>4. Seen(k) = Seen(k - 1) \cup Ids(text[k])
    <3>1. 1..k = (1..k - 1) \cup {k}
      OBVIOUS
    <3> QED
      BY <3>1
  <2>5. Precedes(Seen(k - 1), Ids(text[k]))
    <3> SUFFICES ASSUME NEW j \in 1..k - 1, NEW a \in Ids(text[j]), NEW b \in Ids(text[k])
                 PROVE  a < b
      BY DEF Precedes
    <3>1. j \in 1..n /\ j < k
      OBVIOUS
    <3>2. Precedes(Ids(text[j]), Ids(text[k]))
      BY <3>1
    <3> QED
      BY <3>2 DEF Precedes
  <2> HIDE DEF Seen
  <2>6. InSequence(flat(k))
    BY <1>1, <2>2, <2>3, <2>5, InSequenceConcat
  <2>7. IdsOf(flat(k)) = Seen(k)
    BY <1>1, <2>2, <2>3, <2>4, IdsOfConcat
  <2> QED
    BY <2>1, <2>6, <2>7
<1> HIDE DEF G
<1>6. \A k \in 0..n : k \in G
  BY <1>4, <1>5, UptoInduction
<1>7. n \in G /\ n \in 0..n
  BY <1>6
<1>8. FlattenSeq(found) \in Seq(U)
  BY <1>3, <1>7
<1>9. Seen(n) = AllOf(n, IdsIn(text, n))
  <2>1. \A i \in 1..n : IdsIn(text, n)[i] = Ids(text[i])
    BY DEF IdsIn
  <2> QED
    BY <2>1 DEF AllOf
<1> QED
  BY <1>3, <1>7, <1>8, <1>9 DEF G, U, found, Holds

-----------------------------------------------------------------------------
(***************************************************************************)
(* The walk through a filing.                                              *)
(***************************************************************************)

Words(W) == Seq(W) \cup {None}
Headed(W) == [path : Seq(Words(W) \cup {DocLabel}), sentences : Seq(Numbered)]
Walks(W) == [item : Words(W), sub : Words(W), lines : Seq(Numbered), sections : Seq(Headed(W))]

\* A walk that has come by the sentences of these numbers.
Gathers(W, walk, ids) ==
    /\ walk \in Walks(W)
    /\ InSequence(walk.sections) /\ Rising(walk.lines)
    /\ Precedes(IdsOf(walk.sections), Ids(walk.lines))
    /\ IdsOf(walk.sections) \cup Ids(walk.lines) = ids
    /\ walk.item = None => walk.lines = <<>>

LEMMA WalkFields ==
    ASSUME NEW W, NEW walk \in Walks(W)
    PROVE  /\ walk.item \in Words(W) /\ walk.sub \in Words(W)
           /\ walk.lines \in Seq(Numbered) /\ walk.sections \in Seq(Headed(W))
<1> DEFINE A == Words(W)
           L == Seq(Numbered)
           S == Seq(Headed(W))
<1>1. walk \in [item : A, sub : A, lines : L, sections : S]
  BY DEF Walks
<1> HIDE DEF A, L, S
<1> QED
  BY <1>1 DEF A, L, S

Flushed(walk, lines, found) == [walk EXCEPT !.lines = lines, !.sections = found]

LEMMA FlushedWalk ==
    ASSUME NEW W, NEW walk \in Walks(W), NEW lines \in Seq(Numbered), NEW found \in Seq(Headed(W))
    PROVE  /\ Flushed(walk, lines, found) \in Walks(W) /\ Flushed(walk, lines, found).item = walk.item
           /\ Flushed(walk, lines, found).lines = lines /\ Flushed(walk, lines, found).sections = found
<1> DEFINE A == Words(W)
           L == Seq(Numbered)
           S == Seq(Headed(W))
<1>1. walk \in [item : A, sub : A, lines : L, sections : S]
  BY DEF Walks
<1> HIDE DEF A, L, S
<1> QED
  BY <1>1 DEF Flushed, Walks, A, L, S

WithItem(walk, item, sub) == [walk EXCEPT !.item = item, !.sub = sub]

LEMMA HeadedWalk ==
    ASSUME NEW W, NEW walk \in Walks(W), NEW item \in Words(W), NEW sub \in Words(W)
    PROVE  /\ WithItem(walk, item, sub) \in Walks(W) /\ WithItem(walk, item, sub).item = item
           /\ WithItem(walk, item, sub).lines = walk.lines /\ WithItem(walk, item, sub).sections = walk.sections
<1> DEFINE A == Words(W)
           L == Seq(Numbered)
           S == Seq(Headed(W))
<1>1. walk \in [item : A, sub : A, lines : L, sections : S]
  BY DEF Walks
<1> HIDE DEF A, L, S
<1> QED
  BY <1>1 DEF WithItem, Walks, A, L, S

WithSub(walk, sub) == [walk EXCEPT !.sub = sub]

LEMMA SubheadedWalk ==
    ASSUME NEW W, NEW walk \in Walks(W), NEW sub \in Words(W)
    PROVE  /\ WithSub(walk, sub) \in Walks(W) /\ WithSub(walk, sub).item = walk.item
           /\ WithSub(walk, sub).lines = walk.lines /\ WithSub(walk, sub).sections = walk.sections
<1> DEFINE A == Words(W)
           L == Seq(Numbered)
           S == Seq(Headed(W))
<1>1. walk \in [item : A, sub : A, lines : L, sections : S]
  BY DEF Walks
<1> HIDE DEF A, L, S
<1> QED
  BY <1>1 DEF WithSub, Walks, A, L, S

WithLines(walk, lines) == [walk EXCEPT !.lines = lines]

LEMMA LongerWalk ==
    ASSUME NEW W, NEW walk \in Walks(W), NEW lines \in Seq(Numbered)
    PROVE  /\ WithLines(walk, lines) \in Walks(W) /\ WithLines(walk, lines).item = walk.item
           /\ WithLines(walk, lines).lines = lines /\ WithLines(walk, lines).sections = walk.sections
<1> DEFINE A == Words(W)
           L == Seq(Numbered)
           S == Seq(Headed(W))
<1>1. walk \in [item : A, sub : A, lines : L, sections : S]
  BY DEF Walks
<1> HIDE DEF A, L, S
<1> QED
  BY <1>1 DEF WithLines, Walks, A, L, S

LEMMA EdgarPathType ==
    ASSUME NEW W, NEW walk \in Walks(W)
    PROVE  EdgarPath(walk) \in Seq(Words(W) \cup {DocLabel})
<1> DEFINE P == Words(W) \cup {DocLabel}
<1>1. DocLabel \in P /\ walk.item \in P /\ walk.sub \in P
  BY WalkFields
<1>2. EdgarPath(walk) = <<DocLabel, walk.item>> \o (IF walk.sub = None THEN <<>> ELSE <<walk.sub>>)
  BY DEF EdgarPath
<1> HIDE DEF P
<1>3. <<DocLabel, walk.item>> \in Seq(P) /\ <<>> \in Seq(P) /\ <<walk.sub>> \in Seq(P)
  BY <1>1
<1> DEFINE top == <<DocLabel, walk.item>>
           under == IF walk.sub = None THEN <<>> ELSE <<walk.sub>>
<1>4. top \in Seq(P) /\ under \in Seq(P)
  BY <1>3
<1> HIDE DEF top, under
<1>5. top \o under \in Seq(P)
  BY <1>4, ConcatProperties
<1> QED
  BY <1>2, <1>5 DEF top, under, P

LEMMA FlushGathers ==
    ASSUME NEW W, NEW walk, NEW ids, Gathers(W, walk, ids)
    PROVE  Gathers(W, Flush(walk), ids) /\ Flush(walk).lines = <<>> /\ Flush(walk).item = walk.item
<1> DEFINE path == EdgarPath(walk)
           last == SectionOf(path, walk.lines)
           closed == IF walk.item = None THEN walk.sections ELSE walk.sections \o last
           P == Seq(Words(W) \cup {DocLabel})
<1>1. /\ walk \in Walks(W) /\ InSequence(walk.sections) /\ Rising(walk.lines)
      /\ Precedes(IdsOf(walk.sections), Ids(walk.lines))
      /\ IdsOf(walk.sections) \cup Ids(walk.lines) = ids
      /\ walk.item = None => walk.lines = <<>>
  BY DEF Gathers
<1>2. /\ walk.lines \in Seq(Numbered) /\ walk.sections \in Seq(Headed(W))
  BY <1>1, WalkFields
<1>3. path \in P
  BY <1>1, EdgarPathType
<1>4. Flush(walk) = Flushed(walk, <<>>, closed)
  BY DEF Flush, Flushed
<1> HIDE DEF path, P
<1>5. last \in Seq(Headed(W)) /\ InSequence(last) /\ IdsOf(last) = Ids(walk.lines)
  BY <1>1, <1>2, <1>3, SectionOfFits DEF Headed, P
<1> HIDE DEF last
<1>6. closed \in Seq(Headed(W)) /\ InSequence(closed) /\ IdsOf(closed) = ids
  <2>1. CASE walk.item = None
    <3>1. closed = walk.sections /\ Ids(walk.lines) = {}
      BY <1>1, <2>1, IdsNone
    <3> QED
      BY <1>1, <1>2, <3>1
  <2>2. CASE walk.item # None
    <3> DEFINE found == walk.sections
    <3>1. closed = found \o last
      BY <2>2
    <3>2. /\ found \in Seq(Headed(W)) /\ InSequence(found)
          /\ IdsOf(found) \cup IdsOf(last) = ids /\ Precedes(IdsOf(found), IdsOf(last))
      BY <1>1, <1>2, <1>5
    <3> HIDE DEF found, closed
    <3>3. found \o last \in Seq(Headed(W))
      BY <1>5, <3>2, ConcatProperties
    <3>4. InSequence(found \o last)
      BY <1>5, <3>2, InSequenceConcat
    <3>5. IdsOf(found \o last) = ids
      BY <1>5, <3>2, IdsOfConcat, ZenonT(60)
    <3> QED
      BY <3>1, <3>3, <3>4, <3>5
  <2> QED
    BY <2>1, <2>2
<1> HIDE DEF closed
<1>7. <<>> \in Seq(Numbered) /\ Ids(<<>>) = {} /\ Rising(<<>>)
  BY EmptySeq, IdsNone DEF Rising
<1> DEFINE none == <<>>
           new == Flushed(walk, none, closed)
<1>8. none \in Seq(Numbered) /\ Ids(none) = {} /\ Rising(none)
  BY <1>7
<1> HIDE DEF none
<1>9. /\ new \in Walks(W) /\ new.lines = none /\ new.sections = closed /\ new.item = walk.item
  BY <1>1, <1>6, <1>8, FlushedWalk
<1> HIDE DEF new
<1>10. Precedes(IdsOf(closed), Ids(none))
  BY <1>8 DEF Precedes
<1>11. new.item = None => new.lines = <<>>
  BY <1>9 DEF none
<1>12. Gathers(W, new, ids)
  BY <1>6, <1>8, <1>9, <1>10, <1>11 DEF Gathers
<1> QED
  BY <1>4, <1>9, <1>12 DEF new, none

LEMMA HeadingGathers ==
    ASSUME NEW W, NEW walk, NEW ids, Gathers(W, walk, ids), walk.lines = <<>>,
           NEW item \in Words(W), NEW sub \in Words(W)
    PROVE  Gathers(W, WithItem(walk, item, sub), ids) /\ WithItem(walk, item, sub).item = item
<1>1. walk \in Walks(W)
  BY DEF Gathers
<1> DEFINE new == WithItem(walk, item, sub)
<1>2. /\ new \in Walks(W) /\ new.item = item
      /\ new.lines = walk.lines /\ new.sections = walk.sections
  BY <1>1, HeadedWalk
<1> HIDE DEF new
<1>3. Gathers(W, new, ids)
  BY <1>2 DEF Gathers
<1> QED
  BY <1>2, <1>3 DEF new

LEMMA SubheadingGathers ==
    ASSUME NEW W, NEW walk, NEW ids, Gathers(W, walk, ids), NEW sub \in Words(W)
    PROVE  Gathers(W, WithSub(walk, sub), ids) /\ WithSub(walk, sub).item = walk.item
<1>1. walk \in Walks(W)
  BY DEF Gathers
<1> DEFINE new == WithSub(walk, sub)
<1>2. /\ new \in Walks(W) /\ new.item = walk.item
      /\ new.lines = walk.lines /\ new.sections = walk.sections
  BY <1>1, SubheadedWalk
<1> HIDE DEF new
<1>3. Gathers(W, new, ids)
  BY <1>2 DEF Gathers
<1> QED
  BY <1>2, <1>3 DEF new

LEMMA LinesGather ==
    ASSUME NEW W, NEW walk, NEW ids, Gathers(W, walk, ids), walk.item # None,
           NEW text \in Seq(Numbered), Rising(text), Precedes(ids, Ids(text)),
           NEW lines, lines = walk.lines \o text
    PROVE  Gathers(W, WithLines(walk, lines), ids \cup Ids(text)) /\ WithLines(walk, lines).item = walk.item
<1>1. /\ walk \in Walks(W) /\ InSequence(walk.sections) /\ Rising(walk.lines)
      /\ Precedes(IdsOf(walk.sections), Ids(walk.lines))
      /\ IdsOf(walk.sections) \cup Ids(walk.lines) = ids
  BY DEF Gathers
<1>2. walk.lines \in Seq(Numbered)
  BY <1>1, WalkFields
<1> DEFINE new == WithLines(walk, lines)
<1>3. lines \in Seq(Numbered) /\ Ids(lines) = Ids(walk.lines) \cup Ids(text)
  BY <1>2, ConcatProperties, IdsConcat
<1>4. Rising(lines)
  <2>1. Precedes(Ids(walk.lines), Ids(text))
    BY <1>1 DEF Precedes
  <2> QED
    BY <1>1, <1>2, <2>1, RisingConcat
<1>5. /\ new \in Walks(W) /\ new.item = walk.item
      /\ new.lines = lines /\ new.sections = walk.sections
  BY <1>1, <1>3, LongerWalk
<1> HIDE DEF new
<1>6. Precedes(IdsOf(walk.sections), Ids(lines))
  BY <1>1, <1>3 DEF Precedes
<1>7. Gathers(W, new, ids \cup Ids(text))
  BY <1>1, <1>3, <1>4, <1>5, <1>6 DEF Gathers
<1> QED
  BY <1>5, <1>7 DEF new

LEMMA SectionOfType ==
    ASSUME NEW P, NEW path \in P, NEW D, NEW text \in Seq(D)
    PROVE  SectionOf(path, text) \in Seq([path : P, sentences : Seq(D)])
<1> DEFINE s == Section(path, text)
           Q == [path : P, sentences : Seq(D)]
<1>1. s \in Q
  BY DEF Section
<1>2. SectionOf(path, text) = IF text = <<>> THEN <<>> ELSE <<s>>
  BY DEF SectionOf
<1> HIDE DEF s, Q
<1>3. <<>> \in Seq(Q) /\ <<s>> \in Seq(Q)
  BY <1>1
<1> QED
  BY <1>2, <1>3 DEF Q

LEMMA FlushType ==
    ASSUME NEW W, NEW walk \in Walks(W)
    PROVE  Flush(walk) \in Walks(W)
<1> DEFINE path == EdgarPath(walk)
           last == SectionOf(path, walk.lines)
           found == walk.sections
           closed == IF walk.item = None THEN found ELSE found \o last
           none == <<>>
           P == Seq(Words(W) \cup {DocLabel})
<1>1. walk.lines \in Seq(Numbered) /\ found \in Seq(Headed(W))
  BY WalkFields
<1>2. path \in P
  BY EdgarPathType
<1>3. Flush(walk) = Flushed(walk, none, closed)
  BY DEF Flush, Flushed
<1> HIDE DEF path, P
<1>4. last \in Seq(Headed(W))
  BY <1>1, <1>2, SectionOfType DEF Headed, P
<1> HIDE DEF last, found
<1>5. found \o last \in Seq(Headed(W))
  BY <1>1, <1>4, ConcatProperties
<1>6. closed \in Seq(Headed(W))
  BY <1>1, <1>5
<1>7. none \in Seq(Numbered)
  BY EmptySeq
<1> HIDE DEF closed, none
<1>8. Flushed(walk, none, closed) \in Walks(W)
  BY <1>6, <1>7, FlushedWalk
<1> QED
  BY <1>3, <1>8

LEMMA PartFields ==
    ASSUME NEW W, NEW parts \in Seq(PartSet(W, Nat)), NEW i \in DOMAIN parts
    PROVE  parts[i].words \in Seq(W) /\ parts[i].sentences \in Seq(Numbered)
<1> DEFINE A == Seq(W)
           B == Seq(Numbered)
           K == Kinds
           p == parts[i]
<1>1. PartSet(W, Nat) = [kind : K, words : A, sentences : B]
  BY DEF PartSet, Numbered
<1>2. p \in PartSet(W, Nat)
  <2> DEFINE Q == PartSet(W, Nat)
  <2>1. parts \in Seq(Q)
    OBVIOUS
  <2> HIDE DEF Q
  <2>2. parts[i] \in Q
    BY <2>1
  <2> QED
    BY <2>2 DEF Q
<1> DEFINE R == [kind : K, words : A, sentences : B]
<1>3. p \in R
  BY <1>1, <1>2
<1>4. \A r \in R : r.words \in A /\ r.sentences \in B
  <2> HIDE DEF A, B, K
  <2> QED
    OBVIOUS
<1> HIDE DEF A, B, K, R, p
<1>5. p.words \in A /\ p.sentences \in B
  BY <1>3, <1>4
<1> QED
  BY <1>5 DEF A, B, p

LEMMA WalkCases ==
    ASSUME NEW parts, NEW walk, NEW i
    PROVE  \/ /\ i \in ItemHeadings(parts)
              /\ Walk(parts, walk, i) = WithItem(Flush(walk), parts[i].words, None)
           \/ /\ i \notin ItemHeadings(parts) /\ (walk.item = None \/ parts[i].kind = "numeric")
              /\ Walk(parts, walk, i) = walk
           \/ /\ i \notin ItemHeadings(parts) /\ walk.item # None /\ parts[i].kind = "bold"
              /\ Walk(parts, walk, i) = WithSub(Flush(walk), parts[i].words)
           \/ /\ i \notin ItemHeadings(parts) /\ walk.item # None /\ parts[i].kind \notin {"bold", "numeric"}
              /\ Walk(parts, walk, i) = WithLines(walk, walk.lines \o parts[i].sentences)
<1>1. CASE i \in ItemHeadings(parts)
  BY <1>1 DEF Walk, WithItem
<1>2. CASE i \notin ItemHeadings(parts) /\ (walk.item = None \/ parts[i].kind = "numeric")
  BY <1>2 DEF Walk
<1>3. CASE i \notin ItemHeadings(parts) /\ walk.item # None /\ parts[i].kind = "bold"
  BY <1>3 DEF Walk, WithSub
<1>4. CASE i \notin ItemHeadings(parts) /\ walk.item # None /\ parts[i].kind \notin {"bold", "numeric"}
  BY <1>4 DEF Walk, WithLines
<1> QED
  BY <1>1, <1>2, <1>3, <1>4

LEMMA WalkType ==
    ASSUME NEW W, NEW parts \in Seq(PartSet(W, Nat)), NEW i \in DOMAIN parts, NEW walk \in Walks(W)
    PROVE  Walk(parts, walk, i) \in Walks(W)
<1>1. parts[i].words \in Words(W) /\ None \in Words(W) /\ parts[i].sentences \in Seq(Numbered)
  BY PartFields DEF Words
<1>2. Flush(walk) \in Walks(W) /\ walk.lines \in Seq(Numbered)
  BY FlushType, WalkFields
<1>3. walk.lines \o parts[i].sentences \in Seq(Numbered)
  BY <1>1, <1>2, ConcatProperties
<1>4. WithItem(Flush(walk), parts[i].words, None) \in Walks(W)
  BY <1>1, <1>2, HeadedWalk
<1>5. WithSub(Flush(walk), parts[i].words) \in Walks(W)
  BY <1>1, <1>2, SubheadedWalk
<1>6. WithLines(walk, walk.lines \o parts[i].sentences) \in Walks(W)
  BY <1>3, LongerWalk
<1> QED
  BY <1>4, <1>5, <1>6, WalkCases

\* An item has begun by part i.
Begun(parts, i) == \E j \in ItemHeadings(parts) : j <= i

\* Parts whose sentences are text of an item.
TellingParts(parts) ==
    {i \in DOMAIN parts : /\ i \notin ItemHeadings(parts) /\ parts[i].kind \notin {"bold", "numeric"}
                          /\ Begun(parts, i)}

KeptTo(parts, i) == UNION {Ids(parts[j].sentences) : j \in {j \in TellingParts(parts) : j <= i}}

LEMMA KeptStep ==
    ASSUME NEW W, NEW parts \in Seq(PartSet(W, Nat)), NEW i \in DOMAIN parts
    PROVE  /\ i \in TellingParts(parts) => KeptTo(parts, i) = KeptTo(parts, i - 1) \cup Ids(parts[i].sentences)
           /\ i \notin TellingParts(parts) => KeptTo(parts, i) = KeptTo(parts, i - 1)
           /\ Begun(parts, i) <=> Begun(parts, i - 1) \/ i \in ItemHeadings(parts)
<1>1. PICK n \in Nat : DOMAIN parts = 1..n
  BY LenProperties
<1>2. ItemHeadings(parts) \subseteq 1..n /\ TellingParts(parts) \subseteq 1..n
  BY <1>1 DEF ItemHeadings, TellingParts
<1>3. \A j \in 1..n : j <= i <=> j <= i - 1 \/ j = i
  BY <1>1
<1>4. Begun(parts, i) <=> Begun(parts, i - 1) \/ i \in ItemHeadings(parts)
  BY <1>1, <1>2, <1>3 DEF Begun
<1>5. ASSUME i \in TellingParts(parts)
      PROVE  {j \in TellingParts(parts) : j <= i} = {j \in TellingParts(parts) : j <= i - 1} \cup {i}
  BY <1>1, <1>2, <1>3, <1>5
<1>6. ASSUME i \notin TellingParts(parts)
      PROVE  {j \in TellingParts(parts) : j <= i} = {j \in TellingParts(parts) : j <= i - 1}
  BY <1>1, <1>2, <1>3, <1>6
<1>7. ASSUME i \in TellingParts(parts)
      PROVE  KeptTo(parts, i) = KeptTo(parts, i - 1) \cup Ids(parts[i].sentences)
  BY <1>5, <1>7 DEF KeptTo
<1>8. ASSUME i \notin TellingParts(parts) PROVE KeptTo(parts, i) = KeptTo(parts, i - 1)
  BY <1>6, <1>8 DEF KeptTo
<1> QED
  BY <1>4, <1>7, <1>8

LEMMA KeptPrecede ==
    ASSUME NEW W, NEW parts \in Seq(PartSet(W, Nat)), InSequence(parts), NEW i \in DOMAIN parts
    PROVE  Precedes(KeptTo(parts, i - 1), Ids(parts[i].sentences))
<1>1. PICK n \in Nat : DOMAIN parts = 1..n
  BY LenProperties
<1> SUFFICES ASSUME NEW j \in TellingParts(parts), j <= i - 1,
                    NEW a \in Ids(parts[j].sentences), NEW b \in Ids(parts[i].sentences)
             PROVE  a < b
  BY DEF Precedes, KeptTo
<1>2. j \in DOMAIN parts /\ j < i
  BY <1>1 DEF TellingParts
<1> QED
  BY <1>2 DEF InSequence

\* One node of the walk keeps count.
LEMMA WalkGathers ==
    ASSUME NEW W, NEW parts, ReadableFiling(W, parts), NEW i \in DOMAIN parts,
           NEW walk, Gathers(W, walk, KeptTo(parts, i - 1)), walk.item = None <=> ~Begun(parts, i - 1)
    PROVE  /\ Gathers(W, Walk(parts, walk, i), KeptTo(parts, i))
           /\ Walk(parts, walk, i).item = None <=> ~Begun(parts, i)
<1>1. parts \in Seq(PartSet(W, Nat)) /\ InSequence(parts) /\ parts[i].words # None
  BY DEF ReadableFiling
<1>2. parts[i].words \in Words(W) /\ None \in Words(W) /\ parts[i].sentences \in Seq(Numbered)
  BY <1>1, PartFields DEF Words
<1>3. /\ i \in TellingParts(parts) => KeptTo(parts, i) = KeptTo(parts, i - 1) \cup Ids(parts[i].sentences)
      /\ i \notin TellingParts(parts) => KeptTo(parts, i) = KeptTo(parts, i - 1)
      /\ Begun(parts, i) <=> Begun(parts, i - 1) \/ i \in ItemHeadings(parts)
  BY <1>1, KeptStep
<1>4. i \in TellingParts(parts) <=> /\ i \notin ItemHeadings(parts) /\ parts[i].kind \notin {"bold", "numeric"}
                               /\ Begun(parts, i)
  BY DEF TellingParts
<1>5. Precedes(KeptTo(parts, i - 1), Ids(parts[i].sentences)) /\ Rising(parts[i].sentences)
  BY <1>1, KeptPrecede DEF InSequence
<1> DEFINE before == KeptTo(parts, i - 1)
           old == Flush(walk)
<1>6. Gathers(W, old, before) /\ old.lines = <<>> /\ old.item = walk.item
  BY FlushGathers
<1> HIDE DEF before, old
<1>7. CASE /\ i \in ItemHeadings(parts)
           /\ Walk(parts, walk, i) = WithItem(old, parts[i].words, None)
  <2>1. Gathers(W, WithItem(old, parts[i].words, None), before)
        /\ WithItem(old, parts[i].words, None).item = parts[i].words
    BY <1>2, <1>6, HeadingGathers
  <2>2. KeptTo(parts, i) = before /\ Begun(parts, i)
    BY <1>3, <1>4, <1>7 DEF before
  <2> QED
    BY <1>1, <1>7, <2>1, <2>2
<1>8. CASE /\ i \notin ItemHeadings(parts) /\ (walk.item = None \/ parts[i].kind = "numeric")
           /\ Walk(parts, walk, i) = walk
  <2>1. KeptTo(parts, i) = before
    BY <1>3, <1>4, <1>8 DEF before
  <2> QED
    BY <1>3, <1>8, <2>1 DEF before
<1>9. CASE /\ i \notin ItemHeadings(parts) /\ walk.item # None /\ parts[i].kind = "bold"
           /\ Walk(parts, walk, i) = WithSub(old, parts[i].words)
  <2>1. Gathers(W, WithSub(old, parts[i].words), before)
        /\ WithSub(old, parts[i].words).item = old.item
    BY <1>2, <1>6, SubheadingGathers
  <2>2. KeptTo(parts, i) = before
    BY <1>3, <1>4, <1>9 DEF before
  <2> QED
    BY <1>3, <1>6, <1>9, <2>1, <2>2
<1>10. CASE /\ i \notin ItemHeadings(parts) /\ walk.item # None /\ parts[i].kind \notin {"bold", "numeric"}
            /\ Walk(parts, walk, i) = WithLines(walk, walk.lines \o parts[i].sentences)
  <2> DEFINE lines == walk.lines \o parts[i].sentences
             new == WithLines(walk, lines)
  <2>1. Gathers(W, walk, before) /\ Precedes(before, Ids(parts[i].sentences))
    BY <1>5 DEF before
  <2>2. Gathers(W, new, before \cup Ids(parts[i].sentences)) /\ new.item = walk.item
    <3> DEFINE text == parts[i].sentences
    <3>1. text \in Seq(Numbered) /\ Rising(text) /\ Precedes(before, Ids(text)) /\ walk.item # None
      BY <1>2, <1>5, <1>10, <2>1
    <3>2. lines = walk.lines \o text
      OBVIOUS
    <3> HIDE DEF text, lines
    <3>3. Gathers(W, WithLines(walk, lines), before \cup Ids(text)) /\ WithLines(walk, lines).item = walk.item
      BY <2>1, <3>1, <3>2, LinesGather, ZenonT(60)
    <3> QED
      BY <3>3 DEF text
  <2>3. KeptTo(parts, i) = before \cup Ids(parts[i].sentences)
    BY <1>3, <1>4, <1>10 DEF before
  <2> HIDE DEF new
  <2>4. Walk(parts, walk, i) = new
    BY <1>10 DEF new
  <2> QED
    BY <1>3, <1>10, <2>2, <2>3, <2>4
<1> QED
  BY <1>7, <1>8, <1>9, <1>10, WalkCases DEF old

\* The walk over the parts of a filing, one node at a time.
Start == [item |-> None, sub |-> None, lines |-> <<>>, sections |-> <<>>]
WalkRun(parts, h, n) == h[0] = Start /\ \A i \in 1..n : h[i] = Walk(parts, h[i - 1], i)

LEMMA StartGathers ==
    ASSUME NEW W
    PROVE  Start \in Walks(W) /\ Start.item = None /\ Gathers(W, Start, {})
<1>1. Start.item = None /\ Start.lines = <<>> /\ Start.sections = <<>>
  BY DEF Start
<1>2. Start \in Walks(W)
  <2> DEFINE A == Words(W)
             L == Seq(Numbered)
             S == Seq(Headed(W))
  <2>1. None \in A /\ <<>> \in L /\ <<>> \in S
    BY EmptySeq DEF Words
  <2> HIDE DEF A, L, S
  <2>2. Start \in [item : A, sub : A, lines : L, sections : S]
    BY <2>1 DEF Start
  <2> QED
    BY <2>2 DEF Walks, A, L, S
<1>3. InSequence(<<>>) /\ Rising(<<>>) /\ IdsOf(<<>>) = {} /\ Ids(<<>>) = {}
  BY IdsNone DEF InSequence, Rising, IdsOf
<1>4. Gathers(W, Start, {})
  BY <1>1, <1>2, <1>3 DEF Gathers, Precedes
<1> QED
  BY <1>1, <1>2, <1>4

LEMMA WalksRun ==
    ASSUME NEW W, NEW parts \in Seq(PartSet(W, Nat)), NEW n \in Nat, n = Len(parts)
    PROVE  \E h : WalkRun(parts, h, n) /\ LoadEdgar(parts) = Flush(h[n]).sections
<1> DEFINE S == Walks(W)
<1>1. DOMAIN parts = 1..n
  BY LenProperties
<1> DEFINE Eq(g) == g = [i \in 0..n |-> IF i = 0 THEN Start ELSE Walk(parts, g[i - 1], i)]
           step == [p \in (1..n) \X S |-> Walk(parts, p[2], p[1])]
<1>2. Start \in S
  BY StartGathers
<1>3. \A i \in 1..n : \A s \in S : Walk(parts, s, i) \in S
  BY <1>1, WalkType
<1> HIDE DEF S
<1>4. step \in [(1..n) \X S -> S]
  BY <1>3
<1>5. \E f \in [0..n -> S] : Recurses(f, n, Start, step)
  <2> HIDE DEF step
  <2> QED
    BY <1>2, <1>4, Recursion
<1>6. PICK f \in [0..n -> S] : Recurses(f, n, Start, step)
  BY <1>5
<1>7. Eq(f)
  <2>1. f[0] = Start
    BY <1>6 DEF Recurses
  <2>2. ASSUME NEW i \in 1..n PROVE f[i] = Walk(parts, f[i - 1], i)
    <3>1. i - 1 \in 0..n
      OBVIOUS
    <3>2. f[i - 1] \in S
      BY <3>1
    <3>3. f[i] = step[<<i, f[i - 1]>>]
      BY <1>6 DEF Recurses
    <3> QED
      BY <3>2, <3>3
  <2> HIDE DEF step
  <2>3. ASSUME NEW i \in 0..n
        PROVE  f[i] = IF i = 0 THEN Start ELSE Walk(parts, f[i - 1], i)
    <3>1. CASE i = 0
      BY <2>1, <3>1
    <3>2. CASE i # 0
      <4>1. i \in 1..n
        BY <3>2
      <4> QED
        BY <2>2, <3>2, <4>1
    <3> QED
      BY <3>1, <3>2
  <2> QED
    BY <2>3
<1> HIDE DEF step
<1>8. PICK h : h = (CHOOSE x : Eq(x))
  OBVIOUS
<1>9. Eq(h)
  <2> HIDE DEF Eq
  <2> QED
    BY <1>7, <1>8
<1>10. LoadEdgar(parts) = Flush(h[n]).sections
  BY <1>8 DEF LoadEdgar, Start
<1>11. h[0] = Start /\ \A i \in 1..n : h[i] = Walk(parts, h[i - 1], i)
  <2>1. \A i \in 0..n : h[i] = IF i = 0 THEN Start ELSE Walk(parts, h[i - 1], i)
    BY <1>9
  <2> HIDE DEF Eq
  <2> QED
    BY <2>1
<1> QED
  BY <1>10, <1>11 DEF WalkRun

LEMMA BelongsIsKept ==
    ASSUME NEW W, NEW parts \in Seq(PartSet(W, Nat)), NEW n \in Nat, n = Len(parts)
    PROVE  BelongsInFiling(parts) = KeptTo(parts, n)
<1>1. DOMAIN parts = 1..n
  BY LenProperties
<1> DEFINE Heading(i) == parts[i].kind = "item"
                         /\ \A j \in i + 1..Len(parts) :
                                parts[j].kind = "item" => parts[j].words # parts[i].words
           Kept == {i \in DOMAIN parts : /\ ~Heading(i) /\ parts[i].kind \notin {"bold", "numeric"}
                                         /\ \E j \in 1..i : Heading(j)}
<1>2. \A i \in 1..n : Heading(i) <=> i \in ItemHeadings(parts)
  BY <1>1 DEF ItemHeadings
<1>3. ItemHeadings(parts) \subseteq 1..n
  BY <1>1 DEF ItemHeadings
<1>4. BelongsInFiling(parts) = UNION {Ids(parts[i].sentences) : i \in Kept}
  BY DEF BelongsInFiling
<1> HIDE DEF Heading
<1>5. ASSUME NEW i \in 1..n
      PROVE  (\E j \in 1..i : Heading(j)) <=> \E j \in ItemHeadings(parts) : j <= i
  BY <1>2, <1>3
<1>6. Kept = {j \in TellingParts(parts) : j <= n}
  BY <1>1, <1>2, <1>5 DEF TellingParts, Begun
<1> HIDE DEF Kept
<1> QED
  BY <1>4, <1>6 DEF KeptTo

\* The sections of a filing hold the text of its items, in order.
LEMMA FilingIsSectioned ==
    ASSUME NEW W, NEW parts, ReadableFiling(W, parts)
    PROVE  InSequence(LoadEdgar(parts)) /\ IdsOf(LoadEdgar(parts)) = BelongsInFiling(parts)
<1>1. parts \in Seq(PartSet(W, Nat))
  BY DEF ReadableFiling
<1>2. PICK n \in Nat : n = Len(parts)
  BY <1>1, LenProperties
<1>3. DOMAIN parts = 1..n
  BY <1>1, <1>2, LenProperties
<1>4. PICK h : WalkRun(parts, h, n) /\ LoadEdgar(parts) = Flush(h[n]).sections
  BY <1>1, <1>2, WalksRun
<1> DEFINE G == {i \in 0..n : /\ Gathers(W, h[i], KeptTo(parts, i))
                              /\ h[i].item = None <=> ~Begun(parts, i)}
<1>5. 0 \in G
  <2>1. ~Begun(parts, 0) /\ KeptTo(parts, 0) = {}
    BY <1>3 DEF Begun, KeptTo, ItemHeadings, TellingParts
  <2> QED
    BY <1>4, <2>1, StartGathers DEF WalkRun
<1>6. ASSUME NEW i \in 1..n, i - 1 \in G PROVE i \in G
  <2>1. Gathers(W, h[i - 1], KeptTo(parts, i - 1)) /\ (h[i - 1].item = None <=> ~Begun(parts, i - 1))
    BY <1>6
  <2>2. h[i] = Walk(parts, h[i - 1], i) /\ i \in DOMAIN parts
    BY <1>3, <1>4 DEF WalkRun
  <2>3. /\ Gathers(W, Walk(parts, h[i - 1], i), KeptTo(parts, i))
        /\ Walk(parts, h[i - 1], i).item = None <=> ~Begun(parts, i)
    BY <2>1, <2>2, WalkGathers
  <2>4. i \in 0..n
    OBVIOUS
  <2> QED
    BY <2>2, <2>3, <2>4
<1> HIDE DEF G
<1>7. \A i \in 0..n : i \in G
  BY <1>5, <1>6, UptoInduction
<1>8. n \in G
  BY <1>7
<1>9. Gathers(W, h[n], KeptTo(parts, n))
  BY <1>8 DEF G
<1>10. Gathers(W, Flush(h[n]), KeptTo(parts, n)) /\ Flush(h[n]).lines = <<>>
  BY <1>9, FlushGathers
<1>11. InSequence(Flush(h[n]).sections) /\ IdsOf(Flush(h[n]).sections) = KeptTo(parts, n)
  BY <1>10, IdsNone DEF Gathers
<1> QED
  BY <1>1, <1>2, <1>4, <1>11, BelongsIsKept

-----------------------------------------------------------------------------
(***************************************************************************)
(* The parts of a regulation.                                              *)
(***************************************************************************)

\* A text made of the sentences of these parts.
TextOf(parts, some, text) ==
    /\ text \in Seq(Numbered) /\ Rising(text)
    /\ Ids(text) = UNION {Ids(parts[j].sentences) : j \in some}

\* The text of the parts from a to b.
LEMMA SentencesOfSome ==
    ASSUME NEW W, NEW parts \in Seq(PartSet(W, Nat)), InSequence(parts), NEW n \in Nat, n = Len(parts),
           NEW a \in 1..n + 1, NEW b \in 0..n
    PROVE  TextOf(parts, a..b, Sentences(SubSeq(parts, a, b)))
<1> DEFINE m == IF a <= b THEN b - a + 1 ELSE 0
           some == SubSeq(parts, a, b)
           each == [k \in DOMAIN some |-> some[k].sentences]
<1>1. DOMAIN parts = 1..n
  BY LenProperties
<1>2. m \in Nat /\ \A k \in 1..m : a + k - 1 \in a..b /\ a + k - 1 \in 1..n
  OBVIOUS
<1>3. DOMAIN some = 1..m /\ \A k \in 1..m : some[k] = parts[a + k - 1]
  OBVIOUS
<1> HIDE DEF some
<1>4. each \in [1..m -> Seq(Numbered)] /\ \A k \in 1..m : each[k] = parts[a + k - 1].sentences
  <2>1. \A k \in 1..m : parts[a + k - 1].sentences \in Seq(Numbered)
    BY <1>1, <1>2, PartFields
  <2> QED
    BY <1>3, <2>1
<1>5. Sentences(some) = FlattenSeq(each)
  BY DEF Sentences
<1> HIDE DEF each
<1>6. \A k \in 1..m : Rising(each[k])
  BY <1>1, <1>2, <1>4 DEF InSequence
<1>7. ASSUME NEW i \in 1..m, NEW j \in 1..m, i < j PROVE Precedes(Ids(each[i]), Ids(each[j]))
  <2>1. /\ a + i - 1 \in DOMAIN parts /\ a + j - 1 \in DOMAIN parts /\ a + i - 1 < a + j - 1
        /\ each[i] = parts[a + i - 1].sentences /\ each[j] = parts[a + j - 1].sentences
    BY <1>1, <1>2, <1>4, <1>7
  <2> QED
    BY <2>1 DEF InSequence, Precedes
<1>8. FlattenSeq(each) \in Seq(Numbered) /\ Rising(FlattenSeq(each))
  <2> HIDE DEF m
  <2>1. Rising(FlattenSeq(each))
    BY <1>2, <1>4, <1>6, <1>7, RisingFlatten
  <2>2. each \in Seq(Seq(Numbered))
    BY <1>2, <1>4
  <2> QED
    BY <2>1, <2>2, FlattenType
<1>9. Ids(FlattenSeq(each)) = UNION {Ids(each[k]) : k \in 1..m}
  <2> HIDE DEF m
  <2>1. each \in Seq(Seq(Numbered)) /\ DOMAIN each = 1..m
    BY <1>2, <1>4
  <2> QED
    BY <2>1, IdsFlatten
<1>10. UNION {Ids(each[k]) : k \in 1..m} = UNION {Ids(parts[j].sentences) : j \in a..b}
  <2>1. ASSUME NEW j \in a..b PROVE j - a + 1 \in 1..m /\ each[j - a + 1] = parts[j].sentences
    <3>1. j - a + 1 \in 1..m /\ a + (j - a + 1) - 1 = j
      OBVIOUS
    <3> QED
      BY <1>4, <3>1
  <2>2. ASSUME NEW k \in 1..m PROVE a + k - 1 \in a..b /\ each[k] = parts[a + k - 1].sentences
    BY <1>2, <1>4
  <2> HIDE DEF m
  <2>3. UNION {Ids(each[k]) : k \in 1..m} \subseteq UNION {Ids(parts[j].sentences) : j \in a..b}
    BY <2>2
  <2>4. UNION {Ids(parts[j].sentences) : j \in a..b} \subseteq UNION {Ids(each[k]) : k \in 1..m}
    BY <2>1
  <2> QED
    BY <2>3, <2>4
<1> QED
  BY <1>5, <1>8, <1>9, <1>10 DEF some, TextOf

TextsOf(parts, some) == UNION {Ids(parts[j].sentences) : j \in some}

\* Sections of the texts of parts that follow each other.
LEMMA SectionsOfParts ==
    ASSUME NEW W, NEW parts \in Seq(PartSet(W, Nat)), InSequence(parts),
           NEW P, NEW n \in Nat, NEW path \in [1..n -> P], NEW text \in [1..n -> Seq(Numbered)],
           NEW of \in [1..n -> SUBSET DOMAIN parts],
           \A i \in 1..n : TextOf(parts, of[i], text[i]),
           \A i, j \in 1..n : i < j => \A a \in of[i], b \in of[j] : a < b
    PROVE  Holds(P, Numbered, TextsOf(parts, AllOf(n, of)), FlattenSeq(SectionsAt(n, path, text)))
<1>1. \A i \in 1..n : Rising(text[i]) /\ Ids(text[i]) = TextsOf(parts, of[i])
  BY DEF TextOf, TextsOf
<1>2. ASSUME NEW i \in 1..n, NEW j \in 1..n, i < j PROVE Precedes(Ids(text[i]), Ids(text[j]))
  <2> SUFFICES ASSUME NEW a \in of[i], NEW b \in of[j],
                      NEW s \in Ids(parts[a].sentences), NEW t \in Ids(parts[b].sentences)
               PROVE  s < t
    BY <1>1 DEF Precedes, TextsOf
  <2>1. a \in DOMAIN parts /\ b \in DOMAIN parts /\ a < b
    BY <1>2
  <2> QED
    BY <2>1 DEF InSequence
<1> DEFINE ids == AllOf(n, IdsIn(text, n))
<1>3. Holds(P, Numbered, ids, FlattenSeq(SectionsAt(n, path, text)))
  BY <1>1, <1>2, SectionsOfTexts
<1>4. ids = TextsOf(parts, AllOf(n, of))
  <2>1. ids = UNION {TextsOf(parts, of[i]) : i \in 1..n}
    BY <1>1 DEF AllOf, IdsIn
  <2>2. UNION {TextsOf(parts, of[i]) : i \in 1..n} = TextsOf(parts, AllOf(n, of))
    BY DEF TextsOf, AllOf
  <2> QED
    BY <2>1, <2>2
<1> QED
  BY <1>3, <1>4

LEMMA AnnexEnds ==
    ASSUME NEW parts, NEW n \in Nat, n = Len(parts), NEW i \in 1..n
    PROVE  /\ AnnexEnd(parts, i) \in i + 1..n + 1
           /\ \A k \in i + 1..AnnexEnd(parts, i) - 1 : parts[k].kind \notin {"annex", "notes"}
           /\ \A k \in i + 1..n : parts[k].kind \in {"annex", "notes"} => AnnexEnd(parts, i) <= k
<1> DEFINE T == {j \in i + 1..n : parts[j].kind \in {"annex", "notes"}} \cup {n + 1}
<1>1. T \subseteq Nat /\ T # {} /\ T \subseteq i + 1..n + 1
  OBVIOUS
<1>2. AnnexEnd(parts, i) = Min(T)
  BY DEF AnnexEnd
<1>3. Min(T) \in T /\ \A y \in T : Min(T) <= y
  <2> HIDE DEF T
  <2> QED
    BY <1>1, MinOf
<1> DEFINE end == AnnexEnd(parts, i)
<1>4. end \in T /\ (\A y \in T : end <= y) /\ end \in i + 1..n + 1
  BY <1>1, <1>2, <1>3
<1> HIDE DEF end
<1>5. ASSUME NEW k \in i + 1..n, parts[k].kind \in {"annex", "notes"} PROVE end <= k
  <2>1. k \in T
    BY <1>5
  <2> QED
    BY <1>4, <2>1
<1>6. ASSUME NEW k \in i + 1..end - 1 PROVE parts[k].kind \notin {"annex", "notes"}
  <2>1. k \in i + 1..n /\ ~(end <= k)
    BY <1>4
  <2> QED
    BY <1>5, <2>1
<1> QED
  BY <1>4, <1>5, <1>6 DEF end

\* Kinds whose text stands under a heading of its own, and the text of an annex.
Own(parts, i) == IF parts[i].kind \in {"recital", "article"} THEN parts[i].sentences ELSE <<>>
Under(parts, i) ==
    IF parts[i].kind = "annex" THEN Sentences(SubSeq(parts, i + 1, AnnexEnd(parts, i) - 1)) ELSE <<>>

OwnPath(parts, i) ==
    IF parts[i].kind = "recital" THEN <<DocLabel, <<"Preamble">>, parts[i].words>>
    ELSE <<DocLabel>> \o ArticleContext(parts, i) \o <<parts[i].words>>
UnderPath(parts, i) == <<DocLabel, parts[i].words \o AnnexTitle(parts, i)>>

LEMMA SubdivisionIsOwn ==
    ASSUME NEW parts, NEW i
    PROVE  Subdivision(parts, i) = SectionOf(OwnPath(parts, i), Own(parts, i))
<1>1. CASE parts[i].kind = "recital"
  BY <1>1 DEF Subdivision, OwnPath, Own
<1>2. CASE parts[i].kind = "article"
  BY <1>2 DEF Subdivision, OwnPath, Own
<1>3. CASE parts[i].kind \notin {"recital", "article"}
  BY <1>3 DEF Subdivision, Own, SectionOf
<1> QED
  BY <1>1, <1>2, <1>3

LEMMA AnnexIsUnder ==
    ASSUME NEW parts, NEW i
    PROVE  Annex(parts, i) = SectionOf(UnderPath(parts, i), Under(parts, i))
<1>1. CASE parts[i].kind = "annex"
  BY <1>1 DEF Annex, UnderPath, Under
<1>2. CASE parts[i].kind # "annex"
  BY <1>2 DEF Annex, Under, SectionOf
<1> QED
  BY <1>1, <1>2

\* The text of an annex is that of the parts up to the next annex or the footnotes.
Below(parts, i) == IF parts[i].kind = "annex" THEN i + 1..AnnexEnd(parts, i) - 1 ELSE {}

LEMMA UnderTells ==
    ASSUME NEW W, NEW parts \in Seq(PartSet(W, Nat)), InSequence(parts), NEW n \in Nat, n = Len(parts),
           NEW i \in 1..n
    PROVE  TextOf(parts, Below(parts, i), Under(parts, i)) /\ Below(parts, i) \subseteq i + 1..n
<1> DEFINE end == AnnexEnd(parts, i)
           text == Sentences(SubSeq(parts, i + 1, end - 1))
<1>1. end \in i + 1..n + 1
  BY AnnexEnds
<1>2. i + 1 \in 1..n + 1 /\ end - 1 \in 0..n
  BY <1>1
<1>3. TextOf(parts, i + 1..end - 1, text)
  <2> DEFINE a == i + 1
             b == end - 1
  <2>1. a \in 1..n + 1 /\ b \in 0..n
    BY <1>2
  <2> HIDE DEF a, b
  <2>2. TextOf(parts, a..b, Sentences(SubSeq(parts, a, b)))
    BY <2>1, SentencesOfSome
  <2> QED
    BY <2>2 DEF a, b
<1> HIDE DEF text
<1>4. CASE parts[i].kind = "annex"
  <2>1. Under(parts, i) = text /\ Below(parts, i) = i + 1..end - 1
    BY <1>4 DEF Under, Below, text
  <2> QED
    BY <1>1, <1>3, <2>1
<1>5. CASE parts[i].kind # "annex"
  <2>1. Under(parts, i) = <<>> /\ Below(parts, i) = {}
    BY <1>5 DEF Under, Below
  <2>2. <<>> \in Seq(Numbered) /\ Rising(<<>>) /\ Ids(<<>>) = {}
    BY EmptySeq, IdsNone DEF Rising
  <2> QED
    BY <2>1, <2>2 DEF TextOf
<1> QED
  BY <1>4, <1>5

Itself(parts, i) == IF parts[i].kind \in {"recital", "article"} THEN {i} ELSE {}

LEMMA OwnTells ==
    ASSUME NEW W, NEW parts \in Seq(PartSet(W, Nat)), InSequence(parts), NEW i \in DOMAIN parts
    PROVE  TextOf(parts, Itself(parts, i), Own(parts, i))
<1>1. parts[i].sentences \in Seq(Numbered) /\ Rising(parts[i].sentences)
  BY PartFields DEF InSequence
<1>2. <<>> \in Seq(Numbered) /\ Rising(<<>>) /\ Ids(<<>>) = {}
  BY EmptySeq, IdsNone DEF Rising
<1>3. CASE parts[i].kind \in {"recital", "article"}
  BY <1>1, <1>3 DEF Own, Itself, TextOf
<1>4. CASE parts[i].kind \notin {"recital", "article"}
  BY <1>2, <1>4 DEF Own, Itself, TextOf
<1> QED
  BY <1>3, <1>4

OwnSections(parts) == FlattenSeq([i \in DOMAIN parts |-> Subdivision(parts, i)])
UnderSections(parts) == FlattenSeq([i \in DOMAIN parts |-> Annex(parts, i)])
PathsOf(parts) == {OwnPath(parts, i) : i \in DOMAIN parts} \cup {UnderPath(parts, i) : i \in DOMAIN parts}

LEMMA OwnAreSectioned ==
    ASSUME NEW W, NEW parts \in Seq(PartSet(W, Nat)), InSequence(parts)
    PROVE  Holds(PathsOf(parts), Numbered, TextsOf(parts, UNION {Itself(parts, i) : i \in DOMAIN parts}), OwnSections(parts))
<1>1. PICK n \in Nat : n = Len(parts) /\ DOMAIN parts = 1..n
  BY LenProperties
<1> DEFINE path == [i \in 1..n |-> OwnPath(parts, i)]
           text == [i \in 1..n |-> Own(parts, i)]
           of == [i \in 1..n |-> Itself(parts, i)]
           found == SectionsAt(n, path, text)
           P == PathsOf(parts)
<1>2. \A i \in 1..n : TextOf(parts, Itself(parts, i), Own(parts, i)) /\ Own(parts, i) \in Seq(Numbered)
  BY <1>1, OwnTells DEF TextOf
<1>3. path \in [1..n -> P] /\ text \in [1..n -> Seq(Numbered)]
  BY <1>1, <1>2 DEF PathsOf
<1>4. \A i \in 1..n : Itself(parts, i) \subseteq {i}
  BY DEF Itself
<1>5. of \in [1..n -> SUBSET DOMAIN parts] /\ \A i \in 1..n : of[i] = Itself(parts, i)
  BY <1>1, <1>4
<1>6. \A i \in 1..n : TextOf(parts, of[i], text[i])
  BY <1>2
<1>7. \A i, j \in 1..n : i < j => \A a \in of[i], b \in of[j] : a < b
  BY <1>4
<1>8. OwnSections(parts) = FlattenSeq(found)
  <2>1. [i \in DOMAIN parts |-> Subdivision(parts, i)] = found
    BY <1>1, SubdivisionIsOwn DEF SectionsAt
  <2> QED
    BY <2>1 DEF OwnSections
<1> DEFINE all == UNION {Itself(parts, i) : i \in DOMAIN parts}
<1>9. all = AllOf(n, of)
  BY <1>1, <1>5 DEF AllOf
<1> HIDE DEF path, text, of, P, all
<1>10. Holds(P, Numbered, TextsOf(parts, AllOf(n, of)), FlattenSeq(found))
  BY <1>3, <1>5, <1>6, <1>7, SectionsOfParts
<1> QED
  BY <1>8, <1>9, <1>10 DEF P, all

LEMMA AnnexesAreSectioned ==
    ASSUME NEW W, NEW parts \in Seq(PartSet(W, Nat)), InSequence(parts)
    PROVE  Holds(PathsOf(parts), Numbered, TextsOf(parts, UNION {Below(parts, i) : i \in DOMAIN parts}), UnderSections(parts))
<1>1. PICK n \in Nat : n = Len(parts) /\ DOMAIN parts = 1..n
  BY LenProperties
<1> DEFINE path == [i \in 1..n |-> UnderPath(parts, i)]
           text == [i \in 1..n |-> Under(parts, i)]
           of == [i \in 1..n |-> Below(parts, i)]
           found == SectionsAt(n, path, text)
           P == PathsOf(parts)
<1>2. \A i \in 1..n : TextOf(parts, Below(parts, i), Under(parts, i)) /\ Below(parts, i) \subseteq i + 1..n
  BY <1>1, UnderTells
<1>3. \A i \in 1..n : Under(parts, i) \in Seq(Numbered)
  BY <1>2 DEF TextOf
<1>4. path \in [1..n -> P] /\ text \in [1..n -> Seq(Numbered)]
  BY <1>1, <1>3 DEF PathsOf
<1>5. of \in [1..n -> SUBSET DOMAIN parts] /\ \A i \in 1..n : of[i] = Below(parts, i)
  <2>1. \A i \in 1..n : i + 1..n \subseteq 1..n
    OBVIOUS
  <2> QED
    BY <1>1, <1>2, <2>1
<1>6. \A i \in 1..n : TextOf(parts, of[i], text[i])
  BY <1>2
<1>7. ASSUME NEW i \in 1..n, NEW j \in 1..n, i < j, NEW a \in of[i], NEW b \in of[j] PROVE a < b
  <2>1. b \in j + 1..n /\ parts[j].kind = "annex"
    BY <1>2, <1>5 DEF Below
  <2>2. a \in i + 1..AnnexEnd(parts, i) - 1
    BY <1>5 DEF Below
  <2>3. AnnexEnd(parts, i) <= j /\ AnnexEnd(parts, i) \in Int
    <3>1. j \in i + 1..n
      BY <1>7
    <3>2. /\ AnnexEnd(parts, i) \in i + 1..n + 1
          /\ \A k \in i + 1..n : parts[k].kind \in {"annex", "notes"} => AnnexEnd(parts, i) <= k
      BY <1>1, AnnexEnds
    <3> QED
      BY <2>1, <3>1, <3>2
  <2> QED
    BY <2>1, <2>2, <2>3
<1>8. UnderSections(parts) = FlattenSeq(found)
  <2>1. [i \in DOMAIN parts |-> Annex(parts, i)] = found
    BY <1>1, AnnexIsUnder DEF SectionsAt
  <2> QED
    BY <2>1 DEF UnderSections
<1> DEFINE all == UNION {Below(parts, i) : i \in DOMAIN parts}
<1>9. all = AllOf(n, of)
  BY <1>1, <1>5 DEF AllOf
<1> HIDE DEF path, text, of, P, all
<1>10. Holds(P, Numbered, TextsOf(parts, AllOf(n, of)), FlattenSeq(found))
  BY <1>4, <1>5, <1>6, <1>7, SectionsOfParts
<1> QED
  BY <1>8, <1>9, <1>10 DEF P, all

\* The parts of a regulation that belong to the document.
LEMMA BelongsByKind ==
    ASSUME NEW W, NEW parts, ReadableRegulation(W, parts)
    PROVE  BelongsInRegulation(parts)
               = TextsOf(parts, UNION {Itself(parts, i) : i \in DOMAIN parts})
                 \cup TextsOf(parts, UNION {Below(parts, i) : i \in DOMAIN parts})
<1>1. /\ parts \in Seq(PartSet(W, Nat))
      /\ \A i \in DOMAIN parts :
             parts[i].kind \notin {"recital", "article", "text"} => parts[i].sentences = <<>>
      /\ \A i, j \in DOMAIN parts :
             parts[i].kind = "annex" /\ parts[j].kind \in {"recital", "article"} => j < i
  BY DEF ReadableRegulation
<1>2. PICK n \in Nat : n = Len(parts) /\ DOMAIN parts = 1..n
  BY <1>1, LenProperties
<1> DEFINE InAnnex(i) == \E j \in 1..i : /\ parts[j].kind = "annex"
                                         /\ \A k \in j..i : parts[k].kind # "notes"
           C == {i \in DOMAIN parts : \/ parts[i].kind \in {"recital", "article"}
                                      \/ parts[i].kind = "text" /\ InAnnex(i)}
           A == UNION {Itself(parts, i) : i \in DOMAIN parts}
           B == UNION {Below(parts, i) : i \in DOMAIN parts}
<1>3. BelongsInRegulation(parts) = TextsOf(parts, C)
  BY DEF BelongsInRegulation, TextsOf
<1>4. ASSUME NEW i \in 1..n PROVE i \in A <=> parts[i].kind \in {"recital", "article"}
  BY <1>2 DEF Itself
<1>5. A \subseteq 1..n
  BY <1>2 DEF Itself
<1>6. ASSUME NEW k \in B
      PROVE  /\ k \in 1..n /\ InAnnex(k) /\ parts[k].kind \notin {"recital", "article"}
  <2>1. PICK i \in 1..n : parts[i].kind = "annex" /\ k \in i + 1..AnnexEnd(parts, i) - 1
    BY <1>2 DEF Below
  <2>2. /\ AnnexEnd(parts, i) \in i + 1..n + 1
        /\ \A m \in i + 1..AnnexEnd(parts, i) - 1 : parts[m].kind \notin {"annex", "notes"}
    BY <1>2, AnnexEnds
  <2>3. k \in 1..n /\ i < k
    BY <2>1, <2>2
  <2>4. ASSUME NEW m \in i..k PROVE parts[m].kind # "notes"
    <3>1. CASE m = i
      BY <2>1, <3>1
    <3>2. CASE m # i
      <4>1. m \in i + 1..AnnexEnd(parts, i) - 1
        BY <2>1, <2>2, <3>2
      <4> QED
        BY <2>2, <4>1
    <3> QED
      BY <3>1, <3>2
  <2>5. i \in 1..k
    BY <2>3
  <2>6. InAnnex(k)
    BY <2>1, <2>4, <2>5
  <2>7. parts[k].kind \notin {"recital", "article"}
    <3>1. ~(k < i)
      BY <2>3
    <3> QED
      BY <1>1, <1>2, <2>1, <2>3, <3>1
  <2> QED
    BY <2>3, <2>6, <2>7
<1>7. ASSUME NEW k \in 1..n, parts[k].kind = "text", InAnnex(k) PROVE k \in B
  <2> DEFINE T == {j \in 1..k : parts[j].kind = "annex"}
             i == Max(T)
  <2>1. PICK j \in 1..k : parts[j].kind = "annex" /\ \A m \in j..k : parts[m].kind # "notes"
    BY <1>7
  <2>2. i \in T /\ \A y \in T : y <= i
    <3>1. k \in Nat /\ T \subseteq 0..k /\ T # {}
      BY <2>1
    <3> HIDE DEF T
    <3> QED
      BY <3>1, MaxOf
  <2>3. i \in 1..k /\ parts[i].kind = "annex" /\ j <= i
    <3>1. j \in T
      BY <2>1
    <3> QED
      BY <2>2, <3>1
  <2> HIDE DEF i
  <2>4. i \in 1..n /\ k \in i + 1..n
    <3>1. i # k
      BY <1>7, <2>3
    <3> QED
      BY <2>3, <3>1
  <2>5. ASSUME NEW m \in i + 1..k PROVE parts[m].kind \notin {"annex", "notes"}
    <3>1. m \in 1..k /\ m \in j..k /\ ~(m <= i)
      BY <2>3
    <3>2. m \notin T
      BY <2>2, <3>1
    <3> QED
      BY <2>1, <3>1, <3>2
  <2> DEFINE end == AnnexEnd(parts, i)
  <2>6. /\ end \in i + 1..n + 1
        /\ end \in i + 1..n => parts[end].kind \in {"annex", "notes"}
    <3> DEFINE Ends == {x \in i + 1..n : parts[x].kind \in {"annex", "notes"}} \cup {n + 1}
    <3>1. end = Min(Ends)
      BY <1>2 DEF AnnexEnd
    <3>2. Ends \subseteq Nat /\ Ends # {}
      BY <2>4
    <3>3. end \in Ends
      <4> HIDE DEF Ends, end
      <4> QED
        BY <3>1, <3>2, MinOf
    <3> QED
      BY <2>4, <3>3
  <2> HIDE DEF end
  <2>7. k < end
    <3> SUFFICES ASSUME end <= k PROVE FALSE
      BY <2>4, <2>6
    <3>1. end \in i + 1..n /\ end \in i + 1..k
      BY <2>4, <2>6
    <3> QED
      BY <2>5, <2>6, <3>1
  <2>8. k \in Below(parts, i)
    BY <2>3, <2>4, <2>6, <2>7 DEF Below, end
  <2> QED
    BY <1>2, <2>4, <2>8
<1> HIDE DEF A, B, InAnnex
<1>8. ASSUME NEW i \in C PROVE i \in A \/ i \in B
  BY <1>2, <1>4, <1>7
<1>9. A \subseteq C
  BY <1>2, <1>4, <1>5
<1>10. ASSUME NEW k \in B PROVE k \in C \/ Ids(parts[k].sentences) = {}
  <2>1. k \in 1..n /\ InAnnex(k) /\ parts[k].kind \notin {"recital", "article"}
    BY <1>6
  <2>2. CASE parts[k].kind = "text"
    BY <1>2, <2>1, <2>2
  <2>3. CASE parts[k].kind # "text"
    BY <1>1, <1>2, <2>1, <2>3, IdsNone
  <2> QED
    BY <2>2, <2>3
<1> HIDE DEF C
<1>11. TextsOf(parts, C) \subseteq TextsOf(parts, A) \cup TextsOf(parts, B)
  BY <1>8 DEF TextsOf
<1>12. TextsOf(parts, A) \subseteq TextsOf(parts, C)
  BY <1>9 DEF TextsOf
<1>13. TextsOf(parts, B) \subseteq TextsOf(parts, C)
  BY <1>10 DEF TextsOf
<1> QED
  BY <1>3, <1>11, <1>12, <1>13 DEF A, B

\* The sections of a regulation hold its recitals, articles and annexes, in order.
LEMMA RegulationIsSectioned ==
    ASSUME NEW W, NEW parts, ReadableRegulation(W, parts)
    PROVE  InSequence(LoadEurlex(parts)) /\ IdsOf(LoadEurlex(parts)) = BelongsInRegulation(parts)
<1>1. /\ parts \in Seq(PartSet(W, Nat)) /\ InSequence(parts)
      /\ \A i, j \in DOMAIN parts :
             parts[i].kind = "annex" /\ parts[j].kind \in {"recital", "article"} => j < i
  BY DEF ReadableRegulation
<1>2. PICK n \in Nat : n = Len(parts) /\ DOMAIN parts = 1..n
  BY <1>1, LenProperties
<1> DEFINE own == OwnSections(parts)
           under == UnderSections(parts)
           A == UNION {Itself(parts, i) : i \in DOMAIN parts}
           B == UNION {Below(parts, i) : i \in DOMAIN parts}
           U == [path : PathsOf(parts), sentences : Seq(Numbered)]
<1>3. LoadEurlex(parts) = own \o under
  BY DEF LoadEurlex, OwnSections, UnderSections
<1>4. own \in Seq(U) /\ InSequence(own) /\ IdsOf(own) = TextsOf(parts, A)
  BY <1>1, OwnAreSectioned DEF Holds
<1>5. under \in Seq(U) /\ InSequence(under) /\ IdsOf(under) = TextsOf(parts, B)
  BY <1>1, AnnexesAreSectioned DEF Holds
<1>6. ASSUME NEW a \in A, NEW b \in B PROVE a \in 1..n /\ b \in 1..n /\ a < b
  <2>1. a \in 1..n /\ parts[a].kind \in {"recital", "article"}
    BY <1>2 DEF Itself
  <2>2. PICK i \in 1..n : b \in Below(parts, i)
    BY <1>2
  <2>3. parts[i].kind = "annex" /\ b \in i + 1..n
    BY <1>1, <1>2, <2>2, UnderTells DEF Below
  <2>4. a < i
    BY <1>1, <1>2, <2>1, <2>3
  <2> QED
    BY <2>1, <2>3, <2>4
<1>7. BelongsInRegulation(parts) = TextsOf(parts, A) \cup TextsOf(parts, B)
  BY BelongsByKind
<1> HIDE DEF own, under, A, B, U
<1>8. Precedes(IdsOf(own), IdsOf(under))
  <2> SUFFICES ASSUME NEW a \in A, NEW b \in B,
                      NEW s \in Ids(parts[a].sentences), NEW t \in Ids(parts[b].sentences)
               PROVE  s < t
    BY <1>4, <1>5 DEF Precedes, TextsOf
  <2> QED
    BY <1>1, <1>2, <1>6 DEF InSequence
<1>9. InSequence(own \o under)
  BY <1>4, <1>5, <1>8, InSequenceConcat
<1>10. IdsOf(own \o under) = IdsOf(own) \cup IdsOf(under)
  BY <1>4, <1>5, IdsOfConcat
<1> QED
  BY <1>3, <1>4, <1>5, <1>7, <1>9, <1>10

-----------------------------------------------------------------------------
(***************************************************************************)
(* The lines and headings of a standard: sequences, whole and in pieces.   *)
(***************************************************************************)

\* Of a sequence in order every piece is.
LEMMA OrderedSplit ==
    ASSUME NEW U, NEW R, NEW v \in Seq(U), NEW w \in Seq(U), Ordered(R, v \o w)
    PROVE  /\ Ordered(R, v) /\ Ordered(R, w)
           /\ \A a \in Range(v), b \in Range(w) : <<a, b>> \in R
<1> DEFINE both == v \o w
<1>1. PICK m \in Nat : m = Len(v)
  BY LenProperties
<1>2. PICK n \in Nat : n = Len(w)
  BY LenProperties
<1>3. /\ DOMAIN both = 1..m + n
      /\ \A i \in 1..m : both[i] = v[i]
      /\ \A i \in m + 1..m + n : both[i] = w[i - m] /\ i - m \in 1..n
  BY <1>1, <1>2, ConcatAt
<1>4. DOMAIN v = 1..m /\ DOMAIN w = 1..n
  BY <1>1, <1>2, LenProperties
<1>5. \A i, j \in 1..m + n : i < j => <<both[i], both[j]>> \in R
  BY <1>3 DEF Ordered
<1> HIDE DEF both
<1>6. ASSUME NEW i \in 1..n PROVE m + i \in 1..m + n /\ both[m + i] = w[i]
  <2>1. m + i \in m + 1..m + n /\ (m + i) - m = i
    OBVIOUS
  <2> QED
    BY <1>3, <2>1
<1>7. Ordered(R, v)
  <2> SUFFICES ASSUME NEW i \in 1..m, NEW j \in 1..m, i < j PROVE <<v[i], v[j]>> \in R
    BY <1>4 DEF Ordered
  <2>1. i \in 1..m + n /\ j \in 1..m + n
    OBVIOUS
  <2> QED
    BY <1>3, <1>5, <2>1
<1>8. Ordered(R, w)
  <2> SUFFICES ASSUME NEW i \in 1..n, NEW j \in 1..n, i < j PROVE <<w[i], w[j]>> \in R
    BY <1>4 DEF Ordered
  <2>1. m + i < m + j
    OBVIOUS
  <2> QED
    BY <1>5, <1>6, <2>1
<1>9. \A a \in Range(v), b \in Range(w) : <<a, b>> \in R
  <2> SUFFICES ASSUME NEW i \in 1..m, NEW j \in 1..n PROVE <<v[i], w[j]>> \in R
    BY <1>4 DEF Range
  <2>1. i \in 1..m + n /\ i < m + j
    OBVIOUS
  <2> QED
    BY <1>3, <1>5, <1>6, <2>1
<1> QED
  BY <1>7, <1>8, <1>9

PiecesOrdered(R, f, k) ==
    /\ \A i \in 1..k : Ordered(R, f[i])
    /\ \A i, j \in 1..k : i < j => \A a \in Range(f[i]), b \in Range(f[j]) : <<a, b>> \in R

LEMMA OrderedPieces ==
    ASSUME NEW U, NEW R, NEW n \in Nat, NEW f \in [1..n -> Seq(U)], Ordered(R, FlattenSeq(f))
    PROVE  /\ \A i \in 1..n : Ordered(R, f[i])
           /\ \A i, j \in 1..n : i < j => \A a \in Range(f[i]), b \in Range(f[j]) : <<a, b>> \in R
<1> DEFINE Covers(k) == \A j \in 1..k : Range(f[j]) \subseteq Range(FlatTo(f, k))
           G == {k \in 0..n : Covers(k) /\ (Ordered(R, FlatTo(f, k)) => PiecesOrdered(R, f, k))}
<1>1. 0 \in G
  BY DEF PiecesOrdered
<1>2. ASSUME NEW k \in 1..n, k - 1 \in G PROVE k \in G
  <2>1. k - 1 \in 0..n /\ k \in 0..n /\ k \in Nat
    OBVIOUS
  <2>2. FlatTo(f, k) = FlatTo(f, k - 1) \o f[k] /\ FlatTo(f, k - 1) \in Seq(U) /\ f[k] \in Seq(U)
    BY <2>1, FlatStep
  <2>3. Covers(k - 1) /\ (Ordered(R, FlatTo(f, k - 1)) => PiecesOrdered(R, f, k - 1))
    BY <1>2
  <2>4. \A i \in 1..k : i \in 1..k - 1 \/ i = k
    OBVIOUS
  <2>5. Range(FlatTo(f, k)) = Range(FlatTo(f, k - 1)) \cup Range(f[k])
    BY <2>2, RangeConcat
  <2>6. ASSUME NEW j \in 1..k PROVE Range(f[j]) \subseteq Range(FlatTo(f, k))
    <3>1. CASE j = k
      BY <2>5, <3>1
    <3>2. CASE j # k
      <4>1. j \in 1..k - 1
        BY <2>4, <3>2
      <4> QED
        BY <2>3, <2>5, <4>1
    <3> QED
      BY <3>1, <3>2
  <2>7. ASSUME Ordered(R, FlatTo(f, k)) PROVE PiecesOrdered(R, f, k)
    <3>1. /\ Ordered(R, FlatTo(f, k - 1)) /\ Ordered(R, f[k])
          /\ \A a \in Range(FlatTo(f, k - 1)), b \in Range(f[k]) : <<a, b>> \in R
      BY <2>2, <2>7, OrderedSplit
    <3>2. PiecesOrdered(R, f, k - 1)
      BY <2>3, <3>1
    <3>3. ASSUME NEW i \in 1..k PROVE Ordered(R, f[i])
      BY <2>4, <3>1, <3>2 DEF PiecesOrdered
    <3>4. ASSUME NEW i \in 1..k, NEW j \in 1..k, i < j, NEW a \in Range(f[i]), NEW b \in Range(f[j])
          PROVE  <<a, b>> \in R
      <4>1. i \in 1..k - 1
        BY <2>1, <3>4
      <4>2. CASE j = k
        <5>1. a \in Range(FlatTo(f, k - 1))
          BY <2>3, <4>1
        <5> QED
          BY <3>1, <4>2, <5>1
      <4>3. CASE j # k
        <5>1. j \in 1..k - 1
          BY <2>4, <4>3
        <5> QED
          BY <3>2, <3>4, <4>1, <5>1 DEF PiecesOrdered
      <4> QED
        BY <4>2, <4>3
    <3> QED
      BY <3>3, <3>4 DEF PiecesOrdered
  <2>8. Covers(k)
    BY <2>6
  <2> HIDE DEF Covers
  <2> QED
    BY <2>1, <2>7, <2>8
<1> HIDE DEF G, Covers
<1>3. \A k \in 0..n : k \in G
  BY <1>1, <1>2, UptoInduction
<1>4. n \in 0..n
  OBVIOUS
<1>5. Ordered(R, FlatTo(f, n)) => PiecesOrdered(R, f, n)
  BY <1>3, <1>4 DEF G
<1>6. FlatTo(f, n) = FlattenSeq(f)
  BY FlatStep
<1> QED
  BY <1>5, <1>6 DEF PiecesOrdered

\* InSequence as an order of the parts.
Follows(U) == {p \in U \X U : Precedes(Ids(p[1].sentences), Ids(p[2].sentences))}

LEMMA InSequenceIs ==
    ASSUME NEW U, NEW x \in Seq(U)
    PROVE  InSequence(x) <=> (\A a \in Range(x) : Rising(a.sentences)) /\ Ordered(Follows(U), x)
<1>1. \A i \in DOMAIN x : x[i] \in U
  OBVIOUS
<1>2. (\A a \in Range(x) : Rising(a.sentences)) <=> \A i \in DOMAIN x : Rising(x[i].sentences)
  BY DEF Range
<1>3. Ordered(Follows(U), x) <=> \A i, j \in DOMAIN x : i < j =>
                                     Precedes(Ids(x[i].sentences), Ids(x[j].sentences))
  BY <1>1 DEF Ordered, Follows
<1> QED
  BY <1>2, <1>3 DEF InSequence, Precedes

\* Prefixes are no longer than the whole.
LEMMA PrefixLength ==
    ASSUME NEW U, NEW n \in Nat, NEW f \in [1..n -> Seq(U)], NEW k \in 0..n
    PROVE  Len(FlatTo(f, k)) \in 0..Len(FlattenSeq(f)) /\ Len(FlattenSeq(f)) \in Nat
<1> DEFINE G == {m \in 0..n : k <= m => Len(FlatTo(f, k)) <= Len(FlatTo(f, m))}
<1>1. \A m \in 0..n : FlatTo(f, m) \in Seq(U) /\ Len(FlatTo(f, m)) \in Nat
  BY FlatStep, LenProperties
<1>2. 0 \in G
  <2>1. CASE k = 0
    BY <1>1, <2>1
  <2>2. CASE k # 0
    BY <2>2
  <2> QED
    BY <2>1, <2>2
<1>3. ASSUME NEW m \in 1..n, m - 1 \in G PROVE m \in G
  <2>1. m \in 0..n /\ m - 1 \in 0..n
    OBVIOUS
  <2>2. Len(FlatTo(f, m)) = Len(FlatTo(f, m - 1)) + Len(f[m]) /\ Len(f[m]) \in Nat
    <3>1. FlatTo(f, m) = FlatTo(f, m - 1) \o f[m] /\ f[m] \in Seq(U)
      BY FlatStep
    <3>2. Len(f[m]) \in Nat
      BY <3>1, LenProperties
    <3> QED
      BY <1>1, <2>1, <3>1, <3>2, ConcatProperties
  <2>3. CASE k <= m - 1
    BY <1>1, <1>3, <2>1, <2>2, <2>3
  <2>4. CASE k = m
    BY <1>1, <2>1, <2>4
  <2>5. CASE k > m
    BY <2>1, <2>5
  <2> QED
    BY <2>3, <2>4, <2>5
<1> HIDE DEF G
<1>4. \A m \in 0..n : m \in G
  BY <1>2, <1>3, UptoInduction
<1>5. n \in G /\ n \in 0..n
  BY <1>4
<1>6. FlatTo(f, n) = FlattenSeq(f)
  BY FlatStep
<1>7. Len(FlatTo(f, k)) <= Len(FlatTo(f, n))
  BY <1>5 DEF G
<1> QED
  BY <1>1, <1>5, <1>6, <1>7

-----------------------------------------------------------------------------
(***************************************************************************)
(* The lines of a standard without its page furniture.                     *)
(***************************************************************************)

Keeps(pages, l) == l.words \notin Furniture(pages) /\ l.kind # "number"
KeptLine(pages, l) == IF Keeps(pages, l) THEN <<l>> ELSE <<>>
KeptOf(pages, p) == FlattenSeq([k \in DOMAIN p |-> KeptLine(pages, p[k])])

LEMMA StrippedPage ==
    ASSUME NEW pages
    PROVE  /\ DOMAIN Stripped(pages) = DOMAIN pages
           /\ \A i \in DOMAIN pages :
                  Stripped(pages)[i] = IF KeptOf(pages, pages[i]) = <<>> THEN <<EmptyLine>>
                                       ELSE KeptOf(pages, pages[i])
           /\ Stripped(pages) = [i \in DOMAIN pages |-> Stripped(pages)[i]]
BY DEF Stripped, KeptOf, KeptLine, Keeps

\* The lines that stay stand in their order.
LEMMA KeptStay ==
    ASSUME NEW U, NEW R, NEW pages, NEW p \in Seq(U), Ordered(R, p)
    PROVE  /\ KeptOf(pages, p) \in Seq(U) /\ Ordered(R, KeptOf(pages, p))
           /\ \A l : l \in Range(KeptOf(pages, p)) <=> l \in Range(p) /\ Keeps(pages, l)
<1>1. PICK n \in Nat : n = Len(p) /\ DOMAIN p = 1..n
  BY LenProperties
<1> DEFINE f == [k \in 1..n |-> KeptLine(pages, p[k])]
<1>2. \A k \in 1..n : p[k] \in U
  BY <1>1
<1>3. ASSUME NEW k \in 1..n
      PROVE  f[k] \in Seq(U) /\ Ordered(R, f[k])
             /\ Range(f[k]) = IF Keeps(pages, p[k]) THEN {p[k]} ELSE {}
  <2>1. f[k] = KeptLine(pages, p[k]) /\ p[k] \in U
    BY <1>2
  <2> HIDE DEF f
  <2>2. CASE Keeps(pages, p[k])
    <3>1. f[k] = <<p[k]>>
      BY <2>1, <2>2 DEF KeptLine
    <3>2. <<p[k]>> \in Seq(U) /\ Ordered(R, <<p[k]>>)
      BY <2>1 DEF Ordered
    <3>3. Range(<<p[k]>>) = {p[k]}
      BY RangeOne
    <3> QED
      BY <2>2, <3>1, <3>2, <3>3
  <2>3. CASE ~Keeps(pages, p[k])
    <3>1. f[k] = <<>>
      BY <2>1, <2>3 DEF KeptLine
    <3>2. <<>> \in Seq(U) /\ Ordered(R, <<>>) /\ Range(<<>>) = {}
      BY EmptySeq, HeldNone DEF Ordered
    <3> QED
      BY <2>3, <3>1, <3>2
  <2> QED
    BY <2>2, <2>3
<1>4. KeptOf(pages, p) = FlattenSeq(f)
  BY <1>1 DEF KeptOf
<1>5. f \in [1..n -> Seq(U)] /\ f \in Seq(Seq(U)) /\ DOMAIN f = 1..n
  <2> DEFINE S == Seq(U)
  <2>1. \A k \in 1..n : f[k] \in S
    BY <1>3
  <2> HIDE DEF S
  <2>2. f \in [1..n -> S]
    BY <2>1
  <2>3. f \in Seq(S)
    BY <2>2
  <2> QED
    BY <2>2, <2>3 DEF S
<1> HIDE DEF f
<1>6. ASSUME NEW i \in 1..n, NEW j \in 1..n, i < j, NEW a \in Range(f[i]), NEW b \in Range(f[j])
      PROVE  <<a, b>> \in R
  <2>1. a = p[i] /\ b = p[j]
    BY <1>3
  <2> QED
    BY <1>1, <1>6, <2>1 DEF Ordered
<1>7. Ordered(R, FlattenSeq(f))
  BY <1>3, <1>5, <1>6, OrderedFlatten
<1>8. FlattenSeq(f) \in Seq(U)
  BY <1>5, FlattenType
<1>9. Range(FlattenSeq(f)) = UNION {Range(f[k]) : k \in 1..n}
  BY <1>5, FlattenRange
<1>10. UNION {Range(f[k]) : k \in 1..n} = {l \in Range(p) : Keeps(pages, l)}
  <2>1. Range(p) = {p[k] : k \in 1..n}
    BY <1>1 DEF Range
  <2>2. ASSUME NEW l \in UNION {Range(f[k]) : k \in 1..n} PROVE l \in Range(p) /\ Keeps(pages, l)
    BY <1>3, <2>1
  <2>3. ASSUME NEW k \in 1..n, Keeps(pages, p[k]) PROVE p[k] \in UNION {Range(f[m]) : m \in 1..n}
    BY <1>3, <2>3
  <2> QED
    BY <2>1, <2>2, <2>3
<1> QED
  BY <1>4, <1>7, <1>8, <1>9, <1>10

LEMMA EmptyLineIsOne ==
    ASSUME NEW W
    PROVE  EmptyLine \in PartSet(W, Nat) /\ EmptyLine.kind = "line" /\ EmptyLine.sentences = <<>>
<1> DEFINE A == Seq(W)
           B == Seq([id : Nat, tokens : Nat])
<1>1. <<>> \in A /\ <<>> \in B
  BY EmptySeq
<1> HIDE DEF A, B
<1> DEFINE K == Kinds
<1>2. "line" \in K
  BY DEF Kinds
<1> HIDE DEF K
<1>3. EmptyLine \in [kind : K, words : A, sentences : B]
  BY <1>1, <1>2 DEF EmptyLine
<1>4. EmptyLine \in PartSet(W, Nat)
  BY <1>3 DEF PartSet, A, B, K
<1> QED
  BY <1>4 DEF EmptyLine

\* The stripped lines: the lines that stay, in order, and empty ones.
LEMMA LinesStay ==
    ASSUME NEW W, NEW pages \in Seq(Seq(PartSet(W, Nat))), InSequence(FlattenSeq(pages))
    PROVE  /\ Stripped(pages) \in Seq(Seq(PartSet(W, Nat))) /\ Len(Stripped(pages)) = Len(pages)
           /\ InSequence(FlattenSeq(Stripped(pages)))
           /\ \A l \in Range(FlattenSeq(pages)) : Keeps(pages, l) => l \in Range(FlattenSeq(Stripped(pages)))
           /\ \A l \in Range(FlattenSeq(Stripped(pages))) :
                  l = EmptyLine \/ (l \in Range(FlattenSeq(pages)) /\ Keeps(pages, l))
<1> DEFINE U == PartSet(W, Nat)
           R == Follows(U)
           raw == FlattenSeq(pages)
           text == Stripped(pages)
           lines == FlattenSeq(text)
<1>1. PICK n \in Nat : n = Len(pages) /\ DOMAIN pages = 1..n
  BY LenProperties
<1>2. EmptyLine \in U /\ EmptyLine.sentences = <<>>
  BY EmptyLineIsOne
<1>3. pages \in Seq(Seq(U))
  OBVIOUS
<1> HIDE DEF U
<1>4. pages \in [1..n -> Seq(U)]
  BY <1>1, <1>3
<1>5. raw \in Seq(U)
  BY <1>3, FlattenType
<1>6. (\A a \in Range(raw) : Rising(a.sentences)) /\ Ordered(R, raw)
  BY <1>5, InSequenceIs
<1> HIDE DEF R
<1>7. /\ \A i \in 1..n : Ordered(R, pages[i])
      /\ \A i, j \in 1..n : i < j => \A a \in Range(pages[i]), b \in Range(pages[j]) : <<a, b>> \in R
  BY <1>4, <1>6, OrderedPieces
<1>8. Range(raw) = UNION {Range(pages[i]) : i \in 1..n}
  BY <1>1, <1>3, FlattenRange
<1>9. \A a, b \in U : a = EmptyLine \/ b = EmptyLine => <<a, b>> \in R
  BY <1>2, IdsNone DEF R, Follows, Precedes
<1>10. ASSUME NEW i \in 1..n
       PROVE  /\ text[i] \in Seq(U) /\ Ordered(R, text[i])
              /\ \A l \in Range(pages[i]) : Keeps(pages, l) => l \in Range(text[i])
              /\ \A l \in Range(text[i]) :
                     l = EmptyLine \/ (l \in Range(pages[i]) /\ Keeps(pages, l))
  <2> DEFINE p == pages[i]
             kept == KeptOf(pages, p)
  <2>1. text[i] = IF kept = <<>> THEN <<EmptyLine>> ELSE kept
    BY <1>1, StrippedPage
  <2>2. p \in Seq(U) /\ Ordered(R, p)
    BY <1>4, <1>7
  <2> HIDE DEF p, text
  <2>3. /\ kept \in Seq(U) /\ Ordered(R, kept)
        /\ \A l : l \in Range(kept) <=> l \in Range(p) /\ Keeps(pages, l)
    BY <2>2, KeptStay
  <2> HIDE DEF kept
  <2>4. CASE kept = <<>>
    <3>1. \A l \in Range(p) : ~Keeps(pages, l)
      BY <2>3, <2>4, HeldNone
    <3>2. Range(<<EmptyLine>>) = {EmptyLine}
      BY RangeOne
    <3>3. <<EmptyLine>> \in Seq(U) /\ Ordered(R, <<EmptyLine>>)
      BY <1>2 DEF Ordered
    <3>4. text[i] = <<EmptyLine>>
      BY <2>1, <2>4
    <3> QED
      BY <3>1, <3>2, <3>3, <3>4 DEF p
  <2>5. CASE kept # <<>>
    BY <2>1, <2>3, <2>5 DEF p
  <2> QED
    BY <2>4, <2>5
<1>11. DOMAIN text = 1..n /\ text = [i \in 1..n |-> text[i]]
  BY <1>1, StrippedPage
<1> HIDE DEF text
<1>12. text \in [1..n -> Seq(U)] /\ text \in Seq(Seq(U)) /\ Len(text) = n
  BY <1>10, <1>11
<1>13. Range(lines) = UNION {Range(text[i]) : i \in 1..n}
  BY <1>11, <1>12, FlattenRange
<1>14. ASSUME NEW i \in 1..n, NEW j \in 1..n, i < j, NEW a \in Range(text[i]), NEW b \in Range(text[j])
       PROVE  <<a, b>> \in R
  <2>1. a \in U /\ b \in U
    BY <1>10, RangeWithin
  <2>2. CASE a = EmptyLine \/ b = EmptyLine
    BY <1>9, <2>1, <2>2
  <2>3. CASE a # EmptyLine /\ b # EmptyLine
    <3>1. a \in Range(pages[i]) /\ b \in Range(pages[j])
      BY <1>10, <2>3
    <3> QED
      BY <1>7, <1>14, <3>1
  <2> QED
    BY <2>2, <2>3
<1>15. Ordered(R, lines)
  BY <1>10, <1>12, <1>14, OrderedFlatten
<1>16. lines \in Seq(U)
  BY <1>12, FlattenType
<1>17. \A l \in Range(raw) : Keeps(pages, l) => l \in Range(lines)
  BY <1>8, <1>10, <1>13
<1>18. \A l \in Range(lines) : l = EmptyLine \/ (l \in Range(raw) /\ Keeps(pages, l))
  BY <1>8, <1>10, <1>13
<1>19. \A l \in Range(lines) : Rising(l.sentences)
  BY <1>2, <1>6, <1>18 DEF Rising
<1>20. InSequence(lines)
  BY <1>15, <1>16, <1>19, InSequenceIs DEF R
<1> QED
  BY <1>1, <1>12, <1>17, <1>18, <1>20 DEF U, text, lines, raw

-----------------------------------------------------------------------------
(***************************************************************************)
(* Where the headings of a standard are found.                             *)
(***************************************************************************)

LEMMA WindowType ==
    ASSUME NEW lines, NEW n \in Nat, n = Len(lines), NEW start \in Nat, NEW title
    PROVE  /\ MatchWindow(lines, start, title) \in 0..3
           /\ MatchWindow(lines, start, title) > 0 => start + MatchWindow(lines, start, title) - 1 <= n
<1> DEFINE WordsFrom(w) == FlattenSeq([k \in 1..w |-> lines[start + k - 1].words])
           Forms(w) == /\ start + w - 1 <= Len(lines)
                       /\ \/ WordsFrom(w) = title
                          \/ \E m \in Numbers : WordsFrom(w) = <<m>> \o title
           widths == {w \in 1..3 : Forms(w)}
<1>1. MatchWindow(lines, start, title) = IF widths = {} THEN 0 ELSE Min(widths)
  BY DEF MatchWindow
<1>2. \A w \in widths : w \in 1..3 /\ start + w - 1 <= n
  OBVIOUS
<1> HIDE DEF widths
<1>3. CASE widths = {}
  BY <1>1, <1>3
<1>4. CASE widths # {}
  <2>1. widths \subseteq Nat
    BY <1>2
  <2>2. Min(widths) \in widths
    BY <1>4, <2>1, MinOf
  <2> QED
    BY <1>1, <1>2, <1>4, <2>2
<1> QED
  BY <1>3, <1>4

\* The heading of one word sequence is where its line is.
LEMMA OneLineMatches ==
    ASSUME NEW lines, NEW n \in Nat, n = Len(lines), NEW start \in 1..n, NEW W,
           lines[start].words \in Seq(W)
    PROVE  MatchWindow(lines, start, lines[start].words) = 1
<1> DEFINE title == lines[start].words
           WordsFrom(w) == FlattenSeq([k \in 1..w |-> lines[start + k - 1].words])
           Forms(w) == /\ start + w - 1 <= Len(lines)
                       /\ \/ WordsFrom(w) = title
                          \/ \E m \in Numbers : WordsFrom(w) = <<m>> \o title
           widths == {w \in 1..3 : Forms(w)}
<1>1. MatchWindow(lines, start, title) = IF widths = {} THEN 0 ELSE Min(widths)
  BY DEF MatchWindow
<1>2. WordsFrom(1) = title
  <2>1. [k \in 1..1 |-> lines[start + k - 1].words] = <<title>>
    OBVIOUS
  <2> HIDE DEF title
  <2>2. FlattenSeq(<<title>>) = title
    BY FlattenOne DEF title
  <2> QED
    BY <2>1, <2>2
<1>3. 1 \in widths /\ widths \subseteq 1..3
  BY <1>2
<1> HIDE DEF widths, title
<1>4. Min(widths) \in widths /\ \A y \in widths : Min(widths) <= y
  <2>1. widths \subseteq Nat /\ widths # {}
    BY <1>3
  <2> QED
    BY <2>1, MinOf
<1> DEFINE least == Min(widths)
<1>5. least \in 1..3 /\ least <= 1
  BY <1>3, <1>4
<1> HIDE DEF least
<1>6. least = 1
  BY <1>5
<1> QED
  BY <1>1, <1>3, <1>6 DEF title, least

LEMMA FirstLinesType ==
    ASSUME NEW U, NEW text \in Seq(Seq(U)), NEW np \in Nat, np = Len(text),
           NEW n \in Nat, n = Len(FlattenSeq(text))
    PROVE  FirstLines(text) \in [1..np -> 1..n + 1]
<1>1. text \in [1..np -> Seq(U)] /\ DOMAIN text = 1..np
  <2> DEFINE S == Seq(U)
  <2>1. text \in Seq(S)
    OBVIOUS
  <2> HIDE DEF S
  <2>2. text \in [1..np -> S] /\ DOMAIN text = 1..np
    BY <2>1, LenProperties
  <2> QED
    BY <2>2 DEF S
<1>2. ASSUME NEW i \in 1..np PROVE 1 + Len(FlattenSeq(SubSeq(text, 1, i - 1))) \in 1..n + 1
  <2>1. SubSeq(text, 1, i - 1) = [j \in 1..i - 1 |-> text[j]]
    BY <1>1
  <2>2. i - 1 \in 0..np
    OBVIOUS
  <2>3. Len(FlatTo(text, i - 1)) \in 0..n
    BY <1>1, <2>2, PrefixLength
  <2>4. FlattenSeq(SubSeq(text, 1, i - 1)) = FlatTo(text, i - 1)
    BY <2>1 DEF FlatTo
  <2> QED
    BY <2>3, <2>4
<1> QED
  BY <1>1, <1>2 DEF FirstLines

Places(n) == {p \in [line : 1..n + 1, width : 0..3] : p.line + p.width <= n + 1}

\* A heading behind the floor, and its window.
LocatedAt(lines, n, floor, title, place) ==
    /\ place \in Places(n) /\ floor <= place.line
    /\ place.width = 0 \/ place.width = MatchWindow(lines, place.line, title)

LEMMA SearchType ==
    ASSUME NEW n \in Nat, NEW np \in Nat, np # 0, NEW pageLine \in [1..np -> 1..n + 1],
           NEW floor \in 1..n + 1, NEW page \in Nat \ {0}
    PROVE  /\ Min({page, Len(pageLine)}) \in 1..np
           /\ SearchFrom(pageLine[Min({page, Len(pageLine)})], floor) \in 1..n + 1
           /\ floor <= SearchFrom(pageLine[Min({page, Len(pageLine)})], floor)
           /\ SearchFrom(pageLine[Min({page, Len(pageLine)})], floor)
                   \in {floor, pageLine[Min({page, Len(pageLine)})]}
           /\ pageLine[Min({page, Len(pageLine)})] <= SearchFrom(pageLine[Min({page, Len(pageLine)})], floor)
           /\ pageLine[Min({page, Len(pageLine)})] \in 1..n + 1
<1>1. Len(pageLine) = np
  OBVIOUS
<1> DEFINE T == {page, np}
           p == Min(T)
<1>2. p \in T /\ \A y \in T : p <= y
  <2>1. T \subseteq Nat /\ T # {}
    OBVIOUS
  <2> HIDE DEF T
  <2> QED
    BY <2>1, MinOf
<1>3. p \in 1..np
  BY <1>2
<1> HIDE DEF p
<1> DEFINE line == pageLine[p]
           V == {line, floor}
           start == Max(V)
<1>4. line \in 1..n + 1
  BY <1>3
<1> HIDE DEF line
<1>5. start \in V /\ \A y \in V : y <= start
  <2>1. n + 1 \in Nat /\ V \subseteq 0..n + 1 /\ V # {}
    BY <1>4
  <2> HIDE DEF V
  <2> QED
    BY <2>1, MaxOf
<1> HIDE DEF start
<1>6. start \in 1..n + 1 /\ floor <= start /\ line <= start /\ start \in {floor, line}
  BY <1>4, <1>5
<1>7. SearchFrom(pageLine[Min({page, Len(pageLine)})], floor) = start
  BY <1>1 DEF SearchFrom, start, line, p
<1>8. Min({page, Len(pageLine)}) = p
  BY <1>1 DEF p
<1> QED
  BY <1>3, <1>4, <1>6, <1>7, <1>8 DEF line

LEMMA LocateFits ==
    ASSUME NEW lines, NEW n \in Nat, n = Len(lines), NEW np \in Nat, np # 0,
           NEW pageLine \in [1..np -> 1..n + 1], NEW floor \in 1..n + 1, NEW e, e.page \in Nat \ {0}
    PROVE  LocatedAt(lines, n, floor, e.title, Locate(lines, pageLine, floor, e))
<1> DEFINE start == SearchFrom(pageLine[Min({e.page, Len(pageLine)})], floor)
           hits == {i \in start..Len(lines) : MatchWindow(lines, i, e.title) > 0}
           at == Min(hits)
           place == IF hits = {} THEN [line |-> start, width |-> 0]
                    ELSE [line |-> at, width |-> MatchWindow(lines, at, e.title)]
<1>1. Locate(lines, pageLine, floor, e) = place
  BY DEF Locate
<1>2. start \in 1..n + 1 /\ floor <= start
  BY SearchType
<1> HIDE DEF start
<1>3. CASE hits = {}
  <2>1. place = [line |-> start, width |-> 0]
    BY <1>3
  <2> QED
    BY <1>1, <1>2, <2>1 DEF LocatedAt, Places
<1>4. CASE hits # {}
  <2>1. hits \subseteq Nat
    BY <1>2
  <2>2. at \in hits
    <3> HIDE DEF hits
    <3> QED
      BY <1>4, <2>1, MinOf
  <2> HIDE DEF at
  <2>3. at \in start..n /\ MatchWindow(lines, at, e.title) > 0
    BY <2>2
  <2> DEFINE w == MatchWindow(lines, at, e.title)
  <2>4. w \in 0..3 /\ at + w - 1 <= n
    <3>1. at \in Nat
      BY <1>2, <2>3
    <3> QED
      BY <2>3, <3>1, WindowType
  <2>5. place = [line |-> at, width |-> w]
    BY <1>4
  <2> HIDE DEF w
  <2>6. place \in Places(n) /\ floor <= place.line /\ place.line = at /\ place.width = w
    BY <1>2, <2>3, <2>4, <2>5 DEF Places
  <2> QED
    BY <1>1, <2>6 DEF LocatedAt, w
<1> QED
  BY <1>3, <1>4

\* The places of the headings, one after the other.
Top == [line |-> 1, width |-> 0]
PlaceAfter(lines, pageLine, entries, before, i) == Locate(lines, pageLine, before.line + before.width, entries[i])
PositionRun(lines, pageLine, entries, h, m) ==
    h[0] = Top /\ \A i \in 1..m : h[i] = PlaceAfter(lines, pageLine, entries, h[i - 1], i)

LEMMA PositionsRun ==
    ASSUME NEW lines, NEW n \in Nat, n = Len(lines), NEW np \in Nat, np # 0,
           NEW pageLine \in [1..np -> 1..n + 1], NEW entries, NEW m \in Nat, m = Len(entries),
           \A i \in 1..m : entries[i].page \in Nat \ {0}
    PROVE  PositionRun(lines, pageLine, entries, Positions(lines, pageLine, entries), m)
<1> DEFINE S == Places(n)
           to(p, i) == PlaceAfter(lines, pageLine, entries, p, i)
           Eq(g) == g = [i \in 0..m |-> IF i = 0 THEN Top ELSE to(g[i - 1], i)]
           step == [p \in (1..m) \X S |-> to(p[2], p[1])]
<1>1. Top \in S
  BY DEF Top, Places
<1>2. ASSUME NEW i \in 1..m, NEW p \in S PROVE to(p, i) \in S
  <2> DEFINE floor == p.line + p.width
             e == entries[i]
  <2>1. floor \in 1..n + 1 /\ e.page \in Nat \ {0}
    BY DEF Places
  <2> HIDE DEF floor, e
  <2>2. LocatedAt(lines, n, floor, e.title, Locate(lines, pageLine, floor, e))
    BY <2>1, LocateFits
  <2> QED
    BY <2>2 DEF LocatedAt, PlaceAfter, floor, e
<1> HIDE DEF S, to
<1>3. step \in [(1..m) \X S -> S]
  BY <1>2
<1>4. \E f \in [0..m -> S] : Recurses(f, m, Top, step)
  <2> HIDE DEF step
  <2> QED
    BY <1>1, <1>3, Recursion
<1>5. PICK f \in [0..m -> S] : Recurses(f, m, Top, step)
  BY <1>4
<1>6. Eq(f)
  <2>1. f[0] = Top
    BY <1>5 DEF Recurses
  <2>2. ASSUME NEW i \in 1..m PROVE f[i] = to(f[i - 1], i)
    <3>1. i - 1 \in 0..m
      OBVIOUS
    <3>2. f[i - 1] \in S
      BY <3>1
    <3>3. f[i] = step[<<i, f[i - 1]>>]
      BY <1>5 DEF Recurses
    <3> QED
      BY <3>2, <3>3
  <2> HIDE DEF step
  <2>3. ASSUME NEW i \in 0..m PROVE f[i] = IF i = 0 THEN Top ELSE to(f[i - 1], i)
    <3>1. CASE i = 0
      BY <2>1, <3>1
    <3>2. CASE i # 0
      <4>1. i \in 1..m
        BY <3>2
      <4> QED
        BY <2>2, <3>2, <4>1
    <3> QED
      BY <3>1, <3>2
  <2> QED
    BY <2>3
<1> HIDE DEF step
<1>7. PICK h : h = (CHOOSE x : Eq(x))
  OBVIOUS
<1>8. Eq(h)
  <2> HIDE DEF Eq
  <2> QED
    BY <1>6, <1>7
<1>9. Positions(lines, pageLine, entries) = h
  BY <1>7 DEF Positions, Top, to, PlaceAfter
<1>10. h[0] = Top /\ \A i \in 1..m : h[i] = to(h[i - 1], i)
  <2>1. \A i \in 0..m : h[i] = IF i = 0 THEN Top ELSE to(h[i - 1], i)
    BY <1>8
  <2> HIDE DEF Eq
  <2> QED
    BY <2>1
<1> QED
  BY <1>9, <1>10 DEF PositionRun, to

\* Where the text of entry i begins and where it ends.
StartOf(h, i) == h[i].line + h[i].width
EndOf(h, m, n, i) == IF i < m THEN h[i + 1].line - 1 ELSE n

\* Places that follow each other.
Descends(lines, n, entries, h, m) ==
    /\ \A i \in 0..m : h[i] \in Places(n)
    /\ \A i \in 1..m : /\ StartOf(h, i - 1) <= h[i].line
                       /\ h[i].width = 0 \/ h[i].width = MatchWindow(lines, h[i].line, entries[i].title)

LEMMA PositionsDescend ==
    ASSUME NEW lines, NEW n \in Nat, n = Len(lines), NEW np \in Nat, np # 0,
           NEW pageLine \in [1..np -> 1..n + 1], NEW entries, NEW m \in Nat, m = Len(entries),
           \A i \in 1..m : entries[i].page \in Nat \ {0},
           NEW h, PositionRun(lines, pageLine, entries, h, m)
    PROVE  Descends(lines, n, entries, h, m)
<1> DEFINE G == {i \in 0..m : h[i] \in Places(n)}
<1>1. ASSUME NEW i \in 1..m, h[i - 1] \in Places(n)
      PROVE  LocatedAt(lines, n, StartOf(h, i - 1), entries[i].title, h[i])
  <2> DEFINE floor == StartOf(h, i - 1)
             e == entries[i]
  <2>1. floor \in 1..n + 1 /\ e.page \in Nat \ {0}
    BY <1>1, SMTT(60) DEF Places, StartOf
  <2>2. h[i] = Locate(lines, pageLine, floor, e)
    BY DEF PositionRun, PlaceAfter, StartOf
  <2> HIDE DEF floor, e
  <2>3. LocatedAt(lines, n, floor, e.title, Locate(lines, pageLine, floor, e))
    BY <2>1, LocateFits
  <2> QED
    BY <2>2, <2>3 DEF floor, e
<1>2. 0 \in G
  <2>1. Top \in Places(n)
    BY DEF Top, Places
  <2> QED
    BY <2>1 DEF PositionRun
<1>3. ASSUME NEW i \in 1..m, i - 1 \in G PROVE i \in G
  <2>1. LocatedAt(lines, n, StartOf(h, i - 1), entries[i].title, h[i])
    BY <1>1, <1>3
  <2> QED
    BY <2>1 DEF LocatedAt
<1> HIDE DEF G
<1>4. \A i \in 0..m : i \in G
  BY <1>2, <1>3, UptoInduction
<1>5. \A i \in 0..m : h[i] \in Places(n)
  BY <1>4 DEF G
<1>6. ASSUME NEW i \in 1..m
      PROVE  /\ StartOf(h, i - 1) <= h[i].line
             /\ h[i].width = 0 \/ h[i].width = MatchWindow(lines, h[i].line, entries[i].title)
  <2>1. i - 1 \in 0..m
    OBVIOUS
  <2>2. LocatedAt(lines, n, StartOf(h, i - 1), entries[i].title, h[i])
    BY <1>1, <1>5, <2>1
  <2> QED
    BY <2>2 DEF LocatedAt
<1> QED
  BY <1>5, <1>6 DEF Descends

\* The texts of the entries follow each other and leave out the headings.
BodyOf(h, m, n, i) == StartOf(h, i)..EndOf(h, m, n, i)

LEMMA PlaceNumbers ==
    ASSUME NEW lines, NEW n \in Nat, NEW entries, NEW h, NEW m \in Nat,
           Descends(lines, n, entries, h, m), NEW i \in 0..m
    PROVE  /\ h[i].line \in 1..n + 1 /\ h[i].width \in 0..3
           /\ StartOf(h, i) \in 1..n + 1 /\ h[i].line <= StartOf(h, i)
           /\ StartOf(h, i) = h[i].line + h[i].width
<1> DEFINE p == h[i]
<1>1. p \in Places(n)
  BY DEF Descends
<1>2. StartOf(h, i) = p.line + p.width
  BY DEF StartOf
<1> HIDE DEF p
<1>3. p.line \in 1..n + 1 /\ p.width \in 0..3 /\ p.line + p.width <= n + 1
  BY <1>1 DEF Places
<1>4. StartOf(h, i) \in 1..n + 1 /\ p.line <= StartOf(h, i)
  BY <1>2, <1>3
<1> QED
  BY <1>2, <1>3, <1>4 DEF p

LEMMA StartsRise ==
    ASSUME NEW lines, NEW n \in Nat, NEW entries, NEW h, NEW m \in Nat,
           Descends(lines, n, entries, h, m), NEW i \in 0..m
    PROVE  \A j \in 0..m : i <= j => StartOf(h, i) <= StartOf(h, j)
<1> DEFINE G == {j \in 0..m : i <= j => StartOf(h, i) <= StartOf(h, j)}
<1>1. \A j \in 0..m : StartOf(h, j) \in Nat
  <2> SUFFICES ASSUME NEW j \in 0..m PROVE StartOf(h, j) \in Nat
    OBVIOUS
  <2>1. StartOf(h, j) \in 1..n + 1
    BY PlaceNumbers
  <2> QED
    BY <2>1
<1>2. 0 \in G
  <2>1. CASE i = 0
    BY <1>1, <2>1
  <2>2. CASE i # 0
    BY <2>2
  <2> QED
    BY <2>1, <2>2
<1>3. ASSUME NEW j \in 1..m, j - 1 \in G PROVE j \in G
  <2>1. j \in 0..m /\ j - 1 \in 0..m
    OBVIOUS
  <2>2. StartOf(h, j - 1) <= StartOf(h, j)
    <3>1. StartOf(h, j - 1) <= h[j].line
      BY DEF Descends
    <3>2. h[j].line <= StartOf(h, j) /\ h[j].line \in 1..n + 1
      BY <2>1, PlaceNumbers
    <3> QED
      BY <1>1, <2>1, <3>1, <3>2
  <2>3. CASE i <= j - 1
    BY <1>1, <1>3, <2>1, <2>2, <2>3
  <2>4. CASE i = j
    BY <1>1, <2>1, <2>4
  <2>5. CASE i > j
    BY <2>1, <2>5
  <2> QED
    BY <2>3, <2>4, <2>5
<1> HIDE DEF G
<1>4. \A j \in 0..m : j \in G
  BY <1>2, <1>3, UptoInduction
<1> QED
  BY <1>4 DEF G

LEMMA BodiesFollow ==
    ASSUME NEW lines, NEW n \in Nat, NEW entries, NEW h, NEW m \in Nat,
           Descends(lines, n, entries, h, m)
    PROVE  /\ \A i \in 1..m : StartOf(h, i) \in 1..n + 1 /\ EndOf(h, m, n, i) \in 0..n
           /\ \A i, j \in 1..m : i < j => \A a \in BodyOf(h, m, n, i), b \in BodyOf(h, m, n, j) : a < b
           /\ \A i \in 1..m : \A k \in BodyOf(h, m, n, i) : k \in 1..n /\ StartOf(h, 1) <= k
           /\ \A k \in 1..n : m # 0 /\ StartOf(h, 1) <= k =>
                  (\E i \in 1..m : k \in BodyOf(h, m, n, i))
                  \/ \E i \in 2..m : k \in h[i].line..StartOf(h, i) - 1
<1>1. \A i \in 0..m : h[i].line \in 1..n + 1 /\ StartOf(h, i) \in 1..n + 1
  BY PlaceNumbers
<1>2. ASSUME NEW i \in 1..m PROVE StartOf(h, i) \in 1..n + 1 /\ EndOf(h, m, n, i) \in 0..n
  <2>1. i \in 0..m /\ (i < m => i + 1 \in 0..m)
    OBVIOUS
  <2> QED
    BY <1>1, <2>1 DEF EndOf
<1>3. ASSUME NEW i \in 1..m, NEW j \in 1..m, i < j, NEW a \in BodyOf(h, m, n, i), NEW b \in BodyOf(h, m, n, j)
      PROVE  a < b
  <2>1. i < m /\ i + 1 \in 1..m /\ i + 1 \in 0..m /\ j \in 0..m /\ i + 1 <= j
    BY <1>3
  <2>2. a \in Int /\ a <= h[i + 1].line - 1
    BY <2>1 DEF BodyOf, EndOf
  <2>3. h[i + 1].line <= StartOf(h, i + 1)
    BY <2>1, PlaceNumbers
  <2>4. StartOf(h, i + 1) <= StartOf(h, j)
    BY <2>1, StartsRise
  <2>5. b \in Int /\ StartOf(h, j) <= b
    BY DEF BodyOf
  <2> QED
    BY <1>1, <2>1, <2>2, <2>3, <2>4, <2>5
<1>4. ASSUME NEW i \in 1..m, NEW k \in BodyOf(h, m, n, i) PROVE k \in 1..n /\ StartOf(h, 1) <= k
  <2>1. 1 \in 0..m /\ i \in 0..m /\ 1 <= i
    OBVIOUS
  <2>2. StartOf(h, 1) <= StartOf(h, i)
    BY <2>1, StartsRise
  <2> QED
    BY <1>1, <1>2, <2>1, <2>2 DEF BodyOf
<1>5. ASSUME NEW k \in 1..n, m # 0, StartOf(h, 1) <= k
      PROVE  (\E i \in 1..m : k \in BodyOf(h, m, n, i))
             \/ \E i \in 2..m : k \in h[i].line..StartOf(h, i) - 1
  <2> DEFINE T == {i \in 1..m : StartOf(h, i) <= k}
             i == Max(T)
  <2>1. i \in T /\ \A y \in T : y <= i
    <3>1. T \subseteq 0..m /\ 1 \in T
      BY <1>5
    <3> HIDE DEF T
    <3> QED
      BY <3>1, MaxOf
  <2> HIDE DEF i
  <2>2. i \in 1..m /\ StartOf(h, i) <= k
    BY <2>1
  <2>3. CASE i = m
    <3>1. EndOf(h, m, n, i) = n
      BY <2>3 DEF EndOf
    <3>2. k \in BodyOf(h, m, n, i)
      BY <1>2, <2>2, <3>1 DEF BodyOf
    <3> QED
      BY <2>2, <3>2
  <2>4. CASE i # m
    <3>1. i < m /\ i + 1 \in 2..m /\ i + 1 \in 1..m /\ i + 1 \in 0..m
      BY <2>2, <2>4
    <3>2. ~(StartOf(h, i + 1) <= k)
      <4>1. i + 1 \notin T
        BY <2>1, <2>2
      <4> QED
        BY <3>1, <4>1
    <3>3. h[i + 1].line \in 1..n + 1 /\ StartOf(h, i + 1) \in 1..n + 1
      BY <1>1, <3>1
    <3>4. CASE k < h[i + 1].line
      <4>1. EndOf(h, m, n, i) = h[i + 1].line - 1
        BY <3>1 DEF EndOf
      <4>2. k \in BodyOf(h, m, n, i)
        BY <1>2, <2>2, <3>3, <3>4, <4>1 DEF BodyOf
      <4> QED
        BY <2>2, <4>2
    <3>5. CASE ~(k < h[i + 1].line)
      <4>1. k \in h[i + 1].line..StartOf(h, i + 1) - 1
        BY <3>2, <3>3, <3>5
      <4> QED
        BY <3>1, <4>1
    <3> QED
      BY <3>4, <3>5
  <2> QED
    BY <2>3, <2>4
<1> QED
  BY <1>2, <1>3, <1>4, <1>5

\* What a heading is known by in its file and among the lines that stay.
FirstAt(parts, words, at) ==
    /\ at \in DOMAIN parts /\ parts[at].kind = "title" /\ parts[at].words = words
    /\ \A i \in DOMAIN parts : parts[i].kind = "title" /\ parts[i].words = words => at <= i

\* The lines of a file and what stays of them.
Stays(raw, lines) ==
    /\ \A l \in Range(raw) : l.kind \in {"line", "title"} => l \in Range(lines)
    /\ \A l \in Range(lines) : l = EmptyLine \/ (l \in Range(raw) /\ l.kind \in {"line", "title"})
    /\ \A l \in Range(raw) : l.kind = "title" => l.sentences # <<>>

LEMMA SentencesIdentify ==
    ASSUME NEW W, NEW parts \in Seq(PartSet(W, Nat)), InSequence(parts),
           NEW i \in DOMAIN parts, NEW j \in DOMAIN parts,
           NEW s \in Ids(parts[i].sentences), NEW t \in Ids(parts[j].sentences)
    PROVE  s \in Nat /\ t \in Nat /\ (i < j => s < t) /\ (s = t => i = j) /\ i \in Nat /\ j \in Nat
<1>1. ASSUME NEW k \in DOMAIN parts PROVE Ids(parts[k].sentences) \subseteq Nat
  <2>1. parts[k].sentences \in Seq(Numbered)
    BY PartFields
  <2>2. Range(parts[k].sentences) \subseteq Numbered
    BY <2>1, RangeWithin
  <2> QED
    BY <2>2 DEF Ids, Numbered
<1>2. i \in Nat /\ j \in Nat
  <2>1. PICK n \in Nat : DOMAIN parts = 1..n
    BY LenProperties
  <2> QED
    BY <2>1
<1>3. s \in Nat /\ t \in Nat
  BY <1>1
<1>4. (i < j => s < t) /\ (j < i => t < s)
  BY DEF InSequence
<1> QED
  BY <1>2, <1>3, <1>4

LEMMA IdsSome ==
    ASSUME NEW text \in Seq(Numbered), text # <<>>
    PROVE  \E x : x \in Ids(text)
<1>1. Len(text) # 0 /\ Len(text) \in Nat /\ DOMAIN text = 1..Len(text)
  BY EmptySeq, LenProperties
<1>2. 1 \in DOMAIN text
  BY <1>1
<1>3. text[1].id \in Ids(text)
  BY <1>2 DEF Ids, Range
<1> QED
  BY <1>3

\* The heading that a file is read from is the same line before and after stripping.
LEMMA SameHeading ==
    ASSUME NEW W, NEW raw \in Seq(PartSet(W, Nat)), InSequence(raw),
           NEW lines \in Seq(PartSet(W, Nat)), InSequence(lines), Stays(raw, lines),
           NEW words, NEW first, FirstAt(raw, words, first), NEW heading, FirstAt(lines, words, heading)
    PROVE  lines[heading] = raw[first] /\ raw[first].sentences # <<>>
<1>1. lines[heading] \in Range(lines) /\ lines[heading].kind = "title"
  BY DEF FirstAt, Range
<1>2. lines[heading] \in Range(raw)
  BY <1>1, EmptyLineIsOne DEF Stays
<1>3. PICK p \in DOMAIN raw : raw[p] = lines[heading]
  BY <1>2 DEF Range
<1>4. raw[first] \in Range(raw) /\ raw[first].kind = "title" /\ first \in DOMAIN raw
  BY DEF FirstAt, Range
<1>5. raw[first] \in Range(lines) /\ raw[first].sentences # <<>>
  BY <1>4 DEF Stays
<1>6. PICK q \in DOMAIN lines : lines[q] = raw[first]
  BY <1>5 DEF Range
<1>7. first <= p /\ heading <= q /\ heading \in DOMAIN lines
  BY <1>3, <1>4, <1>6 DEF FirstAt
<1>8. PICK x : x \in Ids(raw[first].sentences)
  <2>1. raw[first].sentences \in Seq(Numbered)
    BY <1>4, PartFields
  <2> QED
    BY <1>5, <2>1, IdsSome
<1>9. PICK y : y \in Ids(raw[p].sentences)
  <2>1. raw[p].sentences \in Seq(Numbered) /\ raw[p] \in Range(raw) /\ raw[p].kind = "title"
    BY <1>1, <1>3, PartFields DEF Range
  <2>2. raw[p].sentences # <<>>
    BY <2>1 DEF Stays
  <2> QED
    BY <2>1, <2>2, IdsSome
<1>10. x \in Nat /\ y \in Nat /\ (first < p => x < y) /\ first \in Nat /\ p \in Nat
  BY <1>4, <1>8, <1>9, SentencesIdentify
<1>11. /\ x \in Ids(lines[q].sentences) /\ y \in Ids(lines[heading].sentences)
  BY <1>3, <1>6, <1>8, <1>9
<1>12. (heading < q => y < x) /\ heading \in Nat /\ q \in Nat
  BY <1>6, <1>7, <1>11, SentencesIdentify
<1>13. CASE heading = q
  BY <1>5, <1>6, <1>13
<1>14. CASE heading # q
  <2>1. y < x
    BY <1>7, <1>12, <1>14
  <2>2. p = first
    BY <1>7, <1>10, <2>1
  <2> QED
    BY <1>3, <1>5, <2>2
<1> QED
  BY <1>13, <1>14

TitleIds(raw) == UNION {Ids(l.sentences) : l \in {l \in Range(raw) : l.kind = "title"}}

\* What stands behind the heading, but for other headings, is the text.
LEMMA TextBehindHeading ==
    ASSUME NEW W, NEW raw \in Seq(PartSet(W, Nat)), InSequence(raw),
           NEW lines \in Seq(PartSet(W, Nat)), InSequence(lines), Stays(raw, lines),
           NEW words, NEW first, FirstAt(raw, words, first), NEW heading, FirstAt(lines, words, heading),
           NEW B, \A k \in B : k \in DOMAIN lines /\ heading < k,
           \A k \in DOMAIN lines : heading < k => k \in B \/ lines[k].kind = "title"
    PROVE  TextsOf(lines, B) \ TitleIds(raw)
               = UNION {Ids(raw[i].sentences) : i \in {i \in first..Len(raw) : raw[i].kind = "line"}}
<1>1. lines[heading] = raw[first] /\ raw[first].sentences # <<>>
  BY SameHeading
<1>2. first \in DOMAIN raw /\ heading \in DOMAIN lines /\ raw[first].kind = "title"
  BY DEF FirstAt
<1>3. PICK x : x \in Ids(raw[first].sentences) /\ x \in Ids(lines[heading].sentences)
  <2>1. raw[first].sentences \in Seq(Numbered)
    BY <1>2, PartFields
  <2> QED
    BY <1>1, <2>1, IdsSome
<1>4. DOMAIN raw = 1..Len(raw) /\ Len(raw) \in Nat /\ first \in 1..Len(raw)
  BY <1>2, LenProperties
<1> DEFINE Text == {i \in first..Len(raw) : raw[i].kind = "line"}
<1>5. ASSUME NEW k \in B, NEW s \in Ids(lines[k].sentences), s \notin TitleIds(raw)
      PROVE  \E i \in Text : s \in Ids(raw[i].sentences)
  <2>1. k \in DOMAIN lines /\ heading < k /\ lines[k] \in Range(lines)
    BY DEF Range
  <2>2. lines[k] # EmptyLine
    BY <1>5, EmptyLineIsOne, IdsNone
  <2>3. lines[k] \in Range(raw) /\ lines[k].kind \in {"line", "title"}
    BY <2>1, <2>2 DEF Stays
  <2>4. lines[k].kind = "line"
    BY <1>5, <2>3 DEF TitleIds
  <2>5. PICK i \in DOMAIN raw : raw[i] = lines[k]
    BY <2>3 DEF Range
  <2>6. s \in Ids(raw[i].sentences)
    BY <1>5, <2>5
  <2>7. x < s /\ x \in Nat /\ s \in Nat
    BY <1>2, <1>3, <1>5, <2>1, SentencesIdentify
  <2>8. i < first => s < x
    BY <1>2, <1>3, <2>5, <2>6, SentencesIdentify, ZenonT(60)
  <2>9. i \in Text
    BY <1>4, <2>4, <2>5, <2>7, <2>8
  <2> QED
    BY <2>6, <2>9
<1>6. ASSUME NEW i \in Text, NEW s \in Ids(raw[i].sentences)
      PROVE  s \notin TitleIds(raw) /\ \E k \in B : s \in Ids(lines[k].sentences)
  <2>1. i \in DOMAIN raw /\ raw[i].kind = "line" /\ first <= i /\ raw[i] \in Range(raw) /\ i \in Nat
    BY <1>4 DEF Range
  <2>2. first < i
    BY <1>2, <1>4, <2>1
  <2>3. PICK k \in DOMAIN lines : lines[k] = raw[i]
    BY <2>1 DEF Stays, Range
  <2>4. s \in Ids(lines[k].sentences)
    BY <2>3
  <2>5. x < s /\ x \in Nat /\ s \in Nat
    BY <1>2, <1>3, <2>1, <2>2, SentencesIdentify
  <2>6. (k < heading => s < x) /\ k \in Nat /\ heading \in Nat
    BY <1>2, <1>3, <2>3, <2>4, SentencesIdentify
  <2>7. k # heading
    BY <1>1, <1>2, <2>1, <2>3
  <2>8. heading < k
    BY <2>5, <2>6, <2>7
  <2>9. k \in B
    BY <2>1, <2>3, <2>8
  <2>10. ASSUME s \in TitleIds(raw) PROVE FALSE
    <3>1. PICK j \in DOMAIN raw : raw[j].kind = "title" /\ s \in Ids(raw[j].sentences)
      BY <2>10 DEF TitleIds, Range
    <3>2. i \in DOMAIN raw /\ j \in DOMAIN raw /\ s \in Ids(raw[i].sentences) /\ s \in Ids(raw[j].sentences)
      BY <2>1, <3>1
    <3>3. s = s => i = j
      <4> HIDE DEF Text
      <4> QED
        BY <3>2, SentencesIdentify, ZenonT(60)
    <3>4. i = j
      BY <3>3
    <3> QED
      BY <2>1, <3>1, <3>4
  <2> QED
    BY <2>4, <2>9, <2>10
<1> HIDE DEF Text
<1>7. TextsOf(lines, B) \ TitleIds(raw) = UNION {Ids(raw[i].sentences) : i \in Text}
  BY <1>5, <1>6 DEF TextsOf
<1> QED
  BY <1>7 DEF Text

\* The outline from the first body section on begins with it.
LEMMA EntriesBegin ==
    ASSUME NEW U, NEW outline \in Seq(U), NEW first, \E i \in DOMAIN outline : outline[i].title = first
    PROVE  /\ BodyEntries(outline, first) \in Seq(U)
           /\ Len(BodyEntries(outline, first)) \in Nat \ {0}
           /\ BodyEntries(outline, first)[1].title = first
           /\ Head(BodyEntries(outline, first)) = BodyEntries(outline, first)[1]
<1> DEFINE found == {i \in DOMAIN outline : outline[i].title = first}
           at    == Min(found)
           n     == Len(outline)
<1>1. n \in Nat /\ DOMAIN outline = 1..n
  BY LenProperties
<1>2. found # {} /\ found \subseteq Nat
  BY <1>1
<1>3. at \in found
  BY <1>2, MinOf
<1>4. at \in 1..n /\ outline[at].title = first
  BY <1>1, <1>3
<1>5. BodyEntries(outline, first) = SubSeq(outline, at, n)
  BY <1>2 DEF BodyEntries
<1> HIDE DEF found, at, n
<1>6. /\ SubSeq(outline, at, n) \in Seq(U) /\ Len(SubSeq(outline, at, n)) = n - at + 1
      /\ SubSeq(outline, at, n)[1] = outline[at]
  <2>1. \A i \in at..n : outline[i] \in U
    BY <1>1, <1>4, ElementOfSeq DEF n
  <2>2. /\ SubSeq(outline, at, n) \in Seq(U)
        /\ Len(SubSeq(outline, at, n)) = IF at <= n THEN n - at + 1 ELSE 0
        /\ \A i \in 1..n - at + 1 : SubSeq(outline, at, n)[i] = outline[at + i - 1]
    BY <1>1, <1>4, <2>1, SubSeqProperties
  <2>3. 1 \in 1..n - at + 1 /\ at + 1 - 1 = at /\ at <= n
    BY <1>1, <1>4
  <2> QED
    BY <2>2, <2>3
<1>7. n - at + 1 \in Nat \ {0}
  BY <1>1, <1>4
<1>8. Head(SubSeq(outline, at, n)) = SubSeq(outline, at, n)[1]
  <2>1. SubSeq(outline, at, n) # <<>>
    BY <1>6, <1>7, EmptySeq
  <2> QED
    BY <1>6, <2>1, HeadTailProperties
<1> QED
  BY <1>4, <1>5, <1>6, <1>7, <1>8

\* Where a search starts, on the page of its bookmark.
PageLine(pageLine, page) == pageLine[Min({page, Len(pageLine)})]
SearchStart(pageLine, page, floor) == SearchFrom(PageLine(pageLine, page), floor)

LEMMA SearchStarts ==
    ASSUME NEW n \in Nat, NEW np \in Nat, np # 0, NEW pageLine \in [1..np -> 1..n + 1],
           NEW page \in Nat \ {0}
    PROVE  SearchStart(pageLine, page, 1) = PageLine(pageLine, page) /\ PageLine(pageLine, page) \in 1..n + 1
<1>1. \A floor \in 1..n + 1 :
          /\ SearchFrom(pageLine[Min({page, Len(pageLine)})], floor) \in 1..n + 1
          /\ SearchFrom(pageLine[Min({page, Len(pageLine)})], floor)
                  \in {floor, pageLine[Min({page, Len(pageLine)})]}
          /\ pageLine[Min({page, Len(pageLine)})] <= SearchFrom(pageLine[Min({page, Len(pageLine)})], floor)
          /\ pageLine[Min({page, Len(pageLine)})] \in 1..n + 1
  <2>1. TAKE floor \in 1..n + 1
  <2> QED
    BY SearchType
<1>2. 1 \in 1..n + 1
  OBVIOUS
<1>3. /\ pageLine[Min({page, Len(pageLine)})] \in 1..n + 1
      /\ SearchFrom(pageLine[Min({page, Len(pageLine)})], 1) = pageLine[Min({page, Len(pageLine)})]
  <2> DEFINE line == pageLine[Min({page, Len(pageLine)})]
             start == SearchFrom(line, 1)
  <2>1. start \in {1, line} /\ line <= start /\ line \in 1..n + 1
    BY <1>1, <1>2
  <2> HIDE DEF line, start
  <2>2. start = line
    BY <2>1
  <2> QED
    BY <2>1, <2>2 DEF line, start
<1> QED
  BY <1>3 DEF SearchStart, PageLine

FirstMatch(lines, start, at, title) ==
    /\ start \in Nat /\ at \in start..Len(lines) /\ MatchWindow(lines, at, title) = 1
    /\ \A i \in start..at - 1 : MatchWindow(lines, i, title) = 0

PlacedAt(place, at) == place.line = at /\ place.width = 1

\* The search stops at the first line that forms the heading.
LEMMA LocateFirst ==
    ASSUME NEW lines, Len(lines) \in Nat, NEW pageLine, NEW floor, NEW e,
           NEW at, FirstMatch(lines, SearchStart(pageLine, e.page, floor), at, e.title)
    PROVE  PlacedAt(Locate(lines, pageLine, floor, e), at)
<1> DEFINE start == SearchStart(pageLine, e.page, floor)
           n == Len(lines)
<1>0. /\ start \in Nat /\ at \in start..n /\ MatchWindow(lines, at, e.title) = 1
      /\ \A i \in start..at - 1 : MatchWindow(lines, i, e.title) = 0
  BY DEF FirstMatch
<1> HIDE DEF start
<1> DEFINE hits == {i \in start..n : MatchWindow(lines, i, e.title) > 0}
<1>1. at \in hits /\ hits \subseteq Nat
  <2>1. at \in start..n /\ MatchWindow(lines, at, e.title) > 0
    BY <1>0
  <2>2. start..n \subseteq Nat
    BY <1>0
  <2> QED
    BY <2>1, <2>2
<1>2. Min(hits) \in hits /\ Min(hits) <= at
  BY <1>1, MinOf
<1>3. ASSUME NEW i \in hits, i <= at PROVE i = at
  <2>1. i \in start..n /\ MatchWindow(lines, i, e.title) # 0
    BY <1>3
  <2>2. i \in Nat /\ at \in Nat
    BY <1>0, <2>1
  <2>3. ~(i \in start..at - 1)
    <3>1. ASSUME i \in start..at - 1 PROVE FALSE
      <4>1. MatchWindow(lines, i, e.title) = 0
        BY <1>0, <3>1
      <4> QED
        BY <2>1, <4>1
    <3> QED
      BY <3>1
  <2> QED
    BY <1>0, <1>3, <2>1, <2>2, <2>3
<1>4. Min(hits) = at
  BY <1>2, <1>3
<1>5. hits # {}
  BY <1>1
<1>6. hits = {i \in SearchFrom(pageLine[Min({e.page, Len(pageLine)})], floor)..Len(lines) :
                  MatchWindow(lines, i, e.title) > 0}
  BY DEF SearchStart, PageLine, start
<1> HIDE DEF hits
<1>7. Locate(lines, pageLine, floor, e) = [line |-> Min(hits), width |-> MatchWindow(lines, Min(hits), e.title)]
  BY <1>5, <1>6 DEF Locate
<1> QED
  BY <1>0, <1>4, <1>7 DEF PlacedAt

\* Between the bookmark of an entry and its heading nothing else forms it.
FirstFrom(lines, pageLine, e, heading) ==
    /\ PageLine(pageLine, e.page) <= heading
    /\ \A i \in PageLine(pageLine, e.page)..heading - 1 : MatchWindow(lines, i, e.title) = 0

LinesOfPages(np, n) == [1..np -> 1..n + 1]

LEMMA FirstPlace ==
    ASSUME NEW lines, NEW n \in Nat, n = Len(lines), NEW np \in Nat, np # 0,
           NEW pageLine \in LinesOfPages(np, n), NEW entries, NEW m \in Nat, m # 0,
           NEW h, PositionRun(lines, pageLine, entries, h, m),
           NEW e, e = entries[1], e.page \in Nat \ {0}, NEW W, e.title \in Seq(W),
           NEW heading \in 1..n, lines[heading].words = e.title,
           FirstFrom(lines, pageLine, e, heading)
    PROVE  StartOf(h, 1) = heading + 1
<1> DEFINE start == PageLine(pageLine, e.page)
<1>1. h[1] = PlaceAfter(lines, pageLine, entries, h[0], 1) /\ h[0] = Top
  <2>1. 1 \in 1..m /\ 1 - 1 = 0
    OBVIOUS
  <2> QED
    BY <2>1 DEF PositionRun
<1>2. h[1] = Locate(lines, pageLine, 1, e)
  <2>1. Top.line + Top.width = 1
    BY DEF Top
  <2> QED
    BY <1>1, <2>1 DEF PlaceAfter
<1>3. start = SearchStart(pageLine, e.page, 1) /\ start \in 1..n + 1
  <2> DEFINE page == e.page
  <2>1. page \in Nat \ {0}
    OBVIOUS
  <2> HIDE DEF page
  <2>2. SearchStart(pageLine, page, 1) = PageLine(pageLine, page) /\ PageLine(pageLine, page) \in 1..n + 1
    BY <2>1, SearchStarts DEF LinesOfPages
  <2> QED
    BY <2>2 DEF page
<1>4. MatchWindow(lines, heading, e.title) = 1
  <2>1. lines[heading].words \in Seq(W)
    OBVIOUS
  <2>2. MatchWindow(lines, heading, lines[heading].words) = 1
    BY <2>1, OneLineMatches
  <2> QED
    BY <2>2
<1>5. heading \in start..n /\ start \in Nat
  BY <1>3 DEF FirstFrom
<1>6. \A i \in start..heading - 1 : MatchWindow(lines, i, e.title) = 0
  BY DEF FirstFrom
<1> HIDE DEF start
<1>7. PlacedAt(h[1], heading)
  <2>1. FirstMatch(lines, start, heading, e.title)
    <3>1. start \in Nat /\ heading \in start..Len(lines) /\ MatchWindow(lines, heading, e.title) = 1
      BY <1>4, <1>5
    <3> QED
      BY <3>1, <1>6, Zenon DEF FirstMatch
  <2>2. PlacedAt(Locate(lines, pageLine, 1, e), heading)
    <3>1. FirstMatch(lines, SearchStart(pageLine, e.page, 1), heading, e.title)
      BY <1>3, <2>1, Zenon
    <3>2. Len(lines) \in Nat
      OBVIOUS
    <3> QED
      BY <3>1, <3>2, LocateFirst
  <2> QED
    BY <1>2, <2>2
<1> QED
  BY <1>7 DEF StartOf, PlacedAt

\* The parts of LoadNist by name.
LinesOf(f) == FlattenSeq(Stripped(f.pages))
EntriesOf(f) == BodyEntries(f.outline, f.first)
PositionsOf(f) == Positions(LinesOf(f), FirstLines(Stripped(f.pages)), EntriesOf(f))
BodyText(lines, h, m, n, i) == Sentences(SubSeq(lines, StartOf(h, i), EndOf(h, m, n, i)))

LEMMA LoadNistIs ==
    ASSUME NEW f, NEW m, m = Len(EntriesOf(f)), DOMAIN EntriesOf(f) = 1..m, NEW n, n = Len(LinesOf(f))
    PROVE  LoadNist(f) =
               FlattenSeq([i \in 1..m |-> SectionOf(OutlinePath(EntriesOf(f), i),
                                                    BodyText(LinesOf(f), PositionsOf(f), m, n, i))])
<1> QED
  BY DEF LoadNist, LinesOf, EntriesOf, PositionsOf, BodyText, StartOf, EndOf

-----------------------------------------------------------------------------
(***************************************************************************)
(* The sections of a standard.                                             *)
(***************************************************************************)

PathsTo(entries, m) == {OutlinePath(entries, i) : i \in 1..m}
PathTo(entries, m) == [i \in 1..m |-> OutlinePath(entries, i)]
TextUnder(lines, h, m, n) == [i \in 1..m |-> BodyText(lines, h, m, n, i)]
Bodies(h, m, n) == [i \in 1..m |-> BodyOf(h, m, n, i)]

\* The sections of a standard hold the lines between the headings, in order.
LEMMA BodiesAreSectioned ==
    ASSUME NEW W, NEW lines \in Seq(PartSet(W, Nat)), InSequence(lines), NEW n \in Nat, n = Len(lines),
           NEW entries, NEW h, NEW m \in Nat, Descends(lines, n, entries, h, m)
    PROVE  Holds(PathsTo(entries, m), Numbered, TextsOf(lines, AllOf(m, Bodies(h, m, n))),
                 FlattenSeq(SectionsAt(m, PathTo(entries, m), TextUnder(lines, h, m, n))))
<1> DEFINE P    == PathsTo(entries, m)
           path == PathTo(entries, m)
           text == TextUnder(lines, h, m, n)
           of   == Bodies(h, m, n)
<1>1. DOMAIN lines = 1..n
  BY LenProperties
<1>2. path \in [1..m -> P]
  BY DEF PathTo, PathsTo
<1>3. ASSUME NEW i \in 1..m
      PROVE  TextOf(lines, BodyOf(h, m, n, i), BodyText(lines, h, m, n, i))
  <2> DEFINE a == StartOf(h, i)
             b == EndOf(h, m, n, i)
  <2>1. a \in 1..n + 1 /\ b \in 0..n
    BY BodiesFollow
  <2> HIDE DEF a, b
  <2>2. TextOf(lines, a..b, Sentences(SubSeq(lines, a, b)))
    BY <2>1, SentencesOfSome
  <2> QED
    BY <2>2 DEF BodyOf, BodyText, a, b
<1>4. \A i \in 1..m : TextOf(lines, of[i], text[i])
  BY <1>3 DEF TextUnder, Bodies
<1>5. text \in [1..m -> Seq(Numbered)]
  <2>1. \A i \in 1..m : BodyText(lines, h, m, n, i) \in Seq(Numbered)
    BY <1>3 DEF TextOf
  <2> QED
    BY <2>1 DEF TextUnder
<1>6. of \in [1..m -> SUBSET DOMAIN lines]
  <2>1. \A i \in 1..m : BodyOf(h, m, n, i) \subseteq DOMAIN lines
    <3> TAKE i \in 1..m
    <3>1. \A k \in BodyOf(h, m, n, i) : k \in 1..n
      BY BodiesFollow
    <3> QED
      BY <1>1, <3>1
  <2> QED
    BY <2>1 DEF Bodies
<1>7. \A i, j \in 1..m : i < j => \A a \in of[i], b \in of[j] : a < b
  <2>1. \A i, j \in 1..m : i < j => \A a \in BodyOf(h, m, n, i), b \in BodyOf(h, m, n, j) : a < b
    BY BodiesFollow
  <2> QED
    BY <2>1 DEF Bodies
<1> HIDE DEF P, path, text, of
<1>8. Holds(P, Numbered, TextsOf(lines, AllOf(m, of)), FlattenSeq(SectionsAt(m, path, text)))
  BY <1>2, <1>4, <1>5, <1>6, <1>7, SectionsOfParts
<1> QED
  BY <1>8 DEF P, path, text, of

LEMMA LoadNistSections ==
    ASSUME NEW f, NEW m, m = Len(EntriesOf(f)), DOMAIN EntriesOf(f) = 1..m, NEW n, n = Len(LinesOf(f))
    PROVE  LoadNist(f) =
               FlattenSeq(SectionsAt(m, PathTo(EntriesOf(f), m),
                                     TextUnder(LinesOf(f), PositionsOf(f), m, n)))
<1> DEFINE path == PathTo(EntriesOf(f), m)
           text == TextUnder(LinesOf(f), PositionsOf(f), m, n)
           Body(i) == SectionOf(OutlinePath(EntriesOf(f), i), BodyText(LinesOf(f), PositionsOf(f), m, n, i))
<1>1. \A i \in 1..m : SectionOf(path[i], text[i]) = Body(i)
  BY DEF PathTo, TextUnder
<1>2. LoadNist(f) = FlattenSeq([i \in 1..m |-> Body(i)])
  BY LoadNistIs
<1> HIDE DEF path, text, Body
<1>3. SectionsAt(m, path, text) = [i \in 1..m |-> Body(i)]
  BY <1>1 DEF SectionsAt
<1> QED
  BY <1>2, <1>3 DEF path, text

OnlyHeadings(lines, entries, m) ==
    \A j \in 1..m : \A i \in DOMAIN lines :
        \A k \in i..i + MatchWindow(lines, i, entries[j].title) - 1 : lines[k].kind = "title"

\* The lines of the bodies begin behind the first heading; the others there form
\* a heading of the outline.
LEMMA BehindTheFirst ==
    ASSUME NEW lines, NEW n \in Nat, n = Len(lines), DOMAIN lines = 1..n,
           NEW entries, NEW h, NEW m \in Nat, m # 0, Descends(lines, n, entries, h, m),
           NEW heading \in 1..n, StartOf(h, 1) = heading + 1,
           OnlyHeadings(lines, entries, m)
    PROVE  /\ \A k \in AllOf(m, Bodies(h, m, n)) : k \in DOMAIN lines /\ heading < k
           /\ \A k \in DOMAIN lines :
                  heading < k => k \in AllOf(m, Bodies(h, m, n)) \/ lines[k].kind = "title"
<1>1. \A k : k \in AllOf(m, Bodies(h, m, n)) <=> \E i \in 1..m : k \in BodyOf(h, m, n, i)
  BY DEF AllOf, Bodies
<1>2. ASSUME NEW k \in AllOf(m, Bodies(h, m, n)) PROVE k \in DOMAIN lines /\ heading < k
  <2>1. PICK i \in 1..m : k \in BodyOf(h, m, n, i)
    BY <1>1
  <2>2. k \in 1..n /\ StartOf(h, 1) <= k
    BY <2>1, BodiesFollow
  <2> QED
    BY <2>2
<1>3. ASSUME NEW k \in DOMAIN lines, heading < k, k \notin AllOf(m, Bodies(h, m, n))
      PROVE  lines[k].kind = "title"
  <2>1. k \in 1..n /\ StartOf(h, 1) <= k
    BY <1>3
  <2>2. (\E i \in 1..m : k \in BodyOf(h, m, n, i)) \/ \E i \in 2..m : k \in h[i].line..StartOf(h, i) - 1
    BY <2>1, BodiesFollow
  <2>3. PICK i \in 2..m : k \in h[i].line..StartOf(h, i) - 1
    BY <1>1, <1>3, <2>2
  <2> DEFINE at == h[i].line
             w  == h[i].width
  <2>4. at \in 1..n + 1 /\ w \in 0..3 /\ StartOf(h, i) = at + w
    <3>1. i \in 0..m
      OBVIOUS
    <3>2. h[i] \in Places(n)
      BY <3>1 DEF Descends
    <3> QED
      BY <3>2 DEF Places, StartOf
  <2>5. w = 0 \/ w = MatchWindow(lines, at, entries[i].title)
    BY DEF Descends
  <2> HIDE DEF at, w
  <2>6. k \in at..at + w - 1
    BY <2>3, <2>4 DEF at
  <2>7. w # 0 /\ at \in DOMAIN lines
    BY <2>1, <2>4, <2>6
  <2>8. i \in 1..m
    OBVIOUS
  <2> QED
    BY <2>5, <2>6, <2>7, <2>8 DEF OnlyHeadings
<1> QED
  BY <1>2, <1>3

HeadingAt(parts, words) == Min({i \in DOMAIN parts : parts[i].kind = "title" /\ parts[i].words = words})

LEMMA HeadingIsFirst ==
    ASSUME NEW U, NEW parts \in Seq(U), NEW words,
           \E i \in DOMAIN parts : parts[i].kind = "title" /\ parts[i].words = words
    PROVE  FirstAt(parts, words, HeadingAt(parts, words))
<1> DEFINE found == {i \in DOMAIN parts : parts[i].kind = "title" /\ parts[i].words = words}
           at    == Min(found)
<1>1. found # {} /\ found \subseteq Nat
  <2>1. DOMAIN parts = 1..Len(parts) /\ Len(parts) \in Nat
    BY LenProperties
  <2>2. 1..Len(parts) \subseteq Nat
    BY <2>1
  <2> QED
    BY <2>1, <2>2
<1>2. at \in found /\ \A i \in found : at <= i
  <2> HIDE DEF found
  <2> QED
    BY <1>1, MinOf
<1> HIDE DEF at
<1>3. at \in DOMAIN parts /\ parts[at].kind = "title" /\ parts[at].words = words
  BY <1>2
<1>4. \A i \in DOMAIN parts : parts[i].kind = "title" /\ parts[i].words = words => at <= i
  BY <1>2
<1> QED
  BY <1>3, <1>4 DEF FirstAt, HeadingAt, at

\* What ReadableStandard says, over the names used here.
LinesRead(W, f) ==
    /\ f.pages \in Seq(Seq(PartSet(W, Nat))) /\ f.pages # <<>> /\ InSequence(FlattenSeq(f.pages))
    /\ \A l \in Range(FlattenSeq(f.pages)) :
           /\ l.kind \in {"line", "title", "number", "header"}
           /\ l.kind = "header" <=> l.words \in Furniture(f.pages)
           /\ l.kind = "title" => l.sentences # <<>>
    /\ \E i \in DOMAIN LinesOf(f) : LinesOf(f)[i].kind = "title" /\ LinesOf(f)[i].words = f.first

OutlineRead(W, f) ==
    /\ f.outline \in Seq([title : Seq(W), depth : Nat, page : Nat \ {0}]) /\ f.first \in Seq(W)
    /\ \E i \in DOMAIN f.outline : f.outline[i].title = f.first

BookmarkOf(f) == FirstLines(Stripped(f.pages))[Min({Head(EntriesOf(f)).page, Len(Stripped(f.pages))})]

HeadingsRead(f) ==
    LET bookmark == BookmarkOf(f)
    IN  /\ \A e \in Range(EntriesOf(f)) : \A i \in DOMAIN LinesOf(f) :
               \A k \in i..i + MatchWindow(LinesOf(f), i, e.title) - 1 : LinesOf(f)[k].kind = "title"
        /\ bookmark <= HeadingAt(LinesOf(f), f.first)
        /\ \A i \in bookmark..HeadingAt(LinesOf(f), f.first) - 1 :
               MatchWindow(LinesOf(f), i, f.first) = 0

\* ReadableStandard by its parts.
LEMMA StandardRead ==
    ASSUME NEW W, NEW f, ReadableStandard(W, f)
    PROVE  LinesRead(W, f) /\ OutlineRead(W, f) /\ HeadingsRead(f)
<1>1. LinesRead(W, f)
  BY DEF ReadableStandard, LinesRead, LinesOf
<1>2. OutlineRead(W, f)
  BY DEF ReadableStandard, OutlineRead
<1>3. HeadingsRead(f)
  BY DEF ReadableStandard, HeadingsRead, LinesOf, EntriesOf, BookmarkOf, HeadingAt
<1> QED
  BY <1>1, <1>2, <1>3

\* The lines that stay are those of the text and the headings.
LEMMA TextStays ==
    ASSUME NEW W, NEW f, LinesRead(W, f)
    PROVE  /\ FlattenSeq(f.pages) \in Seq(PartSet(W, Nat)) /\ InSequence(FlattenSeq(f.pages))
           /\ LinesOf(f) \in Seq(PartSet(W, Nat)) /\ InSequence(LinesOf(f))
           /\ Stripped(f.pages) \in Seq(Seq(PartSet(W, Nat))) /\ Len(Stripped(f.pages)) = Len(f.pages)
           /\ Stays(FlattenSeq(f.pages), LinesOf(f))
<1> DEFINE U == PartSet(W, Nat)
           raw == FlattenSeq(f.pages)
           lines == LinesOf(f)
           Keep(l) == Keeps(f.pages, l)
<1>1. /\ f.pages \in Seq(Seq(U)) /\ InSequence(raw)
      /\ \A l \in Range(raw) : /\ l.kind \in {"line", "title", "number", "header"}
                               /\ l.kind = "header" <=> l.words \in Furniture(f.pages)
                               /\ l.kind = "title" => l.sentences # <<>>
  BY DEF LinesRead
<1>2. /\ Stripped(f.pages) \in Seq(Seq(U)) /\ Len(Stripped(f.pages)) = Len(f.pages)
      /\ InSequence(lines)
      /\ \A l \in Range(raw) : Keep(l) => l \in Range(lines)
      /\ \A l \in Range(lines) : l = EmptyLine \/ (l \in Range(raw) /\ Keep(l))
  BY <1>1, LinesStay DEF LinesOf
<1>3. \A l \in Range(raw) : Keep(l) <=> l.kind \in {"line", "title"}
  BY <1>1 DEF Keeps
<1> HIDE DEF U, Keep
<1>4. raw \in Seq(U)
  BY <1>1, FlattenType
<1>5. lines \in Seq(U)
  BY <1>2, FlattenType DEF LinesOf
<1> HIDE DEF raw, lines
<1>6. Stays(raw, lines)
  BY <1>1, <1>2, <1>3 DEF Stays
<1> QED
  BY <1>1, <1>2, <1>4, <1>5, <1>6 DEF U, raw, lines

\* The numbers of a readable standard.
LEMMA StandardNumbers ==
    ASSUME NEW W, NEW f, LinesRead(W, f), OutlineRead(W, f),
           NEW n, n = Len(LinesOf(f)), NEW m, m = Len(EntriesOf(f)),
           NEW np, np = Len(Stripped(f.pages)), NEW pageLine, pageLine = FirstLines(Stripped(f.pages)),
           NEW e, e = EntriesOf(f)[1]
    PROVE  /\ n \in Nat /\ DOMAIN LinesOf(f) = 1..n
           /\ m \in Nat \ {0} /\ DOMAIN EntriesOf(f) = 1..m
           /\ np \in Nat \ {0} /\ pageLine \in [1..np -> 1..n + 1] /\ Len(pageLine) = np
           /\ \A i \in 1..m : EntriesOf(f)[i].page \in Nat \ {0}
           /\ e = Head(EntriesOf(f)) /\ e.title = f.first /\ e.page \in Nat \ {0}
<1> DEFINE E == [title : Seq(W), depth : Nat, page : Nat \ {0}]
           entries == EntriesOf(f)
           text == Stripped(f.pages)
<1>1. n \in Nat /\ DOMAIN LinesOf(f) = 1..n
  BY TextStays, LenProperties
<1>2. f.outline \in Seq(E) /\ \E i \in DOMAIN f.outline : f.outline[i].title = f.first
  BY DEF OutlineRead
<1>3. \A x \in E : x.page \in Nat \ {0}
  OBVIOUS
<1> HIDE DEF E
<1>4. entries \in Seq(E) /\ m \in Nat \ {0} /\ entries[1].title = f.first /\ Head(entries) = entries[1]
  BY <1>2, EntriesBegin DEF EntriesOf
<1> HIDE DEF entries
<1>5. DOMAIN entries = 1..m
  BY <1>4, LenProperties DEF entries
<1>6. \A i \in 1..m : entries[i] \in E
  BY <1>4, <1>5, ElementOfSeq DEF entries
<1>7. \A i \in 1..m : entries[i].page \in Nat \ {0}
  BY <1>3, <1>6
<1>8. 1 \in 1..m
  BY <1>4
<1>9. text \in Seq(Seq(PartSet(W, Nat))) /\ np = Len(f.pages) /\ f.pages # <<>> /\ f.pages \in Seq(Seq(PartSet(W, Nat)))
  BY TextStays DEF LinesRead
<1>10. np \in Nat \ {0}
  <2> DEFINE S == Seq(PartSet(W, Nat))
  <2> HIDE DEF S
  <2>1. f.pages \in Seq(S) /\ f.pages # <<>> /\ np = Len(f.pages)
    BY <1>9 DEF S
  <2> QED
    BY <2>1, EmptySeq, LenProperties
<1>11. pageLine \in [1..np -> 1..n + 1]
  <2> DEFINE S == PartSet(W, Nat)
  <2> HIDE DEF S
  <2>1. text \in Seq(Seq(S)) /\ np = Len(text) /\ n = Len(FlattenSeq(text)) /\ np \in Nat /\ n \in Nat
    BY <1>1, <1>9, <1>10 DEF S, LinesOf
  <2> HIDE DEF text
  <2>2. FirstLines(text) \in [1..np -> 1..n + 1]
    BY <2>1, FirstLinesType
  <2> QED
    BY <2>2 DEF text
<1>12. Len(pageLine) = np
  BY <1>10, <1>11
<1> QED
  BY <1>1, <1>4, <1>5, <1>7, <1>8, <1>10, <1>11, <1>12 DEF entries

\* The search goes down the lines, from behind the first heading on.
LEMMA StandardDescends ==
    ASSUME NEW W, NEW f, LinesRead(W, f), OutlineRead(W, f), HeadingsRead(f),
           NEW n, n = Len(LinesOf(f)), NEW m, m = Len(EntriesOf(f)),
           NEW heading, heading = HeadingAt(LinesOf(f), f.first)
    PROVE  /\ FirstAt(LinesOf(f), f.first, heading) /\ heading \in 1..n
           /\ Descends(LinesOf(f), n, EntriesOf(f), PositionsOf(f), m)
           /\ StartOf(PositionsOf(f), 1) = heading + 1
<1> DEFINE lines    == LinesOf(f)
           entries  == EntriesOf(f)
           np       == Len(Stripped(f.pages))
           pageLine == FirstLines(Stripped(f.pages))
           e        == entries[1]
           h        == PositionsOf(f)
           U        == PartSet(W, Nat)
<1>1. /\ n \in Nat /\ DOMAIN lines = 1..n
      /\ m \in Nat \ {0} /\ DOMAIN entries = 1..m
      /\ np \in Nat \ {0} /\ pageLine \in [1..np -> 1..n + 1] /\ Len(pageLine) = np
      /\ \A i \in 1..m : entries[i].page \in Nat \ {0}
      /\ e = Head(entries) /\ e.title = f.first /\ e.page \in Nat \ {0}
  BY StandardNumbers
<1>2. lines \in Seq(U) /\ \E i \in DOMAIN lines : lines[i].kind = "title" /\ lines[i].words = f.first
  BY TextStays DEF LinesRead
<1>3. h = Positions(lines, pageLine, entries)
  BY DEF PositionsOf
<1>4. FirstFrom(lines, pageLine, e, heading)
  <2>1. BookmarkOf(f) = PageLine(pageLine, e.page)
    BY <1>1 DEF BookmarkOf, PageLine
  <2>2. /\ BookmarkOf(f) <= heading
        /\ \A i \in BookmarkOf(f)..heading - 1 : MatchWindow(lines, i, f.first) = 0
    BY DEF HeadingsRead
  <2> QED
    BY <1>1, <2>1, <2>2 DEF FirstFrom
<1>5. f.first \in Seq(W)
  BY DEF OutlineRead
<1> HIDE DEF np, pageLine, e, h, U
<1>6. FirstAt(lines, f.first, heading)
  <2> HIDE DEF lines
  <2>1. FirstAt(lines, f.first, HeadingAt(lines, f.first))
    BY <1>2, HeadingIsFirst
  <2> QED
    BY <2>1 DEF lines
<1>7. heading \in 1..n /\ lines[heading].words = e.title
  BY <1>1, <1>6 DEF FirstAt
<1>8. n = Len(lines) /\ m = Len(entries) /\ e = entries[1]
  BY DEF e
<1> HIDE DEF lines, entries
<1>9. PositionRun(lines, pageLine, entries, h, m)
  <2>1. PositionRun(lines, pageLine, entries, Positions(lines, pageLine, entries), m)
    BY <1>1, <1>8, PositionsRun
  <2> QED
    BY <1>3, <2>1
<1>10. Descends(lines, n, entries, h, m)
  BY <1>1, <1>8, <1>9, PositionsDescend
<1>11. StartOf(h, 1) = heading + 1
  <2>1. e.title \in Seq(W) /\ e.page \in Nat \ {0} /\ np \in Nat /\ np # 0 /\ m \in Nat /\ m # 0 /\ n \in Nat
    BY <1>1, <1>5
  <2>2. pageLine \in LinesOfPages(np, n)
    BY <1>1 DEF LinesOfPages
  <2> QED
    BY <1>4, <1>7, <1>8, <1>9, <2>1, <2>2, FirstPlace
<1> QED
  BY <1>6, <1>7, <1>10, <1>11 DEF lines, entries, h

\* The sections of a standard hold the text behind its first body heading, in
\* order, and headings.
LEMMA StandardIsSectioned ==
    ASSUME NEW W, NEW f, ReadableStandard(W, f)
    PROVE  /\ InSequence(LoadNist(f))
           /\ IdsOf(LoadNist(f)) \ TitleIds(FlattenSeq(f.pages)) = BelongsInStandard(f)
<1> DEFINE lines   == LinesOf(f)
           raw     == FlattenSeq(f.pages)
           entries == EntriesOf(f)
           n       == Len(lines)
           m       == Len(entries)
           h       == PositionsOf(f)
           heading == HeadingAt(lines, f.first)
           first   == HeadingAt(raw, f.first)
           B       == AllOf(m, Bodies(h, m, n))
           U       == PartSet(W, Nat)
<1>1. LinesRead(W, f) /\ OutlineRead(W, f) /\ HeadingsRead(f)
  BY StandardRead
<1>2. raw \in Seq(U) /\ InSequence(raw) /\ lines \in Seq(U) /\ InSequence(lines) /\ Stays(raw, lines)
  BY <1>1, TextStays
<1>3. n \in Nat /\ DOMAIN lines = 1..n /\ m \in Nat \ {0} /\ DOMAIN entries = 1..m
  BY <1>1, StandardNumbers
<1>4. /\ FirstAt(lines, f.first, heading) /\ heading \in 1..n
      /\ Descends(lines, n, entries, h, m) /\ StartOf(h, 1) = heading + 1
  BY <1>1, StandardDescends
<1>5. OnlyHeadings(lines, entries, m)
  <2>1. \A j \in 1..m : entries[j] \in Range(entries)
    BY <1>3 DEF Range
  <2>2. \A e \in Range(entries) : \A i \in DOMAIN lines :
            \A k \in i..i + MatchWindow(lines, i, e.title) - 1 : lines[k].kind = "title"
    BY <1>1 DEF HeadingsRead
  <2> QED
    BY <2>1, <2>2 DEF OnlyHeadings
<1>6. FirstAt(raw, f.first, first)
  <2>1. lines[heading] \in Range(raw)
    <3>1. lines[heading] \in Range(lines) /\ lines[heading].kind = "title"
      BY <1>4 DEF FirstAt, Range
    <3>2. lines[heading] # EmptyLine
      BY <3>1, EmptyLineIsOne
    <3> QED
      BY <1>2, <3>1, <3>2 DEF Stays
  <2>2. \E i \in DOMAIN raw : raw[i].kind = "title" /\ raw[i].words = f.first
    BY <1>4, <2>1 DEF Range, FirstAt
  <2> HIDE DEF raw, U
  <2>3. FirstAt(raw, f.first, HeadingAt(raw, f.first))
    BY <1>2, <2>2, HeadingIsFirst
  <2> QED
    BY <2>3 DEF raw
<1>7. BelongsInStandard(f) = UNION {Ids(raw[i].sentences) : i \in {i \in first..Len(raw) : raw[i].kind = "line"}}
  BY DEF BelongsInStandard, HeadingAt
<1>8. LoadNist(f) = FlattenSeq(SectionsAt(m, PathTo(entries, m), TextUnder(lines, h, m, n)))
  BY <1>3, LoadNistSections
<1> HIDE DEF lines, raw, entries, n, m, h, heading, first, U
<1>9. n = Len(lines)
  BY DEF n
<1>10. Holds(PathsTo(entries, m), Numbered, TextsOf(lines, B), LoadNist(f))
  <2>1. Holds(PathsTo(entries, m), Numbered, TextsOf(lines, AllOf(m, Bodies(h, m, n))),
              FlattenSeq(SectionsAt(m, PathTo(entries, m), TextUnder(lines, h, m, n))))
    BY <1>2, <1>3, <1>4, <1>9, BodiesAreSectioned DEF U
  <2> QED
    BY <1>8, <2>1
<1>11. /\ \A k \in B : k \in DOMAIN lines /\ heading < k
       /\ \A k \in DOMAIN lines : heading < k => k \in B \/ lines[k].kind = "title"
  BY <1>3, <1>4, <1>5, <1>9, BehindTheFirst
<1> HIDE DEF B
<1>12. TextsOf(lines, B) \ TitleIds(raw)
           = UNION {Ids(raw[i].sentences) : i \in {i \in first..Len(raw) : raw[i].kind = "line"}}
  BY <1>2, <1>4, <1>6, <1>11, TextBehindHeading DEF U
<1> QED
  BY <1>7, <1>10, <1>12 DEF Holds, raw

-----------------------------------------------------------------------------
(***************************************************************************)
(* The document: from the file to its rows.                                *)
(***************************************************************************)

\* What a loader makes of a readable file: sections that hold what belongs to the
\* document, in its order.
LEMMA FileIsSectioned ==
    ASSUME NEW V, NEW f, f.loader \in {"edgar_10k", "eurlex_html", "nist_pdf"}, Readable(V, f)
    PROVE  InSequence(Sectioned(f)) /\ IdsOf(Sectioned(f)) \ Headings(f) = Belongs(f)
<1>1. CASE f.loader = "edgar_10k"
  <2>1. Sectioned(f) = LoadEdgar(f.content) /\ Belongs(f) = BelongsInFiling(f.content)
    BY <1>1 DEF Sectioned, Belongs
  <2>2. Headings(f) = {}
    BY <1>1 DEF Headings
  <2>3. ReadableFiling(V, f.content)
    BY <1>1 DEF Readable
  <2> QED
    BY <2>1, <2>2, <2>3, FilingIsSectioned
<1>2. CASE f.loader = "eurlex_html"
  <2>1. Sectioned(f) = LoadEurlex(f.content) /\ Belongs(f) = BelongsInRegulation(f.content)
    BY <1>2 DEF Sectioned, Belongs
  <2>2. Headings(f) = {}
    BY <1>2 DEF Headings
  <2>3. ReadableRegulation(V, f.content)
    BY <1>2 DEF Readable
  <2> QED
    BY <2>1, <2>2, <2>3, RegulationIsSectioned
<1>3. CASE f.loader = "nist_pdf"
  <2>1. Sectioned(f) = LoadNist(f.content) /\ Belongs(f) = BelongsInStandard(f.content)
    BY <1>3 DEF Sectioned, Belongs
  <2>2. Headings(f) = TitleIds(FlattenSeq(f.content.pages))
    BY <1>3 DEF Headings, TitleIds
  <2>3. ReadableStandard(V, f.content)
    BY <1>3 DEF Readable
  <2> QED
    BY <2>1, <2>2, <2>3, StandardIsSectioned
<1> QED
  BY <1>1, <1>2, <1>3

\* The files the loaders are for.
FilesAreRead(V) ==
    \A f \in Files : f.loader \in {"edgar_10k", "eurlex_html", "nist_pdf"} /\ Readable(V, f)

\* From the file to its rows: whatever readable file goes in, the stored rows hold
\* every sentence that belongs to the document, in its order, and nothing else,
\* each row with the vector of its own text.
THEOREM TextIsKept ==
    ASSUME NEW W, Chunkable(W, Nat), NEW V, FilesAreRead(V)
    PROVE  Spec => []TextIsStored
<1>1. \A f \in Files : InSequence(Sectioned(f)) /\ IdsOf(Sectioned(f)) \ Headings(f) = Belongs(f)
  BY FileIsSectioned DEF FilesAreRead
<1>2. ASSUME IInv, SectionsAreStored, ToldInOrder PROVE TextIsStored
  <2> SUFFICES ASSUME stage = "stored"
               PROVE  /\ {u.sentence : u \in Range(Told)} \ Headings(file) = Belongs(file)
                      /\ InOrder(Told)
                      /\ \A i \in DOMAIN rows : rows[i].embedding = rows[i].chunk
    BY DEF TextIsStored, InOrder
  <2>1. file \in Files /\ sections = Sectioned(file)
    BY <1>2 DEF IInv, Progress
  <2>2. /\ {u.sentence : u \in Range(Told)} = IdsOf(sections)
        /\ \A i \in DOMAIN rows : rows[i].embedding = rows[i].chunk
    BY <1>2 DEF SectionsAreStored, IdsOf
  <2>3. InOrder(Told)
    BY <1>2 DEF ToldInOrder
  <2> QED
    BY <1>1, <2>1, <2>2, <2>3
<1>3. Spec => []IInv
  BY Invariance
<1>4. Spec => []SectionsAreStored
  BY NoSentenceIsLost
<1>5. \A f \in Files : InSequence(Sectioned(f))
  BY <1>1
<1>6. Spec => []ToldInOrder
  BY <1>5, SectionsAreToldInOrder
<1> QED
  BY <1>2, <1>3, <1>4, <1>6, PTL
=============================================================================
