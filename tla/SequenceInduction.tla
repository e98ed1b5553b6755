-------------------------- MODULE SequenceInduction --------------------------
(***************************************************************************)
(* Induction over numbers stated with sets and functions, so that it needs *)
(* no operator as a parameter: what holds of 0 and goes on from n to n + 1 *)
(* is put as a set of numbers, and a step of a recursion as a function.    *)
(* It rests on the well-foundedness of the natural numbers.  With it, what *)
(* FlattenSeq makes of a sequence of sequences.                            *)
(***************************************************************************)
EXTENDS Naturals, Sequences, SequencesExt, SequenceTheorems, WellFoundedInduction, TLAPS

LEMMA NatMinimum ==
    ASSUME NEW T, T \subseteq Nat, T # {}
    PROVE  \E x \in T : \A y \in T : x <= y
<1> DEFINE R == OpToRel(<, Nat)
<1>1. IsWellFoundedOn(R, Nat)
  BY NatLessThanWellFounded
<1>2. \A x, y \in Nat : <<y, x>> \in R <=> y < x
  BY DEF OpToRel
<1> HIDE DEF R
<1>3. PICK x \in T : \A y \in T : ~(<<y, x>> \in R)
  BY <1>1, WFMin
<1>4. ASSUME NEW y \in T PROVE x <= y
  <2>1. x \in Nat /\ y \in Nat
    OBVIOUS
  <2>2. ~(y < x)
    BY <1>2, <1>3, <2>1
  <2> QED
    BY <2>1, <2>2
<1> QED
  BY <1>4

LEMMA NatMaximum ==
    ASSUME NEW T, NEW n \in Nat, T \subseteq 0..n, T # {}
    PROVE  \E x \in T : \A y \in T : y <= x
<1> DEFINE Below == {n - x : x \in T}
<1>1. Below \subseteq Nat /\ Below # {}
  <2>1. \A x \in T : x \in 0..n
    OBVIOUS
  <2>2. \A x \in T : n - x \in Nat
    BY <2>1
  <2>3. PICK x \in T : TRUE
    OBVIOUS
  <2>4. n - x \in Below
    BY <2>3
  <2> QED
    BY <2>2, <2>4
<1>2. PICK b \in Below : \A y \in Below : b <= y
  BY <1>1, NatMinimum
<1>3. PICK x \in T : b = n - x
  BY <1>2
<1>4. \A y \in T : y <= x
  <2> SUFFICES ASSUME NEW y \in T PROVE y <= x
    OBVIOUS
  <2>1. n - x <= n - y
    BY <1>2, <1>3
  <2>2. x \in Nat /\ y \in Nat
    OBVIOUS
  <2> QED
    BY <2>1, <2>2
<1> QED
  BY <1>4

LEMMA MaxOf ==
    ASSUME NEW T, NEW n \in Nat, T \subseteq 0..n, T # {}
    PROVE  Max(T) \in T /\ \A y \in T : y <= Max(T)
<1>1. \E x \in T : \A y \in T : x >= y
  BY NatMaximum
<1> QED
  BY <1>1 DEF Max

LEMMA MinOf ==
    ASSUME NEW T, T \subseteq Nat, T # {}
    PROVE  Min(T) \in T /\ \A y \in T : Min(T) <= y
<1>1. \E x \in T : \A y \in T : x <= y
  BY NatMinimum
<1> QED
  BY <1>1 DEF Min

LEMMA NatSetInduction ==
    ASSUME NEW G, 0 \in G, \A n \in Nat : n \in G => n + 1 \in G
    PROVE  \A n \in Nat : n \in G
<1> DEFINE T == Nat \ G
<1> SUFFICES ASSUME T # {} PROVE FALSE
  OBVIOUS
<1>1. PICK x \in T : \A y \in T : x <= y
  BY NatMinimum
<1>2. x # 0 /\ x - 1 \in Nat
  OBVIOUS
<1>3. x - 1 \in G
  BY <1>1, <1>2
<1> QED
  BY <1>2, <1>3

\* A property that a step from i - 1 to i keeps holds up to n.
LEMMA UptoInduction ==
    ASSUME NEW n \in Nat, NEW G, 0 \in G, \A i \in 1..n : i - 1 \in G => i \in G
    PROVE  \A i \in 0..n : i \in G
<1> DEFINE H == {i \in Nat : i <= n => i \in G}
<1>1. \A i \in Nat : i \in H => i + 1 \in H
  <2> SUFFICES ASSUME NEW i \in Nat, i \in H, i + 1 <= n PROVE i + 1 \in G
    OBVIOUS
  <2>1. i + 1 \in 1..n /\ (i + 1) - 1 = i /\ i \in G
    OBVIOUS
  <2> QED
    BY <2>1
<1>2. 0 \in H
  OBVIOUS
<1>3. \A i \in Nat : i \in H
  <2> HIDE DEF H
  <2> QED
    BY <1>1, <1>2, NatSetInduction
<1> QED
  BY <1>3

LEMMA FromOneInduction ==
    ASSUME NEW n \in Nat, NEW G, 1 \in G, \A i \in 2..n : i - 1 \in G => i \in G
    PROVE  \A i \in 1..n : i \in G
<1> DEFINE H == {i \in Nat : i = 0 \/ i \in G}
<1>1. 0 \in H
  OBVIOUS
<1>2. ASSUME NEW i \in 1..n, i - 1 \in H PROVE i \in H
  <2>1. CASE i = 1
    BY <2>1
  <2>2. CASE i # 1
    <3>1. i \in 2..n /\ i - 1 # 0
      BY <2>2
    <3> QED
      BY <1>2, <3>1
  <2> QED
    BY <2>1, <2>2
<1>3. \A i \in 0..n : i \in H
  <2> HIDE DEF H
  <2> QED
    BY <1>1, <1>2, UptoInduction
<1> QED
  BY <1>3

\* f is defined by recursion from a base, by a step on an index and a value.
Recurses(f, n, base, step) == f[0] = base /\ \A i \in 1..n : f[i] = step[<<i, f[i - 1]>>]

\* Primitive recursion over 0..n with values in U defines a function.
LEMMA Recursion ==
    ASSUME NEW n \in Nat, NEW U, NEW base \in U, NEW step \in [(1..n) \X U -> U]
    PROVE  \E f \in [0..n -> U] : Recurses(f, n, base, step)
<1> DEFINE Upto(k, f) == /\ f \in [0..k -> U] /\ f[0] = base
                         /\ \A i \in 1..k : f[i] = step[<<i, f[i - 1]>>]
           G == {k \in Nat : \E f : Upto(k, f)}
<1>1. 0 \in G
  <2>1. Upto(0, [i \in 0..0 |-> base])
    OBVIOUS
  <2> QED
    BY <2>1
<1>2. \A k \in 1..n : k - 1 \in G => k \in G
  <2> SUFFICES ASSUME NEW k \in 1..n, k - 1 \in G PROVE k \in G
    OBVIOUS
  <2> PICK f : Upto(k - 1, f)
    OBVIOUS
  <2> DEFINE g == [i \in 0..k |-> IF i < k THEN f[i] ELSE step[<<k, f[k - 1]>>]]
  <2>1. f[k - 1] \in U /\ step[<<k, f[k - 1]>>] \in U
    OBVIOUS
  <2>2. g \in [0..k -> U] /\ g[0] = base
    BY <2>1
  <2>3. ASSUME NEW i \in 1..k PROVE g[i] = step[<<i, g[i - 1]>>]
    <3>1. CASE i = k
      <4>1. g[k - 1] = f[k - 1] /\ g[k] = step[<<k, f[k - 1]>>]
        OBVIOUS
      <4> QED
        BY <3>1, <4>1
    <3>2. CASE i # k
      <4>1. i \in 1..k - 1 /\ g[i] = f[i] /\ g[i - 1] = f[i - 1]
        BY <3>2
      <4> QED
        BY <4>1
    <3> QED
      BY <3>1, <3>2
  <2>4. Upto(k, g)
    BY <2>2, <2>3
  <2> HIDE DEF g
  <2> QED
    BY <2>4
<1>3. n \in G
  <2> HIDE DEF G
  <2> QED
    BY <1>1, <1>2, UptoInduction
<1> QED
  BY <1>3 DEF Recurses

-----------------------------------------------------------------------------
(***************************************************************************)
(* Flattening.                                                             *)
(***************************************************************************)

\* p[i] is what the first i of seqs make.
PartsOf(p, seqs, n) == p[1] = seqs[1] /\ \A i \in 2..n : p[i] = p[i - 1] \o seqs[i]

\* FlattenSeq goes from prefix to prefix.
LEMMA FlattenPrefixes ==
    ASSUME NEW S, NEW seqs \in Seq(Seq(S)), NEW n \in Nat, n = Len(seqs), n # 0
    PROVE  \E f \in [1..n -> Seq(S)] : FlattenSeq(seqs) = f[n] /\ PartsOf(f, seqs, n)
<1> DEFINE Eq(g) == g = [i \in 1..n |-> IF i = 1 THEN seqs[i] ELSE g[i - 1] \o seqs[i]]
           step == [p \in (1..n - 1) \X Seq(S) |-> p[2] \o seqs[p[1] + 1]]
<1>1. \A i \in 1..n : seqs[i] \in Seq(S)
  OBVIOUS
<1>2. step \in [(1..n - 1) \X Seq(S) -> Seq(S)]
  <2>1. ASSUME NEW p \in (1..n - 1) \X Seq(S) PROVE p[2] \o seqs[p[1] + 1] \in Seq(S)
    <3>1. p[1] + 1 \in 1..n
      OBVIOUS
    <3>2. seqs[p[1] + 1] \in Seq(S)
      BY <1>1, <3>1
    <3>3. p[2] \in Seq(S)
      OBVIOUS
    <3> QED
      BY <3>2, <3>3, ConcatProperties
  <2> QED
    BY <2>1
<1>3. n - 1 \in Nat /\ 1 \in 1..n
  OBVIOUS
<1>4. \E f \in [0..n - 1 -> Seq(S)] : Recurses(f, n - 1, seqs[1], step)
  <2>1. seqs[1] \in Seq(S)
    BY <1>1, <1>3
  <2> HIDE DEF step
  <2> QED
    BY <1>2, <1>3, <2>1, Recursion
<1>5. PICK f \in [0..n - 1 -> Seq(S)] : Recurses(f, n - 1, seqs[1], step)
  BY <1>4
<1>6. ASSUME NEW i \in 1..n - 1 PROVE f[i] = f[i - 1] \o seqs[i + 1]
  <2>1. i - 1 \in 0..n - 1
    OBVIOUS
  <2>2. f[i - 1] \in Seq(S)
    BY <2>1
  <2>3. f[i] = step[<<i, f[i - 1]>>]
    BY <1>5 DEF Recurses
  <2> QED
    BY <2>2, <2>3
<1> HIDE DEF step
<1>7. f[0] = seqs[1]
  BY <1>5 DEF Recurses
<1> DEFINE g == [i \in 1..n |-> f[i - 1]]
<1>8. g \in [1..n -> Seq(S)]
  <2>1. \A i \in 1..n : i - 1 \in 0..n - 1
    OBVIOUS
  <2> QED
    BY <2>1
<1>9. g[1] = seqs[1]
  BY <1>3, <1>7
<1>10. ASSUME NEW i \in 2..n PROVE g[i] = g[i - 1] \o seqs[i]
  <2>1. i - 1 \in 1..n - 1 /\ i \in 1..n /\ i - 1 \in 1..n /\ (i - 1) + 1 = i
    OBVIOUS
  <2>2. g[i] = f[i - 1] /\ g[i - 1] = f[(i - 1) - 1]
    BY <2>1
  <2> HIDE DEF g
  <2>3. f[i - 1] = f[(i - 1) - 1] \o seqs[(i - 1) + 1]
    BY <1>6, <2>1
  <2> QED
    BY <2>1, <2>2, <2>3
<1> HIDE DEF g
<1>11. Eq(g)
  <2>1. ASSUME NEW i \in 1..n PROVE g[i] = IF i = 1 THEN seqs[i] ELSE g[i - 1] \o seqs[i]
    <3>1. CASE i = 1
      BY <1>9, <3>1
    <3>2. CASE i # 1
      <4>1. i \in 2..n
        BY <3>2
      <4> QED
        BY <1>10, <3>2, <4>1
    <3> QED
      BY <3>1, <3>2
  <2> QED
    BY <1>8, <2>1
<1>12. PICK h : h = (CHOOSE x : Eq(x))
  OBVIOUS
<1>13. Eq(h)
  <2> HIDE DEF Eq
  <2> QED
    BY <1>11, <1>12
<1>14. FlattenSeq(seqs) = h[n]
  BY <1>12 DEF FlattenSeq
<1>15. h[1] = seqs[1] /\ \A i \in 2..n : h[i] = h[i - 1] \o seqs[i]
  <2>1. \A i \in 1..n : h[i] = IF i = 1 THEN seqs[i] ELSE h[i - 1] \o seqs[i]
    BY <1>13
  <2>2. h[1] = seqs[1]
    BY <1>3, <2>1
  <2>3. ASSUME NEW i \in 2..n PROVE h[i] = h[i - 1] \o seqs[i]
    <3>1. i \in 1..n /\ i # 1
      OBVIOUS
    <3> QED
      BY <2>1, <3>1
  <2> QED
    BY <2>2, <2>3
<1>16. h \in [1..n -> Seq(S)]
  <2>1. \A i \in 0..n - 1 : i + 1 \in 1..n /\ h[i + 1] \in Seq(S)
    <3> DEFINE G == {i \in 0..n - 1 : h[i + 1] \in Seq(S)}
    <3>1. 0 \in G
      BY <1>1, <1>3, <1>15
    <3>2. ASSUME NEW i \in 1..n - 1, i - 1 \in G PROVE i \in G
      <4>1. (i - 1) + 1 = i /\ i + 1 \in 2..n /\ i + 1 \in 1..n /\ (i + 1) - 1 = i
        OBVIOUS
      <4>2. h[i + 1] = h[i] \o seqs[i + 1]
        BY <1>15, <4>1
      <4>3. h[i] \in Seq(S)
        BY <3>2, <4>1
      <4>4. seqs[i + 1] \in Seq(S)
        BY <1>1, <4>1
      <4>5. h[i + 1] \in Seq(S)
        BY <4>2, <4>3, <4>4, ConcatProperties
      <4>6. i \in 0..n - 1
        OBVIOUS
      <4> QED
        BY <4>5, <4>6
    <3> HIDE DEF G
    <3>3. \A i \in 0..n - 1 : i \in G
      BY <1>3, <3>1, <3>2, UptoInduction
    <3> QED
      BY <3>3 DEF G
  <2>2. ASSUME NEW i \in 1..n PROVE h[i] \in Seq(S)
    <3>1. i - 1 \in 0..n - 1 /\ (i - 1) + 1 = i
      OBVIOUS
    <3> QED
      BY <2>1, <3>1
  <2>3. DOMAIN h = 1..n /\ h = [i \in 1..n |-> h[i]]
    BY <1>13
  <2> QED
    BY <2>2, <2>3
<1> HIDE DEF Eq
<1>17. PartsOf(h, seqs, n)
  BY <1>15 DEF PartsOf
<1> QED
  BY <1>14, <1>16, <1>17

LEMMA FlattenUnique ==
    ASSUME NEW S, NEW seqs \in Seq(Seq(S)), NEW n \in Nat, n = Len(seqs), n # 0,
           NEW p, PartsOf(p, seqs, n)
    PROVE  FlattenSeq(seqs) = p[n]
<1>1. PICK f \in [1..n -> Seq(S)] : FlattenSeq(seqs) = f[n] /\ PartsOf(f, seqs, n)
  BY FlattenPrefixes
<1> DEFINE G == {i \in Nat : f[i] = p[i]}
<1>2. 1 \in G
  <2>1. f[1] = p[1]
    BY <1>1 DEF PartsOf
  <2> QED
    BY <2>1
<1>3. ASSUME NEW i \in 2..n, i - 1 \in G PROVE i \in G
  <2>1. f[i] = f[i - 1] \o seqs[i] /\ p[i] = p[i - 1] \o seqs[i]
    BY <1>1 DEF PartsOf
  <2>2. f[i - 1] = p[i - 1]
    BY <1>3
  <2>3. f[i] = p[i]
    BY <2>1, <2>2
  <2>4. i \in Nat
    OBVIOUS
  <2> QED
    BY <2>3, <2>4
<1>4. n \in 1..n
  OBVIOUS
<1>5. n \in G
  <2> HIDE DEF G
  <2>1. \A i \in 1..n : i \in G
    BY <1>2, <1>3, FromOneInduction
  <2> QED
    BY <1>4, <2>1
<1> QED
  BY <1>1, <1>5

LEMMA FlattenNone ==
    ASSUME NEW seqs, Len(seqs) = 0
    PROVE  FlattenSeq(seqs) = seqs
BY DEF FlattenSeq

LEMMA FlattenType ==
    ASSUME NEW S, NEW seqs \in Seq(Seq(S))
    PROVE  FlattenSeq(seqs) \in Seq(S)
<1>1. CASE Len(seqs) = 0
  <2>1. FlattenSeq(seqs) = seqs
    BY <1>1, FlattenNone
  <2>2. seqs = <<>>
    BY <1>1, EmptySeq
  <2> QED
    BY <2>1, <2>2
<1>2. CASE Len(seqs) # 0
  <2>1. PICK n \in Nat : n = Len(seqs)
    OBVIOUS
  <2>2. PICK f \in [1..n -> Seq(S)] : FlattenSeq(seqs) = f[n] /\ PartsOf(f, seqs, n)
    BY <1>2, <2>1, FlattenPrefixes
  <2>3. n \in 1..n
    BY <1>2, <2>1
  <2> QED
    BY <2>2, <2>3
<1> QED
  BY <1>1, <1>2

\* Another sequence at the end.
LEMMA FlattenAppend ==
    ASSUME NEW S, NEW seqs \in Seq(Seq(S)), NEW s \in Seq(S)
    PROVE  FlattenSeq(Append(seqs, s)) = FlattenSeq(seqs) \o s
<1> DEFINE both == Append(seqs, s)
<1>1. PICK n \in Nat : n = Len(seqs)
  OBVIOUS
<1>2. both \in Seq(Seq(S)) /\ Len(both) = n + 1 /\ both[n + 1] = s
  BY <1>1
<1>3. \A i \in 1..n : both[i] = seqs[i]
  BY <1>1
<1> HIDE DEF both
<1>4. CASE n = 0
  <2>1. FlattenSeq(seqs) = <<>>
    BY <1>1, <1>4, FlattenNone, EmptySeq
  <2>2. FlattenSeq(both) = both[1]
    <3>1. PartsOf(both, both, 1)
      BY DEF PartsOf
    <3>2. 1 \in Nat /\ 1 # 0 /\ 1 = Len(both)
      BY <1>2, <1>4
    <3> QED
      BY <1>2, <3>1, <3>2, FlattenUnique
  <2> QED
    BY <1>2, <1>4, <2>1, <2>2 DEF both
<1>5. CASE n # 0
  <2>1. PICK f \in [1..n -> Seq(S)] : FlattenSeq(seqs) = f[n] /\ PartsOf(f, seqs, n)
    BY <1>1, <1>5, FlattenPrefixes
  <2> DEFINE p == [i \in 1..n + 1 |-> IF i <= n THEN f[i] ELSE f[n] \o s]
  <2>2. p[1] = both[1]
    BY <1>3, <1>5, <2>1 DEF PartsOf
  <2>3. ASSUME NEW i \in 2..n + 1 PROVE p[i] = p[i - 1] \o both[i]
    <3>1. i - 1 \in 1..n /\ i - 1 <= n /\ i - 1 \in 1..n + 1 /\ i \in 1..n + 1
      OBVIOUS
    <3>2. p[i - 1] = f[i - 1]
      BY <3>1
    <3>3. CASE i = n + 1
      <4>1. ~(i <= n) /\ i - 1 = n
        BY <3>3
      <4>2. p[i] = f[n] \o s
        BY <3>1, <4>1
      <4> HIDE DEF p
      <4> QED
        BY <1>2, <3>2, <3>3, <4>1, <4>2
    <3>4. CASE i # n + 1
      <4>1. i \in 2..n /\ i \in 1..n /\ i <= n
        BY <3>4
      <4>2. p[i] = f[i]
        BY <3>1, <4>1
      <4> HIDE DEF p
      <4> QED
        BY <1>3, <2>1, <3>2, <4>1, <4>2 DEF PartsOf
    <3> QED
      BY <3>3, <3>4
  <2>4. p[n + 1] = f[n] \o s
    BY SMTT(30)
  <2> HIDE DEF p
  <2>5. FlattenSeq(both) = p[n + 1]
    <3>1. n + 1 \in Nat /\ n + 1 # 0
      OBVIOUS
    <3>2. PartsOf(p, both, n + 1)
      BY <2>2, <2>3 DEF PartsOf
    <3> QED
      BY <1>2, <3>1, <3>2, FlattenUnique
  <2> QED
    BY <2>1, <2>4, <2>5 DEF both
<1> QED
  BY <1>4, <1>5

LEMMA RangeConcat ==
    ASSUME NEW U, NEW s \in Seq(U), NEW t \in Seq(U)
    PROVE  Range(s \o t) = Range(s) \cup Range(t)
<1>1. PICK m \in Nat : m = Len(s)
  OBVIOUS
<1>2. PICK n \in Nat : n = Len(t)
  OBVIOUS
<1>3. s \o t \in Seq(U) /\ Len(s \o t) = m + n
  BY <1>1, <1>2, ConcatProperties
<1>4. DOMAIN s = 1..m /\ DOMAIN t = 1..n /\ DOMAIN (s \o t) = 1..m + n
  BY <1>1, <1>2, <1>3, LenProperties
<1>5. \A i \in 1..m + n : (s \o t)[i] = IF i <= m THEN s[i] ELSE t[i - m]
  BY <1>1, <1>2, ConcatProperties
<1>6. ASSUME NEW i \in 1..m PROVE s[i] = (s \o t)[i] /\ i \in 1..m + n
  <2>1. i \in 1..m + n /\ i <= m
    OBVIOUS
  <2> QED
    BY <1>5, <2>1
<1>7. ASSUME NEW i \in 1..n PROVE t[i] = (s \o t)[m + i] /\ m + i \in 1..m + n
  <2>1. m + i \in 1..m + n /\ ~(m + i <= m) /\ (m + i) - m = i
    OBVIOUS
  <2> QED
    BY <1>5, <2>1
<1>8. ASSUME NEW i \in 1..m + n PROVE (s \o t)[i] \in Range(s) \cup Range(t)
  <2>1. CASE i <= m
    <3>1. i \in 1..m
      BY <2>1
    <3> QED
      BY <1>4, <1>5, <2>1, <3>1 DEF Range
  <2>2. CASE ~(i <= m)
    <3>1. i - m \in 1..n
      BY <2>2
    <3> QED
      BY <1>4, <1>5, <2>2, <3>1 DEF Range
  <2> QED
    BY <2>1, <2>2
<1>9. Range(s) \subseteq Range(s \o t)
  <2> SUFFICES ASSUME NEW i \in 1..m PROVE s[i] \in Range(s \o t)
    BY <1>4 DEF Range
  <2> QED
    BY <1>4, <1>6 DEF Range
<1>10. Range(t) \subseteq Range(s \o t)
  <2> SUFFICES ASSUME NEW i \in 1..n PROVE t[i] \in Range(s \o t)
    BY <1>4 DEF Range
  <2> QED
    BY <1>4, <1>7 DEF Range
<1>11. Range(s \o t) \subseteq Range(s) \cup Range(t)
  <2> SUFFICES ASSUME NEW i \in 1..m + n PROVE (s \o t)[i] \in Range(s) \cup Range(t)
    BY <1>4 DEF Range
  <2> QED
    BY <1>8
<1> QED
  BY <1>9, <1>10, <1>11

LEMMA RangeOne ==
    ASSUME NEW u
    PROVE  Range(<<u>>) = {u}
BY DEF Range

LEMMA FlattenRange ==
    ASSUME NEW S, NEW seqs \in Seq(Seq(S))
    PROVE  Range(FlattenSeq(seqs)) = UNION {Range(seqs[i]) : i \in DOMAIN seqs}
<1>1. PICK n \in Nat : n = Len(seqs)
  OBVIOUS
<1>2. DOMAIN seqs = 1..n /\ \A i \in 1..n : seqs[i] \in Seq(S)
  BY <1>1, LenProperties, ElementOfSeq
<1>3. CASE n = 0
  <2>1. FlattenSeq(seqs) = <<>>
    BY <1>1, <1>3, FlattenNone, EmptySeq
  <2>2. DOMAIN seqs = {}
    BY <1>2, <1>3
  <2> QED
    BY <2>1, <2>2 DEF Range
<1>4. CASE n # 0
  <2>1. PICK f \in [1..n -> Seq(S)] : FlattenSeq(seqs) = f[n] /\ PartsOf(f, seqs, n)
    BY <1>1, <1>4, FlattenPrefixes
  <2> DEFINE Seen(i) == UNION {Range(seqs[j]) : j \in 1..i}
             G == {i \in Nat : Range(f[i]) = Seen(i)}
  <2>2. 1 \in G
    <3>1. f[1] = seqs[1]
      BY <2>1 DEF PartsOf
    <3>2. Seen(1) = Range(seqs[1])
      OBVIOUS
    <3> QED
      BY <3>1, <3>2
  <2>3. ASSUME NEW i \in 2..n, i - 1 \in G PROVE i \in G
    <3>1. f[i] = f[i - 1] \o seqs[i]
      BY <2>1 DEF PartsOf
    <3>2. i \in 1..n /\ i - 1 \in 1..n /\ i \in Nat
      OBVIOUS
    <3>3. f[i - 1] \in Seq(S) /\ seqs[i] \in Seq(S)
      BY <1>2, <3>2
    <3>4. Range(f[i]) = Range(f[i - 1]) \cup Range(seqs[i])
      BY <3>1, <3>3, RangeConcat
    <3>5. Range(f[i - 1]) = Seen(i - 1)
      BY <2>3
    <3>6. Seen(i) = Seen(i - 1) \cup Range(seqs[i])
      <4>1. 1..i = (1..i - 1) \cup {i}
        OBVIOUS
      <4> QED
        BY <4>1
    <3> HIDE DEF Seen
    <3> QED
      BY <3>2, <3>4, <3>5, <3>6
  <2>4. n \in G
    <3> HIDE DEF G
    <3>1. \A i \in 1..n : i \in G
      <4>1. 1 \in G /\ \A i \in 2..n : i - 1 \in G => i \in G
        BY <2>2, <2>3
      <4> QED
        BY <4>1, FromOneInduction
    <3>2. n \in 1..n
      BY <1>4
    <3> QED
      BY <3>1, <3>2
  <2> QED
    BY <1>2, <2>1, <2>4
<1> QED
  BY <1>3, <1>4

\* What the first k pieces make.
FlatTo(f, k) == FlattenSeq([i \in 1..k |-> f[i]])

LEMMA FlatStep ==
    ASSUME NEW S, NEW n \in Nat, NEW f \in [1..n -> Seq(S)]
    PROVE  /\ FlatTo(f, 0) = <<>>
           /\ \A k \in 0..n : FlatTo(f, k) \in Seq(S)
           /\ \A k \in 1..n : FlatTo(f, k) = FlatTo(f, k - 1) \o f[k]
           /\ FlatTo(f, n) = FlattenSeq(f)
<1> DEFINE upto(k) == [i \in 1..k |-> f[i]]
<1>1. \A k \in 0..n : upto(k) \in Seq(Seq(S)) /\ Len(upto(k)) = k
  OBVIOUS
<1>2. upto(0) = <<>> /\ Len(upto(0)) = 0
  OBVIOUS
<1>3. FlatTo(f, 0) = <<>>
  BY <1>2, FlattenNone DEF FlatTo
<1>4. \A k \in 0..n : FlatTo(f, k) \in Seq(S)
  BY <1>1, FlattenType DEF FlatTo
<1>5. ASSUME NEW k \in 1..n PROVE FlatTo(f, k) = FlatTo(f, k - 1) \o f[k]
  <2>1. k - 1 \in 0..n /\ f[k] \in Seq(S)
    OBVIOUS
  <2>2. upto(k) = Append(upto(k - 1), f[k])
    <3>1. upto(k) \in Seq(Seq(S)) /\ Len(upto(k)) = k
      BY <1>1
    <3>2. upto(k - 1) \in Seq(Seq(S)) /\ Len(upto(k - 1)) = k - 1
      BY <1>1, <2>1
    <3>3. Append(upto(k - 1), f[k]) \in Seq(Seq(S)) /\ Len(Append(upto(k - 1), f[k])) = k
      BY <2>1, <3>2, AppendProperties
    <3>4. ASSUME NEW i \in 1..k PROVE upto(k)[i] = Append(upto(k - 1), f[k])[i]
      <4>1. CASE i = k
        BY <2>1, <3>2, <4>1, AppendProperties
      <4>2. CASE i # k
        <5>1. i \in 1..k - 1
          BY <4>2
        <5>2. upto(k - 1)[i] = f[i] /\ upto(k)[i] = f[i]
          BY <5>1
        <5> QED
          BY <2>1, <3>2, <5>1, <5>2, AppendProperties
      <4> QED
        BY <4>1, <4>2
    <3> QED
      BY <3>1, <3>3, <3>4, SeqEqual
  <2> HIDE DEF upto
  <2>3. upto(k - 1) \in Seq(Seq(S))
    BY <1>1, <2>1
  <2> QED
    BY <2>1, <2>2, <2>3, FlattenAppend DEF FlatTo, upto
<1>6. FlatTo(f, n) = FlattenSeq(f)
  <2>1. upto(n) = f
    OBVIOUS
  <2> QED
    BY <2>1 DEF FlatTo
<1> QED
  BY <1>3, <1>4, <1>5, <1>6

\* Pieces that are empty from k on add nothing.
LEMMA FlatBlank ==
    ASSUME NEW S, NEW n \in Nat, NEW f \in [1..n -> Seq(S)], NEW k \in 0..n,
           \A i \in k + 1..n : f[i] = <<>>
    PROVE  FlatTo(f, n) = FlatTo(f, k)
<1> DEFINE G == {i \in 0..n : i >= k => FlatTo(f, i) = FlatTo(f, k)}
<1>1. 0 \in G
  OBVIOUS
<1>2. ASSUME NEW i \in 1..n, i - 1 \in G PROVE i \in G
  <2>1. i \in 0..n
    OBVIOUS
  <2>2. CASE i <= k
    BY <2>1, <2>2
  <2>3. CASE i > k
    <3>1. FlatTo(f, i - 1) = FlatTo(f, k) /\ f[i] = <<>> /\ i - 1 \in 0..n
      BY <1>2, <2>3
    <3>2. FlatTo(f, i) = FlatTo(f, i - 1) \o f[i] /\ FlatTo(f, i - 1) \in Seq(S)
      BY <3>1, FlatStep
    <3> QED
      BY <2>1, <3>1, <3>2, ConcatEmptySeq
  <2> QED
    BY <2>1, <2>2, <2>3
<1>3. \A i \in 0..n : i \in G
  <2> HIDE DEF G
  <2> QED
    BY <1>1, <1>2, UptoInduction
<1> QED
  BY <1>3

\* Pieces of one element each, from k on, add what they are.
LEMMA FlatSingles ==
    ASSUME NEW S, NEW n \in Nat, NEW f \in [1..n -> Seq(S)], NEW k \in 0..n,
           NEW s \in Seq(S), Len(s) = n, \A i \in k + 1..n : f[i] = <<s[i]>>
    PROVE  FlatTo(f, n) = FlatTo(f, k) \o SubSeq(s, k + 1, n)
<1> DEFINE Holds(i) == FlatTo(f, i) = FlatTo(f, k) \o SubSeq(s, k + 1, i)
           G == {i \in 0..n : i >= k => Holds(i)}
<1>0. FlatTo(f, k) \in Seq(S)
  BY FlatStep
<1>1. Holds(k)
  BY <1>0, SubSeqEmpty, ConcatEmptySeq
<1>2. ASSUME NEW i \in 1..n, i > k, Holds(i - 1) PROVE Holds(i)
  <2> DEFINE part == SubSeq(s, k + 1, i - 1)
  <2>1. f[i] = <<s[i]>>
    BY <1>2
  <2>2. FlatTo(f, i) = FlatTo(f, i - 1) \o f[i]
    BY FlatStep
  <2>3. part \in Seq(S) /\ s[i] \in S
    BY <1>2
  <2>4. SubSeq(s, k + 1, i) = part \o <<s[i]>>
    <3>1. k + 1 \in 1..Len(s) /\ i \in k + 1..Len(s)
      BY <1>2
    <3> QED
      BY <3>1, SubSeqRecursiveSecond
  <2>5. FlatTo(f, i - 1) = FlatTo(f, k) \o part
    BY <1>2
  <2> HIDE DEF part
  <2>6. FlatTo(f, i) = (FlatTo(f, k) \o part) \o <<s[i]>>
    BY <2>1, <2>2, <2>5
  <2>7. (FlatTo(f, k) \o part) \o <<s[i]>> = FlatTo(f, k) \o (part \o <<s[i]>>)
    <3>1. <<s[i]>> \in Seq(S)
      BY <2>3
    <3>2. \A x, y, z \in Seq(S) : (x \o y) \o z = x \o (y \o z)
      BY ConcatAssociative, SMTT(60)
    <3> QED
      BY <1>0, <2>3, <3>1, <3>2, Zenon
  <2> QED
    BY <2>4, <2>6, <2>7
<1> HIDE DEF Holds
<1>3. 0 \in G
  BY <1>1
<1>4. ASSUME NEW i \in 1..n, i - 1 \in G PROVE i \in G
  BY <1>1, <1>2, <1>4
<1> HIDE DEF G
<1>5. \A i \in 0..n : i \in G
  BY <1>3, <1>4, UptoInduction
<1>6. n \in G
  BY <1>5
<1>7. Holds(n)
  BY <1>6 DEF G
<1> QED
  BY <1>7 DEF Holds

-----------------------------------------------------------------------------
(***************************************************************************)
(* Sequences in order, and in two parts.                                   *)
(***************************************************************************)
LEMMA ConcatAt ==
    ASSUME NEW U, NEW v \in Seq(U), NEW w \in Seq(U), NEW m \in Nat, m = Len(v), NEW n \in Nat, n = Len(w)
    PROVE  /\ v \o w \in Seq(U) /\ Len(v \o w) = m + n /\ DOMAIN (v \o w) = 1..m + n
           /\ \A i \in 1..m : (v \o w)[i] = v[i]
           /\ \A i \in m + 1..m + n : (v \o w)[i] = w[i - m] /\ i - m \in 1..n
<1>1. v \o w \in Seq(U) /\ Len(v \o w) = m + n
      /\ \A i \in 1..m + n : (v \o w)[i] = IF i <= m THEN v[i] ELSE w[i - m]
  BY ConcatProperties
<1>2. DOMAIN (v \o w) = 1..m + n
  BY <1>1, LenProperties
<1>3. ASSUME NEW i \in 1..m PROVE (v \o w)[i] = v[i]
  <2>1. i \in 1..m + n /\ i <= m
    OBVIOUS
  <2> QED
    BY <1>1, <2>1
<1>4. ASSUME NEW i \in m + 1..m + n PROVE (v \o w)[i] = w[i - m] /\ i - m \in 1..n
  <2>1. i \in 1..m + n /\ ~(i <= m) /\ i - m \in 1..n
    OBVIOUS
  <2> QED
    BY <1>1, <2>1
<1> QED
  BY <1>1, <1>2, <1>3, <1>4

\* Every element of a sequence is related to all that follow it.
Ordered(R, w) == \A i, j \in DOMAIN w : i < j => <<w[i], w[j]>> \in R

LEMMA OrderedConcat ==
    ASSUME NEW U, NEW R, NEW v \in Seq(U), NEW w \in Seq(U), Ordered(R, v), Ordered(R, w),
           \A a \in Range(v), b \in Range(w) : <<a, b>> \in R
    PROVE  Ordered(R, v \o w)
<1> DEFINE both == v \o w
<1>1. PICK m \in Nat : m = Len(v)
  BY LenProperties
<1>2. PICK n \in Nat : n = Len(w)
  BY LenProperties
<1>3. /\ DOMAIN both = 1..m + n
      /\ \A i \in 1..m : both[i] = v[i]
      /\ \A i \in m + 1..m + n : both[i] = w[i - m] /\ i - m \in 1..n
  BY <1>1, <1>2, ConcatAt
<1>4. DOMAIN v = 1..m /\ DOMAIN w = 1..n
  BY <1>1, <1>2, LenProperties
<1> HIDE DEF both
<1> SUFFICES ASSUME NEW i \in 1..m + n, NEW j \in 1..m + n, i < j PROVE <<both[i], both[j]>> \in R
  BY <1>3 DEF Ordered, both
<1>5. CASE j <= m
  <2>1. i \in 1..m /\ j \in 1..m
    BY <1>5
  <2> QED
    BY <1>3, <1>4, <2>1 DEF Ordered
<1>6. CASE i <= m /\ ~(j <= m)
  <2>1. i \in 1..m /\ j \in m + 1..m + n
    BY <1>6
  <2>2. both[i] \in Range(v) /\ both[j] \in Range(w)
    BY <1>3, <1>4, <2>1 DEF Range
  <2> QED
    BY <2>2
<1>7. CASE ~(i <= m)
  <2>1. i \in m + 1..m + n /\ j \in m + 1..m + n
    BY <1>7
  <2>2. i - m \in 1..n /\ j - m \in 1..n /\ i - m < j - m
    BY <2>1
  <2>3. <<w[i - m], w[j - m]>> \in R
    BY <1>4, <2>2 DEF Ordered
  <2> QED
    BY <1>3, <2>1, <2>3
<1> QED
  BY <1>5, <1>6, <1>7

LEMMA OrderedFlatten ==
    ASSUME NEW U, NEW R, NEW n \in Nat, NEW f \in [1..n -> Seq(U)],
           \A i \in 1..n : Ordered(R, f[i]),
           \A i, j \in 1..n : i < j => \A a \in Range(f[i]), b \in Range(f[j]) : <<a, b>> \in R
    PROVE  Ordered(R, FlattenSeq(f))
<1> DEFINE Seen(k) == UNION {Range(f[j]) : j \in 1..k}
           G == {k \in 0..n : Ordered(R, FlatTo(f, k)) /\ Range(FlatTo(f, k)) = Seen(k)}
<1>1. 0 \in G
  <2>1. FlatTo(f, 0) = <<>>
    BY FlatStep
  <2>2. Seen(0) = {} /\ 0 \in 0..n
    OBVIOUS
  <2>3. Ordered(R, <<>>) /\ Range(<<>>) = {}
    BY DEF Ordered, Range
  <2> HIDE DEF Seen
  <2> QED
    BY <2>1, <2>2, <2>3
<1>2. ASSUME NEW k \in 1..n, k - 1 \in G PROVE k \in G
  <2>1. FlatTo(f, k) = FlatTo(f, k - 1) \o f[k] /\ FlatTo(f, k - 1) \in Seq(U) /\ f[k] \in Seq(U)
    <3>1. k - 1 \in 0..n
      OBVIOUS
    <3> QED
      BY <3>1, FlatStep
  <2>2. Ordered(R, FlatTo(f, k - 1)) /\ Range(FlatTo(f, k - 1)) = Seen(k - 1)
    BY <1>2
  <2>3. \A a \in Seen(k - 1), b \in Range(f[k]) : <<a, b>> \in R
    <3> SUFFICES ASSUME NEW j \in 1..k - 1, NEW a \in Range(f[j]), NEW b \in Range(f[k])
                 PROVE  <<a, b>> \in R
      OBVIOUS
    <3>1. j \in 1..n /\ j < k
      OBVIOUS
    <3> QED
      BY <3>1
  <2>4. Seen(k) = Seen(k - 1) \cup Range(f[k])
    <3>1. 1..k = (1..k - 1) \cup {k}
      OBVIOUS
    <3> QED
      BY <3>1
  <2>5. Range(FlatTo(f, k)) = Range(FlatTo(f, k - 1)) \cup Range(f[k])
    BY <2>1, RangeConcat
  <2> HIDE DEF Seen
  <2>6. Ordered(R, FlatTo(f, k - 1) \o f[k])
    BY <2>1, <2>2, <2>3, OrderedConcat
  <2>7. k \in 0..n
    OBVIOUS
  <2> QED
    BY <2>1, <2>2, <2>4, <2>5, <2>6, <2>7
<1> HIDE DEF G
<1>3. \A k \in 0..n : k \in G
  BY <1>1, <1>2, UptoInduction
<1>4. n \in G
  BY <1>3
<1> QED
  BY <1>4, FlatStep DEF G

\* What a sequence of sequences in two parts flattens to.
LEMMA FlattenConcat ==
    ASSUME NEW U, NEW s \in Seq(Seq(U)), NEW t \in Seq(Seq(U))
    PROVE  FlattenSeq(s \o t) = FlattenSeq(s) \o FlattenSeq(t)
<1>1. PICK n \in Nat : n = Len(t)
  BY LenProperties
<1> DEFINE T(k) == SubSeq(t, 1, k)
           G == {k \in 0..n : FlattenSeq(s \o T(k)) = FlattenSeq(s) \o FlattenSeq(T(k))}
           S == Seq(U)
<1>2. \A k \in 0..n : T(k) \in Seq(S)
  <2> SUFFICES ASSUME NEW k \in 0..n PROVE T(k) \in Seq(S)
    OBVIOUS
  <2>1. \A i \in 1..k : t[i] \in S
    BY <1>1, ElementOfSeq
  <2> HIDE DEF S
  <2> QED
    BY <2>1, SubSeqProperties
<1>3. FlattenSeq(s) \in S
  BY FlattenType
<1>4. 0 \in G
  <2>1. T(0) = <<>>
    BY SubSeqEmpty
  <2>2. FlattenSeq(<<>>) = <<>>
    BY FlattenNone, EmptySeq
  <2>3. s \o <<>> = s /\ FlattenSeq(s) \o <<>> = FlattenSeq(s)
    <3> HIDE DEF S
    <3>1. s \in Seq(S)
      BY DEF S
    <3> QED
      BY <1>3, <3>1, ConcatEmptySeq DEF S
  <2>4. 0 \in 0..n
    OBVIOUS
  <2>5. FlattenSeq(s \o T(0)) = FlattenSeq(s) \o FlattenSeq(T(0))
    BY <2>1, <2>2, <2>3
  <2> HIDE DEF T
  <2> QED
    BY <2>4, <2>5
<1>5. ASSUME NEW k \in 1..n, k - 1 \in G PROVE k \in G
  <2>1. t[k] \in S /\ k - 1 \in 0..n /\ k \in 0..n
    <3>1. t \in Seq(S) /\ k \in 1..Len(t)
      BY <1>1
    <3> HIDE DEF S
    <3> QED
      BY <3>1, ElementOfSeq
  <2>2. T(k - 1) \in Seq(S)
    BY <1>2, <2>1
  <2>3. T(k) = Append(T(k - 1), t[k])
    <3>1. 1 \in 1..Len(t) /\ k \in 1..Len(t)
      BY <1>1
    <3>2. T(k) = T(k - 1) \o <<t[k]>>
      BY <3>1, SubSeqRecursiveSecond
    <3> HIDE DEF T
    <3> QED
      BY <2>1, <2>2, <3>2, AppendIsConcat
  <2> HIDE DEF T
  <2> DEFINE a == T(k - 1)
             x == t[k]
  <2>4. FlattenSeq(s \o a) = FlattenSeq(s) \o FlattenSeq(a)
    BY <1>5
  <2> HIDE DEF a, x, S
  <2>5. a \in Seq(S) /\ x \in S /\ s \in Seq(S)
    BY <2>1, <2>2 DEF a, x, S
  <2>6. s \o Append(a, x) = Append(s \o a, x) /\ s \o a \in Seq(S)
    <3>1. s \o a \in Seq(S)
      BY <2>5, ConcatProperties
    <3>2. Append(a, x) = a \o <<x>>
      BY <2>5, AppendIsConcat
    <3>3. Append(s \o a, x) = (s \o a) \o <<x>>
      BY <2>5, <3>1, AppendIsConcat
    <3>4. <<x>> \in Seq(S)
      BY <2>5
    <3>5. (s \o a) \o <<x>> = s \o (a \o <<x>>)
      BY <2>5, <3>4, ConcatAssociative
    <3> QED
      BY <3>1, <3>2, <3>3, <3>5
  <2>7. FlattenSeq(Append(s \o a, x)) = FlattenSeq(s \o a) \o x
    BY <2>5, <2>6, FlattenAppend DEF S
  <2>8. FlattenSeq(Append(a, x)) = FlattenSeq(a) \o x
    BY <2>5, FlattenAppend DEF S
  <2>9. (FlattenSeq(s) \o FlattenSeq(a)) \o x = FlattenSeq(s) \o (FlattenSeq(a) \o x)
    <3>1. FlattenSeq(a) \in Seq(U) /\ FlattenSeq(s) \in Seq(U) /\ x \in Seq(U)
      BY <2>5, FlattenType DEF S
    <3>2. PICK u \in Seq(U) : u = FlattenSeq(s)
      BY <3>1
    <3>3. PICK v \in Seq(U) : v = FlattenSeq(a)
      BY <3>1
    <3>4. PICK w \in Seq(U) : w = x
      BY <3>1
    <3>5. \A c, d, e \in Seq(U) : (c \o d) \o e = c \o (d \o e)
      BY ConcatAssociative, SMTT(60)
    <3>6. (u \o v) \o w = u \o (v \o w)
      BY <3>5, Zenon
    <3> QED
      BY <3>2, <3>3, <3>4, <3>6
  <2>10. FlattenSeq(s \o T(k)) = FlattenSeq(s) \o FlattenSeq(T(k))
    <3>1. T(k) = Append(a, x)
      BY <2>3 DEF a, x
    <3> QED
      BY <2>4, <2>6, <2>7, <2>8, <2>9, <3>1
  <2> QED
    BY <2>1, <2>10
<1> HIDE DEF G
<1>6. \A k \in 0..n : k \in G
  BY <1>4, <1>5, UptoInduction
<1>7. n \in G /\ T(n) = t
  BY <1>1, <1>6, SubSeqFull
<1> QED
  BY <1>7 DEF G

LEMMA FlattenOne ==
    ASSUME NEW U, NEW s \in Seq(U)
    PROVE  FlattenSeq(<<s>>) = s
<1>1. <<>> \in Seq(Seq(U)) /\ FlattenSeq(<<>>) = <<>> /\ Append(<<>>, s) = <<s>>
  BY FlattenNone, EmptySeq
<1>2. FlattenSeq(Append(<<>>, s)) = FlattenSeq(<<>>) \o s
  BY <1>1, FlattenAppend
<1> QED
  BY <1>1, <1>2, ConcatEmptySeq
==============================================================================
