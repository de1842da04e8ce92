------------------------------- MODULE Lemmas -------------------------------
(***************************************************************************)
(* What the proofs use of the community modules' Min, Max and FlattenSeq,  *)
(* and of counting how often a key has come.                               *)
(* The lemmas on all numbers up to a length are proved from the least one  *)
(* that would be an exception.                                             *)
(***************************************************************************)
EXTENDS Integers, Sequences, FiniteSets, SequencesExt, SequenceTheorems, FiniteSetTheorems,
        WellFoundedInduction, TLAPS

Below == {pair \in Nat \X Nat : pair[1] < pair[2]}

\* The least number of a set of naturals is in it, and no number of it is less.
LEMMA LeastNumber ==
    ASSUME NEW S, S \subseteq Nat, S # {}
    PROVE  /\ Min(S) \in S
           /\ \A n \in S : Min(S) <= n
<1>1. OpToRel(<, Nat) = Below
  BY DEF OpToRel, Below
<1>2. IsWellFoundedOn(Below, Nat)
  BY <1>1, NatLessThanWellFounded
<1>3. PICK least \in S : \A n \in S : <<n, least>> \notin Below
  BY <1>2, WFMin
<1>4. ASSUME NEW n \in S PROVE least <= n
  <2>1. <<n, least>> \in Nat \X Nat
    OBVIOUS
  <2>2. ~(<<n, least>>[1] < <<n, least>>[2])
    BY <1>3, <2>1 DEF Below
  <2> QED
    BY <2>2
<1> QED
  BY <1>4 DEF Min

\* A set of naturals with a bound has a greatest one.
LEMMA GreatestNumber ==
    ASSUME NEW bound \in Nat, NEW S, S \subseteq 0..bound, S # {}
    PROVE  /\ Max(S) \in S
           /\ \A n \in S : n <= Max(S)
<1> DEFINE fromAbove == {bound - n : n \in S}
<1>1. fromAbove \subseteq Nat /\ fromAbove # {}
  <2>1. \A n \in S : n \in Nat /\ bound - n \in Nat
    OBVIOUS
  <2> QED
    BY <2>1
<1>2. PICK least \in fromAbove : \A d \in fromAbove : least <= d
  BY <1>1, LeastNumber
<1>3. PICK greatest \in S : least = bound - greatest
  BY <1>2
<1>4. ASSUME NEW n \in S PROVE greatest >= n
  <2>1. bound - n \in fromAbove
    OBVIOUS
  <2>2. bound - greatest <= bound - n
    BY <1>2, <1>3, <2>1
  <2>3. n \in Int /\ greatest \in Int
    OBVIOUS
  <2> QED
    BY <2>2, <2>3
<1>5. \E x \in S : \A y \in S : x >= y
  BY <1>4
<1>6. Max(S) \in S /\ \A y \in S : Max(S) >= y
  BY <1>5 DEF Max
<1>7. \A n \in S : n \in Int
  OBVIOUS
<1> QED
  BY <1>6, <1>7

\* What holds of 0, and of k + 1 when it holds of k, holds up to n.
LEMMA CountingUp ==
    ASSUME NEW n \in Nat, NEW holds, 0 \in holds, \A k \in 0..n - 1 : k \in holds => k + 1 \in holds
    PROVE  \A k \in 0..n : k \in holds
<1> DEFINE fails == {k \in 0..n : k \notin holds}
<1>1. SUFFICES ASSUME fails # {} PROVE FALSE
  OBVIOUS
<1>2. fails \subseteq Nat
  OBVIOUS
<1>3. PICK least \in fails : \A k \in fails : least <= k
  BY <1>1, <1>2, LeastNumber
<1>4. least \in 1..n /\ least - 1 \in 0..n - 1 /\ ~(least <= least - 1) /\ least - 1 \in 0..n
  BY <1>2, <1>3
<1>5. least - 1 \in holds
  BY <1>3, <1>4
<1> QED
  BY <1>3, <1>4, <1>5

-----------------------------------------------------------------------------
(* Glued pieces: FlattenSeq. *)

\* g[k] is the first k pieces, glued.
Gluing(g, pieces) ==
    /\ g[0] = <<>>
    /\ \A k \in 1..Len(pieces) : g[k] = g[k - 1] \o pieces[k]

LEMMA PiecesAreGlued ==
    ASSUME NEW S, NEW pieces \in Seq(Seq(S))
    PROVE  \E g \in [0..Len(pieces) -> Seq(S)] :
              Gluing(g, pieces) /\ FlattenSeq(pieces) = g[Len(pieces)]
<1> DEFINE n == Len(pieces)
           Glues(g, k) == g = [i \in 1..k |-> IF i = 1 THEN pieces[i] ELSE g[i - 1] \o pieces[i]]
           glued == CHOOSE g : Glues(g, n)
           reached == {k \in 0..n : \E g : Glues(g, k)}
<1>1. n \in Nat /\ \A i \in 1..n : pieces[i] \in Seq(S)
  OBVIOUS
<1>2. CASE n = 0
  <2>1. FlattenSeq(pieces) = pieces /\ pieces = <<>>
    BY <1>2 DEF FlattenSeq
  <2>2. [i \in 0..n |-> <<>>] \in [0..n -> Seq(S)]
    OBVIOUS
  <2>3. Gluing([i \in 0..n |-> <<>>], pieces)
    BY <1>2 DEF Gluing
  <2> QED
    BY <1>2, <2>1, <2>2, <2>3
<1>3. CASE n # 0
  <2>1. FlattenSeq(pieces) = glued[n]
    BY <1>3 DEF FlattenSeq
  <2>2. 0 \in reached
    <3>1. Glues([i \in 1..0 |-> <<>>], 0)
      OBVIOUS
    <3>2. 0 \in 0..n
      BY <1>1
    <3> HIDE DEF Glues
    <3> QED
      BY <3>1, <3>2
  <2>3. ASSUME NEW k \in 0..n - 1, k \in reached PROVE k + 1 \in reached
    <3>1. PICK g : Glues(g, k)
      BY <2>3
    <3> DEFINE longer == [i \in 1..k + 1 |->
                            IF i = k + 1 THEN IF i = 1 THEN pieces[i] ELSE g[i - 1] \o pieces[i]
                            ELSE g[i]]
    <3>2. ASSUME NEW i \in 1..k + 1
          PROVE  longer[i] = IF i = 1 THEN pieces[i] ELSE longer[i - 1] \o pieces[i]
      <4>1. i - 1 # k + 1 /\ (i # 1 => i - 1 \in 1..k + 1)
        OBVIOUS
      <4>2. i # 1 => longer[i - 1] = g[i - 1]
        BY <4>1
      <4>3. CASE i = k + 1
        BY <4>2, <4>3
      <4>4. CASE i # k + 1
        <5>1. i \in 1..k
          BY <4>4
        <5>2. g[i] = IF i = 1 THEN pieces[i] ELSE g[i - 1] \o pieces[i]
          BY <3>1, <5>1
        <5> QED
          BY <5>2, <4>2, <4>4
      <4> QED
        BY <4>3, <4>4
    <3>3. Glues(longer, k + 1)
      BY <3>2
    <3>4. k + 1 \in 0..n
      BY <1>1
    <3> HIDE DEF Glues
    <3> QED
      BY <3>3, <3>4
  <2>4. n \in reached
    <3>1. n \in 0..n
      BY <1>1
    <3> HIDE DEF reached
    <3> QED
      BY <1>1, <2>2, <2>3, <3>1, CountingUp
  <2>5. Glues(glued, n)
    <3>1. \E g : Glues(g, n)
      BY <2>4
    <3> HIDE DEF Glues
    <3> QED
      BY <3>1
  <2> HIDE DEF glued
  <2> DEFINE whole == [k \in 0..n |-> IF k = 0 THEN <<>> ELSE glued[k]]
             good == {k \in 0..n : whole[k] \in Seq(S)}
  <2>6. ASSUME NEW k \in 0..n - 1, k \in good
        PROVE  /\ whole[k + 1] = whole[k] \o pieces[k + 1]
               /\ k + 1 \in good
    <3>1. k + 1 \in 1..n /\ k + 1 \in 0..n /\ k + 1 # 0 /\ (k + 1) - 1 = k
      BY <1>1
    <3>2. pieces[k + 1] \in Seq(S) /\ whole[k] \in Seq(S)
      BY <1>1, <2>6, <3>1
    <3>3. glued[k + 1] = IF k + 1 = 1 THEN pieces[k + 1] ELSE glued[k] \o pieces[k + 1]
      BY <2>5, <3>1
    <3>4. whole[k + 1] = whole[k] \o pieces[k + 1]
      <4>0. whole[k + 1] = glued[k + 1] /\ whole[k] = IF k = 0 THEN <<>> ELSE glued[k]
        BY <3>1
      <4> HIDE DEF whole
      <4>1. CASE k = 0
        <5>1. <<>> \o pieces[k + 1] = pieces[k + 1]
          BY <3>2
        <5>2. glued[k + 1] = pieces[k + 1]
          BY <4>1, <3>3
        <5> QED
          BY <4>0, <4>1, <5>1, <5>2
      <4>2. CASE k # 0
        <5>1. k + 1 # 1
          BY <4>2
        <5> QED
          BY <4>0, <4>2, <5>1, <3>3
      <4> QED
        BY <4>1, <4>2
    <3>5. whole[k] \o pieces[k + 1] \in Seq(S)
      <4> HIDE DEF whole
      <4> QED
        BY <3>2, ConcatProperties
    <3> QED
      BY <3>1, <3>4, <3>5
  <2>7. \A k \in 0..n : k \in good
    <3>1. 0 \in good
      BY <1>1
    <3> HIDE DEF good
    <3> QED
      BY <1>1, <2>6, <3>1, CountingUp
  <2>8. whole \in [0..n -> Seq(S)]
    BY <2>7
  <2>9. Gluing(whole, pieces)
    <3>1. whole[0] = <<>>
      BY <1>1
    <3>2. ASSUME NEW k \in 1..n PROVE whole[k] = whole[k - 1] \o pieces[k]
      <4>1. k - 1 \in 0..n - 1 /\ (k - 1) + 1 = k /\ k - 1 \in good
        BY <1>1, <2>7
      <4> HIDE DEF whole, good
      <4> QED
        BY <2>6, <4>1
    <3> HIDE DEF whole
    <3> QED
      BY <3>1, <3>2 DEF Gluing
  <2>10. FlattenSeq(pieces) = whole[n]
    BY <1>1, <1>3, <2>1
  <2> HIDE DEF whole
  <2> QED
    BY <2>8, <2>9, <2>10
<1> QED
  BY <1>2, <1>3

\* The pieces of a text glued together are a text.
LEMMA FlattenedIsSequence ==
    ASSUME NEW S, NEW pieces \in Seq(Seq(S))
    PROVE  FlattenSeq(pieces) \in Seq(S)
<1>1. PICK g \in [0..Len(pieces) -> Seq(S)] : FlattenSeq(pieces) = g[Len(pieces)]
  BY PiecesAreGlued
<1>2. Len(pieces) \in 0..Len(pieces)
  OBVIOUS
<1> QED
  BY <1>1, <1>2

\* One piece more.
LEMMA GluedOneMore ==
    ASSUME NEW S, NEW n \in Nat, NEW pieces \in Seq(Seq(S)), NEW longer \in Seq(Seq(S)),
           Len(pieces) = n, Len(longer) = n + 1, \A k \in 1..n : longer[k] = pieces[k]
    PROVE  /\ FlattenSeq(pieces) \in Seq(S) /\ FlattenSeq(longer) \in Seq(S)
           /\ FlattenSeq(longer) = FlattenSeq(pieces) \o longer[n + 1]
<1>1. PICK g \in [0..n -> Seq(S)] : Gluing(g, pieces) /\ FlattenSeq(pieces) = g[n]
  <2>1. \E g \in [0..Len(pieces) -> Seq(S)] : Gluing(g, pieces) /\ FlattenSeq(pieces) = g[Len(pieces)]
    BY PiecesAreGlued, Zenon
  <2> QED
    BY <2>1, Zenon
<1>2. PICK h \in [0..n + 1 -> Seq(S)] : Gluing(h, longer) /\ FlattenSeq(longer) = h[n + 1]
  <2>1. \E h \in [0..Len(longer) -> Seq(S)] : Gluing(h, longer) /\ FlattenSeq(longer) = h[Len(longer)]
    BY PiecesAreGlued, Zenon
  <2> QED
    BY <2>1, Zenon
<1>3. g[0] = <<>> /\ h[0] = <<>>
      /\ (\A k \in 1..n : g[k] = g[k - 1] \o pieces[k])
      /\ (\A k \in 1..n + 1 : h[k] = h[k - 1] \o longer[k])
  BY <1>1, <1>2 DEF Gluing
<1> DEFINE agree == {k \in 0..n : g[k] = h[k]}
<1>4. 0 \in agree
  BY <1>3
<1>5. ASSUME NEW k \in 0..n - 1, k \in agree PROVE k + 1 \in agree
  <2>1. k + 1 \in 1..n /\ k + 1 \in 1..n + 1 /\ k + 1 \in 0..n /\ (k + 1) - 1 = k
    OBVIOUS
  <2>2. g[k + 1] = g[k] \o pieces[k + 1] /\ h[k + 1] = h[k] \o longer[k + 1]
    BY <1>3, <2>1
  <2>3. pieces[k + 1] = longer[k + 1] /\ g[k] = h[k]
    BY <1>5, <2>1
  <2> QED
    BY <2>1, <2>2, <2>3
<1>6. n \in agree
  <2>1. n \in 0..n
    OBVIOUS
  <2> HIDE DEF agree
  <2> QED
    BY <1>4, <1>5, <2>1, CountingUp
<1>7. h[n + 1] = h[n] \o longer[n + 1]
  <2>1. n + 1 \in 1..n + 1 /\ (n + 1) - 1 = n
    OBVIOUS
  <2> QED
    BY <1>3, <2>1
<1>8. g[n] \in Seq(S) /\ h[n + 1] \in Seq(S)
  <2>1. n \in 0..n /\ n + 1 \in 0..n + 1
    OBVIOUS
  <2> QED
    BY <1>1, <1>2, <2>1
<1> QED
  BY <1>1, <1>2, <1>6, <1>7, <1>8

\* What stands at a place of two sequences glued together.
LEMMA ConcatAt ==
    ASSUME NEW S, NEW a \in Seq(S), NEW b \in Seq(S), NEW p \in Nat
    PROVE  /\ Len(a \o b) = Len(a) + Len(b)
           /\ p \in 1..Len(a) => (a \o b)[p] = a[p]
           /\ p > Len(a) /\ p <= Len(a) + Len(b) => (a \o b)[p] = b[p - Len(a)]
OBVIOUS

\* Where each piece ends in what is glued.
PieceEnds(at, pieces) ==
    /\ at \in [0..Len(pieces) -> Nat]
    /\ at[0] = 0
    /\ \A k \in 1..Len(pieces) : at[k] = at[k - 1] + Len(pieces[k])

LEMMA MarksAreThere ==
    ASSUME NEW S, NEW pieces \in Seq(Seq(S))
    PROVE  \E at : PieceEnds(at, pieces)
<1>1. PICK g \in [0..Len(pieces) -> Seq(S)] : Gluing(g, pieces)
  BY PiecesAreGlued
<1> DEFINE n == Len(pieces)
           at == [k \in 0..n |-> Len(g[k])]
<1>2. at \in [0..n -> Nat] /\ at[0] = 0
  BY <1>1 DEF Gluing
<1>3. ASSUME NEW k \in 1..n PROVE at[k] = at[k - 1] + Len(pieces[k])
  <2>1. pieces[k] \in Seq(S)
    OBVIOUS
  <2>2. g[k] = g[k - 1] \o pieces[k]
    BY <1>1 DEF Gluing
  <2>3. n \in Nat
    OBVIOUS
  <2>4. k \in 0..n /\ k - 1 \in 0..n
    BY <2>3
  <2>5. g[k - 1] \in Seq(S)
    BY <1>1, <2>4
  <2>6. Len(g[k]) = Len(g[k - 1]) + Len(pieces[k])
    BY <2>1, <2>2, <2>5, ConcatProperties
  <2> QED
    BY <2>4, <2>6
<1> HIDE DEF at
<1> QED
  BY <1>2, <1>3 DEF PieceEnds

LEMMA MarksRise ==
    ASSUME NEW S, NEW pieces \in Seq(Seq(S)), NEW at, PieceEnds(at, pieces),
           NEW i \in 0..Len(pieces), NEW j \in 0..Len(pieces), i <= j
    PROVE  at[i] <= at[j]
<1> DEFINE n == Len(pieces)
           above == {k \in 0..n : k < i \/ at[i] <= at[k]}
<1>1. n \in Nat /\ at \in [0..n -> Nat] /\ at[0] = 0
      /\ \A k \in 1..n : at[k] = at[k - 1] + Len(pieces[k]) /\ Len(pieces[k]) \in Nat
  BY DEF PieceEnds
<1> HIDE DEF n
<1>2. 0 \in above
  BY <1>1
<1>3. ASSUME NEW k \in 0..n - 1, k \in above PROVE k + 1 \in above
  <2>1. k + 1 \in 1..n /\ k + 1 \in 0..n /\ (k + 1) - 1 = k /\ k \in 0..n /\ i \in 0..n
    BY <1>1 DEF n
  <2>2. at[k + 1] = at[k] + Len(pieces[k + 1]) /\ Len(pieces[k + 1]) \in Nat
    BY <1>1, <2>1
  <2>3. at[k] \in Nat /\ at[i] \in Nat /\ at[k + 1] \in Nat
    BY <1>1, <2>1
  <2>4. k < i \/ at[i] <= at[k]
    BY <1>3
  <2> QED
    BY <2>1, <2>2, <2>3, <2>4
<1>4. j \in above
  <2> HIDE DEF above
  <2> QED
    BY <1>1, <1>2, <1>3, CountingUp DEF n
<1> QED
  BY <1>4

\* Each piece stands in the whole between its marks.
LEMMA PiecesStand ==
    ASSUME NEW S, NEW pieces \in Seq(Seq(S)), NEW at, PieceEnds(at, pieces)
    PROVE  /\ Len(FlattenSeq(pieces)) = at[Len(pieces)]
           /\ \A k \in 1..Len(pieces) : \A j \in 1..Len(pieces[k]) :
                 /\ at[k - 1] + j \in 1..at[Len(pieces)]
                 /\ FlattenSeq(pieces)[at[k - 1] + j] = pieces[k][j]
<1> DEFINE n == Len(pieces)
<1>1. PICK g \in [0..n -> Seq(S)] : Gluing(g, pieces) /\ FlattenSeq(pieces) = g[n]
  BY PiecesAreGlued
<1>2. n \in Nat /\ at \in [0..n -> Nat] /\ at[0] = 0 /\ g[0] = <<>>
      /\ \A k \in 1..n : at[k] = at[k - 1] + Len(pieces[k]) /\ pieces[k] \in Seq(S)
  <2>1. n \in Nat /\ \A k \in 1..n : pieces[k] \in Seq(S)
    OBVIOUS
  <2>2. at \in [0..n -> Nat] /\ at[0] = 0 /\ \A k \in 1..n : at[k] = at[k - 1] + Len(pieces[k])
    BY DEF PieceEnds
  <2>3. g[0] = <<>>
    BY <1>1 DEF Gluing
  <2> HIDE DEF n
  <2> QED
    BY <2>1, <2>2, <2>3
<1>3a. \A k \in 1..n : g[k] = g[k - 1] \o pieces[k]
  BY <1>1 DEF Gluing
<1> HIDE DEF n
<1> DEFINE long == {k \in 0..n : Len(g[k]) = at[k]}
<1>3. \A k \in 0..n : k \in long
  <2>1. 0 \in long
    BY <1>2
  <2>2. ASSUME NEW k \in 0..n - 1, k \in long PROVE k + 1 \in long
    <3>1. k + 1 \in 1..n /\ k + 1 \in 0..n /\ (k + 1) - 1 = k /\ k \in 0..n
      BY <1>2
    <3>2. g[k + 1] = g[k] \o pieces[k + 1] /\ pieces[k + 1] \in Seq(S) /\ g[k] \in Seq(S)
      BY <1>2, <1>3a, <3>1
    <3>3. Len(g[k + 1]) = Len(g[k]) + Len(pieces[k + 1])
      BY <3>2, ConcatProperties
    <3>4. at[k + 1] = at[k] + Len(pieces[k + 1])
      BY <1>2, <3>1
    <3> QED
      BY <2>2, <3>1, <3>3, <3>4
  <2> HIDE DEF long
  <2> QED
    BY <1>2, <2>1, <2>2, CountingUp
<1>4. \A k \in 0..n : Len(g[k]) = at[k]
  BY <1>3
<1> HIDE DEF long
<1>5. ASSUME NEW k \in 1..n, NEW j \in 1..Len(pieces[k])
      PROVE  /\ at[k - 1] + j \in 1..at[n]
             /\ g[n][at[k - 1] + j] = pieces[k][j]
  <2> DEFINE p == at[k - 1] + j
             kept == {m \in 0..n : m < k \/ (p \in 1..at[m] /\ g[m][p] = pieces[k][j])}
  <2>1. /\ k - 1 \in 0..n /\ pieces[k] \in Seq(S) /\ Len(pieces[k]) \in Nat
        /\ at[k - 1] \in Nat /\ p \in Nat
    <3>1. k - 1 \in 0..n /\ pieces[k] \in Seq(S)
      BY <1>2
    <3>2. Len(pieces[k]) \in Nat
      BY <3>1
    <3>3. at[k - 1] \in Nat
      BY <1>2, <3>1
    <3> QED
      BY <3>1, <3>2, <3>3
  <2> HIDE DEF p
  <2>2. 0 \in kept
    BY <1>2
  <2>3. ASSUME NEW m \in 0..n - 1, m \in kept PROVE m + 1 \in kept
    <3>1. m + 1 \in 1..n /\ m + 1 \in 0..n /\ (m + 1) - 1 = m /\ m \in 0..n
      BY <1>2
    <3>2. /\ g[m + 1] = g[m] \o pieces[m + 1] /\ pieces[m + 1] \in Seq(S) /\ g[m] \in Seq(S)
          /\ Len(g[m]) = at[m] /\ at[m + 1] = at[m] + Len(pieces[m + 1]) /\ at[m] \in Nat
      BY <1>2, <1>3a, <1>4, <3>1
    <3>3. CASE m + 1 < k
      BY <3>1, <3>3
    <3>4. CASE m + 1 = k
      <4>1. at[m] = at[k - 1] /\ p = Len(g[m]) + j /\ j \in 1..Len(pieces[m + 1])
        BY <3>1, <3>2, <3>4 DEF p
      <4>2. p > Len(g[m]) /\ p <= Len(g[m]) + Len(pieces[m + 1]) /\ p - Len(g[m]) = j
        BY <3>2, <4>1, <2>1, SMTT(20)
      <4>3. g[m + 1][p] = pieces[m + 1][j]
        <5>0. g[m] \in Seq(S) /\ pieces[m + 1] \in Seq(S) /\ p \in Nat
          BY <3>2, <2>1
        <5> HIDE DEF kept
        <5>1. (g[m] \o pieces[m + 1])[p] = pieces[m + 1][p - Len(g[m])]
          BY <4>2, <5>0, ConcatAt
        <5> QED
          BY <3>2, <4>2, <5>1
      <4> QED
        <5>1. p \in 1..at[m + 1]
          BY <3>2, <4>2, <2>1
        <5> QED
          BY <3>1, <3>4, <4>3, <5>1
    <3>5. CASE m + 1 > k
      <4>1. p \in 1..Len(g[m]) /\ g[m][p] = pieces[k][j]
        BY <2>3, <3>1, <3>2, <3>5
      <4>2. g[m + 1][p] = g[m][p] /\ Len(pieces[m + 1]) \in Nat
        <5>0. g[m] \in Seq(S) /\ pieces[m + 1] \in Seq(S) /\ p \in Nat
          BY <3>2, <2>1
        <5> HIDE DEF kept
        <5>1. (g[m] \o pieces[m + 1])[p] = g[m][p]
          BY <4>1, <5>0, ConcatAt
        <5> QED
          BY <3>2, <5>1
      <4> QED
        BY <3>1, <3>2, <4>1, <4>2, SMTT(20)
    <3> QED
      BY <3>1, <3>3, <3>4, <3>5
  <2>4. n \in kept
    <3>1. n \in 0..n
      BY <1>2
    <3> HIDE DEF kept
    <3> QED
      BY <1>2, <2>2, <2>3, <3>1, CountingUp
  <2>5. p \in 1..at[n] /\ g[n][p] = pieces[k][j]
    BY <1>2, <2>4
  <2> QED
    BY <2>5 DEF p
<1>6. Len(g[n]) = at[n]
  BY <1>2, <1>4
<1> QED
  BY <1>1, <1>5, <1>6 DEF n

\* Every place of the whole is in one of the pieces.
LEMMA EveryPlaceInAPiece ==
    ASSUME NEW S, NEW pieces \in Seq(Seq(S)), NEW at, PieceEnds(at, pieces),
           NEW p \in 1..at[Len(pieces)]
    PROVE  \E k \in 1..Len(pieces) : \E j \in 1..Len(pieces[k]) : p = at[k - 1] + j
<1> DEFINE n == Len(pieces)
           before == {k \in 0..n : at[k] < p}
<1>1. n \in Nat /\ at \in [0..n -> Nat] /\ at[0] = 0
      /\ \A k \in 1..n : at[k] = at[k - 1] + Len(pieces[k]) /\ pieces[k] \in Seq(S)
  BY DEF PieceEnds
<1>2. n \in 0..n /\ at[n] \in Nat /\ p \in Int /\ p <= at[n] /\ p >= 1
  BY <1>1
<1> HIDE DEF n
<1>3. 0 \in before /\ n \notin before
  BY <1>1, <1>2
<1>4. PICK k \in 0..n - 1 : k \in before /\ k + 1 \notin before
  <2> HIDE DEF before
  <2> QED
    BY <1>1, <1>2, <1>3, CountingUp
<1>5. k + 1 \in 1..n /\ k + 1 \in 0..n /\ (k + 1) - 1 = k /\ k \in 0..n
  BY <1>1
<1>6. at[k] \in Nat /\ at[k] < p /\ ~(at[k + 1] < p) /\ at[k + 1] \in Nat
      /\ at[k + 1] = at[k] + Len(pieces[k + 1]) /\ Len(pieces[k + 1]) \in Nat
  BY <1>1, <1>4, <1>5
<1>7. p - at[k] \in 1..Len(pieces[k + 1]) /\ p = at[k] + (p - at[k])
  BY <1>2, <1>6, SMTT(20)
<1> QED
  BY <1>5, <1>7 DEF n

\* Two ways to cut one whole: over each block, of one place or two, the parts make the
\* target.
InBlocks(S, T, blocks, at, parts, targets) ==
    /\ blocks \in Seq(Seq(S)) /\ parts \in Seq(Seq(T)) /\ targets \in Seq(Seq(T))
    /\ PieceEnds(at, blocks)
    /\ Len(parts) = at[Len(blocks)]
    /\ Len(targets) = Len(blocks)
    /\ \A k \in 1..Len(blocks) :
          \/ Len(blocks[k]) = 1 /\ parts[at[k]] = targets[k]
          \/ Len(blocks[k]) = 2 /\ parts[at[k] - 1] \o parts[at[k]] = targets[k]

LEMMA GluedInBlocks ==
    ASSUME NEW S, NEW T, NEW blocks, NEW at, NEW parts, NEW targets,
           InBlocks(S, T, blocks, at, parts, targets)
    PROVE  FlattenSeq(parts) = FlattenSeq(targets)
<1> DEFINE n == Len(blocks)
           m == Len(parts)
<1>1. PICK g \in [0..m -> Seq(T)] : Gluing(g, parts) /\ FlattenSeq(parts) = g[m]
  BY PiecesAreGlued DEF InBlocks
<1>2. PICK h \in [0..n -> Seq(T)] : Gluing(h, targets) /\ FlattenSeq(targets) = h[n]
  BY PiecesAreGlued DEF InBlocks
<1>3. n \in Nat /\ m \in Nat /\ m = at[n] /\ at \in [0..n -> Nat] /\ at[0] = 0
      /\ \A k \in 1..n : at[k] = at[k - 1] + Len(blocks[k])
  BY DEF PieceEnds, InBlocks
<1>4. /\ \A k \in 1..n : targets[k] \in Seq(T)
      /\ \A p \in 1..m : parts[p] \in Seq(T)
  BY DEF InBlocks
<1>5. g[0] = <<>> /\ \A p \in 1..m : g[p] = g[p - 1] \o parts[p]
  BY <1>1 DEF Gluing
<1>6. h[0] = <<>> /\ \A k \in 1..n : h[k] = h[k - 1] \o targets[k]
  BY <1>2 DEF Gluing, InBlocks
<1>7. ASSUME NEW k \in 0..n PROVE at[k] <= m
  <2>1. n \in 0..n /\ k <= n
    BY <1>3
  <2>2. blocks \in Seq(Seq(S)) /\ PieceEnds(at, blocks)
    BY DEF InBlocks
  <2>3. at[k] <= at[n]
    BY <2>1, <2>2, MarksRise DEF n
  <2> QED
    BY <1>3, <2>3
<1>8. \A k \in 1..n : \/ Len(blocks[k]) = 1 /\ parts[at[k]] = targets[k]
                      \/ Len(blocks[k]) = 2 /\ parts[at[k] - 1] \o parts[at[k]] = targets[k]
  BY DEF InBlocks
<1> HIDE DEF n, m
<1> DEFINE agree == {k \in 0..n : g[at[k]] = h[k]}
<1>9. 0 \in agree
  BY <1>3, <1>5, <1>6
<1>10. ASSUME NEW k \in 0..n - 1, k \in agree PROVE k + 1 \in agree
  <2>1. k + 1 \in 1..n /\ k + 1 \in 0..n /\ (k + 1) - 1 = k /\ k \in 0..n
    BY <1>3
  <2>2. /\ at[k] \in Nat /\ at[k + 1] \in Nat /\ at[k + 1] <= m
        /\ at[k + 1] = at[k] + Len(blocks[k + 1])
    BY <1>3, <1>7, <2>1
  <2>3. h[k + 1] = h[k] \o targets[k + 1] /\ g[at[k]] = h[k] /\ h[k] \in Seq(T)
    BY <1>6, <1>10, <2>1
  <2>4. CASE Len(blocks[k + 1]) = 1 /\ parts[at[k + 1]] = targets[k + 1]
    <3>1. at[k + 1] \in 1..m /\ at[k + 1] - 1 = at[k]
      <4>1. at[k + 1] = at[k] + 1 /\ m \in Nat
        BY <1>3, <2>2, <2>4
      <4> QED
        BY <2>2, <4>1
    <3>2. g[at[k + 1]] = g[at[k]] \o targets[k + 1]
      BY <1>5, <2>4, <3>1
    <3> QED
      BY <2>1, <2>3, <3>2
  <2>5. CASE Len(blocks[k + 1]) = 2 /\ parts[at[k + 1] - 1] \o parts[at[k + 1]] = targets[k + 1]
    <3> DEFINE p == at[k + 1]
    <3>1. p \in 1..m /\ p - 1 \in 1..m /\ (p - 1) - 1 = at[k]
      <4>1. p = at[k] + 2 /\ m \in Nat /\ p \in Nat /\ p <= m /\ at[k] \in Nat
        BY <1>3, <2>2, <2>5
      <4> HIDE DEF p, agree
      <4>2. p - 1 = at[k] + 1
        BY <4>1
      <4>3. (p - 1) - 1 = at[k]
        BY <4>1
      <4>4. p \in 1..m
        BY <4>1
      <4>5. p - 1 \in 1..m
        BY <4>1
      <4> QED
        BY <4>3, <4>4, <4>5
    <3>2. parts[p - 1] \o parts[p] = targets[k + 1]
      BY <2>5
    <3> HIDE DEF p
    <3>3. g[p - 1] = h[k] \o parts[p - 1] /\ g[p] = g[p - 1] \o parts[p]
      BY <1>5, <2>3, <3>1
    <3>4. parts[p - 1] \in Seq(T) /\ parts[p] \in Seq(T)
      BY <1>4, <3>1
    <3>5. (h[k] \o parts[p - 1]) \o parts[p] = h[k] \o (parts[p - 1] \o parts[p])
      <4>1. h[k] \in Seq(T)
        BY <2>3
      <4>2. \A a, b, c \in Seq(T) : (a \o b) \o c = a \o (b \o c)
        BY ConcatAssociative
      <4> HIDE DEF agree
      <4> QED
        BY <3>4, <4>1, <4>2, Zenon
    <3>6. g[p] = h[k] \o targets[k + 1]
      BY <3>2, <3>3, <3>5
    <3> QED
      BY <2>1, <2>3, <3>6 DEF p
  <2> QED
    BY <1>8, <2>1, <2>4, <2>5
<1>11. n \in agree
  <2>1. n \in 0..n
    BY <1>3
  <2> HIDE DEF agree
  <2> QED
    BY <1>3, <1>9, <1>10, <2>1, CountingUp
<1> QED
  BY <1>1, <1>2, <1>3, <1>11

\* A sequence is its elements, one by one.
LEMMA GluedSingles ==
    ASSUME NEW S, NEW v \in Seq(S)
    PROVE  FlattenSeq([i \in 1..Len(v) |-> <<v[i]>>]) = v
<1> DEFINE n == Len(v)
           singles == [i \in 1..n |-> <<v[i]>>]
<1>1. n \in Nat /\ \A i \in 1..n : v[i] \in S
  OBVIOUS
<1>2. singles \in Seq(Seq(S)) /\ Len(singles) = n
      /\ \A i \in 1..n : singles[i] = <<v[i]>> /\ Len(singles[i]) = 1
  BY <1>1
<1>2a. \A i \in 1..n : singles[i] = <<v[i]>> /\ Len(singles[i]) = 1
  BY <1>2
<1> HIDE DEF n, singles
<1>3. PICK at : PieceEnds(at, singles)
  BY <1>2, MarksAreThere
<1>4. at \in [0..n -> Nat] /\ at[0] = 0 /\ \A k \in 1..n : at[k] = at[k - 1] + 1
  BY <1>2, <1>3 DEF PieceEnds
<1> DEFINE counts == {k \in 0..n : at[k] = k}
<1>5. \A k \in 0..n : k \in counts
  <2>1. 0 \in counts
    BY <1>1, <1>4
  <2>2. ASSUME NEW k \in 0..n - 1, k \in counts PROVE k + 1 \in counts
    <3>1. k + 1 \in 1..n /\ k + 1 \in 0..n /\ (k + 1) - 1 = k /\ k \in 0..n
      BY <1>1
    <3> QED
      BY <1>4, <2>2, <3>1
  <2> HIDE DEF counts
  <2> QED
    BY <1>1, <2>1, <2>2, CountingUp
<1>6. Len(FlattenSeq(singles)) = n
  BY <1>1, <1>2, <1>3, <1>5, PiecesStand
<1>7. ASSUME NEW i \in 1..n PROVE FlattenSeq(singles)[i] = v[i]
  <2>0. i - 1 \in 0..n
    BY <1>1
  <2>1. at[i - 1] = i - 1 /\ 1 \in 1..Len(singles[i])
    <3>1. i - 1 \in counts
      BY <1>5, <2>0
    <3>2. at[i - 1] = i - 1
      BY <3>1
    <3>3. Len(singles[i]) = 1
      BY <1>2a
    <3> QED
      BY <3>2, <3>3
  <2>2. FlattenSeq(singles)[at[i - 1] + 1] = singles[i][1]
    BY <1>2, <1>3, <2>1, PiecesStand, SMTT(20)
  <2> QED
    BY <1>1, <1>2, <2>1, <2>2
<1>8. FlattenSeq(singles) \in Seq(S)
  BY <1>2, FlattenedIsSequence
<1>9. FlattenSeq(singles) = v
  BY <1>1, <1>6, <1>7, <1>8 DEF n
<1> QED
  BY <1>9 DEF singles, n

-----------------------------------------------------------------------------
(* How often a key has come in a sequence of records with one. *)

CountIn(q, key, n) == Cardinality({j \in 1..n : q[j].key = key})

LEMMA CountIsNumber ==
    ASSUME NEW q, NEW key, NEW n \in Nat
    PROVE  IsFiniteSet({j \in 1..n : q[j].key = key}) /\ CountIn(q, key, n) \in Nat
<1>1. IsFiniteSet(1..n)
  BY FS_Interval
<1>2. {j \in 1..n : q[j].key = key} \subseteq 1..n
  OBVIOUS
<1> HIDE DEF CountIn
<1>3. IsFiniteSet({j \in 1..n : q[j].key = key})
  BY <1>1, <1>2, FS_Subset
<1> QED
  BY <1>3, FS_CardinalityType DEF CountIn

LEMMA CountOfOneMore ==
    ASSUME NEW q, NEW key, NEW n \in Nat
    PROVE  CountIn(q, key, n + 1) =
               IF q[n + 1].key = key THEN CountIn(q, key, n) + 1 ELSE CountIn(q, key, n)
<1> DEFINE before == {j \in 1..n : q[j].key = key}
           after == {j \in 1..n + 1 : q[j].key = key}
<1>1. IsFiniteSet(before) /\ n + 1 \notin before
  <2>1. IsFiniteSet(before)
    BY CountIsNumber
  <2>2. n + 1 \notin 1..n
    OBVIOUS
  <2> QED
    BY <2>1, <2>2
<1>2. 1..n + 1 = 1..n \cup {n + 1}
  OBVIOUS
<1>3. CASE q[n + 1].key = key
  <2>1. after = before \cup {n + 1}
    BY <1>2, <1>3
  <2> HIDE DEF before, after
  <2>2. Cardinality(after) = Cardinality(before) + 1
    BY <1>1, <2>1, FS_AddElement
  <2> QED
    BY <1>3, <2>2 DEF CountIn, before, after
<1>4. CASE q[n + 1].key # key
  <2>1. after = before
    BY <1>2, <1>4
  <2> QED
    BY <1>4, <2>1 DEF CountIn
<1> QED
  BY <1>3, <1>4

LEMMA CountOfTheSame ==
    ASSUME NEW q, NEW r, NEW key, NEW n \in Nat, \A j \in 1..n : q[j].key = r[j].key
    PROVE  CountIn(q, key, n) = CountIn(r, key, n)
BY DEF CountIn

LEMMA CountMovesOn ==
    ASSUME NEW q, NEW n \in Nat, NEW i \in 1..n, NEW j \in 1..n, i < j, q[i].key = q[j].key
    PROVE  CountIn(q, q[i].key, i) # CountIn(q, q[j].key, j)
<1> DEFINE key == q[j].key
           before == {k \in 1..i : q[k].key = key}
           after == {k \in 1..j : q[k].key = key}
<1>1. IsFiniteSet(after) /\ before \subseteq after /\ j \in after /\ j \notin before
  <2>1. j \in Nat /\ j \in 1..j /\ 1..i \subseteq 1..j /\ j \notin 1..i
    OBVIOUS
  <2>2. IsFiniteSet(after)
    BY <2>1, CountIsNumber
  <2> QED
    BY <2>1, <2>2
<1>2. before # after
  BY <1>1
<1> HIDE DEF before, after
<1>3. Cardinality(before) # Cardinality(after)
  BY <1>1, <1>2, FS_Subset
<1> QED
  BY <1>3 DEF CountIn, before, after

\* A key that came has come a first time.
LEMMA CountStartsAtOne ==
    ASSUME NEW q, NEW n \in Nat, NEW i \in 1..n
    PROVE  /\ \E k \in 1..n : q[k].key = q[i].key /\ CountIn(q, q[i].key, k) = 1
           /\ CountIn(q, q[i].key, n) >= 1
<1> DEFINE key == q[i].key
           those == {k \in 1..n : q[k].key = key}
           least == Min(those)
<1>1. those \subseteq Nat /\ i \in those /\ IsFiniteSet(those)
  BY CountIsNumber, SMTT(20)
<1>2. least \in those /\ \A k \in those : least <= k
  BY <1>1, LeastNumber
<1>3. {k \in 1..least : q[k].key = key} = {least}
  <2> HIDE DEF least
  <2>1. ASSUME NEW k \in 1..least, q[k].key = key PROVE k = least
    <3>1. k \in those
      BY <1>2, <2>1
    <3>2. least <= k /\ k <= least /\ k \in Int /\ least \in Int
      BY <1>2, <3>1
    <3> QED
      BY <3>2
  <2>2. least \in 1..least /\ q[least].key = key
    BY <1>2
  <2> QED
    BY <2>1, <2>2
<1>4. CountIn(q, key, least) = 1
  BY <1>3, FS_Singleton DEF CountIn
<1>5. CountIn(q, key, n) # 0
  <2> HIDE DEF those
  <2>1. Cardinality(those) # 0
    BY <1>1, FS_EmptySet
  <2> QED
    BY <2>1 DEF CountIn, those
<1>6. CountIn(q, key, n) \in Nat
  BY CountIsNumber
<1> QED
  BY <1>2, <1>4, <1>5, <1>6

=============================================================================
