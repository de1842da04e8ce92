------------------------- MODULE JsonFieldsProofs -------------------------
(***************************************************************************)
(* The theorems about JsonFields: for every document, of any size and      *)
(* depth, and every map of fields.                                         *)
(***************************************************************************)
EXTENDS JsonFields, Lemmas, FiniteSetTheorems

Mark == "#"
Dot == "."

LEMMA ThePieces == Mark \in Pieces /\ Dot \in Pieces /\ "1" \in Pieces /\ Mark # Dot /\ Dot # "1" /\ Mark # "1"
BY JsonAssumption DEF Mark, Dot

-----------------------------------------------------------------------------
(* Keys. *)

LEMMA InToSet ==
    ASSUME NEW key \in Keys, NEW c
    PROVE  c \in ToSet(key) <=> \E i \in 1..Len(key) : key[i] = c
BY DEF ToSet, Keys

LEMMA TwoKeys ==
    ASSUME NEW a \in Keys, NEW b \in Keys
    PROVE  /\ a \o b \in Keys /\ Len(a) \in Nat /\ Len(b) \in Nat /\ Len(a \o b) = Len(a) + Len(b)
           /\ \A i \in 1..Len(a) : (a \o b)[i] = a[i]
           /\ \A i \in 1..Len(b) : (a \o b)[Len(a) + i] = b[i]
<1>1. a \in Seq(Pieces) /\ b \in Seq(Pieces)
  BY DEF Keys
<1> QED
  BY <1>1 DEF Keys

\* A key with one more piece.
LEMMA OneMore ==
    ASSUME NEW a \in Keys, NEW c \in Pieces
    PROVE  /\ a \o <<c>> \in Keys /\ Len(a \o <<c>>) = Len(a) + 1
           /\ \A i \in 1..Len(a) : (a \o <<c>>)[i] = a[i]
           /\ (a \o <<c>>)[Len(a) + 1] = c
<1>1. a \in Seq(Pieces) /\ Len(a) \in Nat
  BY DEF Keys
<1>2. <<c>> \in Seq(Pieces) /\ Len(<<c>>) = 1 /\ <<c>>[1] = c
  OBVIOUS
<1>3. <<c>> \in Keys
  BY <1>2 DEF Keys
<1>4. 1 \in 1..Len(<<c>>)
  BY <1>2
<1> QED
  BY <1>2, <1>3, <1>4, TwoKeys

\* What stands before the first "#".
LEMMA BaseEnds ==
    ASSUME NEW key \in Keys
    PROVE  \E n \in 0..Len(key) :
              /\ Base(key) = SubSeq(key, 1, n)
              /\ \A i \in 1..n : key[i] # Mark
              /\ n < Len(key) => key[n + 1] = Mark
<1> DEFINE H == {i \in 1..Len(key) : key[i] = "#"}
<1>1. Len(key) \in Nat /\ H \subseteq Nat
  BY DEF Keys
<1>2. CASE H = {}
  <2>1. Base(key) = key /\ SubSeq(key, 1, Len(key)) = key
    BY <1>2, SubSeqFull DEF Base, Keys
  <2> QED
    <3>1. Len(key) \in 0..Len(key)
      BY <1>1
    <3>2. \A i \in 1..Len(key) : key[i] # Mark
      BY <1>2 DEF Mark
    <3> HIDE DEF H
    <3>3. Base(key) = SubSeq(key, 1, Len(key))
      BY <2>1
    <3>4. ~(Len(key) < Len(key))
      BY <1>1
    <3> QED
      BY <3>1, <3>2, <3>3, <3>4, Zenon
<1>3. CASE H # {}
  <2> DEFINE c == CHOOSE i \in H : \A j \in H : i <= j
  <2>1. \E i \in H : \A j \in H : i <= j
    BY <1>1, <1>3, LeastNumber
  <2>2. c \in H /\ \A j \in H : c <= j
    BY <2>1
  <2>3. Base(key) = SubSeq(key, 1, c - 1)
    BY <1>3 DEF Base
  <2> HIDE DEF c
  <2>4. c - 1 \in 0..Len(key) /\ key[(c - 1) + 1] = Mark
    BY <1>1, <2>2 DEF Mark
  <2>5. ASSUME NEW i \in 1..c - 1 PROVE key[i] # Mark
    <3>1. i \in 1..Len(key) /\ ~(c <= i)
      BY <1>1, <2>2
    <3> QED
      BY <2>2, <3>1 DEF Mark
  <2> QED
    BY <2>3, <2>4, <2>5
<1> QED
  BY <1>2, <1>3

\* A key with its number has the key as its base.
LEMMA BaseOfNumbered ==
    ASSUME NEW key \in Keys, Mark \notin ToSet(key), NEW n \in Nat \ {0}
    PROVE  /\ Numbered(key, n) \in Keys
           /\ Base(Numbered(key, n)) = key
           /\ Len(Numbered(key, n)) = Len(key) + (IF n = 1 THEN 0 ELSE n + 1)
           /\ \A i \in 1..Len(key) : Numbered(key, n)[i] = key[i]
           /\ n # 1 => Numbered(key, n)[Len(key) + 1] = Mark
           /\ \A i \in 1..Len(Numbered(key, n)) :
                 i > Len(key) => Numbered(key, n)[i] \in {Mark, "1"}
<1> DEFINE named == Numbered(key, n)
           ones == [i \in 1..n |-> "1"]
<1>1. Len(key) \in Nat /\ \A i \in 1..Len(key) : key[i] # Mark /\ key[i] \in Pieces
  BY InToSet DEF Keys
<1>2. /\ named \in Keys
      /\ Len(named) = Len(key) + (IF n = 1 THEN 0 ELSE n + 1)
      /\ \A i \in 1..Len(key) : named[i] = key[i]
      /\ n # 1 => named[Len(key) + 1] = Mark
      /\ \A i \in 1..Len(named) : i > Len(key) => named[i] \in {Mark, "1"}
  <2>1. CASE n = 1
    BY <1>1, <2>1 DEF Numbered, Keys
  <2>2. CASE n # 1
    <3>1. ones \in Keys /\ Len(ones) = n /\ \A i \in 1..n : ones[i] = "1"
      <4>1. ones \in [1..n -> Pieces]
        BY ThePieces
      <4>2. ones \in Seq(Pieces) /\ Len(ones) = n
        BY <4>1, IsASeq
      <4> QED
        BY <4>2 DEF Keys
    <3>2. named = key \o <<"#">> \o ones
      BY <2>2 DEF Numbered
    <3> HIDE DEF ones
    <3>3. /\ key \o <<"#">> \in Keys /\ Len(key \o <<"#">>) = Len(key) + 1
          /\ (\A i \in 1..Len(key) : (key \o <<"#">>)[i] = key[i])
          /\ (key \o <<"#">>)[Len(key) + 1] = Mark
      <4>1. "#" \in Pieces
        BY ThePieces DEF Mark
      <4> QED
        BY <4>1, OneMore DEF Mark
    <3> DEFINE first == key \o <<"#">>
    <3> HIDE DEF first
    <3>4. /\ named \in Keys /\ Len(named) = Len(first) + n
          /\ \A i \in 1..Len(first) : named[i] = first[i]
          /\ \A i \in 1..n : named[Len(first) + i] = ones[i]
      <4>1. first \in Keys /\ named = first \o ones
        BY <3>2, <3>3 DEF first
      <4>2. /\ first \o ones \in Keys /\ Len(first \o ones) = Len(first) + Len(ones)
            /\ \A i \in 1..Len(first) : (first \o ones)[i] = first[i]
            /\ \A i \in 1..Len(ones) : (first \o ones)[Len(first) + i] = ones[i]
        BY <3>1, <4>1, TwoKeys, Zenon
      <4> HIDE DEF named
      <4>3. Len(ones) = n
        BY <3>1
      <4> QED
        BY <4>1, <4>2, <4>3, Zenon
    <3>5. Len(first) = Len(key) + 1 /\ (\A i \in 1..Len(key) : first[i] = key[i]) /\ first[Len(key) + 1] = Mark
      BY <3>3 DEF first
    <3>6. ASSUME NEW i \in 1..Len(named), i > Len(key) PROVE named[i] \in {Mark, "1"}
      <4>1. CASE i = Len(key) + 1
        BY <1>1, <3>4, <3>5, <4>1
      <4>2. CASE i # Len(key) + 1
        <5>1. i - Len(first) \in 1..n /\ i = Len(first) + (i - Len(first))
          BY <1>1, <3>4, <3>5, <3>6, <4>2
        <5> QED
          BY <3>1, <3>4, <5>1
      <4> QED
        BY <4>1, <4>2
    <3> QED
      BY <1>1, <2>2, <3>4, <3>5, <3>6
  <2> QED
    BY <2>1, <2>2
<1>3. PICK e \in 0..Len(named) :
          /\ Base(named) = SubSeq(named, 1, e)
          /\ \A i \in 1..e : named[i] # Mark
          /\ e < Len(named) => named[e + 1] = Mark
  BY <1>2, BaseEnds
<1> HIDE DEF named, ones
<1>4. e = Len(key)
  <2>1. Len(named) \in Nat /\ Len(named) >= Len(key) /\ e \in Nat
    BY <1>1, <1>2
  <2>2. ~(e < Len(key))
    BY <1>1, <1>2, <1>3, <2>1
  <2>3. ~(e > Len(key))
    BY <1>1, <1>2, <1>3, <2>1
  <2> QED
    BY <1>1, <2>1, <2>2, <2>3
<1>5. SubSeq(named, 1, Len(key)) = key
  <2>1. Len(named) \in Nat /\ Len(key) \in 0..Len(named)
    BY <1>1, <1>2
  <2>2. SubSeq(named, 1, Len(key)) \in Keys /\ Len(SubSeq(named, 1, Len(key))) = Len(key)
        /\ \A i \in 1..Len(key) : SubSeq(named, 1, Len(key))[i] = named[i]
    BY <1>1, <1>2, <2>1 DEF Keys
  <2> QED
    BY <1>2, <2>2, SeqEqual DEF Keys
<1> QED
  BY <1>2, <1>3, <1>4, <1>5 DEF named

LEMMA NumberedDiffers ==
    ASSUME NEW a \in Keys, NEW b \in Keys, Mark \notin ToSet(a), Mark \notin ToSet(b),
           NEW m \in Nat \ {0}, NEW n \in Nat \ {0}, Numbered(a, m) = Numbered(b, n)
    PROVE  a = b /\ m = n
<1>1. a = b
  <2>1. Base(Numbered(a, m)) = a
    BY BaseOfNumbered
  <2>2. Base(Numbered(b, n)) = b
    BY BaseOfNumbered
  <2> QED
    BY <2>1, <2>2
<1>2. Len(Numbered(a, m)) = Len(a) + (IF m = 1 THEN 0 ELSE m + 1)
  BY BaseOfNumbered
<1>3. Len(Numbered(b, n)) = Len(b) + (IF n = 1 THEN 0 ELSE n + 1)
  BY BaseOfNumbered
<1>4. Len(a) \in Nat
  BY DEF Keys
<1> QED
  BY <1>1, <1>2, <1>3, <1>4

\* A dot before any "#".
HasDot(key) == \E i \in 1..Len(key) : key[i] = Dot /\ \A j \in 1..i : key[j] # Mark

LEMMA DotInBase ==
    ASSUME NEW key \in Keys, HasDot(key)
    PROVE  Dot \in ToSet(key) /\ Base(key) \in Keys /\ Dot \in ToSet(Base(key))
<1>1. PICK i \in 1..Len(key) : key[i] = Dot /\ \A j \in 1..i : key[j] # Mark
  BY DEF HasDot
<1>2. PICK e \in 0..Len(key) :
          /\ Base(key) = SubSeq(key, 1, e)
          /\ \A j \in 1..e : key[j] # Mark
          /\ e < Len(key) => key[e + 1] = Mark
  BY BaseEnds
<1>3. Len(key) \in Nat
  BY DEF Keys
<1>4. i <= e
  <2>1. SUFFICES ASSUME e < i PROVE FALSE
    BY <1>3
  <2>2. e + 1 \in 1..i /\ e < Len(key)
    BY <1>3, <2>1
  <2> QED
    BY <1>1, <1>2, <2>2
<1>5. SubSeq(key, 1, e) \in Keys /\ Len(SubSeq(key, 1, e)) = e /\ SubSeq(key, 1, e)[i] = key[i]
  BY <1>3, <1>4 DEF Keys
<1>6. Dot \in ToSet(key)
  BY <1>1, InToSet
<1>7. Dot \in ToSet(Base(key))
  <2>1. i \in 1..Len(SubSeq(key, 1, e)) /\ SubSeq(key, 1, e)[i] = Dot
    BY <1>1, <1>3, <1>4, <1>5
  <2>2. Dot \in ToSet(SubSeq(key, 1, e))
    BY <1>5, <2>1, InToSet
  <2> QED
    BY <1>2, <2>2
<1> QED
  BY <1>2, <1>5, <1>6, <1>7

LEMMA DottedHasDot ==
    ASSUME NEW prefix \in Keys, NEW key \in Keys, prefix # <<>>,
           Mark \notin ToSet(prefix) \/ HasDot(prefix)
    PROVE  /\ Dotted(prefix, key) \in Keys /\ Dotted(prefix, key) # <<>>
           /\ HasDot(Dotted(prefix, key))
<1> DEFINE first == prefix \o <<".">>
           whole == first \o key
<1>1. Dotted(prefix, key) = whole
  BY DEF Dotted
<1>2. Len(prefix) \in Nat /\ Len(key) \in Nat
  BY DEF Keys
<1>3. first \in Keys /\ Len(first) = Len(prefix) + 1 /\ (\A i \in 1..Len(prefix) : first[i] = prefix[i])
      /\ first[Len(prefix) + 1] = Dot
  <2>1. "." \in Pieces
    BY ThePieces DEF Dot
  <2> QED
    BY <2>1, OneMore DEF Dot
<1> HIDE DEF first
<1>4. whole \in Keys /\ Len(whole) = Len(first) + Len(key) /\ \A i \in 1..Len(first) : whole[i] = first[i]
  BY <1>3, TwoKeys
<1> HIDE DEF whole
<1>5. CASE Mark \notin ToSet(prefix)
  <2>1. \A i \in 1..Len(prefix) : prefix[i] # Mark
    BY <1>5, InToSet
  <2>2. \A j \in 1..Len(prefix) + 1 : whole[j] # Mark
    BY <1>2, <1>3, <1>4, <2>1 DEF Dot, Mark
  <2>3. Len(prefix) + 1 \in 1..Len(whole) /\ whole[Len(prefix) + 1] = Dot
    BY <1>2, <1>3, <1>4
  <2> QED
    BY <1>1, <1>4, <2>2, <2>3 DEF HasDot
<1>6. CASE HasDot(prefix)
  <2>1. PICK i \in 1..Len(prefix) : prefix[i] = Dot /\ \A j \in 1..i : prefix[j] # Mark
    BY <1>6 DEF HasDot
  <2>2. i \in 1..Len(whole) /\ whole[i] = Dot /\ \A j \in 1..i : whole[j] # Mark
    BY <1>2, <1>3, <1>4, <2>1
  <2> QED
    BY <1>1, <1>4, <2>2 DEF HasDot
<1> QED
  BY <1>5, <1>6

-----------------------------------------------------------------------------
(* The tree. *)

Pos == Seq(Nat \ {0})

\* Tells the provers what a document is without its quantifiers.
Tree == IsTree(doc)

LEMMA ANode ==
    ASSUME Tree, NEW p \in DOMAIN doc
    PROVE  /\ p \in Pos /\ Len(p) \in Nat
           /\ doc[p].key \in Keys /\ doc[p].size \in Nat
           /\ doc[p].size # 0 => p \in Objects
<1>1. p \in Pos /\ doc[p] \in Values /\ (doc[p].kind # "object" => doc[p].size = 0)
  BY DEF Tree, IsTree, Pos
<1>2. doc[p].key \in Keys /\ doc[p].size \in Nat
  BY <1>1 DEF Values
<1>3. Len(p) \in Nat
  BY <1>1 DEF Pos
<1> QED
  BY <1>1, <1>2, <1>3 DEF Objects

LEMMA InitialPart ==
    ASSUME NEW S, NEW s \in Seq(S), NEW n \in 0..Len(s)
    PROVE  /\ SubSeq(s, 1, n) \in Seq(S) /\ Len(SubSeq(s, 1, n)) = n
           /\ \A i \in 1..n : SubSeq(s, 1, n)[i] = s[i]
<1>1. Len(s) \in Nat /\ n \in Nat
  OBVIOUS
<1> QED
  BY <1>1

LEMMA OneFurther ==
    ASSUME NEW p \in Pos, NEW i \in Nat \ {0}
    PROVE  /\ Append(p, i) \in Pos /\ Append(p, i) # <<>> /\ Len(Append(p, i)) = Len(p) + 1
           /\ Front(Append(p, i)) = p /\ Last(Append(p, i)) = i
           /\ Append(p, i)[Len(p) + 1] = i /\ \A k \in 1..Len(p) : Append(p, i)[k] = p[k]
<1> DEFINE q == Append(p, i)
<1>1. /\ q \in Pos /\ Len(q) = Len(p) + 1 /\ Len(p) \in Nat
      /\ q[Len(p) + 1] = i /\ \A k \in 1..Len(p) : q[k] = p[k]
  BY AppendProperties DEF Pos
<1>2. q # <<>>
  <2> HIDE DEF q
  <2>1. Len(q) # 0
    BY <1>1
  <2> QED
    BY <2>1
<1>3. Last(q) = i
  BY <1>1 DEF Last
<1>4. Front(q) = p
  <2>1. Len(q) - 1 = Len(p)
    BY <1>1
  <2>2. SubSeq(q, 1, Len(p)) \in Pos /\ Len(SubSeq(q, 1, Len(p))) = Len(p)
        /\ \A k \in 1..Len(p) : SubSeq(q, 1, Len(p))[k] = q[k]
    <3> HIDE DEF q
    <3> QED
      BY <1>1 DEF Pos
  <2>3. SubSeq(q, 1, Len(p)) = p
    <3> HIDE DEF q
    <3> QED
      BY <1>1, <2>2, SeqEqual DEF Pos
  <2> QED
    BY <2>1, <2>3 DEF Front
<1> QED
  BY <1>1, <1>2, <1>3, <1>4

LEMMA OneBack ==
    ASSUME NEW q \in Pos, q # <<>>
    PROVE  /\ Front(q) \in Pos /\ Last(q) \in Nat \ {0} /\ Len(q) \in Nat \ {0}
           /\ Len(Front(q)) = Len(q) - 1 /\ q = Append(Front(q), Last(q)) /\ q[Len(q)] = Last(q)
           /\ \A k \in 1..Len(q) - 1 : Front(q)[k] = q[k]
<1>1. Len(q) \in Nat \ {0} /\ q \in Seq(Nat \ {0})
  BY DEF Pos
<1>2. Last(q) \in Nat \ {0} /\ q[Len(q)] = Last(q)
  BY <1>1 DEF Last
<1>3. /\ Front(q) \in Pos /\ Len(Front(q)) = Len(q) - 1
      /\ \A k \in 1..Len(q) - 1 : Front(q)[k] = q[k]
  <2> DEFINE n == Len(q) - 1
  <2>1. n \in 0..Len(q)
    BY <1>1
  <2>2. Front(q) = SubSeq(q, 1, n)
    BY DEF Front
  <2> HIDE DEF n
  <2>3. SubSeq(q, 1, n) \in Seq(Nat \ {0}) /\ Len(SubSeq(q, 1, n)) = n
        /\ \A i \in 1..n : SubSeq(q, 1, n)[i] = q[i]
    BY <1>1, <2>1, InitialPart
  <2> QED
    BY <2>2, <2>3 DEF Pos, n
<1>4. q = Append(Front(q), Last(q))
  <2> DEFINE f == Front(q)
             l == Last(q)
  <2>1. f \in Pos /\ l \in Nat \ {0} /\ Len(f) = Len(q) - 1 /\ q[Len(q)] = l
        /\ \A k \in 1..Len(q) - 1 : f[k] = q[k]
    BY <1>2, <1>3
  <2> HIDE DEF f, l
  <2>2. /\ Append(f, l) \in Pos /\ Len(Append(f, l)) = Len(f) + 1
        /\ Append(f, l)[Len(f) + 1] = l /\ \A k \in 1..Len(f) : Append(f, l)[k] = f[k]
    BY <2>1, OneFurther
  <2> DEFINE a == Append(f, l)
  <2>3. a \in Seq(Nat \ {0}) /\ Len(a) = Len(q)
    BY <1>1, <2>1, <2>2 DEF Pos
  <2>4. \A k \in 1..Len(q) : a[k] = q[k]
    <3> HIDE DEF a
    <3>1. Len(f) + 1 = Len(q) /\ Len(f) = Len(q) - 1
      BY <1>1, <2>1
    <3>2. a[Len(q)] = q[Len(q)] /\ \A k \in 1..Len(q) - 1 : a[k] = q[k]
      BY <2>1, <2>2, <3>1 DEF a
    <3> QED
      BY <1>1, <3>2
  <2> HIDE DEF a
  <2>5. a = q
    BY <1>1, <2>3, <2>4, SeqEqual
  <2> QED
    BY <2>5 DEF a, f, l
<1> QED
  BY <1>1, <1>2, <1>3, <1>4

LEMMA AChild ==
    ASSUME Tree, NEW p \in DOMAIN doc, NEW i \in 1..doc[p].size
    PROVE  Append(p, i) \in DOMAIN doc /\ p \in Objects /\ i \in Nat \ {0}
<1>1. Append(p, i) \in DOMAIN doc
  BY DEF Tree, IsTree
<1>2. doc[p].size \in Nat /\ doc[p].size # 0
  BY ANode
<1> QED
  BY <1>1, <1>2, ANode

LEMMA AParent ==
    ASSUME Tree, NEW q \in DOMAIN doc, q # <<>>
    PROVE  /\ Front(q) \in DOMAIN doc /\ Front(q) \in Objects
           /\ Last(q) \in 1..doc[Front(q)].size
<1>1. Front(q) \in DOMAIN doc /\ Last(q) <= doc[Front(q)].size
  BY DEF Tree, IsTree
<1>2. q \in Pos /\ Last(q) \in Nat \ {0}
  BY ANode, OneBack
<1>3. doc[Front(q)].size \in Nat
  BY <1>1, ANode
<1>4. Last(q) \in 1..doc[Front(q)].size /\ doc[Front(q)].size # 0
  BY <1>1, <1>2, <1>3
<1> QED
  BY <1>1, <1>4, ANode

\* What leads to a node is nodes.
LEMMA APrefix ==
    ASSUME Tree, NEW q \in DOMAIN doc, NEW k \in 0..Len(q)
    PROVE  SubSeq(q, 1, k) \in DOMAIN doc
<1>1. q \in Seq(Nat \ {0}) /\ Len(q) \in Nat
  BY ANode DEF Pos
<1> DEFINE n == Len(q)
           holds == {j \in 0..n : SubSeq(q, 1, n - j) \in DOMAIN doc}
<1> HIDE DEF n
<1>2. n \in Nat /\ k \in 0..n
  BY <1>1 DEF n
<1>3. 0 \in holds
  <2>1. SubSeq(q, 1, n) = q
    BY <1>1, SubSeqFull DEF n
  <2>2. n - 0 = n /\ 0 \in 0..n
    BY <1>2
  <2>3. SubSeq(q, 1, n - 0) \in DOMAIN doc
    BY <2>1, <2>2
  <2> QED
    BY <2>2, <2>3
<1>4. ASSUME NEW j \in 0..n - 1, j \in holds PROVE j + 1 \in holds
  <2>1. PICK m \in Nat : m = n - j /\ m \in 1..n /\ n - (j + 1) = m - 1 /\ j + 1 \in 0..n
    BY <1>2
  <2> DEFINE r == SubSeq(q, 1, m)
  <2>2. r \in Seq(Nat \ {0}) /\ Len(r) = m /\ r # <<>> /\ \A i \in 1..m : r[i] = q[i]
    <3>1. m \in 0..Len(q)
      BY <1>1, <2>1 DEF n
    <3>2. r \in Seq(Nat \ {0}) /\ Len(r) = m /\ \A i \in 1..m : r[i] = q[i]
      BY <1>1, <3>1, InitialPart
    <3> HIDE DEF r
    <3>3. Len(r) # 0
      BY <2>1, <3>2
    <3>4. r # <<>>
      BY <3>3
    <3> QED
      BY <3>2, <3>4
  <2>3. r \in DOMAIN doc
    BY <1>4, <2>1
  <2>4. Front(r) \in DOMAIN doc
    BY <2>2, <2>3, AParent
  <2>5. Front(r) = SubSeq(q, 1, m - 1)
    <3>1. Front(r) = SubSeq(r, 1, m - 1)
      BY <2>2 DEF Front
    <3>2. /\ SubSeq(r, 1, m - 1) \in Seq(Nat \ {0}) /\ Len(SubSeq(r, 1, m - 1)) = m - 1
          /\ \A i \in 1..m - 1 : SubSeq(r, 1, m - 1)[i] = r[i]
      <4> HIDE DEF r
      <4> QED
        BY <2>1, <2>2
    <3>3. /\ SubSeq(q, 1, m - 1) \in Seq(Nat \ {0}) /\ Len(SubSeq(q, 1, m - 1)) = m - 1
          /\ \A i \in 1..m - 1 : SubSeq(q, 1, m - 1)[i] = q[i]
      BY <1>1, <2>1, SMTT(20) DEF n
    <3> DEFINE x == SubSeq(r, 1, m - 1)
               y == SubSeq(q, 1, m - 1)
    <3>4. \A i \in 1..m - 1 : x[i] = y[i]
      <4> HIDE DEF r
      <4>1. \A i \in 1..m - 1 : i \in 1..m
        BY <2>1
      <4> QED
        BY <2>2, <3>2, <3>3, <4>1
    <3> HIDE DEF x, y, r
    <3>5. x = y
      BY <3>2, <3>3, <3>4, SeqEqual DEF x, y
    <3> QED
      BY <3>1, <3>5 DEF x, y
  <2> HIDE DEF r
  <2> QED
    BY <2>1, <2>4, <2>5
<1> HIDE DEF holds
<1>5. n - k \in 0..n
  BY <1>2
<1>6. n - k \in holds
  BY <1>2, <1>3, <1>4, <1>5, CountingUp
<1>7. n - (n - k) = k
  BY <1>2
<1> QED
  BY <1>6, <1>7 DEF holds

\* At each step of the way there is an object, and the next one is one of its members.
LEMMA TheWay ==
    ASSUME Tree, NEW q \in DOMAIN doc, NEW k \in 1..Len(q)
    PROVE  /\ SubSeq(q, 1, k - 1) \in Objects
           /\ SubSeq(q, 1, k) = Append(SubSeq(q, 1, k - 1), q[k])
           /\ q[k] \in 1..doc[SubSeq(q, 1, k - 1)].size
           /\ Len(SubSeq(q, 1, k - 1)) = k - 1 /\ Len(SubSeq(q, 1, k)) = k
<1>1. q \in Seq(Nat \ {0}) /\ Len(q) \in Nat
  BY ANode DEF Pos
<1> DEFINE r == SubSeq(q, 1, k)
           s == SubSeq(q, 1, k - 1)
<1>2. r \in DOMAIN doc
  BY <1>1, APrefix
<1>3. r \in Seq(Nat \ {0}) /\ Len(r) = k /\ r # <<>> /\ \A i \in 1..k : r[i] = q[i]
  BY <1>1
<1>4. s \in Seq(Nat \ {0}) /\ Len(s) = k - 1 /\ \A i \in 1..k - 1 : s[i] = q[i]
  BY <1>1
<1> HIDE DEF r, s
<1>5. /\ Front(r) \in Objects /\ Last(r) \in 1..doc[Front(r)].size
      /\ r = Append(Front(r), Last(r)) /\ Front(r) \in Pos /\ Len(Front(r)) = k - 1 /\ Last(r) = r[k]
      /\ \A i \in 1..k - 1 : Front(r)[i] = r[i]
  BY <1>2, <1>3, AParent, OneBack DEF Pos
<1>6. \A i \in 1..k - 1 : Front(r)[i] = s[i]
  <2>1. \A i \in 1..k - 1 : i \in 1..k
    OBVIOUS
  <2> QED
    BY <1>3, <1>4, <1>5, <2>1
<1>7. Front(r) = s
  BY <1>4, <1>5, <1>6, SeqEqual DEF Pos
<1>8. r[k] = q[k]
  BY <1>3
<1> QED
  BY <1>3, <1>4, <1>5, <1>7, <1>8 DEF r, s

-----------------------------------------------------------------------------
(* Which member of its key a member is. *)

Members(p) == [i \in 1..doc[p].size |-> doc[Append(p, i)]]

LEMMA NthIsCount ==
    ASSUME Tree, NEW p \in DOMAIN doc, NEW i \in 1..doc[p].size
    PROVE  /\ Nth(Append(p, i)) = CountIn(Members(p), doc[Append(p, i)].key, i)
           /\ Nth(Append(p, i)) \in Nat \ {0}
<1>1. p \in Pos /\ i \in Nat \ {0} /\ doc[p].size \in Nat
  BY ANode
<1>2. Front(Append(p, i)) = p /\ Last(Append(p, i)) = i
  BY <1>1, OneFurther
<1> DEFINE key == doc[Append(p, i)].key
<1>3. Nth(Append(p, i)) = Cardinality({j \in 1..i : doc[Append(p, j)].key = key})
  BY <1>2 DEF Nth
<1>4. \A j \in 1..i : j \in 1..doc[p].size
  BY <1>1
<1>5. \A j \in 1..i : Members(p)[j] = doc[Append(p, j)]
  BY <1>4 DEF Members
<1>6. {j \in 1..i : doc[Append(p, j)].key = key} = {j \in 1..i : Members(p)[j].key = key}
  BY <1>5
<1>7. Nth(Append(p, i)) = CountIn(Members(p), key, i)
  BY <1>3, <1>6 DEF CountIn
<1>8. CountIn(Members(p), key, i) \in Nat /\ CountIn(Members(p), key, i) >= 1
  <2>1. i \in 1..i /\ Members(p)[i].key = key
    BY <1>1, <1>5
  <2>2. CountIn(Members(p), Members(p)[i].key, i) >= 1
    BY <1>1, <2>1, CountStartsAtOne
  <2> QED
    BY <1>1, <2>1, <2>2, CountIsNumber
<1> QED
  BY <1>7, <1>8

\* Members of one key have different numbers.
LEMMA NthDiffers ==
    ASSUME Tree, NEW p \in DOMAIN doc, NEW i \in 1..doc[p].size, NEW j \in 1..doc[p].size,
           doc[Append(p, i)].key = doc[Append(p, j)].key, Nth(Append(p, i)) = Nth(Append(p, j))
    PROVE  i = j
<1> DEFINE q == Members(p)
           n == doc[p].size
<1>1. n \in Nat /\ i \in 1..n /\ j \in 1..n /\ q[i].key = q[j].key
      /\ q[i].key = doc[Append(p, i)].key /\ q[j].key = doc[Append(p, j)].key
  BY ANode DEF Members
<1>2. CountIn(q, q[i].key, i) = CountIn(q, q[j].key, j)
  BY <1>1, NthIsCount
<1> HIDE DEF q, n
<1>3. ~(i < j)
  BY <1>1, <1>2, CountMovesOn
<1>4. ~(j < i)
  BY <1>1, <1>2, CountMovesOn
<1> QED
  BY <1>1, <1>3, <1>4

-----------------------------------------------------------------------------
(* The names that paths spell. *)

\* What a member is called in its object's dictionary.
SegName(q) == Numbered(doc[q].key, Nth(q))

\* The keys as deep as a document is taken apart are not empty and have no punctuation.
PlainDoc == \A p \in DOMAIN doc : Len(p) \in 1..MaxDepth + 1 => Plain(doc[p].key)

Near == {p \in DOMAIN doc : Len(p) <= MaxDepth + 1}

LEMMA PlainKey ==
    ASSUME Tree, PlainDoc, NEW q \in Near, q # <<>>
    PROVE  /\ doc[q].key \in Keys /\ Mark \notin ToSet(doc[q].key) /\ Dot \notin ToSet(doc[q].key)
           /\ doc[q].key # <<>> /\ Nth(q) \in Nat \ {0}
<1>1. q \in DOMAIN doc /\ q \in Pos /\ doc[q].key \in Keys
  BY ANode DEF Near
<1>2. Front(q) \in DOMAIN doc /\ Last(q) \in 1..doc[Front(q)].size
  BY <1>1, AParent
<1>3. q = Append(Front(q), Last(q)) /\ Len(q) \in Nat \ {0}
  BY <1>1, OneBack
<1>4. Nth(q) \in Nat \ {0}
  BY <1>2, <1>3, NthIsCount
<1>5. Len(q) \in 1..MaxDepth + 1
  BY <1>3, JsonAssumption DEF Near
<1>6. Plain(doc[q].key)
  BY <1>1, <1>5 DEF PlainDoc
<1> QED
  BY <1>1, <1>4, <1>6 DEF Plain, Mark, Dot

LEMMA NumberedHasNoDot ==
    ASSUME NEW key \in Keys, Mark \notin ToSet(key), NEW n \in Nat \ {0}, Dot \notin ToSet(key)
    PROVE  Numbered(key, n) \in Keys /\ Dot \notin ToSet(Numbered(key, n))
<1>1. /\ Numbered(key, n) \in Keys
      /\ \A i \in 1..Len(key) : Numbered(key, n)[i] = key[i]
      /\ \A i \in 1..Len(Numbered(key, n)) :
                 i > Len(key) => Numbered(key, n)[i] \in {Mark, "1"}
  BY BaseOfNumbered
<1>2. Len(key) \in Nat /\ Len(Numbered(key, n)) \in Nat
  BY <1>1 DEF Keys
<1>3. \A i \in 1..Len(key) : key[i] # Dot
  BY InToSet
<1>4. ASSUME NEW i \in 1..Len(Numbered(key, n)) PROVE Numbered(key, n)[i] # Dot
  <2>1. i \in 1..Len(key) \/ i > Len(key)
    BY <1>2
  <2> QED
    BY <1>1, <1>3, <2>1, ThePieces
<1> QED
  BY <1>1, <1>4, InToSet

LEMMA NumberedNotEmpty ==
    ASSUME NEW key \in Keys, Mark \notin ToSet(key), NEW n \in Nat \ {0}, key # <<>>
    PROVE  Numbered(key, n) # <<>>
<1>1. Len(Numbered(key, n)) = Len(key) + (IF n = 1 THEN 0 ELSE n + 1)
  BY BaseOfNumbered
<1>2. Len(key) \in Nat /\ Len(key) # 0
  BY DEF Keys
<1>3. Len(Numbered(key, n)) # 0
  BY <1>1, <1>2
<1> QED
  BY <1>3

LEMMA PlainSegment ==
    ASSUME Tree, PlainDoc, NEW q \in Near, q # <<>>
    PROVE  SegName(q) \in Keys /\ SegName(q) # <<>> /\ Dot \notin ToSet(SegName(q))
<1>1. /\ doc[q].key \in Keys /\ Mark \notin ToSet(doc[q].key) /\ Dot \notin ToSet(doc[q].key)
      /\ doc[q].key # <<>> /\ Nth(q) \in Nat \ {0}
  BY PlainKey
<1> QED
  BY <1>1, NumberedHasNoDot, NumberedNotEmpty DEF SegName

\* What stands after the last dot tells two names apart.
LEMMA DottedIs ==
    ASSUME NEW a \in Keys, NEW s \in Keys, a # <<>>
    PROVE  /\ Dotted(a, s) \in Keys /\ Len(Dotted(a, s)) = Len(a) + 1 + Len(s)
           /\ \A i \in 1..Len(a) : Dotted(a, s)[i] = a[i]
           /\ Dotted(a, s)[Len(a) + 1] = Dot
           /\ \A i \in 1..Len(s) : Dotted(a, s)[Len(a) + 1 + i] = s[i]
<1> DEFINE first == a \o <<".">>
<1>1. Dotted(a, s) = first \o s
  BY DEF Dotted
<1>2. first \in Keys /\ Len(first) = Len(a) + 1 /\ (\A i \in 1..Len(a) : first[i] = a[i])
      /\ first[Len(a) + 1] = Dot
  <2>1. "." \in Pieces
    BY ThePieces DEF Dot
  <2> QED
    BY <2>1, OneMore DEF Dot
<1> HIDE DEF first
<1>3. /\ first \o s \in Keys /\ Len(first \o s) = Len(first) + Len(s)
      /\ \A i \in 1..Len(first) : (first \o s)[i] = first[i]
      /\ \A i \in 1..Len(s) : (first \o s)[Len(first) + i] = s[i]
  BY <1>2, TwoKeys
<1>4. Len(a) \in Nat
  BY DEF Keys
<1>5. \A i \in 1..Len(a) + 1 : i \in 1..Len(first)
  BY <1>2
<1> QED
  BY <1>1, <1>2, <1>3, <1>4, <1>5

LEMMA LastDot ==
    ASSUME NEW a \in Keys, NEW s \in Keys, NEW b \in Keys, NEW t \in Keys, a # <<>>, b # <<>>,
           Dot \notin ToSet(s), Dotted(a, s) = Dotted(b, t)
    PROVE  ~(Len(a) < Len(b))
<1>1. Len(a) \in Nat /\ Len(b) \in Nat /\ Len(s) \in Nat /\ Len(t) \in Nat
  BY DEF Keys
<1>2. SUFFICES ASSUME Len(a) < Len(b) PROVE FALSE
  OBVIOUS
<1>3. Len(a) + 1 + Len(s) = Len(b) + 1 + Len(t)
  <2>1. Len(Dotted(a, s)) = Len(a) + 1 + Len(s)
    BY DottedIs
  <2>2. Len(Dotted(b, t)) = Len(b) + 1 + Len(t)
    BY DottedIs
  <2> QED
    BY <2>1, <2>2
<1>4. PICK i \in 1..Len(s) : Len(a) + 1 + i = Len(b) + 1
  <2>1. Len(b) - Len(a) \in 1..Len(s) /\ Len(a) + 1 + (Len(b) - Len(a)) = Len(b) + 1
    BY <1>1, <1>2, <1>3
  <2> QED
    BY <2>1
<1>5. Dotted(a, s)[Len(a) + 1 + i] = s[i]
  BY DottedIs
<1>6. Dotted(b, t)[Len(b) + 1] = Dot
  BY DottedIs
<1>7. s[i] = Dot
  BY <1>4, <1>5, <1>6
<1> QED
  BY <1>7, InToSet

LEMMA DottedDiffers ==
    ASSUME NEW a \in Keys, NEW s \in Keys, NEW b \in Keys, NEW t \in Keys,
           Dot \notin ToSet(s), Dot \notin ToSet(t), Dotted(a, s) = Dotted(b, t)
    PROVE  a = b /\ s = t
<1>1. Len(a) \in Nat /\ Len(b) \in Nat /\ Len(s) \in Nat /\ Len(t) \in Nat
  BY DEF Keys
<1>2. ASSUME NEW x \in Keys, NEW u \in Keys, x # <<>> PROVE Dot \in ToSet(Dotted(x, u))
  <2>1. Dotted(x, u) \in Keys /\ Dotted(x, u)[Len(x) + 1] = Dot
        /\ Len(Dotted(x, u)) = Len(x) + 1 + Len(u)
    BY <1>2, DottedIs
  <2>2. Len(x) \in Nat /\ Len(u) \in Nat
    BY DEF Keys
  <2>3. Len(x) + 1 \in 1..Len(Dotted(x, u))
    BY <2>1, <2>2
  <2> QED
    BY <2>1, <2>3, InToSet
<1>3. CASE a = <<>> /\ b = <<>>
  BY <1>3 DEF Dotted
<1>4. CASE a = <<>> /\ b # <<>>
  <2>1. Dotted(a, s) = s
    BY <1>4 DEF Dotted
  <2> QED
    BY <1>2, <1>4, <2>1
<1>5. CASE a # <<>> /\ b = <<>>
  <2>1. Dotted(b, t) = t
    BY <1>5 DEF Dotted
  <2> QED
    BY <1>2, <1>5, <2>1
<1>6. CASE a # <<>> /\ b # <<>>
  <2>1. Len(a) = Len(b)
    <3>1. ~(Len(a) < Len(b))
      BY <1>6, LastDot
    <3>2. ~(Len(b) < Len(a))
      BY <1>6, LastDot
    <3> QED
      BY <1>1, <3>1, <3>2
  <2>2. /\ Len(Dotted(a, s)) = Len(a) + 1 + Len(s)
        /\ \A i \in 1..Len(a) : Dotted(a, s)[i] = a[i]
        /\ \A i \in 1..Len(s) : Dotted(a, s)[Len(a) + 1 + i] = s[i]
    BY <1>6, DottedIs
  <2>3. /\ Len(Dotted(b, t)) = Len(b) + 1 + Len(t)
        /\ \A i \in 1..Len(b) : Dotted(b, t)[i] = b[i]
        /\ \A i \in 1..Len(t) : Dotted(b, t)[Len(b) + 1 + i] = t[i]
    BY <1>6, DottedIs
  <2>4. Len(s) = Len(t)
    BY <1>1, <2>1, <2>2, <2>3
  <2>5. a = b
    BY <2>1, <2>2, <2>3, SeqEqual DEF Keys
  <2>6. s = t
    <3>1. \A i \in 1..Len(s) : s[i] = t[i]
      BY <2>1, <2>2, <2>3, <2>4
    <3> QED
      BY <2>4, <3>1, SeqEqual DEF Keys
  <2> QED
    BY <2>5, <2>6
<1> QED
  BY <1>3, <1>4, <1>5, <1>6

\* A name is its segments, glued.
Segment(p, k) == (IF k = 1 THEN <<>> ELSE <<".">>) \o SegName(SubSeq(p, 1, k))
Segments(p) == [k \in 1..Len(p) |-> Segment(p, k)]

LEMMA NameIsGlued == \A p : FlatName(p) = FlattenSeq(Segments(p))
BY DEF FlatName, Segments, Segment, SegName

LEMMA EachSegment ==
    ASSUME Tree, PlainDoc, NEW q \in Near, NEW k \in 1..Len(q)
    PROVE  /\ SubSeq(q, 1, k) \in Near /\ SubSeq(q, 1, k) # <<>>
           /\ Segment(q, k) \in Keys
           /\ SegName(SubSeq(q, 1, k)) \in Keys
<1>1. q \in DOMAIN doc /\ Len(q) <= MaxDepth + 1 /\ Len(q) \in Nat /\ MaxDepth \in Nat
  BY ANode, JsonAssumption DEF Near
<1> DEFINE r == SubSeq(q, 1, k)
<1>2. r \in DOMAIN doc /\ Len(r) = k
  <2>1. k \in 0..Len(q)
    BY <1>1
  <2> QED
    BY <1>1, <2>1, APrefix, TheWay
<1> HIDE DEF r
<1>3. r \in Near /\ r # <<>>
  <2>1. Len(r) # 0 /\ Len(r) <= MaxDepth + 1
    BY <1>1, <1>2
  <2>2. r # <<>>
    BY <2>1
  <2> QED
    BY <1>2, <2>1, <2>2 DEF Near
<1>4. SegName(r) \in Keys
  BY <1>3, PlainSegment
<1>5. <<".">> \in Keys /\ <<>> \in Keys
  BY ThePieces DEF Keys, Dot
<1>6. <<>> \o SegName(r) \in Keys /\ <<".">> \o SegName(r) \in Keys
  BY <1>4, <1>5, TwoKeys
<1>7. Segment(q, k) \in Keys
  BY <1>6 DEF Segment, r
<1> QED
  BY <1>3, <1>4, <1>7 DEF r

LEMMA SegmentsAre ==
    ASSUME Tree, PlainDoc, NEW q \in Near
    PROVE  Segments(q) \in Seq(Keys) /\ Len(Segments(q)) = Len(q)
<1>1. Len(q) \in Nat
  BY ANode DEF Near
<1>2. \A k \in 1..Len(q) : Segment(q, k) \in Keys
  BY EachSegment
<1>3. Segments(q) \in [1..Len(q) -> Keys]
  BY <1>2 DEF Segments
<1> QED
  BY <1>1, <1>3, IsASeq

LEMMA EmptyName == FlatName(<<>>) = <<>>
<1>1. Segments(<<>>) = <<>>
  BY DEF Segments
<1>2. FlattenSeq(<<>>) = <<>>
  BY DEF FlattenSeq
<1> QED
  BY <1>1, <1>2, NameIsGlued

LEMMA NameAt ==
    ASSUME Tree, PlainDoc, NEW q \in Near, q # <<>>
    PROVE  /\ Front(q) \in Near /\ Front(q) \in Objects
           /\ FlatName(Front(q)) \in Keys
           /\ FlatName(q) = FlatName(Front(q)) \o Segment(q, Len(q))
<1> DEFINE f == Front(q)
           n == Len(f)
<1>1. q \in DOMAIN doc /\ q \in Pos /\ Len(q) <= MaxDepth + 1 /\ MaxDepth \in Nat
  BY ANode, JsonAssumption DEF Near
<1>2. f \in DOMAIN doc /\ f \in Objects /\ f \in Pos /\ Len(f) = Len(q) - 1 /\ Len(q) \in Nat \ {0}
      /\ \A k \in 1..Len(q) - 1 : f[k] = q[k]
  BY <1>1, AParent, OneBack
<1>3. f \in Near
  BY <1>1, <1>2 DEF Near
<1> HIDE DEF f
<1>4. n \in Nat /\ n + 1 = Len(q)
  BY <1>2
<1>5. Segments(f) \in Seq(Keys) /\ Len(Segments(f)) = n
  BY <1>3, SegmentsAre
<1>6. Segments(q) \in Seq(Keys) /\ Len(Segments(q)) = n + 1
  BY <1>4, SegmentsAre
<1> HIDE DEF n
<1>7. ASSUME NEW k \in 1..n PROVE Segments(q)[k] = Segments(f)[k]
  <2>1. k \in 1..Len(q) /\ k \in 1..Len(f)
    BY <1>4 DEF n
  <2>2. SubSeq(q, 1, k) = SubSeq(f, 1, k)
    <3> DEFINE x == SubSeq(q, 1, k)
               y == SubSeq(f, 1, k)
    <3>1. k \in 0..Len(q) /\ k \in 0..Len(f)
      BY <2>1
    <3>2. x \in Pos /\ Len(x) = k /\ \A i \in 1..k : x[i] = q[i]
      BY <1>1, <3>1, InitialPart DEF Pos
    <3>3. y \in Pos /\ Len(y) = k /\ \A i \in 1..k : y[i] = f[i]
      BY <1>2, <3>1, InitialPart DEF Pos
    <3> HIDE DEF x, y
    <3>4. \A i \in 1..k : i \in 1..Len(q) - 1
      BY <1>2, <2>1
    <3>5. \A i \in 1..k : x[i] = y[i]
      BY <1>2, <3>2, <3>3, <3>4
    <3>6. x = y
      BY <3>2, <3>3, <3>5, SeqEqual DEF Pos
    <3> QED
      BY <3>6 DEF x, y
  <2> QED
    BY <2>1, <2>2 DEF Segments, Segment
<1>8. /\ FlattenSeq(Segments(f)) \in Keys
      /\ FlattenSeq(Segments(q)) = FlattenSeq(Segments(f)) \o Segments(q)[n + 1]
  <2>1. n \in Nat /\ Segments(f) \in Seq(Seq(Pieces)) /\ Segments(q) \in Seq(Seq(Pieces))
    BY <1>4, <1>5, <1>6 DEF Keys
  <2> QED
    BY <2>1, <1>5, <1>6, <1>7, GluedOneMore DEF Keys
<1>9. Segments(q)[n + 1] = Segment(q, Len(q))
  BY <1>2, <1>4 DEF Segments
<1> QED
  BY <1>2, <1>3, <1>8, <1>9, NameIsGlued DEF f

\* A name is its object's name and its own, with a dot between them.
LEMMA NameStep ==
    ASSUME Tree, PlainDoc, NEW q \in Near, q # <<>>
    PROVE  /\ FlatName(Front(q)) = <<>> <=> Front(q) = <<>>
           /\ FlatName(q) \in Keys /\ FlatName(q) # <<>>
           /\ FlatName(q) = Dotted(FlatName(Front(q)), SegName(q))
<1> DEFINE f == Front(q)
           s == SegName(q)
<1>1. f \in Near /\ f \in Objects /\ FlatName(f) \in Keys /\ FlatName(q) = FlatName(f) \o Segment(q, Len(q))
  BY NameAt
<1>2. s \in Keys /\ s # <<>> /\ Len(s) \in Nat \ {0}
  <2>1. s \in Keys /\ s # <<>>
    BY PlainSegment
  <2> HIDE DEF s
  <2> QED
    BY <2>1 DEF Keys
<1>3. q \in Pos /\ Len(q) \in Nat \ {0} /\ Len(f) = Len(q) - 1 /\ f \in Pos
  BY ANode, OneBack DEF Near
<1>4. Segment(q, Len(q)) = (IF Len(q) = 1 THEN <<>> ELSE <<".">>) \o s
  <2>1. SubSeq(q, 1, Len(q)) = q
    BY <1>3, SubSeqFull DEF Pos
  <2> QED
    BY <2>1 DEF Segment
<1>5. ASSUME NEW r \in Near, r # <<>> PROVE FlatName(r) \in Keys /\ FlatName(r) # <<>>
  <2>1. FlatName(Front(r)) \in Keys /\ FlatName(r) = FlatName(Front(r)) \o Segment(r, Len(r))
    BY <1>5, NameAt
  <2>2. r \in Pos /\ Len(r) \in Nat \ {0} /\ r \in Near
    BY <1>5, ANode, OneBack DEF Near
  <2>3. Segment(r, Len(r)) = (IF Len(r) = 1 THEN <<>> ELSE <<".">>) \o SegName(r)
    <3>1. SubSeq(r, 1, Len(r)) = r
      BY <2>2, SubSeqFull DEF Pos
    <3> QED
      BY <3>1 DEF Segment
  <2> DEFINE u == SegName(r)
             v == Segment(r, Len(r))
             w == FlatName(Front(r))
  <2>4. u \in Keys /\ u # <<>>
    BY <1>5, PlainSegment
  <2>5. <<".">> \in Keys /\ <<>> \in Keys /\ Len(<<".">>) = 1 /\ Len(<<>>) = 0
    BY ThePieces DEF Keys, Dot
  <2>6. v \in Keys /\ Len(v) # 0
    <3> HIDE DEF u
    <3>1. Len(u) \in Nat /\ Len(u) # 0
      BY <2>4 DEF Keys
    <3>2. <<>> \o u \in Keys /\ Len(<<>> \o u) = 0 + Len(u)
      BY <2>4, <2>5, TwoKeys
    <3>3. <<".">> \o u \in Keys /\ Len(<<".">> \o u) = 1 + Len(u)
      BY <2>4, <2>5, TwoKeys
    <3>4. v = <<>> \o u \/ v = <<".">> \o u
      BY <2>3 DEF u
    <3> DEFINE x == <<>> \o u
               y == <<".">> \o u
    <3>5. x \in Keys /\ Len(x) # 0
      <4> HIDE DEF x, y
      <4> QED
        BY <3>1, <3>2 DEF x
    <3>6. y \in Keys /\ Len(y) # 0
      <4> HIDE DEF x, y
      <4> QED
        BY <3>1, <3>3 DEF y
    <3>7. v = x \/ v = y
      BY <3>4
    <3> HIDE DEF v, x, y
    <3> QED
      BY <3>5, <3>6, <3>7
  <2> HIDE DEF u, v, w
  <2>7. w \in Keys /\ FlatName(r) = w \o v
    BY <2>1 DEF v, w
  <2>8. w \o v \in Keys /\ Len(w \o v) = Len(w) + Len(v) /\ Len(w) \in Nat /\ Len(v) \in Nat
    BY <2>6, <2>7, TwoKeys
  <2>9. Len(w \o v) # 0
    BY <2>6, <2>8
  <2>10. w \o v # <<>>
    BY <2>9
  <2> QED
    BY <2>7, <2>8, <2>10
<1> HIDE DEF f, s
<1>6. FlatName(f) = <<>> <=> f = <<>>
  BY <1>1, <1>5, EmptyName
<1>7. FlatName(q) = Dotted(FlatName(f), s)
  <2>1. CASE f = <<>>
    <3>1. Len(q) = 1
      BY <1>3, <2>1
    <3>2. FlatName(f) = <<>>
      BY <1>6, <2>1
    <3>3. <<>> \o (<<>> \o s) = s
      BY <1>2 DEF Keys
    <3> QED
      BY <1>1, <1>4, <3>1, <3>2, <3>3 DEF Dotted
  <2>2. CASE f # <<>>
    <3>1. Len(q) # 1 /\ FlatName(f) # <<>>
      BY <1>3, <1>6, <2>2 DEF Pos
    <3>2. FlatName(f) \o (<<".">> \o s) = FlatName(f) \o <<".">> \o s
      <4>1. FlatName(f) \in Seq(Pieces) /\ <<".">> \in Seq(Pieces) /\ s \in Seq(Pieces)
        BY <1>1, <1>2, ThePieces DEF Keys, Dot
      <4>2. \A a, b, c \in Seq(Pieces) : (a \o b) \o c = a \o (b \o c)
        BY ConcatAssociative
      <4> QED
        BY <4>1, <4>2, Zenon
    <3> QED
      BY <1>1, <1>4, <3>1, <3>2 DEF Dotted
  <2> QED
    BY <2>1, <2>2
<1> QED
  BY <1>5, <1>6, <1>7 DEF f, s

\* Different positions have different names.
LEMMA NamesDiffer ==
    ASSUME Tree, PlainDoc, NEW p \in Near, NEW q \in Near, FlatName(p) = FlatName(q)
    PROVE  p = q
<1> DEFINE n == Len(p)
           differ == {k \in 0..n : \A a, b \in Near : Len(a) = k /\ FlatName(a) = FlatName(b) => a = b}
<1>1. n \in Nat
  BY ANode DEF Near
<1>2. ASSUME NEW a \in Near PROVE FlatName(a) = <<>> <=> a = <<>>
  <2>1. CASE a = <<>>
    BY <2>1, EmptyName
  <2>2. CASE a # <<>>
    BY <2>2, NameStep
  <2> QED
    BY <2>1, <2>2
<1>3. 0 \in differ
  <2>1. ASSUME NEW a \in Near, NEW b \in Near, Len(a) = 0, FlatName(a) = FlatName(b) PROVE a = b
    <3>1. a \in Pos
      BY ANode DEF Near
    <3>2. a = <<>>
      BY <2>1, <3>1 DEF Pos
    <3> QED
      BY <1>2, <2>1, <3>2
  <2> QED
    BY <1>1, <2>1
<1>4. ASSUME NEW k \in 0..n - 1, k \in differ PROVE k + 1 \in differ
  <2>1. SUFFICES ASSUME NEW a \in Near, NEW b \in Near, Len(a) = k + 1, FlatName(a) = FlatName(b)
                 PROVE  a = b
    BY <1>1
  <2>2. \A x, y \in Near : Len(x) = k /\ FlatName(x) = FlatName(y) => x = y
    BY <1>4
  <2> HIDE DEF differ
  <2>3. a # <<>> /\ b # <<>>
    <3>1. a # <<>>
      BY <2>1
    <3> QED
      BY <1>2, <2>1, <3>1
  <2>4. /\ Front(a) \in Near /\ FlatName(Front(a)) \in Keys
        /\ FlatName(a) = Dotted(FlatName(Front(a)), SegName(a))
        /\ SegName(a) \in Keys /\ Dot \notin ToSet(SegName(a))
    BY <2>3, NameAt, NameStep, PlainSegment
  <2>5. /\ Front(b) \in Near /\ FlatName(Front(b)) \in Keys
        /\ FlatName(b) = Dotted(FlatName(Front(b)), SegName(b))
        /\ SegName(b) \in Keys /\ Dot \notin ToSet(SegName(b))
    BY <2>3, NameAt, NameStep, PlainSegment
  <2>6. FlatName(Front(a)) = FlatName(Front(b)) /\ SegName(a) = SegName(b)
    BY <2>1, <2>4, <2>5, DottedDiffers
  <2>7. a \in Pos /\ b \in Pos /\ a \in DOMAIN doc /\ b \in DOMAIN doc
    BY ANode DEF Near
  <2>8. a = Append(Front(a), Last(a)) /\ b = Append(Front(b), Last(b)) /\ Len(Front(a)) = Len(a) - 1
    BY <2>3, <2>7, OneBack
  <2>9. Front(a) = Front(b)
    BY <2>1, <2>2, <2>4, <2>5, <2>6, <2>8
  <2>10. doc[a].key = doc[b].key /\ Nth(a) = Nth(b)
    <3>1. doc[a].key \in Keys /\ Mark \notin ToSet(doc[a].key) /\ Nth(a) \in Nat \ {0}
      BY <2>3, PlainKey
    <3>2. doc[b].key \in Keys /\ Mark \notin ToSet(doc[b].key) /\ Nth(b) \in Nat \ {0}
      BY <2>3, PlainKey
    <3> QED
      BY <2>6, <3>1, <3>2, NumberedDiffers DEF SegName
  <2> DEFINE f == Front(a)
             i == Last(a)
             j == Last(b)
  <2>11. f \in DOMAIN doc /\ i \in 1..doc[f].size /\ j \in 1..doc[f].size
    BY <2>3, <2>7, <2>9, AParent
  <2>12. a = Append(f, i) /\ b = Append(f, j)
    BY <2>8, <2>9
  <2> HIDE DEF f, i, j
  <2>13. i = j
    BY <2>10, <2>11, <2>12, NthDiffers
  <2> QED
    BY <2>12, <2>13
<1>5. n \in differ
  <2>1. n \in 0..n
    BY <1>1
  <2> HIDE DEF differ
  <2> QED
    BY <1>1, <1>3, <1>4, <2>1, CountingUp
<1> QED
  BY <1>5

-----------------------------------------------------------------------------
(* Dictionaries. *)

Entries(S) == [key : Keys, at : S]

LEMMA AssignIs ==
    ASSUME NEW S, NEW d \in Seq(Entries(S)), NEW m \in Entries(S)
    PROVE  /\ Assign(d, m) \in Seq(Entries(S)) /\ Len(d) \in Nat
           /\ Has(d, m.key) =>
                 /\ Len(Assign(d, m)) = Len(d)
                 /\ \A i \in 1..Len(d) : Assign(d, m)[i] = IF d[i].key = m.key THEN m ELSE d[i]
           /\ ~Has(d, m.key) =>
                 /\ Len(Assign(d, m)) = Len(d) + 1
                 /\ \A i \in 1..Len(d) : Assign(d, m)[i] = d[i] /\ d[i].key # m.key
                 /\ Assign(d, m)[Len(d) + 1] = m
<1>1. Len(d) \in Nat /\ \A i \in 1..Len(d) : d[i] \in Entries(S)
  OBVIOUS
<1>2. CASE Has(d, m.key)
  <2> DEFINE a == [i \in 1..Len(d) |-> IF d[i].key = m.key THEN m ELSE d[i]]
  <2>1. Assign(d, m) = a
    BY <1>2 DEF Assign
  <2>2. a \in [1..Len(d) -> Entries(S)]
    BY <1>1
  <2>3. a \in Seq(Entries(S)) /\ Len(a) = Len(d)
    <3> HIDE DEF a
    <3> QED
      BY <1>1, <2>2, IsASeq
  <2> QED
    BY <1>1, <1>2, <2>1, <2>3
<1>3. CASE ~Has(d, m.key)
  <2>1. Assign(d, m) = Append(d, m)
    BY <1>3 DEF Assign
  <2>2. /\ Append(d, m) \in Seq(Entries(S)) /\ Len(Append(d, m)) = Len(d) + 1
        /\ (\A i \in 1..Len(d) : Append(d, m)[i] = d[i]) /\ Append(d, m)[Len(d) + 1] = m
    BY AppendProperties
  <2>3. \A i \in 1..Len(d) : d[i].key # m.key
    BY <1>3 DEF Has, Index
  <2> QED
    BY <1>1, <1>3, <2>1, <2>2, <2>3
<1> QED
  BY <1>2, <1>3

\* A key that is not there yet comes last.
Longer(d, a, m) ==
    /\ Len(a) = Len(d) + 1 /\ a[Len(d) + 1] = m
    /\ \A i \in 1..Len(d) : a[i] = d[i] /\ d[i].key # m.key

LEMMA AssignNew ==
    ASSUME NEW S, NEW d \in Seq(Entries(S)), NEW m \in Entries(S), ~Has(d, m.key)
    PROVE  Longer(d, Assign(d, m), m)
BY AssignIs DEF Longer

\* In a dictionary that has the key, its value is another one.
Replaced(d, a, m) ==
    Len(a) = Len(d) /\ \A i \in 1..Len(d) : a[i] = IF d[i].key = m.key THEN m ELSE d[i]

LEMMA AssignOld ==
    ASSUME NEW S, NEW d \in Seq(Entries(S)), NEW m \in Entries(S), Has(d, m.key)
    PROVE  Replaced(d, Assign(d, m), m)
BY AssignIs DEF Replaced

\* No key stands twice in a dictionary.
OneEach(d) == \A i, j \in 1..Len(d) : d[i].key = d[j].key => i = j

LEMMA AssignKeepsOneEach ==
    ASSUME NEW S, NEW d \in Seq(Entries(S)), NEW m \in Entries(S), OneEach(d)
    PROVE  OneEach(Assign(d, m))
<1> DEFINE a == Assign(d, m)
           n == Len(d)
<1>0. \A i, j \in 1..n : d[i].key = d[j].key => i = j
  BY DEF OneEach
<1>1. CASE Has(d, m.key)
  <2>1. Len(a) = n /\ n \in Nat /\ \A i \in 1..n : a[i] = IF d[i].key = m.key THEN m ELSE d[i]
    BY <1>1, AssignIs
  <2> HIDE DEF a, n
  <2>2. \A i \in 1..n : a[i].key = d[i].key
    BY <2>1
  <2>3. \A i, j \in 1..Len(a) : a[i].key = a[j].key => i = j
    BY <1>0, <2>1, <2>2
  <2> QED
    BY <2>3 DEF OneEach, a
<1>2. CASE ~Has(d, m.key)
  <2>1. Len(a) = n + 1 /\ n \in Nat /\ a[n + 1] = m /\ \A i \in 1..n : a[i] = d[i] /\ d[i].key # m.key
    BY <1>2, AssignIs
  <2> HIDE DEF a, n
  <2>2. ASSUME NEW i \in 1..n + 1, NEW j \in 1..n + 1, a[i].key = a[j].key PROVE i = j
    <3>1. i \in 1..n \/ i = n + 1
      BY <2>1
    <3>2. j \in 1..n \/ j = n + 1
      BY <2>1
    <3> QED
      BY <1>0, <2>1, <2>2, <3>1, <3>2
  <2> QED
    BY <2>1, <2>2 DEF OneEach, a
<1> QED
  BY <1>1, <1>2

LEMMA NumberedIsKey ==
    ASSUME NEW key \in Keys, NEW n \in Nat \ {0}
    PROVE  Numbered(key, n) \in Keys
<1>1. CASE n = 1
  BY <1>1 DEF Numbered
<1>2. CASE n # 1
  <2> DEFINE ones == [i \in 1..n |-> "1"]
  <2>1. ones \in Keys
    <3>1. ones \in [1..n -> Pieces]
      BY ThePieces
    <3>2. ones \in Seq(Pieces)
      BY <3>1, IsASeq
    <3> QED
      BY <3>2 DEF Keys
  <2>2. key \o <<"#">> \in Keys
    <3>1. "#" \in Pieces
      BY ThePieces DEF Mark
    <3> QED
      BY <3>1, OneMore
  <2>3. Numbered(key, n) = key \o <<"#">> \o ones
    BY <1>2 DEF Numbered
  <2> HIDE DEF ones
  <2> DEFINE first == key \o <<"#">>
  <2>4. first \in Keys
    BY <2>2
  <2> HIDE DEF first
  <2>5. first \o ones \in Keys
    BY <2>1, <2>4, TwoKeys
  <2> QED
    BY <2>3, <2>5 DEF first
<1> QED
  BY <1>1, <1>2

-----------------------------------------------------------------------------
(* The hook. *)

Children(p) == {Append(p, i) : i \in 1..doc[p].size}

\* The keys of an object's members have no "#".
NoMark(p) == \A i \in 1..doc[p].size : Mark \notin ToSet(doc[Append(p, i)].key)

IsDict(p, o, d) ==
    /\ o \in Seq(Entries(Children(p)))
    /\ \A k \in DOMAIN d : d[k] \in Nat \ {0}

\* After r members of an object with no "#" in its keys, each stands under its number, and
\* the numbers are known.
Counted(p, r, key) == CountIn(Members(p), key, r)
Exact(p, o, d, r) ==
    /\ Len(o) = r
    /\ \A i \in 1..r : o[i] = Member(SegName(Append(p, i)), Append(p, i))
    /\ \A k \in Keys : Mark \notin ToSet(k) =>
          Times(d, k) = IF Counted(p, r, k) = 0 THEN 1 ELSE Counted(p, r, k)

LEMMA TimesIs ==
    ASSUME NEW d, NEW key, \A k \in DOMAIN d : d[k] \in Nat \ {0}
    PROVE  Times(d, key) \in Nat \ {0}
BY DEF Times

LEMMA CountedIs ==
    ASSUME Tree, NEW p \in Objects, NEW r \in 0..doc[p].size, NEW key
    PROVE  /\ Counted(p, r, key) \in Nat
           /\ Counted(p, r, key) # 0 <=> \E i \in 1..r : doc[Append(p, i)].key = key
           /\ Counted(p, r, key) # 0 => \E i \in 1..r : doc[Append(p, i)].key = key /\ Nth(Append(p, i)) = 1
           /\ r < doc[p].size =>
                 Counted(p, r + 1, key) = IF doc[Append(p, r + 1)].key = key THEN Counted(p, r, key) + 1
                                          ELSE Counted(p, r, key)
<1> DEFINE q == Members(p)
           n == doc[p].size
           those == {i \in 1..r : q[i].key = key}
<1>1. n \in Nat /\ p \in DOMAIN doc /\ r \in Nat /\ r <= n
  BY ANode DEF Objects
<1>2. \A i \in 1..n : q[i] = doc[Append(p, i)]
  BY DEF Members
<1>3. \A i \in 1..r : i \in 1..n
  BY <1>1
<1>4. Counted(p, r, key) = Cardinality(those)
  BY DEF Counted, CountIn
<1>5. IsFiniteSet(those) /\ Counted(p, r, key) \in Nat
  BY <1>1, CountIsNumber DEF Counted
<1>6. Counted(p, r, key) # 0 <=> those # {}
  BY <1>4, <1>5, FS_EmptySet
<1>7. ASSUME those # {} PROVE \E i \in 1..r : doc[Append(p, i)].key = key /\ Nth(Append(p, i)) = 1
  <2>1. PICK j \in 1..r : q[j].key = key
    BY <1>7
  <2>2. PICK i \in 1..r : q[i].key = q[j].key /\ CountIn(q, q[j].key, i) = 1
    <3> HIDE DEF q
    <3> QED
      BY <1>1, CountStartsAtOne
  <2>3. doc[Append(p, i)].key = key /\ i \in 1..n
    BY <1>2, <1>3, <2>1, <2>2
  <2>4. Nth(Append(p, i)) = CountIn(q, key, i)
    BY <1>1, <2>3, NthIsCount
  <2> QED
    BY <2>1, <2>2, <2>3, <2>4
<1>8. those # {} <=> \E i \in 1..r : doc[Append(p, i)].key = key
  BY <1>2, <1>3
<1>9. ASSUME r < n PROVE Counted(p, r + 1, key) = IF doc[Append(p, r + 1)].key = key THEN Counted(p, r, key) + 1
                                          ELSE Counted(p, r, key)
  <2>1. r + 1 \in 1..n
    BY <1>1, <1>9
  <2>2. q[r + 1] = doc[Append(p, r + 1)]
    BY <1>2, <2>1
  <2> HIDE DEF q
  <2>3. CountIn(q, key, r + 1) = IF q[r + 1].key = key THEN CountIn(q, key, r) + 1 ELSE CountIn(q, key, r)
    BY <1>1, CountOfOneMore
  <2> QED
    BY <2>2, <2>3 DEF Counted, q
<1> QED
  BY <1>5, <1>6, <1>7, <1>8, <1>9

LEMMA NoMarkMember ==
    ASSUME Tree, NEW p \in Objects, NoMark(p), NEW i \in 1..doc[p].size
    PROVE  /\ Append(p, i) \in DOMAIN doc /\ doc[Append(p, i)].key \in Keys
           /\ Mark \notin ToSet(doc[Append(p, i)].key)
           /\ Nth(Append(p, i)) \in Nat \ {0}
           /\ SegName(Append(p, i)) \in Keys
<1>1. p \in DOMAIN doc
  BY DEF Objects
<1>2. Append(p, i) \in DOMAIN doc /\ Nth(Append(p, i)) \in Nat \ {0}
  BY <1>1, AChild, NthIsCount
<1>3. doc[Append(p, i)].key \in Keys
  BY <1>2, ANode
<1>4. SegName(Append(p, i)) \in Keys
  BY <1>2, <1>3, NumberedIsKey DEF SegName
<1> QED
  BY <1>2, <1>3, <1>4 DEF NoMark

\* In an object with no "#" in its keys, only a member is called what it is called.
LEMMA SegNamesDiffer ==
    ASSUME Tree, NEW p \in Objects, NoMark(p), NEW i \in 1..doc[p].size, NEW j \in 1..doc[p].size,
           SegName(Append(p, i)) = SegName(Append(p, j))
    PROVE  i = j
<1> DEFINE a == Append(p, i)
           b == Append(p, j)
<1>1. doc[a].key \in Keys /\ Mark \notin ToSet(doc[a].key) /\ Nth(a) \in Nat \ {0}
  BY NoMarkMember
<1>2. doc[b].key \in Keys /\ Mark \notin ToSet(doc[b].key) /\ Nth(b) \in Nat \ {0}
  BY NoMarkMember
<1> HIDE DEF a, b
<1>3. Numbered(doc[a].key, Nth(a)) = Numbered(doc[b].key, Nth(b))
  BY DEF a, b, SegName
<1>4. doc[a].key = doc[b].key /\ Nth(a) = Nth(b)
  BY <1>1, <1>2, <1>3, NumberedDiffers
<1>5. p \in DOMAIN doc
  BY DEF Objects
<1> QED
  BY <1>4, <1>5, NthDiffers DEF a, b

\* One turn of the hook, on one object.
Turned(o, d, key, at, n) ==
    [out |-> Assign(o, Member(Numbered(key, n), at)), dup |-> IF n = 1 THEN d ELSE Put(d, key, n)]

LEMMA TurnIsDict ==
    ASSUME Tree, NEW p \in Objects, NEW o, NEW d, IsDict(p, o, d),
           NEW i \in 1..doc[p].size, NEW n \in Nat \ {0}
    PROVE  IsDict(p, Turned(o, d, doc[Append(p, i)].key, Append(p, i), n).out,
                     Turned(o, d, doc[Append(p, i)].key, Append(p, i), n).dup)
<1> DEFINE at == Append(p, i)
           key == doc[at].key
           m == Member(Numbered(key, n), at)
<1>1. key \in Keys
  <2>1. p \in DOMAIN doc
    BY DEF Objects
  <2> QED
    BY <2>1, AChild, ANode
<1>2. Numbered(key, n) \in Keys
  BY <1>1, NumberedIsKey
<1>3. at \in Children(p)
  BY DEF Children
<1>4. m \in Entries(Children(p))
  BY <1>2, <1>3 DEF Member, Entries
<1>5. o \in Seq(Entries(Children(p))) /\ \A k \in DOMAIN d : d[k] \in Nat \ {0}
  BY DEF IsDict
<1> HIDE DEF at, key, m
<1>6. Assign(o, m) \in Seq(Entries(Children(p)))
  BY <1>4, <1>5, AssignIs
<1>7. ASSUME NEW k \in DOMAIN Put(d, key, n) PROVE Put(d, key, n)[k] \in Nat \ {0}
  <2>1. k \in DOMAIN d \cup {key}
    BY <1>7 DEF Put
  <2>2. CASE k = key
    BY <2>2 DEF Put
  <2>3. CASE k # key
    <3>1. Put(d, key, n)[k] = d[k] /\ k \in DOMAIN d
      BY <2>1, <2>3 DEF Put
    <3> QED
      BY <1>5, <3>1
  <2> QED
    BY <2>2, <2>3
<1>8. IsDict(p, Assign(o, m), IF n = 1 THEN d ELSE Put(d, key, n))
  BY <1>5, <1>6, <1>7 DEF IsDict
<1> QED
  BY <1>8 DEF Turned, at, key, m

LEMMA TurnIsExact ==
    ASSUME Tree, NEW p \in Objects, NoMark(p), NEW o, NEW d, IsDict(p, o, d),
           NEW r \in 0..doc[p].size - 1, Exact(p, o, d, r), NEW n,
           n = IF Has(o, doc[Append(p, r + 1)].key) THEN Times(d, doc[Append(p, r + 1)].key) + 1 ELSE 1
    PROVE  Exact(p, Turned(o, d, doc[Append(p, r + 1)].key, Append(p, r + 1), n).out,
                    Turned(o, d, doc[Append(p, r + 1)].key, Append(p, r + 1), n).dup, r + 1)
<1> DEFINE at == Append(p, r + 1)
           key == doc[at].key
           c == Counted(p, r, key)
           m == Member(Numbered(key, n), at)
<1>0. p \in DOMAIN doc /\ doc[p].size \in Nat
  BY ANode DEF Objects
<1>1. r \in Nat /\ r + 1 \in 1..doc[p].size /\ r \in 0..doc[p].size /\ r < doc[p].size
      /\ \A i \in 1..r : i \in 1..doc[p].size /\ i # r + 1
  BY <1>0
<1>2. key \in Keys /\ Mark \notin ToSet(key) /\ Nth(at) \in Nat \ {0} /\ SegName(at) \in Keys
  BY <1>1, NoMarkMember
<1>3. /\ c \in Nat
      /\ c # 0 <=> \E i \in 1..r : doc[Append(p, i)].key = key
      /\ c # 0 => \E i \in 1..r : doc[Append(p, i)].key = key /\ Nth(Append(p, i)) = 1
      /\ Counted(p, r + 1, key) = c + 1
  BY <1>1, CountedIs
<1>4. Nth(at) = c + 1
  <2>1. Nth(at) = CountIn(Members(p), key, r + 1)
    BY <1>0, <1>1, NthIsCount
  <2> QED
    BY <1>3, <2>1 DEF Counted
<1>5. /\ Len(o) = r
      /\ \A i \in 1..r : o[i] = Member(SegName(Append(p, i)), Append(p, i))
      /\ \A k \in Keys : Mark \notin ToSet(k) =>
          Times(d, k) = IF Counted(p, r, k) = 0 THEN 1 ELSE Counted(p, r, k)
  BY DEF Exact
<1>6. \A i \in 1..r : o[i].key = SegName(Append(p, i))
  BY <1>5 DEF Member
<1>7. Has(o, key) <=> c # 0
  <2>1. ASSUME Has(o, key) PROVE c # 0
    <3>1. PICK i \in 1..r : SegName(Append(p, i)) = key
      BY <1>5, <1>6, <2>1 DEF Has, Index
    <3> DEFINE b == Append(p, i)
    <3>2. doc[b].key \in Keys /\ Mark \notin ToSet(doc[b].key) /\ Nth(b) \in Nat \ {0}
      BY <1>1, NoMarkMember
    <3>3. Numbered(doc[b].key, Nth(b)) = Numbered(key, 1)
      BY <3>1 DEF SegName, Numbered
    <3> HIDE DEF b, at, key, c
    <3>4. doc[b].key = key
      <4>1. 1 \in Nat \ {0}
        OBVIOUS
      <4> QED
        BY <1>2, <3>2, <3>3, <4>1, NumberedDiffers
    <3> QED
      BY <1>3, <3>4 DEF b
  <2>2. ASSUME c # 0 PROVE Has(o, key)
    <3>1. PICK i \in 1..r : doc[Append(p, i)].key = key /\ Nth(Append(p, i)) = 1
      BY <1>3, <2>2
    <3>2. SegName(Append(p, i)) = key
      BY <3>1 DEF SegName, Numbered
    <3>3. o[i].key = key /\ i \in 1..Len(o)
      BY <1>5, <1>6, <3>2
    <3> QED
      BY <3>3 DEF Has, Index
  <2> QED
    BY <2>1, <2>2
<1>8. n = c + 1
  <2>1. Times(d, key) = IF c = 0 THEN 1 ELSE c
    BY <1>2, <1>5
  <2>2. n = IF Has(o, key) THEN Times(d, key) + 1 ELSE 1
    OBVIOUS
  <2> HIDE DEF c, key
  <2> QED
    BY <1>3, <1>7, <2>1, <2>2
<1>9. Numbered(key, n) = SegName(at)
  BY <1>4, <1>8 DEF SegName
<1>10. m \in Entries(Children(p)) /\ o \in Seq(Entries(Children(p)))
  <2>1. at \in Children(p)
    BY <1>1 DEF Children
  <2>2. Numbered(key, n) \in Keys
    BY <1>2, <1>9
  <2> QED
    BY <2>1, <2>2 DEF Member, Entries, IsDict
<1>11. m.key = SegName(at) /\ m = Member(SegName(at), at)
  BY <1>9 DEF Member
<1> HIDE DEF m
<1>12. ~Has(o, m.key)
  <2>1. SUFFICES ASSUME NEW i \in 1..r, SegName(Append(p, i)) = SegName(Append(p, r + 1)) PROVE FALSE
    BY <1>5, <1>6, <1>11 DEF Has, Index
  <2>2. i = r + 1
    BY <1>1, <2>1, SegNamesDiffer
  <2> QED
    BY <1>1, <2>2
<1>13. /\ Len(Assign(o, m)) = r + 1
       /\ \A i \in 1..r : Assign(o, m)[i] = o[i]
       /\ Assign(o, m)[r + 1] = m
  <2>1. /\ Len(Assign(o, m)) = Len(o) + 1
        /\ \A i \in 1..Len(o) : Assign(o, m)[i] = o[i] /\ o[i].key # m.key
        /\ Assign(o, m)[Len(o) + 1] = m
    <3>1. o \in Seq(Entries(Children(p))) /\ m \in Entries(Children(p))
      BY <1>10
    <3>2. Longer(o, Assign(o, m), m)
      BY <1>12, <3>1, AssignNew, Zenon
    <3> QED
      BY <3>2 DEF Longer
  <2>2. Len(o) = r
    BY <1>5
  <2> QED
    BY <2>1, <2>2
<1>14. ASSUME NEW i \in 1..r + 1 PROVE Assign(o, m)[i] = Member(SegName(Append(p, i)), Append(p, i))
  <2>1. CASE i = r + 1
    BY <1>11, <1>13, <2>1
  <2>2. CASE i # r + 1
    <3>1. i \in 1..r
      BY <1>1, <2>2
    <3> QED
      BY <1>5, <1>13, <3>1
  <2> QED
    BY <2>1, <2>2
<1> DEFINE e == IF n = 1 THEN d ELSE Put(d, key, n)
<1>15. ASSUME NEW k \in Keys, Mark \notin ToSet(k)
       PROVE  Times(e, k) = IF Counted(p, r + 1, k) = 0 THEN 1 ELSE Counted(p, r + 1, k)
  <2>1. Times(d, k) = IF Counted(p, r, k) = 0 THEN 1 ELSE Counted(p, r, k)
    BY <1>5, <1>15
  <2>2. Counted(p, r, k) \in Nat
        /\ Counted(p, r + 1, k) = IF doc[Append(p, r + 1)].key = k THEN Counted(p, r, k) + 1 ELSE Counted(p, r, k)
    BY <1>1, CountedIs
  <2>3. CASE k = key
    <3>1. Counted(p, r + 1, k) = n /\ Counted(p, r, k) = c /\ n \in Nat \ {0}
      BY <1>3, <1>8, <2>3
    <3>2. CASE n = 1
      BY <1>3, <1>8, <2>1, <2>3, <3>1, <3>2
    <3>3. CASE n # 1
      <4>1. key \in DOMAIN Put(d, key, n) /\ Put(d, key, n)[key] = n
        BY DEF Put
      <4>2. Times(e, k) = n
        BY <2>3, <3>3, <4>1 DEF Times
      <4> QED
        BY <3>1, <4>2
    <3> QED
      BY <3>2, <3>3
  <2>4. CASE k # key
    <3>1. Counted(p, r + 1, k) = Counted(p, r, k)
      BY <2>2, <2>4
    <3>2. Times(e, k) = Times(d, k)
      <4>1. DOMAIN Put(d, key, n) = DOMAIN d \cup {key} /\ \A j \in DOMAIN d : j # key => Put(d, key, n)[j] = d[j]
        BY DEF Put
      <4>2. Times(Put(d, key, n), k) = Times(d, k)
        BY <2>4, <4>1 DEF Times
      <4> QED
        BY <4>2
    <3> QED
      BY <2>1, <3>1, <3>2
  <2> QED
    BY <2>3, <2>4
<1> HIDE DEF e
<1>16. Exact(p, Assign(o, m), e, r + 1)
  BY <1>13, <1>14, <1>15 DEF Exact
<1> QED
  BY <1>16 DEF Turned, e, m, key, at

-----------------------------------------------------------------------------
(* What says only something of the document stays. *)

LEMMA SetsStay == doc' = doc =>
    /\ Objects' = Objects /\ Leaves' = Leaves /\ Near' = Near /\ (PlainDoc' <=> PlainDoc) /\ (Tree' <=> Tree)
    /\ \A p : Children(p)' = Children(p) /\ (NoMark(p)' <=> NoMark(p)) /\ FlatName(p)' = FlatName(p)
BY DEF Objects, Leaves, Near, PlainDoc, Tree, Children, NoMark, FlatName, Nth

-----------------------------------------------------------------------------
(* The inductive invariant: the shape of every variable, and that the      *)
(* hook's dictionaries hold an object's members under their numbers.       *)

Loading ==
    /\ DOMAIN read = Objects /\ DOMAIN out = Objects /\ DOMAIN dup = Objects
    /\ \A p \in Objects : read[p] \in 0..doc[p].size /\ IsDict(p, out[p], dup[p])

Numbers == \A p \in Objects : NoMark(p) => Exact(p, out[p], dup[p], read[p])

LEMMA LoadingStays == doc' = doc /\ UNCHANGED loading => (Loading' <=> Loading) /\ (Numbers' <=> Numbers)
BY DEF Loading, Numbers, loading, Exact, IsDict, Children, SegName, Nth, Counted, CountIn, Members, Objects, NoMark

Stages ==
    /\ doc \in Documents
    /\ stage \in {"text", "flatten", "map", "parsed", "failed"}
    /\ stage \in {"text", "failed"} => flat = <<>>
    /\ stage = "flatten" <=> calls # <<>>
    /\ stage # "text" => Open = {}
    /\ stage \in {"flatten", "map", "parsed"} => DOMAIN doc # {}
    /\ mapped \in 0..Len(flat)
    /\ stage \notin {"map", "parsed"} => mapped = 0
    /\ stage = "parsed" => mapped = Len(flat)

ACall == [of : Objects, next : Nat \ {0}, prefix : Keys]

\* The calls that have not returned are nested, one level of the document each.
Calling ==
    /\ calls \in Seq(ACall)
    /\ Len(calls) <= MaxDepth + 1
    /\ \A k \in 1..Len(calls) : Len(calls[k].of) = k - 1

\* The flat dictionary has one entry for a key, and its values are leaves.
Flattened == flat \in Seq(Entries(Leaves)) /\ OneEach(flat)

Shape == Stages /\ Loading /\ Numbers /\ Calling /\ Flattened

LEMMA TheTree == Stages => Tree
BY JsonAssumption DEF Stages, Tree

LEMMA ShapeAtFirst == Init => Shape
<1> SUFFICES ASSUME Init PROVE Shape
  OBVIOUS
<1>1. doc \in Documents /\ stage = "text" /\ calls = <<>> /\ flat = <<>> /\ mapped = 0
      /\ out = [p \in Objects |-> <<>>] /\ dup = [p \in Objects |-> <<>>] /\ read = [p \in Objects |-> 0]
  BY DEF Init
<1>2. Stages
  BY <1>1 DEF Stages
<1>3. Tree
  BY <1>2, TheTree
<1>4. Calling
  BY <1>1, JsonAssumption DEF Calling
<1>5. Flattened
  BY <1>1 DEF Flattened, OneEach
<1>6. ASSUME NEW p \in Objects
      PROVE  /\ read[p] = 0 /\ out[p] = <<>> /\ dup[p] = <<>> /\ doc[p].size \in Nat /\ DOMAIN dup[p] = {}
  BY <1>1, <1>3, ANode DEF Objects
<1>7. Loading
  <2>1. ASSUME NEW p \in Objects PROVE read[p] \in 0..doc[p].size /\ IsDict(p, out[p], dup[p])
    <3>1. read[p] \in 0..doc[p].size
      BY <1>6
    <3>2. out[p] \in Seq(Entries(Children(p)))
      <4>1. \A S : <<>> \in Seq(S)
        OBVIOUS
      <4>2. out[p] = <<>>
        BY <1>6
      <4> QED
        BY <4>1, <4>2, Zenon
    <3>3. \A k \in DOMAIN dup[p] : dup[p][k] \in Nat \ {0}
      BY <1>6
    <3> QED
      BY <3>1, <3>2, <3>3 DEF IsDict
  <2> QED
    BY <1>1, <2>1 DEF Loading
<1>8. Numbers
  <2> SUFFICES ASSUME NEW p \in Objects PROVE Exact(p, <<>>, <<>>, 0)
    BY <1>6 DEF Numbers
  <2>1. doc[p].size \in Nat
    BY <1>6
  <2>2. ASSUME NEW k PROVE Counted(p, 0, k) = 0
    <3>1. 0 \in 0..doc[p].size
      BY <2>1
    <3>2. ~ \E i \in 1..0 : doc[Append(p, i)].key = k
      OBVIOUS
    <3> QED
      BY <1>3, <3>1, <3>2, CountedIs
  <2>3. \A k : Times(<<>>, k) = 1
    BY DEF Times
  <2> QED
    BY <2>2, <2>3 DEF Exact
<1> QED
  BY <1>2, <1>4, <1>5, <1>7, <1>8 DEF Shape

\* What one turn of the hook does, for the object it is at.
HookAt(p) ==
    LET at == Append(p, read[p] + 1)
        n == Occurrence(p, doc[at].key)
        turned == Turned(out[p], dup[p], doc[at].key, at, n)
    IN  /\ p \in Objects /\ read[p] < doc[p].size
        /\ out' = [out EXCEPT ![p] = turned.out]
        /\ dup' = [dup EXCEPT ![p] = turned.dup]
        /\ read' = [read EXCEPT ![p] = read[p] + 1]

LEMMA HookIsAt == Hook => stage = "text" /\ (\E p : HookAt(p)) /\ UNCHANGED <<doc, stage, calls, flat, mapped, layers>>
BY DEF Hook, HookAt, Turned, Open

LEMMA HookShape ==
    ASSUME Shape, Hook
    PROVE  Shape'
<1>0. Tree /\ Stages /\ Loading /\ Numbers /\ Calling /\ Flattened
  BY TheTree DEF Shape
<1>1. doc' = doc /\ stage' = stage /\ calls' = calls /\ flat' = flat /\ mapped' = mapped /\ stage = "text"
  BY HookIsAt
<1>2. PICK p : HookAt(p)
  BY HookIsAt
<1> DEFINE at == Append(p, read[p] + 1)
           key == doc[at].key
           n == Occurrence(p, key)
           turned == Turned(out[p], dup[p], key, at, n)
<1>3. /\ p \in Objects /\ read[p] < doc[p].size
      /\ out' = [out EXCEPT ![p] = turned.out]
      /\ dup' = [dup EXCEPT ![p] = turned.dup]
      /\ read' = [read EXCEPT ![p] = read[p] + 1]
  BY <1>2 DEF HookAt
<1>4. /\ DOMAIN read = Objects /\ DOMAIN out = Objects /\ DOMAIN dup = Objects
      /\ \A q \in Objects : read[q] \in 0..doc[q].size /\ IsDict(q, out[q], dup[q])
      /\ doc[p].size \in Nat /\ read[p] + 1 \in 1..doc[p].size /\ read[p] \in 0..doc[p].size - 1
  <2>1. p \in DOMAIN doc
    BY <1>3 DEF Objects
  <2>2. doc[p].size \in Nat
    BY <1>0, <2>1, ANode
  <2> QED
    BY <1>0, <1>3, <2>2 DEF Loading
<1>5. n \in Nat \ {0} /\ n = IF Has(out[p], key) THEN Times(dup[p], key) + 1 ELSE 1
  <2>1. n = IF Has(out[p], key) THEN Times(dup[p], key) + 1 ELSE 1
    BY DEF Occurrence
  <2>2. Times(dup[p], key) \in Nat \ {0}
    BY <1>3, <1>4, TimesIs DEF IsDict
  <2> QED
    BY <2>1, <2>2
<1> HIDE DEF n
<1>6. /\ DOMAIN read' = Objects /\ DOMAIN out' = Objects /\ DOMAIN dup' = Objects
      /\ out'[p] = turned.out /\ dup'[p] = turned.dup /\ read'[p] = read[p] + 1
      /\ \A q \in Objects : q # p => out'[q] = out[q] /\ dup'[q] = dup[q] /\ read'[q] = read[q]
  <2> HIDE DEF turned
  <2> QED
    BY <1>3, <1>4
<1>7. Loading'
  <2>1. IsDict(p, turned.out, turned.dup)
    BY <1>0, <1>3, <1>4, <1>5, TurnIsDict
  <2> HIDE DEF turned
  <2>2. ASSUME NEW q \in Objects PROVE read'[q] \in 0..doc[q].size /\ IsDict(q, out'[q], dup'[q])
    BY <1>4, <1>6, <2>1
  <2>3. Objects' = Objects
    BY <1>1, SetsStay
  <2>4. \A q \in Objects : IsDict(q, out[q], dup[q])'
    BY <1>1, <2>2 DEF IsDict, Children
  <2>5. \A q \in Objects : read'[q] \in 0..doc'[q].size
    BY <1>1, <2>2
  <2> QED
    BY <1>6, <2>3, <2>4, <2>5 DEF Loading
<1>8. Numbers'
  <2>1. ASSUME NoMark(p) PROVE Exact(p, turned.out, turned.dup, read[p] + 1)
    <3>1. Exact(p, out[p], dup[p], read[p])
      BY <1>0, <1>3, <2>1 DEF Numbers
    <3> QED
      BY <1>0, <1>3, <1>4, <1>5, <2>1, <3>1, TurnIsExact
  <2> HIDE DEF turned
  <2>2. ASSUME NEW q \in Objects, NoMark(q) PROVE Exact(q, out'[q], dup'[q], read'[q])
    <3>1. CASE q = p
      BY <1>6, <2>1, <2>2, <3>1
    <3>2. CASE q # p
      <4>1. Exact(q, out[q], dup[q], read[q])
        BY <1>0, <2>2 DEF Numbers
      <4> QED
        BY <1>6, <3>2, <4>1
    <3> QED
      BY <3>1, <3>2
  <2> QED
    BY <1>1, <2>2 DEF Numbers, Exact, SegName, Nth, Counted, CountIn, Members, Objects, NoMark
<1>9. Stages'
  BY <1>0, <1>1 DEF Stages
<1>10. Calling' /\ Flattened'
  BY <1>0, <1>1, SetsStay DEF Calling, Flattened, ACall, Entries, Objects, Leaves, OneEach
<1> QED
  BY <1>7, <1>8, <1>9, <1>10 DEF Shape

-----------------------------------------------------------------------------
(* The calls of _flatten. *)

LEMMA TheLastCall ==
    ASSUME Calling, calls # <<>>
    PROVE  /\ Len(calls) \in 1..MaxDepth + 1
           /\ Last(calls) = calls[Len(calls)] /\ Last(calls) \in ACall
           /\ Front(calls) \in Seq(ACall) /\ Len(Front(calls)) = Len(calls) - 1
           /\ \A k \in 1..Len(calls) - 1 : Front(calls)[k] = calls[k]
<1>1. calls \in Seq(ACall) /\ Len(calls) <= MaxDepth + 1 /\ MaxDepth \in Nat
  BY JsonAssumption DEF Calling
<1>2. Len(calls) \in Nat \ {0}
  BY <1>1
<1>3. Last(calls) = calls[Len(calls)]
  BY DEF Last
<1>4. calls[Len(calls)] \in ACall
  BY <1>1, <1>2
<1> DEFINE n == Len(calls) - 1
<1>5. n \in 0..Len(calls) /\ Front(calls) = SubSeq(calls, 1, n)
  BY <1>2 DEF Front
<1> HIDE DEF n
<1>6. SubSeq(calls, 1, n) \in Seq(ACall) /\ Len(SubSeq(calls, 1, n)) = n
      /\ \A i \in 1..n : SubSeq(calls, 1, n)[i] = calls[i]
  BY <1>1, <1>5, InitialPart
<1> QED
  BY <1>1, <1>2, <1>3, <1>4, <1>5, <1>6 DEF n

\* The calls after one member: the last one is a member further.
OneOn(n, after) ==
    \A k \in 1..n : /\ after[k].of = calls[k].of /\ after[k].prefix = calls[k].prefix
                    /\ after[k].next = IF k = n THEN calls[k].next + 1 ELSE calls[k].next

LEMMA TurnedCalls ==
    ASSUME Calling, calls # <<>>, NEW after,
           after = Append(Front(calls), [Last(calls) EXCEPT !.next = @ + 1])
    PROVE  after \in Seq(ACall) /\ Len(after) = Len(calls) /\ OneOn(Len(calls), after)
<1> DEFINE n == Len(calls)
           f == Front(calls)
           c == Last(calls)
           d == [c EXCEPT !.next = @ + 1]
<1>1. /\ n \in Nat \ {0} /\ c = calls[n] /\ c \in ACall /\ f \in Seq(ACall) /\ Len(f) = n - 1
      /\ \A k \in 1..n - 1 : f[k] = calls[k]
  BY TheLastCall
<1> HIDE DEF n, f, c
<1>2. d \in ACall /\ d.of = c.of /\ d.prefix = c.prefix /\ d.next = c.next + 1
  <2>1. c.of \in Objects /\ c.next \in Nat \ {0} /\ c.prefix \in Keys
    BY <1>1 DEF ACall
  <2>2. d = [of |-> c.of, next |-> c.next + 1, prefix |-> c.prefix]
    BY <1>1 DEF ACall
  <2>3. c.next + 1 \in Nat \ {0}
    BY <2>1
  <2> HIDE DEF d
  <2> QED
    BY <2>1, <2>2, <2>3 DEF ACall
<1>3. after = Append(f, d)
  BY DEF f, c
<1> HIDE DEF d
<1>4. /\ Append(f, d) \in Seq(ACall) /\ Len(Append(f, d)) = Len(f) + 1
      /\ (\A k \in 1..Len(f) : Append(f, d)[k] = f[k]) /\ Append(f, d)[Len(f) + 1] = d
  BY <1>1, <1>2, AppendProperties
<1>5. Len(f) + 1 = n
  BY <1>1
<1>6. after \in Seq(ACall) /\ Len(after) = n /\ after[n] = d /\ \A k \in 1..n - 1 : after[k] = calls[k]
  BY <1>1, <1>3, <1>4, <1>5
<1>7. ASSUME NEW k \in 1..n
      PROVE  /\ after[k].of = calls[k].of /\ after[k].prefix = calls[k].prefix
             /\ after[k].next = IF k = n THEN calls[k].next + 1 ELSE calls[k].next
  <2>1. CASE k = n
    BY <1>1, <1>2, <1>6, <2>1
  <2>2. CASE k # n
    <3>1. k \in 1..n - 1
      BY <1>1, <2>2
    <3> QED
      BY <1>6, <2>2, <3>1
  <2> QED
    BY <2>1, <2>2
<1> QED
  BY <1>6, <1>7 DEF OneOn, n

\* What one member does to the calls and to the flat dictionary.
MemberDone(n, c, m, key) ==
    /\ n = Len(calls) /\ n \in 1..MaxDepth + 1
    /\ c = calls[n] /\ c \in ACall /\ Len(c.of) = n - 1 /\ c.next \in 1..Len(out[c.of])
    /\ m = out[c.of][c.next] /\ m \in Entries(Children(c.of)) /\ m.at \in DOMAIN doc /\ Len(m.at) = n
    /\ key = Dotted(c.prefix, m.key) /\ key \in Keys

Pushed(n, m, key) ==
    /\ m.at \in Objects /\ n <= MaxDepth
    /\ calls' \in Seq(ACall) /\ Len(calls') = n + 1 /\ OneOn(n, calls')
    /\ calls'[n + 1] = Call(m.at, key)
    /\ flat' = flat

Kept(n, m, key) ==
    /\ ~(m.at \in Objects /\ n <= MaxDepth)
    /\ calls' \in Seq(ACall) /\ Len(calls') = n /\ OneOn(n, calls')
    /\ flat' = Assign(flat, Member(key, m.at))
    /\ Member(key, m.at) \in Entries(Leaves)

LEMMA DottedIsKey ==
    ASSUME NEW a \in Keys, NEW s \in Keys
    PROVE  Dotted(a, s) \in Keys
<1>1. CASE a = <<>>
  BY <1>1 DEF Dotted
<1>2. CASE a # <<>>
  BY <1>2, DottedIs
<1> QED
  BY <1>1, <1>2

LEMMA MemberStep ==
    ASSUME Shape, FlattenMember
    PROVE  \E n, c, m, key : MemberDone(n, c, m, key) /\ (Pushed(n, m, key) \/ Kept(n, m, key))
<1> DEFINE n == Len(calls)
           c == Last(calls)
           m == out[c.of][c.next]
           key == Dotted(c.prefix, m.key)
           turned == Append(Front(calls), [c EXCEPT !.next = @ + 1])
<1>0. Tree /\ Stages /\ Loading /\ Calling
  BY TheTree DEF Shape
<1>1. /\ stage = "flatten" /\ c.next <= Len(out[c.of])
      /\ IF m.at \in Objects /\ Len(calls) <= MaxDepth
         THEN calls' = Append(turned, Call(m.at, key)) /\ UNCHANGED flat
         ELSE calls' = turned /\ flat' = Assign(flat, Member(key, m.at))
  BY DEF FlattenMember
<1>2. calls # <<>>
  BY <1>0, <1>1 DEF Stages
<1>3. n \in 1..MaxDepth + 1 /\ c = calls[n] /\ c \in ACall /\ MaxDepth \in Nat
  BY <1>0, <1>2, TheLastCall, JsonAssumption
<1>4. turned \in Seq(ACall) /\ Len(turned) = n /\ OneOn(n, turned)
  BY <1>0, <1>2, TurnedCalls
<1>5. Len(c.of) = n - 1
  BY <1>0, <1>3 DEF Calling
<1> HIDE DEF n, c, turned
<1>6. c.of \in Objects /\ c.next \in Nat \ {0} /\ c.prefix \in Keys /\ c.of \in DOMAIN doc
  BY <1>3 DEF ACall, Objects
<1>7. out[c.of] \in Seq(Entries(Children(c.of)))
  BY <1>0, <1>6 DEF Loading, IsDict
<1>8. c.next \in 1..Len(out[c.of])
  BY <1>1, <1>6, <1>7
<1>9. m \in Entries(Children(c.of))
  BY <1>7, <1>8
<1> HIDE DEF m
<1>10. m.key \in Keys /\ m.at \in Children(c.of)
  BY <1>9 DEF Entries
<1>11. PICK i \in 1..doc[c.of].size : m.at = Append(c.of, i)
  BY <1>10 DEF Children
<1>12. m.at \in DOMAIN doc /\ Len(m.at) = n
  <2>1. Append(c.of, i) \in DOMAIN doc /\ i \in Nat \ {0} /\ c.of \in Pos
    BY <1>0, <1>6, AChild, ANode
  <2>2. Len(Append(c.of, i)) = Len(c.of) + 1
    BY <2>1, OneFurther
  <2>3. Len(c.of) + 1 = n
    BY <1>3, <1>5
  <2> QED
    BY <1>11, <2>1, <2>2, <2>3
<1>13. key \in Keys
  BY <1>6, <1>10, DottedIsKey
<1>14. MemberDone(n, c, m, key)
  BY <1>3, <1>5, <1>8, <1>9, <1>12, <1>13 DEF MemberDone, m, n
<1> HIDE DEF key
<1>15. CASE m.at \in Objects /\ n <= MaxDepth
  <2> DEFINE call == Call(m.at, key)
  <2>1. calls' = Append(turned, call) /\ flat' = flat
    BY <1>1, <1>15 DEF n
  <2>2. call \in ACall
    BY <1>13, <1>15 DEF Call, ACall
  <2> HIDE DEF call
  <2>3. /\ Append(turned, call) \in Seq(ACall) /\ Len(Append(turned, call)) = Len(turned) + 1
        /\ (\A k \in 1..Len(turned) : Append(turned, call)[k] = turned[k])
        /\ Append(turned, call)[Len(turned) + 1] = call
    BY <1>4, <2>2, AppendProperties
  <2>4. OneOn(n, calls')
    BY <1>4, <2>1, <2>3 DEF OneOn
  <2>5. calls' \in Seq(ACall) /\ Len(calls') = n + 1 /\ calls'[n + 1] = call
    BY <1>4, <2>1, <2>3
  <2>6. Pushed(n, m, key)
    BY <1>15, <2>1, <2>4, <2>5 DEF Pushed, call
  <2> QED
    BY <1>14, <2>6
<1>16. CASE ~(m.at \in Objects /\ n <= MaxDepth)
  <2>1. calls' = turned /\ flat' = Assign(flat, Member(key, m.at))
    BY <1>1, <1>16 DEF n
  <2>2. m.at \in Leaves
    <3>1. m.at \notin Objects \/ n = MaxDepth + 1
      BY <1>3, <1>16
    <3>2. n <= MaxDepth + 1
      BY <1>3
    <3> QED
      BY <1>12, <3>1, <3>2 DEF Leaves
  <2>3. Member(key, m.at) \in Entries(Leaves)
    BY <1>13, <2>2 DEF Member, Entries
  <2>4. Kept(n, m, key)
    BY <1>4, <1>16, <2>1, <2>3 DEF Kept
  <2> QED
    BY <1>14, <2>4
<1> QED
  BY <1>15, <1>16

LEMMA CallsTyped ==
    ASSUME doc' = doc, calls' \in Seq(ACall), Len(calls') <= MaxDepth + 1,
           \A k \in 1..Len(calls') : Len(calls'[k].of) = k - 1
    PROVE  Calling'
<1>1. Objects' = Objects
  BY SetsStay
<1>2. ACall' = ACall
  BY <1>1 DEF ACall
<1> QED
  BY <1>2 DEF Calling

LEMMA FlatTyped ==
    ASSUME doc' = doc, flat' \in Seq(Entries(Leaves)), OneEach(flat')
    PROVE  Flattened'
<1>1. Leaves' = Leaves
  BY SetsStay
<1>2. OneEach(flat)'
  BY DEF OneEach
<1> QED
  BY <1>1, <1>2 DEF Flattened, Entries

LEMMA MemberShape ==
    ASSUME Shape, FlattenMember
    PROVE  Shape'
<1>0. Stages /\ Loading /\ Numbers /\ Calling /\ Flattened
  BY DEF Shape
<1>1. doc' = doc /\ stage' = stage /\ UNCHANGED loading /\ mapped' = mapped /\ stage = "flatten"
  BY DEF FlattenMember
<1>2. PICK n, c, m, key : MemberDone(n, c, m, key) /\ (Pushed(n, m, key) \/ Kept(n, m, key))
  BY MemberStep
<1>3. n = Len(calls) /\ n \in 1..MaxDepth + 1 /\ Len(m.at) = n /\ MaxDepth \in Nat
      /\ \A k \in 1..n : Len(calls[k].of) = k - 1
  BY <1>0, <1>2, JsonAssumption DEF MemberDone, Calling
<1>4. Loading' /\ Numbers'
  BY <1>0, <1>1, LoadingStays
<1>5. Calling' /\ calls' # <<>>
  <2>1. CASE Pushed(n, m, key)
    <3>1. /\ calls' \in Seq(ACall) /\ Len(calls') = n + 1 /\ OneOn(n, calls')
          /\ calls'[n + 1] = Call(m.at, key) /\ n <= MaxDepth
      BY <2>1 DEF Pushed
    <3>2. calls'[n + 1].of = m.at
      BY <3>1 DEF Call
    <3>3. ASSUME NEW k \in 1..n + 1 PROVE Len(calls'[k].of) = k - 1
      <4>1. CASE k = n + 1
        BY <1>3, <3>2, <4>1
      <4>2. CASE k # n + 1
        <5>1. k \in 1..n
          BY <1>3, <4>2
        <5> QED
          BY <1>3, <3>1, <5>1 DEF OneOn
      <4> QED
        BY <4>1, <4>2
    <3>4. Len(calls') # 0 /\ n + 1 <= MaxDepth + 1
      BY <1>3, <3>1
    <3>5. calls' # <<>>
      BY <3>4
    <3>6. Len(calls') <= MaxDepth + 1 /\ \A k \in 1..Len(calls') : Len(calls'[k].of) = k - 1
      BY <3>1, <3>3, <3>4
    <3> QED
      BY <1>1, <3>1, <3>5, <3>6, CallsTyped
  <2>2. CASE Kept(n, m, key)
    <3>1. calls' \in Seq(ACall) /\ Len(calls') = n /\ OneOn(n, calls')
      BY <2>2 DEF Kept
    <3>2. \A k \in 1..n : Len(calls'[k].of) = k - 1
      BY <1>3, <3>1 DEF OneOn
    <3>3. Len(calls') # 0
      BY <1>3, <3>1
    <3>4. calls' # <<>>
      BY <3>3
    <3>5. Len(calls') <= MaxDepth + 1 /\ \A k \in 1..Len(calls') : Len(calls'[k].of) = k - 1
      BY <1>3, <3>1, <3>2
    <3> QED
      BY <1>1, <3>1, <3>4, <3>5, CallsTyped
  <2> QED
    BY <1>2, <2>1, <2>2
<1>6. Flattened' /\ Len(flat') \in Nat
  <2>1. flat \in Seq(Entries(Leaves)) /\ OneEach(flat)
    BY <1>0 DEF Flattened
  <2>2. CASE Pushed(n, m, key)
    <3>1. flat' = flat
      BY <2>2 DEF Pushed
    <3>2. flat' \in Seq(Entries(Leaves)) /\ OneEach(flat')
      BY <2>1, <3>1
    <3> QED
      BY <1>1, <3>2, FlatTyped
  <2>3. CASE Kept(n, m, key)
    <3> DEFINE e == Member(key, m.at)
    <3>1. flat' = Assign(flat, e) /\ e \in Entries(Leaves)
      BY <2>3 DEF Kept
    <3> HIDE DEF e
    <3>2. Assign(flat, e) \in Seq(Entries(Leaves)) /\ OneEach(Assign(flat, e))
      BY <2>1, <3>1, AssignIs, AssignKeepsOneEach
    <3>3. flat' \in Seq(Entries(Leaves)) /\ OneEach(flat')
      BY <3>1, <3>2
    <3> QED
      BY <1>1, <3>3, FlatTyped
  <2> QED
    BY <1>2, <2>2, <2>3
<1>7. Stages'
  <2>1. Open' = Open
    BY <1>1 DEF Open, Objects, loading
  <2>2. mapped = 0
    BY <1>0, <1>1 DEF Stages
  <2> QED
    BY <1>0, <1>1, <1>5, <1>6, <2>1, <2>2 DEF Stages
<1> QED
  BY <1>4, <1>5, <1>6, <1>7 DEF Shape

LEMMA ReturnShape ==
    ASSUME Shape, FlattenReturns
    PROVE  /\ Shape' /\ calls # <<>> /\ Len(calls) \in Nat \ {0} /\ Len(calls') = Len(calls) - 1
           /\ \A k \in 1..Len(calls') : calls'[k] = calls[k]
<1>0. Stages /\ Loading /\ Numbers /\ Calling /\ Flattened
  BY DEF Shape
<1>1. /\ doc' = doc /\ UNCHANGED loading /\ mapped' = mapped /\ flat' = flat /\ stage = "flatten"
      /\ calls' = Front(calls) /\ stage' = IF Len(calls) = 1 THEN "map" ELSE stage
  BY DEF FlattenReturns
<1>2. calls # <<>>
  BY <1>0, <1>1 DEF Stages
<1>3. /\ Len(calls) \in 1..MaxDepth + 1 /\ MaxDepth \in Nat
      /\ calls' \in Seq(ACall) /\ Len(calls') = Len(calls) - 1
      /\ \A k \in 1..Len(calls) - 1 : calls'[k] = calls[k]
  BY <1>0, <1>1, <1>2, TheLastCall, JsonAssumption
<1>4. Loading' /\ Numbers'
  BY <1>0, <1>1, LoadingStays
<1>5. Calling'
  <2>1. \A k \in 1..Len(calls) : Len(calls[k].of) = k - 1
    BY <1>0 DEF Calling
  <2>2. \A k \in 1..Len(calls') : Len(calls'[k].of) = k - 1
    <3>1. \A k \in 1..Len(calls) - 1 : k \in 1..Len(calls)
      BY <1>3
    <3>2. \A k \in 1..Len(calls) - 1 : Len(calls'[k].of) = k - 1
      BY <1>3, <2>1, <3>1
    <3> QED
      BY <1>3, <3>2
  <2>3. Len(calls') <= MaxDepth + 1
    BY <1>3
  <2> QED
    BY <1>1, <1>3, <2>2, <2>3, CallsTyped
<1>6. Flattened'
  BY <1>0, <1>1, FlatTyped DEF Flattened
<1>7. Stages'
  <2>1. Open' = Open
    BY <1>1 DEF Open, Objects, loading
  <2>2. mapped = 0 /\ Len(flat) \in Nat
    BY <1>0, <1>1 DEF Stages, Flattened
  <2>3. Len(calls) = 1 <=> calls' = <<>>
    <3>1. Len(calls') = 0 <=> calls' = <<>>
      BY <1>3
    <3> QED
      BY <1>3, <3>1
  <2> QED
    BY <1>0, <1>1, <2>1, <2>2, <2>3 DEF Stages
<1> QED
  BY <1>2, <1>3, <1>4, <1>5, <1>6, <1>7 DEF Shape

LEMMA OtherShape ==
    ASSUME Shape, Invalid \/ Flatten \/ KeepWhole \/ MapMember \/ Parsed \/ UNCHANGED vars
    PROVE  Shape'
<1>0. Stages /\ Loading /\ Numbers /\ Calling /\ Flattened
  BY DEF Shape
<1>1. doc' = doc /\ UNCHANGED loading /\ flat' = flat
  BY DEF Invalid, Flatten, KeepWhole, MapMember, Parsed, vars
<1>2. Loading' /\ Numbers' /\ Flattened'
  BY <1>0, <1>1, LoadingStays, FlatTyped DEF Flattened
<1>3. Open' = Open
  BY <1>1 DEF Open, Objects, loading
<1>4. MaxDepth \in Nat /\ Len(flat) \in Nat
  BY <1>0, JsonAssumption DEF Flattened
<1>5. CASE Flatten
  <2> DEFINE first == Call(<<>>, <<>>)
  <2>1. calls' = <<first>> /\ stage' = "flatten" /\ <<>> \in Objects /\ mapped' = mapped /\ Loaded /\ stage = "text"
    BY <1>5 DEF Flatten, Loaded
  <2>2. first \in ACall /\ Len(first.of) = 0
    BY <2>1 DEF Call, ACall, Keys
  <2> HIDE DEF first
  <2>3. calls' \in Seq(ACall) /\ Len(calls') = 1 /\ calls'[1] = first /\ calls' # <<>>
    BY <2>1, <2>2
  <2>4. Calling'
    <3>1. Len(calls') <= MaxDepth + 1
      BY <1>4, <2>3
    <3>2. \A k \in 1..Len(calls') : Len(calls'[k].of) = k - 1
      BY <2>2, <2>3
    <3> QED
      BY <1>1, <2>3, <3>1, <3>2, CallsTyped
  <2>5. Stages'
    BY <1>0, <1>1, <1>3, <1>4, <2>1, <2>3 DEF Stages, Loaded
  <2> QED
    BY <1>2, <2>4, <2>5 DEF Shape
<1>6. CASE ~Flatten
  <2>1. calls' = calls
    BY <1>6 DEF Invalid, KeepWhole, MapMember, Parsed, vars
  <2>2. Calling'
    BY <1>0, <1>1, <2>1, CallsTyped DEF Calling
  <2>3. Stages'
    <3>1. CASE Invalid
      <4>1. Open = {}
        BY <3>1 DEF Invalid, Open, Objects
      <4> QED
        BY <1>0, <1>1, <1>3, <2>1, <3>1, <4>1 DEF Stages, Invalid
    <3>2. CASE KeepWhole
      BY <1>0, <1>1, <1>3, <1>4, <2>1, <3>2 DEF Stages, KeepWhole, Loaded
    <3>3. CASE MapMember
      <4>1. mapped + 1 \in 0..Len(flat)
        BY <1>0, <1>4, <3>3 DEF Stages, MapMember
      <4> QED
        BY <1>0, <1>1, <1>3, <1>4, <2>1, <3>3, <4>1 DEF Stages, MapMember
    <3>4. CASE Parsed
      BY <1>0, <1>1, <1>3, <1>4, <2>1, <3>4 DEF Stages, Parsed
    <3>5. CASE UNCHANGED vars
      BY <1>0, <1>1, <1>3, <2>1, <3>5 DEF Stages, vars
    <3> QED
      BY <1>6, <3>1, <3>2, <3>3, <3>4, <3>5
  <2> QED
    BY <1>2, <2>2, <2>3 DEF Shape
<1> QED
  BY <1>5, <1>6

LEMMA ShapeStep == Shape /\ [Next]_vars => Shape'
BY HookShape, MemberShape, ReturnShape, OtherShape DEF Next

\* Wherever _parse() is in a document: the hook has loaded each object's members in turn, a
\* call of _flatten is one level below the one that made it and never deeper than the limit,
\* and the flat dictionary has one entry for a key, a leaf.
THEOREM ShapeHolds == Spec => []Shape
BY ShapeAtFirst, ShapeStep, PTL DEF Spec

-----------------------------------------------------------------------------
(* The loop over the flat dictionary. *)

FieldNames == [i \in 1..Len(flat) |-> FieldName(flat[i])]
FieldValues == [i \in 1..Len(flat) |-> FieldValue(flat[i])]

\* What the layers hold of the first members of the flat dictionary.
Mapping ==
    /\ DOMAIN originals = {flat[i].key : i \in 1..mapped}
    /\ \A i \in 1..mapped : originals[flat[i].key] = flat[i].at
    /\ DOMAIN fields = {FieldNames[i] : i \in 1..mapped}
    /\ \A i \in 1..mapped :
          (\A j \in i + 1..mapped : FieldNames[j] # FieldNames[i]) =>
              fields[FieldNames[i]] = FieldValues[i]

LEMMA NoneMapped ==
    ASSUME originals = <<>>, fields = <<>>, mapped = 0
    PROVE  Mapping
BY DEF Mapping

LEMMA FieldsStay ==
    doc' = doc /\ flat' = flat => FieldNames' = FieldNames /\ FieldValues' = FieldValues
BY DEF FieldNames, FieldValues, FieldName, FieldValue, IsScalar, Normalized

LEMMA OneMoreMapped ==
    ASSUME Shape, Mapping, MapMember
    PROVE  Mapping'
<1> DEFINE n == mapped + 1
           m == flat[n]
<1>0. Stages /\ Flattened
  BY DEF Shape
<1>1. /\ doc' = doc /\ flat' = flat /\ mapped' = n
      /\ originals' = Put(originals, m.key, m.at)
      /\ fields' = Put(fields, FieldName(m), FieldValue(m))
      /\ mapped < Len(flat)
  BY DEF MapMember
<1>2. mapped \in Nat /\ Len(flat) \in Nat /\ n \in 1..Len(flat) /\ n = mapped + 1
      /\ \A i \in 1..mapped : i \in 1..Len(flat) /\ i # n
  BY <1>0, <1>1 DEF Stages, Flattened
<1>3. \A i, j \in 1..Len(flat) : flat[i].key = flat[j].key => i = j
  BY <1>0 DEF Flattened, OneEach
<1>4. /\ DOMAIN originals = {flat[i].key : i \in 1..mapped}
      /\ \A i \in 1..mapped : originals[flat[i].key] = flat[i].at
      /\ DOMAIN fields = {FieldNames[i] : i \in 1..mapped}
      /\ \A i \in 1..mapped :
            (\A j \in i + 1..mapped : FieldNames[j] # FieldNames[i]) =>
                fields[FieldNames[i]] = FieldValues[i]
  BY DEF Mapping
<1> HIDE DEF n
<1>5. \A i \in 1..n : i \in 1..mapped \/ i = n
  BY <1>2
<1>6. /\ DOMAIN originals' = DOMAIN originals \cup {m.key} /\ originals'[m.key] = m.at
      /\ \A k \in DOMAIN originals : k # m.key => originals'[k] = originals[k]
  BY <1>1 DEF Put
<1>6a. FieldName(m) = FieldNames[n] /\ FieldValue(m) = FieldValues[n]
  BY <1>2 DEF FieldNames, FieldValues
<1>7. /\ DOMAIN fields' = DOMAIN fields \cup {FieldNames[n]} /\ fields'[FieldNames[n]] = FieldValues[n]
      /\ \A k \in DOMAIN fields : k # FieldNames[n] => fields'[k] = fields[k]
  BY <1>1, <1>6a DEF Put
<1>8. DOMAIN originals' = {flat[i].key : i \in 1..n}
  BY <1>2, <1>4, <1>5, <1>6
<1>9. DOMAIN fields' = {FieldNames[i] : i \in 1..n}
  BY <1>2, <1>4, <1>5, <1>7
<1>10. ASSUME NEW i \in 1..n PROVE originals'[flat[i].key] = flat[i].at
  <2>1. CASE i = n
    BY <1>6, <2>1
  <2>2. CASE i # n
    <3>1. i \in 1..mapped /\ flat[i].key # m.key
      BY <1>2, <1>3, <1>5, <2>2
    <3>2. flat[i].key \in DOMAIN originals /\ originals[flat[i].key] = flat[i].at
      BY <1>4, <3>1
    <3> QED
      BY <1>6, <3>1, <3>2
  <2> QED
    BY <2>1, <2>2
<1>11. ASSUME NEW i \in 1..n, \A j \in i + 1..n : FieldNames[j] # FieldNames[i]
       PROVE  fields'[FieldNames[i]] = FieldValues[i]
  <2>1. CASE i = n
    BY <1>7, <2>1
  <2>2. CASE i # n
    <3>1. i \in 1..mapped
      BY <1>5, <2>2
    <3>2. n \in i + 1..n /\ \A j \in i + 1..mapped : j \in i + 1..n
      BY <1>2, <3>1
    <3>3. FieldNames[n] # FieldNames[i]
      BY <1>11, <3>2
    <3>4. fields[FieldNames[i]] = FieldValues[i] /\ FieldNames[i] \in DOMAIN fields
      BY <1>4, <1>11, <3>1, <3>2
    <3> QED
      BY <1>7, <3>3, <3>4
  <2> QED
    BY <2>1, <2>2
<1> HIDE DEF m
<1>12. FieldNames' = FieldNames /\ FieldValues' = FieldValues /\ flat' = flat /\ mapped' = n
  BY <1>1, FieldsStay
<1> QED
  BY <1>8, <1>9, <1>10, <1>11, <1>12 DEF Mapping

LEMMA MappingStep ==
    ASSUME Shape, Mapping, [Next]_vars
    PROVE  Mapping'
<1>0. Stages
  BY DEF Shape
<1>1. CASE MapMember
  BY <1>1, OneMoreMapped
<1>2. CASE FlattenMember
  <2>1. mapped = 0 /\ mapped' = 0 /\ originals' = originals /\ fields' = fields
    BY <1>0, <1>2 DEF Stages, FlattenMember, layers
  <2>2. DOMAIN originals = {} /\ DOMAIN fields = {}
    <3>1. 1..mapped = {}
      BY <2>1
    <3> QED
      BY <3>1 DEF Mapping
  <2>3. DOMAIN originals' = {} /\ DOMAIN fields' = {} /\ 1..mapped' = {}
    BY <2>1, <2>2
  <2> QED
    BY <2>3 DEF Mapping
<1>3. CASE Invalid \/ Hook \/ Flatten \/ KeepWhole \/ FlattenReturns \/ Parsed \/ UNCHANGED vars
  <2>1. doc' = doc /\ flat' = flat /\ mapped' = mapped /\ originals' = originals /\ fields' = fields
    BY <1>3 DEF Invalid, Hook, Flatten, KeepWhole, FlattenReturns, Parsed, vars, layers
  <2> QED
    BY <2>1, FieldsStay DEF Mapping
<1> QED
  BY <1>1, <1>2, <1>3 DEF Next

LEMMA MappingAtFirst == Init => Mapping
BY NoneMapped DEF Init

\* The loop of _parse() has put every flat member it has passed into the originals, and a
\* field has what the last of them that goes to it gave.
THEOREM MappingHolds == Spec => []Mapping
BY MappingAtFirst, MappingStep, ShapeHolds, PTL DEF Spec

-----------------------------------------------------------------------------
(* The originals of a plain document. *)

\* A position that a call has still to come to.
Pending(q) ==
    \E k \in 1..Len(calls) :
        Len(q) >= k /\ SubSeq(q, 1, k - 1) = calls[k].of /\ q[k] >= calls[k].next

InFlat(q) == \E j \in 1..Len(flat) : flat[j].at = q

Flattens == stage \in {"flatten", "map", "parsed"} /\ <<>> \in Objects

\* A call's prefix and a flat key are what the paths spell, and every leaf is in the flat
\* dictionary or a call has still to come to it.
PathNames ==
    PlainDoc =>
        /\ \A k \in 1..Len(calls) : calls[k].prefix = FlatName(calls[k].of)
        /\ \A j \in 1..Len(flat) : flat[j].key = FlatName(flat[j].at)
        /\ Flattens => \A q \in Leaves : Pending(q) \/ InFlat(q)

LEMMA FlatEntry ==
    ASSUME Shape, NEW j \in 1..Len(flat)
    PROVE  flat[j].key \in Keys /\ flat[j].at \in Leaves /\ flat[j].at \in DOMAIN doc
<1>1. flat \in Seq(Entries(Leaves))
  BY DEF Shape, Flattened
<1>2. flat[j] \in Entries(Leaves)
  BY <1>1
<1>3. flat[j].key \in Keys /\ flat[j].at \in Leaves
  BY <1>2 DEF Entries
<1> QED
  BY <1>3 DEF Leaves

LEMMA ExactMember ==
    ASSUME Shape, stage # "text", NEW n, NEW c, NEW m, NEW key, MemberDone(n, c, m, key), NoMark(c.of)
    PROVE  /\ c.next \in 1..doc[c.of].size
           /\ m = Member(SegName(Append(c.of, c.next)), Append(c.of, c.next))
<1>0. Tree /\ Stages /\ Loading /\ Numbers
  BY TheTree DEF Shape
<1>1. c.of \in Objects /\ c.next \in 1..Len(out[c.of]) /\ m = out[c.of][c.next]
  BY DEF MemberDone, ACall
<1>2. read[c.of] = doc[c.of].size
  <2>1. read[c.of] \in 0..doc[c.of].size /\ doc[c.of].size \in Nat
    BY <1>0, <1>1, ANode DEF Loading, Objects
  <2>2. ~(read[c.of] < doc[c.of].size)
    BY <1>0, <1>1 DEF Stages, Open
  <2> QED
    BY <2>1, <2>2
<1>3. Exact(c.of, out[c.of], dup[c.of], read[c.of])
  BY <1>0, <1>1 DEF Numbers
<1> QED
  BY <1>1, <1>2, <1>3 DEF Exact

LEMMA PlainHasNoMark ==
    ASSUME Tree, PlainDoc, NEW p \in Objects, Len(p) <= MaxDepth
    PROVE  NoMark(p) /\ \A i \in 1..doc[p].size : Append(p, i) \in Near
<1>1. p \in DOMAIN doc /\ p \in Pos /\ Len(p) \in Nat /\ MaxDepth \in Nat
  BY ANode, JsonAssumption DEF Objects
<1>2. ASSUME NEW i \in 1..doc[p].size
      PROVE  Append(p, i) \in Near /\ Mark \notin ToSet(doc[Append(p, i)].key)
  <2>1. Append(p, i) \in DOMAIN doc /\ i \in Nat \ {0}
    BY <1>1, AChild
  <2>2. Len(Append(p, i)) = Len(p) + 1 /\ Append(p, i) # <<>>
    BY <1>1, <2>1, OneFurther
  <2>3. Append(p, i) \in Near
    BY <1>1, <2>1, <2>2 DEF Near
  <2> QED
    BY <2>2, <2>3, PlainKey
<1> QED
  BY <1>2 DEF NoMark

LEMMA PlainMember ==
    ASSUME Shape, PlainDoc, stage # "text", NEW n, NEW c, NEW m, NEW key, MemberDone(n, c, m, key),
           c.prefix = FlatName(c.of)
    PROVE  /\ c.next \in 1..doc[c.of].size /\ m.at = Append(c.of, c.next) /\ m.at \in Near
           /\ key = FlatName(m.at)
<1>0. Tree
  BY TheTree DEF Shape
<1>1. /\ c.of \in Objects /\ Len(c.of) = n - 1 /\ n \in 1..MaxDepth + 1 /\ MaxDepth \in Nat
      /\ key = Dotted(c.prefix, m.key)
  BY JsonAssumption DEF MemberDone, ACall
<1>2. Len(c.of) <= MaxDepth
  BY <1>1
<1>3. NoMark(c.of) /\ \A i \in 1..doc[c.of].size : Append(c.of, i) \in Near
  BY <1>0, <1>1, <1>2, PlainHasNoMark
<1> DEFINE at == Append(c.of, c.next)
<1>4. c.next \in 1..doc[c.of].size /\ m = Member(SegName(at), at)
  BY <1>3, ExactMember
<1>5. at \in Near /\ at # <<>> /\ Front(at) = c.of
  <2>1. c.of \in Pos /\ c.next \in Nat \ {0}
    BY <1>0, <1>1, <1>4, AChild, ANode DEF Objects
  <2> QED
    BY <1>3, <1>4, <2>1, OneFurther
<1> HIDE DEF at
<1>6. FlatName(at) = Dotted(FlatName(c.of), SegName(at))
  BY <1>0, <1>5, NameStep
<1>7. m.key = SegName(at) /\ m.at = at
  BY <1>4 DEF Member
<1> QED
  BY <1>1, <1>4, <1>5, <1>6, <1>7 DEF at

LEMMA PathNamesMember ==
    ASSUME Shape, PathNames, FlattenMember
    PROVE  PathNames'
<1>0. Tree /\ Stages /\ Calling /\ Flattened
  BY TheTree DEF Shape
<1>1. doc' = doc /\ stage' = stage /\ stage = "flatten"
  BY DEF FlattenMember
<1> SUFFICES ASSUME PlainDoc PROVE PathNames'
  BY <1>1, SetsStay DEF PathNames
<1>2. PICK n, c, m, key : MemberDone(n, c, m, key) /\ (Pushed(n, m, key) \/ Kept(n, m, key))
  BY MemberStep
<1>3. /\ n = Len(calls) /\ n \in 1..MaxDepth + 1 /\ c = calls[n] /\ Len(m.at) = n
      /\ c.of \in Objects /\ Len(c.of) = n - 1 /\ MaxDepth \in Nat
  BY <1>2, JsonAssumption DEF MemberDone, ACall
<1>4. /\ \A k \in 1..n : calls[k].prefix = FlatName(calls[k].of)
      /\ \A j \in 1..Len(flat) : flat[j].key = FlatName(flat[j].at)
      /\ Flattens => \A q \in Leaves : Pending(q) \/ InFlat(q)
  BY <1>3 DEF PathNames
<1>5. c.next \in 1..doc[c.of].size /\ m.at = Append(c.of, c.next) /\ m.at \in Near /\ key = FlatName(m.at)
  <2>1. c.prefix = FlatName(c.of) /\ n \in 1..n
    BY <1>3, <1>4
  <2> QED
    BY <1>1, <1>2, <2>1, PlainMember
<1> DEFINE at == m.at
           e == Member(key, at)
<1>6. OneOn(n, calls') /\ Len(calls') >= n /\ Len(calls') \in Nat
  BY <1>2, <1>3 DEF Pushed, Kept
<1>7. \A k \in 1..Len(calls') : calls'[k].prefix = FlatName(calls'[k].of)
  <2>1. \A k \in 1..n : calls'[k].prefix = FlatName(calls'[k].of)
    BY <1>4, <1>6 DEF OneOn
  <2>2. CASE Pushed(n, m, key)
    <3>1. Len(calls') = n + 1 /\ calls'[n + 1].of = at /\ calls'[n + 1].prefix = key
      BY <2>2 DEF Pushed, Call
    <3>2. \A k \in 1..n + 1 : k \in 1..n \/ k = n + 1
      BY <1>3
    <3> QED
      BY <1>5, <2>1, <3>1, <3>2
  <2>3. CASE Kept(n, m, key)
    BY <2>1, <2>3 DEF Kept
  <2> QED
    BY <1>2, <2>2, <2>3
<1>8. /\ \A j \in 1..Len(flat') : flat'[j].key = FlatName(flat'[j].at)
      /\ \A q : InFlat(q) => \E j \in 1..Len(flat') : flat'[j].at = q
      /\ Kept(n, m, key) => \E j \in 1..Len(flat') : flat'[j].at = at
  <2>1. CASE Pushed(n, m, key)
    <3>1. flat' = flat /\ ~Kept(n, m, key)
      BY <2>1 DEF Pushed, Kept
    <3> QED
      BY <1>4, <3>1 DEF InFlat
  <2>2. CASE Kept(n, m, key)
    <3>1. flat' = Assign(flat, e) /\ e \in Entries(Leaves) /\ flat \in Seq(Entries(Leaves))
      BY <1>0, <2>2 DEF Kept, Flattened
    <3>2. e.key = FlatName(at) /\ e.at = at
      BY <1>5 DEF Member
    <3>3. \A j \in 1..Len(flat) : flat[j].at \in Near
      <4>1. \A j \in 1..Len(flat) : flat[j].at \in Leaves
        BY FlatEntry
      <4> QED
        BY <4>1 DEF Leaves, Near
    <3> HIDE DEF e
    <3>4. Len(flat) \in Nat
      BY <3>1
    <3>5. CASE Has(flat, e.key)
      <4>1. Len(flat') = Len(flat) /\ \A i \in 1..Len(flat) : flat'[i] = IF flat[i].key = e.key THEN e ELSE flat[i]
        <5>1. Replaced(flat, flat', e)
          BY <3>1, <3>5, AssignOld
        <5> QED
          BY <5>1 DEF Replaced
      <4>2. ASSUME NEW j \in 1..Len(flat) PROVE flat'[j].at = flat[j].at /\ flat'[j].key = flat[j].key
        <5>1. CASE flat[j].key = e.key
          <6>1. FlatName(flat[j].at) = FlatName(at)
            BY <1>4, <3>2, <5>1
          <6>2. flat[j].at = at
            BY <1>0, <1>5, <3>3, <6>1, NamesDiffer
          <6> QED
            BY <3>2, <4>1, <5>1, <6>2
        <5>2. CASE flat[j].key # e.key
          BY <4>1, <5>2
        <5> QED
          BY <5>1, <5>2
      <4>3. PICK i \in 1..Len(flat) : flat[i].key = e.key
        BY <3>5 DEF Has, Index
      <4>4. flat'[i].at = at
        BY <3>2, <4>1, <4>3
      <4>5. \A j \in 1..Len(flat) : flat'[j].key = FlatName(flat'[j].at)
        BY <1>4, <4>2
      <4> QED
        BY <4>1, <4>2, <4>4, <4>5 DEF InFlat
    <3>6. CASE ~Has(flat, e.key)
      <4>1. Longer(flat, flat', e)
        BY <3>1, <3>6, AssignNew
      <4>2. /\ Len(flat') = Len(flat) + 1 /\ flat'[Len(flat) + 1] = e
            /\ \A i \in 1..Len(flat) : flat'[i] = flat[i]
        BY <4>1 DEF Longer
      <4>3. \A j \in 1..Len(flat') : j \in 1..Len(flat) \/ j = Len(flat) + 1
        BY <3>4, <4>2
      <4>4. Len(flat) + 1 \in 1..Len(flat') /\ \A j \in 1..Len(flat) : j \in 1..Len(flat')
        BY <3>4, <4>2
      <4>5. \A j \in 1..Len(flat') : flat'[j].key = FlatName(flat'[j].at)
        BY <1>4, <3>2, <4>2, <4>3
      <4>6. ASSUME NEW q, InFlat(q) PROVE \E j \in 1..Len(flat') : flat'[j].at = q
        BY <4>2, <4>4, <4>6 DEF InFlat
      <4> QED
        BY <3>2, <4>2, <4>4, <4>5, <4>6
    <3> QED
      BY <3>5, <3>6
  <2> QED
    BY <1>2, <2>1, <2>2
<1> HIDE DEF at, e
<1>9. ASSUME NEW q \in Leaves, Pending(q), ~(Kept(n, m, key) /\ q = m.at)
      PROVE  \E k \in 1..Len(calls') :
                 Len(q) >= k /\ SubSeq(q, 1, k - 1) = calls'[k].of /\ q[k] >= calls'[k].next
  <2>1. PICK k \in 1..n : Len(q) >= k /\ SubSeq(q, 1, k - 1) = calls[k].of /\ q[k] >= calls[k].next
    BY <1>3, <1>9 DEF Pending
  <2>2. k \in 1..Len(calls') /\ calls'[k].of = calls[k].of
        /\ calls'[k].next = IF k = n THEN calls[k].next + 1 ELSE calls[k].next
    BY <1>3, <1>6 DEF OneOn
  <2>3. q \in DOMAIN doc /\ q \in Pos /\ Len(q) \in Nat /\ Len(q) <= MaxDepth + 1
        /\ (q \notin Objects \/ Len(q) = MaxDepth + 1)
    BY <1>0, ANode DEF Leaves
  <2>4. q[k] \in Nat \ {0} /\ c.next \in Nat \ {0}
    <3>1. k \in 1..Len(q)
      BY <1>3, <2>1, <2>3
    <3>2. c.next \in Nat \ {0}
      BY <1>2 DEF MemberDone, ACall
    <3> QED
      BY <2>3, <3>1, <3>2 DEF Pos
  <2>5. CASE k # n
    BY <2>1, <2>2, <2>5
  <2>6. CASE k = n /\ q[n] # c.next
    <3>1. q[n] >= c.next + 1
      BY <1>3, <2>1, <2>4, <2>6
    <3> QED
      BY <1>3, <2>1, <2>2, <2>6, <3>1
  <2>7. CASE k = n /\ q[n] = c.next
    <3>1. n \in 1..Len(q)
      BY <1>3, <2>1, <2>3, <2>7
    <3>2. SubSeq(q, 1, n) = at
      <4>1. SubSeq(q, 1, n) = Append(SubSeq(q, 1, n - 1), q[n])
        BY <1>0, <2>3, <3>1, TheWay
      <4> QED
        BY <1>3, <1>5, <2>1, <2>7, <4>1 DEF at
    <3>3. CASE Pushed(n, m, key)
      <4>1. /\ at \in Objects /\ n <= MaxDepth /\ Len(calls') = n + 1
            /\ calls'[n + 1].of = at /\ calls'[n + 1].next = 1
        BY <3>3 DEF Pushed, Call, at
      <4>2. q # at
        BY <1>3, <2>3, <4>1 DEF at
      <4>3. Len(q) # n
        <5>1. SubSeq(q, 1, Len(q)) = q
          BY <2>3, SubSeqFull DEF Pos
        <5> QED
          BY <3>2, <4>2, <5>1
      <4>4. Len(q) >= n + 1 /\ n + 1 \in 1..Len(q) /\ (n + 1) - 1 = n
        BY <2>3, <3>1, <4>3
      <4>5. q[n + 1] >= 1
        <5>1. q[n + 1] \in Nat \ {0}
          BY <2>3, <4>4 DEF Pos
        <5> QED
          BY <5>1
      <4>6. n + 1 \in 1..Len(calls')
        BY <1>3, <4>1
      <4> QED
        BY <3>2, <4>1, <4>4, <4>5, <4>6
    <3>4. CASE Kept(n, m, key)
      <4>1. ~(at \in Objects /\ n <= MaxDepth)
        BY <3>4 DEF Kept, at
      <4>2. SubSeq(q, 1, Len(q)) = q
        BY <2>3, SubSeqFull DEF Pos
      <4>3. Len(q) # n
        BY <1>9, <3>2, <3>4, <4>2 DEF at
      <4>4. n + 1 \in 1..Len(q) /\ (n + 1) - 1 = n /\ n <= MaxDepth
        BY <1>3, <2>3, <3>1, <4>3
      <4>5. SubSeq(q, 1, n) \in Objects
        BY <1>0, <2>3, <4>4, TheWay
      <4> QED
        BY <3>2, <4>1, <4>4, <4>5
    <3> QED
      BY <1>2, <3>3, <3>4
  <2> QED
    BY <2>5, <2>6, <2>7
<1>10. ASSUME Flattens, NEW q \in Leaves
       PROVE  \/ \E k \in 1..Len(calls') :
                     Len(q) >= k /\ SubSeq(q, 1, k - 1) = calls'[k].of /\ q[k] >= calls'[k].next
              \/ \E j \in 1..Len(flat') : flat'[j].at = q
  <2>1. Pending(q) \/ InFlat(q)
    BY <1>4, <1>10
  <2>2. CASE InFlat(q)
    BY <1>8, <2>2
  <2>3. CASE Pending(q) /\ ~(Kept(n, m, key) /\ q = m.at)
    BY <1>9, <2>3
  <2>4. CASE Kept(n, m, key) /\ q = m.at
    BY <1>8, <2>4 DEF at
  <2> QED
    BY <2>1, <2>2, <2>3, <2>4
<1>11. Leaves' = Leaves /\ (Flattens' <=> Flattens) /\ \A p : FlatName(p)' = FlatName(p)
  BY <1>1, SetsStay DEF Flattens
<1> QED
  BY <1>7, <1>8, <1>10, <1>11 DEF PathNames, Pending, InFlat

LEMMA PathNamesReturn ==
    ASSUME Shape, PathNames, FlattenReturns
    PROVE  PathNames'
<1>0. Tree /\ Stages /\ Loading /\ Numbers /\ Calling
  BY TheTree DEF Shape
<1>1. doc' = doc /\ flat' = flat /\ stage = "flatten" /\ stage' \in {"flatten", "map"}
      /\ Last(calls).next > Len(out[Last(calls).of])
  BY DEF FlattenReturns
<1> DEFINE n == Len(calls)
           c == Last(calls)
<1>2. n \in Nat \ {0} /\ Len(calls') = n - 1 /\ \A k \in 1..Len(calls') : calls'[k] = calls[k]
  BY ReturnShape
<1>3. c = calls[n] /\ c \in ACall /\ n <= MaxDepth + 1 /\ MaxDepth \in Nat
  BY <1>0, ReturnShape, TheLastCall, JsonAssumption
<1>4. c.of \in Objects /\ Len(c.of) = n - 1 /\ c.next \in Nat \ {0}
  <2>1. Len(calls[n].of) = n - 1
    BY <1>0, <1>2 DEF Calling
  <2> QED
    BY <1>3, <2>1 DEF ACall
<1>5. c.next > Len(out[c.of])
  BY <1>1
<1> HIDE DEF n, c
<1> SUFFICES ASSUME PlainDoc PROVE PathNames'
  BY <1>1, SetsStay DEF PathNames
<1>6. /\ \A k \in 1..n : calls[k].prefix = FlatName(calls[k].of)
      /\ \A j \in 1..Len(flat) : flat[j].key = FlatName(flat[j].at)
      /\ Flattens => \A q \in Leaves : Pending(q) \/ InFlat(q)
  BY DEF PathNames, n
<1>7. \A k \in 1..n - 1 : k \in 1..n
  BY <1>2
<1>8. \A k \in 1..Len(calls') : calls'[k].prefix = FlatName(calls'[k].of)
  BY <1>2, <1>6, <1>7
<1>9. Len(out[c.of]) = doc[c.of].size
  <2>1. NoMark(c.of)
    BY <1>0, <1>2, <1>3, <1>4, PlainHasNoMark
  <2>2. Exact(c.of, out[c.of], dup[c.of], read[c.of])
    BY <1>0, <1>4, <2>1 DEF Numbers
  <2>3. read[c.of] \in 0..doc[c.of].size /\ doc[c.of].size \in Nat
    BY <1>0, <1>4, ANode DEF Loading, Objects
  <2>4. ~(read[c.of] < doc[c.of].size)
    BY <1>0, <1>1, <1>4 DEF Stages, Open
  <2> QED
    BY <2>2, <2>3, <2>4 DEF Exact
<1>10. ASSUME NEW q \in Leaves, Pending(q)
       PROVE  \E k \in 1..Len(calls') :
                 Len(q) >= k /\ SubSeq(q, 1, k - 1) = calls'[k].of /\ q[k] >= calls'[k].next
  <2>1. PICK k \in 1..n : Len(q) >= k /\ SubSeq(q, 1, k - 1) = calls[k].of /\ q[k] >= calls[k].next
    BY <1>10 DEF Pending, n
  <2>2. CASE k # n
    <3>1. k \in 1..Len(calls')
      BY <1>2, <2>2
    <3> QED
      BY <1>2, <2>1, <3>1
  <2>3. CASE k = n
    <3>1. q \in DOMAIN doc /\ Len(q) \in Nat
      BY <1>0, ANode DEF Leaves
    <3>2. n \in 1..Len(q) /\ SubSeq(q, 1, n - 1) = c.of /\ q[n] >= c.next
      BY <1>2, <1>3, <2>1, <2>3, <3>1
    <3>3. q[n] \in 1..doc[c.of].size
      BY <1>0, <3>1, <3>2, TheWay
    <3>4. doc[c.of].size \in Nat /\ c.next > doc[c.of].size
      BY <1>0, <1>4, <1>5, <1>9, ANode DEF Objects
    <3> QED
      BY <1>4, <3>2, <3>3, <3>4
  <2> QED
    BY <2>2, <2>3
<1>11. Leaves' = Leaves /\ (Flattens' <=> Flattens) /\ \A p : FlatName(p)' = FlatName(p)
  BY <1>1, SetsStay DEF Flattens
<1> QED
  BY <1>1, <1>6, <1>8, <1>10, <1>11 DEF PathNames, Pending, InFlat

LEMMA PathNamesFlatten ==
    ASSUME Shape, PathNames, Flatten
    PROVE  PathNames'
<1>0. Tree /\ Stages
  BY TheTree DEF Shape
<1>1. doc' = doc /\ flat' = flat /\ calls' = <<Call(<<>>, <<>>)>> /\ flat = <<>> /\ <<>> \in Objects
  BY <1>0 DEF Flatten, Loaded, Stages
<1>2. Len(calls') = 1 /\ calls'[1].of = <<>> /\ calls'[1].prefix = <<>> /\ calls'[1].next = 1
  BY <1>1 DEF Call
<1>3. \A k \in 1..Len(calls') : calls'[k].prefix = FlatName(calls'[k].of)
  BY <1>2, EmptyName
<1>4. ASSUME NEW q \in Leaves
      PROVE  \E k \in 1..Len(calls') :
                 Len(q) >= k /\ SubSeq(q, 1, k - 1) = calls'[k].of /\ q[k] >= calls'[k].next
  <2>1. q \in DOMAIN doc /\ q \in Pos /\ Len(q) \in Nat
    BY <1>0, ANode DEF Leaves
  <2>2. q # <<>>
    <3>1. Len(<<>>) # MaxDepth + 1
      BY JsonAssumption
    <3> QED
      BY <1>1, <3>1 DEF Leaves
  <2>3. Len(q) >= 1 /\ 1 \in 1..Len(q)
    BY <2>1, <2>2 DEF Pos
  <2>4. q[1] \in Nat \ {0}
    BY <2>1, <2>3 DEF Pos
  <2>5. SubSeq(q, 1, 1 - 1) = <<>>
    <3>1. 1 - 1 \in 0..Len(q) /\ 1 - 1 = 0
      BY <2>1
    <3>2. SubSeq(q, 1, 0) \in Pos /\ Len(SubSeq(q, 1, 0)) = 0
      BY <2>1, <3>1, InitialPart DEF Pos
    <3> DEFINE x == SubSeq(q, 1, 0)
    <3>3. x \in Pos /\ Len(x) = 0
      BY <3>2
    <3> HIDE DEF x
    <3>4. x = <<>>
      BY <3>3 DEF Pos
    <3> QED
      BY <3>1, <3>4 DEF x
  <2>6. 1 \in 1..Len(calls') /\ q[1] >= 1
    BY <1>2, <2>4
  <2> QED
    BY <1>2, <2>3, <2>5, <2>6
<1>5. Leaves' = Leaves /\ \A p : FlatName(p)' = FlatName(p)
  BY <1>1, SetsStay
<1>6. \A j \in 1..Len(flat') : flat'[j].key = FlatName(flat'[j].at)
  BY <1>1
<1> QED
  BY <1>3, <1>4, <1>5, <1>6 DEF PathNames, Pending

LEMMA PathNamesOther ==
    ASSUME Shape, PathNames, Invalid \/ Hook \/ KeepWhole \/ MapMember \/ Parsed \/ UNCHANGED vars
    PROVE  PathNames'
<1>0. Stages
  BY DEF Shape
<1>1. doc' = doc /\ flat' = flat /\ calls' = calls
  BY DEF Invalid, Hook, KeepWhole, MapMember, Parsed, vars
<1>2. Flattens' => Flattens
  <2>1. Objects' = Objects
    BY <1>1, SetsStay
  <2>2. CASE Invalid \/ Hook \/ KeepWhole
    BY <2>1, <2>2 DEF Flattens, Invalid, Hook, KeepWhole
  <2>3. CASE MapMember \/ Parsed \/ UNCHANGED vars
    BY <2>1, <2>3 DEF Flattens, MapMember, Parsed, vars
  <2> QED
    BY <2>2, <2>3
<1>3. Leaves' = Leaves /\ (PlainDoc' <=> PlainDoc) /\ \A p : FlatName(p)' = FlatName(p)
  BY <1>1, SetsStay
<1> QED
  BY <1>1, <1>2, <1>3 DEF PathNames, Pending, InFlat

LEMMA PathNamesStep == Shape /\ PathNames /\ [Next]_vars => PathNames'
BY PathNamesMember, PathNamesReturn, PathNamesFlatten, PathNamesOther DEF Next

LEMMA PathNamesAtFirst == Init => PathNames
<1> SUFFICES ASSUME Init PROVE PathNames
  OBVIOUS
<1>1. calls = <<>> /\ flat = <<>> /\ stage = "text"
  BY DEF Init
<1> QED
  BY <1>1 DEF PathNames, Flattens

LEMMA PathNamesSuffice == Shape /\ Mapping /\ PathNames => LeavesAreKept
<1> SUFFICES ASSUME Shape, Mapping, PathNames, stage = "parsed", <<>> \in Objects
             PROVE  /\ \A name \in DOMAIN originals : originals[name] \in Leaves
                    /\ PlainDoc => /\ DOMAIN originals = {FlatName(p) : p \in Leaves}
                                   /\ \A p \in Leaves : originals[FlatName(p)] = p
  BY DEF LeavesAreKept, PlainDoc
<1>1. mapped = Len(flat) /\ calls = <<>> /\ Flattens
  BY DEF Shape, Stages, Flattens
<1>2. /\ DOMAIN originals = {flat[i].key : i \in 1..Len(flat)}
      /\ \A i \in 1..Len(flat) : originals[flat[i].key] = flat[i].at
  BY <1>1 DEF Mapping
<1>3. \A i \in 1..Len(flat) : flat[i].at \in Leaves
  BY FlatEntry
<1>4. \A name \in DOMAIN originals : originals[name] \in Leaves
  BY <1>2, <1>3
<1>5. ASSUME PlainDoc
      PROVE  /\ DOMAIN originals = {FlatName(p) : p \in Leaves}
             /\ \A p \in Leaves : originals[FlatName(p)] = p
  <2>1. \A j \in 1..Len(flat) : flat[j].key = FlatName(flat[j].at)
    BY <1>5 DEF PathNames
  <2>2. ASSUME NEW q \in Leaves PROVE \E j \in 1..Len(flat) : flat[j].at = q
    <3>1. Pending(q) \/ InFlat(q)
      BY <1>1, <1>5 DEF PathNames
    <3>2. ~Pending(q)
      BY <1>1 DEF Pending
    <3> QED
      BY <3>1, <3>2 DEF InFlat
  <2>3. ASSUME NEW q \in Leaves PROVE FlatName(q) \in DOMAIN originals /\ originals[FlatName(q)] = q
    <3>1. PICK j \in 1..Len(flat) : flat[j].at = q
      BY <2>2
    <3> QED
      BY <1>2, <2>1, <3>1
  <2>4. ASSUME NEW name \in DOMAIN originals PROVE \E q \in Leaves : name = FlatName(q)
    BY <1>2, <1>3, <2>1
  <2> QED
    BY <2>3, <2>4
<1> QED
  BY <1>4, <1>5

\* Whatever keys come again at whatever depth, nothing of a document is lost: when it has
\* been parsed, its originals are its leaves, each under the name that its path spells.
THEOREM LeavesAreKeptAlways == Spec => []LeavesAreKept
<1>1. Init => PathNames
  BY PathNamesAtFirst
<1>2. Shape /\ PathNames /\ [Next]_vars => PathNames'
  BY PathNamesStep
<1> QED
  BY <1>1, <1>2, ShapeHolds, MappingHolds, PathNamesSuffice, PTL DEF Spec

-----------------------------------------------------------------------------
(* The top level. *)

Root == <<>>

LEMMA RootMember == \A i : Append(Root, i) = <<i>> /\ Len(<<i>>) = 1 /\ <<i>>[1] = i
BY DEF Root

TopGood ==
    \A i \in 1..doc[Root].size :
        /\ Mark \notin ToSet(doc[<<i>>].key)
        /\ <<i>> \in Objects => doc[<<i>>].key # <<>> /\ First(i)

Free(i) == Dot \notin ToSet(doc[<<i>>].key)
TopEntry(i) == Member(SegName(<<i>>), <<i>>)

\* What the top level itself gives to the flat dictionary, and what of it has no dot.
TopLeaf == {i \in 1..doc[Root].size : <<i>> \notin Objects}
FreeLeaf == {i \in TopLeaf : Free(i)}

LEMMA TopIsMarked == TopGood => NoMark(Root)
BY RootMember DEF TopGood, NoMark

LEMMA TopKey ==
    ASSUME Tree, Root \in DOMAIN doc, TopGood, NEW i \in 1..doc[Root].size
    PROVE  /\ <<i>> \in DOMAIN doc /\ doc[<<i>>].key \in Keys /\ Mark \notin ToSet(doc[<<i>>].key)
           /\ Nth(<<i>>) \in Nat \ {0} /\ SegName(<<i>>) \in Keys /\ Root \in Objects
<1>1. doc[Root].size # 0 /\ doc[Root].size \in Nat
  BY ANode
<1>2. Root \in Objects
  BY <1>1, ANode
<1>3. NoMark(Root)
  BY TopIsMarked
<1>4. /\ Append(Root, i) \in DOMAIN doc /\ doc[Append(Root, i)].key \in Keys
      /\ Mark \notin ToSet(doc[Append(Root, i)].key)
      /\ Nth(Append(Root, i)) \in Nat \ {0}
      /\ SegName(Append(Root, i)) \in Keys
  BY <1>2, <1>3, NoMarkMember
<1> QED
  BY <1>2, <1>4, RootMember

LEMMA TopNamesDiffer ==
    ASSUME Tree, Root \in DOMAIN doc, TopGood, NEW i \in 1..doc[Root].size, NEW j \in 1..doc[Root].size,
           SegName(<<i>>) = SegName(<<j>>)
    PROVE  i = j
<1>1. Root \in Objects /\ NoMark(Root)
  BY TopKey, TopIsMarked
<1>2. SegName(Append(Root, i)) = SegName(Append(Root, j))
  <2>1. Append(Root, i) = <<i>> /\ Append(Root, j) = <<j>>
    BY RootMember, Zenon
  <2> QED
    BY <2>1, Zenon
<1> QED
  BY <1>1, <1>2, SegNamesDiffer

LEMMA FirstIsOne ==
    ASSUME Tree, Root \in DOMAIN doc, NEW i \in 1..doc[Root].size
    PROVE  First(i) <=> Nth(<<i>>) = 1
<1> DEFINE size == doc[Root].size
           key == doc[<<i>>].key
<1>1. size \in Nat /\ size # 0 /\ Root \in Objects /\ i \in Nat
  <2>1. size \in Nat /\ size # 0
    BY ANode
  <2> QED
    BY <2>1, ANode
<1>2. Nth(<<i>>) = CountIn(Members(Root), key, i)
  <2>1. Append(Root, i) = <<i>>
    BY RootMember, Zenon
  <2>2. Nth(Append(Root, i)) = CountIn(Members(Root), doc[Append(Root, i)].key, i)
    BY NthIsCount, Zenon
  <2> QED
    BY <2>1, <2>2, Zenon
<1>3. Nth(<<i>>) = Counted(Root, i, key) /\ i \in 0..size /\ i - 1 \in 0..size /\ i - 1 < size
      /\ (i - 1) + 1 = i
  BY <1>1, <1>2 DEF Counted
<1>4. /\ Counted(Root, i - 1, key) \in Nat
      /\ Counted(Root, i - 1, key) # 0 <=> \E j \in 1..i - 1 : doc[<<j>>].key = key
      /\ Counted(Root, (i - 1) + 1, key) = IF doc[<<(i - 1) + 1>>].key = key THEN Counted(Root, i - 1, key) + 1
                                     ELSE Counted(Root, i - 1, key)
  <2>1. Root \in Objects /\ i - 1 \in 0..doc[Root].size /\ i - 1 < doc[Root].size
    BY <1>1, <1>3
  <2> DEFINE r == i - 1
  <2>2. Root \in Objects /\ r \in 0..doc[Root].size /\ r < doc[Root].size
    BY <2>1
  <2> HIDE DEF r, key
  <2>3. /\ Counted(Root, r, key) \in Nat
        /\ Counted(Root, r, key) # 0 <=> \E j \in 1..r : doc[Append(Root, j)].key = key
        /\ r < doc[Root].size =>
              Counted(Root, r + 1, key) = IF doc[Append(Root, r + 1)].key = key THEN Counted(Root, r, key) + 1
                                          ELSE Counted(Root, r, key)
    BY <2>2, CountedIs
  <2>4. Append(Root, r + 1) = <<r + 1>> /\ \A j : Append(Root, j) = <<j>>
    BY RootMember
  <2>5. Counted(Root, r, key) # 0 <=> \E j \in 1..r : doc[<<j>>].key = key
    BY <2>3, <2>4, Zenon
  <2>6. Counted(Root, r + 1, key) = IF doc[<<r + 1>>].key = key THEN Counted(Root, r, key) + 1
                                          ELSE Counted(Root, r, key)
    BY <2>2, <2>3, <2>4, Zenon
  <2> QED
    BY <2>3, <2>5, <2>6 DEF r
<1>5. Counted(Root, i, key) = Counted(Root, i - 1, key) + 1
  BY <1>3, <1>4
<1>6. First(i) <=> Counted(Root, i - 1, key) = 0
  BY <1>4 DEF First
<1> QED
  BY <1>3, <1>4, <1>5, <1>6

LEMMA FirstKeepsName ==
    ASSUME Tree, Root \in DOMAIN doc, NEW i \in 1..doc[Root].size, First(i)
    PROVE  SegName(<<i>>) = doc[<<i>>].key
BY FirstIsOne DEF SegName, Numbered

LEMMA FreeName ==
    ASSUME Tree, Root \in DOMAIN doc, TopGood, NEW i \in 1..doc[Root].size, Free(i)
    PROVE  ~HasDot(SegName(<<i>>))
<1> DEFINE key == doc[<<i>>].key
           n == Nth(<<i>>)
<1>1. key \in Keys /\ Mark \notin ToSet(key) /\ n \in Nat \ {0} /\ Dot \notin ToSet(key)
  BY TopKey DEF Free
<1> HIDE DEF key, n
<1>2. Numbered(key, n) \in Keys /\ Dot \notin ToSet(Numbered(key, n))
  BY <1>1, NumberedHasNoDot
<1>3. ~HasDot(Numbered(key, n))
  BY <1>2, DotInBase
<1> QED
  BY <1>3 DEF SegName, key, n

\* Top-level entries stand for the top level, each in its turn; the others have a dot.
Passed(i) == stage \in {"map", "parsed"} \/ (stage = "flatten" /\ i < calls[1].next)
OfTop(m) == \E i \in TopLeaf : m = TopEntry(i) /\ Passed(i)
Nested(m) == Len(m.at) >= 2 /\ HasDot(m.key)
InOrder(f) ==
    \A i, j \in FreeLeaf : \A a, b \in 1..Len(f) :
        f[a] = TopEntry(i) /\ f[b] = TopEntry(j) /\ a < b => i < j
Kept1(f, i) == \E a \in 1..Len(f) : f[a] = TopEntry(i)

GoodPrefix(k, prefix) ==
    IF k = 1 THEN prefix = <<>>
    ELSE prefix # <<>> /\ (Mark \notin ToSet(prefix) \/ HasDot(prefix))

TopNames ==
    TopGood =>
        /\ \A k \in 1..Len(calls) : GoodPrefix(k, calls[k].prefix)
        /\ \A a \in 1..Len(flat) : Nested(flat[a]) \/ OfTop(flat[a])
        /\ InOrder(flat)
        /\ \A i \in FreeLeaf : Passed(i) => Kept1(flat, i)

LEMMA TopStays == doc' = doc =>
    /\ (TopGood' <=> TopGood) /\ TopLeaf' = TopLeaf /\ FreeLeaf' = FreeLeaf
    /\ \A i : TopEntry(i)' = TopEntry(i)
BY DEF TopGood, TopLeaf, FreeLeaf, Free, Objects, First, TopEntry, SegName, Nth

LEMMA TopEntriesDiffer ==
    ASSUME NEW i, NEW j, TopEntry(i) = TopEntry(j)
    PROVE  i = j
<1>1. <<i>> = <<j>>
  BY DEF TopEntry, Member
<1> QED
  BY <1>1

\* An entry that takes no free one's key, and comes after the free ones if it is free,
\* leaves them as they are.
LEMMA AssignInOrder ==
    ASSUME NEW S, NEW f \in Seq(Entries(S)), NEW e \in Entries(S), InOrder(f), FreeLeaf \subseteq Nat,
           \A i \in FreeLeaf : \A a \in 1..Len(f) : f[a] = TopEntry(i) => f[a].key # e.key,
           \A i \in FreeLeaf : e = TopEntry(i) =>
               /\ ~Has(f, e.key)
               /\ \A j \in FreeLeaf : Kept1(f, j) => j < i
    PROVE  /\ InOrder(Assign(f, e))
           /\ \A i \in FreeLeaf : Kept1(f, i) => Kept1(Assign(f, e), i)
           /\ \A i \in FreeLeaf : e = TopEntry(i) => Kept1(Assign(f, e), i)
           /\ \A a \in 1..Len(Assign(f, e)) :
                 Assign(f, e)[a] = e \/ (a \in 1..Len(f) /\ Assign(f, e)[a] = f[a])
<1> DEFINE g == Assign(f, e)
<1>0. Len(f) \in Nat
  OBVIOUS
<1>1. CASE Has(f, e.key)
  <2>1. Len(g) = Len(f) /\ \A a \in 1..Len(f) : g[a] = IF f[a].key = e.key THEN e ELSE f[a]
    <3>1. Replaced(f, g, e)
      BY <1>1, AssignOld
    <3> QED
      BY <3>1 DEF Replaced
  <2>2. \A i \in FreeLeaf : e # TopEntry(i)
    BY <1>1
  <2> HIDE DEF g
  <2>3. \A i \in FreeLeaf : \A a \in 1..Len(f) : g[a] = TopEntry(i) <=> f[a] = TopEntry(i)
    BY <2>1, <2>2
  <2>4. InOrder(g)
    BY <2>1, <2>3 DEF InOrder
  <2>5. \A i \in FreeLeaf : Kept1(f, i) => Kept1(g, i)
    BY <2>1, <2>3 DEF Kept1
  <2>6. \A a \in 1..Len(g) : g[a] = e \/ (a \in 1..Len(f) /\ g[a] = f[a])
    BY <2>1
  <2> QED
    BY <2>2, <2>4, <2>5, <2>6 DEF g
<1>2. CASE ~Has(f, e.key)
  <2>1. /\ Len(g) = Len(f) + 1 /\ g[Len(f) + 1] = e
        /\ \A a \in 1..Len(f) : g[a] = f[a]
    <3>1. Longer(f, g, e)
      BY <1>2, AssignNew
    <3> QED
      BY <3>1 DEF Longer
  <2> HIDE DEF g
  <2>2. \A a \in 1..Len(g) : a \in 1..Len(f) \/ a = Len(f) + 1
    BY <1>0, <2>1
  <2>2a. Len(f) + 1 \in 1..Len(g) /\ \A a \in 1..Len(f) : a \in 1..Len(g)
    BY <1>0, <2>1
  <2>3. ASSUME NEW i \in FreeLeaf, NEW j \in FreeLeaf, NEW a \in 1..Len(g), NEW b \in 1..Len(g),
               g[a] = TopEntry(i), g[b] = TopEntry(j), a < b
        PROVE  i < j
    <3>1. a \in 1..Len(f)
      BY <1>0, <2>1, <2>3
    <3>2. f[a] = TopEntry(i) /\ Kept1(f, i)
      BY <2>1, <2>3, <3>1 DEF Kept1
    <3>3. CASE b \in 1..Len(f)
      <4>1. f[b] = TopEntry(j)
        BY <2>1, <2>3, <3>3
      <4> QED
        BY <2>3, <3>1, <3>2, <3>3, <4>1 DEF InOrder
    <3>4. CASE b = Len(f) + 1
      BY <2>1, <2>3, <3>2, <3>4
    <3> QED
      BY <2>2, <3>3, <3>4
  <2>4. InOrder(g)
    BY <2>3 DEF InOrder
  <2>5. \A i \in FreeLeaf : Kept1(f, i) => Kept1(g, i)
    BY <2>1, <2>2a DEF Kept1
  <2>6. \A i \in FreeLeaf : e = TopEntry(i) => Kept1(g, i)
    BY <2>1, <2>2a DEF Kept1
  <2>7. \A a \in 1..Len(g) : g[a] = e \/ (a \in 1..Len(f) /\ g[a] = f[a])
    BY <2>1, <2>2
  <2> QED
    BY <2>4, <2>5, <2>6, <2>7 DEF g
<1> QED
  BY <1>1, <1>2

LEMMA HasRoot ==
    ASSUME Tree, DOMAIN doc # {}
    PROVE  Root \in DOMAIN doc /\ doc[Root].size \in Nat
<1>1. Tree /\ DOMAIN doc # {}
  OBVIOUS
<1>2. PICK q \in DOMAIN doc : TRUE
  BY <1>1
<1>3. q \in Pos /\ Len(q) \in Nat
  BY <1>1, ANode
<1>4. SubSeq(q, 1, 0) \in DOMAIN doc /\ SubSeq(q, 1, 0) \in Pos /\ Len(SubSeq(q, 1, 0)) = 0
  <2>1. 0 \in 0..Len(q)
    BY <1>3
  <2> QED
    BY <1>1, <1>3, <2>1, APrefix, InitialPart DEF Pos
<1> DEFINE x == SubSeq(q, 1, 0)
<1>5. x \in DOMAIN doc /\ x \in Pos /\ Len(x) = 0
  BY <1>4
<1> HIDE DEF x
<1>6. x = Root
  BY <1>5 DEF Pos, Root
<1> QED
  BY <1>1, <1>5, <1>6, ANode

LEMMA FlatHasRoot ==
    ASSUME Shape, stage \in {"flatten", "map", "parsed"}
    PROVE  Tree /\ Root \in DOMAIN doc /\ doc[Root].size \in Nat
BY TheTree, HasRoot DEF Shape, Stages

LEMMA FreeLeaves ==
    ASSUME Tree, Root \in DOMAIN doc, TopGood, NEW i \in FreeLeaf
    PROVE  /\ i \in 1..doc[Root].size /\ i \in TopLeaf /\ <<i>> \notin Objects /\ i \in Nat
           /\ TopEntry(i).key = SegName(<<i>>) /\ TopEntry(i).at = <<i>> /\ ~HasDot(TopEntry(i).key)
           /\ SegName(<<i>>) \in Keys
<1>1. i \in 1..doc[Root].size /\ i \in TopLeaf /\ <<i>> \notin Objects /\ Free(i) /\ i \in Nat
  BY ANode DEF FreeLeaf, TopLeaf
<1>2. TopEntry(i).key = SegName(<<i>>) /\ TopEntry(i).at = <<i>>
  BY DEF TopEntry, Member
<1> QED
  BY <1>1, <1>2, FreeName, TopKey

\* The member of the root that is at hand.
LEMMA TopMember ==
    ASSUME Shape, TopNames, TopGood, stage = "flatten", NEW c, NEW m, NEW key, MemberDone(1, c, m, key)
    PROVE  /\ c.next \in 1..doc[Root].size /\ m = TopEntry(c.next) /\ key = SegName(<<c.next>>)
           /\ c = calls[1]
<1>1. Tree /\ Root \in DOMAIN doc
  BY FlatHasRoot
<1>2. /\ c = calls[1] /\ 1 = Len(calls) /\ c \in ACall /\ Len(c.of) = 1 - 1 /\ key = Dotted(c.prefix, m.key)
  BY DEF MemberDone
<1>3. c.of = Root
  <2>1. c.of \in Pos /\ Len(c.of) = 0
    BY <1>1, <1>2, ANode DEF ACall, Objects
  <2> QED
    BY <2>1 DEF Pos, Root
<1>4. c.prefix = <<>>
  <2>1. GoodPrefix(1, calls[1].prefix)
    <3>1. \A k \in 1..Len(calls) : GoodPrefix(k, calls[k].prefix)
      BY DEF TopNames
    <3>2. 1 \in 1..Len(calls)
      BY <1>2
    <3> QED
      BY <3>1, <3>2
  <2> QED
    BY <1>2, <2>1 DEF GoodPrefix
<1>5. NoMark(c.of)
  BY <1>3, TopIsMarked
<1>6. c.next \in 1..doc[c.of].size /\ m = Member(SegName(Append(c.of, c.next)), Append(c.of, c.next))
  <2>1. stage # "text"
    OBVIOUS
  <2> QED
    BY <1>5, <2>1, ExactMember
<1>7. Append(c.of, c.next) = <<c.next>>
  BY <1>3, RootMember
<1>8. m = TopEntry(c.next) /\ m.key = SegName(<<c.next>>)
  BY <1>6, <1>7 DEF TopEntry, Member
<1> QED
  BY <1>2, <1>3, <1>4, <1>6, <1>8 DEF Dotted

LEMMA TopNamesPushed ==
    ASSUME Shape, TopNames, TopGood, stage = "flatten", doc' = doc, stage' = stage,
           NEW n, NEW c, NEW m, NEW key, MemberDone(n, c, m, key), Pushed(n, m, key)
    PROVE  TopNames'
<1>1. Tree /\ Root \in DOMAIN doc
  BY FlatHasRoot
<1>2. /\ n = Len(calls) /\ n \in 1..MaxDepth + 1 /\ c = calls[n] /\ c \in ACall /\ Len(m.at) = n
      /\ key = Dotted(c.prefix, m.key) /\ key \in Keys /\ MaxDepth \in Nat /\ m.key \in Keys
  BY JsonAssumption DEF MemberDone, Entries
<1>3. /\ m.at \in Objects /\ Len(calls') = n + 1 /\ OneOn(n, calls') /\ calls'[n + 1] = Call(m.at, key)
      /\ flat' = flat
  BY DEF Pushed
<1>4. /\ \A k \in 1..n : GoodPrefix(k, calls[k].prefix)
      /\ \A a \in 1..Len(flat) : Nested(flat[a]) \/ OfTop(flat[a])
      /\ InOrder(flat)
      /\ \A i \in FreeLeaf : Passed(i) => Kept1(flat, i)
  BY <1>2 DEF TopNames
<1>5. GoodPrefix(n + 1, key)
  <2>1. CASE n = 1
    <3>1. c.next \in 1..doc[Root].size /\ m = TopEntry(c.next) /\ key = SegName(<<c.next>>)
      BY <2>1, TopMember
    <3> DEFINE i == c.next
    <3>2. <<i>> \in Objects
      BY <1>3, <3>1 DEF TopEntry, Member
    <3>3. doc[<<i>>].key # <<>> /\ First(i) /\ Mark \notin ToSet(doc[<<i>>].key)
      BY <3>1, <3>2 DEF TopGood
    <3>4. key = doc[<<i>>].key
      BY <1>1, <3>1, <3>3, FirstKeepsName
    <3> HIDE DEF i
    <3> QED
      BY <1>2, <3>3, <3>4 DEF GoodPrefix
  <2>2. CASE n # 1
    <3>1. c.prefix # <<>> /\ (Mark \notin ToSet(c.prefix) \/ HasDot(c.prefix)) /\ c.prefix \in Keys
      BY <1>2, <1>4, <2>2 DEF GoodPrefix, ACall
    <3>2. key # <<>> /\ HasDot(key)
      BY <1>2, <3>1, DottedHasDot
    <3> QED
      BY <1>2, <3>2 DEF GoodPrefix
  <2> QED
    BY <2>1, <2>2
<1>6. ASSUME NEW k \in 1..Len(calls') PROVE GoodPrefix(k, calls'[k].prefix)
  <2>1. CASE k = n + 1
    BY <1>3, <1>5, <2>1 DEF Call
  <2>2. CASE k # n + 1
    <3>1. k \in 1..n
      BY <1>2, <1>3, <2>2
    <3> QED
      BY <1>3, <1>4, <3>1 DEF OneOn
  <2> QED
    BY <2>1, <2>2
<1>7. ASSUME NEW i \in TopLeaf PROVE i < calls'[1].next <=> i < calls[1].next
  <2>1. calls'[1].next = IF n = 1 THEN calls[1].next + 1 ELSE calls[1].next
    BY <1>2, <1>3 DEF OneOn
  <2>2. CASE n # 1
    BY <2>1, <2>2
  <2>3. CASE n = 1
    <3>1. c.next \in 1..doc[Root].size /\ m = TopEntry(c.next) /\ c = calls[1]
      BY <2>3, TopMember
    <3>2. <<c.next>> \in Objects
      BY <1>3, <3>1 DEF TopEntry, Member
    <3>3. i # c.next
      BY <3>2 DEF TopLeaf
    <3>4. i \in Nat /\ c.next \in Nat
      BY <1>1, <3>1, ANode DEF TopLeaf
    <3> QED
      BY <2>1, <2>3, <3>1, <3>3, <3>4
  <2> QED
    BY <2>2, <2>3
<1>8. ASSUME NEW i \in TopLeaf PROVE Passed(i)' <=> Passed(i)
  BY <1>7 DEF Passed
<1>9. TopLeaf' = TopLeaf /\ FreeLeaf' = FreeLeaf /\ \A i : TopEntry(i)' = TopEntry(i)
  BY TopStays
<1>10. \A a \in 1..Len(flat) : Nested(flat[a]) \/ OfTop(flat[a])'
  <2>1. ASSUME NEW a \in 1..Len(flat), OfTop(flat[a]) PROVE OfTop(flat[a])'
    <3>1. PICK i \in TopLeaf : flat[a] = TopEntry(i) /\ Passed(i)
      BY <2>1 DEF OfTop
    <3>2. Passed(i)'
      BY <1>8, <3>1
    <3> QED
      BY <1>3, <1>9, <3>1, <3>2 DEF OfTop
  <2> QED
    BY <1>4, <2>1
<1>11. InOrder(flat)'
  BY <1>3, <1>4, <1>9 DEF InOrder
<1>12. \A i \in FreeLeaf : Passed(i)' => Kept1(flat, i)'
  <2>1. \A i \in FreeLeaf : i \in TopLeaf
    BY DEF FreeLeaf
  <2>2. \A i \in FreeLeaf : Kept1(flat, i)' <=> Kept1(flat, i)
    BY <1>3, <1>9 DEF Kept1
  <2> QED
    BY <1>4, <1>8, <2>1, <2>2
<1> QED
  BY <1>3, <1>6, <1>9, <1>10, <1>11, <1>12 DEF TopNames, GoodPrefix, Nested

LEMMA TopNamesKept ==
    ASSUME Shape, TopNames, TopGood, stage = "flatten", doc' = doc, stage' = stage,
           NEW n, NEW c, NEW m, NEW key, MemberDone(n, c, m, key), Kept(n, m, key)
    PROVE  TopNames'
<1> DEFINE e == Member(key, m.at)
<1>1. Tree /\ Root \in DOMAIN doc
  BY FlatHasRoot
<1>2. /\ n = Len(calls) /\ n \in 1..MaxDepth + 1 /\ c = calls[n] /\ c \in ACall /\ Len(m.at) = n
      /\ key = Dotted(c.prefix, m.key) /\ key \in Keys /\ MaxDepth \in Nat \ {0} /\ m.key \in Keys
  BY JsonAssumption DEF MemberDone, Entries
<1>3. /\ ~(m.at \in Objects /\ n <= MaxDepth) /\ Len(calls') = n /\ OneOn(n, calls')
      /\ flat' = Assign(flat, e) /\ e \in Entries(Leaves)
  BY DEF Kept
<1>4. /\ \A k \in 1..n : GoodPrefix(k, calls[k].prefix)
      /\ \A a \in 1..Len(flat) : Nested(flat[a]) \/ OfTop(flat[a])
      /\ InOrder(flat)
      /\ \A i \in FreeLeaf : Passed(i) => Kept1(flat, i)
  BY <1>2 DEF TopNames
<1>4a. flat \in Seq(Entries(Leaves)) /\ FreeLeaf \subseteq Nat
  <2>1. FreeLeaf \subseteq Nat
    BY <1>1, FreeLeaves
  <2> QED
    BY <2>1 DEF Shape, Flattened
<1>5. \A k \in 1..Len(calls') : GoodPrefix(k, calls'[k].prefix)
  BY <1>3, <1>4 DEF OneOn
<1>6. e.key = key /\ e.at = m.at
  BY DEF Member
<1> HIDE DEF e
<1>7. calls'[1].next = IF n = 1 THEN calls[1].next + 1 ELSE calls[1].next
  BY <1>2, <1>3 DEF OneOn
\* Whose key it is.
<1>8. \/ n = 1 /\ c.next \in TopLeaf /\ e = TopEntry(c.next) /\ c = calls[1]
      \/ n # 1 /\ Nested(e)
  <2>1. CASE n = 1
    <3>1. c.next \in 1..doc[Root].size /\ m = TopEntry(c.next) /\ key = SegName(<<c.next>>) /\ c = calls[1]
      BY <2>1, TopMember
    <3>2. m.at = <<c.next>> /\ m.at \notin Objects
      BY <1>2, <1>3, <2>1, <3>1 DEF TopEntry, Member
    <3>3. e = TopEntry(c.next)
      BY <3>1, <3>2 DEF e, TopEntry
    <3> QED
      BY <2>1, <3>1, <3>2, <3>3 DEF TopLeaf
  <2>2. CASE n # 1
    <3>1. c.prefix # <<>> /\ (Mark \notin ToSet(c.prefix) \/ HasDot(c.prefix)) /\ c.prefix \in Keys
      BY <1>2, <1>4, <2>2 DEF GoodPrefix, ACall
    <3>2. HasDot(key)
      BY <1>2, <3>1, DottedHasDot
    <3>3. Len(e.at) >= 2
      BY <1>2, <1>6, <2>2
    <3> QED
      BY <1>6, <2>2, <3>2, <3>3 DEF Nested
  <2> QED
    BY <2>1, <2>2
<1>9. ASSUME NEW i \in TopLeaf PROVE Passed(i)' <=> (Passed(i) \/ (n = 1 /\ i = c.next))
  <2>1. i \in Nat /\ c.next \in Nat
    BY <1>1, <1>2, ANode DEF TopLeaf, ACall
  <2>2. CASE n = 1
    BY <1>2, <1>7, <2>1, <2>2 DEF Passed
  <2>3. CASE n # 1
    BY <1>7, <2>3 DEF Passed
  <2> QED
    BY <2>2, <2>3
<1>10. ASSUME NEW i \in FreeLeaf, NEW a \in 1..Len(flat), flat[a] = TopEntry(i)
       PROVE  flat[a].key # e.key /\ Passed(i)
  <2>1. /\ i \in 1..doc[Root].size /\ i \in TopLeaf /\ i \in Nat
        /\ flat[a].key = SegName(<<i>>) /\ flat[a].at = <<i>> /\ ~HasDot(flat[a].key)
    BY <1>1, <1>10, FreeLeaves
  <2>2. Passed(i)
    <3>1. ~Nested(flat[a])
      BY <2>1 DEF Nested
    <3>2. PICK j \in TopLeaf : flat[a] = TopEntry(j) /\ Passed(j)
      BY <1>4, <3>1 DEF OfTop
    <3>3. i = j
      BY <1>10, <3>2, TopEntriesDiffer
    <3> QED
      BY <3>2, <3>3
  <2>3. CASE n # 1
    BY <1>8, <2>1, <2>2, <2>3 DEF Nested
  <2>4. CASE n = 1
    <3>1. c.next \in 1..doc[Root].size /\ e.key = SegName(<<c.next>>) /\ c = calls[1]
      BY <1>8, <2>4 DEF TopLeaf, TopEntry, Member
    <3>2. i # c.next
      <4>1. i < c.next /\ c.next \in Nat
        BY <1>2, <2>2, <3>1 DEF Passed, ACall
      <4> QED
        BY <2>1, <4>1
    <3>3. SegName(<<i>>) # SegName(<<c.next>>)
      BY <1>1, <2>1, <3>1, <3>2, TopNamesDiffer
    <3> QED
      BY <2>1, <2>2, <3>1, <3>3
  <2> QED
    BY <2>3, <2>4
<1>11. ASSUME NEW i \in FreeLeaf, e = TopEntry(i)
       PROVE  /\ ~Has(flat, e.key) /\ n = 1 /\ i = c.next
              /\ \A j \in FreeLeaf : Kept1(flat, j) => j < i
  <2>1. i \in 1..doc[Root].size /\ e.key = SegName(<<i>>) /\ e.at = <<i>> /\ ~HasDot(e.key)
    BY <1>1, <1>11, FreeLeaves
  <2>2. n = 1 /\ i = c.next /\ c = calls[1]
    BY <1>8, <1>11, <2>1, TopEntriesDiffer DEF Nested
  <2>3. ASSUME NEW j \in TopLeaf, Passed(j) PROVE j < i
    BY <2>2, <2>3 DEF Passed
  <2>4. ASSUME NEW a \in 1..Len(flat) PROVE flat[a].key # e.key
    <3>1. CASE Nested(flat[a])
      BY <2>1, <3>1 DEF Nested
    <3>2. CASE OfTop(flat[a])
      <4>1. PICK j \in TopLeaf : flat[a] = TopEntry(j) /\ Passed(j)
        BY <3>2 DEF OfTop
      <4>2. j < i /\ j \in 1..doc[Root].size /\ flat[a].key = SegName(<<j>>)
        BY <2>3, <4>1 DEF TopLeaf, TopEntry, Member
      <4>3. j # i
        BY <1>1, <2>1, <4>2, ANode
      <4> QED
        BY <1>1, <2>1, <4>2, <4>3, TopNamesDiffer
    <3> QED
      BY <1>4, <3>1, <3>2
  <2>5. ~Has(flat, e.key)
    BY <2>4 DEF Has, Index
  <2>6. ASSUME NEW j \in FreeLeaf, Kept1(flat, j) PROVE j < i
    <3>1. PICK a \in 1..Len(flat) : flat[a] = TopEntry(j)
      BY <2>6 DEF Kept1
    <3>2. Passed(j) /\ j \in TopLeaf
      BY <1>10, <3>1 DEF FreeLeaf
    <3> QED
      BY <2>3, <3>2
  <2> QED
    BY <2>2, <2>5, <2>6
<1>12. /\ InOrder(flat')
       /\ \A i \in FreeLeaf : Kept1(flat, i) => Kept1(flat', i)
       /\ \A i \in FreeLeaf : e = TopEntry(i) => Kept1(flat', i)
       /\ \A a \in 1..Len(flat') : flat'[a] = e \/ (a \in 1..Len(flat) /\ flat'[a] = flat[a])
  <2>1. \A i \in FreeLeaf : \A a \in 1..Len(flat) : flat[a] = TopEntry(i) => flat[a].key # e.key
    BY <1>10
  <2>2. \A i \in FreeLeaf : e = TopEntry(i) =>
               /\ ~Has(flat, e.key)
               /\ \A j \in FreeLeaf : Kept1(flat, j) => j < i
    BY <1>11
  <2> QED
    BY <1>3, <1>4, <1>4a, <2>1, <2>2, AssignInOrder
<1>13. TopLeaf' = TopLeaf /\ FreeLeaf' = FreeLeaf /\ \A i : TopEntry(i)' = TopEntry(i)
  BY TopStays
<1>14. ASSUME NEW a \in 1..Len(flat')
       PROVE  Nested(flat'[a]) \/ \E i \in TopLeaf : flat'[a] = TopEntry(i) /\ Passed(i)'
  <2>1. CASE flat'[a] = e
    <3>1. CASE n # 1
      BY <1>8, <2>1, <3>1
    <3>2. CASE n = 1
      BY <1>8, <1>9, <2>1, <3>2
    <3> QED
      BY <3>1, <3>2
  <2>2. CASE a \in 1..Len(flat) /\ flat'[a] = flat[a]
    <3>1. CASE Nested(flat[a])
      BY <2>2, <3>1
    <3>2. CASE OfTop(flat[a])
      BY <1>9, <2>2, <3>2 DEF OfTop
    <3> QED
      BY <1>4, <2>2, <3>1, <3>2
  <2> QED
    BY <1>12, <2>1, <2>2
<1>15. ASSUME NEW i \in FreeLeaf, Passed(i)' PROVE Kept1(flat', i)
  <2>1. i \in TopLeaf
    BY DEF FreeLeaf
  <2>2. CASE Passed(i)
    BY <1>4, <1>12, <2>2
  <2>3. CASE n = 1 /\ i = c.next
    BY <1>8, <1>12, <2>3
  <2> QED
    BY <1>9, <1>15, <2>1, <2>2, <2>3
<1>16. InOrder(flat)' /\ \A i : Kept1(flat, i)' <=> Kept1(flat', i)
  BY <1>12, <1>13 DEF InOrder, Kept1
<1>17. \A a \in 1..Len(flat') : Nested(flat[a])' \/ OfTop(flat[a])'
  <2>1. ASSUME NEW a \in 1..Len(flat'), \E i \in TopLeaf : flat'[a] = TopEntry(i) /\ Passed(i)'
        PROVE  OfTop(flat[a])'
    BY <1>13, <2>1 DEF OfTop
  <2>2. ASSUME NEW a \in 1..Len(flat'), Nested(flat'[a]) PROVE Nested(flat[a])'
    BY <2>2 DEF Nested
  <2> QED
    BY <1>14, <2>1, <2>2
<1>18. \A i \in FreeLeaf' : Passed(i)' => Kept1(flat, i)'
  BY <1>13, <1>15, <1>16
<1> QED
  BY <1>5, <1>16, <1>17, <1>18 DEF TopNames, GoodPrefix

LEMMA TopNamesMember ==
    ASSUME Shape, TopNames, FlattenMember
    PROVE  TopNames'
<1>1. doc' = doc /\ stage' = stage /\ stage = "flatten"
  BY DEF FlattenMember
<1>2. CASE ~TopGood
  BY <1>1, <1>2, TopStays DEF TopNames
<1>3. CASE TopGood
  <2>1. PICK n, c, m, key : MemberDone(n, c, m, key) /\ (Pushed(n, m, key) \/ Kept(n, m, key))
    BY MemberStep
  <2> QED
    BY <1>1, <1>3, <2>1, TopNamesPushed, TopNamesKept
<1> QED
  BY <1>2, <1>3

LEMMA TopNamesReturn ==
    ASSUME Shape, TopNames, FlattenReturns
    PROVE  TopNames'
<1> DEFINE n == Len(calls)
<1>1. /\ doc' = doc /\ flat' = flat /\ stage = "flatten" /\ stage' = IF n = 1 THEN "map" ELSE stage
      /\ Last(calls).next > Len(out[Last(calls).of])
  BY DEF FlattenReturns
<1>2. n \in Nat \ {0} /\ Len(calls') = n - 1 /\ \A k \in 1..Len(calls') : calls'[k] = calls[k]
  BY ReturnShape
<1>3. Tree /\ Root \in DOMAIN doc /\ doc[Root].size \in Nat /\ Stages /\ Loading /\ Numbers /\ Calling
  BY <1>1, FlatHasRoot DEF Shape
<1>4. Last(calls) = calls[n] /\ calls[n] \in ACall /\ Len(calls[n].of) = n - 1
  <2>1. calls # <<>>
    BY ReturnShape
  <2>2. n \in 1..n
    BY <1>2
  <2> QED
    BY <1>3, <2>1, <2>2, TheLastCall DEF Calling
<1> HIDE DEF n
<1>5. CASE ~TopGood
  BY <1>1, <1>5, TopStays DEF TopNames
<1>6. CASE TopGood
  <2>1. /\ \A k \in 1..n : GoodPrefix(k, calls[k].prefix)
        /\ \A a \in 1..Len(flat) : Nested(flat[a]) \/ OfTop(flat[a])
        /\ InOrder(flat)
        /\ \A i \in FreeLeaf : Passed(i) => Kept1(flat, i)
    BY <1>6 DEF TopNames, n
  <2>2. TopLeaf' = TopLeaf /\ FreeLeaf' = FreeLeaf /\ \A i : TopEntry(i)' = TopEntry(i)
    BY <1>1, TopStays
  <2>3. \A k \in 1..Len(calls') : GoodPrefix(k, calls'[k].prefix)
    <3>1. \A k \in 1..n - 1 : k \in 1..n
      BY <1>2
    <3> QED
      BY <1>2, <2>1, <3>1
  <2>4. ASSUME NEW i \in TopLeaf PROVE (Passed(i) => Passed(i)') /\ (n # 1 => (Passed(i)' => Passed(i)))
    <3>1. CASE n = 1
      BY <1>1, <3>1 DEF Passed
    <3>2. CASE n # 1
      <4>1. 1 \in 1..Len(calls')
        BY <1>2, <3>2
      <4>2. calls'[1] = calls[1] /\ stage' = stage
        BY <1>1, <1>2, <3>2, <4>1
      <4> QED
        BY <4>2 DEF Passed
    <3> QED
      BY <3>1, <3>2
  <2>5. ASSUME NEW i \in FreeLeaf, n = 1 PROVE Passed(i)
    <3>1. i \in 1..doc[Root].size
      BY DEF FreeLeaf, TopLeaf
    <3>2. calls[1].of = Root /\ Root \in Objects /\ calls[1].next > Len(out[Root]) /\ calls[1].next \in Nat
      <4>1. calls[1].of \in Objects /\ Len(calls[1].of) = 0 /\ calls[1].next \in Nat
        BY <1>4, <2>5 DEF ACall
      <4>2. calls[1].of \in Pos
        BY <1>3, <4>1, ANode DEF Objects
      <4>3. calls[1].of = Root
        BY <4>1, <4>2 DEF Pos, Root
      <4> QED
        BY <1>1, <1>4, <2>5, <4>1, <4>3
    <3>3. Len(out[Root]) = doc[Root].size
      <4>1. Exact(Root, out[Root], dup[Root], read[Root])
        BY <1>3, <1>6, <3>2, TopIsMarked DEF Numbers
      <4>2. read[Root] \in 0..doc[Root].size /\ ~(read[Root] < doc[Root].size)
        BY <1>1, <1>3, <3>2 DEF Loading, Stages, Open
      <4> QED
        BY <1>3, <4>1, <4>2 DEF Exact
    <3>4. i < calls[1].next
      BY <1>3, <3>1, <3>2, <3>3
    <3> QED
      BY <1>1, <3>4 DEF Passed
  <2>6. \A i \in FreeLeaf : Passed(i)' => Kept1(flat, i)
    <3>1. \A i \in FreeLeaf : i \in TopLeaf
      BY DEF FreeLeaf
    <3> QED
      BY <2>1, <2>4, <2>5, <3>1
  <2>7. ASSUME NEW a \in 1..Len(flat), OfTop(flat[a]) PROVE OfTop(flat[a])'
    <3>1. PICK i \in TopLeaf : flat[a] = TopEntry(i) /\ Passed(i)
      BY <2>7 DEF OfTop
    <3>2. Passed(i)'
      BY <2>4, <3>1
    <3> QED
      BY <1>1, <2>2, <3>1, <3>2 DEF OfTop
  <2>8. InOrder(flat)' /\ \A i : Kept1(flat, i)' <=> Kept1(flat, i)
    BY <1>1, <2>1, <2>2 DEF InOrder, Kept1
  <2>9. \A a \in 1..Len(flat') : Nested(flat[a])' \/ OfTop(flat[a])'
    <3>1. ASSUME NEW a \in 1..Len(flat), Nested(flat[a]) PROVE Nested(flat[a])'
      BY <1>1, <3>1 DEF Nested
    <3> QED
      BY <1>1, <2>1, <2>7, <3>1
  <2>10. \A i \in FreeLeaf' : Passed(i)' => Kept1(flat, i)'
    BY <2>2, <2>6, <2>8
  <2> QED
    BY <2>3, <2>8, <2>9, <2>10 DEF TopNames, GoodPrefix
<1> QED
  BY <1>5, <1>6

LEMMA TopNamesOther ==
    ASSUME Shape, TopNames,
           Invalid \/ Hook \/ Flatten \/ KeepWhole \/ MapMember \/ Parsed \/ UNCHANGED vars
    PROVE  TopNames'
<1>0. Stages /\ Tree
  BY TheTree DEF Shape
<1>1. doc' = doc /\ flat' = flat
  BY DEF Invalid, Hook, Flatten, KeepWhole, MapMember, Parsed, vars
<1>2. TopLeaf' = TopLeaf /\ FreeLeaf' = FreeLeaf /\ (\A i : TopEntry(i)' = TopEntry(i)) /\ (TopGood' <=> TopGood)
  BY <1>1, TopStays
<1>3. CASE Invalid \/ Hook \/ Flatten \/ KeepWhole
  <2>1. stage = "text" /\ flat = <<>> /\ calls = <<>>
    BY <1>0, <1>3 DEF Stages, Invalid, Hook, Flatten, KeepWhole, Loaded
  <2>2. \A k \in 1..Len(calls') : GoodPrefix(k, calls'[k].prefix)
    <3>1. CASE Flatten
      <4>1. Len(calls') = 1 /\ calls'[1].prefix = <<>>
        BY <3>1 DEF Flatten, Call
      <4> QED
        BY <4>1 DEF GoodPrefix
    <3>2. CASE ~Flatten
      <4>1. calls' = <<>>
        BY <1>3, <2>1, <3>2 DEF Invalid, Hook, KeepWhole
      <4> QED
        BY <4>1
    <3> QED
      BY <3>1, <3>2
  <2>3. ASSUME NEW i \in FreeLeaf PROVE ~Passed(i)'
    <3>1. i \in 1..doc[Root].size
      BY DEF FreeLeaf, TopLeaf
    <3>2. CASE Invalid \/ Hook
      BY <2>1, <3>2 DEF Invalid, Hook, Passed
    <3>3. CASE Flatten
      <4>1. calls'[1].next = 1 /\ stage' = "flatten" /\ DOMAIN doc # {}
        BY <3>3 DEF Flatten, Call, Loaded
      <4>2. i \in Nat /\ ~(i < 1)
        BY <1>0, <3>1, <4>1, HasRoot
      <4> QED
        BY <4>1, <4>2 DEF Passed
    <3>4. CASE KeepWhole
      <4>1. DOMAIN doc # {} /\ Root \notin Objects
        BY <3>4 DEF KeepWhole, Loaded, Root
      <4>2. Root \in DOMAIN doc /\ doc[Root].size = 0
        BY <1>0, <4>1, HasRoot, ANode
      <4> QED
        BY <3>1, <4>2
    <3> QED
      BY <1>3, <3>2, <3>3, <3>4
  <2>4. \A i \in FreeLeaf' : ~Passed(i)'
    BY <1>2, <2>3
  <2>5. Len(flat') = 0
    BY <1>1, <2>1
  <2>6. InOrder(flat)'
    BY <2>5 DEF InOrder
  <2>7. \A a \in 1..Len(flat') : Nested(flat[a])' \/ OfTop(flat[a])'
    BY <2>5
  <2> QED
    BY <2>2, <2>4, <2>6, <2>7 DEF TopNames, GoodPrefix
<1>4. CASE MapMember \/ Parsed \/ UNCHANGED vars
  <2>1. calls' = calls
    BY <1>4 DEF MapMember, Parsed, vars
  <2>2. \A i : Passed(i)' <=> Passed(i)
    BY <1>4, <2>1 DEF Passed, MapMember, Parsed, vars
  <2>3. InOrder(flat)' <=> InOrder(flat)
    BY <1>1, <1>2 DEF InOrder
  <2>4. \A i : Kept1(flat, i)' <=> Kept1(flat, i)
    BY <1>1, <1>2 DEF Kept1
  <2>5. \A a \in 1..Len(flat) : (OfTop(flat[a])' <=> OfTop(flat[a])) /\ (Nested(flat[a])' <=> Nested(flat[a]))
    BY <1>1, <1>2, <2>2 DEF OfTop, Nested
  <2> QED
    BY <1>1, <1>2, <2>1, <2>2, <2>3, <2>4, <2>5 DEF TopNames, GoodPrefix
<1> QED
  BY <1>3, <1>4

LEMMA TopNamesStep == Shape /\ TopNames /\ [Next]_vars => TopNames'
BY TopNamesMember, TopNamesReturn, TopNamesOther DEF Next

LEMMA TopNamesAtFirst == Init => TopNames
<1> SUFFICES ASSUME Init PROVE TopNames
  OBVIOUS
<1>1. calls = <<>> /\ flat = <<>> /\ stage = "text"
  BY DEF Init
<1> QED
  BY <1>1 DEF TopNames, Passed, InOrder

\* The normalized fields.
Normal == {FieldOf[k] : k \in DOMAIN FieldOf}

LEMMA FieldKey ==
    ASSUME NEW k \in DOMAIN FieldOf
    PROVE  /\ k \in Keys /\ Mark \notin ToSet(k) /\ Dot \notin ToSet(k)
           /\ FieldOf[k] # <<>> => FieldOf[k][1] # "json"
<1>1. k \in Keys /\ ToSet(k) \cap {Mark, Dot} = {} /\ (FieldOf[k] # <<>> => FieldOf[k][1] # "json")
  BY JsonAssumption DEF Mark, Dot
<1> QED
  BY <1>1

\* Which members have a normalized field's name.
LEMMA NormalName ==
    ASSUME NEW m, m.key \in Keys, NEW g \in Normal, FieldName(m) = g
    PROVE  \/ ~IsScalar(m.at) /\ m.key \in DOMAIN FieldOf /\ m.key = g
           \/ IsScalar(m.at) /\ Base(m.key) \in DOMAIN FieldOf /\ FieldOf[Base(m.key)] = g
<1>1. g # <<"json", ".">> \o m.key
  <2>1. SUFFICES ASSUME g = <<"json", ".">> \o m.key PROVE FALSE
    OBVIOUS
  <2>2. PICK k \in DOMAIN FieldOf : g = FieldOf[k]
    BY DEF Normal
  <2>3. m.key \in Seq(Pieces \cup {"json", "."})
    BY DEF Keys
  <2>4. <<"json", ".">> \in Seq(Pieces \cup {"json", "."})
    OBVIOUS
  <2> DEFINE key == m.key
  <2>5. key \in Seq(Pieces \cup {"json", "."})
    BY <2>3
  <2> HIDE DEF key
  <2>6. Len(<<"json", ".">> \o key) = 2 + Len(key) /\ Len(key) \in Nat /\ (<<"json", ".">> \o key)[1] = "json"
    BY <2>4, <2>5
  <2>7. g # <<>> /\ g[1] = "json"
    BY <2>1, <2>6 DEF key
  <2> QED
    BY <2>2, <2>7, FieldKey
<1> QED
  BY <1>1 DEF FieldName

\* A source of a field is an entry of the top level with the field's name,
LEMMA SourceName ==
    ASSUME Tree, Root \in DOMAIN doc, TopGood, NEW g \in Normal, NEW i \in Sources(g)
    PROVE  i \in FreeLeaf /\ FieldName(TopEntry(i)) = g
<1>1. i \in 1..doc[Root].size /\ TopEntry(i).at = <<i>> /\ TopEntry(i).key = SegName(<<i>>)
  BY DEF Sources, TopEntry, Member, Root
<1> DEFINE key == doc[<<i>>].key
<1>2. key \in Keys /\ Mark \notin ToSet(key) /\ <<i>> \in DOMAIN doc /\ Nth(<<i>>) \in Nat \ {0}
  BY <1>1, TopKey
<1>3. CASE IsScalar(<<i>>) /\ key \in {k \in DOMAIN FieldOf : FieldOf[k] = g}
  <2>1. key \in DOMAIN FieldOf /\ FieldOf[key] = g /\ <<i>> \notin Objects
    BY <1>3 DEF IsScalar, Objects
  <2>2. Dot \notin ToSet(key)
    BY <2>1, FieldKey
  <2>3. i \in FreeLeaf
    BY <1>1, <2>1, <2>2 DEF FreeLeaf, TopLeaf, Free
  <2>4. Base(SegName(<<i>>)) = key
    <3> HIDE DEF key
    <3>1. Base(Numbered(key, Nth(<<i>>))) = key
      BY <1>2, BaseOfNumbered
    <3> QED
      BY <3>1 DEF SegName, key
  <2>5. FieldName(TopEntry(i)) = FieldOf[Base(SegName(<<i>>))]
    BY <1>1, <1>3, <2>1, <2>4 DEF FieldName
  <2> QED
    BY <2>1, <2>3, <2>4, <2>5
<1>4. CASE doc[<<i>>].kind = "list" /\ key = g /\ g \in DOMAIN FieldOf /\ First(i)
  <2>1. ~IsScalar(<<i>>) /\ <<i>> \notin Objects
    BY <1>4 DEF IsScalar, Objects
  <2>2. Dot \notin ToSet(key)
    BY <1>4, FieldKey
  <2>3. i \in FreeLeaf
    BY <1>1, <2>1, <2>2 DEF FreeLeaf, TopLeaf, Free
  <2>4. SegName(<<i>>) = g
    BY <1>1, <1>4, FirstKeepsName
  <2>5. FieldName(TopEntry(i)) = g
    BY <1>1, <1>4, <2>1, <2>4 DEF FieldName
  <2> QED
    BY <2>3, <2>5
<1> QED
  BY <1>3, <1>4 DEF Sources

\* and an entry with the field's name is one of its sources.
LEMMA NameSource ==
    ASSUME Tree, Root \in DOMAIN doc, TopGood, NEW g \in Normal, NEW m, m.key \in Keys,
           Nested(m) \/ OfTop(m), FieldName(m) = g
    PROVE  \E i \in Sources(g) : m = TopEntry(i)
<1>1. \/ ~IsScalar(m.at) /\ m.key \in DOMAIN FieldOf /\ m.key = g
      \/ IsScalar(m.at) /\ Base(m.key) \in DOMAIN FieldOf /\ FieldOf[Base(m.key)] = g
  BY NormalName
<1>2. ~HasDot(m.key)
  <2>1. SUFFICES ASSUME HasDot(m.key) PROVE FALSE
    OBVIOUS
  <2>2. Dot \in ToSet(m.key) /\ Dot \in ToSet(Base(m.key))
    BY <2>1, DotInBase
  <2> QED
    BY <1>1, <2>2, FieldKey
<1>3. PICK i \in TopLeaf : m = TopEntry(i)
  BY <1>2 DEF Nested, OfTop
<1>4. i \in 1..doc[Root].size /\ <<i>> \notin Objects /\ m.at = <<i>> /\ m.key = SegName(<<i>>)
  BY <1>3 DEF TopLeaf, TopEntry, Member
<1> DEFINE key == doc[<<i>>].key
           n == Nth(<<i>>)
<1>5. key \in Keys /\ Mark \notin ToSet(key) /\ <<i>> \in DOMAIN doc /\ n \in Nat \ {0}
      /\ m.key = Numbered(key, n)
  BY <1>4, TopKey DEF SegName
<1>6. CASE IsScalar(m.at) /\ Base(m.key) \in DOMAIN FieldOf /\ FieldOf[Base(m.key)] = g
  <2>1. Base(m.key) = key
    <3> HIDE DEF key, n
    <3>1. Base(Numbered(key, n)) = key
      BY <1>5, BaseOfNumbered
    <3> QED
      BY <1>5, <3>1
  <2>2. key \in {k \in DOMAIN FieldOf : FieldOf[k] = g} /\ IsScalar(<<i>>)
    BY <1>4, <1>6, <2>1
  <2>3. i \in Sources(g)
    BY <1>4, <2>2 DEF Sources, Root
  <2> QED
    BY <1>3, <2>3
<1>7. CASE ~IsScalar(m.at) /\ m.key \in DOMAIN FieldOf /\ m.key = g
  <2>1. key = g /\ n = 1
    <3> HIDE DEF key, n
    <3>1. g \in Keys /\ Mark \notin ToSet(g)
      BY <1>7, FieldKey
    <3>2. Numbered(g, 1) = Numbered(key, n)
      BY <1>5, <1>7 DEF Numbered
    <3>3. 1 \in Nat \ {0}
      OBVIOUS
    <3> QED
      BY <1>5, <3>1, <3>2, <3>3, NumberedDiffers
  <2>2. First(i)
    BY <1>4, <2>1, FirstIsOne
  <2>3. doc[<<i>>].kind = "list"
    <3>1. doc[<<i>>].kind \in {"digits", "scalar", "list", "object"}
      <4>1. <<i>> \in DOMAIN doc
        BY <1>5
      <4>2. doc[<<i>>] \in Values
        BY <4>1 DEF Tree, IsTree
      <4> QED
        BY <4>2 DEF Values
    <3> QED
      BY <1>4, <1>5, <1>7, <3>1 DEF IsScalar, Objects
  <2>4. i \in Sources(g)
    BY <1>4, <1>7, <2>1, <2>2, <2>3 DEF Sources, Root
  <2> QED
    BY <1>3, <2>4
<1> QED
  BY <1>1, <1>6, <1>7

LEMMA TopNamesSuffice == Shape /\ Mapping /\ TopNames => MembersStayMembers
<1> SUFFICES ASSUME Shape, Mapping, TopNames, stage = "parsed", TopGood, NEW g \in Normal
             PROVE  /\ g \in DOMAIN fields <=> Sources(g) # {}
                    /\ \A i \in Sources(g) :
                          (\A j \in Sources(g) : j <= i) =>
                              fields[g] = IF IsScalar(<<i>>) THEN Normalized(g, <<i>>) ELSE <<i>>
  BY DEF MembersStayMembers, TopGood, Normal, Mark, Root
<1>1. Tree /\ Root \in DOMAIN doc /\ mapped = Len(flat) /\ Len(flat) \in Nat
  <2>1. flat \in Seq(Entries(Leaves)) /\ mapped = Len(flat)
    BY DEF Shape, Flattened, Stages
  <2> QED
    BY <2>1, FlatHasRoot
<1>2. /\ DOMAIN fields = {FieldNames[a] : a \in 1..Len(flat)}
      /\ \A a \in 1..Len(flat) :
            (\A b \in a + 1..Len(flat) : FieldNames[b] # FieldNames[a]) => fields[FieldNames[a]] = FieldValues[a]
  BY <1>1 DEF Mapping
<1>3. \A a \in 1..Len(flat) : FieldNames[a] = FieldName(flat[a]) /\ FieldValues[a] = FieldValue(flat[a])
  BY DEF FieldNames, FieldValues
<1>4. ASSUME NEW a \in 1..Len(flat), FieldNames[a] = g
      PROVE  \E i \in Sources(g) : flat[a] = TopEntry(i)
  <2>1. flat[a].key \in Keys
    BY FlatEntry
  <2>2. Nested(flat[a]) \/ OfTop(flat[a])
    BY DEF TopNames
  <2>3. FieldName(flat[a]) = g
    BY <1>3, <1>4
  <2> QED
    BY <1>1, <2>1, <2>2, <2>3, NameSource
<1>5. ASSUME NEW i \in Sources(g)
      PROVE  i \in FreeLeaf /\ FieldName(TopEntry(i)) = g /\ TopEntry(i).at = <<i>>
             /\ \E a \in 1..Len(flat) : flat[a] = TopEntry(i)
  <2>1. i \in FreeLeaf /\ FieldName(TopEntry(i)) = g
    BY <1>1, SourceName
  <2>2. Passed(i)
    BY DEF Passed
  <2>3. Kept1(flat, i)
    BY <2>1, <2>2 DEF TopNames
  <2> QED
    BY <1>1, <2>1, <2>3, FreeLeaves DEF Kept1
<1>6. g \in DOMAIN fields <=> Sources(g) # {}
  <2>1. g \in DOMAIN fields => Sources(g) # {}
    BY <1>2, <1>4
  <2>2. ASSUME NEW i \in Sources(g) PROVE g \in DOMAIN fields
    BY <1>2, <1>3, <1>5
  <2> QED
    BY <2>1, <2>2
<1>7. ASSUME NEW i \in Sources(g), \A j \in Sources(g) : j <= i
      PROVE  fields[g] = IF IsScalar(<<i>>) THEN Normalized(g, <<i>>) ELSE <<i>>
  <2>1. PICK a \in 1..Len(flat) : flat[a] = TopEntry(i)
    BY <1>5
  <2>2. FieldNames[a] = g
    BY <1>3, <1>5, <2>1
  <2>3. ASSUME NEW b \in a + 1..Len(flat), FieldNames[b] = g PROVE FALSE
    <3>1. b \in 1..Len(flat) /\ a < b
      BY <1>1
    <3>2. PICK j \in Sources(g) : flat[b] = TopEntry(j)
      BY <1>4, <2>3, <3>1
    <3>3. i \in FreeLeaf /\ j \in FreeLeaf
      BY <1>5
    <3>4. i < j
      <4>1. InOrder(flat)
        BY DEF TopNames
      <4> QED
        BY <2>1, <3>1, <3>2, <3>3, <4>1 DEF InOrder
    <3>5. i \in Nat /\ j \in Nat /\ j <= i
      BY <1>1, <1>7, <3>3, FreeLeaves
    <3> QED
      BY <3>4, <3>5
  <2>4. fields[FieldNames[a]] = FieldValues[a]
    BY <1>2, <2>2, <2>3
  <2>5. fields[g] = FieldValue(TopEntry(i))
    BY <1>3, <2>1, <2>2, <2>4
  <2> QED
    BY <1>5, <2>5 DEF FieldValue
<1> QED
  BY <1>6, <1>7

\* A normalized field of a document is its top level's: it has the value of the last
\* member there that goes to it, whatever a nested or a numbered key may spell.
THEOREM FieldsFromTheTop == Spec => []MembersStayMembers
BY TopNamesAtFirst, TopNamesStep, ShapeHolds, MappingHolds, TopNamesSuffice, PTL DEF Spec

=============================================================================
