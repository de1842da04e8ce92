--------------------------- MODULE KeyValuesProofs ---------------------------
(***************************************************************************)
(* Theorems about the key=value parsers, for every text of the alphabet,   *)
(* of any length: the tokenizer comes to the end and covers the text, each *)
(* pair keeps its name and its original, and the normalized fields come    *)
(* from the right pairs.                                                   *)
(***************************************************************************)
EXTENDS KeyValues, Lemmas, FiniteSetTheorems, TLAPS

Text == Seq(Chars)

-----------------------------------------------------------------------------
(* What is written is a text. *)

LEMMA TheChars ==
    /\ {Blank, Tab, LineFeed, Quote, Escape, "=", "_", "#", "n", "t", "u"} \subseteq Chars
    /\ KeyChars \subseteq Chars
BY TextsAssumption DEF Chars, Punctuation, KeyChars

LEMMA ShortTexts ==
    ASSUME NEW c \in Chars, NEW d \in Chars
    PROVE  <<>> \in Text /\ <<c>> \in Text /\ <<c, d>> \in Text
BY DEF Text

LEMMA GluedText ==
    ASSUME NEW n \in Nat, NEW pieces \in [1..n -> Text]
    PROVE  FlattenSeq(pieces) \in Text
<1>1. pieces \in Seq(Text)
  OBVIOUS
<1> QED
  BY <1>1, FlattenedIsSequence DEF Text

LEMMA PartOfText ==
    ASSUME NEW s \in Text, NEW a \in Nat \ {0}, NEW b \in 0..Len(s)
    PROVE  SubSeq(s, a, b) \in Text
<1>1. \A i \in 1..Len(s) : s[i] \in Chars
  BY DEF Text
<1>2. CASE a > b
  BY <1>2 DEF Text
<1>3. CASE a <= b
  <2>1. Len(s) \in Nat /\ a \in 1..Len(s) /\ b \in 1..Len(s)
    BY <1>3 DEF Text
  <2> QED
    BY <2>1, SubSeqProperties DEF Text
<1> QED
  BY <1>2, <1>3 DEF Text

LEMMA CefWrittenIsText ==
    ASSUME NEW v \in Text
    PROVE  CefWritten(v) \in Text
<1> DEFINE pieces == [i \in 1..Len(v) |->
                        IF v[i] = LineFeed THEN <<Escape, "n">>
                        ELSE IF v[i] \in {"=", Escape} THEN <<Escape, v[i]>> ELSE <<v[i]>>]
<1>1. Len(v) \in Nat /\ \A i \in 1..Len(v) : v[i] \in Chars
  BY DEF Text
<1>2. ASSUME NEW i \in 1..Len(v) PROVE pieces[i] \in Text
  BY <1>1, TheChars, ShortTexts
<1>3. pieces \in [1..Len(v) -> Text]
  BY <1>2
<1>4. CefWritten(v) = FlattenSeq(pieces)
  BY DEF CefWritten, Replaced
<1> HIDE DEF pieces
<1> QED
  BY <1>1, <1>3, <1>4, GluedText

LEMMA KvWrittenIsText ==
    ASSUME NEW v \in Text
    PROVE  KvWritten(v) \in Text
<1> DEFINE pieces == [i \in 1..Len(v) |->
                        IF v[i] \in {Quote, Escape} THEN <<Escape, v[i]>> ELSE <<v[i]>>]
<1>1. Len(v) \in Nat /\ \A i \in 1..Len(v) : v[i] \in Chars
  BY DEF Text
<1>2. ASSUME NEW i \in 1..Len(v) PROVE pieces[i] \in Text
  BY <1>1, TheChars, ShortTexts
<1>3. pieces \in [1..Len(v) -> Text]
  BY <1>2
<1>4. KvWritten(v) = IF Characters(v) \cap {Blank, Tab, LineFeed, Quote} = {} THEN v
                     ELSE <<Quote>> \o FlattenSeq(pieces) \o <<Quote>>
  BY DEF KvWritten, Replaced
<1> HIDE DEF pieces
<1>5. FlattenSeq(pieces) \in Text /\ <<Quote>> \in Text
  BY <1>1, <1>3, GluedText, TheChars, ShortTexts
<1> QED
  BY <1>4, <1>5, ConcatProperties DEF Text

LEMMA LeefEscapedIsText ==
    ASSUME NEW v \in Text
    PROVE  LeefEscaped(v) \in Text
<1> DEFINE piece(c) == CASE c = Escape -> <<Escape, Escape>>
                         [] c = Tab -> <<Escape, "t">>
                         [] c = LineFeed -> <<Escape, "n">>
                         [] OTHER -> <<c>>
           pieces == [i \in 1..Len(v) |-> piece(v[i])]
<1>1. Len(v) \in Nat /\ \A i \in 1..Len(v) : v[i] \in Chars
  BY DEF Text
<1>2. ASSUME NEW i \in 1..Len(v) PROVE pieces[i] \in Text
  BY <1>1, TheChars, ShortTexts
<1>3. pieces \in [1..Len(v) -> Text]
  BY <1>2
<1>4. LeefEscaped(v) = FlattenSeq(pieces)
  BY DEF LeefEscaped, Replaced
<1> HIDE DEF pieces
<1> QED
  BY <1>1, <1>3, <1>4, GluedText

\* A list of pairs, their keys and written values glued together with delimiters.
LEMMA JoinedIsText ==
    ASSUME NEW list \in Seq(WrittenPairs), NEW d \in Chars
    PROVE  /\ Joined(list, CefWritten, d) \in Text
           /\ Joined(list, KvWritten, d) \in Text
           /\ Joined(list, LAMBDA v : v, d) \in Text
<1> DEFINE n == Len(list)
           start(i) == IF i = 1 THEN <<>> ELSE <<d>>
           cef == [i \in 1..n |-> start(i) \o list[i].key \o <<"=">> \o CefWritten(list[i].val)]
           kv == [i \in 1..n |-> start(i) \o list[i].key \o <<"=">> \o KvWritten(list[i].val)]
           leef == [i \in 1..n |-> start(i) \o list[i].key \o <<"=">> \o list[i].val]
<1>1. n \in Nat /\ \A i \in 1..n : list[i].key \in Text /\ list[i].val \in Text
  <2>1. n \in Nat /\ \A i \in 1..n : list[i] \in WrittenPairs
    BY DEF n
  <2> QED
    BY <2>1 DEF WrittenPairs, Text
<1>2. ASSUME NEW i \in 1..n, NEW w \in Text
      PROVE  start(i) \o list[i].key \o <<"=">> \o w \in Text
  <2>1. start(i) \in Text /\ <<"=">> \in Text
    BY TheChars, ShortTexts
  <2> HIDE DEF start
  <2> QED
    BY <1>1, <2>1, ConcatProperties DEF Text
<1> HIDE DEF n, start
<1>3. cef \in [1..n -> Text] /\ kv \in [1..n -> Text] /\ leef \in [1..n -> Text]
  BY <1>1, <1>2, CefWrittenIsText, KvWrittenIsText
<1>4. /\ Joined(list, CefWritten, d) = FlattenSeq(cef)
      /\ Joined(list, KvWritten, d) = FlattenSeq(kv)
      /\ Joined(list, LAMBDA v : v, d) = FlattenSeq(leef)
  BY DEF Joined, n, start
<1> HIDE DEF cef, kv, leef
<1> QED
  BY <1>1, <1>3, <1>4, GluedText

LEMMA PairsAreWritten ==
    ASSUME NEW k \in Text, NEW v \in Text
    PROVE  Pair(k, v) \in WrittenPairs
BY DEF Pair, WrittenPairs, Text

LEMMA SafeKeyIsText ==
    ASSUME NEW k \in Text
    PROVE  <<"u", "_">> \o SafeKey(k) \in Text
<1>1. Len(k) \in Nat /\ \A i \in 1..Len(k) : k[i] \in Chars
  BY DEF Text
<1>2. SafeKey(k) \in [1..Len(k) -> Chars]
  BY <1>1, TheChars DEF SafeKey
<1>3. SafeKey(k) \in Text
  BY <1>1, <1>2 DEF Text
<1>4. <<"u", "_">> \in Text
  BY TheChars, ShortTexts
<1> QED
  BY <1>3, <1>4, ConcatProperties DEF Text

LEMMA ShortSequences ==
    ASSUME NEW S, NEW c \in S, NEW d \in S
    PROVE  <<c>> \in Seq(S) /\ <<c, d>> \in Seq(S) /\ Len(<<c>>) = 1
OBVIOUS

\* The pairs that serialize_leef makes of an event are all in P.
MadeOf(e, P) ==
    /\ Pair(SevKey, e.severity) \in P /\ Pair(SrcKey, e.source) \in P
    /\ Pair(RawKey, LeefEscaped(e.raw)) \in P
    /\ \A i \in 1..Len(e.unknown) :
          Pair(<<"u", "_">> \o SafeKey(e.unknown[i].key), LeefEscaped(e.unknown[i].val)) \in P

LEMMA FourLists ==
    ASSUME NEW P, NEW one \in P, NEW a \in Seq(P), NEW two \in P, NEW b \in Seq(P)
    PROVE  LET list == <<one>> \o a \o <<two>> \o b
           IN  list \in Seq(P) /\ Len(list) >= 2
<1> DEFINE x == <<one>> \o a
           y == x \o <<two>>
           list == y \o b
<1>1. <<one>> \in Seq(P) /\ Len(<<one>>) = 1 /\ <<two>> \in Seq(P) /\ Len(<<two>>) = 1
  BY ShortSequences
<1>2. x \in Seq(P) /\ Len(x) = 1 + Len(a)
  BY <1>1, ConcatProperties
<1> HIDE DEF x
<1>3. y \in Seq(P) /\ Len(y) = Len(x) + 1
  BY <1>1, <1>2, ConcatProperties
<1> HIDE DEF y
<1>4. list \in Seq(P) /\ Len(list) = Len(y) + Len(b)
  BY <1>3, ConcatProperties
<1>5. Len(a) \in Nat /\ Len(b) \in Nat
  OBVIOUS
<1> HIDE DEF list
<1>6. Len(list) >= 2
  BY <1>2, <1>3, <1>4, <1>5
<1> QED
  BY <1>4, <1>6 DEF list, y, x

LEMMA AttributesOf ==
    ASSUME NEW e \in Events, NEW P, MadeOf(e, P)
    PROVE  /\ Attributes(e, SevKey, SrcKey, RawKey) \in Seq(P)
           /\ Len(Attributes(e, SevKey, SrcKey, RawKey)) >= 2
<1> DEFINE source == IF e.source = <<>> THEN <<>> ELSE <<Pair(SrcKey, e.source)>>
           sev == Pair(SevKey, e.severity)
           raw == Pair(RawKey, LeefEscaped(e.raw))
           other(i) == Pair(<<"u", "_">> \o SafeKey(e.unknown[i].key), LeefEscaped(e.unknown[i].val))
           others == [i \in 1..Len(e.unknown) |-> other(i)]
<1>1. sev \in P /\ raw \in P /\ Pair(SrcKey, e.source) \in P
  BY DEF MadeOf
<1>2. \A i \in 1..Len(e.unknown) : other(i) \in P
  BY DEF MadeOf
<1>3. Len(e.unknown) \in Nat
  <2>1. e.unknown \in Seq(WrittenPairs)
    BY KeyValuesAssumption
  <2> QED
    BY <2>1
<1>4. Attributes(e, SevKey, SrcKey, RawKey) = <<sev>> \o source \o <<raw>> \o others
  BY DEF Attributes
<1> HIDE DEF sev, raw, other
<1>5. others \in Seq(P)
  BY <1>2, <1>3
<1>6. source \in Seq(P)
  <2>1. <<Pair(SrcKey, e.source)>> \in Seq(P)
    BY <1>1, ShortSequences
  <2>2. <<>> \in Seq(P)
    OBVIOUS
  <2> QED
    BY <2>1, <2>2, Zenon
<1> HIDE DEF source, others
<1> QED
  BY <1>1, <1>4, <1>5, <1>6, FourLists

LEMMA AttributesArePairs ==
    ASSUME NEW e \in Events
    PROVE  Attributes(e, SevKey, SrcKey, RawKey) \in Seq(WrittenPairs)
<1>1. /\ e.severity \in Text /\ e.source \in Text /\ e.raw \in Text
      /\ e.unknown \in Seq(WrittenPairs)
      /\ SevKey \in Text /\ SrcKey \in Text /\ RawKey \in Text
  BY KeyValuesAssumption DEF Text
<1>2. /\ Pair(SevKey, e.severity) \in WrittenPairs
      /\ Pair(SrcKey, e.source) \in WrittenPairs
      /\ Pair(RawKey, LeefEscaped(e.raw)) \in WrittenPairs
  BY <1>1, LeefEscapedIsText, PairsAreWritten
<1>3. ASSUME NEW i \in 1..Len(e.unknown)
      PROVE  Pair(<<"u", "_">> \o SafeKey(e.unknown[i].key), LeefEscaped(e.unknown[i].val)) \in WrittenPairs
  <2>1. e.unknown[i] \in WrittenPairs
    BY <1>1
  <2>2. e.unknown[i].key \in Text /\ e.unknown[i].val \in Text
    BY <2>1 DEF WrittenPairs, Text
  <2> QED
    BY <2>2, SafeKeyIsText, LeefEscapedIsText, PairsAreWritten
<1>4. MadeOf(e, WrittenPairs)
  BY <1>2, <1>3 DEF MadeOf
<1> QED
  BY <1>4, AttributesOf

LEMMA ReadIsText ==
    ASSUME NEW f, NEW s \in Text, NEW t \in Read(f, s)
    PROVE  t \in Text
<1> DEFINE ends == {0} \cup {i \in 1..Len(s) : s[i] \notin {Blank, Tab, LineFeed}}
<1>1. Len(s) \in Nat /\ ends \subseteq 0..Len(s) /\ ends # {}
  BY DEF Text
<1> HIDE DEF ends
<1>2. Max(ends) \in 0..Len(s)
  BY <1>1, GreatestNumber
<1>3. SubSeq(s, 1, Max(ends)) \in Text
  BY <1>2, PartOfText
<1>4. Stripped(s) = SubSeq(s, 1, Max(ends))
  BY DEF Stripped, ends
<1> QED
  BY <1>3, <1>4 DEF Read

LEMMA WithoutLeadingIsText ==
    ASSUME NEW s \in Text, NEW d
    PROVE  WithoutLeading(s, d) \in Text
BY DEF WithoutLeading, Text

LEMMA TextAtStart == Init => text \in Text /\ delim \in Chars /\ fmt \in Formats
<1> SUFFICES ASSUME Init PROVE text \in Text /\ delim \in Chars /\ fmt \in Formats
  OBVIOUS
<1>1. delim \in Chars /\ fmt \in Formats
  BY KeyValuesAssumption DEF Init
<1>2. CASE fmt # "leef" /\ written \in Lists /\ text \in Read(fmt, Written(fmt, written))
  <2>1. written \in Seq(WrittenPairs) /\ Blank \in Chars
    BY <1>2, KeyValuesAssumption, TheChars
  <2>2. Written(fmt, written) \in Text
    BY <2>1, JoinedIsText DEF Written
  <2> QED
    BY <1>1, <1>2, <2>2, ReadIsText
<1>3. ASSUME NEW e \in Events, text \in Read(fmt, Joined(written, LAMBDA v : v, Tab)),
             written = Attributes(e, SevKey, SrcKey, RawKey)
      PROVE  text \in Text
  <2>1. written \in Seq(WrittenPairs) /\ Tab \in Chars
    BY <1>3, AttributesArePairs, TheChars
  <2>2. Joined(written, LAMBDA v : v, Tab) \in Text
    BY <2>1, JoinedIsText
  <2> QED
    BY <1>3, <2>2, ReadIsText
<1>4. ASSUME NEW n \in Noise,
             text \in {IF fmt = "leef" THEN WithoutLeading(s, delim) ELSE s : s \in Read(fmt, n)}
      PROVE  text \in Text
  <2>1. n \in Text
    BY KeyValuesAssumption DEF Text
  <2>2. PICK s \in Read(fmt, n) : text = IF fmt = "leef" THEN WithoutLeading(s, delim) ELSE s
    BY <1>4
  <2> QED
    BY <2>1, <2>2, ReadIsText, WithoutLeadingIsText
<1> QED
  BY <1>1, <1>2, <1>3, <1>4 DEF Init

-----------------------------------------------------------------------------
(* Where the items of a text are. *)

LEMMA FirstInIsFirst ==
    ASSUME NEW s \in Text, NEW a \in Nat \ {0}, NEW I, I \subseteq a..Len(s)
    PROVE  /\ I = {} => FirstIn(I, s) = Len(s) + 1
           /\ I # {} => FirstIn(I, s) \in I
           /\ \A i \in I : FirstIn(I, s) <= i
<1>1. Len(s) \in Nat /\ I \subseteq Nat
  BY DEF Text
<1>2. I # {} => Min(I) \in I /\ \A i \in I : Min(I) <= i
  BY <1>1, LeastNumber
<1> QED
  BY <1>2 DEF FirstIn

LEMMA KeyEndIsInText ==
    ASSUME NEW s \in Text, NEW f, NEW i \in Nat \ {0}
    PROVE  KeyEnd(f, s, i) = 0 \/ KeyEnd(f, s, i) \in i + 1..Len(s)
<1> DEFINE E == {j \in i + 1..Len(s) : s[j] = "=" /\ \A k \in i..j - 1 : s[k] \in KeyChars}
<1>1. Len(s) \in Nat /\ E \subseteq i + 1..Len(s)
  BY DEF Text
<1>2. KeyEnd(f, s, i) = 0 \/ (E # {} /\ KeyEnd(f, s, i) = Min(E))
  BY DEF KeyEnd
<1> HIDE DEF E
<1>3. E \subseteq Nat
  BY <1>1
<1>4. E # {} => Min(E) \in E
  BY <1>3, LeastNumber
<1> QED
  BY <1>1, <1>2, <1>4

\* An item and the place where the next is looked for: at least one character further, and
\* what is in between and in no item is a separator.
Separator(f, s, d) == IF f = "leef" /\ d \in Characters(s) THEN d ELSE Blank

Advances(s, at, item, sep) ==
    /\ item.from \in at..Len(s) + 1
    /\ item.to \in at - 1..Len(s)
    /\ item.next \in at + 1..Len(s) + 2
    /\ item.to < item.next
    /\ \A p \in at..Len(s) : p < item.next => (item.from <= p /\ p <= item.to) \/ s[p] = sep

LEMMA KeyAnchoredAdvances ==
    ASSUME NEW s \in Text, NEW f, NEW at \in 1..Len(s)
    PROVE  Advances(s, at, KeyAnchored(f, s, at), Blank)
<1> DEFINE I == {i \in at + 1..Len(s) : Boundary(f, s, i)}
           next == FirstIn(I, s)
<1>1. Len(s) \in Nat /\ at \in Nat \ {0}
  BY DEF Text
<1>2. at + 1 \in Nat \ {0} /\ I \subseteq at + 1..Len(s)
  BY <1>1
<1>3. \/ next = Len(s) + 1
      \/ next \in at + 1..Len(s) /\ s[next - 1] = Blank
  <2>1. \A i \in I : s[i - 1] = Blank
    BY DEF Boundary
  <2> HIDE DEF I
  <2> QED
    BY <1>2, <2>1, FirstInIsFirst
<1>4. /\ KeyAnchored(f, s, at).from = at
      /\ KeyAnchored(f, s, at).to = IF next > Len(s) THEN Len(s) ELSE next - 2
      /\ KeyAnchored(f, s, at).next = next
  BY DEF KeyAnchored
<1> HIDE DEF next
<1>5. CASE next = Len(s) + 1
  BY <1>1, <1>4, <1>5 DEF Advances
<1>6. CASE next \in at + 1..Len(s) /\ s[next - 1] = Blank
  <2>1. KeyAnchored(f, s, at).to = next - 2
    BY <1>1, <1>4, <1>6
  <2>2. \A p \in at..Len(s) : p < next => p <= next - 2 \/ p = next - 1
    BY <1>1, <1>6
  <2> QED
    BY <1>1, <1>4, <1>6, <2>1, <2>2 DEF Advances
<1> QED
  BY <1>3, <1>5, <1>6

LEMMA DelimitedAdvances ==
    ASSUME NEW s \in Text, NEW d, NEW at \in 1..Len(s)
    PROVE  Advances(s, at, Delimited(s, d, at), d)
<1> DEFINE I == {i \in at..Len(s) : s[i] = d}
           end == FirstIn(I, s)
<1>1. Len(s) \in Nat /\ at \in Nat \ {0}
  BY DEF Text
<1>2. end = Len(s) + 1 \/ (end \in at..Len(s) /\ s[end] = d)
  <2>1. I \subseteq at..Len(s) /\ \A i \in I : s[i] = d
    OBVIOUS
  <2> HIDE DEF I
  <2> QED
    BY <1>1, <2>1, FirstInIsFirst
<1>3. /\ Delimited(s, d, at).from = at
      /\ Delimited(s, d, at).to = end - 1
      /\ Delimited(s, d, at).next = end + 1
  BY DEF Delimited
<1> HIDE DEF end
<1>4. \A p \in at..Len(s) : p < end + 1 => p <= end - 1 \/ p = end
  BY <1>1, <1>2
<1> QED
  BY <1>1, <1>2, <1>3, <1>4 DEF Advances

LEMMA ClosingIsAfter ==
    ASSUME NEW s \in Text, NEW i \in 1..Len(s), Closing(s, i) # {}
    PROVE  Min(Closing(s, i)) \in i + 1..Len(s)
<1> DEFINE inner == SubSeq(s, i + 1, Len(s))
<1>1. Len(s) \in Nat /\ i \in Nat /\ i + 1 \in Int
  BY DEF Text
<1>2. Len(inner) = Len(s) - i
  <2>1. CASE i = Len(s)
    BY <1>1, <2>1 DEF Text
  <2>2. CASE i # Len(s)
    <3>1. i + 1 \in 1..Len(s) /\ Len(s) \in 1..Len(s)
      BY <1>1, <2>2
    <3>2. Len(inner) = Len(s) - (i + 1) + 1
      BY <3>1, SubSeqProperties DEF Text
    <3> QED
      BY <1>1, <3>2
  <2> QED
    BY <2>1, <2>2
<1>3. Closing(s, i) \subseteq {i + q : q \in 1..Len(inner)}
  BY DEF Closing
<1> HIDE DEF inner
<1>4. Closing(s, i) \subseteq i + 1..Len(s)
  BY <1>1, <1>2, <1>3
<1>5. Closing(s, i) \subseteq Nat
  BY <1>1, <1>4
<1> QED
  BY <1>4, <1>5, LeastNumber

LEMMA TokenAdvances ==
    ASSUME NEW s \in Text, NEW at \in 1..Len(s)
    PROVE  Advances(s, at, Token(s, at), Blank)
<1> DEFINE B == {i \in at..Len(s) : s[i] # Blank}
           b == FirstIn(B, s)
           k == IF b > Len(s) THEN 0 ELSE KeyEnd("kv", s, b)
           quoted == k # 0 /\ k < Len(s) /\ s[k + 1] = Quote /\ Closing(s, k + 1) # {}
           stops == IF k = 0 THEN {Blank} ELSE {Blank, Tab, LineFeed}
           start == IF k = 0 THEN b ELSE k + 1
           S == {i \in start..Len(s) : s[i] \in stops}
           to == IF quoted THEN Min(Closing(s, k + 1)) ELSE FirstIn(S, s) - 1
<1>1. Len(s) \in Nat /\ at \in Nat \ {0}
  BY DEF Text
<1>2. b \in at..Len(s) + 1 /\ (b <= Len(s) => s[b] # Blank)
      /\ \A p \in at..Len(s) : p < b => s[p] = Blank
  <2>1. B \subseteq at..Len(s) /\ \A i \in at..Len(s) : i \in B <=> s[i] # Blank
    OBVIOUS
  <2> HIDE DEF B
  <2>2. /\ B = {} => b = Len(s) + 1
        /\ B # {} => b \in B
        /\ \A i \in B : b <= i
    BY <1>1, <2>1, FirstInIsFirst
  <2> HIDE DEF b
  <2>3. b \in at..Len(s) + 1
    <3>1. Len(s) + 1 \in at..Len(s) + 1
      BY <1>1
    <3>2. \A i \in at..Len(s) : i \in at..Len(s) + 1
      BY <1>1
    <3> QED
      BY <2>1, <2>2, <3>1, <3>2
  <2>4. b <= Len(s) => b \in B
    BY <1>1, <2>2
  <2>5. ASSUME NEW p \in at..Len(s), p < b PROVE p \notin B
    <3>1. p \in Int /\ b \in Int
      BY <1>1, <2>3
    <3> QED
      BY <2>2, <2>5, <3>1
  <2> QED
    BY <2>1, <2>3, <2>4, <2>5
<1>3. /\ Token(s, at).from = b
      /\ Token(s, at).to = to
      /\ Token(s, at).next = to + 1
  BY DEF Token
<1> HIDE DEF b
<1>4. k = 0 \/ (b <= Len(s) /\ k \in b + 1..Len(s))
  <2>1. b \in Nat \ {0}
    BY <1>1, <1>2
  <2>2. KeyEnd("kv", s, b) = 0 \/ KeyEnd("kv", s, b) \in b + 1..Len(s)
    BY <2>1, KeyEndIsInText
  <2>3. b > Len(s) \/ b <= Len(s)
    BY <1>1, <2>1
  <2> QED
    BY <2>2, <2>3
<1>5. start \in Nat \ {0} /\ start >= b /\ start <= Len(s) + 1
  BY <1>1, <1>2, <1>4
<1> HIDE DEF k
<1>6. FirstIn(S, s) \in start..Len(s) + 1
      /\ (k = 0 /\ b <= Len(s) => FirstIn(S, s) # start)
  <2>1. S \subseteq start..Len(s) /\ \A i \in S : s[i] \in stops
    OBVIOUS
  <2> HIDE DEF S, start
  <2>2. S = {} => FirstIn(S, s) = Len(s) + 1
    BY <1>5, <2>1, FirstInIsFirst
  <2>3. S # {} => FirstIn(S, s) \in S
    BY <1>5, <2>1, FirstInIsFirst
  <2>4. FirstIn(S, s) \in start..Len(s) + 1
    <3>1. Len(s) + 1 \in start..Len(s) + 1
      BY <1>1, <1>5
    <3>2. \A i \in start..Len(s) : i \in start..Len(s) + 1
      BY <1>1, <1>5
    <3> QED
      BY <2>1, <2>2, <2>3, <3>1, <3>2
  <2>5. ASSUME k = 0, b <= Len(s), FirstIn(S, s) = start PROVE FALSE
    <3>1. start = b
      BY <2>5 DEF start
    <3>2. s[start] # Blank /\ stops = {Blank}
      BY <1>2, <2>5, <3>1
    <3>3. S # {}
      BY <1>1, <1>5, <2>2, <2>5, <3>1, <1>2
    <3> QED
      BY <2>1, <2>3, <2>5, <3>2, <3>3
  <2> QED
    BY <2>4, <2>5
<1> HIDE DEF S
<1>7. to \in b - 1..Len(s) /\ (b <= Len(s) => to >= b)
  <2>1. CASE quoted
    <3>1. k + 1 \in 1..Len(s) /\ k \in Nat /\ k >= b
      BY <1>1, <1>2, <1>4, <2>1
    <3>2. Min(Closing(s, k + 1)) \in k + 1 + 1..Len(s)
      BY <2>1, <3>1, ClosingIsAfter
    <3>3. to = Min(Closing(s, k + 1))
      BY <2>1
    <3> HIDE DEF to, quoted
    <3>4. to \in Int /\ to >= k + 2 /\ to <= Len(s)
      BY <1>1, <3>1, <3>2, <3>3
    <3> QED
      BY <1>1, <1>2, <3>1, <3>4
  <2>2. CASE ~quoted
    <3>1. to = FirstIn(S, s) - 1
      BY <2>2
    <3> HIDE DEF to, quoted
    <3>2. CASE k = 0
      <4>1. start = b
        BY <3>2
      <4> HIDE DEF start
      <4> QED
        BY <1>1, <1>2, <1>6, <3>1, <3>2, <4>1
    <3>3. CASE k # 0
      <4>1. start = k + 1 /\ k >= b + 1 /\ k \in Nat
        BY <1>1, <1>2, <1>4, <3>3
      <4> HIDE DEF start
      <4> QED
        BY <1>1, <1>2, <1>6, <3>1, <4>1
    <3> QED
      BY <3>2, <3>3
  <2> QED
    BY <2>1, <2>2
<1> HIDE DEF to
<1>8. at \in Int /\ b \in Int /\ to \in Int /\ at <= Len(s) /\ b >= at
  BY <1>1, <1>2, <1>7
<1>9. to \in at - 1..Len(s) /\ to + 1 \in at + 1..Len(s) + 2 /\ to < to + 1
  <2>1. CASE b <= Len(s)
    BY <1>1, <1>7, <1>8, <2>1
  <2>2. CASE ~(b <= Len(s))
    <3>1. b = Len(s) + 1
      BY <1>1, <1>2, <2>2
    <3> QED
      BY <1>1, <1>7, <1>8, <3>1
  <2> QED
    BY <2>1, <2>2
<1>10. ASSUME NEW p \in at..Len(s), p < to + 1 PROVE (b <= p /\ p <= to) \/ s[p] = Blank
  <2>1. p \in Int /\ p <= to
    BY <1>1, <1>8, <1>10
  <2>2. p < b \/ b <= p
    BY <1>8, <2>1
  <2> QED
    BY <1>2, <2>1, <2>2
<1> QED
  BY <1>2, <1>3, <1>9, <1>10 DEF Advances

\* Whatever the format, an item is at or after the position, and the next one after it.
LEMMA ItemAdvances ==
    ASSUME NEW f \in Formats, NEW s \in Text, NEW d, NEW at \in 1..Len(s)
    PROVE  Advances(s, at, Item(f, s, d, at), Separator(f, s, d))
<1>1. CASE f \in {"kv", "fortigate"}
  <2>1. Item(f, s, d, at) = Token(s, at) /\ Separator(f, s, d) = Blank
    BY <1>1 DEF Item, Separator
  <2> QED
    BY <2>1, TokenAdvances
<1>2. CASE f = "leef" /\ d \in Characters(s)
  <2>1. Item(f, s, d, at) = Delimited(s, d, at) /\ Separator(f, s, d) = d
    BY <1>2 DEF Item, Separator
  <2> QED
    BY <2>1, DelimitedAdvances
<1>3. CASE f \notin {"kv", "fortigate"} /\ ~(f = "leef" /\ d \in Characters(s))
  <2>1. Item(f, s, d, at) = KeyAnchored(f, s, at) /\ Separator(f, s, d) = Blank
    BY <1>3 DEF Item, Separator
  <2> QED
    BY <2>1, KeyAnchoredAdvances
<1> QED
  BY <1>1, <1>2, <1>3

-----------------------------------------------------------------------------
(* The inductive invariant. *)

Shapes ==
    /\ fmt \in Formats
    /\ delim \in Chars
    /\ text \in Text
    /\ stage \in {"scan", "map", "parsed", "failed"}
    /\ pos \in 1..Len(text) + 2
    /\ pairs \in Seq([key : Text, n : Nat, raw : Text])
    /\ found \in Seq([key : Text, raw : Text])
    /\ unpaired \in Seq(Text)
    /\ spans \in Seq(Nat \X Nat)
    /\ mapped \in 0..Len(pairs)

Often(key) == Cardinality({j \in 1..Len(found) : found[j].key = key})

\* The tokenizer's dictionary has the pairs of the text with the right numbers, because
\* dup_count has how often each key came.
Numbered ==
    /\ Len(found) = Len(pairs)
    /\ \A i \in 1..Len(pairs) :
          /\ pairs[i].key = found[i].key
          /\ pairs[i].raw = found[i].raw
          /\ pairs[i].n = Occurrence(i)
    /\ DOMAIN dups = {k \in {found[i].key : i \in 1..Len(found)} : Often(k) > 1}
    /\ \A k \in DOMAIN dups : dups[k] = Often(k)

\* What is before the position is in an item or separates two, and no items overlap.
Covered ==
    /\ \A i \in 1..Len(text) :
          i < pos => \/ \E j \in 1..Len(spans) : spans[j][1] <= i /\ i <= spans[j][2]
                     \/ text[i] = Separator(fmt, text, delim)
    /\ \A j \in 1..Len(spans) : spans[j][2] < pos
    /\ \A j \in 1..Len(spans) - 1 : spans[j][2] < spans[j + 1][1]

OriginalOf(i) == Name(found[i].key, Occurrence(i))

\* The pairs that are mapped are in the originals, and the fields are theirs.
Mapped ==
    /\ stage = "scan" => mapped = 0
    /\ stage = "parsed" => mapped = Len(pairs)
    /\ stage \in {"map", "parsed"} => pos > Len(text)
    /\ \A i \in 1..mapped : OriginalOf(i) \in DOMAIN originals /\ originals[OriginalOf(i)] = found[i].raw
    /\ fmt \in {"cef", "leef"} /\ (\A i \in 1..mapped : found[i].key # HeaderKey)
          => /\ Name(HeaderKey, 1) \in DOMAIN originals
             /\ originals[Name(HeaderKey, 1)] = TheHeader
    /\ \A g \in {FieldOf[fmt][k] : k \in DOMAIN FieldOf[fmt]} : LastOneWins(g, mapped)
    /\ DOMAIN fields \subseteq UNION {FieldsOf(found[i].key) : i \in 1..mapped}
    /\ stage = "parsed" => \A i \in 1..Len(unpaired) : unknown[UnpairedName(i)] = unpaired[i]

ParsingInv == Shapes /\ Numbered /\ Covered /\ Mapped

-----------------------------------------------------------------------------
(* How often a key has come. *)

LEMMA OccurrencesAreCounts ==
    /\ \A i : Occurrence(i) = CountIn(found, found[i].key, i)
    /\ \A k : Often(k) = CountIn(found, k, Len(found))
BY DEF Occurrence, Often, CountIn

LEMMA OccurrencesAreCountsNext ==
    /\ \A i : Occurrence(i)' = CountIn(found', found'[i].key, i)
    /\ \A k : Often(k)' = CountIn(found', k, Len(found'))
BY DEF Occurrence, Often, CountIn

-----------------------------------------------------------------------------
(* The tokenizer keeps the invariant. *)

LEMMA InvAtStart == Init => ParsingInv
<1> SUFFICES ASSUME Init PROVE ParsingInv
  OBVIOUS
<1>1. text \in Text /\ delim \in Chars /\ fmt \in Formats
  BY TextAtStart
<1>2. /\ stage = "scan" /\ pos = 1 /\ pairs = <<>> /\ found = <<>> /\ unpaired = <<>>
      /\ spans = <<>> /\ mapped = 0 /\ dups = <<>> /\ fields = <<>>
      /\ originals = IF fmt \in {"cef", "leef"} THEN Put(Empty, Name(HeaderKey, 1), TheHeader) ELSE Empty
  BY DEF Init, Empty
<1>3. Shapes
  <2>1. Len(text) \in Nat
    BY <1>1 DEF Text
  <2> QED
    BY <1>1, <1>2, <2>1 DEF Shapes
<1>4. Numbered
  BY <1>2 DEF Numbered
<1>5. Covered
  <2>1. Len(text) \in Nat
    BY <1>1 DEF Text
  <2> QED
    BY <1>2, <2>1 DEF Covered
<1>6. Mapped
  <2>1. fmt \in {"cef", "leef"} =>
            Name(HeaderKey, 1) \in DOMAIN originals /\ originals[Name(HeaderKey, 1)] = TheHeader
    BY <1>2 DEF Put, Over
  <2>2. \A g : Candidates(g, 0) = {}
    BY DEF Candidates
  <2>3. \A g : LastOneWins(g, mapped)
    BY <1>2, <2>2 DEF LastOneWins
  <2>4. DOMAIN fields = {}
    BY <1>2
  <2> QED
    BY <1>2, <2>1, <2>3, <2>4 DEF Mapped
<1> QED
  BY <1>3, <1>4, <1>5, <1>6 DEF ParsingInv

ScanTakesOne(span) ==
    /\ Advances(text, pos, span, Separator(fmt, text, delim))
    /\ pos' = span.next
    /\ spans' = Append(spans, <<span.from, span.to>>)
    /\ \/ \E key, raw \in Text : TakePair(key, raw)
       \/ \E item \in Text : TakeOther(item)

LEMMA ScanTakes ==
    ASSUME Shapes, Scan
    PROVE  \E span : ScanTakesOne(span)
<1> DEFINE span == Item(fmt, text, delim, pos)
           item == SubSeq(text, span.from, span.to)
           k == IF item = <<>> THEN 0 ELSE KeyEnd(fmt, item, 1)
<1>1. pos \in 1..Len(text) /\ Len(text) \in Nat /\ text \in Text /\ fmt \in Formats
  BY DEF Shapes, Scan, Text
<1>2. Advances(text, pos, span, Separator(fmt, text, delim))
  BY <1>1, ItemAdvances
<1>3. /\ pos' = span.next
      /\ spans' = Append(spans, <<span.from, span.to>>)
      /\ IF k # 0 THEN TakePair(SubSeq(item, 1, k - 1), SubSeq(item, k + 1, Len(item)))
         ELSE TakeOther(item)
  BY DEF Scan
<1> HIDE DEF span
<1>4. item \in Text
  <2>1. span.from \in Nat \ {0} /\ span.to \in 0..Len(text)
    BY <1>1, <1>2 DEF Advances
  <2> QED
    BY <1>1, <2>1, PartOfText
<1> HIDE DEF item
<1>5. CASE k = 0
  BY <1>2, <1>3, <1>4, <1>5 DEF ScanTakesOne
<1>6. CASE k # 0
  <2>1. k \in 2..Len(item) /\ Len(item) \in Nat
    BY <1>4, <1>6, KeyEndIsInText DEF Text
  <2>2. SubSeq(item, 1, k - 1) \in Text /\ SubSeq(item, k + 1, Len(item)) \in Text
    <3>1. k - 1 \in 0..Len(item) /\ k + 1 \in Nat \ {0} /\ Len(item) \in 0..Len(item)
      BY <2>1
    <3> QED
      BY <1>4, <3>1, PartOfText
  <2> HIDE DEF k
  <2> QED
    BY <1>2, <1>3, <1>6, <2>2 DEF ScanTakesOne
<1> QED
  BY <1>5, <1>6

LEMMA ScanKeepsCover ==
    ASSUME ParsingInv, Scan
    PROVE  Covered'
<1>1. PICK span : ScanTakesOne(span)
  BY ScanTakes DEF ParsingInv
<1> DEFINE n == Len(spans)
<1>2. /\ pos \in 1..Len(text) /\ Len(text) \in Nat
      /\ spans \in Seq(Nat \X Nat) /\ n \in Nat
      /\ UNCHANGED <<text, fmt, delim>>
  BY DEF ParsingInv, Shapes, Scan, input, Text
<1>3. /\ span.from \in pos..Len(text) + 1
      /\ span.to \in pos - 1..Len(text)
      /\ span.next \in pos + 1..Len(text) + 2
      /\ span.to < span.next
      /\ \A p \in pos..Len(text) : p < span.next =>
            (span.from <= p /\ p <= span.to) \/ text[p] = Separator(fmt, text, delim)
      /\ pos' = span.next
  BY <1>1 DEF ScanTakesOne, Advances
<1>4. /\ Len(spans') = n + 1
      /\ \A j \in 1..n : spans'[j] = spans[j]
      /\ spans'[n + 1][1] = span.from /\ spans'[n + 1][2] = span.to
  <2>1. spans' = Append(spans, <<span.from, span.to>>)
    BY <1>1 DEF ScanTakesOne
  <2> QED
    BY <1>2, <2>1
<1>5. /\ \A i \in 1..Len(text) : i < pos =>
            \/ \E j \in 1..n : spans[j][1] <= i /\ i <= spans[j][2]
            \/ text[i] = Separator(fmt, text, delim)
      /\ \A j \in 1..n : spans[j][2] < pos
      /\ \A j \in 1..n - 1 : spans[j][2] < spans[j + 1][1]
  BY DEF ParsingInv, Covered
<1>6. \A j \in 1..n : spans[j][1] \in Nat /\ spans[j][2] \in Nat
  BY <1>2
<1> HIDE DEF n
<1>7. ASSUME NEW i \in 1..Len(text), i < span.next
      PROVE  \/ \E j \in 1..n + 1 : spans'[j][1] <= i /\ i <= spans'[j][2]
             \/ text[i] = Separator(fmt, text, delim)
  <2>1. CASE i < pos
    <3>1. CASE text[i] = Separator(fmt, text, delim)
      BY <3>1
    <3>2. ASSUME NEW j \in 1..n, spans[j][1] <= i, i <= spans[j][2]
          PROVE  \E m \in 1..n + 1 : spans'[m][1] <= i /\ i <= spans'[m][2]
      <4>1. j \in 1..n + 1 /\ spans'[j] = spans[j]
        BY <1>2, <1>4
      <4> QED
        BY <3>2, <4>1
    <3> QED
      BY <1>5, <2>1, <3>1, <3>2
  <2>2. CASE ~(i < pos)
    <3>1. i \in pos..Len(text) /\ n + 1 \in 1..n + 1
      BY <1>2, <2>2
    <3> QED
      BY <1>3, <1>4, <1>7, <3>1
  <2> QED
    BY <2>1, <2>2
<1>8. ASSUME NEW j \in 1..n + 1 PROVE spans'[j][2] < span.next
  <2>1. CASE j = n + 1
    BY <1>3, <1>4, <2>1
  <2>2. CASE j # n + 1
    <3>1. j \in 1..n
      BY <1>2, <2>2
    <3>2. spans[j][2] < pos /\ pos < span.next /\ spans[j][2] \in Nat
      BY <1>2, <1>3, <1>5, <1>6, <3>1
    <3>3. pos \in Int /\ span.next \in Int
      BY <1>2, <1>3
    <3> QED
      BY <1>4, <3>1, <3>2, <3>3
  <2> QED
    BY <2>1, <2>2
<1>9. ASSUME NEW j \in 1..n PROVE spans'[j][2] < spans'[j + 1][1]
  <2>1. CASE j = n
    <3>1. spans[j][2] < pos /\ pos <= span.from /\ spans[j][2] \in Nat
      BY <1>2, <1>3, <1>5, <1>6
    <3>2. pos \in Int /\ span.from \in Int
      BY <1>2, <1>3
    <3> QED
      BY <1>4, <2>1, <3>1, <3>2
  <2>2. CASE j # n
    <3>1. j \in 1..n - 1 /\ j + 1 \in 1..n
      BY <1>2, <2>2
    <3> QED
      BY <1>4, <1>5, <3>1
  <2> QED
    BY <2>1, <2>2
<1>10. 1..(n + 1) - 1 = 1..n
  BY <1>2
<1>11. UNCHANGED Separator(fmt, text, delim)
  BY <1>2 DEF Separator
<1> QED
  BY <1>2, <1>3, <1>4, <1>7, <1>8, <1>9, <1>10, <1>11 DEF Covered

LEMMA ScanKeepsShapes ==
    ASSUME ParsingInv, Scan
    PROVE  Shapes'
<1>1. PICK span : ScanTakesOne(span)
  BY ScanTakes DEF ParsingInv
<1>2. Shapes /\ mapped = 0 /\ Len(found) = Len(pairs) /\ stage' = stage
  BY DEF ParsingInv, Mapped, Numbered, Scan
<1>3. /\ fmt \in Formats /\ delim \in Chars /\ text \in Text
      /\ UNCHANGED <<text, fmt, delim, mapped>>
      /\ Len(text) \in Nat
  BY <1>2 DEF Shapes, Scan, input, layers, Text
<1>4. /\ span.from \in Nat /\ span.to \in Nat /\ span.next \in 1..Len(text) + 2
  <2>1. pos \in 1..Len(text)
    BY <1>2 DEF Shapes, Scan
  <2> QED
    BY <1>1, <1>3, <2>1 DEF ScanTakesOne, Advances
<1>5. spans' \in Seq(Nat \X Nat) /\ pos' \in 1..Len(text) + 2
  <2>1. spans' = Append(spans, <<span.from, span.to>>) /\ pos' = span.next
    BY <1>1 DEF ScanTakesOne
  <2>2. spans \in Seq(Nat \X Nat) /\ <<span.from, span.to>> \in Nat \X Nat
    BY <1>2, <1>4 DEF Shapes
  <2> QED
    BY <1>4, <2>1, <2>2, AppendProperties
<1>6. ASSUME NEW key \in Text, NEW raw \in Text, TakePair(key, raw)
      PROVE  /\ pairs' \in Seq([key : Text, n : Nat, raw : Text])
             /\ found' \in Seq([key : Text, raw : Text])
             /\ unpaired' \in Seq(Text)
  <2> DEFINE number == IF Seen(key) THEN Times(key) + 1 ELSE 1
  <2>1. /\ pairs' = Append(pairs, [key |-> key, n |-> number, raw |-> raw])
        /\ found' = Append(found, [key |-> key, raw |-> raw])
        /\ unpaired' = unpaired
    BY <1>6 DEF TakePair
  <2>2. number \in Nat
    <3>1. \A k \in DOMAIN dups : dups[k] \in Nat
      <4>1. Len(found) \in Nat
        BY <1>2 DEF Shapes
      <4> QED
        <5>1. \A k : Often(k) \in Nat
          BY <4>1, CountIsNumber, OccurrencesAreCounts
        <5>2. \A k \in DOMAIN dups : dups[k] = Often(k)
          BY DEF ParsingInv, Numbered
        <5> QED
          BY <5>1, <5>2
    <3>2. Times(key) \in Nat
      BY <3>1 DEF Times
    <3> QED
      BY <3>2
  <2> HIDE DEF number
  <2>3. /\ [key |-> key, n |-> number, raw |-> raw] \in [key : Text, n : Nat, raw : Text]
        /\ [key |-> key, raw |-> raw] \in [key : Text, raw : Text]
    BY <2>2
  <2> QED
    BY <1>2, <2>1, <2>3, AppendProperties DEF Shapes
<1>7. ASSUME NEW item \in Text, TakeOther(item)
      PROVE  /\ pairs' \in Seq([key : Text, n : Nat, raw : Text])
             /\ found' \in Seq([key : Text, raw : Text])
             /\ unpaired' \in Seq(Text)
  BY <1>2, <1>7, AppendProperties DEF Shapes, TakeOther
<1>8. /\ pairs' \in Seq([key : Text, n : Nat, raw : Text])
      /\ found' \in Seq([key : Text, raw : Text])
      /\ unpaired' \in Seq(Text)
  BY <1>1, <1>6, <1>7 DEF ScanTakesOne
<1>9. mapped' \in 0..Len(pairs')
  BY <1>2, <1>3, <1>8
<1> QED
  BY <1>2, <1>3, <1>5, <1>8, <1>9 DEF Shapes

\* The tokenizer knows a key that came before, and how often it came: the number it gives
\* is the number of the occurrence.
LEMMA NumberIsOccurrence ==
    ASSUME Shapes, Numbered, NEW key
    PROVE  /\ Seen(key) <=> Often(key) >= 1
           /\ Often(key) \in Nat
           /\ (IF Seen(key) THEN Times(key) + 1 ELSE 1) = Often(key) + 1
<1> DEFINE n == Len(found)
<1>1. n \in Nat /\ n = Len(pairs)
  BY DEF Shapes, Numbered
<1>2. Often(key) = CountIn(found, key, n) /\ Often(key) \in Nat
  BY <1>1, CountIsNumber, OccurrencesAreCounts
<1>3. \A i \in 1..n : pairs[i].key = found[i].key /\ pairs[i].n = CountIn(found, found[i].key, i)
  BY <1>1, OccurrencesAreCounts DEF Numbered
<1>4. ASSUME NEW i \in 1..n, found[i].key = key
      PROVE  Seen(key) /\ Often(key) >= 1
  <2>1. PICK k \in 1..n : found[k].key = key /\ CountIn(found, key, k) = 1
    BY <1>1, <1>4, CountStartsAtOne
  <2>2. pairs[k].key = key /\ pairs[k].n = 1 /\ k \in 1..Len(pairs)
    BY <1>1, <1>3, <2>1
  <2>3. Seen(key)
    BY <2>2 DEF Seen
  <2>4. CountIn(found, key, n) >= 1
    BY <1>1, <1>4, CountStartsAtOne
  <2> QED
    BY <1>2, <2>3, <2>4
<1>5. ASSUME \A i \in 1..n : found[i].key # key
      PROVE  ~Seen(key) /\ Often(key) = 0
  <2>1. {j \in 1..n : found[j].key = key} = {}
    BY <1>5
  <2>2. Often(key) = 0
    BY <2>1, FS_EmptySet DEF Often
  <2>3. \A i \in 1..Len(pairs) : pairs[i].key # key
    BY <1>1, <1>3, <1>5
  <2> QED
    BY <2>2, <2>3 DEF Seen
<1>6. Seen(key) <=> Often(key) >= 1
  BY <1>4, <1>5
<1>7. Seen(key) => \E i \in 1..n : found[i].key = key
  BY <1>5
<1>8. Seen(key) => Times(key) = Often(key)
  <2>1. key \in DOMAIN dups <=> (\E i \in 1..n : found[i].key = key) /\ Often(key) > 1
    BY DEF Numbered
  <2>2. key \in DOMAIN dups => dups[key] = Often(key)
    BY DEF Numbered
  <2>3. CASE Seen(key) /\ Often(key) > 1
    BY <1>7, <2>1, <2>2, <2>3 DEF Times
  <2>4. CASE Seen(key) /\ ~(Often(key) > 1)
    <3>1. Often(key) = 1
      BY <1>2, <1>6, <2>4
    <3> QED
      BY <2>1, <2>4, <3>1 DEF Times
  <2> QED
    BY <2>3, <2>4
<1> QED
  BY <1>2, <1>4, <1>5, <1>6, <1>8

LEMMA PairIsNumbered ==
    ASSUME Shapes, Numbered, NEW key \in Text, NEW raw \in Text, TakePair(key, raw)
    PROVE  Numbered'
<1>0. PICK n \in Nat : n = Len(found)
  BY DEF Shapes
<1> DEFINE number == IF Seen(key) THEN Times(key) + 1 ELSE 1
<1>1. /\ n \in Nat /\ n = Len(pairs)
      /\ pairs \in Seq([key : Text, n : Nat, raw : Text])
      /\ found \in Seq([key : Text, raw : Text])
  BY <1>0 DEF Shapes, Numbered
<1>2. /\ pairs' = Append(pairs, [key |-> key, n |-> number, raw |-> raw])
      /\ found' = Append(found, [key |-> key, raw |-> raw])
      /\ dups' = IF Seen(key) THEN Put(dups, key, number) ELSE dups
  BY DEF TakePair
<1>3. /\ Seen(key) <=> Often(key) >= 1
      /\ Often(key) \in Nat
      /\ number = Often(key) + 1
  BY NumberIsOccurrence
<1> HIDE DEF number
<1>4. /\ Len(pairs') = n + 1 /\ Len(found') = n + 1
      /\ \A i \in 1..n : pairs'[i] = pairs[i] /\ found'[i] = found[i]
      /\ pairs'[n + 1] = [key |-> key, n |-> number, raw |-> raw]
      /\ found'[n + 1] = [key |-> key, raw |-> raw]
  <2>1. Len(pairs') = n + 1 /\ (\A i \in 1..n : pairs'[i] = pairs[i])
        /\ pairs'[n + 1] = [key |-> key, n |-> number, raw |-> raw]
    BY <1>1, <1>2
  <2>2. Len(found') = n + 1 /\ (\A i \in 1..n : found'[i] = found[i])
        /\ found'[n + 1] = [key |-> key, raw |-> raw]
    <3>1. /\ found \in Seq([key : Text, raw : Text]) /\ n = Len(found)
          /\ found' = Append(found, [key |-> key, raw |-> raw])
          /\ [key |-> key, raw |-> raw] \in [key : Text, raw : Text]
      BY <1>0, <1>1, <1>2
    <3> QED
      BY <3>1, AppendProperties
  <2> QED
    BY <2>1, <2>2
<1>5. ASSUME NEW i \in 1..n PROVE Occurrence(i)' = Occurrence(i)
  <2>1. i \in Nat /\ \A j \in 1..i : j \in 1..n
    BY <1>1
  <2>2. \A j \in 1..i : found'[j].key = found[j].key
    BY <1>4, <2>1
  <2>3. CountIn(found', found'[i].key, i) = CountIn(found, found'[i].key, i)
    BY <2>1, <2>2, CountOfTheSame
  <2> QED
    BY <1>4, <2>3, OccurrencesAreCounts, OccurrencesAreCountsNext
<1>6. ASSUME NEW k
      PROVE  Often(k)' = IF k = key THEN Often(k) + 1 ELSE Often(k)
  <2>1. \A j \in 1..n : found'[j].key = found[j].key
    BY <1>4
  <2>2. CountIn(found', k, n) = CountIn(found, k, n)
    BY <1>1, <2>1, CountOfTheSame
  <2>3. CountIn(found', k, n + 1) =
            IF found'[n + 1].key = k THEN CountIn(found', k, n) + 1 ELSE CountIn(found', k, n)
    BY <1>1, CountOfOneMore
  <2>4. found'[n + 1].key = key
    BY <1>4
  <2> QED
    BY <1>0, <1>4, <2>2, <2>3, <2>4, OccurrencesAreCounts, OccurrencesAreCountsNext
<1>7. Occurrence(n + 1)' = number
  <2>1. Occurrence(n + 1)' = CountIn(found', key, n + 1)
    BY <1>4, OccurrencesAreCountsNext
  <2>2. Often(key)' = CountIn(found', key, n + 1)
    BY <1>4, OccurrencesAreCountsNext
  <2> QED
    BY <1>3, <1>6, <2>1, <2>2
<1>8. ASSUME NEW i \in 1..n + 1
      PROVE  /\ pairs'[i].key = found'[i].key
             /\ pairs'[i].raw = found'[i].raw
             /\ pairs'[i].n = Occurrence(i)'
  <2>1. CASE i = n + 1
    BY <1>4, <1>7, <2>1
  <2>2. CASE i # n + 1
    <3>1. i \in 1..n
      BY <1>1, <2>2
    <3>2. pairs[i].key = found[i].key /\ pairs[i].raw = found[i].raw /\ pairs[i].n = Occurrence(i)
      BY <1>1, <3>1 DEF Numbered
    <3> QED
      BY <1>4, <1>5, <3>1, <3>2
  <2> QED
    BY <2>1, <2>2
<1>9. {found'[i].key : i \in 1..n + 1} = {found[i].key : i \in 1..n} \cup {key}
  <2>1. 1..n + 1 = 1..n \cup {n + 1} /\ found'[n + 1].key = key
    BY <1>1, <1>4
  <2>2. \A i \in 1..n : found'[i].key = found[i].key
    BY <1>4
  <2> QED
    BY <2>1, <2>2
<1>10. /\ DOMAIN dups = {k \in {found[i].key : i \in 1..n} : Often(k) > 1}
       /\ \A k \in DOMAIN dups : dups[k] = Often(k)
  BY <1>0 DEF Numbered
<1>11. CASE Seen(key)
  <2>1. /\ DOMAIN dups' = {key} \cup DOMAIN dups
        /\ dups'[key] = number
        /\ \A k \in DOMAIN dups : k # key => dups'[k] = dups[k]
    BY <1>2, <1>11 DEF Put, Over
  <2>2. Often(key)' > 1 /\ \A k : k # key => Often(k)' = Often(k)
    BY <1>3, <1>6, <1>11
  <2>3. DOMAIN dups' = {k \in {found'[i].key : i \in 1..n + 1} : Often(k)' > 1}
    <3>1. ASSUME NEW k, k # key
          PROVE  k \in DOMAIN dups' <=> k \in {found'[i].key : i \in 1..n + 1} /\ Often(k)' > 1
      BY <1>9, <1>10, <2>1, <2>2, <3>1
    <3>2. key \in DOMAIN dups' /\ key \in {found'[i].key : i \in 1..n + 1} /\ Often(key)' > 1
      BY <1>9, <2>1, <2>2
    <3> QED
      BY <3>1, <3>2
  <2>4. \A k \in DOMAIN dups' : dups'[k] = Often(k)'
    BY <1>3, <1>6, <1>10, <2>1, <2>2
  <2> QED
    BY <1>4, <1>8, <2>3, <2>4 DEF Numbered
<1>12. CASE ~Seen(key)
  <2>1. Often(key) = 0 /\ Often(key)' = 1 /\ \A k : k # key => Often(k)' = Often(k)
    BY <1>3, <1>6, <1>12
  <2>2. DOMAIN dups' = DOMAIN dups /\ key \notin DOMAIN dups /\ dups' = dups
    BY <1>2, <1>10, <1>12, <2>1
  <2>3. DOMAIN dups' = {k \in {found'[i].key : i \in 1..n + 1} : Often(k)' > 1}
    <3>1. ASSUME NEW k, k # key
          PROVE  k \in DOMAIN dups' <=> k \in {found'[i].key : i \in 1..n + 1} /\ Often(k)' > 1
      BY <1>9, <1>10, <2>1, <2>2, <3>1
    <3>2. key \notin DOMAIN dups' /\ ~(Often(key)' > 1)
      BY <2>1, <2>2
    <3> QED
      BY <3>1, <3>2
  <2>4. \A k \in DOMAIN dups' : dups'[k] = Often(k)'
    BY <1>10, <2>1, <2>2
  <2> QED
    BY <1>4, <1>8, <2>3, <2>4 DEF Numbered
<1> QED
  BY <1>11, <1>12

LEMMA SameFoundSameNumbers ==
    ASSUME UNCHANGED <<found, pairs, dups>>, Numbered
    PROVE  Numbered'
BY DEF Numbered, Often, Occurrence

LEMMA ScanKeepsNumbers ==
    ASSUME ParsingInv, Scan
    PROVE  Numbered'
<1>1. PICK span : ScanTakesOne(span)
  BY ScanTakes DEF ParsingInv
<1>2. CASE \E key, raw \in Text : TakePair(key, raw)
  BY <1>2, PairIsNumbered DEF ParsingInv
<1>3. CASE \E item \in Text : TakeOther(item)
  BY <1>3, SameFoundSameNumbers DEF ParsingInv, TakeOther
<1> QED
  BY <1>1, <1>2, <1>3 DEF ScanTakesOne

LEMMA NothingMapped ==
    ASSUME NEW g
    PROVE  Candidates(g, 0) = {} /\ Candidates(g, 0)' = {}
BY DEF Candidates

LEMMA ScanKeepsMapping ==
    ASSUME ParsingInv, Scan
    PROVE  Mapped'
<1>1. stage = "scan" /\ stage' = "scan" /\ UNCHANGED <<layers, fmt>> /\ mapped = 0 /\ mapped' = 0
  BY DEF ParsingInv, Mapped, Scan, layers, input
<1>2. /\ fmt \in {"cef", "leef"} =>
            Name(HeaderKey, 1) \in DOMAIN originals /\ originals[Name(HeaderKey, 1)] = TheHeader
      /\ \A g \in {FieldOf[fmt][k] : k \in DOMAIN FieldOf[fmt]} : g \notin DOMAIN fields
      /\ DOMAIN fields = {}
  <2>1. 1..mapped = {} /\ Mapped
    BY <1>1 DEF ParsingInv
  <2>2. DOMAIN fields = {}
    BY <2>1 DEF Mapped
  <2> QED
    BY <2>1, <2>2 DEF Mapped
<1>3. UNCHANGED <<originals, fields>>
  BY <1>1 DEF layers
<1>4. \A g \in {FieldOf[fmt][k] : k \in DOMAIN FieldOf[fmt]} : LastOneWins(g, 0)'
  BY <1>2, <1>3, NothingMapped DEF LastOneWins
<1>5. 1..mapped' = {}
  BY <1>1
<1> QED
  BY <1>1, <1>2, <1>3, <1>4, <1>5 DEF Mapped

LEMMA ScanKept ==
    ASSUME ParsingInv, Scan
    PROVE  ParsingInv'
BY ScanKeepsShapes, ScanKeepsNumbers, ScanKeepsCover, ScanKeepsMapping DEF ParsingInv

-----------------------------------------------------------------------------
(* Once the text is read, the mapping keeps the invariant. *)

LEMMA ReadStaysRead ==
    ASSUME ParsingInv, UNCHANGED <<input, scanned>>
    PROVE  Numbered' /\ Covered'
<1>1. UNCHANGED <<fmt, delim, text, written, pos, pairs, dups, unpaired, spans, found>>
  BY DEF input, scanned
<1>2. Numbered'
  BY <1>1, SameFoundSameNumbers DEF ParsingInv
<1>3. Covered'
  BY <1>1 DEF ParsingInv, Covered, Separator
<1> QED
  BY <1>2, <1>3

LEMMA SameFoundSameCandidates ==
    ASSUME UNCHANGED <<fmt, found>>
    PROVE  /\ \A i : Occurrence(i)' = Occurrence(i) /\ OriginalOf(i)' = OriginalOf(i)
           /\ \A k : FieldsOf(k)' = FieldsOf(k)
           /\ \A g, n : Candidates(g, n)' = Candidates(g, n)
<1>1. \A i : Occurrence(i)' = Occurrence(i) /\ OriginalOf(i)' = OriginalOf(i)
  BY DEF Occurrence, OriginalOf
<1>2. \A k : FieldsOf(k)' = FieldsOf(k)
  BY DEF FieldsOf
<1>3. ASSUME NEW g, NEW n PROVE Candidates(g, n)' = Candidates(g, n)
  BY <1>1, <1>2 DEF Candidates
<1> QED
  BY <1>1, <1>2, <1>3

LEMMA SameMapping ==
    ASSUME UNCHANGED <<fmt, found, fields, originals, mapped, pairs>>, Mapped
    PROVE  /\ \A i \in 1..mapped' :
                 OriginalOf(i)' \in DOMAIN originals' /\ originals'[OriginalOf(i)'] = found'[i].raw
           /\ fmt' \in {"cef", "leef"} /\ (\A i \in 1..mapped' : found'[i].key # HeaderKey)
                 => /\ Name(HeaderKey, 1) \in DOMAIN originals'
                    /\ originals'[Name(HeaderKey, 1)] = TheHeader
           /\ \A g \in {FieldOf[fmt'][k] : k \in DOMAIN FieldOf[fmt']} : LastOneWins(g, mapped)'
           /\ (DOMAIN fields \subseteq UNION {FieldsOf(found[i].key) : i \in 1..mapped})'
<1>1. \A g : LastOneWins(g, mapped)' <=> LastOneWins(g, mapped)
  BY SameFoundSameCandidates DEF LastOneWins
<1>2. (DOMAIN fields \subseteq UNION {FieldsOf(found[i].key) : i \in 1..mapped})'
  BY SameFoundSameCandidates DEF Mapped
<1> QED
  BY <1>1, <1>2, SameFoundSameCandidates DEF Mapped

LEMMA EndScanKept ==
    ASSUME ParsingInv, EndScan
    PROVE  ParsingInv'
<1>1. /\ UNCHANGED <<fmt, delim, text, written, pos, pairs, dups, unpaired, spans, found>>
      /\ UNCHANGED <<fields, vendor, unknown, originals, mapped>>
      /\ stage' \in {"map", "failed"} /\ pos > Len(text)
  BY DEF EndScan, input, scanned, layers
<1>2. Shapes'
  BY <1>1 DEF ParsingInv, Shapes
<1>3. Numbered' /\ Covered'
  BY <1>1, ReadStaysRead DEF input, scanned
<1>4. Mapped'
  <2>1. stage = "scan" /\ mapped = 0
    BY DEF EndScan, ParsingInv, Mapped
  <2> QED
    BY <1>1, <2>1, SameMapping DEF ParsingInv, Mapped
<1> QED
  BY <1>2, <1>3, <1>4 DEF ParsingInv

\* No pair has the key and number of another.
LEMMA NamesDiffer ==
    ASSUME Shapes, Numbered, NEW i \in 1..Len(found), NEW j \in 1..Len(found), i # j
    PROVE  OriginalOf(i) # OriginalOf(j)
<1>1. Len(found) \in Nat
  BY DEF Shapes
<1>2. ASSUME NEW a \in 1..Len(found), NEW b \in 1..Len(found), a < b, OriginalOf(a) = OriginalOf(b)
      PROVE  FALSE
  <2>1. found[a].key = found[b].key /\ Occurrence(a) = Occurrence(b)
    BY <1>2 DEF OriginalOf, Name
  <2>2. CountIn(found, found[a].key, a) # CountIn(found, found[b].key, b)
    BY <1>1, <1>2, <2>1, CountMovesOn
  <2> QED
    BY <2>1, <2>2, OccurrencesAreCounts
<1>3. i < j \/ j < i
  BY <1>1
<1> QED
  BY <1>2, <1>3

\* What normalizes a pair is what makes it a candidate.
LEMMA NormalizesIfCandidate ==
    ASSUME Shapes, Numbered, NEW m \in Nat, m + 1 \in 1..Len(found), NEW g
    PROVE  /\ Candidates(g, m + 1) =
                  Candidates(g, m) \cup (IF g \in Normalizes(pairs[m + 1]) THEN {m + 1} ELSE {})
           /\ Normalizes(pairs[m + 1]) \subseteq FieldsOf(found[m + 1].key)
<1>1. pairs[m + 1].key = found[m + 1].key /\ pairs[m + 1].n = Occurrence(m + 1)
  BY DEF Numbered
<1>2. Occurrence(m + 1) \in Nat /\ Occurrence(m + 1) >= 1
  <2>1. m + 1 \in Nat /\ m + 1 \in 1..m + 1
    OBVIOUS
  <2> QED
    BY <2>1, CountIsNumber, CountStartsAtOne, OccurrencesAreCounts
<1>3. Occurrence(m + 1) > 1 <=> Occurrence(m + 1) # 1
  BY <1>2
<1>4. g \in Normalizes(pairs[m + 1]) <=>
          /\ g \in FieldsOf(found[m + 1].key)
          /\ fmt \in {"cef", "leef"} => Occurrence(m + 1) = 1
  BY <1>1, <1>3 DEF Normalizes
<1>5. 1..m + 1 = 1..m \cup {m + 1}
  OBVIOUS
<1>6. Candidates(g, m + 1) =
          Candidates(g, m) \cup (IF g \in Normalizes(pairs[m + 1]) THEN {m + 1} ELSE {})
  BY <1>4, <1>5 DEF Candidates
<1> QED
  BY <1>1, <1>6 DEF Normalizes

LEMMA LastOfMore ==
    ASSUME NEW m \in Nat, NEW S, S \subseteq 1..m
    PROVE  Max(S \cup {m + 1}) = m + 1
<1> DEFINE more == S \cup {m + 1}
<1>1. more \subseteq 0..m + 1 /\ m + 1 \in more /\ m + 1 \in Nat
  OBVIOUS
<1>2. \A x \in more : x \in Int /\ x <= m + 1
  OBVIOUS
<1> HIDE DEF more
<1>3. Max(more) \in more /\ m + 1 <= Max(more)
  BY <1>1, GreatestNumber
<1>4. Max(more) = m + 1
  <2>1. Max(more) \in Int /\ Max(more) <= m + 1
    BY <1>2, <1>3
  <2>2. m + 1 <= Max(more) /\ m + 1 \in Int
    BY <1>3
  <2> QED
    BY <2>1, <2>2
<1> QED
  BY <1>4 DEF more

LEMMA MapPairKept ==
    ASSUME ParsingInv, MapPair
    PROVE  ParsingInv'
<1>0. PICK m \in Nat : m = mapped
  BY DEF ParsingInv, Shapes
<1> DEFINE p == pairs[m + 1]
           value == Decode(fmt, p.raw)
<1>1. /\ Shapes /\ Numbered /\ Mapped
      /\ UNCHANGED <<fmt, delim, text, written, pos, pairs, dups, unpaired, spans, found>>
      /\ stage = "map" /\ stage' = "map"
      /\ m < Len(pairs) /\ mapped' = m + 1
      /\ Len(pairs) \in Nat /\ Len(found) = Len(pairs)
  BY <1>0 DEF ParsingInv, Shapes, Numbered, MapPair, input, scanned
<1>2. /\ originals' = Put(originals, Name(p.key, p.n), p.raw)
      /\ fields' = Over([g \in Normalizes(p) |-> Normalized(g, value)], fields)
  BY <1>0 DEF MapPair, OriginalName
<1>3. /\ m + 1 \in 1..Len(found) /\ m + 1 \in 1..Len(pairs) /\ m + 1 \in 0..Len(pairs)
      /\ \A i \in 1..m : i \in 1..Len(found) /\ i # m + 1
      /\ 1..m + 1 = 1..m \cup {m + 1}
  BY <1>1
<1>4. p.key = found[m + 1].key /\ p.raw = found[m + 1].raw /\ p.n = Occurrence(m + 1)
  BY <1>1, <1>3 DEF Numbered
<1>5. Shapes'
  BY <1>1, <1>3 DEF Shapes
<1>6. Numbered' /\ Covered'
  BY <1>1, ReadStaysRead DEF input, scanned
<1>7. \A i : OriginalOf(i)' = OriginalOf(i)
  BY <1>1, SameFoundSameCandidates
<1>8. \A g, n : Candidates(g, n)' = Candidates(g, n)
  BY <1>1, SameFoundSameCandidates
<1> HIDE DEF p, value
<1>9. /\ DOMAIN originals' = {OriginalOf(m + 1)} \cup DOMAIN originals
      /\ originals'[OriginalOf(m + 1)] = found[m + 1].raw
      /\ \A name \in DOMAIN originals : name # OriginalOf(m + 1) => originals'[name] = originals[name]
  BY <1>2, <1>4 DEF Put, Over, OriginalOf
<1>10. ASSUME NEW i \in 1..m + 1
       PROVE  OriginalOf(i) \in DOMAIN originals' /\ originals'[OriginalOf(i)] = found[i].raw
  <2>1. CASE i = m + 1
    BY <1>9, <2>1
  <2>2. CASE i # m + 1
    <3>1. i \in 1..m
      BY <1>3, <2>2
    <3>2. OriginalOf(i) \in DOMAIN originals /\ originals[OriginalOf(i)] = found[i].raw
      BY <1>0, <1>1, <3>1 DEF Mapped
    <3>3. OriginalOf(i) # OriginalOf(m + 1)
      BY <1>1, <1>3, <3>1, NamesDiffer
    <3> QED
      BY <1>9, <3>2, <3>3
  <2> QED
    BY <2>1, <2>2
<1>11. ASSUME fmt \in {"cef", "leef"}, \A i \in 1..m + 1 : found[i].key # HeaderKey
       PROVE  /\ Name(HeaderKey, 1) \in DOMAIN originals'
              /\ originals'[Name(HeaderKey, 1)] = TheHeader
  <2>1. \A i \in 1..mapped : found[i].key # HeaderKey
    BY <1>0, <1>3, <1>11
  <2>2. Name(HeaderKey, 1) \in DOMAIN originals /\ originals[Name(HeaderKey, 1)] = TheHeader
    BY <1>1, <1>11, <2>1 DEF Mapped
  <2>3. Name(HeaderKey, 1) # OriginalOf(m + 1)
    BY <1>3, <1>11 DEF Name, OriginalOf
  <2> QED
    BY <1>9, <2>2, <2>3
<1>12. /\ DOMAIN fields' = Normalizes(p) \cup DOMAIN fields
       /\ \A g \in Normalizes(p) : fields'[g] = Normalized(g, Decode(fmt, found[m + 1].raw))
       /\ \A g \in DOMAIN fields : g \notin Normalizes(p) => fields'[g] = fields[g]
  BY <1>2, <1>4 DEF Over, value
<1>13. ASSUME NEW g \in {FieldOf[fmt][k] : k \in DOMAIN FieldOf[fmt]}
       PROVE  LastOneWins(g, m + 1)'
  <2>1. Candidates(g, m + 1) = Candidates(g, m) \cup (IF g \in Normalizes(p) THEN {m + 1} ELSE {})
    BY <1>1, <1>3, NormalizesIfCandidate DEF p
  <2>2. LastOneWins(g, m)
    BY <1>0, <1>1 DEF Mapped
  <2>3. Candidates(g, m + 1)' = Candidates(g, m + 1)
    BY <1>8
  <2>4. CASE g \in Normalizes(p)
    <3>1. Candidates(g, m + 1) = Candidates(g, m) \cup {m + 1}
      BY <2>1, <2>4
    <3>2. Candidates(g, m) \subseteq 1..m
      BY DEF Candidates
    <3>3. Max(Candidates(g, m + 1)) = m + 1 /\ Candidates(g, m + 1) # {}
      BY <3>1, <3>2, LastOfMore
    <3>4. g \in DOMAIN fields' /\ fields'[g] = Normalized(g, Decode(fmt, found[m + 1].raw))
      BY <1>12, <2>4
    <3> QED
      BY <1>1, <2>3, <3>3, <3>4 DEF LastOneWins, Normalized
  <2>5. CASE g \notin Normalizes(p)
    <3>1. Candidates(g, m + 1) = Candidates(g, m)
      BY <2>1, <2>5
    <3>2. g \in DOMAIN fields' <=> g \in DOMAIN fields
      BY <1>12, <2>5
    <3>3. g \in DOMAIN fields => fields'[g] = fields[g]
      BY <1>12, <2>5
    <3> QED
      BY <1>1, <2>2, <2>3, <3>1, <3>2, <3>3 DEF LastOneWins, Normalized
  <2> QED
    BY <2>4, <2>5
<1>14. DOMAIN fields' \subseteq UNION {FieldsOf(found[i].key) : i \in 1..m + 1}
  <2>1. Normalizes(p) \subseteq FieldsOf(found[m + 1].key)
    BY <1>1, <1>3, NormalizesIfCandidate DEF p
  <2>2. DOMAIN fields \subseteq UNION {FieldsOf(found[i].key) : i \in 1..m}
    BY <1>0, <1>1 DEF Mapped
  <2> QED
    BY <1>3, <1>12, <2>1, <2>2
<1>15. (UNION {FieldsOf(found[i].key) : i \in 1..m + 1})'
           = UNION {FieldsOf(found[i].key) : i \in 1..m + 1}
  BY <1>1 DEF FieldsOf
<1>16. pos' > Len(text')
  BY <1>1 DEF Mapped
<1>17. Mapped'
  BY <1>1, <1>7, <1>10, <1>11, <1>13, <1>14, <1>15, <1>16 DEF Mapped
<1> QED
  BY <1>5, <1>6, <1>17 DEF ParsingInv

LEMMA MapOthersKept ==
    ASSUME ParsingInv, MapOthers
    PROVE  ParsingInv'
<1> DEFINE names == {UnpairedName(i) : i \in 1..Len(unpaired)}
           others == [u \in names |-> unpaired[CHOOSE i \in 1..Len(unpaired) : UnpairedName(i) = u]]
<1>1. /\ UNCHANGED <<fmt, delim, text, written, pos, pairs, dups, unpaired, spans, found>>
      /\ UNCHANGED <<fields, originals, mapped>>
      /\ stage = "map" /\ stage' = "parsed" /\ mapped = Len(pairs)
      /\ unknown' = Over(others, unknown)
      /\ Len(unpaired) \in Nat
  BY DEF MapOthers, input, scanned, ParsingInv, Shapes
<1>2. Shapes'
  BY <1>1 DEF ParsingInv, Shapes
<1>3. Numbered' /\ Covered'
  BY <1>1, ReadStaysRead DEF input, scanned
<1>4. ASSUME NEW i \in 1..Len(unpaired), NEW j \in 1..Len(unpaired), UnpairedName(i) = UnpairedName(j)
      PROVE  i = j
  <2>1. UnpairedKey # <<"unpaired">>
    BY KeyValuesAssumption
  <2>2. i \in Int /\ j \in Int
    BY <1>1
  <2> HIDE DEF names, others
  <2>3. CASE i = 1 \/ j = 1
    BY <1>4, <2>1, <2>3 DEF UnpairedName, Name
  <2>4. CASE i # 1 /\ j # 1
    <3>1. i - 1 = j - 1
      BY <1>4, <2>4 DEF UnpairedName, Name
    <3> QED
      BY <2>2, <3>1
  <2> QED
    BY <2>3, <2>4
<1>5. ASSUME NEW i \in 1..Len(unpaired) PROVE unknown'[UnpairedName(i)] = unpaired[i]
  <2>1. UnpairedName(i) \in names
    OBVIOUS
  <2>2. (CHOOSE j \in 1..Len(unpaired) : UnpairedName(j) = UnpairedName(i)) = i
    BY <1>4
  <2>3. others[UnpairedName(i)] = unpaired[i]
    BY <2>1, <2>2
  <2>4. DOMAIN others = names
    OBVIOUS
  <2> HIDE DEF names, others
  <2> QED
    BY <1>1, <2>1, <2>3, <2>4 DEF Over
<1>6. Mapped'
  <2>1. pos > Len(text)
    BY <1>1 DEF ParsingInv, Mapped
  <2>2. \A i \in 1..Len(unpaired') : unknown'[UnpairedName(i)] = unpaired'[i]
    BY <1>1, <1>5
  <2> HIDE DEF names, others
  <2> QED
    BY <1>1, <2>1, <2>2, SameMapping DEF ParsingInv, Mapped
<1> QED
  BY <1>2, <1>3, <1>6 DEF ParsingInv

LEMMA StutterKept ==
    ASSUME ParsingInv, UNCHANGED vars
    PROVE  ParsingInv'
<1>1. UNCHANGED <<fmt, delim, text, written, pos, pairs, dups, unpaired, spans, found, stage,
                  fields, vendor, unknown, originals, mapped>>
  BY DEF vars, input, scanned, layers
<1>2. Shapes' /\ Numbered' /\ Covered'
  BY <1>1, ReadStaysRead DEF input, scanned, ParsingInv, Shapes
<1>3. Mapped'
  BY <1>1, SameMapping DEF ParsingInv, Mapped
<1> QED
  BY <1>2, <1>3 DEF ParsingInv

-----------------------------------------------------------------------------
(* The theorems. *)

LEMMA ParsingHolds == Spec => []ParsingInv
<1>1. ParsingInv /\ [Next]_vars => ParsingInv'
  BY ScanKept, EndScanKept, MapPairKept, MapOthersKept, StutterKept DEF Next
<1> QED
  BY <1>1, InvAtStart, PTL DEF Spec

\* The tokenizer stays within the text, and the parsers' dictionaries never have two pairs
\* under one name.
THEOREM KeyValuesTypeCorrect == Spec => []KeyValuesTypeOK
<1>1. ASSUME ParsingInv PROVE KeyValuesTypeOK
  <2>1. Shapes /\ Numbered /\ Mapped
    BY <1>1 DEF ParsingInv
  <2>2. ASSUME NEW i \in 1..Len(pairs), NEW j \in 1..Len(pairs), i # j
        PROVE  OriginalName(pairs[i]) # OriginalName(pairs[j])
    <3>1. /\ OriginalName(pairs[i]) = OriginalOf(i)
          /\ OriginalName(pairs[j]) = OriginalOf(j)
          /\ i \in 1..Len(found) /\ j \in 1..Len(found)
      BY <2>1 DEF Numbered, OriginalName, OriginalOf
    <3> QED
      BY <2>1, <2>2, <3>1, NamesDiffer
  <2>3. \A k \in DOMAIN dups : dups[k] >= 2
    <3>1. ASSUME NEW k \in DOMAIN dups PROVE dups[k] >= 2
      <4>1. dups[k] = Often(k) /\ Often(k) > 1
        BY <2>1 DEF Numbered
      <4>2. Often(k) \in Nat
        BY <2>1, NumberIsOccurrence
      <4> QED
        BY <4>1, <4>2
    <3> QED
      BY <3>1
  <2>4. DOMAIN fields \subseteq UNION {FieldsOf(found[i].key) : i \in 1..Len(found)}
    <3>1. \A i \in 1..mapped : i \in 1..Len(found)
      BY <2>1 DEF Shapes, Numbered
    <3>2. DOMAIN fields \subseteq UNION {FieldsOf(found[i].key) : i \in 1..mapped}
      BY <2>1 DEF Mapped
    <3> QED
      BY <3>1, <3>2
  <2> QED
    BY <2>1, <2>2, <2>3, <2>4 DEF KeyValuesTypeOK, Shapes
<1> QED
  BY <1>1, ParsingHolds, PTL

\* Of a text of any length, no character is dropped but a separator, no pair or item loses
\* its place in the originals or the unknown layer to another (tokenize_kv, dup_count, the
\* mapping loops).
THEOREM NothingIsDropped == Spec => []NothingOfTheText
<1>1. ASSUME ParsingInv, stage = "parsed"
      PROVE  /\ \A i \in 1..Len(text) :
                   \/ \E s \in ToSet(spans) : s[1] <= i /\ i <= s[2]
                   \/ text[i] = (IF fmt = "leef" /\ delim \in Characters(text) THEN delim ELSE Blank)
             /\ \A j \in 1..Len(spans) - 1 : spans[j][2] < spans[j + 1][1]
             /\ \A i \in 1..Len(found) :
                   /\ Name(found[i].key, Occurrence(i)) \in DOMAIN originals
                   /\ originals[Name(found[i].key, Occurrence(i))] = found[i].raw
             /\ \A i \in 1..Len(unpaired) : unknown[UnpairedName(i)] = unpaired[i]
             /\ fmt \in {"cef", "leef"} /\ (\A i \in 1..Len(found) : found[i].key # HeaderKey)
                   => originals[Name(HeaderKey, 1)] = TheHeader
  <2>1. Shapes /\ Numbered /\ Covered /\ Mapped
    BY <1>1 DEF ParsingInv
  <2>2. mapped = Len(found) /\ pos > Len(text) /\ pos \in Int /\ Len(text) \in Int
    BY <1>1, <2>1 DEF Shapes, Numbered, Mapped, Text
  <2>3. ASSUME NEW i \in 1..Len(text)
        PROVE  \/ \E s \in ToSet(spans) : s[1] <= i /\ i <= s[2]
               \/ text[i] = (IF fmt = "leef" /\ delim \in Characters(text) THEN delim ELSE Blank)
    <3>1. i < pos
      BY <2>2
    <3>2. ASSUME NEW j \in 1..Len(spans) PROVE spans[j] \in ToSet(spans)
      <4>1. DOMAIN spans = 1..Len(spans)
        BY <2>1 DEF Shapes
      <4> QED
        BY <4>1 DEF ToSet
    <3> QED
      BY <2>1, <3>1, <3>2 DEF Covered, Separator
  <2> QED
    BY <1>1, <2>1, <2>2, <2>3 DEF Covered, Mapped, OriginalOf
<1>2. ParsingInv => NothingOfTheText
  BY <1>1 DEF NothingOfTheText
<1> QED
  BY <1>2, ParsingHolds, PTL

\* Of a text of any length, a normalized field has the value of the last pair that may
\* have it (the mapping loops of the four _parse() methods).
THEOREM RightOneWins == Spec => []TheRightOneWins
<1>1. ParsingInv => TheRightOneWins
  BY DEF ParsingInv, Mapped, Numbered, TheRightOneWins
<1> QED
  BY <1>1, ParsingHolds, PTL

-----------------------------------------------------------------------------
(* What is written is read again: backslashes. *)

EscapedOnes(s) == {p \in 1..Len(s) : Escaped(s)[p]}

\* A character is escaped iff a backslash that is not is before it.
TakenFromTheLeft(s, D, k) ==
    \A p \in 1..k : p \in D <=> (p > 1 /\ s[p - 1] = Escape /\ p - 1 \notin D)

LEMMA EscapedFromTheLeft ==
    ASSUME NEW s \in Text
    PROVE  TakenFromTheLeft(s, EscapedOnes(s), Len(s))
<1> DEFINE n == Len(s)
           Follows(e) == e = [i \in 1..n |-> i > 1 /\ s[i - 1] = Escape /\ ~e[i - 1]]
           reached == {k \in 0..n : \E D \in SUBSET (1..k) : TakenFromTheLeft(s, D, k)}
<1>1. n \in Nat
  BY DEF Text
<1> HIDE DEF n
<1>2. n \in reached
  <2>1. 0 \in reached
    <3>1. {} \in SUBSET (1..0) /\ TakenFromTheLeft(s, {}, 0) /\ 0 \in 0..n
      BY <1>1 DEF TakenFromTheLeft
    <3> QED
      BY <3>1
  <2>2. ASSUME NEW k \in 0..n - 1, k \in reached PROVE k + 1 \in reached
    <3>1. PICK D \in SUBSET (1..k) : TakenFromTheLeft(s, D, k)
      BY <2>2
    <3> DEFINE more == IF k + 1 > 1 /\ s[k] = Escape /\ k \notin D THEN D \cup {k + 1} ELSE D
    <3>2. k + 1 \in 0..n /\ k \in Int /\ more \in SUBSET (1..k + 1)
      BY <1>1
    <3>3. ASSUME NEW p \in 1..k + 1
          PROVE  p \in more <=> (p > 1 /\ s[p - 1] = Escape /\ p - 1 \notin more)
      <4>1. CASE p = k + 1
        <5>1. p - 1 = k /\ p \notin D /\ (p - 1 \in more <=> p - 1 \in D)
          BY <4>1
        <5> QED
          BY <4>1, <5>1
      <4>2. CASE p # k + 1
        <5>1. p \in 1..k /\ p # k + 1 /\ p - 1 # k + 1
          BY <4>2
        <5>2. p \in D <=> (p > 1 /\ s[p - 1] = Escape /\ p - 1 \notin D)
          BY <3>1, <5>1 DEF TakenFromTheLeft
        <5> QED
          BY <5>1, <5>2
      <4> QED
        BY <4>1, <4>2
    <3>4. TakenFromTheLeft(s, more, k + 1)
      BY <3>3 DEF TakenFromTheLeft
    <3> QED
      BY <3>2, <3>4
  <2>3. n \in 0..n
    BY <1>1
  <2> HIDE DEF reached
  <2> QED
    BY <1>1, <2>1, <2>2, <2>3, CountingUp
<1>3. PICK D \in SUBSET (1..n) : TakenFromTheLeft(s, D, n)
  BY <1>2
<1> DEFINE d == [i \in 1..n |-> i \in D]
<1>4. Follows(d)
  <2>1. ASSUME NEW i \in 1..n
        PROVE  (i \in D) = (i > 1 /\ s[i - 1] = Escape /\ ~d[i - 1])
    <3>1. i \in D <=> (i > 1 /\ s[i - 1] = Escape /\ i - 1 \notin D)
      BY <1>3 DEF TakenFromTheLeft
    <3>2. i > 1 => i - 1 \in 1..n
      BY <1>1
    <3>3. i > 1 => (d[i - 1] <=> i - 1 \in D)
      BY <3>2, Zenon
    <3> HIDE DEF d
    <3>4. (i \in D) <=> (i > 1 /\ s[i - 1] = Escape /\ ~d[i - 1])
      BY <3>1, <3>3, Zenon
    <3> QED
      BY <3>4
  <2> QED
    BY <2>1, Zenon
<1>5. Escaped(s) = CHOOSE e : Follows(e)
  BY DEF Escaped, n
<1>6. Follows(Escaped(s))
  <2> HIDE DEF Follows, d
  <2> QED
    BY <1>4, <1>5, Zenon
<1>7. ASSUME NEW p \in 1..n
      PROVE  Escaped(s)[p] <=> (p > 1 /\ s[p - 1] = Escape /\ ~Escaped(s)[p - 1])
  BY <1>6, Zenon
<1>8. ASSUME NEW p \in 1..n
      PROVE  p \in EscapedOnes(s) <=> (p > 1 /\ s[p - 1] = Escape /\ p - 1 \notin EscapedOnes(s))
  <2>1. p > 1 => p - 1 \in 1..n
    BY <1>1
  <2>2. \A q \in 1..n : q \in EscapedOnes(s) <=> Escaped(s)[q]
    BY Zenon DEF EscapedOnes, n
  <2> QED
    BY <1>7, <2>1, <2>2, Zenon
<1> QED
  BY <1>8, Zenon DEF TakenFromTheLeft, n

\* Pieces glued together stand in a text, after its first off characters.
Stands(s, off, pieces, at) ==
    /\ pieces \in Seq(Text)
    /\ PieceEnds(at, pieces)
    /\ off \in Nat
    /\ off + at[Len(pieces)] <= Len(s)
    /\ \A p \in 1..at[Len(pieces)] : s[off + p] = FlattenSeq(pieces)[p]

LEMMA StandingPieces ==
    ASSUME NEW s \in Text, NEW off, NEW pieces, NEW at, Stands(s, off, pieces, at)
    PROVE  /\ Len(pieces) \in Nat /\ off \in Nat /\ Len(s) \in Nat /\ at[0] = 0
           /\ \A k \in 0..Len(pieces) : at[k] \in Nat /\ off + at[k] <= Len(s)
           /\ \A k \in 1..Len(pieces) : Len(pieces[k]) \in Nat /\ at[k] = at[k - 1] + Len(pieces[k])
           /\ \A k \in 1..Len(pieces) : \A j \in 1..Len(pieces[k]) :
                 s[off + at[k - 1] + j] = pieces[k][j]
<1> DEFINE n == Len(pieces)
<1>1. n \in Nat /\ off \in Nat /\ Len(s) \in Nat /\ \A k \in 1..n : Len(pieces[k]) \in Nat
  BY DEF Stands, Text
<1>2. at \in [0..n -> Nat] /\ at[0] = 0 /\ \A k \in 1..n : at[k] = at[k - 1] + Len(pieces[k])
  BY DEF Stands, PieceEnds
<1>3. off + at[n] <= Len(s) /\ pieces \in Seq(Seq(Chars)) /\ PieceEnds(at, pieces)
  BY DEF Stands, Text
<1>4. ASSUME NEW k \in 0..n PROVE at[k] \in Nat /\ off + at[k] <= Len(s)
  <2>1. n \in 0..n /\ k <= n
    BY <1>1
  <2>2. at[k] <= at[n]
    BY <1>3, <2>1, MarksRise
  <2>3. at[k] \in Nat /\ at[n] \in Nat
    BY <1>2, <2>1
  <2> HIDE DEF n
  <2>4. off + at[n] <= Len(s)
    BY <1>3
  <2> QED
    BY <1>1, <2>2, <2>3, <2>4
<1>5. ASSUME NEW k \in 1..n, NEW j \in 1..Len(pieces[k])
      PROVE  s[off + at[k - 1] + j] = pieces[k][j]
  <2>1. at[k - 1] + j \in 1..at[n] /\ FlattenSeq(pieces)[at[k - 1] + j] = pieces[k][j]
    BY <1>3, PiecesStand
  <2>2. s[off + (at[k - 1] + j)] = FlattenSeq(pieces)[at[k - 1] + j]
    BY <2>1 DEF Stands
  <2>3. off + (at[k - 1] + j) = off + at[k - 1] + j
    <3>1. k - 1 \in 0..n
      BY <1>1
    <3>2. at[k - 1] \in Nat
      BY <1>2, <3>1
    <3> HIDE DEF n
    <3> QED
      BY <1>1, <3>2
  <2> QED
    BY <2>1, <2>2, <2>3
<1> QED
  BY <1>1, <1>2, <1>4, <1>5

\* A written piece is a character, or a backslash and the character it takes with it.
Escaping(pieces) ==
    \A k \in 1..Len(pieces) :
        \/ Len(pieces[k]) = 1 /\ pieces[k][1] # Escape
        \/ Len(pieces[k]) = 2 /\ pieces[k][1] = Escape

LEMMA EscapesInPieces ==
    ASSUME NEW s \in Text, NEW off, NEW pieces, NEW at,
           Stands(s, off, pieces, at), Escaping(pieces), off = 0 \/ s[off] # Escape
    PROVE  /\ \A k \in 0..Len(pieces) : off + at[k] + 1 \notin EscapedOnes(s)
           /\ \A k \in 1..Len(pieces) : Len(pieces[k]) = 2 => off + at[k] \in EscapedOnes(s)
<1> DEFINE n == Len(pieces)
           E == EscapedOnes(s)
           plain == {k \in 0..n : off + at[k] + 1 \notin E}
<1>1. /\ n \in Nat /\ off \in Nat /\ Len(s) \in Nat /\ at[0] = 0
      /\ \A k \in 0..n : at[k] \in Nat /\ off + at[k] <= Len(s)
      /\ \A k \in 1..n : Len(pieces[k]) \in Nat /\ at[k] = at[k - 1] + Len(pieces[k])
  BY StandingPieces
<1>2. \A k \in 1..n : \A j \in 1..Len(pieces[k]) : s[off + at[k - 1] + j] = pieces[k][j]
  BY StandingPieces
<1>3. E \subseteq 1..Len(s) /\ \A p \in 1..Len(s) : p \in E <=> (p > 1 /\ s[p - 1] = Escape /\ p - 1 \notin E)
  BY EscapedFromTheLeft DEF TakenFromTheLeft, EscapedOnes
<1>4. \A k \in 1..n : \/ Len(pieces[k]) = 1 /\ pieces[k][1] # Escape
                      \/ Len(pieces[k]) = 2 /\ pieces[k][1] = Escape
  BY DEF Escaping
<1> HIDE DEF n, E
<1>5. 0 \in plain
  <2>1. off + at[0] + 1 = off + 1 /\ 0 \in 0..n
    BY <1>1
  <2>2. ASSUME off + 1 \in E PROVE FALSE
    <3>1. off + 1 \in 1..Len(s) /\ off + 1 > 1 /\ s[(off + 1) - 1] = Escape
      BY <1>3, <2>2
    <3>2. (off + 1) - 1 = off /\ off # 0
      BY <1>1, <3>1
    <3> QED
      BY <3>1, <3>2
  <2> QED
    BY <2>1, <2>2
<1>6. ASSUME NEW k \in 0..n - 1, k \in plain
      PROVE  /\ k + 1 \in plain
             /\ Len(pieces[k + 1]) = 2 => off + at[k + 1] \in E
  <2>1. k + 1 \in 1..n /\ k + 1 \in 0..n /\ (k + 1) - 1 = k /\ k \in 0..n
    BY <1>1
  <2>2. PICK p \in Nat : p = off + at[k] + 1
    BY <1>1, <2>1
  <2>3. p \notin E /\ p >= 1
    BY <1>1, <1>6, <2>1, <2>2
  <2>4. PICK q \in Nat : q = off + at[k + 1] + 1 /\ q = p + Len(pieces[k + 1]) /\ q <= Len(s) + 1
    <3>1. at[k + 1] = at[k] + Len(pieces[k + 1]) /\ Len(pieces[k + 1]) \in Nat
      BY <1>1, <2>1
    <3>2. at[k] \in Nat /\ at[k + 1] \in Nat /\ off + at[k + 1] <= Len(s)
      BY <1>1, <2>1
    <3> HIDE DEF plain
    <3>3. off + at[k + 1] + 1 \in Nat /\ off + at[k + 1] + 1 <= Len(s) + 1
      <4>1. PICK b \in Nat : b = at[k + 1]
        BY <3>2
      <4>2. off \in Nat /\ Len(s) \in Nat /\ off + b <= Len(s)
        BY <1>1, <3>2, <4>1
      <4>3. off + b + 1 \in Nat /\ off + b + 1 <= Len(s) + 1
        BY <4>2
      <4> QED
        BY <4>1, <4>3
    <3>4. off + at[k + 1] + 1 = p + Len(pieces[k + 1])
      BY <1>1, <2>2, <3>1, <3>2, SMTT(20)
    <3> QED
      BY <3>3, <3>4
  <2>5. 1 \in 1..Len(pieces[k + 1]) => s[p] = pieces[k + 1][1]
    BY <1>2, <2>1, <2>2
  <2>6. CASE Len(pieces[k + 1]) = 1 /\ pieces[k + 1][1] # Escape
    <3>1. s[p] # Escape /\ q = p + 1
      BY <2>4, <2>5, <2>6
    <3>2. q \notin E
      <4>1. q - 1 = p
        BY <2>2, <2>4, <3>1
      <4> QED
        BY <1>3, <3>1, <4>1
    <3> QED
      BY <2>1, <2>4, <2>6, <3>2
  <2>7. CASE Len(pieces[k + 1]) = 2 /\ pieces[k + 1][1] = Escape
    <3>1. s[p] = Escape /\ q = p + 2
      BY <2>4, <2>5, <2>7
    <3>2. q - 1 \in 1..Len(s) /\ q - 1 > 1 /\ (q - 1) - 1 = p /\ q - 1 = off + at[k + 1]
      <4>1. at[k + 1] \in Nat
        BY <1>1, <2>1
      <4> HIDE DEF plain
      <4>2. p \in Nat /\ p >= 1 /\ q = p + 2 /\ q <= Len(s) + 1 /\ Len(s) \in Nat
        BY <1>1, <2>3, <2>4, <3>1
      <4>3. q - 1 \in 1..Len(s) /\ q - 1 > 1
        BY <4>2
      <4>4. (q - 1) - 1 = p
        BY <4>2
      <4>5. q - 1 = off + at[k + 1]
        BY <1>1, <2>4, <4>1
      <4> QED
        BY <4>3, <4>4, <4>5
    <3>3. q - 1 \in E
      BY <1>3, <2>3, <3>1, <3>2
    <3>4. q \notin E
      BY <1>3, <3>3
    <3> QED
      BY <2>1, <2>4, <3>2, <3>3, <3>4
  <2> QED
    BY <1>4, <2>1, <2>6, <2>7
<1>7. \A k \in 0..n : k \in plain
  <2> HIDE DEF plain
  <2> QED
    BY <1>1, <1>5, <1>6, CountingUp
<1>8. ASSUME NEW k \in 1..n, Len(pieces[k]) = 2 PROVE off + at[k] \in E
  <2>1. k - 1 \in 0..n - 1 /\ (k - 1) + 1 = k /\ k - 1 \in 0..n
    BY <1>1
  <2>2. k - 1 \in plain
    BY <1>7, <2>1
  <2> HIDE DEF plain
  <2> QED
    BY <1>6, <1>8, <2>1, <2>2
<1> QED
  BY <1>7, <1>8 DEF n, E

LEMMA EscapedOrNot ==
    ASSUME NEW s \in Text, NEW p \in Nat \ {0}
    PROVE  p \in EscapedOnes(s) <=> (p <= Len(s) /\ Escaped(s)[p])
<1>1. p \in 1..Len(s) <=> p <= Len(s)
  BY DEF Text
<1>2. p \in EscapedOnes(s) <=> (p \in 1..Len(s) /\ Escaped(s)[p])
  BY Zenon DEF EscapedOnes
<1> QED
  BY <1>1, <1>2, Zenon

\* A text stands in itself.
LEMMA StandsAlone ==
    ASSUME NEW pieces \in Seq(Text)
    PROVE  /\ FlattenSeq(pieces) \in Text
           /\ \E at : Stands(FlattenSeq(pieces), 0, pieces, at) /\ Len(FlattenSeq(pieces)) = at[Len(pieces)]
<1>1. pieces \in Seq(Seq(Chars))
  BY DEF Text
<1>2. PICK at : PieceEnds(at, pieces)
  BY <1>1, MarksAreThere
<1>3. Len(FlattenSeq(pieces)) = at[Len(pieces)]
  BY <1>1, <1>2, PiecesStand
<1>4. FlattenSeq(pieces) \in Text
  BY <1>1, FlattenedIsSequence DEF Text
<1>5. \A p \in 1..at[Len(pieces)] : FlattenSeq(pieces)[0 + p] = FlattenSeq(pieces)[p]
  <2>1. \A p \in 1..at[Len(pieces)] : 0 + p = p
    OBVIOUS
  <2> QED
    BY <2>1
<1>6. 0 + at[Len(pieces)] <= Len(FlattenSeq(pieces))
  <2>1. Len(FlattenSeq(pieces)) \in Nat
    BY <1>4 DEF Text
  <2> QED
    BY <1>3, <2>1
<1> QED
  BY <1>2, <1>3, <1>4, <1>5, <1>6 DEF Stands

-----------------------------------------------------------------------------
(* What is written is read again: a CEF value. *)

CefPiece(c) ==
    IF c = LineFeed THEN <<Escape, "n">> ELSE IF c \in {"=", Escape} THEN <<Escape, c>> ELSE <<c>>

LEMMA CefPieces ==
    ASSUME NEW v \in Text
    PROVE  LET pieces == [i \in 1..Len(v) |-> CefPiece(v[i])]
           IN  /\ pieces \in Seq(Text) /\ Len(pieces) = Len(v) /\ Escaping(pieces)
               /\ CefWritten(v) = FlattenSeq(pieces)
<1> DEFINE pieces == [i \in 1..Len(v) |-> CefPiece(v[i])]
<1>1. Len(v) \in Nat /\ \A i \in 1..Len(v) : v[i] \in Chars
  BY DEF Text
<1>2. ASSUME NEW i \in 1..Len(v)
      PROVE  /\ CefPiece(v[i]) \in Text
             /\ \/ Len(CefPiece(v[i])) = 1 /\ CefPiece(v[i])[1] # Escape
                \/ Len(CefPiece(v[i])) = 2 /\ CefPiece(v[i])[1] = Escape
  <2>1. CefPiece(v[i]) \in Text
    BY <1>1, TheChars, ShortTexts DEF CefPiece
  <2> QED
    BY <2>1 DEF CefPiece, Escape, LineFeed
<1>3. pieces \in Seq(Text) /\ Len(pieces) = Len(v)
  BY <1>1, <1>2
<1>4. Escaping(pieces)
  BY <1>2, <1>3 DEF Escaping
<1>5. CefWritten(v) = FlattenSeq(pieces)
  BY DEF CefWritten, Replaced, CefPiece
<1> QED
  BY <1>3, <1>4, <1>5

LEMMA CefValueIsRead ==
    ASSUME NEW v \in Text
    PROVE  Unescape(CefWritten(v)) = v
<1> DEFINE n == Len(v)
           pieces == [i \in 1..Len(v) |-> CefPiece(v[i])]
           w == CefWritten(v)
           E == EscapedOnes(w)
           decoded(i) == i <= Len(w) /\ Escaped(w)[i] /\ w[i] \in {"=", Escape, "n"}
           piece(i) == CASE decoded(i + 1) -> <<>>
                         [] decoded(i) /\ w[i] = "n" -> <<LineFeed>>
                         [] OTHER -> <<w[i]>>
           parts == [i \in 1..Len(w) |-> piece(i)]
           targets == [i \in 1..n |-> <<v[i]>>]
<1>1. /\ n \in Nat /\ \A i \in 1..n : v[i] \in Chars
      /\ pieces \in Seq(Text) /\ Len(pieces) = n /\ Escaping(pieces) /\ w = FlattenSeq(pieces)
      /\ \A k \in 1..n : pieces[k] = CefPiece(v[k])
  BY CefPieces DEF Text
<1>2. Unescape(w) = FlattenSeq(parts)
  BY DEF Unescape
<1> HIDE DEF n, w, pieces
<1>3. w \in Text /\ \E at : Stands(w, 0, pieces, at) /\ Len(w) = at[n]
  BY <1>1, StandsAlone
<1>4. PICK at : Stands(w, 0, pieces, at) /\ Len(w) = at[n]
  BY <1>3
<1>5. /\ at[0] = 0 /\ Len(w) \in Nat
      /\ \A k \in 0..n : at[k] \in Nat /\ 0 + at[k] <= Len(w)
      /\ \A k \in 1..n : Len(pieces[k]) \in Nat /\ at[k] = at[k - 1] + Len(pieces[k])
  BY <1>1, <1>3, <1>4, StandingPieces
<1>6. \A k \in 1..n : \A j \in 1..Len(pieces[k]) : w[0 + at[k - 1] + j] = pieces[k][j]
  BY <1>1, <1>3, <1>4, StandingPieces
<1>7. /\ \A k \in 0..n : 0 + at[k] + 1 \notin E
      /\ \A k \in 1..n : Len(pieces[k]) = 2 => 0 + at[k] \in E
  BY <1>1, <1>3, <1>4, EscapesInPieces
<1>7a. \A k \in 0..n : at[k] + 1 \notin E
  <2>1. \A k \in 0..n : 0 + at[k] + 1 = at[k] + 1
    BY <1>5
  <2> QED
    BY <1>7, <2>1
<1>7b. \A k \in 1..n : Len(pieces[k]) = 2 => at[k] \in E
  <2>1. ASSUME NEW k \in 1..n PROVE 0 + at[k] = at[k]
    <3>1. k \in 0..n
      BY <1>1
    <3> QED
      BY <1>5, <3>1
  <2> QED
    BY <1>7, <2>1
<1>8. ASSUME NEW p \in Nat \ {0}
      PROVE  decoded(p) <=> (p \in E /\ w[p] \in {"=", Escape, "n"})
  <2>1. p \in E <=> (p <= Len(w) /\ Escaped(w)[p])
    BY <1>3, EscapedOrNot
  <2> QED
    BY <2>1, Zenon
<1> HIDE DEF decoded, E
<1>9. ASSUME NEW k \in 1..n
      PROVE  \/ Len(pieces[k]) = 1 /\ parts[at[k]] = targets[k]
             \/ Len(pieces[k]) = 2 /\ parts[at[k] - 1] \o parts[at[k]] = targets[k]
  <2>1. k \in 0..n /\ k - 1 \in 0..n
    BY <1>1
  <2>2. PICK p \in Nat, q \in Nat : p = at[k] /\ q = at[k - 1] /\ p <= Len(w) /\ p = q + Len(pieces[k])
    BY <1>5, <2>1
  <2>3. q + 1 \notin E /\ p + 1 \notin E /\ (Len(pieces[k]) = 2 => p \in E)
    <3>1. at[k - 1] + 1 \notin E /\ at[k] + 1 \notin E
      BY <1>7a, <2>1
    <3> QED
      BY <1>7b, <2>2, <3>1
  <2>4. \A j \in 1..Len(pieces[k]) : w[q + j] = pieces[k][j]
    BY <1>6, <2>2
  <2>5. pieces[k] = CefPiece(v[k]) /\ targets[k] = <<v[k]>>
    BY <1>1
  <2>6. ~decoded(p + 1)
    BY <1>8, <2>3
  <2> HIDE DEF targets
  <2>7. CASE pieces[k] = <<v[k]>>
    <3>1. Len(pieces[k]) = 1 /\ p = q + 1
      BY <2>2, <2>7
    <3>2. w[p] = v[k] /\ p \in 1..Len(w)
      BY <1>5, <2>2, <2>4, <2>7, <3>1
    <3>3. ~decoded(p)
      BY <1>8, <2>3, <3>1, <3>2
    <3>4. parts[p] = <<v[k]>>
      BY <2>6, <3>2, <3>3
    <3> QED
      BY <2>2, <2>5, <3>1, <3>4
  <2>8. ASSUME NEW c, pieces[k] = <<Escape, c>>, c \in {"=", Escape, "n"},
               v[k] = IF c = "n" THEN LineFeed ELSE c
        PROVE  Len(pieces[k]) = 2 /\ parts[at[k] - 1] \o parts[at[k]] = targets[k]
    <3>1. Len(pieces[k]) = 2 /\ p = q + 2
      BY <2>2, <2>8
    <3>2. p - 1 = q + 1 /\ p \in 1..Len(w) /\ q + 1 \in 1..Len(w)
      BY <1>5, <2>2, <3>1
    <3>3. w[q + 1] = Escape /\ w[p] = c
      BY <2>4, <2>8, <3>1
    <3>4. decoded(p)
      BY <1>8, <2>3, <2>8, <3>1, <3>2, <3>3
    <3>5. parts[q + 1] = <<>>
      <4>1. (q + 1) + 1 = p
        BY <3>1
      <4>2. decoded((q + 1) + 1)
        BY <3>4, <4>1
      <4>3. ~decoded(q + 1)
        BY <1>8, <2>3, <3>2
      <4> QED
        BY <3>2, <4>2, <4>3
    <3>6. parts[p] = <<v[k]>>
      BY <2>6, <2>8, <3>2, <3>3, <3>4
    <3>7. <<>> \o <<v[k]>> = <<v[k]>>
      OBVIOUS
    <3> HIDE DEF parts
    <3> QED
      BY <2>2, <2>5, <3>1, <3>2, <3>5, <3>6, <3>7
  <2>9. CASE v[k] = LineFeed
    BY <2>5, <2>8, <2>9 DEF CefPiece, LineFeed
  <2>10. CASE v[k] # LineFeed /\ v[k] \in {"=", Escape}
    <3>1. v[k] # "n"
      BY <2>10 DEF Escape
    <3> QED
      BY <2>5, <2>8, <2>10, <3>1 DEF CefPiece
  <2>11. CASE v[k] # LineFeed /\ v[k] \notin {"=", Escape}
    BY <2>5, <2>7, <2>11 DEF CefPiece
  <2> QED
    BY <2>9, <2>10, <2>11
<1>10. parts \in Seq(Text) /\ Len(parts) = at[n] /\ targets \in Seq(Text) /\ Len(targets) = n
  <2>1. \A p \in 1..Len(w) : w[p] \in Chars
    BY <1>3 DEF Text
  <2>2. ASSUME NEW p \in 1..Len(w) PROVE parts[p] \in Text
    BY <2>1, TheChars, ShortTexts
  <2>3. \A k \in 1..n : targets[k] \in Text
    BY <1>1, ShortTexts
  <2>4. parts \in Seq(Text) /\ Len(parts) = Len(w)
    <3> DEFINE each(i) == piece(i)
    <3>1. \A p \in 1..Len(w) : each(p) \in Text
      BY <2>2
    <3>2. parts = [i \in 1..Len(w) |-> each(i)]
      OBVIOUS
    <3> HIDE DEF each, parts
    <3> QED
      BY <1>5, <3>1, <3>2
  <2>5. targets \in Seq(Text) /\ Len(targets) = n
    BY <1>1, <2>3
  <2> QED
    BY <1>4, <2>4, <2>5
<1> HIDE DEF parts, targets
<1>11. InBlocks(Chars, Chars, pieces, at, parts, targets)
  BY <1>1, <1>4, <1>9, <1>10 DEF InBlocks, Stands, Text
<1>12. FlattenSeq(parts) = FlattenSeq(targets)
  BY <1>11, GluedInBlocks
<1>13. FlattenSeq(targets) = v
  BY GluedSingles DEF targets, n, Text
<1> QED
  BY <1>2, <1>12, <1>13 DEF w

-----------------------------------------------------------------------------
(* What is written is read again: a quoted value. *)

KvPiece(c) == IF c \in {Quote, Escape} THEN <<Escape, c>> ELSE <<c>>

KvInner(v) == FlattenSeq([i \in 1..Len(v) |-> KvPiece(v[i])])

Bare(v) == Characters(v) \cap {Blank, Tab, LineFeed, Quote} = {}

LEMMA KvPieces ==
    ASSUME NEW v \in Text
    PROVE  LET pieces == [i \in 1..Len(v) |-> KvPiece(v[i])]
           IN  /\ pieces \in Seq(Text) /\ Len(pieces) = Len(v) /\ Escaping(pieces)
               /\ KvWritten(v) = IF Bare(v) THEN v
                                 ELSE <<Quote>> \o FlattenSeq(pieces) \o <<Quote>>
<1> DEFINE pieces == [i \in 1..Len(v) |-> KvPiece(v[i])]
<1>1. Len(v) \in Nat /\ \A i \in 1..Len(v) : v[i] \in Chars
  BY DEF Text
<1>2. ASSUME NEW i \in 1..Len(v)
      PROVE  /\ KvPiece(v[i]) \in Text
             /\ \/ Len(KvPiece(v[i])) = 1 /\ KvPiece(v[i])[1] # Escape
                \/ Len(KvPiece(v[i])) = 2 /\ KvPiece(v[i])[1] = Escape
  <2>1. KvPiece(v[i]) \in Text
    BY <1>1, TheChars, ShortTexts DEF KvPiece
  <2> QED
    BY <2>1 DEF KvPiece
<1>3. pieces \in Seq(Text) /\ Len(pieces) = Len(v)
  BY <1>1, <1>2
<1>4. Escaping(pieces)
  BY <1>2, <1>3 DEF Escaping
<1>5. KvWritten(v) = IF Bare(v) THEN v ELSE <<Quote>> \o FlattenSeq(pieces) \o <<Quote>>
  BY DEF KvWritten, Replaced, KvPiece, Bare
<1> QED
  BY <1>3, <1>4, <1>5

\* The part of a text in which another stands is that other.
LEMMA PartIs ==
    ASSUME NEW s \in Text, NEW q \in Text, NEW a \in Nat \ {0}, NEW b \in Nat,
           b <= Len(s), a + Len(q) = b + 1, \A k \in 1..Len(q) : s[a - 1 + k] = q[k]
    PROVE  SubSeq(s, a, b) = q
<1> DEFINE part == SubSeq(s, a, b)
<1>1. Len(s) \in Nat /\ Len(q) \in Nat /\ \A i \in 1..Len(s) : s[i] \in Chars
  BY DEF Text
<1>2. \A i \in a..b : s[i] \in Chars
  BY <1>1
<1>3. /\ part \in Seq(Chars)
      /\ Len(part) = IF a <= b THEN b - a + 1 ELSE 0
      /\ \A i \in 1..b - a + 1 : part[i] = s[a + i - 1]
  BY <1>2, SubSeqProperties
<1>4. b - a + 1 = Len(q)
  BY <1>1
<1>5. Len(part) = Len(q)
  BY <1>1, <1>3, <1>4
<1>6. ASSUME NEW k \in 1..Len(q) PROVE part[k] = q[k]
  <2>1. a + k - 1 = a - 1 + k
    OBVIOUS
  <2> QED
    BY <1>3, <1>4, <2>1
<1>7. part \in Seq(Chars) /\ q \in Seq(Chars)
  BY <1>3 DEF Text
<1> HIDE DEF part
<1>8. part = q
  BY <1>5, <1>6, <1>7, SeqEqual
<1> QED
  BY <1>8 DEF part

LEMMA QuotedStands ==
    ASSUME NEW q \in Text
    PROVE  LET w == <<Quote>> \o q \o <<Quote>>
           IN  /\ w \in Text /\ Len(w) = Len(q) + 2 /\ w[1] = Quote /\ w[Len(w)] = Quote
               /\ \A j \in 1..Len(q) : w[1 + j] = q[j]
               /\ SubSeq(w, 2, Len(w) - 1) = q
<1> DEFINE w == <<Quote>> \o q \o <<Quote>>
           n == Len(q)
<1>1. n \in Nat /\ \A i \in 1..n : q[i] \in Chars
  BY DEF Text
<1>2. <<Quote>> \in Text /\ Len(<<Quote>>) = 1 /\ <<Quote>>[1] = Quote
  BY TheChars, ShortTexts
<1>3. <<Quote>> \o q \in Text /\ Len(<<Quote>> \o q) = 1 + n
  BY <1>2, ConcatProperties DEF Text
<1>4. \A i \in 1..1 + n : (<<Quote>> \o q)[i] = IF i <= 1 THEN Quote ELSE q[i - 1]
  <2>1. \A i \in 1..1 + n : (<<Quote>> \o q)[i] = IF i <= 1 THEN <<Quote>>[i] ELSE q[i - 1]
    BY <1>2, ConcatProperties DEF Text
  <2> QED
    BY <2>1, <1>1
<1> DEFINE front == <<Quote>> \o q
<1> HIDE DEF front
<1>5. front \in Text /\ Len(front) = 1 + n /\ w = front \o <<Quote>>
  BY <1>3 DEF front
<1>6. w \in Text /\ Len(w) = n + 2
        /\ \A i \in 1..n + 2 : w[i] = IF i <= 1 + n THEN front[i] ELSE <<Quote>>[i - (1 + n)]
  <2>1. w \in Text /\ Len(w) = (1 + n) + 1
        /\ \A i \in 1..(1 + n) + 1 : w[i] = IF i <= 1 + n THEN front[i] ELSE <<Quote>>[i - (1 + n)]
    BY <1>2, <1>5, ConcatProperties DEF Text
  <2>2. (1 + n) + 1 = n + 2
    BY <1>1
  <2> QED
    BY <2>1, <2>2
<1>7. \A i \in 1..1 + n : front[i] = IF i <= 1 THEN Quote ELSE q[i - 1]
  BY <1>4 DEF front
<1> HIDE DEF w
<1>8. w[1] = Quote
  <2>1. 1 \in 1..n + 2 /\ 1 \in 1..1 + n /\ 1 <= 1 + n
    BY <1>1
  <2> QED
    BY <1>6, <1>7, <2>1
<1>9. w[n + 2] = Quote
  <2>1. n + 2 \in 1..n + 2 /\ ~(n + 2 <= 1 + n) /\ (n + 2) - (1 + n) = 1
    BY <1>1
  <2> QED
    BY <1>2, <1>6, <2>1
<1>10. ASSUME NEW j \in 1..n PROVE w[1 + j] = q[j]
  <2>1. 1 + j \in 1..n + 2 /\ 1 + j \in 1..1 + n /\ 1 + j <= 1 + n /\ ~(1 + j <= 1) /\ (1 + j) - 1 = j
    BY <1>1
  <2> QED
    BY <1>6, <1>7, <2>1
<1>11. SubSeq(w, 2, Len(w) - 1) = q
  <2>1. Len(w) - 1 = n + 1
    BY <1>1, <1>6
  <2>2. w \in Text /\ 2 \in Nat \ {0} /\ n + 1 \in Nat /\ n + 1 <= Len(w) /\ 2 + Len(q) = (n + 1) + 1
    BY <1>1, <1>6
  <2>3. \A k \in 1..Len(q) : w[2 - 1 + k] = q[k]
    <3>1. 2 - 1 = 1
      OBVIOUS
    <3> QED
      BY <1>10, <3>1
  <2>4. SubSeq(w, 2, n + 1) = q
    <3> HIDE DEF n
    <3> QED
      BY <2>2, <2>3, PartIs, SMTT(20)
  <2> QED
    BY <2>1, <2>4
<1> QED
  BY <1>6, <1>8, <1>9, <1>10, <1>11 DEF w, n

\* What is left of a text when the characters that were put in before others are taken out
\* again: in each block of two only the second stays, or both.
Leaves(I, pieces, at, targets) ==
    /\ targets \in Seq(Text) /\ Len(targets) = Len(pieces)
    /\ \A k \in 1..Len(pieces) :
          \/ Len(pieces[k]) = 1 /\ at[k] \in I /\ targets[k] = pieces[k]
          \/ /\ Len(pieces[k]) = 2
             /\ \/ at[k] - 1 \notin I /\ at[k] \in I /\ targets[k] = <<pieces[k][2]>>
                \/ at[k] - 1 \in I /\ at[k] \notin I /\ targets[k] = <<pieces[k][1]>>
                \/ at[k] - 1 \in I /\ at[k] \in I /\ targets[k] = pieces[k]

LEMMA TwoGlued ==
    ASSUME NEW a \in Chars, NEW b \in Chars
    PROVE  /\ <<>> \o <<b>> = <<b>>
           /\ <<a>> \o <<>> = <<a>>
           /\ <<a>> \o <<b>> = <<a, b>>
<1>1. <<a>> \in Seq(Chars) /\ <<b>> \in Seq(Chars) /\ <<a, b>> \in Seq(Chars) /\ <<>> \in Seq(Chars)
  OBVIOUS
<1>2. <<>> \o <<b>> = <<b>> /\ <<a>> \o <<>> = <<a>>
  BY <1>1, ConcatEmptySeq
<1> DEFINE ab == <<a>> \o <<b>>
<1>3. ab \in Seq(Chars) /\ Len(ab) = 2
  BY <1>1, ConcatProperties
<1>4. ab[1] = a /\ ab[2] = b
  BY <1>1
<1>5. Len(<<a, b>>) = 2 /\ <<a, b>>[1] = a /\ <<a, b>>[2] = b
  OBVIOUS
<1> HIDE DEF ab
<1>6. \A i \in 1..Len(ab) : ab[i] = <<a, b>>[i]
  BY <1>3, <1>4, <1>5
<1>7. ab = <<a, b>>
  BY <1>1, <1>3, <1>5, <1>6, SeqEqual
<1> QED
  BY <1>2, <1>7 DEF ab

CutInto(s, pieces, at) == Stands(s, 0, pieces, at) /\ Len(s) = at[Len(pieces)]

LEMMA TakenOut ==
    ASSUME NEW s \in Text, NEW pieces, NEW at, NEW targets, NEW I,
           CutInto(s, pieces, at), Leaves(I, pieces, at, targets)
    PROVE  At(s, I) = FlattenSeq(targets)
<1> DEFINE n == Len(pieces)
           parts == [p \in 1..Len(s) |-> IF p \in I THEN <<s[p]>> ELSE <<>>]
<1>1. /\ n \in Nat /\ Len(s) \in Nat /\ at[0] = 0
      /\ \A k \in 0..n : at[k] \in Nat /\ 0 + at[k] <= Len(s)
      /\ \A k \in 1..n : Len(pieces[k]) \in Nat /\ at[k] = at[k - 1] + Len(pieces[k])
  BY StandingPieces DEF CutInto
<1>2. \A k \in 1..n : \A j \in 1..Len(pieces[k]) : s[0 + at[k - 1] + j] = pieces[k][j]
  BY StandingPieces DEF CutInto
<1>3. parts \in Seq(Text) /\ Len(parts) = Len(s)
      /\ \A p \in 1..Len(s) : parts[p] = IF p \in I THEN <<s[p]>> ELSE <<>>
  <2>1. \A p \in 1..Len(s) : s[p] \in Chars
    BY DEF Text
  <2>2. \A p \in 1..Len(s) : parts[p] \in Text
    BY <2>1, TheChars, ShortTexts
  <2>3. \A p \in 1..Len(s) : parts[p] = IF p \in I THEN <<s[p]>> ELSE <<>>
    OBVIOUS
  <2>4. parts \in Seq(Text) /\ Len(parts) = Len(s)
    <3> DEFINE each(p) == IF p \in I THEN <<s[p]>> ELSE <<>>
    <3>1. \A p \in 1..Len(s) : each(p) \in Text
      BY <2>2
    <3>2. parts = [p \in 1..Len(s) |-> each(p)]
      OBVIOUS
    <3> HIDE DEF each, parts
    <3> QED
      BY <1>1, <3>1, <3>2
  <2> QED
    BY <2>3, <2>4
<1>4. At(s, I) = FlattenSeq(parts)
  BY DEF At
<1>5. pieces \in Seq(Text)
  BY DEF Stands, CutInto
<1> HIDE DEF parts, n
<1>6. ASSUME NEW k \in 1..n
      PROVE  \/ Len(pieces[k]) = 1 /\ parts[at[k]] = targets[k]
             \/ Len(pieces[k]) = 2 /\ parts[at[k] - 1] \o parts[at[k]] = targets[k]
  <2>1. k \in 0..n /\ k - 1 \in 0..n
    BY <1>1
  <2>2. PICK p \in Nat, q \in Nat : p = at[k] /\ q = at[k - 1] /\ p <= Len(s) /\ p = q + Len(pieces[k])
    <3>1. at[k] \in Nat /\ at[k - 1] \in Nat /\ 0 + at[k] <= Len(s)
      BY <1>1, <2>1
    <3>2. at[k] = at[k - 1] + Len(pieces[k]) /\ Len(pieces[k]) \in Nat
      BY <1>1
    <3> QED
      BY <3>1, <3>2
  <2>3. \A j \in 1..Len(pieces[k]) : s[q + j] = pieces[k][j]
    BY <1>2, <2>2
  <2>4. pieces[k] \in Text
    BY <1>5 DEF n
  <2>5. CASE Len(pieces[k]) = 1 /\ targets[k] = pieces[k] /\ at[k] \in I
    <3>1. p = q + 1 /\ p \in 1..Len(s) /\ s[q + 1] = pieces[k][1]
      BY <1>1, <2>2, <2>3, <2>5
    <3>2. parts[p] = <<pieces[k][1]>>
      BY <1>3, <2>2, <2>5, <3>1
    <3>3. pieces[k] = <<pieces[k][1]>>
      BY <2>4, <2>5 DEF Text
    <3> QED
      BY <2>2, <2>5, <3>2, <3>3
  <2>6. ASSUME Len(pieces[k]) = 2
        PROVE  /\ at[k] - 1 = q + 1 /\ pieces[k] = <<pieces[k][1], pieces[k][2]>>
               /\ parts[at[k] - 1] = IF at[k] - 1 \in I THEN <<pieces[k][1]>> ELSE <<>>
               /\ parts[at[k]] = IF at[k] \in I THEN <<pieces[k][2]>> ELSE <<>>
               /\ <<>> \o <<pieces[k][2]>> = <<pieces[k][2]>>
               /\ <<pieces[k][1]>> \o <<>> = <<pieces[k][1]>>
               /\ <<pieces[k][1]>> \o <<pieces[k][2]>> = <<pieces[k][1], pieces[k][2]>>
    <3>1. p = q + 2 /\ p - 1 = q + 1 /\ q + 1 \in 1..Len(s) /\ p \in 1..Len(s)
      <4>1. p = q + 2 /\ p <= Len(s) /\ p \in Nat /\ q \in Nat /\ Len(s) \in Nat
        BY <1>1, <2>2, <2>6
      <4> QED
        BY <4>1
    <3>2. s[q + 1] = pieces[k][1] /\ s[p] = pieces[k][2]
      BY <2>3, <2>6, <3>1
    <3>3. parts[q + 1] = IF q + 1 \in I THEN <<pieces[k][1]>> ELSE <<>>
      BY <1>3, <3>1, <3>2
    <3>4. parts[p] = IF p \in I THEN <<pieces[k][2]>> ELSE <<>>
      BY <1>3, <3>1, <3>2
    <3>5. pieces[k] = <<pieces[k][1], pieces[k][2]>>
      BY <2>4, <2>6 DEF Text
    <3>6. /\ <<>> \o <<pieces[k][2]>> = <<pieces[k][2]>>
          /\ <<pieces[k][1]>> \o <<>> = <<pieces[k][1]>>
          /\ <<pieces[k][1]>> \o <<pieces[k][2]>> = <<pieces[k][1], pieces[k][2]>>
      <4>1. pieces[k][1] \in Chars /\ pieces[k][2] \in Chars
        BY <2>4, <2>6 DEF Text
      <4> QED
        BY <4>1, TwoGlued
    <3>7. at[k] - 1 = q + 1
      BY <2>2, <3>1
    <3> QED
      BY <2>2, <3>3, <3>4, <3>5, <3>6, <3>7
  <2>7. ASSUME Len(pieces[k]) = 2, at[k] - 1 \notin I, at[k] \in I, targets[k] = <<pieces[k][2]>>
        PROVE  parts[at[k] - 1] \o parts[at[k]] = targets[k]
    BY <2>6, <2>7, Zenon
  <2>8. ASSUME Len(pieces[k]) = 2, at[k] - 1 \in I, at[k] \notin I, targets[k] = <<pieces[k][1]>>
        PROVE  parts[at[k] - 1] \o parts[at[k]] = targets[k]
    BY <2>6, <2>8, Zenon
  <2>9. ASSUME Len(pieces[k]) = 2, at[k] - 1 \in I, at[k] \in I, targets[k] = pieces[k]
        PROVE  parts[at[k] - 1] \o parts[at[k]] = targets[k]
    BY <2>6, <2>9, Zenon
  <2> QED
    BY <2>5, <2>7, <2>8, <2>9, Zenon DEF n, Leaves
<1>7. InBlocks(Chars, Chars, pieces, at, parts, targets)
  BY <1>3, <1>5, <1>6 DEF InBlocks, CutInto, Stands, Text, n, Leaves
<1> QED
  BY <1>4, <1>7, GluedInBlocks

LEMMA CutsAreThere ==
    ASSUME NEW pieces \in Seq(Text)
    PROVE  FlattenSeq(pieces) \in Text /\ \E at : CutInto(FlattenSeq(pieces), pieces, at)
BY StandsAlone DEF CutInto

\* replace() of \" leaves the backslashes that are before a backslash.
LEMMA QuotesAreRead ==
    ASSUME NEW v \in Text
    PROVE  LET q == KvInner(v)
           IN  At(q, {i \in 1..Len(q) : ~(q[i] = Escape /\ i < Len(q) /\ q[i + 1] = Quote)})
                 = FlattenSeq([i \in 1..Len(v) |-> IF v[i] = Escape THEN <<Escape, Escape>> ELSE <<v[i]>>])
<1> DEFINE n == Len(v)
           pieces == [i \in 1..n |-> KvPiece(v[i])]
           q == KvInner(v)
           targets == [i \in 1..n |-> IF v[i] = Escape THEN <<Escape, Escape>> ELSE <<v[i]>>]
           I == {i \in 1..Len(q) : ~(q[i] = Escape /\ i < Len(q) /\ q[i + 1] = Quote)}
<1>1. /\ n \in Nat /\ \A i \in 1..n : v[i] \in Chars
      /\ pieces \in Seq(Text) /\ Len(pieces) = n /\ q = FlattenSeq(pieces)
      /\ \A k \in 1..n : pieces[k] = KvPiece(v[k])
  <2>1. n \in Nat /\ \A i \in 1..n : v[i] \in Chars
    BY DEF Text
  <2>2. pieces \in Seq(Text) /\ Len(pieces) = n
    BY KvPieces
  <2>3. q = FlattenSeq(pieces)
    BY DEF KvInner
  <2>4. \A k \in 1..n : pieces[k] = KvPiece(v[k])
    OBVIOUS
  <2> QED
    BY <2>1, <2>2, <2>3, <2>4, Zenon
<1>2. q \in Text /\ \E at : CutInto(q, pieces, at)
  BY <1>1, CutsAreThere
<1>3. PICK at : CutInto(q, pieces, at)
  BY <1>2
<1>4. targets \in Seq(Text) /\ Len(targets) = n
      /\ \A k \in 1..n : targets[k] = IF v[k] = Escape THEN <<Escape, Escape>> ELSE <<v[k]>>
  <2>1. \A k \in 1..n : targets[k] \in Text
    BY <1>1, TheChars, ShortTexts
  <2> QED
    BY <1>1, <2>1
<1> HIDE DEF n, pieces, q, targets
<1>5. /\ at[0] = 0 /\ Len(q) \in Nat /\ Len(q) = at[n]
      /\ \A k \in 0..n : at[k] \in Nat /\ 0 + at[k] <= Len(q)
      /\ \A k \in 1..n : Len(pieces[k]) \in Nat /\ at[k] = at[k - 1] + Len(pieces[k])
  BY <1>1, <1>2, <1>3, StandingPieces DEF CutInto
<1>6. \A k \in 1..n : \A j \in 1..Len(pieces[k]) : q[0 + at[k - 1] + j] = pieces[k][j]
  BY <1>1, <1>2, <1>3, StandingPieces DEF CutInto
<1>7. \A i \in 1..Len(q) : i \in I <=> ~(q[i] = Escape /\ i < Len(q) /\ q[i + 1] = Quote)
  OBVIOUS
<1> HIDE DEF I
<1>8. ASSUME NEW k \in 0..n, at[k] + 1 <= Len(q) PROVE q[at[k] + 1] # Quote
  <2>1. k # n
    BY <1>5, <1>8
  <2>2. k + 1 \in 1..n /\ (k + 1) - 1 = k
    BY <1>1, <2>1
  <2>3. pieces[k + 1] = KvPiece(v[k + 1]) /\ 1 \in 1..Len(pieces[k + 1]) /\ pieces[k + 1][1] # Quote
    <3>1. pieces[k + 1] = KvPiece(v[k + 1])
      BY <1>1, <2>2
    <3>2. 1 \in 1..Len(KvPiece(v[k + 1])) /\ KvPiece(v[k + 1])[1] # Quote
      <4> DEFINE c == v[k + 1]
      <4> HIDE DEF c
      <4>1. CASE c \in {Quote, Escape}
        <5>1. KvPiece(c) = <<Escape, c>>
          BY <4>1 DEF KvPiece
        <5> QED
          BY <5>1 DEF Quote, Escape, c
      <4>2. CASE c \notin {Quote, Escape}
        <5>1. KvPiece(c) = <<c>>
          BY <4>2 DEF KvPiece
        <5> QED
          BY <4>2, <5>1 DEF c
      <4> QED
        BY <4>1, <4>2
    <3> QED
      BY <3>1, <3>2
  <2>4. q[0 + at[k] + 1] = pieces[k + 1][1]
    BY <1>6, <2>2, <2>3
  <2>5. 0 + at[k] + 1 = at[k] + 1
    BY <1>5
  <2> QED
    BY <2>3, <2>4, <2>5
<1>9. ASSUME NEW k \in 1..n
      PROVE  \/ Len(pieces[k]) = 1 /\ at[k] \in I /\ targets[k] = pieces[k]
             \/ /\ Len(pieces[k]) = 2
                /\ \/ at[k] - 1 \notin I /\ at[k] \in I /\ targets[k] = <<pieces[k][2]>>
                   \/ at[k] - 1 \in I /\ at[k] \notin I /\ targets[k] = <<pieces[k][1]>>
                   \/ at[k] - 1 \in I /\ at[k] \in I /\ targets[k] = pieces[k]
  <2>1. k \in 0..n /\ k - 1 \in 0..n
    BY <1>1
  <2>2. PICK a \in Nat, b \in Nat : b = at[k] /\ a = at[k - 1] /\ b <= Len(q) /\ b = a + Len(pieces[k])
    <3>1. at[k] \in Nat /\ at[k - 1] \in Nat /\ 0 + at[k] <= Len(q)
      BY <1>5, <2>1
    <3>2. at[k] = at[k - 1] + Len(pieces[k]) /\ Len(pieces[k]) \in Nat
      BY <1>5
    <3> QED
      BY <3>1, <3>2
  <2>3. \A j \in 1..Len(pieces[k]) : q[a + j] = pieces[k][j]
    BY <1>6, <2>2
  <2>4. b < Len(q) => q[b + 1] # Quote
    <3>1. b < Len(q) => at[k] + 1 <= Len(q)
      BY <1>5, <2>2
    <3> QED
      BY <1>8, <2>1, <2>2, <3>1
  <2>5. pieces[k] = KvPiece(v[k]) /\ targets[k] = IF v[k] = Escape THEN <<Escape, Escape>> ELSE <<v[k]>>
    BY <1>1, <1>4
  <2>6. b \in 1..Len(q) => b \in I
    BY <1>7, <2>4
  <2>7. CASE v[k] \notin {Quote, Escape}
    <3>1. pieces[k] = <<v[k]>> /\ targets[k] = pieces[k]
      BY <2>5, <2>7 DEF KvPiece
    <3>2. Len(pieces[k]) = 1
      BY <3>1
    <3>3. b \in 1..Len(q)
      BY <1>5, <2>2, <3>2
    <3> QED
      BY <2>2, <2>6, <3>1, <3>2, <3>3
  <2>8. CASE v[k] \in {Quote, Escape}
    <3>1. pieces[k] = <<Escape, v[k]>>
      BY <2>5, <2>8 DEF KvPiece
    <3>2. Len(pieces[k]) = 2 /\ pieces[k][1] = Escape /\ pieces[k][2] = v[k]
      BY <3>1
    <3>3. b \in 1..Len(q) /\ b - 1 \in 1..Len(q) /\ b - 1 = a + 1 /\ b = a + 2 /\ (b - 1) + 1 = b /\ b - 1 < Len(q)
      <4>1. b = a + 2 /\ b <= Len(q) /\ Len(q) \in Nat
        BY <1>5, <2>2, <3>2
      <4>2. b \in 1..Len(q) /\ b - 1 \in 1..Len(q) /\ b - 1 < Len(q)
        BY <4>1
      <4> QED
        BY <4>1, <4>2
    <3>4. q[b - 1] = Escape /\ q[b] = v[k]
      BY <2>3, <3>2, <3>3
    <3>5. b - 1 \in I <=> v[k] # Quote
      BY <1>7, <3>3, <3>4
    <3>6. CASE v[k] = Quote
      <4>1. targets[k] = <<v[k]>>
        BY <2>5, <3>6 DEF Quote, Escape
      <4> QED
        BY <2>2, <2>6, <3>2, <3>3, <3>5, <3>6, <4>1
    <3>7. CASE v[k] = Escape
      <4>1. targets[k] = <<Escape, Escape>> /\ v[k] # Quote
        BY <2>5, <3>7 DEF Quote, Escape
      <4> QED
        BY <2>2, <2>6, <3>1, <3>2, <3>3, <3>5, <3>7, <4>1
    <3> QED
      BY <2>8, <3>6, <3>7
  <2> QED
    BY <2>7, <2>8
<1>10. Leaves(I, pieces, at, targets)
  BY <1>1, <1>4, <1>9 DEF Leaves
<1>11. At(q, I) = FlattenSeq(targets)
  BY <1>2, <1>3, <1>10, TakenOut
<1> QED
  BY <1>11 DEF I, q, targets, n

\* replace() of \\ then leaves one of each two backslashes.
LEMMA EscapesAreHalved ==
    ASSUME NEW v \in Text
    PROVE  LET r == FlattenSeq([i \in 1..Len(v) |-> IF v[i] = Escape THEN <<Escape, Escape>> ELSE <<v[i]>>])
           IN  At(r, {i \in 1..Len(r) : ~(r[i] = Escape /\ Escaped(r)[i])}) = v
<1> DEFINE n == Len(v)
           pieces == [i \in 1..n |-> IF v[i] = Escape THEN <<Escape, Escape>> ELSE <<v[i]>>]
           r == FlattenSeq(pieces)
           E == EscapedOnes(r)
           I == {i \in 1..Len(r) : ~(r[i] = Escape /\ Escaped(r)[i])}
           targets == [i \in 1..n |-> <<v[i]>>]
<1>1. n \in Nat /\ \A i \in 1..n : v[i] \in Chars
  BY DEF Text
<1>2. \A k \in 1..n : pieces[k] = IF v[k] = Escape THEN <<Escape, Escape>> ELSE <<v[k]>>
  OBVIOUS
<1>3. pieces \in Seq(Text) /\ Len(pieces) = n
  <2>1. \A k \in 1..n : pieces[k] \in Text
    BY <1>1, TheChars, ShortTexts
  <2> QED
    BY <1>1, <2>1
<1>4. targets \in Seq(Text) /\ Len(targets) = n /\ \A k \in 1..n : targets[k] = <<v[k]>>
  <2>1. \A k \in 1..n : targets[k] \in Text
    BY <1>1, ShortTexts
  <2> QED
    BY <1>1, <2>1
<1>5. FlattenSeq(targets) = v
  BY GluedSingles DEF Text
<1> HIDE DEF n, pieces, targets
<1>6. r \in Text /\ \E at : CutInto(r, pieces, at)
  BY <1>3, CutsAreThere
<1>7. PICK at : CutInto(r, pieces, at)
  BY <1>6
<1> HIDE DEF r
<1>8. Escaping(pieces)
  BY <1>1, <1>2, <1>3 DEF Escaping
<1>9. /\ Stands(r, 0, pieces, at) /\ Len(r) \in Nat /\ Len(r) = at[n]
      /\ \A k \in 0..n : at[k] \in Nat /\ 0 + at[k] <= Len(r)
      /\ \A k \in 1..n : Len(pieces[k]) \in Nat /\ at[k] = at[k - 1] + Len(pieces[k])
  BY <1>3, <1>6, <1>7, StandingPieces DEF CutInto
<1>10. \A k \in 1..n : \A j \in 1..Len(pieces[k]) : r[0 + at[k - 1] + j] = pieces[k][j]
  BY <1>3, <1>6, <1>7, StandingPieces DEF CutInto
<1>11. /\ \A k \in 0..n : 0 + at[k] + 1 \notin E
       /\ \A k \in 1..n : Len(pieces[k]) = 2 => 0 + at[k] \in E
  BY <1>3, <1>6, <1>8, <1>9, EscapesInPieces
<1>12. ASSUME NEW i \in 1..Len(r) PROVE i \in I <=> ~(r[i] = Escape /\ i \in E)
  BY Zenon DEF EscapedOnes
<1> HIDE DEF E, I
<1>13. ASSUME NEW k \in 1..n
       PROVE  \/ Len(pieces[k]) = 1 /\ at[k] \in I /\ targets[k] = pieces[k]
              \/ Len(pieces[k]) = 2 /\ at[k] - 1 \in I /\ at[k] \notin I /\ targets[k] = <<pieces[k][1]>>
  <2>1. k \in 0..n /\ k - 1 \in 0..n
    BY <1>1
  <2>2. PICK a \in Nat, b \in Nat : b = at[k] /\ a = at[k - 1] /\ b <= Len(r) /\ b = a + Len(pieces[k])
    <3>1. at[k] \in Nat /\ at[k - 1] \in Nat /\ 0 + at[k] <= Len(r)
      BY <1>9, <2>1
    <3>2. at[k] = at[k - 1] + Len(pieces[k]) /\ Len(pieces[k]) \in Nat
      BY <1>9
    <3> QED
      BY <3>1, <3>2
  <2>3. \A j \in 1..Len(pieces[k]) : r[a + j] = pieces[k][j]
    BY <1>10, <2>2
  <2>4. a + 1 \notin E
    BY <1>11, <2>1, <2>2
  <2>5. Len(pieces[k]) = 2 => b \in E
    <3>1. 0 + at[k] = b
      BY <2>2
    <3> QED
      BY <1>11, <3>1
  <2>6. targets[k] = <<v[k]>>
    BY <1>4
  <2>7. CASE v[k] # Escape
    <3>1. pieces[k] = <<v[k]>> /\ Len(<<v[k]>>) = 1 /\ <<v[k]>>[1] = v[k]
      BY <1>2, <2>7
    <3>2. b = a + 1 /\ b \in 1..Len(r)
      BY <1>9, <2>2, <3>1
    <3>3. r[b] = v[k]
      BY <2>3, <3>1, <3>2
    <3>4. b \in I
      BY <1>12, <2>7, <3>2, <3>3
    <3> QED
      BY <2>2, <2>6, <3>1, <3>4
  <2>8. CASE v[k] = Escape
    <3>1. pieces[k] = <<Escape, Escape>>
      BY <1>2, <2>8
    <3>2. Len(pieces[k]) = 2 /\ pieces[k][1] = Escape /\ pieces[k][2] = Escape
      BY <3>1
    <3>3. b = a + 2 /\ b <= Len(r) /\ Len(r) \in Nat
      BY <1>9, <2>2, <3>2
    <3>4. b \in 1..Len(r) /\ a + 1 \in 1..Len(r) /\ b - 1 = a + 1
      BY <3>3
    <3>5. r[a + 1] = Escape /\ r[b] = Escape
      BY <2>3, <3>2, <3>3
    <3>6. b \notin I
      BY <1>12, <2>5, <3>2, <3>4, <3>5
    <3>7. a + 1 \in I
      BY <1>12, <2>4, <3>4
    <3> QED
      BY <2>2, <2>6, <2>8, <3>2, <3>4, <3>6, <3>7
  <2> QED
    BY <2>7, <2>8
<1>14. Leaves(I, pieces, at, targets)
  BY <1>3, <1>4, <1>13 DEF Leaves
<1>15. At(r, I) = FlattenSeq(targets)
  BY <1>6, <1>7, <1>14, TakenOut
<1> QED
  BY <1>5, <1>15 DEF I, r, pieces, n

LEMMA KvValueIsRead ==
    ASSUME NEW v \in Text
    PROVE  Unquote(KvWritten(v)) = v
<1>1. CASE Bare(v)
  <2>1. KvWritten(v) = v
    BY <1>1, KvPieces
  <2>2. Len(v) < 2 \/ v[1] # Quote
    <3>1. Len(v) \in Nat /\ (1 \in 1..Len(v) => v[1] \in Characters(v))
      BY DEF Characters, ToSet, Text
    <3> QED
      BY <1>1, <3>1 DEF Bare
  <2> QED
    BY <2>1, <2>2 DEF Unquote
<1>2. CASE ~Bare(v)
  <2> DEFINE q == KvInner(v)
             w == <<Quote>> \o q \o <<Quote>>
             plain == At(q, {i \in 1..Len(q) : ~(q[i] = Escape /\ i < Len(q) /\ q[i + 1] = Quote)})
  <2>1. q \in Text
    <3>1. q = FlattenSeq([i \in 1..Len(v) |-> KvPiece(v[i])])
      BY DEF KvInner
    <3> QED
      BY <3>1, KvPieces, CutsAreThere
  <2>2. KvWritten(v) = w
    BY <1>2, KvPieces DEF KvInner
  <2>3. Len(w) = Len(q) + 2 /\ w[1] = Quote /\ w[Len(w)] = Quote /\ SubSeq(w, 2, Len(w) - 1) = q
    BY <2>1, QuotedStands
  <2>4. plain = FlattenSeq([i \in 1..Len(v) |-> IF v[i] = Escape THEN <<Escape, Escape>> ELSE <<v[i]>>])
    BY QuotesAreRead
  <2>5. At(plain, {i \in 1..Len(plain) : ~(plain[i] = Escape /\ Escaped(plain)[i])}) = v
    BY <2>4, EscapesAreHalved
  <2>6. ~(Len(w) < 2)
    BY <2>1, <2>3 DEF Text
  <2> HIDE DEF q, w
  <2>7. Unquote(w) = At(plain, {i \in 1..Len(plain) : ~(plain[i] = Escape /\ Escaped(plain)[i])})
    BY <2>3, <2>6 DEF Unquote
  <2> QED
    BY <2>2, <2>5, <2>7
<1> QED
  BY <1>1, <1>2

\* What is read of a value is what was meant by it.
Wr(f, v) == IF f = "cef" THEN CefWritten(v) ELSE IF f = "leef" THEN v ELSE KvWritten(v)

LEMMA ValueIsRead ==
    ASSUME NEW f \in Formats, NEW v \in Text
    PROVE  Wr(f, v) \in Text /\ Decode(f, Wr(f, v)) = v
<1>1. CASE f = "cef"
  BY <1>1, CefValueIsRead, CefWrittenIsText DEF Wr, Decode
<1>2. CASE f = "leef"
  BY <1>2 DEF Wr, Decode
<1>3. CASE f \in {"kv", "fortigate"}
  BY <1>3, KvValueIsRead, KvWrittenIsText DEF Wr, Decode
<1> QED
  BY <1>1, <1>2, <1>3 DEF Formats

-----------------------------------------------------------------------------
(* Where the pairs stand in what is written. *)

Sep(f) == IF f = "leef" THEN Tab ELSE Blank

Whole(f, list) == IF f = "leef" THEN Joined(list, LAMBDA v : v, Tab) ELSE Written(f, list)

\* In the text s a key stands from b on, its "=" at e, and its value after that up to z.
PairStands(s, key, w, b, e, z) ==
    /\ key \in Text /\ w \in Text
    /\ b \in Nat \ {0} /\ e = b + Len(key) /\ z = e + Len(w) /\ z <= Len(s)
    /\ \A j \in 1..Len(key) : s[b - 1 + j] = key[j]
    /\ s[e] = "="
    /\ \A j \in 1..Len(w) : s[e + j] = w[j]

Start(at, i) == IF i = 1 THEN 1 ELSE at[i - 1] + 2

\* The i-th pair of the list ends at at[i].
LaidOut(f, list, s, at) ==
    /\ at \in [0..Len(list) -> Nat] /\ at[0] = 0 /\ at[Len(list)] = Len(s)
    /\ \A i \in 1..Len(list) :
          /\ i > 1 => s[at[i - 1] + 1] = Sep(f)
          /\ PairStands(s, list[i].key, Wr(f, list[i].val),
                        Start(at, i), Start(at, i) + Len(list[i].key), at[i])

LEMMA TwoStand ==
    ASSUME NEW a \in Text, NEW b \in Text
    PROVE  /\ a \o b \in Text /\ Len(a \o b) = Len(a) + Len(b)
           /\ \A j \in 1..Len(a) : (a \o b)[j] = a[j]
           /\ \A j \in 1..Len(b) : (a \o b)[Len(a) + j] = b[j]
<1>1. a \in Seq(Chars) /\ b \in Seq(Chars) /\ Len(a) \in Nat /\ Len(b) \in Nat
  BY DEF Text
<1>2. a \o b \in Text /\ Len(a \o b) = Len(a) + Len(b)
  BY <1>1, ConcatProperties DEF Text
<1>3. \A j \in 1..Len(a) : (a \o b)[j] = a[j]
  <2>1. ASSUME NEW j \in 1..Len(a) PROVE (a \o b)[j] = a[j]
    <3>1. j \in Nat
      BY <1>1
    <3> QED
      BY <1>1, <3>1, ConcatAt
  <2> QED
    BY <2>1
<1>4. \A j \in 1..Len(b) : (a \o b)[Len(a) + j] = b[j]
  <2>1. ASSUME NEW j \in 1..Len(b) PROVE (a \o b)[Len(a) + j] = b[j]
    <3>1. Len(a) + j \in Nat /\ Len(a) + j > Len(a) /\ Len(a) + j <= Len(a) + Len(b) /\ (Len(a) + j) - Len(a) = j
      BY <1>1
    <3>2. (a \o b)[Len(a) + j] = b[(Len(a) + j) - Len(a)]
      BY <1>1, <3>1, ConcatAt
    <3> QED
      BY <3>1, <3>2
  <2> QED
    BY <2>1
<1> QED
  BY <1>2, <1>3, <1>4

LEMMA PairIsGlued ==
    ASSUME NEW a \in Text, NEW key \in Text, NEW w \in Text
    PROVE  LET p == a \o key \o <<"=">> \o w
           IN  /\ p \in Text /\ Len(p) = Len(a) + Len(key) + 1 + Len(w)
               /\ \A j \in 1..Len(a) : p[j] = a[j]
               /\ \A j \in 1..Len(key) : p[Len(a) + j] = key[j]
               /\ p[Len(a) + Len(key) + 1] = "="
               /\ \A j \in 1..Len(w) : p[Len(a) + Len(key) + 1 + j] = w[j]
<1> DEFINE one == a \o key
           two == one \o <<"=">>
           p == two \o w
<1>1. Len(a) \in Nat /\ Len(key) \in Nat /\ Len(w) \in Nat
  BY DEF Text
<1>2. <<"=">> \in Text /\ Len(<<"=">>) = 1 /\ <<"=">>[1] = "="
  BY TheChars, ShortTexts
<1>3. /\ one \in Text /\ Len(one) = Len(a) + Len(key)
      /\ \A j \in 1..Len(a) : one[j] = a[j]
      /\ \A j \in 1..Len(key) : one[Len(a) + j] = key[j]
  BY TwoStand
<1> HIDE DEF one
<1>4. /\ two \in Text /\ Len(two) = Len(one) + 1
      /\ \A j \in 1..Len(one) : two[j] = one[j]
      /\ two[Len(one) + 1] = "="
  <2>1. /\ two \in Text /\ Len(two) = Len(one) + Len(<<"=">>)
        /\ \A j \in 1..Len(one) : two[j] = one[j]
        /\ \A j \in 1..Len(<<"=">>) : two[Len(one) + j] = <<"=">>[j]
    BY <1>2, <1>3, TwoStand
  <2>2. 1 \in 1..Len(<<"=">>)
    BY <1>2
  <2> HIDE DEF two
  <2> QED
    BY <1>2, <2>1, <2>2
<1> HIDE DEF two
<1>5. /\ p \in Text /\ Len(p) = Len(two) + Len(w)
      /\ \A j \in 1..Len(two) : p[j] = two[j]
      /\ \A j \in 1..Len(w) : p[Len(two) + j] = w[j]
  BY <1>4, TwoStand
<1> HIDE DEF p
<1>6. Len(two) = Len(a) + Len(key) + 1 /\ Len(one) + 1 = Len(a) + Len(key) + 1
  BY <1>1, <1>3, <1>4
<1>7. ASSUME NEW j \in 1..Len(one) PROVE p[j] = one[j]
  <2>1. j \in 1..Len(two)
    BY <1>1, <1>3, <1>6
  <2> QED
    BY <1>4, <1>5, <2>1
<1>8. \A j \in 1..Len(a) : p[j] = a[j]
  <2>1. \A j \in 1..Len(a) : j \in 1..Len(one)
    BY <1>1, <1>3
  <2> QED
    BY <1>3, <1>7, <2>1
<1>9. \A j \in 1..Len(key) : p[Len(a) + j] = key[j]
  <2>1. \A j \in 1..Len(key) : Len(a) + j \in 1..Len(one)
    BY <1>1, <1>3
  <2> QED
    BY <1>3, <1>7, <2>1
<1>10. p[Len(a) + Len(key) + 1] = "="
  <2>1. Len(one) + 1 \in 1..Len(two)
    BY <1>1, <1>3, <1>6
  <2> QED
    BY <1>4, <1>5, <1>6, <2>1
<1>11. \A j \in 1..Len(w) : p[Len(a) + Len(key) + 1 + j] = w[j]
  BY <1>5, <1>6
<1>12. Len(p) = Len(a) + Len(key) + 1 + Len(w)
  BY <1>5, <1>6
<1> QED
  BY <1>5, <1>8, <1>9, <1>10, <1>11, <1>12 DEF p, two, one

LEMMA WrittenIsLaidOut ==
    ASSUME NEW f \in Formats, NEW list \in Seq(WrittenPairs)
    PROVE  /\ Whole(f, list) \in Text
           /\ \E at : LaidOut(f, list, Whole(f, list), at)
<1> DEFINE n == Len(list)
           start(i) == IF i = 1 THEN <<>> ELSE <<Sep(f)>>
           glued(i) == start(i) \o list[i].key \o <<"=">> \o Wr(f, list[i].val)
           pieces == [i \in 1..n |-> glued(i)]
           s == Whole(f, list)
<1>1. n \in Nat /\ \A i \in 1..n : list[i].key \in Text /\ list[i].val \in Text
  <2>1. n \in Nat /\ \A i \in 1..n : list[i] \in WrittenPairs
    BY DEF n
  <2> QED
    BY <2>1 DEF WrittenPairs, Text
<1>2. s = FlattenSeq(pieces)
  <2>1. CASE f = "leef"
    BY <2>1 DEF Whole, Joined, Sep, Wr
  <2>2. CASE f = "cef"
    BY <2>2 DEF Whole, Written, Joined, Sep, Wr
  <2>3. CASE f \in {"kv", "fortigate"}
    BY <2>3 DEF Whole, Written, Joined, Sep, Wr
  <2> QED
    BY <2>1, <2>2, <2>3 DEF Formats
<1>3. \A i \in 1..n : Wr(f, list[i].val) \in Text
  BY <1>1, ValueIsRead
<1>4. Sep(f) \in Chars
  BY TheChars DEF Sep
<1>5. \A i \in 1..n : start(i) \in Text /\ (i > 1 => Len(start(i)) = 1 /\ start(i)[1] = Sep(f))
                      /\ (i = 1 => Len(start(i)) = 0)
  <2>1. <<>> \in Text /\ <<Sep(f)>> \in Text /\ Len(<<>>) = 0
        /\ Len(<<Sep(f)>>) = 1 /\ <<Sep(f)>>[1] = Sep(f)
    BY <1>4, ShortTexts
  <2>2. ASSUME NEW i \in 1..n
        PROVE  /\ start(i) \in Text /\ (i > 1 => Len(start(i)) = 1 /\ start(i)[1] = Sep(f))
               /\ (i = 1 => Len(start(i)) = 0)
    <3>1. CASE i = 1
      <4>1. start(i) = <<>> /\ ~(i > 1)
        BY <3>1
      <4> HIDE DEF start
      <4> QED
        BY <2>1, <4>1
    <3>2. CASE i # 1
      <4>1. start(i) = <<Sep(f)>>
        BY <3>2
      <4> HIDE DEF start
      <4> QED
        BY <2>1, <3>2, <4>1
    <3> QED
      BY <3>1, <3>2
  <2> QED
    BY <2>2
<1> HIDE DEF start
<1>6. \A a \in Text, k \in Text, w \in Text :
        LET p == a \o k \o <<"=">> \o w
        IN  /\ p \in Text /\ Len(p) = Len(a) + Len(k) + 1 + Len(w)
            /\ \A j \in 1..Len(a) : p[j] = a[j]
            /\ \A j \in 1..Len(k) : p[Len(a) + j] = k[j]
            /\ p[Len(a) + Len(k) + 1] = "="
            /\ \A j \in 1..Len(w) : p[Len(a) + Len(k) + 1 + j] = w[j]
  BY PairIsGlued
<1>7. ASSUME NEW i \in 1..n
      PROVE  LET a == start(i)
                 key == list[i].key
                 w == Wr(f, list[i].val)
                 p == glued(i)
             IN  /\ p \in Text /\ Len(p) = Len(a) + Len(key) + 1 + Len(w)
                 /\ \A j \in 1..Len(a) : p[j] = a[j]
                 /\ \A j \in 1..Len(key) : p[Len(a) + j] = key[j]
                 /\ p[Len(a) + Len(key) + 1] = "="
                 /\ \A j \in 1..Len(w) : p[Len(a) + Len(key) + 1 + j] = w[j]
  BY <1>1, <1>3, <1>5, <1>6, Zenon
<1> HIDE DEF n, glued
<1>8. pieces \in Seq(Text) /\ Len(pieces) = n /\ \A i \in 1..n : pieces[i] = glued(i)
  <2>1. \A i \in 1..n : glued(i) \in Text
    BY <1>7
  <2> QED
    BY <1>1, <2>1
<1> HIDE DEF pieces
<1>9. s \in Text /\ \E at : CutInto(s, pieces, at)
  BY <1>2, <1>8, CutsAreThere
<1>10. PICK at : CutInto(s, pieces, at)
  BY <1>9
<1> HIDE DEF s
<1>11. /\ at[0] = 0 /\ Len(s) \in Nat /\ Len(s) = at[n]
       /\ \A k \in 0..n : at[k] \in Nat /\ 0 + at[k] <= Len(s)
       /\ \A k \in 1..n : Len(pieces[k]) \in Nat /\ at[k] = at[k - 1] + Len(pieces[k])
  BY <1>8, <1>9, <1>10, StandingPieces DEF CutInto
<1>12. \A k \in 1..n : \A j \in 1..Len(pieces[k]) : s[0 + at[k - 1] + j] = pieces[k][j]
  BY <1>8, <1>9, <1>10, StandingPieces DEF CutInto
<1>13. at \in [0..n -> Nat]
  BY <1>8, <1>10 DEF CutInto, Stands, PieceEnds
<1>14. ASSUME NEW i \in 1..n
       PROVE  /\ i > 1 => s[at[i - 1] + 1] = Sep(f)
              /\ PairStands(s, list[i].key, Wr(f, list[i].val),
                            Start(at, i), Start(at, i) + Len(list[i].key), at[i])
  <2> DEFINE key == list[i].key
             w == Wr(f, list[i].val)
             a == start(i)
             p == glued(i)
  <2>1. i \in 0..n /\ i - 1 \in 0..n
    BY <1>1
  <2>2. key \in Text /\ w \in Text /\ Len(key) \in Nat /\ Len(w) \in Nat
    BY <1>1, <1>3 DEF Text
  <2>3. /\ Len(p) = Len(a) + Len(key) + 1 + Len(w)
        /\ \A j \in 1..Len(a) : p[j] = a[j]
        /\ \A j \in 1..Len(key) : p[Len(a) + j] = key[j]
        /\ p[Len(a) + Len(key) + 1] = "="
        /\ \A j \in 1..Len(w) : p[Len(a) + Len(key) + 1 + j] = w[j]
    BY <1>7
  <2>4. (i > 1 => Len(a) = 1 /\ a[1] = Sep(f)) /\ (i = 1 => Len(a) = 0)
    BY <1>5
  <2>5. pieces[i] = p
    BY <1>8
  <2> HIDE DEF key, w, a, p
  <2>6. PICK y \in Nat, z \in Nat : y = at[i - 1] /\ z = at[i] /\ z <= Len(s) /\ z = y + Len(p)
    <3>1. at[i] \in Nat /\ at[i - 1] \in Nat /\ 0 + at[i] <= Len(s)
      BY <1>11, <2>1
    <3>2. at[i] = at[i - 1] + Len(p) /\ Len(p) \in Nat
      BY <1>11, <2>5
    <3> QED
      BY <3>1, <3>2
  <2>7. \A j \in 1..Len(p) : s[y + j] = p[j]
    BY <1>12, <2>5, <2>6, SMTT(20)
  <2>8. Len(a) \in Nat /\ Start(at, i) = y + Len(a) + 1
    <3>1. CASE i = 1
      <4>1. y = 0
        BY <1>11, <2>6, <3>1
      <4> QED
        BY <2>4, <3>1, <4>1 DEF Start
    <3>2. CASE i # 1
      <4>1. i > 1
        BY <1>1, <3>2
      <4>2. Start(at, i) = y + 2
        BY <2>6, <3>2 DEF Start
      <4>3. Len(a) = 1
        BY <2>4, <4>1
      <4> QED
        BY <4>2, <4>3
    <3> QED
      BY <3>1, <3>2
  <2>9. PICK b \in Nat \ {0}, e \in Nat : b = y + Len(a) + 1 /\ e = b + Len(key)
    BY <2>2, <2>8
  <2>10. z = e + Len(w)
    <3>1. Len(a) \in Nat /\ Len(key) \in Nat /\ Len(w) \in Nat
      BY <2>2, <2>8
    <3>2. z = y + (Len(a) + Len(key) + 1 + Len(w)) /\ e = (y + Len(a) + 1) + Len(key)
      BY <2>3, <2>6, <2>9
    <3> QED
      BY <3>1, <3>2
  <2>11. ASSUME NEW j \in 1..Len(key) PROVE s[b - 1 + j] = key[j]
    <3>1. Len(a) + j \in 1..Len(p) /\ y + (Len(a) + j) = b - 1 + j
      BY <2>2, <2>3, <2>8, <2>9
    <3>2. s[y + (Len(a) + j)] = p[Len(a) + j]
      BY <2>7, <3>1
    <3> QED
      BY <2>3, <3>1, <3>2
  <2>12. s[e] = "="
    <3>1. Len(a) + Len(key) + 1 \in 1..Len(p) /\ y + (Len(a) + Len(key) + 1) = e
      BY <2>2, <2>3, <2>8, <2>9
    <3>2. s[y + (Len(a) + Len(key) + 1)] = p[Len(a) + Len(key) + 1]
      BY <2>7, <3>1
    <3> QED
      BY <2>3, <3>1, <3>2
  <2>13. ASSUME NEW j \in 1..Len(w) PROVE s[e + j] = w[j]
    <3>1. Len(a) + Len(key) + 1 + j \in 1..Len(p) /\ y + (Len(a) + Len(key) + 1 + j) = e + j
      BY <2>2, <2>3, <2>8, <2>9
    <3>2. s[y + (Len(a) + Len(key) + 1 + j)] = p[Len(a) + Len(key) + 1 + j]
      BY <2>7, <3>1
    <3> QED
      BY <2>3, <3>1, <3>2
  <2>14. i > 1 => s[at[i - 1] + 1] = Sep(f)
    <3>1. ASSUME i > 1 PROVE s[y + 1] = Sep(f)
      <4>1. Len(a) = 1 /\ a[1] = Sep(f)
        BY <2>4, <3>1
      <4>2. 1 \in 1..Len(p) /\ 1 \in 1..Len(a)
        BY <2>2, <2>3, <4>1
      <4> QED
        BY <2>3, <2>7, <4>1, <4>2
    <3> QED
      BY <2>6, <3>1
  <2>15. PairStands(s, key, w, b, e, z)
    BY <2>2, <2>6, <2>9, <2>10, <2>11, <2>12, <2>13 DEF PairStands
  <2>16. Start(at, i) = b /\ Start(at, i) + Len(key) = e /\ at[i] = z
    BY <2>6, <2>8, <2>9
  <2>17. PairStands(s, key, w, Start(at, i), Start(at, i) + Len(key), at[i])
    BY <2>15, <2>16
  <2> QED
    BY <2>14, <2>17 DEF key, w
<1>15. LaidOut(f, list, s, at)
  BY <1>11, <1>13, <1>14 DEF LaidOut, n
<1> QED
  BY <1>9, <1>15 DEF s

-----------------------------------------------------------------------------
(* One item per written pair. *)

GoodKey(f, key) ==
    /\ key # <<>> /\ Characters(key) \subseteq KeyChars
    /\ f \in {"kv", "fortigate"} => key[1] \in Letters

LEMMA FirstInIs ==
    ASSUME NEW s \in Text, NEW a \in Nat \ {0}, NEW I, I \subseteq a..Len(s),
           NEW m \in I, \A i \in I : m <= i
    PROVE  FirstIn(I, s) = m
<1>1. FirstIn(I, s) \in I /\ FirstIn(I, s) <= m
  BY FirstInIsFirst
<1>2. m <= FirstIn(I, s) /\ m \in Int /\ FirstIn(I, s) \in Int
  <2>1. \A i \in I : i \in Int
    BY DEF Text
  <2> QED
    BY <1>1, <2>1
<1> QED
  BY <1>1, <1>2

LEMMA KeyStands ==
    ASSUME NEW s \in Text, NEW f, NEW key, NEW w, NEW b, NEW e, NEW z,
           PairStands(s, key, w, b, e, z), GoodKey(f, key)
    PROVE  /\ b < e /\ e <= z
           /\ \A p \in b..e - 1 : s[p] \in KeyChars
           /\ f \in {"kv", "fortigate"} => s[b] \in Letters
<1>1. /\ b \in Nat \ {0} /\ Len(key) \in Nat /\ Len(w) \in Nat /\ key \in Text
      /\ e = b + Len(key) /\ z = e + Len(w)
  BY DEF PairStands, Text
<1>2. \A j \in 1..Len(key) : s[b - 1 + j] = key[j]
  BY DEF PairStands
<1>3. Len(key) # 0 /\ \A j \in 1..Len(key) : key[j] \in KeyChars
  <2>1. Len(key) # 0
    BY <1>1 DEF GoodKey, Text
  <2>2. \A j \in 1..Len(key) : key[j] \in Characters(key)
    BY <1>1 DEF Characters, ToSet, Text
  <2> QED
    BY <2>1, <2>2 DEF GoodKey
<1>4. ASSUME NEW p \in b..e - 1 PROVE s[p] \in KeyChars
  <2>1. p - b + 1 \in 1..Len(key) /\ b - 1 + (p - b + 1) = p
    BY <1>1
  <2> QED
    BY <1>2, <1>3, <2>1
<1>5. f \in {"kv", "fortigate"} => s[b] \in Letters
  <2>1. 1 \in 1..Len(key) /\ b - 1 + 1 = b
    BY <1>1, <1>3
  <2> QED
    BY <1>2, <2>1 DEF GoodKey
<1>6. b < e /\ e <= z
  BY <1>1, <1>3
<1> QED
  BY <1>4, <1>5, <1>6

LEMMA KeyEndIs ==
    ASSUME NEW s \in Text, NEW f, NEW key, NEW w, NEW b, NEW e, NEW z,
           PairStands(s, key, w, b, e, z), GoodKey(f, key)
    PROVE  KeyEnd(f, s, b) = e
<1> DEFINE E == {j \in b + 1..Len(s) : s[j] = "=" /\ \A k \in b..j - 1 : s[k] \in KeyChars}
<1>1. /\ b \in Nat \ {0} /\ e \in Nat /\ z \in Nat /\ Len(s) \in Nat /\ z <= Len(s) /\ s[e] = "="
  BY DEF PairStands, Text
<1>2. /\ b < e /\ e <= z
      /\ \A p \in b..e - 1 : s[p] \in KeyChars
      /\ f \in {"kv", "fortigate"} => s[b] \in Letters
  BY KeyStands
<1>3. "=" \notin KeyChars
  BY TextsAssumption DEF KeyChars, Punctuation
<1>4. E = {e}
  <2>1. e \in E
    BY <1>1, <1>2
  <2>2. ASSUME NEW j \in E PROVE j = e
    <3>1. j \in b + 1..Len(s) /\ s[j] = "=" /\ \A k \in b..j - 1 : s[k] \in KeyChars
      OBVIOUS
    <3>2. ~(e < j)
      <4>1. ASSUME e < j PROVE FALSE
        <5>1. e \in b..j - 1
          BY <1>1, <1>2, <3>1, <4>1
        <5> QED
          BY <1>1, <1>3, <3>1, <5>1
      <4> QED
        BY <4>1
    <3>3. ~(j < e)
      <4>1. ASSUME j < e PROVE FALSE
        <5>1. j \in b..e - 1
          BY <1>1, <1>2, <3>1, <4>1
        <5> QED
          BY <1>2, <1>3, <3>1, <5>1
      <4> QED
        BY <4>1
    <3> QED
      BY <1>1, <3>1, <3>2, <3>3
  <2> HIDE DEF E
  <2> QED
    BY <2>1, <2>2
<1>5. KeyEnd(f, s, b) = Min(E)
  BY <1>2, <1>4 DEF KeyEnd
<1>6. Min(E) = e
  <2> HIDE DEF E
  <2>1. E \subseteq Nat /\ E # {}
    BY <1>1, <1>4
  <2>2. Min(E) \in E
    BY <2>1, LeastNumber
  <2> QED
    BY <1>4, <2>2
<1> QED
  BY <1>5, <1>6

\* The text of an item is its key, a "=" and its value.
IsPair(f, item, key, w) ==
    LET k == KeyEnd(f, item, 1)
    IN  /\ item # <<>> /\ k # 0
        /\ SubSeq(item, 1, k - 1) = key
        /\ SubSeq(item, k + 1, Len(item)) = w

LEMMA PairIsTaken ==
    ASSUME NEW s \in Text, NEW f, NEW key, NEW w, NEW b, NEW e, NEW z,
           PairStands(s, key, w, b, e, z), GoodKey(f, key)
    PROVE  IsPair(f, SubSeq(s, b, z), key, w)
<1> DEFINE item == SubSeq(s, b, z)
<1> SUFFICES LET k == KeyEnd(f, item, 1)
             IN  /\ item # <<>> /\ k # 0
                 /\ SubSeq(item, 1, k - 1) = key
                 /\ SubSeq(item, k + 1, Len(item)) = w
  BY DEF IsPair
<1>1. /\ b \in Nat \ {0} /\ e \in Nat /\ z \in Nat /\ Len(s) \in Nat /\ z <= Len(s) /\ s[e] = "="
      /\ key \in Text /\ w \in Text /\ Len(key) \in Nat /\ Len(w) \in Nat
      /\ e = b + Len(key) /\ z = e + Len(w)
  BY DEF PairStands, Text
<1>2. /\ \A j \in 1..Len(key) : s[b - 1 + j] = key[j]
      /\ \A j \in 1..Len(w) : s[e + j] = w[j]
  BY DEF PairStands
<1>3. b < e /\ e <= z
  BY KeyStands
<1>4. /\ item \in Text /\ Len(item) = z - b + 1
      /\ \A i \in 1..z - b + 1 : item[i] = s[b + i - 1]
  <2>1. \A i \in b..z : s[i] \in Chars
    BY <1>1 DEF Text
  <2>2. b <= z
    BY <1>1, <1>3
  <2> QED
    BY <1>1, <2>1, <2>2, SubSeqProperties DEF Text
<1> HIDE DEF item
<1>5. PICK m \in Nat : m = 1 + Len(key) /\ Len(item) = m + Len(w) /\ Len(item) = z - b + 1 /\ e = b + m - 1
  <2>1. Len(item) = z - b + 1
    BY <1>4
  <2>2. 1 + Len(key) \in Nat /\ z - b + 1 = (1 + Len(key)) + Len(w) /\ e = b + (1 + Len(key)) - 1
    BY <1>1
  <2> QED
    BY <2>1, <2>2
<1>6. \A j \in 1..Len(key) : item[1 - 1 + j] = key[j]
  <2>1. ASSUME NEW j \in 1..Len(key) PROVE item[1 - 1 + j] = key[j]
    <3>1. j \in 1..z - b + 1 /\ 1 - 1 + j = j /\ b + j - 1 = b - 1 + j
      BY <1>1
    <3> QED
      BY <1>2, <1>4, <3>1
  <2> QED
    BY <2>1
<1>7. item[m] = "="
  <2>1. m \in 1..z - b + 1 /\ b + m - 1 = e
    BY <1>1, <1>5
  <2> QED
    BY <1>1, <1>4, <2>1
<1>8. \A j \in 1..Len(w) : item[m + j] = w[j]
  <2>1. ASSUME NEW j \in 1..Len(w) PROVE item[m + j] = w[j]
    <3>1. m + j \in 1..z - b + 1 /\ b + (m + j) - 1 = e + j
      BY <1>1, <1>5
    <3> QED
      BY <1>2, <1>4, <3>1
  <2> QED
    BY <2>1
<1>9. PairStands(item, key, w, 1, m, Len(item))
  <2>1. Len(item) <= Len(item)
    BY <1>5
  <2> QED
    BY <1>1, <1>5, <1>6, <1>7, <1>8, <2>1 DEF PairStands
<1>10. KeyEnd(f, item, 1) = m
  BY <1>4, <1>9, KeyEndIs
<1>11. SubSeq(item, 1, m - 1) = key
  <2>1. m - 1 \in Nat /\ m - 1 <= Len(item) /\ 1 + Len(key) = (m - 1) + 1
    BY <1>1, <1>5
  <2> QED
    BY <1>1, <1>4, <1>6, <2>1, PartIs
<1>12. SubSeq(item, m + 1, Len(item)) = w
  <2>1. m + 1 \in Nat \ {0} /\ Len(item) \in Nat /\ Len(item) <= Len(item) /\ (m + 1) + Len(w) = Len(item) + 1
    BY <1>1, <1>5
  <2>2. \A j \in 1..Len(w) : item[(m + 1) - 1 + j] = w[j]
    <3>1. (m + 1) - 1 = m
      BY <1>5
    <3> QED
      BY <1>8, <3>1
  <2> QED
    BY <1>1, <1>4, <2>1, <2>2, PartIs
<1>13. item # <<>> /\ m # 0
  <2>1. Len(item) # 0 /\ m # 0
    BY <1>1, <1>5
  <2> QED
    BY <2>1
<1> QED
  BY <1>10, <1>11, <1>12, <1>13 DEF item

\* After a pair comes the end of the text, or a separator and another pair.
Followed(f, s, z) ==
    \/ z = Len(s)
    \/ /\ s[z + 1] = Sep(f)
       /\ \E key, w, e, y : GoodKey(f, key) /\ PairStands(s, key, w, z + 2, e, y)

LEMMA NoPunctuation == KeyChars \cap {Blank, Tab, LineFeed, Quote, Escape, "="} = {}
BY TextsAssumption DEF KeyChars, Punctuation, Blank, Tab, LineFeed, Quote, Escape

\* LEEF: the next delimiter is the one after the value.
LEMMA LeefItem ==
    ASSUME NEW s \in Text, NEW key, NEW w, NEW b, NEW e, NEW z,
           PairStands(s, key, w, b, e, z), GoodKey("leef", key), Followed("leef", s, z),
           Tab \notin Characters(w), Tab \in Characters(s)
    PROVE  Item("leef", s, Tab, b) = [from |-> b, to |-> z, next |-> z + 2]
<1> DEFINE I == {i \in b..Len(s) : s[i] = Tab}
<1>1. /\ b \in Nat \ {0} /\ e \in Nat /\ z \in Nat /\ Len(s) \in Nat /\ z <= Len(s) /\ s[e] = "="
      /\ w \in Text /\ Len(w) \in Nat /\ z = e + Len(w)
      /\ \A j \in 1..Len(w) : s[e + j] = w[j]
  BY DEF PairStands, Text
<1>2. b < e /\ e <= z /\ \A p \in b..e - 1 : s[p] \in KeyChars
  BY KeyStands
<1>3. \A j \in 1..Len(w) : w[j] # Tab
  BY <1>1 DEF Characters, ToSet, Text
<1>4. ASSUME NEW p \in b..z PROVE s[p] # Tab
  <2>1. CASE p \in b..e - 1
    BY <1>2, <2>1, NoPunctuation
  <2>2. CASE p = e
    BY <1>1, <2>2 DEF Tab
  <2>3. CASE p \in e + 1..z
    <3>1. p - e \in 1..Len(w) /\ e + (p - e) = p
      BY <1>1, <2>3
    <3> QED
      BY <1>1, <1>3, <3>1
  <2> QED
    BY <1>1, <1>2, <2>1, <2>2, <2>3
<1>5. FirstIn(I, s) = z + 1
  <2>1. I \subseteq b..Len(s) /\ \A i \in I : z + 1 <= i
    <3>1. ASSUME NEW i \in I PROVE z + 1 <= i
      <4>1. i \in b..Len(s) /\ i \notin b..z
        BY <1>4
      <4> QED
        BY <1>1, <4>1
    <3> QED
      BY <3>1
  <2>2. CASE z = Len(s)
    <3>1. I = {}
      <4>1. ASSUME NEW i \in I PROVE FALSE
        <5>1. i \in b..Len(s) /\ z + 1 <= i
          BY <2>1
        <5> QED
          BY <1>1, <2>2, <5>1
      <4> QED
        BY <4>1
    <3> HIDE DEF I
    <3> QED
      BY <2>2, <3>1 DEF FirstIn
  <2>3. CASE z # Len(s)
    <3>1. s[z + 1] = Tab
      BY <2>3 DEF Followed, Sep
    <3>2. z + 1 \in b..Len(s)
      BY <1>1, <1>2, <2>3
    <3>3. z + 1 \in I
      BY <3>1, <3>2
    <3> HIDE DEF I
    <3> QED
      BY <1>1, <2>1, <3>3, FirstInIs
  <2> QED
    BY <2>2, <2>3
<1>6. Item("leef", s, Tab, b) = Delimited(s, Tab, b)
  BY DEF Item
<1>7. (z + 1) - 1 = z /\ (z + 1) + 1 = z + 2
  BY <1>1
<1> QED
  BY <1>5, <1>6, <1>7 DEF Delimited

\* Pieces stand in a text where what they are glued to stands.
LEMMA StandsThere ==
    ASSUME NEW s \in Text, NEW pieces \in Seq(Text), NEW off \in Nat,
           off + Len(FlattenSeq(pieces)) <= Len(s),
           \A p \in 1..Len(FlattenSeq(pieces)) : s[off + p] = FlattenSeq(pieces)[p]
    PROVE  \E at : Stands(s, off, pieces, at) /\ at[Len(pieces)] = Len(FlattenSeq(pieces))
<1>1. PICK at : CutInto(FlattenSeq(pieces), pieces, at)
  BY CutsAreThere
<1>2. PieceEnds(at, pieces) /\ Len(FlattenSeq(pieces)) = at[Len(pieces)]
  BY <1>1 DEF CutInto, Stands
<1> QED
  BY <1>2 DEF Stands

\* CEF: a "=" in a value has its backslash, and no backslash of a value takes the
\* separator with it.
LEMMA CefEquals ==
    ASSUME NEW v \in Text, NEW j \in 1..Len(CefWritten(v)), CefWritten(v)[j] = "="
    PROVE  j - 1 \in 1..Len(CefWritten(v)) /\ CefWritten(v)[j - 1] = Escape
<1> DEFINE n == Len(v)
           pieces == [i \in 1..n |-> CefPiece(v[i])]
           w == CefWritten(v)
<1>1. n \in Nat /\ pieces \in Seq(Text) /\ Len(pieces) = n /\ w = FlattenSeq(pieces)
  BY CefPieces DEF Text
<1>2. \A k \in 1..n : pieces[k] = CefPiece(v[k])
  OBVIOUS
<1> HIDE DEF n, pieces, w
<1>3. w \in Text /\ \E at : CutInto(w, pieces, at)
  BY <1>1, CutsAreThere
<1>4. PICK at : CutInto(w, pieces, at)
  BY <1>3
<1>5. /\ at[0] = 0 /\ Len(w) \in Nat /\ Len(w) = at[n]
      /\ \A k \in 0..n : at[k] \in Nat /\ 0 + at[k] <= Len(w)
      /\ \A k \in 1..n : Len(pieces[k]) \in Nat /\ at[k] = at[k - 1] + Len(pieces[k])
  BY <1>1, <1>3, <1>4, StandingPieces DEF CutInto
<1>6. \A k \in 1..n : \A i \in 1..Len(pieces[k]) : w[0 + at[k - 1] + i] = pieces[k][i]
  <2>1. Stands(w, 0, pieces, at)
    BY <1>4 DEF CutInto
  <2>2. \A k \in 1..Len(pieces) : \A i \in 1..Len(pieces[k]) : w[0 + at[k - 1] + i] = pieces[k][i]
    BY <1>3, <2>1, StandingPieces
  <2> QED
    BY <1>1, <2>2
<1>7. j \in 1..at[n]
  BY <1>5 DEF w
<1>8a. PICK k \in 1..n : \E i \in 1..Len(pieces[k]) : j = at[k - 1] + i
  <2>1. pieces \in Seq(Seq(Chars)) /\ PieceEnds(at, pieces) /\ j \in 1..at[Len(pieces)]
    BY <1>1, <1>4, <1>7 DEF CutInto, Stands, Text
  <2> QED
    BY <1>1, <2>1, EveryPlaceInAPiece
<1>8. PICK i \in 1..Len(pieces[k]) : j = at[k - 1] + i
  BY <1>8a
<1>9. k - 1 \in 0..n
  BY <1>1
<1>10. PICK a \in Nat : a = at[k - 1] /\ j = a + i /\ a + i = 0 + a + i /\ a + Len(pieces[k]) <= Len(w)
  <2>1. at[k - 1] \in Nat /\ k \in 0..n
    BY <1>1, <1>5, <1>9
  <2>2. at[k] \in Nat /\ 0 + at[k] <= Len(w) /\ at[k] = at[k - 1] + Len(pieces[k]) /\ Len(pieces[k]) \in Nat
    BY <1>5, <2>1
  <2>3. at[k - 1] + Len(pieces[k]) <= Len(w) /\ at[k - 1] + i = 0 + at[k - 1] + i
    BY <2>1, <2>2
  <2> QED
    BY <1>8, <2>1, <2>3
<1>11. pieces[k][i] = "="
  <2>1. w[j] = "="
    BY DEF w
  <2> QED
    BY <1>6, <1>10, <2>1
<1>12. pieces[k] = <<Escape, "=">> /\ i = 2
  <2>1. pieces[k] = CefPiece(v[k])
    BY <1>2
  <2>2. CASE v[k] = LineFeed
    <3>1. pieces[k] = <<Escape, "n">>
      BY <2>1, <2>2 DEF CefPiece
    <3> QED
      BY <1>11, <3>1 DEF Escape
  <2>3. CASE v[k] # LineFeed /\ v[k] \in {"=", Escape}
    <3>1. pieces[k] = <<Escape, v[k]>>
      BY <2>1, <2>3 DEF CefPiece
    <3>2. i \in 1..2
      BY <3>1
    <3>3. i = 2
      BY <1>11, <3>1, <3>2 DEF Escape
    <3> QED
      BY <1>11, <3>1, <3>3
  <2>4. CASE v[k] # LineFeed /\ v[k] \notin {"=", Escape}
    <3>1. pieces[k] = <<v[k]>>
      BY <2>1, <2>4 DEF CefPiece
    <3>2. i = 1
      BY <3>1
    <3> QED
      BY <1>11, <2>4, <3>1, <3>2
  <2> QED
    BY <2>2, <2>3, <2>4
<1>13. 1 \in 1..Len(pieces[k]) /\ pieces[k][1] = Escape /\ Len(pieces[k]) = 2
  BY <1>12
<1>14. w[0 + a + 1] = Escape
  BY <1>6, <1>10, <1>13
<1>15. j - 1 = 0 + a + 1 /\ j - 1 \in 1..Len(w)
  BY <1>5, <1>10, <1>12, <1>13, SMTT(20)
<1> QED
  BY <1>14, <1>15 DEF w

LEMMA CefEnd ==
    ASSUME NEW s \in Text, NEW v \in Text, NEW key, NEW b, NEW e, NEW z,
           PairStands(s, key, CefWritten(v), b, e, z)
    PROVE  z + 1 \notin EscapedOnes(s)
<1> DEFINE n == Len(v)
           pieces == [i \in 1..n |-> CefPiece(v[i])]
<1>1. n \in Nat /\ pieces \in Seq(Text) /\ Len(pieces) = n /\ Escaping(pieces)
      /\ CefWritten(v) = FlattenSeq(pieces)
  BY CefPieces DEF Text
<1> HIDE DEF n, pieces
<1>2. /\ e \in Nat /\ z = e + Len(CefWritten(v)) /\ z <= Len(s) /\ s[e] = "="
      /\ \A j \in 1..Len(CefWritten(v)) : s[e + j] = CefWritten(v)[j]
  BY DEF PairStands, Text
<1>3. PICK at : Stands(s, e, pieces, at) /\ at[n] = Len(CefWritten(v))
  BY <1>1, <1>2, StandsThere, SMTT(20)
<1>4. s[e] # Escape
  BY <1>2 DEF Escape
<1>5. n \in 0..n
  BY <1>1
<1>6. e + at[n] + 1 \notin EscapedOnes(s)
  BY <1>1, <1>3, <1>4, <1>5, EscapesInPieces
<1> QED
  BY <1>2, <1>3, <1>6

LEMMA KeyEndStands ==
    ASSUME NEW s \in Text, NEW f, NEW i \in Nat \ {0}, KeyEnd(f, s, i) # 0
    PROVE  LET j == KeyEnd(f, s, i)
           IN  j \in i + 1..Len(s) /\ s[j] = "=" /\ \A k \in i..j - 1 : s[k] \in KeyChars
<1> DEFINE E == {j \in i + 1..Len(s) : s[j] = "=" /\ \A k \in i..j - 1 : s[k] \in KeyChars}
<1>1. E \subseteq Nat
  OBVIOUS
<1>2. E # {} /\ KeyEnd(f, s, i) = Min(E)
  BY DEF KeyEnd
<1> HIDE DEF E
<1>3. KeyEnd(f, s, i) \in E
  BY <1>1, <1>2, LeastNumber
<1> QED
  BY <1>3 DEF E

\* No key starts after a blank within a value: its "=" would be one of the value's, and
\* has a backslash.
LEMMA NoBoundaryInside ==
    ASSUME NEW s \in Text, NEW v \in Text, NEW key, NEW b, NEW e, NEW z,
           PairStands(s, key, CefWritten(v), b, e, z), GoodKey("cef", key), Followed("cef", s, z),
           NEW p \in b + 1..z + 1, p <= Len(s)
    PROVE  ~Boundary("cef", s, p)
<1> DEFINE w == CefWritten(v)
           j == KeyEnd("cef", s, p)
<1>1. /\ b \in Nat \ {0} /\ e \in Nat /\ z \in Nat /\ Len(s) \in Nat /\ z <= Len(s) /\ s[e] = "="
      /\ w \in Text /\ Len(w) \in Nat /\ z = e + Len(w)
      /\ \A k \in 1..Len(w) : s[e + k] = w[k]
  BY DEF PairStands, Text
<1>2. b < e /\ e <= z /\ \A k \in b..e - 1 : s[k] \in KeyChars
  BY KeyStands
<1>3. SUFFICES ASSUME s[p - 1] = Blank, j # 0 PROVE FALSE
  BY DEF Boundary
<1>4. p \in Nat \ {0} /\ p > b /\ p <= z + 1
  BY <1>1
<1>5. j \in p + 1..Len(s) /\ s[j] = "=" /\ \A k \in p..j - 1 : s[k] \in KeyChars
  BY <1>3, <1>4, KeyEndStands
<1> HIDE DEF j, w
<1>6. ~(p <= e)
  <2>1. ASSUME p <= e PROVE FALSE
    <3>1. p - 1 \in b..e - 1
      BY <1>1, <1>4, <2>1
    <3> QED
      BY <1>2, <1>3, <3>1, NoPunctuation
  <2> QED
    BY <2>1
<1>7. CASE j <= z
  <2>1. j - e \in 1..Len(w) /\ e + (j - e) = j
    BY <1>1, <1>4, <1>5, <1>6, <1>7
  <2>2. w[j - e] = "="
    BY <1>1, <1>5, <2>1
  <2>3. (j - e) - 1 \in 1..Len(w) /\ w[(j - e) - 1] = Escape
    BY <2>1, <2>2, CefEquals DEF w
  <2>4. e + ((j - e) - 1) = j - 1 /\ j - 1 \in p..j - 1
    BY <1>1, <1>4, <1>5
  <2>5. s[j - 1] = Escape
    BY <1>1, <2>3, <2>4
  <2> QED
    BY <1>5, <2>4, <2>5, NoPunctuation
<1>8. CASE j > z
  <2>1. z # Len(s) /\ z + 1 \in p..j
    BY <1>1, <1>4, <1>5, <1>8
  <2>2. s[z + 1] = Blank
    BY <2>1 DEF Followed, Sep
  <2>3. CASE z + 1 = j
    BY <1>5, <2>2, <2>3 DEF Blank
  <2>4. CASE z + 1 # j
    <3>1. z + 1 \in p..j - 1
      BY <1>4, <1>5, <2>1, <2>4
    <3> QED
      BY <1>5, <2>2, <3>1, NoPunctuation
  <2> QED
    BY <2>3, <2>4
<1> QED
  BY <1>1, <1>4, <1>5, <1>7, <1>8

LEMMA CefItem ==
    ASSUME NEW s \in Text, NEW v \in Text, NEW key, NEW b, NEW e, NEW z, NEW d,
           PairStands(s, key, CefWritten(v), b, e, z), GoodKey("cef", key), Followed("cef", s, z)
    PROVE  Item("cef", s, d, b) =
               [from |-> b, to |-> z, next |-> IF z = Len(s) THEN Len(s) + 1 ELSE z + 2]
<1> DEFINE I == {i \in b + 1..Len(s) : Boundary("cef", s, i)}
<1>1. b \in Nat \ {0} /\ e \in Nat /\ z \in Nat /\ Len(s) \in Nat /\ z <= Len(s)
  BY DEF PairStands, Text
<1>2. b < e /\ e <= z
  BY KeyStands
<1>3. ASSUME NEW i \in I PROVE z + 2 <= i /\ i <= Len(s)
  <2>1. i \in b + 1..Len(s) /\ Boundary("cef", s, i)
    OBVIOUS
  <2>2. ~(i <= z + 1)
    <3>1. ASSUME i <= z + 1 PROVE FALSE
      <4>1. i \in b + 1..z + 1 /\ i <= Len(s)
        BY <1>1, <2>1, <3>1
      <4> QED
        BY <2>1, <4>1, NoBoundaryInside
    <3> QED
      BY <3>1
  <2> QED
    BY <1>1, <2>1, <2>2
<1>4. CASE z = Len(s)
  <2>1. I = {}
    <3>1. ASSUME NEW i \in I PROVE FALSE
      <4>1. z + 2 <= i /\ i <= Len(s) /\ i \in Int
        BY <1>1, <1>3
      <4> QED
        BY <1>1, <1>4, <4>1
    <3> QED
      BY <3>1
  <2>2. FirstIn(I, s) = Len(s) + 1
    BY <2>1 DEF FirstIn
  <2> HIDE DEF I
  <2>3. Len(s) + 1 > Len(s)
    BY <1>1
  <2> QED
    BY <1>4, <2>2, <2>3 DEF Item, KeyAnchored, I
<1>5. CASE z # Len(s)
  <2>1. s[z + 1] = Blank
    BY <1>5 DEF Followed, Sep
  <2>2. PICK key2, w2, e2, z2 : GoodKey("cef", key2) /\ PairStands(s, key2, w2, z + 2, e2, z2)
    BY <1>5 DEF Followed
  <2>3. KeyEnd("cef", s, z + 2) = e2 /\ z + 2 < e2 /\ e2 <= z2 /\ z2 \in Nat /\ z2 <= Len(s) /\ e2 \in Nat
    <3>1. KeyEnd("cef", s, z + 2) = e2
      BY <2>2, KeyEndIs
    <3>2. z + 2 < e2 /\ e2 <= z2
      BY <2>2, KeyStands
    <3>3. z2 \in Nat /\ z2 <= Len(s) /\ e2 \in Nat
      BY <1>1, <2>2 DEF PairStands, Text
    <3> QED
      BY <3>1, <3>2, <3>3
  <2>4. z + 2 \in b + 1..Len(s) /\ (z + 2) - 1 = z + 1 /\ z + 1 \in Nat \ {0} /\ z + 1 <= Len(s) /\ e2 # 0
    BY <1>1, <1>2, <2>3
  <2>5. ~Escaped(s)[z + 1]
    <3>1. z + 1 \notin EscapedOnes(s)
      BY CefEnd
    <3> QED
      BY <2>4, <3>1, EscapedOrNot
  <2>6. Boundary("cef", s, z + 2)
    <3>1. s[(z + 2) - 1] = Blank /\ KeyEnd("cef", s, z + 2) # 0 /\ ~Escaped(s)[(z + 2) - 1]
      BY <2>1, <2>3, <2>4, <2>5
    <3> QED
      BY <3>1, Zenon DEF Boundary
  <2>7. z + 2 \in I /\ I \subseteq b + 1..Len(s) /\ b + 1 \in Nat \ {0} /\ \A i \in I : z + 2 <= i
    BY <1>1, <1>3, <2>4, <2>6
  <2> HIDE DEF I
  <2>8. FirstIn(I, s) = z + 2
    BY <2>7, FirstInIs
  <2>9. ~(z + 2 > Len(s)) /\ (z + 2) - 2 = z
    BY <1>1, <2>4
  <2> QED
    BY <1>5, <2>8, <2>9 DEF Item, KeyAnchored, I
<1> QED
  BY <1>4, <1>5

-----------------------------------------------------------------------------
(* key=value: the closing quote is the one that was written last. *)

\* In a quoted value only what has a backslash is a quote, and no line feed has one.
LEMMA InnerQuotes ==
    ASSUME NEW s \in Text, NEW v \in Text,
           Len(KvInner(v)) <= Len(s), \A i \in 1..Len(KvInner(v)) : s[i] = KvInner(v)[i]
    PROVE  /\ Len(KvInner(v)) + 1 \notin EscapedOnes(s)
           /\ \A p \in 1..Len(KvInner(v)) :
                 /\ s[p] = Quote => p \in EscapedOnes(s)
                 /\ ~(s[p] = LineFeed /\ p \in EscapedOnes(s))
<1> DEFINE n == Len(v)
           pieces == [i \in 1..n |-> KvPiece(v[i])]
           q == KvInner(v)
<1>1. n \in Nat /\ pieces \in Seq(Text) /\ Len(pieces) = n /\ Escaping(pieces)
  BY KvPieces DEF Text
<1>2. \A k \in 1..n : pieces[k] = KvPiece(v[k])
  OBVIOUS
<1>3. q = FlattenSeq(pieces)
  BY DEF KvInner
<1> HIDE DEF n, pieces, q
<1>4. 0 + Len(q) <= Len(s) /\ \A i \in 1..Len(q) : s[0 + i] = q[i]
  <2>1. q \in Text
    BY <1>1, <1>3, CutsAreThere
  <2>2. Len(q) \in Nat
    BY <2>1 DEF Text
  <2>3. 0 + Len(q) = Len(q) /\ \A i \in 1..Len(q) : 0 + i = i
    BY <2>2
  <2> QED
    BY <2>3 DEF q
<1>5. PICK at : Stands(s, 0, pieces, at) /\ at[n] = Len(q)
  <2>1. 0 \in Nat
    OBVIOUS
  <2> QED
    BY <1>1, <1>3, <1>4, <2>1, StandsThere
<1>6. /\ at[0] = 0 /\ Len(s) \in Nat
      /\ \A k \in 0..n : at[k] \in Nat /\ 0 + at[k] <= Len(s)
      /\ \A k \in 1..n : Len(pieces[k]) \in Nat /\ at[k] = at[k - 1] + Len(pieces[k])
  BY <1>1, <1>5, StandingPieces
<1>7. \A k \in 1..n : \A i \in 1..Len(pieces[k]) : s[0 + at[k - 1] + i] = pieces[k][i]
  <2>1. \A k \in 1..Len(pieces) : \A i \in 1..Len(pieces[k]) : s[0 + at[k - 1] + i] = pieces[k][i]
    BY <1>5, StandingPieces
  <2> QED
    BY <1>1, <2>1
<1>8. /\ \A k \in 0..n : 0 + at[k] + 1 \notin EscapedOnes(s)
      /\ \A k \in 1..n : Len(pieces[k]) = 2 => 0 + at[k] \in EscapedOnes(s)
  BY <1>1, <1>5, EscapesInPieces
<1>9. Len(q) + 1 \notin EscapedOnes(s)
  <2>0. n \in 0..n
    BY <1>1
  <2>1. 0 + at[n] + 1 \notin EscapedOnes(s) /\ at[n] \in Nat
    BY <1>6, <1>8, <2>0
  <2>2. 0 + at[n] + 1 = Len(q) + 1
    BY <1>5, <2>1
  <2> QED
    BY <2>1, <2>2
<1>10. ASSUME NEW p \in 1..Len(q)
       PROVE  (s[p] = Quote => p \in EscapedOnes(s)) /\ ~(s[p] = LineFeed /\ p \in EscapedOnes(s))
  <2>1. PICK k \in 1..n : \E i \in 1..Len(pieces[k]) : p = at[k - 1] + i
    <3>1. pieces \in Seq(Seq(Chars)) /\ PieceEnds(at, pieces) /\ p \in 1..at[Len(pieces)]
      BY <1>1, <1>5 DEF Stands, Text, q
    <3> QED
      BY <1>1, <3>1, EveryPlaceInAPiece
  <2>2. PICK i \in 1..Len(pieces[k]) : p = at[k - 1] + i
    BY <2>1
  <2>3. k - 1 \in 0..n /\ k \in 0..n /\ n \in 0..n
    BY <1>1
  <2>4. PICK a \in Nat : /\ a = at[k - 1] /\ p = a + i /\ p = 0 + a + i /\ a + 1 = 0 + a + 1
                          /\ 0 + at[k] = a + Len(pieces[k])
    <3>1. at[k - 1] \in Nat /\ at[k] \in Nat /\ at[k] = at[k - 1] + Len(pieces[k]) /\ Len(pieces[k]) \in Nat
      BY <1>6, <2>3
    <3>2. at[k - 1] + i = 0 + at[k - 1] + i /\ at[k - 1] + 1 = 0 + at[k - 1] + 1
          /\ 0 + at[k] = at[k - 1] + Len(pieces[k])
      BY <3>1
    <3> QED
      BY <2>2, <3>1, <3>2
  <2>5. s[p] = pieces[k][i]
    BY <1>7, <2>4
  <2>6. a + 1 \notin EscapedOnes(s)
    BY <1>8, <2>3, <2>4
  <2>7. Len(pieces[k]) = 2 => a + 2 \in EscapedOnes(s)
    BY <1>8, <2>4
  <2>8. pieces[k] = KvPiece(v[k])
    BY <1>2
  <2>9. CASE v[k] \in {Quote, Escape}
    <3>1. pieces[k] = <<Escape, v[k]>>
      BY <2>8, <2>9 DEF KvPiece
    <3>2. Len(pieces[k]) = 2 /\ i \in 1..2
      BY <3>1
    <3>3. CASE i = 1
      <4>1. s[p] = Escape
        BY <2>5, <3>1, <3>3
      <4> QED
        BY <4>1 DEF q, Escape, Quote, LineFeed
    <3>4. CASE i = 2
      <4>1. s[p] = v[k]
        BY <2>5, <3>1, <3>4
      <4>2. p \in EscapedOnes(s)
        BY <2>4, <2>7, <3>2, <3>4
      <4>3. s[p] # LineFeed
        BY <2>9, <4>1 DEF Escape, Quote, LineFeed
      <4> QED
        BY <4>2, <4>3 DEF q
    <3> QED
      BY <3>2, <3>3, <3>4
  <2>10. CASE v[k] \notin {Quote, Escape}
    <3>1. pieces[k] = <<v[k]>>
      BY <2>8, <2>10 DEF KvPiece
    <3>2. i = 1
      BY <3>1
    <3>3. s[p] = v[k]
      BY <2>5, <3>1, <3>2
    <3>4. p \notin EscapedOnes(s)
      BY <2>4, <2>6, <3>2
    <3> QED
      BY <2>10, <3>3, <3>4 DEF q
  <2> QED
    BY <2>9, <2>10
<1> QED
  BY <1>9, <1>10 DEF q

LEMMA ClosingQuote ==
    ASSUME NEW s \in Text, NEW v \in Text, ~Bare(v), NEW key, NEW b, NEW e, NEW z,
           PairStands(s, key, KvWritten(v), b, e, z)
    PROVE  /\ e < Len(s) /\ s[e + 1] = Quote
           /\ Closing(s, e + 1) # {} /\ Min(Closing(s, e + 1)) = z
<1> DEFINE q == KvInner(v)
           w == KvWritten(v)
           n == Len(q)
           inner == SubSeq(s, (e + 1) + 1, Len(s))
           E == EscapedOnes(inner)
           C == {j \in 1..Len(inner) :
                   /\ inner[j] = Quote /\ ~Escaped(inner)[j]
                   /\ \A m \in 1..j - 1 : ~(inner[m] = LineFeed /\ Escaped(inner)[m])}
<1>1. /\ e \in Nat /\ z \in Nat /\ Len(s) \in Nat /\ z <= Len(s) /\ w \in Text /\ z = e + Len(w)
      /\ \A j \in 1..Len(w) : s[e + j] = w[j]
  BY DEF PairStands, Text
<1>2. q \in Text /\ n \in Nat
  <2>1. q = FlattenSeq([i \in 1..Len(v) |-> KvPiece(v[i])])
    BY DEF KvInner
  <2>2. q \in Text
    BY <2>1, KvPieces, CutsAreThere
  <2> QED
    BY <2>2 DEF Text
<1>3. w = <<Quote>> \o q \o <<Quote>>
  BY KvPieces DEF KvInner
<1>4. Len(w) = n + 2 /\ w[1] = Quote /\ w[Len(w)] = Quote /\ \A j \in 1..n : w[1 + j] = q[j]
  BY <1>2, <1>3, QuotedStands
<1> HIDE DEF q, w, n, inner
<1>5. z = e + n + 2
  BY <1>1, <1>2, <1>4
<1>6. e < Len(s) /\ s[e + 1] = Quote
  <2>1. 1 \in 1..Len(w) /\ e < Len(s)
    BY <1>1, <1>2, <1>4, <1>5
  <2> QED
    BY <1>1, <1>4, <2>1
<1>7. /\ inner \in Text /\ Len(inner) = Len(s) - e - 1
      /\ \A i \in 1..Len(s) - e - 1 : inner[i] = s[e + 1 + i]
  <2>1. \A i \in 1..Len(s) : s[i] \in Chars
    BY DEF Text
  <2>2. (e + 1) + 1 \in Nat \ {0} /\ (e + 1) + 1 <= Len(s) /\ Len(s) - ((e + 1) + 1) + 1 = Len(s) - e - 1
        /\ \A i \in (e + 1) + 1..Len(s) : i \in 1..Len(s)
    BY <1>1, <1>2, <1>5
  <2>3. \A i \in (e + 1) + 1..Len(s) : s[i] \in Chars
    BY <2>1, <2>2
  <2>4. /\ inner \in Seq(Chars)
        /\ Len(inner) = IF (e + 1) + 1 <= Len(s) THEN Len(s) - ((e + 1) + 1) + 1 ELSE 0
        /\ \A i \in 1..Len(s) - ((e + 1) + 1) + 1 : inner[i] = s[(e + 1) + 1 + i - 1]
    BY <1>1, <2>2, <2>3, SubSeqProperties DEF inner
  <2>5. \A i \in 1..Len(s) - e - 1 : (e + 1) + 1 + i - 1 = e + 1 + i
    BY <1>1
  <2> QED
    BY <2>2, <2>4, <2>5 DEF Text
<1>8. n <= Len(inner) /\ n + 1 \in 1..Len(inner)
  BY <1>1, <1>2, <1>5, <1>7
<1>9. \A j \in 1..n : inner[j] = q[j]
  <2>1. ASSUME NEW j \in 1..n PROVE inner[j] = q[j]
    <3>1. j \in 1..Len(s) - e - 1 /\ 1 + j \in 1..Len(w) /\ e + 1 + j = e + (1 + j)
      BY <1>1, <1>2, <1>4, <1>5
    <3> QED
      BY <1>1, <1>4, <1>7, <3>1
  <2> QED
    BY <2>1
<1>10. inner[n + 1] = Quote
  <2>1. n + 1 \in 1..Len(s) - e - 1 /\ n + 2 \in 1..Len(w) /\ e + 1 + (n + 1) = e + (n + 2) /\ Len(w) = n + 2
    BY <1>1, <1>2, <1>4, <1>5
  <2> QED
    BY <1>1, <1>4, <1>7, <2>1
<1>11. /\ n + 1 \notin E
       /\ \A p \in 1..n : (inner[p] = Quote => p \in E) /\ ~(inner[p] = LineFeed /\ p \in E)
  BY <1>7, <1>8, <1>9, InnerQuotes DEF q, n
<1>12. \A x \in 1..Len(inner) : Escaped(inner)[x] <=> x \in E
  BY Zenon DEF EscapedOnes
<1> HIDE DEF E
<1>13. n + 1 \in C
  <2>1. \A m \in 1..(n + 1) - 1 : m \in 1..n /\ m \in 1..Len(inner)
    BY <1>2, <1>8
  <2> QED
    BY <1>8, <1>10, <1>11, <1>12, <2>1, Zenon
<1>14. ASSUME NEW x \in C PROVE x \in 1..Len(inner) /\ n + 1 <= x
  <2>1. x \in 1..Len(inner) /\ inner[x] = Quote /\ x \notin E
    BY <1>12, Zenon
  <2>2. x \notin 1..n
    BY <1>11, <2>1
  <2> QED
    BY <1>2, <2>1, <2>2
<1>15. Closing(s, e + 1) = {(e + 1) + x : x \in C}
  BY DEF Closing, inner
<1> HIDE DEF C
<1>16. Closing(s, e + 1) \subseteq Nat /\ (e + 1) + (n + 1) \in Closing(s, e + 1)
       /\ \A y \in Closing(s, e + 1) : (e + 1) + (n + 1) <= y
  BY <1>1, <1>2, <1>13, <1>14, <1>15
<1>17. Min(Closing(s, e + 1)) = (e + 1) + (n + 1)
  <2>1. Min(Closing(s, e + 1)) \in Closing(s, e + 1)
        /\ \A y \in Closing(s, e + 1) : Min(Closing(s, e + 1)) <= y
    BY <1>16, LeastNumber
  <2>2. Min(Closing(s, e + 1)) <= (e + 1) + (n + 1) /\ (e + 1) + (n + 1) <= Min(Closing(s, e + 1))
        /\ Min(Closing(s, e + 1)) \in Nat
    BY <1>16, <2>1
  <2> QED
    BY <1>1, <1>2, <2>2
<1>18. z = (e + 1) + (n + 1)
  BY <1>1, <1>2, <1>5
<1> QED
  BY <1>6, <1>16, <1>17, <1>18

LEMMA KvItem ==
    ASSUME NEW f \in {"kv", "fortigate"}, NEW s \in Text, NEW v \in Text,
           NEW key, NEW b, NEW e, NEW z, NEW d,
           PairStands(s, key, KvWritten(v), b, e, z), GoodKey(f, key), Followed(f, s, z),
           NEW at \in 1..b, \A p \in at..b - 1 : s[p] = Blank
    PROVE  Item(f, s, d, at) = [from |-> b, to |-> z, next |-> z + 1]
<1> DEFINE w == KvWritten(v)
           B == {i \in at..Len(s) : s[i] # Blank}
           stops == {Blank, Tab, LineFeed}
           S == {i \in e + 1..Len(s) : s[i] \in stops}
           quoted == e # 0 /\ e < Len(s) /\ s[e + 1] = Quote /\ Closing(s, e + 1) # {}
           to == IF quoted THEN Min(Closing(s, e + 1)) ELSE FirstIn(S, s) - 1
<1>1. /\ b \in Nat \ {0} /\ e \in Nat /\ z \in Nat /\ Len(s) \in Nat /\ z <= Len(s) /\ s[e] = "="
      /\ w \in Text /\ Len(w) \in Nat /\ z = e + Len(w)
      /\ \A j \in 1..Len(w) : s[e + j] = w[j]
  BY DEF PairStands, Text
<1>2. b < e /\ e <= z /\ s[b] \in Letters
  BY KeyStands
<1> HIDE DEF w
<1>3. FirstIn(B, s) = b
  <2>1. at \in Nat \ {0} /\ b \in at..Len(s)
    BY <1>1, <1>2
  <2>2. Blank \notin Letters
    BY TextsAssumption DEF Punctuation
  <2>3. b \in B /\ B \subseteq at..Len(s)
    BY <1>2, <2>1, <2>2
  <2>4. ASSUME NEW i \in B PROVE b <= i
    <3>1. i \in at..Len(s) /\ i \notin at..b - 1
      OBVIOUS
    <3> QED
      BY <1>1, <2>1, <3>1
  <2> HIDE DEF B
  <2> QED
    BY <2>1, <2>3, <2>4, FirstInIs
<1>4. KeyEnd("kv", s, b) = e /\ e # 0 /\ ~(b > Len(s))
  <2>1. GoodKey("kv", key)
    BY DEF GoodKey
  <2>2. KeyEnd("kv", s, b) = e
    BY <2>1, KeyEndIs
  <2> QED
    BY <1>1, <1>2, <2>2
<1>5. Token(s, at) = [from |-> b, to |-> to, next |-> to + 1]
  BY <1>3, <1>4 DEF Token
<1>6. to = z
  <2>1. CASE Bare(v)
    <3>1. w = v
      BY <2>1, KvPieces DEF w
    <3>2. \A j \in 1..Len(w) : w[j] \notin {Blank, Tab, LineFeed, Quote}
      <4>1. \A j \in 1..Len(w) : w[j] \in Characters(w)
        BY <1>1 DEF Characters, ToSet, Text
      <4>2. Characters(w) \cap {Blank, Tab, LineFeed, Quote} = {}
        BY <2>1, <3>1 DEF Bare
      <4> QED
        BY <4>1, <4>2
    <3>3. z # Len(s) => s[z + 1] = Blank
      BY DEF Followed, Sep
    <3>4. ASSUME NEW p \in e + 1..z PROVE s[p] \notin {Blank, Tab, LineFeed, Quote}
      <4>1. p - e \in 1..Len(w) /\ e + (p - e) = p
        BY <1>1
      <4> QED
        BY <1>1, <3>2, <4>1
    <3>5. ~quoted
      <4>1. ASSUME e < Len(s), s[e + 1] = Quote PROVE FALSE
        <5>1. CASE z = e
          <6>1. s[e + 1] = Blank
            BY <1>1, <3>3, <4>1, <5>1
          <6> QED
            BY <4>1, <6>1 DEF Blank, Quote
        <5>2. CASE z # e
          <6>1. e + 1 \in e + 1..z
            BY <1>1, <1>2, <5>2
          <6> QED
            BY <3>4, <4>1, <6>1
        <5> QED
          BY <5>1, <5>2
      <4> QED
        BY <4>1
    <3>6. ASSUME NEW i \in S PROVE z + 1 <= i /\ i <= Len(s)
      <4>1. i \in e + 1..Len(s) /\ i \notin e + 1..z
        BY <3>4
      <4> QED
        BY <1>1, <4>1
    <3>7. FirstIn(S, s) = z + 1
      <4>1. CASE z = Len(s)
        <5>1. S = {}
          <6>1. ASSUME NEW i \in S PROVE FALSE
            <7>1. z + 1 <= i /\ i <= Len(s) /\ i \in Int
              BY <1>1, <3>6
            <7> QED
              BY <1>1, <4>1, <7>1
          <6> QED
            BY <6>1
        <5> HIDE DEF S
        <5> QED
          BY <4>1, <5>1 DEF FirstIn
      <4>2. CASE z # Len(s)
        <5>1. z + 1 \in e + 1..Len(s) /\ e + 1 \in Nat \ {0}
          BY <1>1, <1>2, <4>2
        <5>2. z + 1 \in S /\ S \subseteq e + 1..Len(s)
          BY <3>3, <4>2, <5>1
        <5> HIDE DEF S
        <5> QED
          BY <3>6, <5>1, <5>2, FirstInIs
      <4> QED
        BY <4>1, <4>2
    <3>8. to = FirstIn(S, s) - 1
      BY <3>5
    <3> HIDE DEF to, S, quoted
    <3> QED
      BY <1>1, <3>7, <3>8
  <2>2. CASE ~Bare(v)
    <3>1. e < Len(s) /\ s[e + 1] = Quote /\ Closing(s, e + 1) # {} /\ Min(Closing(s, e + 1)) = z
      BY <2>2, ClosingQuote
    <3> QED
      BY <1>4, <3>1
  <2> QED
    BY <2>1, <2>2
<1> HIDE DEF to
<1>7. Item(f, s, d, at) = Token(s, at)
  BY DEF Item
<1> QED
  BY <1>5, <1>6, <1>7

-----------------------------------------------------------------------------
(* What senders write. *)

\* What is written of keys that are keys, and in LEEF of at least two values on one line.
Conforms(f, list) ==
    /\ list \in Seq(WrittenPairs) /\ list # <<>>
    /\ \A i \in 1..Len(list) : GoodKey(f, list[i].key)
    /\ f = "leef" =>
          /\ Len(list) >= 2
          /\ \A i \in 1..Len(list) : Characters(list[i].val) \cap {Tab, LineFeed} = {}

LEMMA CharactersOf ==
    ASSUME NEW s \in Text
    PROVE  /\ \A j \in 1..Len(s) : s[j] \in Characters(s)
           /\ \A c \in Characters(s) : \E j \in 1..Len(s) : s[j] = c
BY DEF Characters, ToSet, Text

LEMMA EscapedIsOneLine ==
    ASSUME NEW v \in Text
    PROVE  Characters(LeefEscaped(v)) \cap {Tab, LineFeed} = {}
<1> DEFINE D == Chars \ {Tab, LineFeed}
           piece(c) == CASE c = Escape -> <<Escape, Escape>>
                         [] c = Tab -> <<Escape, "t">>
                         [] c = LineFeed -> <<Escape, "n">>
                         [] OTHER -> <<c>>
           pieces == [i \in 1..Len(v) |-> piece(v[i])]
<1>1. Len(v) \in Nat /\ \A i \in 1..Len(v) : v[i] \in Chars
  BY DEF Text
<1>2. Escape \in D /\ "t" \in D /\ "n" \in D
  BY TheChars DEF Escape, Tab, LineFeed
<1>3. ASSUME NEW i \in 1..Len(v) PROVE piece(v[i]) \in Seq(D)
  <2>1. CASE v[i] \in {Escape, Tab, LineFeed}
    <3>1. piece(v[i]) \in {<<Escape, Escape>>, <<Escape, "t">>, <<Escape, "n">>}
      BY <2>1 DEF Escape, Tab, LineFeed
    <3> HIDE DEF D, piece
    <3>2. /\ <<Escape, Escape>> \in Seq(D) /\ <<Escape, "t">> \in Seq(D)
          /\ <<Escape, "n">> \in Seq(D)
      BY <1>2, ShortSequences
    <3> QED
      BY <3>1, <3>2, Zenon
  <2>2. CASE v[i] \notin {Escape, Tab, LineFeed}
    <3>1. piece(v[i]) = <<v[i]>>
      BY <2>2
    <3>2. v[i] \in D
      BY <1>1, <2>2
    <3> HIDE DEF D, piece
    <3> QED
      BY <3>1, <3>2
  <2> QED
    BY <2>1, <2>2
<1>4. pieces \in Seq(Seq(D))
  <2> HIDE DEF D, piece
  <2> QED
    BY <1>1, <1>3
<1>5. LeefEscaped(v) = FlattenSeq(pieces)
  BY DEF LeefEscaped, Replaced
<1> HIDE DEF pieces
<1>6. LeefEscaped(v) \in Seq(D)
  <2> HIDE DEF D
  <2> QED
    BY <1>4, <1>5, FlattenedIsSequence
<1>7. \A j \in 1..Len(LeefEscaped(v)) : LeefEscaped(v)[j] \notin {Tab, LineFeed}
  BY <1>6
<1>8. LeefEscaped(v) \in Text
  BY LeefEscapedIsText
<1> QED
  BY <1>7, <1>8, CharactersOf

LEMMA AttributesAreOneLine ==
    ASSUME NEW e \in Events, OneLine(e)
    PROVE  LET list == Attributes(e, SevKey, SrcKey, RawKey)
           IN  /\ Len(list) >= 2
               /\ \A i \in 1..Len(list) : Characters(list[i].val) \cap {Tab, LineFeed} = {}
<1> DEFINE P == {p \in WrittenPairs : Characters(p.val) \cap {Tab, LineFeed} = {}}
<1>1. /\ e.severity \in Text /\ e.source \in Text /\ e.raw \in Text
      /\ e.unknown \in Seq(WrittenPairs)
      /\ SevKey \in Text /\ SrcKey \in Text /\ RawKey \in Text
  BY KeyValuesAssumption DEF Text
<1>2. ASSUME NEW k \in Text, NEW v \in Text, Characters(v) \cap {Tab, LineFeed} = {}
      PROVE  Pair(k, v) \in P
  <2>1. Pair(k, v) \in WrittenPairs /\ Pair(k, v).val = v
    BY PairsAreWritten DEF Pair
  <2> QED
    BY <1>2, <2>1
<1> HIDE DEF P
<1>3. Characters(e.severity) \cap {Tab, LineFeed} = {} /\ Characters(e.source) \cap {Tab, LineFeed} = {}
  <2> DEFINE a == e.severity
             b == e.source
  <2>1. /\ a \o b \in Text /\ Len(a \o b) = Len(a) + Len(b)
        /\ \A j \in 1..Len(a) : (a \o b)[j] = a[j]
        /\ \A j \in 1..Len(b) : (a \o b)[Len(a) + j] = b[j]
    BY <1>1, TwoStand
  <2>2. Len(a) \in Nat /\ Len(b) \in Nat /\ Characters(a \o b) \cap {Tab, LineFeed} = {}
    BY <1>1 DEF OneLine, Text
  <2> HIDE DEF a, b
  <2>3. \A j \in 1..Len(a) : a[j] \in Characters(a \o b)
    <3>1. \A j \in 1..Len(a) : j \in 1..Len(a \o b)
      BY <2>1, <2>2
    <3> QED
      BY <2>1, <3>1, CharactersOf
  <2>4. \A j \in 1..Len(b) : b[j] \in Characters(a \o b)
    <3>1. \A j \in 1..Len(b) : Len(a) + j \in 1..Len(a \o b)
      BY <2>1, <2>2
    <3> QED
      BY <2>1, <3>1, CharactersOf
  <2>5. a \in Text /\ b \in Text
    BY <1>1 DEF a, b
  <2>6. Characters(a) \subseteq Characters(a \o b) /\ Characters(b) \subseteq Characters(a \o b)
    BY <2>3, <2>4, <2>5, CharactersOf
  <2> QED
    BY <2>2, <2>6 DEF a, b
<1>4. /\ Pair(SevKey, e.severity) \in P /\ Pair(SrcKey, e.source) \in P
      /\ Pair(RawKey, LeefEscaped(e.raw)) \in P
  BY <1>1, <1>2, <1>3, LeefEscapedIsText, EscapedIsOneLine
<1>5. ASSUME NEW i \in 1..Len(e.unknown)
      PROVE  Pair(<<"u", "_">> \o SafeKey(e.unknown[i].key), LeefEscaped(e.unknown[i].val)) \in P
  <2>1. e.unknown[i] \in WrittenPairs
    BY <1>1
  <2>2. e.unknown[i].key \in Text /\ e.unknown[i].val \in Text
    BY <2>1 DEF WrittenPairs, Text
  <2> QED
    BY <1>2, <2>2, SafeKeyIsText, LeefEscapedIsText, EscapedIsOneLine
<1>6. /\ Attributes(e, SevKey, SrcKey, RawKey) \in Seq(P)
      /\ Len(Attributes(e, SevKey, SrcKey, RawKey)) >= 2
  <2>1. MadeOf(e, P)
    BY <1>4, <1>5 DEF MadeOf
  <2> QED
    BY <2>1, AttributesOf
<1>7. \A p \in P : Characters(p.val) \cap {Tab, LineFeed} = {}
  BY DEF P
<1> QED
  BY <1>6, <1>7

LEMMA StrippedIsWhole ==
    ASSUME NEW s \in Text, s # <<>>, s[Len(s)] \notin {Blank, Tab, LineFeed}
    PROVE  Stripped(s) = s
<1> DEFINE ends == {0} \cup {i \in 1..Len(s) : s[i] \notin {Blank, Tab, LineFeed}}
<1>1. Len(s) \in Nat /\ Len(s) # 0
  BY DEF Text
<1>2. ends \subseteq 0..Len(s) /\ ends # {} /\ Len(s) \in ends
  BY <1>1
<1> HIDE DEF ends
<1>3. Max(ends) \in ends /\ \A n \in ends : n <= Max(ends)
  BY <1>1, <1>2, GreatestNumber
<1>4. Max(ends) = Len(s)
  <2>1. Max(ends) \in 0..Len(s) /\ Len(s) <= Max(ends)
    BY <1>2, <1>3
  <2> QED
    BY <1>1, <2>1
<1>5. SubSeq(s, 1, Len(s)) = s
  <2>1. 1 \in Nat \ {0} /\ Len(s) <= Len(s) /\ 1 + Len(s) = Len(s) + 1
    BY <1>1
  <2>2. \A k \in 1..Len(s) : s[1 - 1 + k] = s[k]
    BY <1>1
  <2> QED
    BY <1>1, <2>1, <2>2, PartIs
<1> QED
  BY <1>4, <1>5 DEF Stripped, ends

\* A value that does not end in a blank is not written with one at its end.
LEMMA CefLast ==
    ASSUME NEW v \in Text, ~EndsIn(v, {Blank, Tab}), Len(CefWritten(v)) # 0
    PROVE  CefWritten(v)[Len(CefWritten(v))] \notin {Blank, Tab, LineFeed}
<1> DEFINE n == Len(v)
           pieces == [i \in 1..n |-> CefPiece(v[i])]
           w == CefWritten(v)
<1>1. n \in Nat /\ pieces \in Seq(Text) /\ Len(pieces) = n /\ w = FlattenSeq(pieces)
  BY CefPieces DEF Text
<1>2. \A k \in 1..n : pieces[k] = CefPiece(v[k])
  OBVIOUS
<1>3. v # <<>> => v[n] \notin {Blank, Tab}
  BY DEF EndsIn
<1>4. n # 0 => v # <<>>
  OBVIOUS
<1> HIDE DEF n, pieces, w
<1>5. w \in Text /\ \E at : CutInto(w, pieces, at)
  BY <1>1, CutsAreThere
<1>6. PICK at : CutInto(w, pieces, at)
  BY <1>5
<1>7. /\ at[0] = 0 /\ Len(w) \in Nat /\ Len(w) = at[n]
      /\ \A k \in 0..n : at[k] \in Nat /\ 0 + at[k] <= Len(w)
      /\ \A k \in 1..n : Len(pieces[k]) \in Nat /\ at[k] = at[k - 1] + Len(pieces[k])
  BY <1>1, <1>5, <1>6, StandingPieces, SMTT(20) DEF CutInto
<1>8. \A k \in 1..n : \A i \in 1..Len(pieces[k]) : w[0 + at[k - 1] + i] = pieces[k][i]
  <2>1. Stands(w, 0, pieces, at)
    BY <1>6 DEF CutInto
  <2>2. \A k \in 1..Len(pieces) : \A i \in 1..Len(pieces[k]) : w[0 + at[k - 1] + i] = pieces[k][i]
    BY <1>5, <2>1, StandingPieces
  <2> QED
    BY <1>1, <2>2
<1>9. n # 0 /\ n \in 1..n /\ n - 1 \in 0..n
  <2>1. Len(w) # 0
    BY DEF w
  <2>2. n # 0
    BY <1>7, <2>1
  <2> QED
    BY <1>1, <2>2
<1>10. pieces[n] = CefPiece(v[n]) /\ v[n] \notin {Blank, Tab}
  BY <1>2, <1>3, <1>4, <1>9
<1>11. Len(pieces[n]) \in 1..2 /\ pieces[n][Len(pieces[n])] \notin {Blank, Tab, LineFeed}
  <2>1. CASE v[n] = LineFeed
    <3>1. pieces[n] = <<Escape, "n">>
      BY <1>10, <2>1 DEF CefPiece
    <3>2. Len(pieces[n]) = 2 /\ pieces[n][2] = "n"
      BY <3>1
    <3>3. "n" # Blank /\ "n" # Tab /\ "n" # LineFeed
      BY DEF Blank, Tab, LineFeed
    <3> QED
      BY <3>2, <3>3
  <2>2. CASE v[n] # LineFeed /\ v[n] \in {"=", Escape}
    <3>1. pieces[n] = <<Escape, v[n]>>
      BY <1>10, <2>2 DEF CefPiece
    <3> QED
      BY <1>10, <2>2, <3>1
  <2>3. CASE v[n] # LineFeed /\ v[n] \notin {"=", Escape}
    <3>1. pieces[n] = <<v[n]>>
      BY <1>10, <2>3 DEF CefPiece
    <3> QED
      BY <1>10, <2>3, <3>1
  <2> QED
    BY <2>1, <2>2, <2>3
<1>12. w[Len(w)] = pieces[n][Len(pieces[n])]
  <2>1. PICK a \in Nat, l \in Nat : a = at[n - 1] /\ l = Len(pieces[n]) /\ Len(w) = a + l /\ l \in 1..2
    <3>1. at[n - 1] \in Nat
      BY <1>7, <1>9
    <3>2. Len(w) = at[n - 1] + Len(pieces[n]) /\ Len(pieces[n]) \in Nat
      BY <1>7, <1>9
    <3> QED
      BY <1>11, <3>1, <3>2
  <2>2. l \in 1..l /\ 0 + a + l = Len(w)
    <3>1. l \in 1..l
      <4>1. l \in 1..2
        BY <2>1, Zenon
      <4> QED
        BY <4>1
    <3>2. 0 + a + l = a + l
      OBVIOUS
    <3> QED
      BY <2>1, <3>1, <3>2, Zenon
  <2>3. w[0 + at[n - 1] + l] = pieces[n][l]
    BY <1>8, <1>9, <2>1, <2>2
  <2> QED
    BY <2>1, <2>2, <2>3
<1> QED
  BY <1>11, <1>12 DEF w

LEMMA LastCharacter ==
    ASSUME NEW f \in {"cef", "leef"}, NEW list, Conforms(f, list),
           ~EndsIn(list[Len(list)].val, {Blank, Tab})
    PROVE  Whole(f, list) # <<>> /\ Whole(f, list)[Len(Whole(f, list))] \notin {Blank, Tab, LineFeed}
<1> DEFINE n == Len(list)
           s == Whole(f, list)
           key == list[n].key
           v == list[n].val
           w == Wr(f, v)
<1>1. f \in Formats /\ list \in Seq(WrittenPairs) /\ n \in 1..n
  BY DEF Conforms, Formats
<1>2. s \in Text /\ \E at : LaidOut(f, list, s, at)
  BY <1>1, WrittenIsLaidOut
<1>3. list[n] \in WrittenPairs
  BY <1>1
<1>4. key \in Text /\ v \in Text
  BY <1>3 DEF WrittenPairs, Text
<1>5. ~EndsIn(v, {Blank, Tab}) /\ (f = "leef" => Characters(v) \cap {Tab, LineFeed} = {})
  BY <1>1 DEF Conforms
<1>6. PICK at : LaidOut(f, list, s, at)
  BY <1>2
<1>7. at[n] = Len(s) /\ \E b, e : PairStands(s, key, w, b, e, at[n])
  BY <1>1, <1>6 DEF LaidOut
<1>8. PICK b, e : PairStands(s, key, w, b, e, Len(s))
  BY <1>7
<1> HIDE DEF s, key, v, n, w
<1>9. /\ b \in Nat \ {0} /\ e \in Nat /\ s[e] = "=" /\ Len(w) \in Nat /\ Len(s) = e + Len(w)
      /\ \A j \in 1..Len(w) : s[e + j] = w[j]
      /\ Len(key) \in Nat /\ e = b + Len(key)
  BY <1>2, <1>8 DEF PairStands, Text
<1>10. s # <<>>
  <2>1. Len(s) # 0
    BY <1>9
  <2> QED
    BY <2>1
<1>11. CASE Len(w) = 0
  <2>1. Len(s) = e
    BY <1>9, <1>11
  <2> QED
    BY <1>9, <1>10, <2>1 DEF s, n, Blank, Tab, LineFeed
<1>12. CASE Len(w) # 0
  <2>1. s[Len(s)] = w[Len(w)]
    BY <1>9, <1>12
  <2>2. CASE f = "cef"
    <3>1. w = CefWritten(v)
      BY <2>2 DEF Wr, w
    <3> QED
      BY <1>4, <1>5, <1>10, <1>12, <2>1, <3>1, CefLast DEF s
  <2>3. CASE f = "leef"
    <3>1. w = v
      BY <2>3 DEF Wr, w
    <3>2. v # <<>> /\ v[Len(v)] \in Characters(v)
      <4>1. Len(v) \in 1..Len(v) /\ v # <<>>
        BY <1>9, <1>12, <3>1
      <4> QED
        BY <1>4, <4>1, CharactersOf
    <3>3. v[Len(v)] \notin {Blank, Tab, LineFeed}
      BY <1>5, <2>3, <3>2 DEF EndsIn
    <3> QED
      BY <1>10, <2>1, <3>1, <3>3 DEF s
  <2> QED
    BY <2>2, <2>3
<1> QED
  BY <1>11, <1>12

LEMMA WrittenAtStart ==
    ASSUME Init, written # <<>>
    PROVE  /\ Conforms(fmt, written) /\ fmt \in Formats
           /\ text = Whole(fmt, written)
           /\ fmt = "leef" => delim = Tab
<1>1. fmt \in Formats
  BY DEF Init
<1>2. ASSUME Sends(fmt, written), written \in Seq(WrittenPairs)
      PROVE  /\ \A i \in 1..Len(written) : GoodKey(fmt, written[i].key)
             /\ fmt \in {"cef", "leef"} => ~EndsIn(written[Len(written)].val, {Blank, Tab})
  BY <1>2 DEF Sends, GoodKey
<1>3. ASSUME Conforms(fmt, written), text \in Read(fmt, Whole(fmt, written)), Sends(fmt, written)
      PROVE  text = Whole(fmt, written)
  <2>1. written \in Seq(WrittenPairs)
    BY <1>3 DEF Conforms
  <2>2. CASE fmt \in {"cef", "leef"}
    <3>1. Whole(fmt, written) # <<>>
          /\ Whole(fmt, written)[Len(Whole(fmt, written))] \notin {Blank, Tab, LineFeed}
      BY <1>2, <1>3, <2>1, <2>2, LastCharacter
    <3>2. Whole(fmt, written) \in Text
      BY <1>1, <2>1, WrittenIsLaidOut
    <3>3. Stripped(Whole(fmt, written)) = Whole(fmt, written)
      BY <3>1, <3>2, StrippedIsWhole
    <3> QED
      BY <1>3, <2>2, <3>3 DEF Read
  <2>3. CASE fmt \notin {"cef", "leef"}
    BY <1>3, <2>3 DEF Read
  <2> QED
    BY <2>2, <2>3
<1>4. CASE fmt # "leef" /\ written \in Lists /\ Sends(fmt, written)
           /\ text \in Read(fmt, Written(fmt, written))
  <2>1. written \in Seq(WrittenPairs)
    BY <1>4, KeyValuesAssumption
  <2>2. Conforms(fmt, written)
    BY <1>2, <1>4, <2>1 DEF Conforms
  <2>3. Whole(fmt, written) = Written(fmt, written)
    BY <1>4 DEF Whole
  <2> QED
    BY <1>1, <1>3, <1>4, <2>2, <2>3
<1>5. CASE fmt = "leef" /\ delim = Tab /\ Sends(fmt, written)
           /\ (\E e \in {e \in Events : OneLine(e)} : written = Attributes(e, SevKey, SrcKey, RawKey))
           /\ text \in Read(fmt, Joined(written, LAMBDA v : v, Tab))
  <2>1. PICK e \in Events : OneLine(e) /\ written = Attributes(e, SevKey, SrcKey, RawKey)
    BY <1>5
  <2>2. written \in Seq(WrittenPairs)
    BY <2>1, AttributesArePairs
  <2>3. Len(written) >= 2 /\ \A i \in 1..Len(written) : Characters(written[i].val) \cap {Tab, LineFeed} = {}
    BY <2>1, AttributesAreOneLine
  <2>4. Conforms(fmt, written)
    BY <1>2, <1>5, <2>2, <2>3 DEF Conforms
  <2>5. Whole(fmt, written) = Joined(written, LAMBDA v : v, Tab)
    BY <1>5 DEF Whole
  <2> QED
    BY <1>1, <1>3, <1>5, <2>4, <2>5
<1> QED
  BY <1>4, <1>5 DEF Init

LEMMA LeefIsOneLine ==
    ASSUME NEW list, Conforms("leef", list)
    PROVE  LineFeed \notin Characters(Whole("leef", list))
<1> DEFINE D == Chars \ {LineFeed}
           n == Len(list)
           start(i) == IF i = 1 THEN <<>> ELSE <<Tab>>
           glued(i) == start(i) \o list[i].key \o <<"=">> \o list[i].val
           pieces == [i \in 1..n |-> glued(i)]
<1>1. n \in Nat /\ list \in Seq(WrittenPairs) /\ \A i \in 1..n : list[i].key \in Text /\ list[i].val \in Text
  <2>1. list \in Seq(WrittenPairs)
    BY DEF Conforms
  <2>2. n \in Nat /\ \A i \in 1..n : list[i] \in WrittenPairs
    BY <2>1 DEF n
  <2> QED
    BY <2>1, <2>2 DEF WrittenPairs, Text
<1>2. "=" \in D /\ Tab \in D
  BY TheChars DEF Tab, LineFeed
<1>3. Whole("leef", list) = FlattenSeq(pieces)
  BY DEF Whole, Joined
<1>4. ASSUME NEW x \in Text, LineFeed \notin Characters(x) PROVE x \in Seq(D)
  <2>1. \A j \in 1..Len(x) : x[j] \in D
    <3>1. \A j \in 1..Len(x) : x[j] \in Characters(x) /\ x[j] \in Chars
      BY CharactersOf DEF Text
    <3> QED
      BY <1>4, <3>1
  <2> HIDE DEF D
  <2> QED
    BY <2>1 DEF Text
<1>5. ASSUME NEW i \in 1..n PROVE list[i].key \in Seq(D) /\ list[i].val \in Seq(D)
  <2>1. LineFeed \notin Characters(list[i].key)
    <3>1. GoodKey("leef", list[i].key)
      BY DEF Conforms
    <3> QED
      BY <3>1, NoPunctuation DEF GoodKey
  <2>2. LineFeed \notin Characters(list[i].val)
    BY DEF Conforms
  <2> QED
    BY <1>1, <1>4, <2>1, <2>2
<1> HIDE DEF D, n
<1>6. ASSUME NEW i \in 1..n PROVE glued(i) \in Seq(D)
  <2>1. start(i) \in Seq(D) /\ <<"=">> \in Seq(D)
    BY <1>2, ShortSequences
  <2> HIDE DEF start
  <2> DEFINE x == start(i) \o list[i].key
             y == x \o <<"=">>
  <2>2. x \in Seq(D)
    BY <1>5, <2>1, ConcatProperties
  <2> HIDE DEF x
  <2>3. y \in Seq(D)
    BY <2>1, <2>2, ConcatProperties
  <2> HIDE DEF y
  <2>4. y \o list[i].val \in Seq(D)
    BY <1>5, <2>3, ConcatProperties
  <2> QED
    BY <2>4 DEF x, y
<1> HIDE DEF glued
<1>7. pieces \in Seq(Seq(D))
  BY <1>1, <1>6
<1> HIDE DEF pieces
<1>8. Whole("leef", list) \in Seq(D)
  BY <1>3, <1>7, FlattenedIsSequence
<1>9. \A j \in 1..Len(Whole("leef", list)) : Whole("leef", list)[j] # LineFeed
  BY <1>8 DEF D
<1>10. Whole("leef", list) \in Text
  BY <1>1, WrittenIsLaidOut DEF Formats
<1> QED
  BY <1>9, <1>10, CharactersOf

\* Where the tokenizer looks for the i-th pair: in key=value at the separator before it.
Place(f, at, i) ==
    IF i = 1 THEN 1 ELSE at[i - 1] + (IF f \in {"kv", "fortigate"} THEN 1 ELSE 2)

ItemIsThere(f, list, s, at, d, i) ==
    \E e, next :
        /\ Item(f, s, d, Place(f, at, i)) = [from |-> Start(at, i), to |-> at[i], next |-> next]
        /\ PairStands(s, list[i].key, Wr(f, list[i].val), Start(at, i), e, at[i])
        /\ i < Len(list) => next = Place(f, at, i + 1)
        /\ i = Len(list) => next > Len(s)

LEMMA OneItem ==
    ASSUME NEW f \in Formats, NEW list, NEW s \in Text, NEW at, NEW d,
           Conforms(f, list), LaidOut(f, list, s, at), f = "leef" => d = Tab,
           NEW i \in 1..Len(list)
    PROVE  Place(f, at, i) \in 1..Len(s) /\ ItemIsThere(f, list, s, at, d, i)
<1> SUFFICES /\ Place(f, at, i) \in 1..Len(s)
             /\ \E e, next :
                   /\ Item(f, s, d, Place(f, at, i)) = [from |-> Start(at, i), to |-> at[i], next |-> next]
                   /\ PairStands(s, list[i].key, Wr(f, list[i].val), Start(at, i), e, at[i])
                   /\ i < Len(list) => next = Place(f, at, i + 1)
                   /\ i = Len(list) => next > Len(s)
  BY DEF ItemIsThere
<1> DEFINE n == Len(list)
           key == list[i].key
           v == list[i].val
           w == Wr(f, v)
           b == Start(at, i)
           e == b + Len(key)
           z == at[i]
<1>1. n \in Nat /\ i \in 1..n /\ list \in Seq(WrittenPairs)
  BY DEF Conforms
<1>2. PairStands(s, key, w, b, e, z) /\ (i > 1 => s[at[i - 1] + 1] = Sep(f))
      /\ at \in [0..n -> Nat] /\ at[n] = Len(s)
  BY DEF LaidOut
<1>3. GoodKey(f, key)
  BY DEF Conforms
<1>4. v \in Text
  <2>1. list[i] \in WrittenPairs
    BY <1>1
  <2> QED
    BY <2>1 DEF WrittenPairs, Text
<1>5. ASSUME i # n
      PROVE  /\ s[z + 1] = Sep(f) /\ z # Len(s) /\ z + 2 <= Len(s) /\ Start(at, i + 1) = z + 2
             /\ \E key2, w2, e2, y : GoodKey(f, key2) /\ PairStands(s, key2, w2, z + 2, e2, y)
  <2>1. i + 1 \in 1..Len(list) /\ i + 1 > 1 /\ (i + 1) - 1 = i /\ i + 1 # 1
    BY <1>1, <1>5
  <2>2. s[at[(i + 1) - 1] + 1] = Sep(f)
    BY <2>1 DEF LaidOut
  <2>3. Start(at, i + 1) = z + 2
    BY <2>1 DEF Start
  <2>4. PairStands(s, list[i + 1].key, Wr(f, list[i + 1].val), Start(at, i + 1),
                   Start(at, i + 1) + Len(list[i + 1].key), at[i + 1])
    BY <2>1 DEF LaidOut
  <2>5. GoodKey(f, list[i + 1].key)
    BY <2>1 DEF Conforms
  <2> DEFINE e2 == Start(at, i + 1) + Len(list[i + 1].key)
             y == at[i + 1]
  <2> HIDE DEF e2, y
  <2>6. PairStands(s, list[i + 1].key, Wr(f, list[i + 1].val), z + 2, e2, y)
    BY <2>3, <2>4 DEF e2, y
  <2>7. z + 2 < e2 /\ e2 <= y
    BY <2>5, <2>6, KeyStands
  <2>8. y <= Len(s) /\ y \in Nat /\ e2 \in Nat /\ Len(s) \in Nat
    BY <2>6, SMTT(20) DEF PairStands, Text
  <2>9. z \in Nat
    BY <1>2 DEF PairStands, Text
  <2>10. z # Len(s) /\ z + 2 <= Len(s)
    BY <2>7, <2>8, <2>9
  <2> QED
    BY <2>1, <2>2, <2>3, <2>5, <2>6, <2>10
<1>6. Followed(f, s, z)
  BY <1>2, <1>5 DEF Followed
<1>7. z \in Nat /\ b \in Nat \ {0} /\ Len(s) \in Nat /\ z <= Len(s) /\ e \in Nat
  BY <1>2, SMTT(20) DEF PairStands, Text
<1>8. b < e /\ e <= z
  BY <1>2, <1>3, KeyStands
<1>9. i = n <=> z = Len(s)
  BY <1>2, <1>5
<1>10. i < n => i + 1 # 1 /\ (i + 1) - 1 = i /\ i # n
  BY <1>1
<1>11. i # 1 => i > 1 /\ at[i - 1] \in Nat
  <2>1. i # 1 => i > 1 /\ i - 1 \in 0..n
    BY <1>1
  <2> QED
    BY <1>2, <2>1
<1> HIDE DEF n, key, v, w, e
<1>12. CASE f \in {"kv", "fortigate"}
  <2> DEFINE p == Place(f, at, i)
  <2>1. p \in 1..b /\ \A x \in p..b - 1 : s[x] = Blank
    <3>1. CASE i = 1
      <4>1. p = 1 /\ b = 1
        BY <3>1 DEF Place, Start
      <4> QED
        BY <4>1
    <3>2. CASE i # 1
      <4>1. p = at[i - 1] + 1 /\ b = at[i - 1] + 2
        BY <1>12, <3>2 DEF Place, Start
      <4>2. s[at[i - 1] + 1] = Blank
        BY <1>2, <1>11, <1>12, <3>2 DEF Sep
      <4> HIDE DEF p, b
      <4>3. p \in 1..b /\ \A x \in p..b - 1 : x = at[i - 1] + 1
        BY <1>11, <3>2, <4>1
      <4> QED
        BY <4>2, <4>3
    <3> QED
      BY <3>1, <3>2
  <2>2. w = KvWritten(v)
    BY <1>12 DEF Wr, w
  <2> HIDE DEF p
  <2>3. Item(f, s, d, p) = [from |-> b, to |-> z, next |-> z + 1]
    BY <1>2, <1>3, <1>4, <1>6, <1>12, <2>1, <2>2, KvItem
  <2>4. i < n => z + 1 = Place(f, at, i + 1)
    BY <1>10, <1>12 DEF Place
  <2>5. i = n => z + 1 > Len(s)
    BY <1>7, <1>9
  <2>6. p \in 1..Len(s)
    BY <1>7, <1>8, <2>1
  <2> QED
    BY <1>2, <2>3, <2>4, <2>5, <2>6 DEF p, n, key, w, v
<1>13. CASE f \in {"cef", "leef"}
  <2>1. Place(f, at, i) = b
    <3>1. f \notin {"kv", "fortigate"}
      BY <1>13
    <3> QED
      BY <3>1 DEF Place, Start
  <2>2. i < n => z + 2 = Place(f, at, i + 1)
    <3>1. f \notin {"kv", "fortigate"}
      BY <1>13
    <3> QED
      BY <1>10, <3>1 DEF Place
  <2>3. b \in 1..Len(s)
    BY <1>7, <1>8
  <2> HIDE DEF b, z
  <2>4. CASE f = "cef"
    <3>1. w = CefWritten(v)
      BY <2>4 DEF Wr, w
    <3>2. Item(f, s, d, b) = [from |-> b, to |-> z, next |-> IF z = Len(s) THEN Len(s) + 1 ELSE z + 2]
      BY <1>2, <1>3, <1>4, <1>6, <2>4, <3>1, CefItem
    <3>3. i < n => z # Len(s)
      BY <1>9, <1>10
    <3>4. Len(s) + 1 > Len(s)
      BY <1>7
    <3> QED
      BY <1>2, <1>9, <2>1, <2>2, <2>3, <3>2, <3>3, <3>4 DEF b, z, n, key, w, v
  <2>5. CASE f = "leef"
    <3>1. w = v /\ Tab \notin Characters(v)
      BY <1>1, <2>5 DEF Wr, w, v, n, Conforms
    <3>2. Tab \in Characters(s)
      <4>1. PICK p \in 1..Len(s) : s[p] = Tab
        <5>1. CASE i # n
          <6>1. s[z + 1] = Tab /\ z + 2 <= Len(s)
            BY <1>5, <2>5, <5>1 DEF Sep, z
          <6>2. z + 1 \in 1..Len(s)
            BY <1>7, <6>1
          <6> QED
            BY <6>1, <6>2
        <5>2. CASE i = n
          <6>1. n >= 2
            BY <2>5 DEF Conforms, n
          <6>2. i # 1
            BY <5>2, <6>1
          <6>3. s[at[i - 1] + 1] = Tab /\ b = at[i - 1] + 2
            BY <1>2, <1>11, <2>5, <6>2 DEF Sep, Start, b
          <6>4. at[i - 1] + 1 \in 1..Len(s)
            BY <1>7, <1>8, <1>11, <6>2, <6>3
          <6> QED
            BY <6>3, <6>4
        <5> QED
          BY <5>1, <5>2
      <4> QED
        BY <4>1, CharactersOf
    <3>3. Item(f, s, d, b) = [from |-> b, to |-> z, next |-> z + 2]
      BY <1>2, <1>3, <1>6, <2>5, <3>1, <3>2, LeefItem
    <3>4. i = n => z + 2 > Len(s)
      BY <1>7, <1>9
    <3> QED
      BY <1>2, <2>1, <2>2, <2>3, <3>3, <3>4 DEF b, z, n, key, w, v
  <2> QED
    BY <1>13, <2>4, <2>5
<1> QED
  BY <1>12, <1>13 DEF Formats

-----------------------------------------------------------------------------
(* What is written is read. *)

\* The text is what a conforming sender makes of the pairs.
Meant ==
    /\ Conforms(fmt, written)
    /\ text = Whole(fmt, written)
    /\ fmt = "leef" => delim = Tab

ReadSoFar ==
    /\ unpaired = <<>>
    /\ Len(found) <= Len(written)
    /\ \A i \in 1..Len(found) :
          found[i].key = written[i].key /\ found[i].raw = Wr(fmt, written[i].val)

\* The tokenizer is at the pair after those it has, or past the end.
AtPlace(at) ==
    /\ Len(found) < Len(written) => stage = "scan" /\ pos = Place(fmt, at, Len(found) + 1)
    /\ Len(found) = Len(written) => pos > Len(text)

Follows ==
    written # <<>> =>
        /\ Meant
        /\ ReadSoFar
        /\ \E at : LaidOut(fmt, written, text, at) /\ AtPlace(at)

LEMMA FollowsAtStart == Init => Follows
<1> SUFFICES ASSUME Init, written # <<>>
             PROVE  Meant /\ ReadSoFar /\ \E at : LaidOut(fmt, written, text, at) /\ AtPlace(at)
  BY DEF Follows
<1>1. Meant
  BY WrittenAtStart DEF Meant
<1>2. stage = "scan" /\ pos = 1 /\ found = <<>> /\ unpaired = <<>>
  BY DEF Init
<1>3. fmt \in Formats /\ written \in Seq(WrittenPairs) /\ Len(written) \in Nat /\ Len(written) # 0
  BY <1>1, WrittenAtStart DEF Meant, Conforms
<1>4. PICK at : LaidOut(fmt, written, text, at)
  BY <1>1, <1>3, WrittenIsLaidOut DEF Meant
<1>5. AtPlace(at)
  <2>1. Len(found) = 0 /\ 0 + 1 = 1
    BY <1>2
  <2> QED
    BY <1>2, <1>3, <2>1 DEF AtPlace, Place
<1>6. ReadSoFar
  BY <1>2, <1>3 DEF ReadSoFar
<1> QED
  BY <1>1, <1>4, <1>5, <1>6

\* The item of a scan at the i-th place is the i-th pair, and the next one is at the next.
TakenThere(f, list, s, at, d, i, span) ==
    /\ IsPair(f, SubSeq(s, span.from, span.to), list[i].key, Wr(f, list[i].val))
    /\ list[i].key \in Text /\ Wr(f, list[i].val) \in Text
    /\ i < Len(list) => span.next = Place(f, at, i + 1)
    /\ i = Len(list) => span.next > Len(s)

LEMMA PairIsThere ==
    ASSUME NEW f \in Formats, NEW list, NEW s \in Text, NEW at, NEW d,
           Conforms(f, list), LaidOut(f, list, s, at), f = "leef" => d = Tab,
           NEW i \in 1..Len(list)
    PROVE  TakenThere(f, list, s, at, d, i, Item(f, s, d, Place(f, at, i)))
<1> DEFINE key == list[i].key
           w == Wr(f, list[i].val)
           b == Start(at, i)
           z == at[i]
           span == Item(f, s, d, Place(f, at, i))
<1>1. ItemIsThere(f, list, s, at, d, i)
  BY OneItem
<1>2. PICK e, next :
          /\ span = [from |-> b, to |-> z, next |-> next]
          /\ PairStands(s, key, w, b, e, z)
          /\ i < Len(list) => next = Place(f, at, i + 1)
          /\ i = Len(list) => next > Len(s)
  BY <1>1, Zenon DEF ItemIsThere
<1>3. GoodKey(f, key)
  BY DEF Conforms
<1> HIDE DEF key, w, b, z, span
<1>4. span.from = b /\ span.to = z /\ span.next = next
  BY <1>2
<1>5. IsPair(f, SubSeq(s, b, z), key, w)
  BY <1>2, <1>3, PairIsTaken
<1>6. key \in Text /\ w \in Text
  BY <1>2 DEF PairStands
<1>7. /\ i < Len(list) => span.next = Place(f, at, i + 1)
      /\ i = Len(list) => span.next > Len(s)
  BY <1>2, <1>4
<1>8. IsPair(f, SubSeq(s, span.from, span.to), key, w)
  BY <1>4, <1>5
<1> QED
  BY <1>6, <1>7, <1>8 DEF key, w, span, TakenThere

\* One step of the tokenizer takes the next written pair.
LEMMA ScanFollows ==
    ASSUME ParsingInv, Follows, Scan
    PROVE  Follows'
<1> DEFINE span == Item(fmt, text, delim, pos)
           item == SubSeq(text, span.from, span.to)
           k == IF item = <<>> THEN 0 ELSE KeyEnd(fmt, item, 1)
           i == Len(found) + 1
<1>1. /\ pos' = span.next
      /\ IF k # 0 THEN TakePair(SubSeq(item, 1, k - 1), SubSeq(item, k + 1, Len(item)))
         ELSE TakeOther(item)
      /\ stage = "scan" /\ pos <= Len(text)
      /\ UNCHANGED <<fmt, delim, text, written, stage>>
  BY DEF Scan, input
<1>2. fmt \in Formats /\ text \in Text /\ found \in Seq([key : Text, raw : Text]) /\ pos \in Nat
      /\ Len(text) \in Nat /\ Len(found) \in Nat
  <2>1. Shapes
    BY DEF ParsingInv
  <2>2. fmt \in Formats /\ text \in Text /\ found \in Seq([key : Text, raw : Text]) /\ pos \in 1..Len(text) + 2
    BY <2>1 DEF Shapes
  <2> QED
    BY <2>2 DEF Text
<1>3. SUFFICES ASSUME written # <<>>
               PROVE  Meant' /\ ReadSoFar' /\ (\E at : LaidOut(fmt, written, text, at) /\ AtPlace(at))'
  BY <1>1 DEF Follows
<1>4. Meant /\ ReadSoFar /\ \E at : LaidOut(fmt, written, text, at) /\ AtPlace(at)
  BY <1>3 DEF Follows
<1>5. PICK at : LaidOut(fmt, written, text, at) /\ AtPlace(at)
  BY <1>4
<1>6. Meant'
  BY <1>1, <1>4 DEF Meant
<1>7. Len(written) \in Nat /\ Conforms(fmt, written) /\ (fmt = "leef" => delim = Tab)
  BY <1>4, SMTT(20) DEF Meant, Conforms
<1>8. Len(found) < Len(written)
  <2>1. Len(found) <= Len(written)
    BY <1>4 DEF ReadSoFar
  <2>2. Len(found) # Len(written)
    BY <1>1, <1>2, <1>5 DEF AtPlace
  <2> QED
    BY <1>2, <1>7, <2>1, <2>2
<1>9. i \in 1..Len(written) /\ i - 1 = Len(found) /\ pos = Place(fmt, at, i)
  BY <1>2, <1>5, <1>7, <1>8 DEF AtPlace
<1>10. /\ item # <<>> /\ KeyEnd(fmt, item, 1) # 0
       /\ SubSeq(item, 1, KeyEnd(fmt, item, 1) - 1) = written[i].key
       /\ SubSeq(item, KeyEnd(fmt, item, 1) + 1, Len(item)) = Wr(fmt, written[i].val)
       /\ written[i].key \in Text /\ Wr(fmt, written[i].val) \in Text
       /\ i < Len(written) => span.next = Place(fmt, at, i + 1)
       /\ i = Len(written) => span.next > Len(text)
  <2> HIDE DEF i
  <2>1. /\ fmt \in Formats /\ text \in Text /\ Conforms(fmt, written)
        /\ LaidOut(fmt, written, text, at) /\ (fmt = "leef" => delim = Tab) /\ i \in 1..Len(written)
        /\ pos = Place(fmt, at, i)
    BY <1>2, <1>5, <1>7, <1>9
  <2>2. TakenThere(fmt, written, text, at, delim, i, Item(fmt, text, delim, Place(fmt, at, i)))
    BY <2>1, PairIsThere
  <2>3. TakenThere(fmt, written, text, at, delim, i, span)
    BY <2>1, <2>2
  <2> QED
    BY <2>3 DEF TakenThere, IsPair
<1> HIDE DEF span, item, i
<1>13. /\ k # 0
       /\ SubSeq(item, 1, k - 1) = written[i].key
       /\ SubSeq(item, k + 1, Len(item)) = Wr(fmt, written[i].val)
  BY <1>10
<1> HIDE DEF k
<1>14. /\ found' = Append(found, [key |-> written[i].key, raw |-> Wr(fmt, written[i].val)])
       /\ unpaired' = unpaired
  BY <1>1, <1>13 DEF TakePair
<1>15. written[i].key \in Text /\ Wr(fmt, written[i].val) \in Text
  BY <1>10
<1>16. /\ Len(found') = i
       /\ found'[i] = [key |-> written[i].key, raw |-> Wr(fmt, written[i].val)]
       /\ \A j \in 1..Len(found) : found'[j] = found[j]
  <2>1. [key |-> written[i].key, raw |-> Wr(fmt, written[i].val)] \in [key : Text, raw : Text]
    BY <1>15
  <2> QED
    BY <1>2, <1>14, <2>1, AppendProperties DEF i
<1>17. ReadSoFar'
  <2>1. unpaired' = <<>> /\ Len(found') <= Len(written')
    BY <1>1, <1>4, <1>9, <1>14, <1>16 DEF ReadSoFar
  <2>2. ASSUME NEW j \in 1..Len(found')
        PROVE  found'[j].key = written'[j].key /\ found'[j].raw = Wr(fmt', written'[j].val)
    <3>1. CASE j = i
      BY <1>1, <1>16, <3>1
    <3>2. CASE j # i
      <4>1. j \in 1..Len(found)
        BY <1>2, <1>9, <1>16, <3>2
      <4> QED
        BY <1>1, <1>4, <1>16, <4>1 DEF ReadSoFar
    <3> QED
      BY <3>1, <3>2
  <2> QED
    BY <2>1, <2>2 DEF ReadSoFar
<1>18. LaidOut(fmt', written', text', at)
  BY <1>1, <1>5
<1>19. /\ Len(found') < Len(written') => stage' = "scan" /\ pos' = Place(fmt', at, Len(found') + 1)
       /\ Len(found') = Len(written') => pos' > Len(text')
  BY <1>1, <1>10, <1>16
<1>20. (\E at1 : LaidOut(fmt, written, text, at1) /\ AtPlace(at1))'
  BY <1>18, <1>19 DEF AtPlace
<1> QED
  BY <1>6, <1>17, <1>20

\* The other steps are after the last pair.
LEMMA OthersFollow ==
    ASSUME ParsingInv, Follows, EndScan \/ MapPair \/ MapOthers \/ UNCHANGED vars
    PROVE  Follows'
<1>1. /\ UNCHANGED <<fmt, delim, text, written, found, unpaired, pos>>
      /\ UNCHANGED stage \/ (stage = "scan" /\ pos > Len(text)) \/ stage = "map"
  BY DEF EndScan, MapPair, MapOthers, vars, input, scanned
<1>2. SUFFICES ASSUME written # <<>>
               PROVE  Meant' /\ ReadSoFar' /\ (\E at : LaidOut(fmt, written, text, at) /\ AtPlace(at))'
  BY <1>1 DEF Follows
<1>3. Meant /\ ReadSoFar /\ \E at : LaidOut(fmt, written, text, at) /\ AtPlace(at)
  BY <1>2 DEF Follows
<1>4. Meant' /\ ReadSoFar'
  BY <1>1, <1>3 DEF Meant, ReadSoFar
<1>5. PICK at : LaidOut(fmt, written, text, at) /\ AtPlace(at)
  BY <1>3
<1>6. ASSUME Len(found) < Len(written) PROVE stage = "scan" /\ ~(pos > Len(text))
  <2>1. stage = "scan" /\ pos = Place(fmt, at, Len(found) + 1)
    BY <1>5, <1>6 DEF AtPlace
  <2>2. fmt \in Formats /\ text \in Text /\ found \in Seq([key : Text, raw : Text])
    BY DEF ParsingInv, Shapes
  <2>3. written \in Seq(WrittenPairs) /\ Conforms(fmt, written) /\ (fmt = "leef" => delim = Tab)
    BY <1>3 DEF Meant, Conforms
  <2>4. Len(found) + 1 \in 1..Len(written)
    BY <1>6, <2>2, <2>3
  <2>5. Place(fmt, at, Len(found) + 1) \in 1..Len(text)
    BY <1>5, <2>2, <2>3, <2>4, OneItem
  <2>6. Len(text) \in Nat
    BY <2>2 DEF Text
  <2> QED
    BY <2>1, <2>5, <2>6
<1>7. /\ Len(found') < Len(written') => stage' = "scan" /\ pos' = Place(fmt', at, Len(found') + 1)
      /\ Len(found') = Len(written') => pos' > Len(text')
  BY <1>1, <1>5, <1>6 DEF AtPlace
<1>8. LaidOut(fmt', written', text', at)
  BY <1>1, <1>5
<1>9. (\E at1 : LaidOut(fmt, written, text, at1) /\ AtPlace(at1))'
  BY <1>7, <1>8 DEF AtPlace
<1> QED
  BY <1>4, <1>9

\* Of any number of pairs, with values of any characters and any length, a text written
\* by the rules of its format (the key=value and CEF senders', serialize_leef's) is read
\* as these pairs, the values decoded (tokenize_kv, _parse_extension, _split_attrs,
\* _unquote, cef_unescape); and what serialize_leef writes is one line.
THEOREM WhatIsWrittenIsRead == Spec => []ReadAsWritten
<1>1. (ParsingInv /\ Follows) /\ [Next]_vars => Follows'
  <2> SUFFICES ASSUME ParsingInv, Follows, [Next]_vars PROVE Follows'
    OBVIOUS
  <2>1. Scan \/ EndScan \/ MapPair \/ MapOthers \/ UNCHANGED vars
    BY DEF Next
  <2> QED
    BY <2>1, ScanFollows, OthersFollow
<1>2. ASSUME ParsingInv, Follows, written # <<>>, stage # "scan"
      PROVE  /\ Len(found) = Len(written)
             /\ \A i \in 1..Len(found) : Pair(found[i].key, Decode(fmt, found[i].raw)) = written[i]
             /\ unpaired = <<>>
             /\ fmt = "leef" => LineFeed \notin Characters(text)
  <2>1. Meant /\ ReadSoFar /\ \E at : LaidOut(fmt, written, text, at) /\ AtPlace(at)
    BY <1>2 DEF Follows
  <2>2. fmt \in Formats /\ found \in Seq([key : Text, raw : Text])
        /\ written \in Seq(WrittenPairs) /\ Conforms(fmt, written)
    BY <1>2, <2>1 DEF ParsingInv, Shapes, Meant, Conforms
  <2>3. Len(found) = Len(written)
    <3>1. ~(Len(found) < Len(written)) /\ Len(found) <= Len(written)
      BY <1>2, <2>1 DEF AtPlace, ReadSoFar
    <3> QED
      BY <2>2, <3>1
  <2>4. ASSUME NEW i \in 1..Len(found)
        PROVE  Pair(found[i].key, Decode(fmt, found[i].raw)) = written[i]
    <3>1. written[i] \in WrittenPairs
      BY <2>2, <2>3
    <3>2. written[i].val \in Text /\ written[i] = Pair(written[i].key, written[i].val)
      BY <3>1 DEF WrittenPairs, Pair, Text
    <3>3. Decode(fmt, Wr(fmt, written[i].val)) = written[i].val
      BY <2>2, <3>2, ValueIsRead
    <3>4. found[i].key = written[i].key /\ found[i].raw = Wr(fmt, written[i].val)
      BY <2>1 DEF ReadSoFar
    <3> QED
      BY <3>2, <3>3, <3>4
  <2>5. fmt = "leef" => LineFeed \notin Characters(text)
    BY <2>1, LeefIsOneLine DEF Meant
  <2> QED
    BY <2>1, <2>3, <2>4, <2>5 DEF ReadSoFar
<1>3. ParsingInv /\ Follows => ReadAsWritten
  BY <1>2 DEF ReadAsWritten
<1> QED
  BY <1>1, <1>3, FollowsAtStart, ParsingHolds, PTL DEF Spec

=============================================================================
