------------------------------- MODULE Texts -------------------------------
(***************************************************************************)
(* How the key=value formats cut a text into items and decode a value:     *)
(* tokenize_kv (parsers/kv.py, also FortiGate's), _parse_extension and     *)
(* cef_unescape (parsers/cef.py), _split_attrs (parsers/leef.py); and the  *)
(* attributes QRadarTarget writes (serialize_leef in delivery.py).         *)
(*                                                                         *)
(* A text is a sequence of characters.  Letters and Digits stand for their *)
(* classes; the punctuation is the one some rule of the code looks at.     *)
(***************************************************************************)
EXTENDS Integers, Sequences, FiniteSets, SequencesExt

CONSTANTS Letters, Digits

Blank == " "
Tab == "\t"
LineFeed == "\n"
Quote == "\""
Escape == "\\"

Punctuation == {Blank, Tab, LineFeed, Quote, Escape, "=", "_", "#"}
Chars == Letters \cup Digits \cup Punctuation

ASSUME TextsAssumption ==
    /\ Letters \cap Digits = {}
    /\ (Letters \cup Digits) \cap Punctuation = {}
    /\ {"n", "t", "u"} \subseteq Letters

KeyChars == Letters \cup Digits \cup {"_"}

Characters(s) == ToSet(s)

\* The characters of s at the positions I.
At(s, I) == FlattenSeq([k \in 1..Len(s) |-> IF k \in I THEN <<s[k]>> ELSE <<>>])

\* The first position of I, or one past the end of s.
FirstIn(I, s) == IF I = {} THEN Len(s) + 1 ELSE Min(I)

\* The characters that a backslash before them takes with it, read from the left.
Escaped(s) ==
    LET e[i \in 1..Len(s)] == i > 1 /\ s[i - 1] = Escape /\ ~e[i - 1]
    IN  e

\* The position of the "=" after a key that starts at i, or 0.
KeyEnd(f, s, i) ==
    LET E == {j \in i + 1..Len(s) : s[j] = "=" /\ \A k \in i..j - 1 : s[k] \in KeyChars}
    IN  IF E = {} \/ (f \in {"kv", "fortigate"} /\ s[i] \notin Letters) THEN 0 ELSE Min(E)

-----------------------------------------------------------------------------
(* Items: where one starts and ends, and where the next is looked for. *)

\* CEF, and LEEF without its delimiter: a value ends at a blank, unescaped in CEF, that
\* a key follows; this blank belongs to neither.
Boundary(f, s, i) ==
    s[i - 1] = Blank /\ KeyEnd(f, s, i) # 0 /\ ~(f = "cef" /\ Escaped(s)[i - 1])

KeyAnchored(f, s, pos) ==
    LET next == FirstIn({i \in pos + 1..Len(s) : Boundary(f, s, i)}, s)
    IN  [from |-> pos, to |-> IF next > Len(s) THEN Len(s) ELSE next - 2, next |-> next]

Delimited(s, delim, pos) ==
    LET end == FirstIn({i \in pos..Len(s) : s[i] = delim}, s)
    IN  [from |-> pos, to |-> end - 1, next |-> end + 1]

\* The quotes that may close the one at i: a backslash takes a quote with it, and no
\* line feed.
Closing(s, i) ==
    LET inner == SubSeq(s, i + 1, Len(s))
        escaped == Escaped(inner)
    IN  {i + q : q \in {j \in 1..Len(inner) :
                          /\ inner[j] = Quote /\ ~escaped[j]
                          /\ \A m \in 1..j - 1 : ~(inner[m] = LineFeed /\ escaped[m])}}

Token(s, pos) ==
    LET b == FirstIn({i \in pos..Len(s) : s[i] # Blank}, s)
        k == IF b > Len(s) THEN 0 ELSE KeyEnd("kv", s, b)
        quoted == k # 0 /\ k < Len(s) /\ s[k + 1] = Quote /\ Closing(s, k + 1) # {}
        stops == IF k = 0 THEN {Blank} ELSE {Blank, Tab, LineFeed}
        start == IF k = 0 THEN b ELSE k + 1
        to == IF quoted THEN Min(Closing(s, k + 1))
              ELSE FirstIn({i \in start..Len(s) : s[i] \in stops}, s) - 1
    IN  [from |-> b, to |-> to, next |-> to + 1]

Item(f, s, delim, pos) ==
    CASE f \in {"kv", "fortigate"} -> Token(s, pos)
      [] f = "leef" /\ delim \in Characters(s) -> Delimited(s, delim, pos)
      [] OTHER -> KeyAnchored(f, s, pos)

-----------------------------------------------------------------------------
(* Values. *)

\* cef_unescape: an unknown escape stays as it is.
Unescape(v) ==
    LET decoded(i) == i <= Len(v) /\ Escaped(v)[i] /\ v[i] \in {"=", Escape, "n"}
        piece(i) == CASE decoded(i + 1) -> <<>>
                      [] decoded(i) /\ v[i] = "n" -> <<LineFeed>>
                      [] OTHER -> <<v[i]>>
    IN  FlattenSeq([i \in 1..Len(v) |-> piece(i)])

\* _unquote: replace() of \" and then of \\, both from the left.
Unquote(v) ==
    IF Len(v) < 2 \/ v[1] # Quote \/ v[Len(v)] # Quote THEN v
    ELSE LET inner == SubSeq(v, 2, Len(v) - 1)
             n == Len(inner)
             plain == At(inner, {i \in 1..n : ~(inner[i] = Escape /\ i < n /\ inner[i + 1] = Quote)})
         IN  At(plain, {i \in 1..Len(plain) : ~(plain[i] = Escape /\ Escaped(plain)[i])})

Decode(f, raw) ==
    CASE f \in {"kv", "fortigate"} -> Unquote(raw)
      [] f = "cef" -> Unescape(raw)
      [] f = "leef" -> raw

IsNumber(v) == v # <<>> /\ Characters(v) \subseteq Digits

-----------------------------------------------------------------------------
(* What is written: conforming CEF and key=value senders, and QRadarTarget. *)

Replaced(v, Pieces(_)) == FlattenSeq([i \in 1..Len(v) |-> Pieces(v[i])])

CefWritten(v) ==
    Replaced(v, LAMBDA c : IF c = LineFeed THEN <<Escape, "n">>
                           ELSE IF c \in {"=", Escape} THEN <<Escape, c>> ELSE <<c>>)

KvWritten(v) ==
    IF Characters(v) \cap {Blank, Tab, LineFeed, Quote} = {} THEN v
    ELSE <<Quote>>
         \o Replaced(v, LAMBDA c : IF c \in {Quote, Escape} THEN <<Escape, c>> ELSE <<c>>)
         \o <<Quote>>

\* _leef_escape_value
LeefEscaped_Tabs(v) == Replaced(v, LAMBDA c : IF c = LineFeed THEN <<Escape, "n">> ELSE <<c>>)
LeefEscaped(v) ==
    Replaced(v, LAMBDA c : CASE c = Escape -> <<Escape, Escape>>
                             [] c = Tab -> <<Escape, "t">>
                             [] c = LineFeed -> <<Escape, "n">>
                             [] OTHER -> <<c>>)

\* _leef_safe_key
SafeKey(k) == [i \in 1..Len(k) |-> IF k[i] \in KeyChars THEN k[i] ELSE "_"]

Pair(k, v) == [key |-> k, val |-> v]

\* serialize_leef: severity, source, message and the unknown fields of an event, the
\* source as it is.
Attributes(e, SevKey, SrcKey, RawKey) ==
    <<Pair(SevKey, e.severity)>>
    \o (IF e.source = <<>> THEN <<>> ELSE <<Pair(SrcKey, e.source)>>)
    \o <<Pair(RawKey, LeefEscaped(e.raw))>>
    \o [i \in 1..Len(e.unknown) |->
          Pair(<<"u", "_">> \o SafeKey(e.unknown[i].key), LeefEscaped(e.unknown[i].val))]

Joined(list, Written(_), delim) ==
    FlattenSeq([i \in 1..Len(list) |->
        (IF i = 1 THEN <<>> ELSE <<delim>>) \o list[i].key \o <<"=">> \o Written(list[i].val)])

=============================================================================
