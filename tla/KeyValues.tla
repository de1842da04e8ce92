----------------------------- MODULE KeyValues -----------------------------
(***************************************************************************)
(* What the key=value parsers make of one text: kv.py, fortigate.py, cef.py*)
(* and leef.py.  The text is cut into items from the left; a key that      *)
(* comes again is kept under a number; then each pair goes to the          *)
(* originals and to the normalized, the vendor or the unknown layer, and   *)
(* the items that are no pair to the unknown layer.                        *)
(*                                                                         *)
(* A CEF or LEEF text is what follows its header, which in LEEF ends with  *)
(* a '|'.  QRadarTarget's header ends with a tab: its attributes are read  *)
(* here as QRadar reads them.  A name in a layer is a key with the number  *)
(* of its occurrence.                                                      *)
(***************************************************************************)
EXTENDS Texts

CONSTANTS
    FieldOf,     \* for each format, the normalized field of each key that has one
    Numeric,     \* the fields that hold a number or nothing
    Lists,       \* lists of pairs that a sender writes
    Events,      \* events that QRadarTarget writes
    Noise,       \* any other texts
    Delims,      \* delimiters of LEEF
    HeaderKey,   \* the key spelled "header"
    UnpairedKey, \* the key spelled "unpaired_0"
    LogidKey, SevKey, SrcKey, RawKey,
    Null

Formats == {"kv", "fortigate", "cef", "leef"}

WrittenPairs == [key : Seq(Chars), val : Seq(Chars)]

ASSUME KeyValuesAssumption ==
    /\ DOMAIN FieldOf = Formats
    /\ Lists \subseteq Seq(WrittenPairs)
    /\ Events \subseteq [severity : Seq(Chars), source : Seq(Chars), raw : Seq(Chars),
                        unknown : Seq(WrittenPairs)]
    /\ Noise \subseteq Seq(Chars)
    /\ Delims \subseteq Chars
    /\ {HeaderKey, UnpairedKey, LogidKey, SevKey, SrcKey, RawKey} \subseteq Seq(Chars)
    /\ LogidKey # HeaderKey /\ LogidKey # UnpairedKey /\ HeaderKey # UnpairedKey
    /\ UnpairedKey # <<"unpaired">>

VARIABLES
    fmt, delim, text,   \* the parser that was chosen, LEEF's delimiter, the text
    stage,              \* where _parse() is
    pos,                \* the tokenizer's position
    pairs,              \* the tokenizer's dictionary, in its order
    dups,               \* dup_count
    unpaired,           \* the items that are no pair
    fields, vendor, unknown, originals,     \* the layers of the ParseResult
    mapped              \* how many pairs the mapping loop has done

\* What an observer knows.
VARIABLES
    written,    \* the pairs the sender meant, or <<>>
    spans,      \* the text of each item, by its first and last position
    found       \* every pair, as it stands in the text

input == <<fmt, delim, text, written>>
scanned == <<pos, pairs, dups, unpaired, spans, found>>
layers == <<fields, vendor, unknown, originals, mapped>>
vars == <<input, stage, scanned, layers>>

Empty == <<>>
Over(pairing, layer) ==
    [k \in DOMAIN pairing \cup DOMAIN layer |-> IF k \in DOMAIN pairing THEN pairing[k] ELSE layer[k]]
Put(layer, name, value) == Over([k \in {name} |-> value], layer)
Name(key, n) == <<key, n>>
TheHeader == <<"header">>

\* A CEF or LEEF text without a syslog header before it is stripped at its end.
Stripped(s) == SubSeq(s, 1, Max({0} \cup {i \in 1..Len(s) : s[i] \notin {Blank, Tab, LineFeed}}))

Read(f, s) == IF f \in {"cef", "leef"} THEN {s, Stripped(s)} ELSE {s}

\* The delimiter before the first attribute is dropped.
WithoutLeading(s, d) == IF s # <<>> /\ s[1] = d THEN Tail(s) ELSE s

\* A key in key=value starts with a letter.  No value of a CEF sender ends in a blank, nor
\* does the last one of a LEEF sender: the blank before a key is a separator, and what is
\* blank at the end of the text may be stripped.
EndsIn(v, blanks) == v # <<>> /\ v[Len(v)] \in blanks

Sends(f, list) ==
    /\ \A i \in 1..Len(list) :
          /\ list[i].key # <<>>
          /\ Characters(list[i].key) \subseteq KeyChars
          /\ f \in {"kv", "fortigate"} => list[i].key[1] \in Letters
          /\ f = "cef" => ~EndsIn(list[i].val, {Blank})
    /\ f \in {"cef", "leef"} => ~EndsIn(list[Len(list)].val, {Blank, Tab})

\* QRadarTarget writes the severity and the source as they are.
OneLine(e) == Characters(e.severity \o e.source) \cap {Tab, LineFeed} = {}

Written(f, list) ==
    IF f = "cef" THEN Joined(list, CefWritten, Blank) ELSE Joined(list, KvWritten, Blank)

Init ==
    /\ fmt \in Formats
    /\ delim \in Delims
    /\ fmt = "leef" \/ delim = Tab
    /\ \/ /\ fmt # "leef"
          /\ written \in {list \in Lists : Sends(fmt, list)}
          /\ text \in Read(fmt, Written(fmt, written))
       \/ /\ fmt = "leef"
          /\ delim = Tab
          /\ \E e \in {e \in Events : OneLine(e)} : written = Attributes(e, SevKey, SrcKey, RawKey)
          /\ Sends(fmt, written)
          /\ text \in Read(fmt, Joined(written, LAMBDA v : v, Tab))
       \/ /\ written = <<>>
          /\ \E n \in Noise :
                text \in {IF fmt = "leef" THEN WithoutLeading(s, delim) ELSE s : s \in Read(fmt, n)}
    /\ stage = "scan"
    /\ pos = 1
    /\ pairs = <<>>
    /\ dups = Empty
    /\ unpaired = <<>>
    /\ fields = Empty
    /\ vendor = Empty
    /\ unknown = Empty
    /\ originals = IF fmt \in {"cef", "leef"} THEN Put(Empty, Name(HeaderKey, 1), TheHeader) ELSE Empty
    /\ mapped = 0
    /\ spans = <<>>
    /\ found = <<>>

-----------------------------------------------------------------------------
(* The tokenizers. *)

\* Keys have no "#" of their own.
Seen_Never(key) == FALSE
Seen(key) ==
    \E i \in 1..Len(pairs) :
        /\ pairs[i].key = key
        /\ fmt = "cef" \/ pairs[i].n = 1 \/ (fmt = "leef" /\ pairs[i].n = 2)

Times(key) == IF key \in DOMAIN dups THEN dups[key] ELSE 1

TakePair(key, raw) ==
    /\ LET n == IF Seen(key) THEN Times(key) + 1 ELSE 1
       IN  /\ pairs' = Append(pairs, [key |-> key, n |-> n, raw |-> raw])
           /\ dups' = IF Seen(key) THEN Put(dups, key, n) ELSE dups
    /\ found' = Append(found, [key |-> key, raw |-> raw])
    /\ UNCHANGED unpaired

\* LEEF passes over an empty item; in key=value it is the blanks at the end.
TakeOther(item) ==
    /\ unpaired' = IF item = <<>> /\ fmt # "cef" THEN unpaired ELSE Append(unpaired, item)
    /\ UNCHANGED <<pairs, dups, found>>

Scan ==
    /\ stage = "scan"
    /\ pos <= Len(text)
    /\ LET span == Item(fmt, text, delim, pos)
           item == SubSeq(text, span.from, span.to)
           k == IF item = <<>> THEN 0 ELSE KeyEnd(fmt, item, 1)
       IN  /\ pos' = span.next
           /\ spans' = Append(spans, <<span.from, span.to>>)
           /\ IF k # 0 THEN TakePair(SubSeq(item, 1, k - 1), SubSeq(item, k + 1, Len(item)))
              ELSE TakeOther(item)
    /\ UNCHANGED <<input, stage, layers>>

Enough ==
    CASE fmt = "kv" -> Len(pairs) >= 2
      [] fmt = "fortigate" -> \E i \in 1..Len(pairs) : pairs[i].key = LogidKey
      [] OTHER -> TRUE

EndScan ==
    /\ stage = "scan"
    /\ pos > Len(text)
    /\ stage' = IF Enough THEN "map" ELSE "failed"
    /\ UNCHANGED <<input, scanned, layers>>

-----------------------------------------------------------------------------
(* The mapping loops of the _parse() methods. *)

FieldsOf(key) == IF key \in DOMAIN FieldOf[fmt] THEN {FieldOf[fmt][key]} ELSE {}

Normalized(g, value) == IF g \in Numeric /\ ~IsNumber(value) THEN Null ELSE value

\* CEF and LEEF normalize the first occurrence of a key only; key=value and FortiGate
\* each one, the later over the earlier.
Normalizes_All(p) == FieldsOf(p.key)
Normalizes(p) == IF fmt \in {"cef", "leef"} /\ p.n > 1 THEN {} ELSE FieldsOf(p.key)

OriginalName_Base(p) == Name(p.key, 1)
OriginalName(p) == Name(p.key, p.n)

MapPair ==
    /\ stage = "map"
    /\ mapped < Len(pairs)
    /\ LET p == pairs[mapped + 1]
           value == Decode(fmt, p.raw)
       IN  /\ originals' = Put(originals, OriginalName(p), p.raw)
           /\ fields' = Over([g \in Normalizes(p) |-> Normalized(g, value)], fields)
           /\ vendor' = IF fmt = "fortigate" THEN Put(vendor, Name(p.key, p.n), value) ELSE vendor
           /\ unknown' = IF fmt # "fortigate" /\ Normalizes(p) = {}
                         THEN Put(unknown, Name(p.key, p.n), value)
                         ELSE unknown
    /\ mapped' = mapped + 1
    /\ UNCHANGED <<input, stage, scanned>>

\* unpaired_0 is a name a key may have.
UnpairedName(i) == IF i = 1 THEN Name(UnpairedKey, 1) ELSE Name(<<"unpaired">>, i - 1)

MapOthers ==
    /\ stage = "map"
    /\ mapped = Len(pairs)
    /\ unknown' = Over([u \in {UnpairedName(i) : i \in 1..Len(unpaired)} |->
                          unpaired[CHOOSE i \in 1..Len(unpaired) : UnpairedName(i) = u]], unknown)
    /\ stage' = "parsed"
    /\ UNCHANGED <<input, scanned, fields, vendor, originals, mapped>>

-----------------------------------------------------------------------------
Next == Scan \/ EndScan \/ MapPair \/ MapOthers

Spec == Init /\ [][Next]_vars

-----------------------------------------------------------------------------
(* Properties. *)

\* The number of the i-th pair of the text: how often its key has come up to there.
Occurrence(i) == Cardinality({j \in 1..i : found[j].key = found[i].key})

\* The tokenizer's position is in the text or past its end, its dictionary has each name
\* once, and the mapping is at one of its pairs.
KeyValuesTypeOK ==
    /\ stage \in {"scan", "map", "parsed", "failed"}
    /\ pos \in 1..Len(text) + 2
    /\ \A i, j \in 1..Len(pairs) :
          i # j => OriginalName(pairs[i]) # OriginalName(pairs[j])
    /\ \A k \in DOMAIN dups : dups[k] >= 2
    /\ mapped \in 0..Len(pairs)
    /\ DOMAIN fields \subseteq UNION {FieldsOf(found[i].key) : i \in 1..Len(found)}

\* What a conforming sender wrote is what is read, pair by pair, the values decoded; so
\* is what QRadarTarget wrote of an event, on one line, if the source has no tab or line
\* feed.
ReadAsWritten ==
    written # <<>> /\ stage # "scan" =>
        /\ Len(found) = Len(written)
        /\ \A i \in 1..Len(found) :
              Pair(found[i].key, Decode(fmt, found[i].raw)) = written[i]
        /\ unpaired = <<>>
        /\ fmt = "leef" => LineFeed \notin Characters(text)

\* A character of the text is in one item, or is a separator; and when the text is parsed
\* each pair stands in the originals under its key and the number of its occurrence, each
\* other item in the unknown layer, and the header in the originals unless a key is
\* spelled like it.
NothingOfTheText ==
    stage = "parsed" =>
        /\ \A i \in 1..Len(text) :
              \/ \E s \in ToSet(spans) : s[1] <= i /\ i <= s[2]
              \/ text[i] = (IF fmt = "leef" /\ delim \in Characters(text) THEN delim ELSE Blank)
        /\ \A j \in 1..Len(spans) - 1 : spans[j][2] < spans[j + 1][1]
        /\ \A i \in 1..Len(found) :
              /\ Name(found[i].key, Occurrence(i)) \in DOMAIN originals
              /\ originals[Name(found[i].key, Occurrence(i))] = found[i].raw
        /\ \A i \in 1..Len(unpaired) : unknown[UnpairedName(i)] = unpaired[i]
        /\ fmt \in {"cef", "leef"} /\ (\A i \in 1..Len(found) : found[i].key # HeaderKey)
              => originals[Name(HeaderKey, 1)] = TheHeader

\* Those of the first n pairs that may have a field's value: their key maps to it, and CEF
\* and LEEF look only at the first occurrence of each key.
Candidates(g, n) ==
    {i \in 1..n : /\ g \in FieldsOf(found[i].key)
                  /\ fmt \in {"cef", "leef"} => Occurrence(i) = 1}

LastOneWins(g, n) ==
    /\ g \in DOMAIN fields <=> Candidates(g, n) # {}
    /\ Candidates(g, n) # {} =>
          fields[g] = Normalized(g, Decode(fmt, found[Max(Candidates(g, n))].raw))

\* A normalized field is there if a pair of the text may have its value, and has that of
\* the last such pair.
TheRightOneWins ==
    stage = "parsed" =>
        \A g \in {FieldOf[fmt][k] : k \in DOMAIN FieldOf[fmt]} : LastOneWins(g, Len(found))

=============================================================================
