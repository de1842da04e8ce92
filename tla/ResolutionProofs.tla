-------------------------- MODULE ResolutionProofs --------------------------
(***************************************************************************)
(* Proofs about Resolution: for every set of texts, every metadata and     *)
(* every list of configured sources, the invariants the runs check on a    *)
(* small instance.                                                         *)
(***************************************************************************)
EXTENDS Resolution, Lemmas, FiniteSetTheorems, TLAPS

-----------------------------------------------------------------------------
(* The first of those that ...: what SelectInSeq returns. *)

\* The rules of detection end with one that always matches.
LEMMA DetectionAnswers ==
    ASSUME NEW t
    PROVE  Detect(t) \in Formats
<1> DEFINE matching == {i \in 1..Len(DetectionOrder) : Recognizes(DetectionOrder[i], t)}
<1>1. Len(DetectionOrder) = 10 /\ \A i \in 1..10 : DetectionOrder[i] \in Formats
  BY DEF DetectionOrder, Formats
<1>2. 10 \in matching
  <2>1. DetectionOrder[10] = "plain_text"
    BY DEF DetectionOrder
  <2>2. Recognizes("plain_text", t)
    BY DEF Recognizes
  <2> QED
    BY <1>1, <2>1, <2>2
<1>3. Min(matching) \in 1..10
  <2>1. matching \subseteq 1..10 /\ matching \subseteq Nat
    BY <1>1
  <2>2. Min(matching) \in matching
    BY <2>1, <1>2, LeastNumber
  <2> QED
    BY <2>1, <2>2
<1> QED
  BY <1>1, <1>2, <1>3 DEF Detect, SelectInSeq

\* Detection offers one candidate or two.
LEMMA OneOrTwoCandidates ==
    ASSUME NEW t
    PROVE  /\ Candidates(t) \in Seq(Formats)
           /\ Len(Candidates(t)) \in {1, 2}
           /\ Head(Candidates(t)) \in Formats
<1>1. \/ Candidates(t) = <<"rfc3164", Detect(t)>>
      \/ Candidates(t) = <<Detect(t), Detect(MessageGuess(t))>>
      \/ Candidates(t) = <<Detect(t)>>
  BY DEF Candidates
<1>2. "rfc3164" \in Formats
  BY DEF Formats
<1>3. ASSUME NEW a \in Formats, NEW b \in Formats
      PROVE  /\ <<a, b>> \in Seq(Formats) /\ Len(<<a, b>>) = 2 /\ Head(<<a, b>>) = a
             /\ <<a>> \in Seq(Formats) /\ Len(<<a>>) = 1 /\ Head(<<a>>) = a
  OBVIOUS
<1>4. Detect(t) \in Formats /\ Detect(MessageGuess(t)) \in Formats
  BY DetectionAnswers
<1> QED
  BY <1>1, <1>2, <1>3, <1>4

\* The walk gives a parser of the registry, and one that accepts the text.
LEMMA WalkAccepts ==
    ASSUME NEW formats, NEW candidates \in Seq(Formats), NEW t
    PROVE  \/ ResolveAmong(formats, candidates, t) = "none"
           \/ /\ ResolveAmong(formats, candidates, t) \in Parsers
              /\ Accepts(ResolveAmong(formats, candidates, t), t)
<1> DEFINE walked == {i \in 1..Len(candidates) :
                          candidates[i] \in formats /\ Offering(candidates[i], t) # {}}
           i == Min(walked)
           j == Min(Offering(candidates[i], t))
<1>1. CASE walked = {}
  BY <1>1 DEF ResolveAmong, SelectInSeq
<1>2. CASE walked # {}
  <2>1. walked \subseteq Nat
    OBVIOUS
  <2>2. i \in walked
    BY <1>2, <2>1, LeastNumber
  <2>3. ResolveAmong(formats, candidates, t) = Registry[j][1]
    <3>1. SelectInSeq(candidates, LAMBDA c : c \in formats /\ Offering(c, t) # {}) = i
      BY <1>2 DEF SelectInSeq
    <3>2. i # 0
      BY <2>2
    <3> QED
      BY <3>1, <3>2, Zenon DEF ResolveAmong
  <2>4. DOMAIN Registry = 1..10 /\ \A k \in 1..10 : Registry[k][1] \in Parsers
    BY DEF Registry, Parsers
  <2>5. Offering(candidates[i], t) \subseteq 1..10 /\ 1..10 \subseteq Nat
    BY <2>4 DEF Offering
  <2>6. j \in Offering(candidates[i], t)
    <3>1. Offering(candidates[i], t) \subseteq Nat /\ Offering(candidates[i], t) # {}
      BY <2>2, <2>5
    <3> QED
      BY <3>1, LeastNumber
  <2> QED
    BY <2>3, <2>4, <2>5, <2>6 DEF Offering
<1> QED
  BY <1>1, <1>2

\* What resolve_with_hint returns, and what its decision says.
LEMMA RoutesAccept ==
    ASSUME NEW t, NEW hint
    PROVE  LET r == ResolveWithHint(Candidates(t), t, hint)
           IN  /\ r = [parser |-> r.parser, decision |-> r.decision]
               /\ r.parser \in Parsers \cup {"none"}
               /\ r.parser # "none" => Accepts(r.parser, t)
               /\ \/ r.decision = "hint_used" /\ hint \in Parsers /\ r.parser = hint
                  \/ /\ r.decision = "hint_rejected_fallback"
                     /\ hint \in Parsers
                     /\ ~Accepts(hint, t)
                     /\ r.parser = Resolve(Candidates(t), t)
                  \/ /\ r.decision = "none"
                     /\ hint \notin Parsers
                     /\ r.parser = Resolve(Candidates(t), t)
  BY OneOrTwoCandidates, WalkAccepts DEF ResolveWithHint, Resolve

\* The definition matched before the parse is the first that matches.
LEMMA MatchedFirst ==
    ASSUME NEW m
    PROVE  /\ FirstMatch(m) \in 0..Len(Sources)
           /\ FirstMatch(m) = 0 <=> \A i \in DOMAIN Sources : ~Matches(Sources[i], m)
           /\ FirstMatch(m) # 0 =>
                 /\ Matches(Sources[FirstMatch(m)], m)
                 /\ \A i \in 1..(FirstMatch(m) - 1) : ~Matches(Sources[i], m)
<1> DEFINE matching == {i \in 1..Len(Sources) : Matches(Sources[i], m)}
<1>1. Len(Sources) \in Nat /\ DOMAIN Sources = 1..Len(Sources)
  BY ResolutionAssumption
<1>2. FirstMatch(m) = IF matching # {} THEN Min(matching) ELSE 0
  BY DEF FirstMatch, SelectInSeq
<1>3. matching \subseteq Nat
  BY <1>1
<1>4. matching # {} => Min(matching) \in matching /\ \A i \in matching : Min(matching) <= i
  BY <1>3, LeastNumber
<1> QED
  <2>1. CASE matching = {}
    BY <1>1, <1>2, <2>1
  <2>2. CASE matching # {}
    <3>1. FirstMatch(m) \in matching /\ \A i \in matching : FirstMatch(m) <= i
      BY <1>2, <1>4, <2>2
    <3>2. ASSUME NEW i \in 1..(FirstMatch(m) - 1) PROVE ~Matches(Sources[i], m)
      BY <1>1, <3>1, <3>2
    <3> QED
      BY <1>1, <3>1, <3>2
  <2> QED
    BY <2>1, <2>2

-----------------------------------------------------------------------------
(* The parsers. *)

Results == {"PARSED", "PARTIAL", "FAILED"}

\* Every parser reports one of three statuses.
LEMMA ParserStatus ==
    ASSUME NEW p \in Parsers, NEW t
    PROVE  StatusOf(p, t) \in Results
  BY DEF Parsers, Syslog, StatusOf, Results

\* The message of an envelope is made of layers, and there is none where the envelope
\* could not be read.
LEMMA MessageIsText ==
    ASSUME NEW p \in Syslog, NEW t \in Seq(Headers \cup Bodies)
    PROVE  /\ MessageOf(p, t) \in Seq(Headers \cup Bodies)
           /\ MessageOf(p, t) # <<>> => StatusOf(p, t) # "FAILED"
<1>1. CASE StatusOf(p, t) = "FAILED"
  BY <1>1 DEF MessageOf
<1>2. CASE StatusOf(p, t) # "FAILED"
  <2>1. t # <<>>
    BY <1>2 DEF StatusOf, Syslog, Begins, Is3164
  <2>2. Tail(t) \in Seq(Headers \cup Bodies)
    BY <2>1
  <2>3. CASE p = "rfc3164" /\ Head(t) = "3164" /\ Len(t) > 1
    <3>1. TagEats(t[2]) \in Headers \cup Bodies
      <4>1. t[2] \in Headers \cup Bodies
        BY <2>3
      <4>2. {"words", "pairs", "table"} \subseteq Bodies
        BY DEF Bodies, Pairs
      <4>3. TagEats(t[2]) \in {t[2], "words", "pairs", "table"}
        BY DEF TagEats
      <4> QED
        BY <4>1, <4>2, <4>3
    <3>2. SubSeq(t, 3, Len(t)) \in Seq(Headers \cup Bodies)
      BY <2>3
    <3>3. MessageOf(p, t) = <<TagEats(t[2])>> \o SubSeq(t, 3, Len(t))
      BY <1>2, <2>3 DEF MessageOf
    <3> QED
      BY <1>2, <3>1, <3>2, <3>3
  <2>4. CASE ~(p = "rfc3164" /\ Head(t) = "3164" /\ Len(t) > 1)
    BY <1>2, <2>2, <2>4 DEF MessageOf
  <2> QED
    BY <2>3, <2>4
<1> QED
  BY <1>1, <1>2

\* Two parsers of a chain use a name of an original both only if both read syslog headers,
\* and then for nothing but the hostname, the PRI and the timestamp.
LEMMA NamesApart ==
    ASSUME NEW p \in Syslog, NEW q \in Parsers \ {"plain_text", p}, NEW t, NEW u,
           NEW k \in OriginalsOf(p, t), k \in OriginalsOf(q, u)
    PROVE  /\ q \in Syslog
           /\ k \in Replaceable
<1>1. /\ k \in {"timestamp", "message", "hostname", "pri", "tag", "appname", "procid", "msgid", "sd"}
      /\ p = "rfc3164" => k \in {"timestamp", "message", "hostname", "pri", "tag"}
      /\ p = "rfc5424" => k \in {"timestamp", "hostname", "appname", "procid", "msgid", "pri", "sd"}
  BY DEF OriginalsOf, Syslog
<1>2. CASE q \in Syslog
  <2>1. /\ q = "rfc3164" => k \in {"timestamp", "message", "hostname", "pri", "tag"}
        /\ q = "rfc5424" => k \in {"timestamp", "hostname", "appname", "procid", "msgid", "pri", "sd"}
    BY <1>2 DEF OriginalsOf, Syslog
  <2> QED
    BY <1>1, <1>2, <2>1 DEF Syslog, Replaceable
<1>3. CASE q \notin Syslog
  <2>1. q \in {"fortigate", "cef", "leef", "key_value", "json", "csv", "cisco_asa"}
    BY <1>3 DEF Parsers, Syslog
  <2>2. k = q
    BY <2>1 DEF OriginalsOf
  <2> QED
    BY <1>1, <2>1, <2>2
<1> QED
  BY <1>2, <1>3

\* What one parser kept is all there is.
LEMMA OneLayer ==
    ASSUME NEW e, NEW p, e.parser = <<p>>,
           e.originals = [k \in OriginalsOf(p, e.text) |-> 1]
    PROVE  KeepsItsOriginals(e)
<1>1. DOMAIN e.parser = {1} /\ KeptBy(e, 1) = OriginalsOf(p, e.text)
  BY DEF KeptBy
<1>2. UNION {KeptBy(e, i) : i \in DOMAIN e.parser} = KeptBy(e, 1)
  BY <1>1
<1> QED
  BY <1>1, <1>2 DEF KeepsItsOriginals

\* What the second parser kept is laid over what the first one did.
LEMMA TwoLayers ==
    ASSUME NEW e, NEW p \in Syslog, NEW q \in Parsers \ {"plain_text", p},
           e.parser = <<p, q>>,
           e.originals = [k \in OriginalsOf(p, e.text) \cup OriginalsOf(q, MessageOf(p, e.text)) |->
                             IF k \in OriginalsOf(q, MessageOf(p, e.text)) THEN 2 ELSE 1]
    PROVE  KeepsItsOriginals(e)
<1>1. /\ DOMAIN e.parser = {1, 2} /\ e.parser[1] = p /\ e.parser[2] = q
      /\ KeptBy(e, 1) = OriginalsOf(p, e.text)
      /\ KeptBy(e, 2) = OriginalsOf(q, MessageOf(p, e.text))
  BY DEF KeptBy
<1>2. UNION {KeptBy(e, i) : i \in DOMAIN e.parser} = KeptBy(e, 1) \cup KeptBy(e, 2)
  BY <1>1
<1>3. e.originals = [k \in KeptBy(e, 1) \cup KeptBy(e, 2) |-> IF k \in KeptBy(e, 2) THEN 2 ELSE 1]
  BY <1>1
<1>4. ASSUME NEW k \in KeptBy(e, 1), k \in KeptBy(e, 2)
      PROVE  Relays(e) /\ k \in Replaceable
  <2>1. q \in Syslog /\ k \in Replaceable
    BY <1>1, <1>4, NamesApart
  <2> QED
    BY <2>1 DEF Relays, Syslog
<1>5. ASSUME NEW i \in DOMAIN e.parser, NEW k \in KeptBy(e, i)
      PROVE  \/ e.originals[k] = i
             \/ /\ Relays(e) /\ k \in Replaceable /\ i = 1
                /\ k \in KeptBy(e, 2) /\ e.originals[k] = 2
  <2>1. CASE i = 1
    <3>1. CASE k \in KeptBy(e, 2)
      BY <1>3, <1>4, <1>5, <2>1, <3>1
    <3>2. CASE k \notin KeptBy(e, 2)
      BY <1>3, <1>5, <2>1, <3>2
    <3> QED
      BY <3>1, <3>2
  <2>2. CASE i = 2
    BY <1>3, <1>5, <2>2
  <2> QED
    BY <1>1, <2>1, <2>2
<1>6. DOMAIN e.originals = UNION {KeptBy(e, i) : i \in DOMAIN e.parser}
  BY <1>2, <1>3
<1> QED
  BY <1>5, <1>6 DEF KeepsItsOriginals

-----------------------------------------------------------------------------
(* The inductive invariant: what is known of the event at each stage. *)

Parsing == {"chain", "reconcile"}
Parsed == {"limits", "identify", "validate", "count"}

\* No field is missing from an event.
IsRecord(e) ==
    e = [text |-> e.text, meta |-> e.meta, parser |-> e.parser, statuses |-> e.statuses,
         format |-> e.format, status |-> e.status, decision |-> e.decision,
         originals |-> e.originals, truncated |-> e.truncated, source |-> e.source,
         by |-> e.by, validation |-> e.validation]

\* The source was matched and the parser chosen for this event.
RoutedRight ==
    /\ matched = FirstMatch(event.meta)
    /\ routed = ResolveWithHint(Candidates(event.text), event.text, HintOf(matched))
    /\ event.decision = routed.decision

NothingParsed == event.parser = <<>> /\ event.statuses = <<>> /\ event.originals = <<>>

\* A syslog parser read the envelope, and there is something in it.
EnvelopeRead ==
    /\ routed.parser \in Syslog
    /\ StatusOf(routed.parser, event.text) # "FAILED"
    /\ event.parser = <<routed.parser>>
    /\ event.statuses = <<event.status>>
    /\ event.status = StatusOf(routed.parser, event.text)
    /\ event.format = Head(Candidates(event.text))
    /\ event.originals = [k \in OriginalsOf(routed.parser, event.text) |-> 1]
    /\ message = MessageOf(routed.parser, event.text)

\* Another parser read what was in it, and the status is that parser's.
BothRead ==
    /\ Len(event.parser) = 2
    /\ \E first \in Results \ {"FAILED"}, second \in Results :
          event.statuses = <<first, second>> /\ event.status = second

\* What the first parser was, and what holds of the parsers' work from then on.
FirstParser == IF routed.parser = "none" THEN "plain_text" ELSE routed.parser

ReadRight ==
    /\ Len(event.parser) > 0
    /\ Head(event.parser) = FirstParser
    /\ InOneEnvelope(event)
    /\ KeepsItsOriginals(event)

StageByStage ==
    /\ IsRecord(event)
    /\ stage = "route" => NothingParsed
    /\ stage \in {"parse"} \cup Parsing \cup Parsed => RoutedRight
    /\ stage = "parse" => NothingParsed
    /\ stage = "chain" => EnvelopeRead
    /\ stage = "reconcile" => BothRead
    /\ stage \in Parsing \cup Parsed => ReadRight
    /\ stage \in Parsed => HasHonestStatus(event) /\ event.status \in Results \cup {"UNKNOWN_FORMAT"}
    /\ stage \in {"validate", "count"} =>
          event.by = matched /\ (event.source = "KNOWN" <=> matched # 0)

\* In which stages the event at hand is in a counter already.
AlreadyCounted(c) ==
    \/ c = "unknown_format" /\ stage \in Parsed
    \/ c = "field_limits" /\ stage \in {"identify", "validate", "count"}
    \/ c = "unknown_source" /\ stage \in {"validate", "count"}
    \/ c = "validation_failed" /\ stage = "count"

CountersKept ==
    \A c \in Counters :
        counters[c] = Census(c) + (IF AlreadyCounted(c) /\ CountsAs(c, event) THEN 1 ELSE 0)

NoneUncounted ==
    Census("parsed") + Census("partial") + Census("unknown_format") + Census("failed")
        = Len(finished)

FinishedRight ==
    \A e \in Events :
        /\ EventTypeOK(e)
        /\ HasHonestStatus(e)
        /\ RoutedAsNoted(e)
        /\ SteeredByItsSource(e)
        /\ InOneEnvelope(e)
        /\ KeepsItsOriginals(e)

ProcessingInv ==
    /\ ResolutionTypeOK
    /\ StageByStage
    /\ CountersKept
    /\ NoneUncounted
    /\ FinishedRight

-----------------------------------------------------------------------------
(* Steps that finish no event. *)

\* A census is a number.
LEMMA CensusIsNumber ==
    ASSUME ProcessingInv, NEW c
    PROVE  Census(c) \in Nat
<1>1. Len(finished) \in Nat /\ DOMAIN finished = 1..Len(finished)
  BY DEF ProcessingInv, ResolutionTypeOK
<1>2. IsFiniteSet(1..Len(finished))
  BY <1>1, FS_Interval
<1>3. {i \in DOMAIN finished : CountsAs(c, finished[i])} \in SUBSET (1..Len(finished))
  BY <1>1
<1> QED
  BY <1>2, <1>3, FS_Subset, FS_CardinalityType DEF Census

\* What is known of the finished events, and their census, changes with them only.
LEMMA FinishedStay ==
    ASSUME ProcessingInv, finished' = finished
    PROVE  /\ FinishedRight'
           /\ NoneUncounted'
           /\ (finished \in Seq(Events))'
           /\ (\A e \in Events : EventTypeOK(e))'
           /\ \A c : Census(c)' = Census(c) /\ Census(c) \in Nat
<1>1. Events' = Events /\ \A c : Census(c)' = Census(c)
  BY DEF Events, Census
<1> QED
  BY <1>1, CensusIsNumber DEF ProcessingInv, FinishedRight, NoneUncounted, ResolutionTypeOK

\* A text is a sequence of layers.
LEMMA TextIsLayers ==
    ASSUME NEW t \in Texts \cup {<<>>}
    PROVE  t \in Seq(Headers \cup Bodies)
<1>1. <<>> \in Seq(Headers \cup Bodies)
  OBVIOUS
<1> QED
  BY <1>1, ResolutionAssumption

\* No event yet.
LEMMA StartsRight ==
    ASSUME Init
    PROVE  ProcessingInv
<1> USE DEF Init, Received
<1>1. ResolutionTypeOK
  <2>1. Events = {} /\ finished \in Seq(Events)
    BY DEF Events, ToSet
  <2>2. EventTypeOK(event)
    BY ResolutionAssumption DEF EventTypeOK
  <2> QED
    BY <2>1, <2>2, ResolutionAssumption DEF ResolutionTypeOK, NoRoute
<1>2. StageByStage
  BY DEF StageByStage, IsRecord, Parsing, Parsed
<1>3. \A c : Census(c) = 0
  <2>1. \A c : {i \in DOMAIN finished : CountsAs(c, finished[i])} = {}
    OBVIOUS
  <2> QED
    BY <2>1, FS_EmptySet DEF Census
<1>4. CountersKept
  BY <1>3 DEF CountersKept, AlreadyCounted, Parsed, Counters
<1>5. NoneUncounted
  BY <1>3 DEF NoneUncounted
<1>6. FinishedRight
  BY DEF FinishedRight, Events, ToSet
<1> QED
  BY <1>1, <1>2, <1>4, <1>5, <1>6 DEF ProcessingInv

LEMMA ReceiveKeeps ==
    ASSUME ProcessingInv, NEW t \in Texts, NEW m \in Metas, Receive(t, m)
    PROVE  ProcessingInv'
<1> USE DEF Receive
<1>1. ResolutionTypeOK'
  <2>1. EventTypeOK(event)'
    BY ResolutionAssumption DEF EventTypeOK, Received
  <2> QED
    BY <2>1, FinishedStay DEF ProcessingInv, ResolutionTypeOK
<1>2. StageByStage'
  BY DEF StageByStage, IsRecord, Received, NothingParsed, Parsing, Parsed
<1>3. CountersKept'
  BY FinishedStay DEF ProcessingInv, CountersKept, AlreadyCounted, Parsed
<1> QED
  BY <1>1, <1>2, <1>3, FinishedStay DEF ProcessingInv

LEMMA RouteKeeps ==
    ASSUME ProcessingInv, Route
    PROVE  ProcessingInv'
<1> USE DEF Route
<1>1. /\ IsRecord(event')
      /\ event'.decision = routed'.decision
      /\ event' = [event EXCEPT !.decision = event'.decision]
  BY DEF ProcessingInv, StageByStage, IsRecord
<1>2. RoutedRight'
  BY <1>1 DEF RoutedRight, ProcessingInv, StageByStage, IsRecord
<1>3. ResolutionTypeOK'
  <2>1. matched' \in 0..Len(Sources)
    BY MatchedFirst
  <2>2. /\ routed'.parser \in Parsers \cup {"none"}
        /\ routed'.decision \in {"none", "hint_used", "hint_rejected_fallback"}
    BY RoutesAccept
  <2>3. EventTypeOK(event)'
    BY <1>1, <2>2 DEF EventTypeOK, ProcessingInv, ResolutionTypeOK, StageByStage, IsRecord
  <2> QED
    BY <2>1, <2>2, <2>3, FinishedStay DEF ProcessingInv, ResolutionTypeOK
<1>4. StageByStage'
  BY <1>1, <1>2 DEF ProcessingInv, StageByStage, IsRecord, NothingParsed, Parsing, Parsed
<1>5. CountersKept'
  BY FinishedStay DEF ProcessingInv, CountersKept, AlreadyCounted, Parsed
<1> QED
  BY <1>3, <1>4, <1>5, FinishedStay DEF ProcessingInv

-----------------------------------------------------------------------------
(* Parsing. *)

\* What merge_parse_result changes of an event, and what it leaves alone.
LEMMA MergeChanges ==
    ASSUME IsRecord(event), NEW p, NEW t, NEW format,
           NEW e, e = Merge(p, t, format)
    PROVE  /\ IsRecord(e)
           /\ e.parser = Append(event.parser, p)
           /\ e.statuses = Append(event.statuses, StatusOf(p, t))
           /\ e.format = format
           /\ e.status = StatusOf(p, t)
           /\ e.originals = Kept(event.originals, p, t, Len(event.parser) + 1)
           /\ e.text = event.text /\ e.meta = event.meta /\ e.decision = event.decision
           /\ e.truncated = event.truncated /\ e.source = event.source /\ e.by = event.by
           /\ e.validation = event.validation
  BY DEF IsRecord, Merge

\* The first parser's work, before a second one's.
LEMMA FirstMerge ==
    ASSUME IsRecord(event), NothingParsed, NEW p \in Parsers, NEW format
    PROVE  LET e == Merge(p, event.text, format)
           IN  /\ e.parser = <<p>>
               /\ e.statuses = <<StatusOf(p, event.text)>>
               /\ e.originals = [k \in OriginalsOf(p, event.text) |-> 1]
               /\ InOneEnvelope(e)
               /\ KeepsItsOriginals(e)
<1> DEFINE e == Merge(p, event.text, format)
<1>1. e = Merge(p, event.text, format)
  OBVIOUS
<1> HIDE DEF e
<1>2. e.parser = <<p>> /\ e.statuses = <<StatusOf(p, event.text)>> /\ e.text = event.text
  BY <1>1, MergeChanges DEF NothingParsed
<1>3. e.originals = [k \in OriginalsOf(p, event.text) |-> 1]
  BY <1>1, MergeChanges DEF NothingParsed, Kept
<1>4. InOneEnvelope(e)
  BY <1>2 DEF InOneEnvelope
<1>5. KeepsItsOriginals(e)
  BY <1>2, <1>3, OneLayer
<1> QED
  BY <1>1, <1>2, <1>3, <1>4, <1>5

\* The order of the parsers and the originals are judged by these fields alone.
LEMMA SameReading ==
    ASSUME NEW d, NEW e, e.parser = d.parser, e.originals = d.originals, e.text = d.text
    PROVE  /\ KeepsItsOriginals(d) => KeepsItsOriginals(e)
           /\ e.format = d.format /\ InOneEnvelope(d) => InOneEnvelope(e)
           /\ Len(e.parser) = 1 => InOneEnvelope(e)
<1>1. \A i : KeptBy(e, i) = KeptBy(d, i)
  BY DEF KeptBy
<1>2. Relays(e) <=> Relays(d)
  BY DEF Relays
<1>3. KeepsItsOriginals(d) => KeepsItsOriginals(e)
  BY <1>1, <1>2 DEF KeepsItsOriginals
<1> QED
  BY <1>3 DEF InOneEnvelope

LEMMA ParsePlainKeeps ==
    ASSUME ProcessingInv, ParsePlain
    PROVE  ProcessingInv'
<1> DEFINE e == Merge("plain_text", event.text, "unknown")
<1> USE DEF ParsePlain
<1>1. /\ stage = "parse" /\ stage' = "limits" /\ IsRecord(event) /\ NothingParsed /\ RoutedRight
      /\ "plain_text" \in Parsers /\ "unknown" \in Formats
      /\ StatusOf("plain_text", event.text) = "PARSED"
  BY DEF ProcessingInv, StageByStage, Parsers, Formats, StatusOf, Syslog
<1>2. /\ e.parser = <<"plain_text">>
      /\ e.statuses = <<StatusOf("plain_text", event.text)>>
      /\ InOneEnvelope(e)
      /\ KeepsItsOriginals(e)
  BY <1>1, FirstMerge
<1>3. /\ IsRecord(event')
      /\ event'.parser = <<"plain_text">>
      /\ event'.statuses = <<"PARSED">>
      /\ event'.format = "unknown"
      /\ event'.status = "UNKNOWN_FORMAT"
      /\ event'.originals = e.originals
      /\ event'.text = event.text /\ event'.meta = event.meta
      /\ event'.decision = event.decision /\ event'.truncated = event.truncated
      /\ event'.source = event.source /\ event'.by = event.by
      /\ event'.validation = event.validation
  <2>1. event' = [e EXCEPT !.format = "unknown", !.status = "UNKNOWN_FORMAT"]
    BY DEF AsPlainText, Unrecognized
  <2>2. IsRecord(e) /\ e.parser = <<"plain_text">> /\ e.statuses = <<"PARSED">>
    BY <1>1, MergeChanges, <1>2
  <2>3. /\ e.text = event.text /\ e.meta = event.meta /\ e.decision = event.decision
        /\ e.truncated = event.truncated /\ e.source = event.source /\ e.by = event.by
        /\ e.validation = event.validation
    BY <1>1, MergeChanges
  <2> HIDE DEF e
  <2> QED
    BY <2>1, <2>2, <2>3 DEF IsRecord
<1>4. ReadRight'
  <2>1. InOneEnvelope(e) /\ KeepsItsOriginals(e) /\ e.parser = <<"plain_text">>
        /\ e.statuses = <<"PARSED">>
    BY <1>2, <1>1
  <2>2. e.text = event.text
    BY <1>1, MergeChanges
  <2> HIDE DEF e
  <2>3. InOneEnvelope(event') /\ KeepsItsOriginals(event')
    <3>1. Len(event'.parser) = 1
      BY <1>3
    <3> QED
      BY <1>3, <2>1, <2>2, <3>1, SameReading
  <2> QED
    BY <1>1, <1>3, <2>3 DEF ReadRight, FirstParser
<1>5. HasHonestStatus(event')
  BY <1>3 DEF HasHonestStatus, ToSet
<1>6. ResolutionTypeOK'
  <2>1. EventTypeOK(event)'
    BY <1>1, <1>3 DEF EventTypeOK, ProcessingInv, ResolutionTypeOK
  <2>2. counters' \in [Counters -> Nat]
    BY DEF ProcessingInv, ResolutionTypeOK, Counted, Counters
  <2> QED
    BY <2>1, <2>2, FinishedStay DEF ProcessingInv, ResolutionTypeOK
<1>7. StageByStage'
  BY <1>1, <1>3, <1>4, <1>5 DEF StageByStage, RoutedRight, Parsing, Parsed
<1>8. CountersKept'
  <2>1. ASSUME NEW c \in Counters
        PROVE  /\ counters[c] \in Nat
               /\ counters[c] = Census(c)
               /\ counters'[c] = counters[c] + (IF c = "unknown_format" THEN 1 ELSE 0)
               /\ Census(c)' = Census(c)
    BY <1>1, FinishedStay
       DEF ProcessingInv, ResolutionTypeOK, CountersKept, AlreadyCounted, Counted, Parsed
  <2>2. ASSUME NEW c \in Counters
        PROVE  (AlreadyCounted(c) /\ CountsAs(c, event))' <=> c = "unknown_format"
    BY <1>1, <1>3 DEF AlreadyCounted, CountsAs, Parsed
  <2> QED
    BY <2>1, <2>2 DEF CountersKept
<1> QED
  BY <1>6, <1>7, <1>8, FinishedStay DEF ProcessingInv

LEMMA ParseKeeps ==
    ASSUME ProcessingInv, Parse
    PROVE  ProcessingInv'
<1> DEFINE p == routed.parser
           format == Head(Candidates(event.text))
<1>1. /\ stage = "parse" /\ IsRecord(event) /\ NothingParsed /\ RoutedRight
      /\ p \in Parsers \ {"plain_text"} /\ p # "none"
      /\ format \in Formats
      /\ StatusOf(p, event.text) \in Results
      /\ event' = Merge(p, event.text, format)
      /\ routed' = routed /\ matched' = matched /\ counters' = counters /\ finished' = finished
      /\ stage' \in {"limits", "chain"}
      /\ stage' = "chain" =>
            p \in Syslog /\ message' # <<>> /\ message' = MessageOf(p, event.text)
  BY ParserStatus, OneOrTwoCandidates
     DEF Parse, ProcessingInv, ResolutionTypeOK, StageByStage, Parsers
<1>2. event.text \in Seq(Headers \cup Bodies)
  BY TextIsLayers DEF ProcessingInv, ResolutionTypeOK, EventTypeOK
<1>3. /\ message' \in Seq(Headers \cup Bodies)
      /\ message' # <<>> => StatusOf(p, event.text) # "FAILED"
  BY <1>2, MessageIsText DEF Parse
<1> HIDE DEF p, format
<1>4. /\ IsRecord(event')
      /\ event'.format = format
      /\ event'.status = StatusOf(p, event.text)
      /\ event'.text = event.text /\ event'.meta = event.meta
      /\ event'.decision = event.decision /\ event'.truncated = event.truncated
      /\ event'.source = event.source /\ event'.by = event.by
      /\ event'.validation = event.validation
  BY <1>1, MergeChanges
<1>5. /\ event'.parser = <<p>>
      /\ event'.statuses = <<StatusOf(p, event.text)>>
      /\ event'.originals = [k \in OriginalsOf(p, event.text) |-> 1]
      /\ InOneEnvelope(event') /\ KeepsItsOriginals(event')
  BY <1>1, FirstMerge
<1>6. ReadRight'
  BY <1>1, <1>5 DEF ReadRight, FirstParser, p
<1>7. HasHonestStatus(event')
  BY <1>1, <1>4, <1>5 DEF HasHonestStatus, ToSet, Results
<1>8. ResolutionTypeOK'
  <2>1. EventTypeOK(event)'
    BY <1>1, <1>4, <1>5 DEF EventTypeOK, ProcessingInv, ResolutionTypeOK, Results
  <2> QED
    BY <1>1, <1>3, <2>1, FinishedStay DEF ProcessingInv, ResolutionTypeOK
<1>9. StageByStage'
  <2>1. RoutedRight'
    BY <1>1, <1>4 DEF RoutedRight
  <2>2. stage' = "chain" => EnvelopeRead'
    BY <1>1, <1>3, <1>4, <1>5 DEF EnvelopeRead, p, format
  <2> QED
    BY <1>1, <1>4, <1>6, <1>7, <2>1, <2>2 DEF StageByStage, Parsing, Parsed
<1>10. CountersKept'
  BY <1>1, <1>4, FinishedStay DEF ProcessingInv, CountersKept, AlreadyCounted, CountsAs, Parsed, Results
<1> QED
  BY <1>1, <1>8, <1>9, <1>10, FinishedStay DEF ProcessingInv

\* What the inner parser keeps is laid over what the envelope's parser kept.
LEMMA SecondMerge ==
    ASSUME ProcessingInv, ParseInner
    PROVE  /\ \E inner \in Parsers \ {"plain_text", routed.parser} :
                 /\ event'.parser = <<routed.parser, inner>>
                 /\ event'.statuses = <<event.status, event'.status>>
                 /\ event'.status \in Results
           /\ event'.format = event.format
           /\ IsRecord(event')
           /\ KeepsItsOriginals(event')
           /\ event'.text = event.text /\ event'.meta = event.meta
           /\ event'.decision = event.decision /\ event'.truncated = event.truncated
           /\ event'.source = event.source /\ event'.by = event.by
           /\ event'.validation = event.validation
<1> DEFINE p == routed.parser
           inner == ResolveInner(message)
<1>1. /\ IsRecord(event) /\ EnvelopeRead
      /\ inner \notin {"none", "plain_text", p}
      /\ event' = Merge(inner, message, event.format)
  BY DEF ParseInner, ProcessingInv, StageByStage, Chains, WireFormat
<1>2. inner \in Parsers
  BY <1>1, OneOrTwoCandidates, WalkAccepts DEF ResolveInner
<1>3. StatusOf(inner, message) \in Results
  BY <1>2, ParserStatus
<1> HIDE DEF inner
<1>4. /\ IsRecord(event')
      /\ event'.parser = Append(event.parser, inner)
      /\ event'.statuses = Append(event.statuses, StatusOf(inner, message))
      /\ event'.format = event.format
      /\ event'.status = StatusOf(inner, message)
      /\ event'.originals = Kept(event.originals, inner, message, Len(event.parser) + 1)
      /\ event'.text = event.text /\ event'.meta = event.meta
      /\ event'.decision = event.decision /\ event'.truncated = event.truncated
      /\ event'.source = event.source /\ event'.by = event.by
      /\ event'.validation = event.validation
  BY <1>1, MergeChanges
<1>5. /\ event'.parser = <<p, inner>>
      /\ event'.statuses = <<event.status, event'.status>>
  BY <1>1, <1>4 DEF EnvelopeRead
<1>6. KeepsItsOriginals(event')
  <2>1. /\ p \in Syslog /\ inner \in Parsers \ {"plain_text", p}
        /\ message = MessageOf(p, event'.text)
    BY <1>1, <1>2, <1>4 DEF EnvelopeRead
  <2>2. event'.originals =
           [k \in OriginalsOf(p, event'.text) \cup OriginalsOf(inner, MessageOf(p, event'.text)) |->
               IF k \in OriginalsOf(inner, MessageOf(p, event'.text)) THEN 2 ELSE 1]
    BY <1>1, <1>4, <2>1 DEF EnvelopeRead, Kept
  <2> QED
    BY <1>5, <2>1, <2>2, TwoLayers
<1> QED
  BY <1>1, <1>2, <1>3, <1>4, <1>5, <1>6

LEMMA ParseInnerKeeps ==
    ASSUME ProcessingInv, ParseInner
    PROVE  ProcessingInv'
<1>1. /\ stage = "chain" /\ stage' = "reconcile" /\ RoutedRight /\ EnvelopeRead /\ ReadRight
      /\ routed' = routed /\ matched' = matched /\ message' = message
      /\ counters' = counters /\ finished' = finished
  BY DEF ParseInner, ProcessingInv, StageByStage, Parsing
<1>2. PICK inner \in Parsers \ {"plain_text", routed.parser} :
          /\ event'.parser = <<routed.parser, inner>>
          /\ event'.statuses = <<event.status, event'.status>>
          /\ event'.status \in Results
  BY SecondMerge
<1>3. event.status \in Results \ {"FAILED"}
  BY <1>1, ParserStatus DEF EnvelopeRead, Parsers, Syslog
<1>4. RoutedRight'
  BY <1>1, SecondMerge DEF RoutedRight
<1>5. BothRead'
  BY <1>2, <1>3 DEF BothRead
<1>6. ReadRight'
  <2>1. InOneEnvelope(event')
    BY <1>1, <1>2, SecondMerge DEF InOneEnvelope, EnvelopeRead
  <2> QED
    BY <1>1, <1>2, <2>1, SecondMerge DEF ReadRight, FirstParser, EnvelopeRead, Syslog
<1>7. ResolutionTypeOK'
  <2>1. event'.parser \in Seq(Parsers)
    BY <1>1, <1>2 DEF EnvelopeRead, Parsers, Syslog
  <2>2. EventTypeOK(event)'
    BY <1>2, <2>1, SecondMerge DEF EventTypeOK, ProcessingInv, ResolutionTypeOK, Results
  <2> QED
    BY <1>1, <2>2, FinishedStay DEF ProcessingInv, ResolutionTypeOK
<1>8. StageByStage'
  BY <1>1, <1>4, <1>5, <1>6, SecondMerge DEF StageByStage, Parsing, Parsed
<1>9. CountersKept'
  BY <1>1, FinishedStay DEF ProcessingInv, CountersKept, AlreadyCounted, Parsed
<1> QED
  BY <1>1, <1>7, <1>8, <1>9, FinishedStay DEF ProcessingInv

LEMMA NothingInsideKeeps ==
    ASSUME ProcessingInv, NothingInside
    PROVE  ProcessingInv'
<1>1. /\ stage = "chain" /\ stage' = "limits" /\ RoutedRight /\ EnvelopeRead /\ ReadRight
      /\ event' = event /\ routed' = routed /\ matched' = matched /\ message' = message
      /\ counters' = counters /\ finished' = finished /\ IsRecord(event)
  BY DEF NothingInside, ProcessingInv, StageByStage, Parsing
<1>2. event.status \in Results \ {"FAILED"}
  BY <1>1, ParserStatus DEF EnvelopeRead, Parsers, Syslog
<1>3. HasHonestStatus(event)
  BY <1>1, <1>2 DEF HasHonestStatus, EnvelopeRead, ToSet, Results, Syslog
<1>4. ResolutionTypeOK'
  BY <1>1, FinishedStay DEF ProcessingInv, ResolutionTypeOK, EventTypeOK
<1>5. StageByStage'
  BY <1>1, <1>2, <1>3 DEF StageByStage, RoutedRight, ReadRight, FirstParser, Parsing, Parsed
<1>6. CountersKept'
  BY <1>1, <1>2, FinishedStay DEF ProcessingInv, CountersKept, AlreadyCounted, CountsAs, Parsed, Results
<1> QED
  BY <1>1, <1>4, <1>5, <1>6, FinishedStay DEF ProcessingInv

\* What the reconciliation makes of two results.
LEMMA Reconciled ==
    ASSUME NEW first \in Results \ {"FAILED"}, NEW second \in Results,
           event.status = second
    PROVE  LET status == ChainStatus(<<first, second>>)
           IN  /\ status \in {"PARSED", "PARTIAL"}
               /\ status = "PARSED" => first = "PARSED" /\ second = "PARSED"
<1> DEFINE set == ToSet(<<first, second>>)
<1>1. set = {first, second}
  BY DEF ToSet
<1>2. CASE second = "FAILED"
  <2>1. Cardinality({first}) = 1 /\ IsFiniteSet({first})
    BY FS_Singleton
  <2>2. Cardinality({first} \cup {second}) = 2
    BY <1>2, <2>1, FS_AddElement
  <2>3. {first} \cup {second} = {first, second}
    OBVIOUS
  <2>4. "FAILED" \in set /\ Cardinality(set) > 1
    BY <1>1, <1>2, <2>2, <2>3
  <2> QED
    BY <1>2, <2>4 DEF ChainStatus
<1>3. CASE second # "FAILED"
  <2>1. "FAILED" \notin set
    BY <1>1, <1>3
  <2>2. ChainStatus(<<first, second>>) = IF "PARTIAL" \in set THEN "PARTIAL" ELSE second
    BY <2>1 DEF ChainStatus
  <2> QED
    BY <1>1, <1>3, <2>2 DEF Results
<1> QED
  BY <1>2, <1>3

LEMMA ReconcileKeeps ==
    ASSUME ProcessingInv, Reconcile
    PROVE  ProcessingInv'
<1>1. /\ stage = "reconcile" /\ stage' = "limits" /\ RoutedRight /\ BothRead /\ ReadRight
      /\ event' = [event EXCEPT !.status = ChainStatus(event.statuses)]
      /\ routed' = routed /\ matched' = matched /\ message' = message
      /\ counters' = counters /\ finished' = finished /\ IsRecord(event)
  BY DEF Reconcile, ProcessingInv, StageByStage, Parsing
<1>2. PICK first \in Results \ {"FAILED"}, second \in Results :
          event.statuses = <<first, second>> /\ event.status = second
  BY <1>1 DEF BothRead
<1>3. /\ IsRecord(event')
      /\ event'.status = ChainStatus(event.statuses)
      /\ event'.parser = event.parser /\ event'.statuses = event.statuses
      /\ event'.originals = event.originals /\ event'.format = event.format
      /\ event'.text = event.text /\ event'.meta = event.meta
      /\ event'.decision = event.decision /\ event'.truncated = event.truncated
      /\ event'.source = event.source /\ event'.by = event.by
      /\ event'.validation = event.validation
  BY <1>1 DEF IsRecord
<1>4. /\ event'.status \in {"PARSED", "PARTIAL"}
      /\ event'.status = "PARSED" => first = "PARSED" /\ second = "PARSED"
  BY <1>2, <1>3, Reconciled
<1>5. HasHonestStatus(event')
  <2>1. ToSet(event'.statuses) = {first, second}
    BY <1>2, <1>3 DEF ToSet
  <2>2. event'.parser # <<"plain_text">>
    BY <1>1, <1>3 DEF BothRead
  <2> QED
    BY <1>4, <2>1, <2>2 DEF HasHonestStatus
<1>6. ReadRight'
  <2>1. InOneEnvelope(event') /\ KeepsItsOriginals(event')
    BY <1>1, <1>3, SameReading DEF ReadRight
  <2> QED
    BY <1>1, <1>3, <2>1 DEF ReadRight, FirstParser
<1>7. ResolutionTypeOK'
  <2>1. EventTypeOK(event)'
    BY <1>3, <1>4 DEF EventTypeOK, ProcessingInv, ResolutionTypeOK
  <2> QED
    BY <1>1, <2>1, FinishedStay DEF ProcessingInv, ResolutionTypeOK
<1>8. StageByStage'
  BY <1>1, <1>3, <1>4, <1>5, <1>6 DEF StageByStage, RoutedRight, Parsing, Parsed, Results
<1>9. CountersKept'
  BY <1>1, <1>4, FinishedStay DEF ProcessingInv, CountersKept, AlreadyCounted, CountsAs, Parsed
<1> QED
  BY <1>1, <1>7, <1>8, <1>9, FinishedStay DEF ProcessingInv

-----------------------------------------------------------------------------
(* What follows the parse. *)

\* The stages after the parse leave what the parsers did alone.
LEMMA ParseStands ==
    ASSUME ProcessingInv, stage \in Parsed,
           routed' = routed, matched' = matched,
           event'.parser = event.parser, event'.statuses = event.statuses,
           event'.originals = event.originals, event'.format = event.format,
           event'.status = event.status, event'.text = event.text,
           event'.meta = event.meta, event'.decision = event.decision
    PROVE  /\ RoutedRight'
           /\ ReadRight'
           /\ HasHonestStatus(event')
           /\ event'.status \in Results \cup {"UNKNOWN_FORMAT"}
<1>1. RoutedRight /\ ReadRight /\ HasHonestStatus(event)
      /\ event.status \in Results \cup {"UNKNOWN_FORMAT"}
  BY DEF ProcessingInv, StageByStage
<1>2. InOneEnvelope(event') /\ KeepsItsOriginals(event')
  BY <1>1, SameReading DEF ReadRight
<1> QED
  BY <1>1, <1>2 DEF RoutedRight, ReadRight, FirstParser, HasHonestStatus

\* One more is counted of one thing, or none.
LEMMA CountingMore ==
    ASSUME ProcessingInv, finished' = finished, NEW what \in Counters, NEW more \in BOOLEAN,
           counters' = IF more THEN Counted(what) ELSE counters,
           ~AlreadyCounted(what),
           (AlreadyCounted(what) /\ CountsAs(what, event))' <=> more,
           \A c \in Counters \ {what} :
               (AlreadyCounted(c) /\ CountsAs(c, event))' <=> AlreadyCounted(c) /\ CountsAs(c, event)
    PROVE  /\ counters' \in [Counters -> Nat]
           /\ CountersKept'
<1>1. counters \in [Counters -> Nat] /\ CountersKept
  BY DEF ProcessingInv, ResolutionTypeOK
<1>2. counters' \in [Counters -> Nat]
  BY <1>1 DEF Counted
<1>3. ASSUME NEW c \in Counters
      PROVE  counters'[c] = counters[c] + (IF c = what /\ more THEN 1 ELSE 0)
  BY <1>1 DEF Counted
<1>4. \A c : Census(c)' = Census(c) /\ Census(c) \in Nat
  BY FinishedStay
<1>5. ASSUME NEW c \in Counters \ {what}
      PROVE  counters'[c] = Census(c)' + (IF (AlreadyCounted(c) /\ CountsAs(c, event))' THEN 1 ELSE 0)
  <2>1. counters'[c] = counters[c] /\ counters[c] \in Nat
    BY <1>1, <1>3
  <2> QED
    BY <1>1, <1>4, <2>1 DEF CountersKept
<1>6. counters'[what] = Census(what)' + (IF (AlreadyCounted(what) /\ CountsAs(what, event))' THEN 1 ELSE 0)
  <2>1. counters[what] = Census(what)
    BY <1>1, <1>4 DEF CountersKept
  <2> QED
    BY <1>3, <1>4, <2>1
<1> QED
  BY <1>2, <1>5, <1>6 DEF CountersKept

LEMMA LimitsKeep ==
    ASSUME ProcessingInv, EnforceFieldLimits
    PROVE  ProcessingInv'
<1>1. PICK over \in BOOLEAN :
          /\ event' = [event EXCEPT !.truncated = over]
          /\ counters' = IF over THEN Counted("field_limits") ELSE counters
  BY DEF EnforceFieldLimits
<1>2. /\ stage = "limits" /\ stage' = "identify" /\ stage \in Parsed /\ IsRecord(event)
      /\ routed' = routed /\ matched' = matched /\ message' = message /\ finished' = finished
      /\ "field_limits" \in Counters
  BY DEF EnforceFieldLimits, ProcessingInv, StageByStage, Parsed, Counters
<1>3. /\ IsRecord(event')
      /\ event'.truncated = over
      /\ event'.parser = event.parser /\ event'.statuses = event.statuses
      /\ event'.originals = event.originals /\ event'.format = event.format
      /\ event'.status = event.status /\ event'.text = event.text
      /\ event'.meta = event.meta /\ event'.decision = event.decision
      /\ event'.source = event.source /\ event'.by = event.by
      /\ event'.validation = event.validation
  BY <1>1, <1>2 DEF IsRecord
<1>4. counters' \in [Counters -> Nat] /\ CountersKept'
  <2>1. /\ ~AlreadyCounted("field_limits")
        /\ (AlreadyCounted("field_limits") /\ CountsAs("field_limits", event))' <=> over
    BY <1>2, <1>3 DEF AlreadyCounted, CountsAs, Parsed
  <2>2. \A c \in Counters \ {"field_limits"} :
            (AlreadyCounted(c) /\ CountsAs(c, event))' <=> AlreadyCounted(c) /\ CountsAs(c, event)
    BY <1>2, <1>3 DEF AlreadyCounted, CountsAs, Parsed
  <2> QED
    BY <1>1, <1>2, <2>1, <2>2, CountingMore
<1>5. ResolutionTypeOK'
  <2>1. EventTypeOK(event)'
    BY <1>3 DEF EventTypeOK, ProcessingInv, ResolutionTypeOK
  <2> QED
    BY <1>2, <1>4, <2>1, FinishedStay DEF ProcessingInv, ResolutionTypeOK
<1>6. StageByStage'
  BY <1>2, <1>3, ParseStands DEF StageByStage, Parsing, Parsed
<1> QED
  BY <1>2, <1>4, <1>5, <1>6, FinishedStay DEF ProcessingInv

LEMMA IdentifyKeeps ==
    ASSUME ProcessingInv, Identify
    PROVE  ProcessingInv'
<1>1. /\ event' = [event EXCEPT !.source = Identity, !.by = matched]
      /\ counters' = IF Identity = "UNKNOWN" THEN Counted("unknown_source") ELSE counters
      /\ Identity \in {"KNOWN", "INFERRED", "UNKNOWN"}
      /\ Identity = "KNOWN" <=> matched # 0
  BY DEF Identify, Identity, AttributedTo
<1>2. /\ stage = "identify" /\ stage' = "validate" /\ stage \in Parsed /\ IsRecord(event)
      /\ routed' = routed /\ matched' = matched /\ message' = message /\ finished' = finished
      /\ "unknown_source" \in Counters
      /\ matched \in 0..Len(Sources)
  BY DEF Identify, ProcessingInv, ResolutionTypeOK, StageByStage, Parsed, Counters
<1>3. /\ IsRecord(event')
      /\ event'.source = Identity /\ event'.by = matched
      /\ event'.parser = event.parser /\ event'.statuses = event.statuses
      /\ event'.originals = event.originals /\ event'.format = event.format
      /\ event'.status = event.status /\ event'.text = event.text
      /\ event'.meta = event.meta /\ event'.decision = event.decision
      /\ event'.truncated = event.truncated
      /\ event'.validation = event.validation
  BY <1>1, <1>2 DEF IsRecord
<1>4. counters' \in [Counters -> Nat] /\ CountersKept'
  <2> DEFINE unknown == Identity = "UNKNOWN"
  <2>1. /\ ~AlreadyCounted("unknown_source")
        /\ (AlreadyCounted("unknown_source") /\ CountsAs("unknown_source", event))' <=> unknown
    BY <1>2, <1>3 DEF AlreadyCounted, CountsAs, Parsed
  <2>2. \A c \in Counters \ {"unknown_source"} :
            (AlreadyCounted(c) /\ CountsAs(c, event))' <=> AlreadyCounted(c) /\ CountsAs(c, event)
    BY <1>2, <1>3 DEF AlreadyCounted, CountsAs, Parsed
  <2>3. unknown \in BOOLEAN /\ counters' = IF unknown THEN Counted("unknown_source") ELSE counters
    BY <1>1
  <2> QED
    BY <1>2, <2>1, <2>2, <2>3, CountingMore
<1>5. ResolutionTypeOK'
  <2>1. EventTypeOK(event)'
    BY <1>1, <1>2, <1>3 DEF EventTypeOK, ProcessingInv, ResolutionTypeOK
  <2> QED
    BY <1>2, <1>4, <2>1, FinishedStay DEF ProcessingInv, ResolutionTypeOK
<1>6. StageByStage'
  BY <1>1, <1>2, <1>3, ParseStands DEF StageByStage, Parsing, Parsed
<1> QED
  BY <1>2, <1>4, <1>5, <1>6, FinishedStay DEF ProcessingInv

LEMMA ValidateKeeps ==
    ASSUME ProcessingInv, Validate
    PROVE  ProcessingInv'
<1>1. PICK invalid \in BOOLEAN :
          /\ event' = [event EXCEPT !.validation = IF invalid THEN "INVALID" ELSE "VALID"]
          /\ counters' = IF invalid THEN Counted("validation_failed") ELSE counters
  BY DEF Validate
<1>2. /\ stage = "validate" /\ stage' = "count" /\ stage \in Parsed /\ IsRecord(event)
      /\ routed' = routed /\ matched' = matched /\ message' = message /\ finished' = finished
      /\ "validation_failed" \in Counters
      /\ event.by = matched /\ (event.source = "KNOWN" <=> matched # 0)
  BY DEF Validate, ProcessingInv, StageByStage, Parsed, Counters
<1>3. /\ IsRecord(event')
      /\ event'.validation = IF invalid THEN "INVALID" ELSE "VALID"
      /\ event'.parser = event.parser /\ event'.statuses = event.statuses
      /\ event'.originals = event.originals /\ event'.format = event.format
      /\ event'.status = event.status /\ event'.text = event.text
      /\ event'.meta = event.meta /\ event'.decision = event.decision
      /\ event'.source = event.source /\ event'.by = event.by
      /\ event'.truncated = event.truncated
  BY <1>1, <1>2 DEF IsRecord
<1>4. counters' \in [Counters -> Nat] /\ CountersKept'
  <2>1. /\ ~AlreadyCounted("validation_failed")
        /\ (AlreadyCounted("validation_failed") /\ CountsAs("validation_failed", event))' <=> invalid
    BY <1>2, <1>3 DEF AlreadyCounted, CountsAs, Parsed
  <2>2. \A c \in Counters \ {"validation_failed"} :
            (AlreadyCounted(c) /\ CountsAs(c, event))' <=> AlreadyCounted(c) /\ CountsAs(c, event)
    BY <1>2, <1>3 DEF AlreadyCounted, CountsAs, Parsed
  <2> QED
    BY <1>1, <1>2, <2>1, <2>2, CountingMore
<1>5. ResolutionTypeOK'
  <2>1. EventTypeOK(event)'
    BY <1>3 DEF EventTypeOK, ProcessingInv, ResolutionTypeOK
  <2> QED
    BY <1>2, <1>4, <2>1, FinishedStay DEF ProcessingInv, ResolutionTypeOK
<1>6. StageByStage'
  BY <1>2, <1>3, ParseStands DEF StageByStage, Parsing, Parsed
<1> QED
  BY <1>2, <1>4, <1>5, <1>6, FinishedStay DEF ProcessingInv

-----------------------------------------------------------------------------
(* The last step. *)

\* The event joins the finished ones, and the census of what it counts as.
LEMMA OneMoreFinished ==
    ASSUME ProcessingInv, finished' = Append(finished, event)
    PROVE  /\ Events' = Events \cup {event}
           /\ (finished \in Seq(Events))'
           /\ Len(finished') = Len(finished) + 1
           /\ \A c : /\ Census(c)' = Census(c) + (IF CountsAs(c, event) THEN 1 ELSE 0)
                    /\ Census(c) \in Nat
<1> DEFINE n == Len(finished)
<1>1. /\ n \in Nat /\ DOMAIN finished = 1..n
      /\ DOMAIN finished' = 1..(n + 1) /\ Len(finished') = n + 1
      /\ finished'[n + 1] = event
      /\ \A i \in 1..n : finished'[i] = finished[i]
  BY DEF ProcessingInv, ResolutionTypeOK
<1>2. Events' = Events \cup {event}
  <2>1. ASSUME NEW e \in Events' PROVE e \in Events \cup {event}
    <3>1. PICK i \in 1..(n + 1) : e = finished'[i]
      BY <1>1, <2>1 DEF Events, ToSet
    <3> QED
      BY <1>1, <3>1 DEF Events, ToSet
  <2>2. ASSUME NEW e \in Events PROVE e \in Events'
    <3>1. PICK i \in 1..n : e = finished[i]
      BY <1>1, <2>2 DEF Events, ToSet
    <3> QED
      BY <1>1, <3>1 DEF Events, ToSet
  <2>3. event \in Events'
    BY <1>1 DEF Events, ToSet
  <2> QED
    BY <2>1, <2>2, <2>3
<1>3. (finished \in Seq(Events))'
  <2>1. finished \in Seq(Events \cup {event})
    BY <1>1 DEF ProcessingInv, ResolutionTypeOK
  <2>2. Append(finished, event) \in Seq(Events \cup {event})
    BY <2>1
  <2> QED
    BY <1>2, <2>2
<1>4. ASSUME NEW c
      PROVE  /\ Census(c)' = Census(c) + (IF CountsAs(c, event) THEN 1 ELSE 0)
             /\ Census(c) \in Nat
  <2> DEFINE old == {i \in 1..n : CountsAs(c, finished[i])}
             new == {i \in 1..(n + 1) : CountsAs(c, finished'[i])}
  <2>1. IsFiniteSet(old)
    <3>1. IsFiniteSet(1..n) /\ old \in SUBSET (1..n)
      BY <1>1, FS_Interval
    <3> QED
      BY <3>1, FS_Subset
  <2>2. Census(c) = Cardinality(old) /\ Census(c)' = Cardinality(new)
    BY <1>1 DEF Census, CountsAs
  <2>3. Cardinality(old) \in Nat
    BY <2>1, FS_CardinalityType
  <2>4. CASE CountsAs(c, event)
    <3>1. new = old \cup {n + 1} /\ n + 1 \notin old
      BY <1>1, <2>4
    <3> QED
      BY <2>1, <2>2, <2>3, <2>4, <3>1, FS_AddElement
  <2>5. CASE ~CountsAs(c, event)
    <3>1. new = old
      BY <1>1, <2>5
    <3> HIDE DEF old, new
    <3> QED
      BY <2>2, <2>3, <2>5, <3>1
  <2> QED
    BY <2>4, <2>5
<1> QED
  BY <1>1, <1>2, <1>3, <1>4

\* The event was routed as its notes say, by the source it is attributed to.
LEMMA FinishedEventRight ==
    ASSUME ProcessingInv, CountOutcome
    PROVE  /\ EventTypeOK(event)
           /\ HasHonestStatus(event)
           /\ RoutedAsNoted(event)
           /\ SteeredByItsSource(event)
           /\ InOneEnvelope(event)
           /\ KeepsItsOriginals(event)
<1>1. /\ stage = "count" /\ RoutedRight /\ ReadRight /\ HasHonestStatus(event)
      /\ event.by = matched /\ (event.source = "KNOWN" <=> matched # 0)
      /\ EventTypeOK(event)
  BY DEF CountOutcome, ProcessingInv, ResolutionTypeOK, StageByStage, Parsed
<1> DEFINE hint == HintOf(matched)
           standard == Resolve(Candidates(event.text), event.text)
<1>2. /\ routed.parser \in Parsers \cup {"none"}
      /\ routed.parser # "none" => Accepts(routed.parser, event.text)
      /\ \/ event.decision = "hint_used" /\ hint \in Parsers /\ routed.parser = hint
         \/ /\ event.decision = "hint_rejected_fallback"
            /\ hint \in Parsers
            /\ ~Accepts(hint, event.text)
            /\ routed.parser = standard
         \/ event.decision = "none" /\ hint \notin Parsers /\ routed.parser = standard
  BY <1>1, RoutesAccept DEF RoutedRight
<1>3. "none" \notin Parsers /\ Accepts("plain_text", event.text)
  BY DEF Parsers, Accepts, Syslog
<1>4. RoutedAsNoted(event)
  <2>1. Accepts(Head(event.parser), event.text)
    BY <1>1, <1>2, <1>3 DEF ReadRight, FirstParser
  <2>2. Standard(event.text) = IF standard = "none" THEN "plain_text" ELSE standard
    BY DEF Standard
  <2>3. Head(event.parser) = FirstParser
    BY <1>1 DEF ReadRight
  <2>4. HintOf(event.by) = hint
    BY <1>1
  <2> HIDE DEF hint, standard
  <2>5. CASE event.decision = "hint_used"
    <3>1. hint \in Parsers /\ routed.parser = hint /\ Accepts(hint, event.text)
      BY <1>2, <1>3, <2>5
    <3> QED
      BY <1>3, <2>1, <2>3, <2>4, <2>5, <3>1 DEF RoutedAsNoted, FirstParser
  <2>6. CASE event.decision # "hint_used"
    <3>1. /\ routed.parser = standard
          /\ ~(hint \in Parsers /\ Accepts(hint, event.text))
          /\ event.decision = IF hint \notin Parsers THEN "none" ELSE "hint_rejected_fallback"
      BY <1>2, <2>6
    <3> QED
      BY <2>1, <2>2, <2>3, <2>4, <3>1 DEF RoutedAsNoted, FirstParser
  <2> QED
    BY <2>5, <2>6
<1>5. SteeredByItsSource(event)
  <2>1. matched = FirstMatch(event.meta)
    BY <1>1 DEF RoutedRight
  <2>2. event.source = "KNOWN" <=> \E i \in DOMAIN Sources : Matches(Sources[i], event.meta)
    BY <1>1, <2>1, MatchedFirst
  <2>3. event.source = "KNOWN" =>
            /\ Matches(Sources[event.by], event.meta)
            /\ \A i \in 1..(event.by - 1) : ~Matches(Sources[i], event.meta)
    BY <1>1, <2>1, MatchedFirst
  <2>4. event.decision # "none" => matched # 0 /\ Sources[matched].hint \in Parsers
    BY <1>2 DEF HintOf, Parsers
  <2> QED
    BY <1>1, <2>2, <2>3, <2>4 DEF SteeredByItsSource
<1> QED
  BY <1>1, <1>4, <1>5 DEF ReadRight

LEMMA CountOutcomeKeeps ==
    ASSUME ProcessingInv, CountOutcome
    PROVE  ProcessingInv'
<1>1. /\ stage = "count" /\ stage' = "idle"
      /\ finished' = Append(finished, event)
      /\ event' = Received(<<>>, [a \in {} |-> ""])
      /\ matched' = 0 /\ routed' = NoRoute /\ message' = <<>>
      /\ counters' = OutcomeMetrics
      /\ event.status \in Results \cup {"UNKNOWN_FORMAT"}
  BY DEF CountOutcome, ProcessingInv, StageByStage, Parsed
<1>2. FinishedRight'
  BY <1>1, OneMoreFinished, FinishedEventRight DEF ProcessingInv, FinishedRight
<1>3. ASSUME NEW c \in Counters
      PROVE  counters'[c] = Census(c)' /\ counters'[c] \in Nat
  <2>1. /\ Census(c)' = Census(c) + (IF CountsAs(c, event) THEN 1 ELSE 0)
        /\ Census(c) \in Nat
    BY <1>1, OneMoreFinished
  <2>2. counters \in [Counters -> Nat]
    BY DEF ProcessingInv, ResolutionTypeOK
  <2>3. counters[c] = Census(c) + (IF AlreadyCounted(c) /\ CountsAs(c, event) THEN 1 ELSE 0)
    BY DEF ProcessingInv, CountersKept
  <2>4. CASE c \in {"parsed", "partial"}
    <3>1. ~AlreadyCounted(c) /\ (CountsAs(c, event) <=> event.status = IF c = "parsed" THEN "PARSED" ELSE "PARTIAL")
      BY <2>4 DEF AlreadyCounted, CountsAs
    <3>2. counters'[c] = counters[c] + (IF CountsAs(c, event) THEN 1 ELSE 0)
      BY <1>1, <2>2, <2>4, <3>1 DEF OutcomeMetrics, Counted, Counters
    <3> QED
      BY <2>1, <2>3, <3>1, <3>2
  <2>5. CASE c \notin {"parsed", "partial"}
    <3>1. CountsAs(c, event) => AlreadyCounted(c)
      BY <1>1, <2>5 DEF AlreadyCounted, CountsAs, Counters, Parsed
    <3>2. counters'[c] = counters[c]
      BY <1>1, <2>2, <2>5 DEF OutcomeMetrics, Counted
    <3> QED
      BY <2>1, <2>3, <3>1, <3>2
  <2> QED
    BY <2>4, <2>5
<1>4. CountersKept'
  <2>1. \A c : ~AlreadyCounted(c)'
    BY <1>1 DEF AlreadyCounted, Parsed
  <2>2. \A c : Census(c)' \in Nat
    BY <1>1, OneMoreFinished
  <2> QED
    BY <1>3, <2>1, <2>2 DEF CountersKept
<1>5. NoneUncounted'
  <2>1. Len(finished') = Len(finished) + 1 /\ Len(finished) \in Nat
    BY <1>1, OneMoreFinished DEF ProcessingInv, ResolutionTypeOK
  <2>2. \A c : /\ Census(c)' = Census(c) + (IF CountsAs(c, event) THEN 1 ELSE 0)
               /\ Census(c) \in Nat
    BY <1>1, OneMoreFinished
  <2>3. /\ CountsAs("parsed", event) <=> event.status = "PARSED"
        /\ CountsAs("partial", event) <=> event.status = "PARTIAL"
        /\ CountsAs("unknown_format", event) <=> event.status = "UNKNOWN_FORMAT"
        /\ CountsAs("failed", event) <=> event.status = "FAILED"
    BY DEF CountsAs
  <2> QED
    BY <1>1, <2>1, <2>2, <2>3 DEF ProcessingInv, NoneUncounted, Results
<1>6. ResolutionTypeOK'
  <2>1. EventTypeOK(event)'
    BY <1>1, ResolutionAssumption DEF EventTypeOK, Received
  <2>2. counters' \in [Counters -> Nat]
    <3>1. counters' = [counters EXCEPT !["parsed"] = @ + 1]
          \/ counters' = [counters EXCEPT !["partial"] = @ + 1]
          \/ counters' = counters
      BY <1>1 DEF OutcomeMetrics, Counted
    <3> QED
      BY <3>1 DEF ProcessingInv, ResolutionTypeOK
  <2>3. matched' \in 0..Len(Sources)
    BY <1>1, ResolutionAssumption
  <2>4. routed'.parser \in Parsers \cup {"none"} /\ message' \in Seq(Headers \cup Bodies)
    BY <1>1 DEF NoRoute
  <2> QED
    BY <1>1, <1>2, <2>1, <2>2, <2>3, <2>4, OneMoreFinished DEF ResolutionTypeOK, FinishedRight
<1>7. StageByStage'
  BY <1>1 DEF StageByStage, IsRecord, Received, Parsing, Parsed
<1> QED
  BY <1>2, <1>4, <1>5, <1>6, <1>7 DEF ProcessingInv

-----------------------------------------------------------------------------
(* The theorems. *)

LEMMA NextKeeps ==
    ASSUME ProcessingInv, [Next]_vars
    PROVE  ProcessingInv'
<1>1. CASE Next
  BY <1>1, ReceiveKeeps, RouteKeeps, ParsePlainKeeps, ParseKeeps, ParseInnerKeeps,
     NothingInsideKeeps, ReconcileKeeps, LimitsKeep, IdentifyKeeps, ValidateKeeps,
     CountOutcomeKeeps DEF Next
<1>2. CASE UNCHANGED vars
  <2> USE <1>2 DEF vars
  <2>1. ResolutionTypeOK'
    BY FinishedStay DEF ProcessingInv, ResolutionTypeOK, EventTypeOK
  <2>2. StageByStage'
    BY DEF ProcessingInv, StageByStage, RoutedRight, NothingParsed, EnvelopeRead, BothRead,
           ReadRight, FirstParser
  <2>3. CountersKept'
    BY FinishedStay DEF ProcessingInv, CountersKept, AlreadyCounted
  <2> QED
    BY <2>1, <2>2, <2>3, FinishedStay DEF ProcessingInv
<1> QED
  BY <1>1, <1>2

\* At every stage of _process_event the event is what the stages before it made of it.
THEOREM Processing == Spec => []ProcessingInv
<1>1. Init => ProcessingInv
  BY StartsRight
<1>2. ProcessingInv /\ [Next]_vars => ProcessingInv'
  BY NextKeeps
<1> QED
  BY <1>1, <1>2, PTL DEF Spec

\* Events name parsers, formats, statuses and definitions that exist.
THEOREM ResolutionTypeCorrect == Spec => []ResolutionTypeOK
<1>1. ProcessingInv => ResolutionTypeOK
  BY DEF ProcessingInv
<1> QED
  BY <1>1, Processing, PTL

\* The status of a finished event (_process_event's four places that set it) is the one
\* its parsers' results call for.
THEOREM HonestStatus == Spec => []StatusIsHonest
<1>1. ProcessingInv => StatusIsHonest
  BY DEF ProcessingInv, FinishedRight, StatusIsHonest
<1> QED
  BY <1>1, Processing, PTL

\* The metrics are the census of what became of the events, and only FAILED ones are in
\* no outcome counter.
THEOREM CountersAreTheCensus == Spec => []CountersAgree
<1>1. ASSUME ProcessingInv, stage = "idle"
      PROVE  /\ \A c \in Counters : counters[c] = Census(c)
             /\ counters["parsed"] + counters["partial"] + counters["unknown_format"]
                   + Census("failed") = Len(finished)
  <2>1. \A c : Census(c) \in Nat /\ ~AlreadyCounted(c)
    BY <1>1, CensusIsNumber DEF AlreadyCounted, Parsed
  <2>2. \A c \in Counters : counters[c] = Census(c)
    BY <1>1, <2>1 DEF ProcessingInv, CountersKept
  <2> QED
    BY <1>1, <2>2 DEF ProcessingInv, NoneUncounted, Counters
<1>2. ProcessingInv => CountersAgree
  BY <1>1 DEF CountersAgree
<1> QED
  BY <1>2, Processing, PTL

\* resolve_with_hint: no parser reads a text its accept() refuses, whatever the hint, and
\* the decision noted on the event is the one that was taken.
THEOREM HintsDoNotBypass == Spec => []HintNeverBypasses
<1>1. ProcessingInv => HintNeverBypasses
  BY DEF ProcessingInv, FinishedRight, HintNeverBypasses
<1> QED
  BY <1>1, Processing, PTL

\* pre_parse_hint and identify speak of the same definition, the first that matches.
THEOREM SteeredByFirstMatch == Spec => []SteeredBySource
<1>1. ProcessingInv => SteeredBySource
  BY DEF ProcessingInv, FinishedRight, SteeredBySource
<1> QED
  BY <1>1, Processing, PTL

\* One inner parse at most, and the envelope's format stays the event's.
THEOREM AtMostOneEnvelope == Spec => []OneEnvelope
<1>1. ProcessingInv => OneEnvelope
  BY DEF ProcessingInv, FinishedRight, OneEnvelope
<1> QED
  BY <1>1, Processing, PTL

\* merge_parse_result overwrites nothing a parser that succeeded has to show for itself.
THEOREM NoOriginalLost == Spec => []OriginalsSurvive
<1>1. ProcessingInv => OriginalsSurvive
  BY DEF ProcessingInv, FinishedRight, OriginalsSurvive
<1> QED
  BY <1>1, Processing, PTL

=============================================================================
