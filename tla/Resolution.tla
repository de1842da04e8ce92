----------------------------- MODULE Resolution -----------------------------
(***************************************************************************)
(* How the pipeline makes an event of a text                               *)
(* (src/ulstp/pipeline.py, Pipeline._process_event): detection of its      *)
(* format, the configured source's parser_hint, the registry's walk, the   *)
(* parse of a syslog envelope and of the message in it, the status of the  *)
(* chain, field limits, identification of the source, validation and the   *)
(* outcome counters.  One step per stage, one event at a time: nothing but *)
(* the counters is shared between the threads that run it.                 *)
(*                                                                         *)
(* A text is the sequence of what is in it, from the outside in: syslog    *)
(* headers, then a body, as in <<"3164", "json">>.  Every regular          *)
(* expression of the detection and of the parsers is an operator on such   *)
(* sequences.                                                              *)
(***************************************************************************)
EXTENDS Integers, FiniteSets, SequencesExt

CONSTANTS
    Texts,      \* the texts that arrive
    Metas,      \* their transport metadata: anchors with values
    Sources,    \* the configured definitions, in order: [anchors, hint]
    MaxEvents   \* bound of the model: how many events are processed

\* Headers: RFC 5424 with structured data, without it, with a PRI above 191 and without it,
\* and of which only PRI and VERSION are there; RFC 3164 with a host, and with a PRI, a host
\* and a tag.
Full5424 == {"5424", "5424 nil", "5424 pri"}
Headers == Full5424 \cup {"5424 cut", "3164", "3164 tag"}

\* Bodies.  The "cut" ones end too early for their parser.  "json" has spaces in it and
\* "json compact" none; "asa" has a researched message id, "asa pairs" has two key=value
\* tokens as well; "rows" is a table of two lines.
Json == {"json", "json compact", "json cut"}
Asa == {"asa", "asa other", "asa pairs"}
Pairs == {"pairs", "fortigate", "asa pairs"}
Bodies == {"cef", "cef cut", "leef", "table", "rows", "xml", "words"} \cup Json \cup Asa \cup Pairs

Parsers == {"rfc5424", "rfc3164", "fortigate", "cef", "leef", "key_value", "json", "csv",
            "cisco_asa", "plain_text"}

Syslog == {"rfc5424", "rfc3164"}

Formats == {"rfc5424", "rfc3164", "cef", "leef", "json", "key_value", "csv", "xml",
            "plain_text", "unknown"}

Anchors == {"transport", "peer_ip", "local_port", "file_path"}

ASSUME ResolutionAssumption ==
    /\ Texts \subseteq Seq(Headers \cup Bodies)
    /\ \A m \in Metas : DOMAIN m = Anchors
    /\ Sources \in Seq(ToSet(Sources))
    /\ \A i \in DOMAIN Sources :
          /\ DOMAIN Sources[i] = {"anchors", "hint"}
          /\ DOMAIN Sources[i].anchors \subseteq Anchors
    /\ MaxEvents \in Nat

-----------------------------------------------------------------------------
(* Detection (format_detection.py). *)

Has(t, layers) == \E i \in DOMAIN t : t[i] \in layers
Begins(t, layers) == t # <<>> /\ Head(t) \in layers

Is5424(t) == Begins(t, Full5424 \cup {"5424 cut"})
Is3164(t) == Begins(t, {"3164", "3164 tag"})

\* The rules in their order: the first that matches wins, and the last always does.
DetectionOrder == <<"unknown", "rfc5424", "cef", "leef", "json", "rfc3164", "key_value",
                    "xml", "csv", "plain_text">>

Recognizes(format, t) ==
    \/ format = "unknown" /\ t = <<>>
    \/ format = "rfc5424" /\ Is5424(t)
    \/ format = "cef" /\ Has(t, {"cef", "cef cut"})
    \/ format = "leef" /\ Has(t, {"leef"})
    \/ format = "json" /\ Begins(t, Json)
    \/ format = "rfc3164" /\ Is3164(t)
    \/ format = "key_value" /\ Has(t, Pairs)
    \/ format = "xml" /\ Begins(t, {"xml"})
    \/ format = "csv" /\ Has(t, {"table", "rows"})
    \/ format = "plain_text"

Detect(t) == DetectionOrder[SelectInSeq(DetectionOrder, LAMBDA f : Recognizes(f, t))]

\* Where detection takes the message of an envelope to begin: after the first "] ", or
\* after the host and one more token, which is a tag or the first word of the message.
MessageGuess(t) ==
    IF Is5424(t)
    THEN IF Has(t, {"5424"}) THEN SubSeq(t, SelectInSeq(t, LAMBDA l : l = "5424") + 1, Len(t))
                             ELSE <<>>
    ELSE IF Head(t) = "3164 tag" THEN Tail(t)
                                 ELSE SelectSeq(Tail(t), LAMBDA l : l \in Pairs)

Candidates(t) ==
    LET primary == Detect(t)
        guess == Detect(MessageGuess(t))
        prefix == primary \in {"cef", "leef"} /\ Is3164(t)
        inner == primary \in Syslog /\ guess \in {"cef", "leef", "json", "key_value"}
    IN  IF prefix THEN <<"rfc3164", primary>>
        ELSE IF inner THEN <<primary, guess>>
        ELSE <<primary>>

-----------------------------------------------------------------------------
(* The registry (registry.py). *)

Registry ==
    << <<"rfc5424", {"rfc5424"}>>, <<"rfc3164", {"rfc3164"}>>, <<"fortigate", {"key_value"}>>,
       <<"cef", {"cef"}>>, <<"leef", {"leef"}>>, <<"key_value", {"key_value"}>>,
       <<"json", {"json"}>>, <<"csv", {"csv"}>>, <<"cisco_asa", {"plain_text", "rfc3164"}>>,
       <<"plain_text", {"plain_text", "unknown"}>> >>

\* Parser.accept(): the two syslog parsers and the plain-text one have no signature.
\* A parameter of structured data and a CEF extension hold one key=value token each here.
Accepts(p, t) ==
    \/ p \in Syslog \cup {"plain_text"}
    \/ p = "cef" /\ Has(t, {"cef", "cef cut"})
    \/ p = "leef" /\ Has(t, {"leef"})
    \/ p = "json" /\ Begins(t, Json)
    \/ p = "key_value" /\ \/ Has(t, Pairs)
                           \/ Cardinality({i \in DOMAIN t : t[i] \in {"5424", "cef"}}) > 1
    \/ p = "fortigate" /\ Has(t, {"fortigate"})
    \/ p = "csv" /\ Has(t, {"table", "leef"} \cup Json) /\ ~Has(t, {"rows"})
    \/ p = "cisco_asa" /\ Has(t, Asa)

Offering(c, t) == {j \in DOMAIN Registry : c \in Registry[j][2] /\ Accepts(Registry[j][1], t)}

\* The walk, over those of the candidates that are among the formats: the first of them
\* that a parser offers to read, and the first parser in the registry that does.
ResolveAmong(formats, candidates, t) ==
    LET i == SelectInSeq(candidates, LAMBDA c : c \in formats /\ Offering(c, t) # {})
    IN  IF i = 0 THEN "none" ELSE Registry[Min(Offering(candidates[i], t))][1]

Resolve(candidates, t) == ResolveAmong(Formats, candidates, t)

ResolveWithHint_Unchecked(candidates, t, hint) ==
    IF hint \in Parsers THEN [parser |-> hint, decision |-> "hint_used"]
                        ELSE [parser |-> Resolve(candidates, t), decision |-> "none"]

ResolveWithHint(candidates, t, hint) ==
    IF hint \in Parsers /\ Accepts(hint, t)
    THEN [parser |-> hint, decision |-> "hint_used"]
    ELSE [parser |-> Resolve(candidates, t),
          decision |-> IF hint \in Parsers THEN "hint_rejected_fallback" ELSE "none"]

ResolveInner(t) ==
    LET others == ToSet(Candidates(t)) \ Syslog
    IN  ResolveAmong(IF others = {} THEN Formats ELSE others, Candidates(t), t)

-----------------------------------------------------------------------------
(* The parsers (parsers/ *.py): a status, the message of an envelope, and the   *)
(* names of the original values they keep.                                      *)

\* CEF and LEEF know a prefix of their own: an RFC 3164 header without a tag.
Unprefixed(t) == IF Begins(t, {"3164"}) THEN Tail(t) ELSE t

StatusOf(p, t) ==
    CASE p = "rfc5424" -> IF Begins(t, {"5424 pri"}) THEN "PARTIAL"
                          ELSE IF Begins(t, Full5424) THEN "PARSED" ELSE "FAILED"
      [] p = "rfc3164" -> IF Is3164(t) THEN "PARSED" ELSE "FAILED"
      [] p = "cef" -> IF Begins(Unprefixed(t), {"cef"}) THEN "PARSED" ELSE "FAILED"
      [] p = "leef" -> IF Begins(Unprefixed(t), {"leef"}) THEN "PARSED" ELSE "FAILED"
      [] p = "json" -> IF Begins(t, {"json cut"}) THEN "FAILED" ELSE "PARSED"
      [] p = "csv" -> "PARTIAL"
      [] p = "cisco_asa" -> IF Has(t, {"asa"}) THEN "PARSED" ELSE "PARTIAL"
      [] p \in {"key_value", "fortigate", "plain_text"} -> "PARSED"

\* RFC 3164 takes whatever stands before the first colon for a tag, but for CEF: and
\* LEEF:.  What it leaves of a body that begins so:
TagEats(body) ==
    CASE body \in {"asa", "asa other", "json", "json cut"} -> "words"
      [] body = "asa pairs" -> "pairs"
      [] body = "json compact" -> "table"
      [] OTHER -> body

MessageOf(p, t) ==
    IF StatusOf(p, t) = "FAILED" THEN <<>>
    ELSE IF p = "rfc3164" /\ Head(t) = "3164" /\ Len(t) > 1
    THEN <<TagEats(t[2])>> \o SubSeq(t, 3, Len(t))
    ELSE Tail(t)

\* What stands before the colon is kept as a tag.
Tagged(t) == Head(t) = "3164 tag" \/ (Len(t) > 1 /\ TagEats(t[2]) # t[2])

\* The names after "original.": those of the syslog parsers are the same, a name of another
\* parser's begins with the parser's own, and one stands for all of them.
OriginalsOf(p, t) ==
    IF StatusOf(p, t) = "FAILED" THEN {}
    ELSE CASE p = "rfc3164" ->
                  {"timestamp", "message", "hostname"}
                    \cup (IF Head(t) = "3164 tag" THEN {"pri"} ELSE {})
                    \cup (IF Tagged(t) THEN {"tag"} ELSE {})
           [] p = "rfc5424" ->
                  {"timestamp", "hostname", "appname", "procid", "msgid", "pri"}
                    \cup (IF Head(t) = "5424" THEN {"sd"} ELSE {})
           [] p = "plain_text" -> {"message"}
           [] OTHER -> {p}

-----------------------------------------------------------------------------
(* Events. *)

VARIABLES
    stage,      \* the stage _process_event has reached
    event,      \* the event it works on
    matched,    \* the index of the definition pre_parse_hint matched, or 0
    routed,     \* the parser and the decision resolve_with_hint returned
    message,    \* result.decoded["message"] of the envelope
    counters,   \* the metrics
    finished    \* the events that were processed, in order

vars == <<stage, event, matched, routed, message, counters, finished>>

Counters == {"parsed", "partial", "unknown_format", "unknown_source", "validation_failed",
             "field_limits"}

Received(t, m) ==
    [text |-> t, meta |-> m, parser |-> <<>>, statuses |-> <<>>, format |-> "none",
     status |-> "PENDING", decision |-> "none", originals |-> <<>>, truncated |-> FALSE,
     source |-> "UNKNOWN", by |-> 0, validation |-> "NOT_VALIDATED"]

NoRoute == [parser |-> "none", decision |-> "none"]

Init ==
    /\ stage = "idle"
    /\ event = Received(<<>>, [a \in {} |-> ""])
    /\ matched = 0
    /\ routed = NoRoute
    /\ message = <<>>
    /\ counters = [c \in Counters |-> 0]
    /\ finished = <<>>

Counted(c) == [counters EXCEPT ![c] = @ + 1]

Receive(t, m) ==
    /\ stage = "idle"
    /\ Len(finished) < MaxEvents
    /\ event' = Received(t, m)
    /\ stage' = "route"
    /\ UNCHANGED <<matched, routed, message, counters, finished>>

-----------------------------------------------------------------------------
(* Detection, the configured source, the parser. *)

\* A definition without an anchor matches nothing.
Matches(d, m) ==
    /\ DOMAIN d.anchors # {}
    /\ \A a \in DOMAIN d.anchors : m[a] = d.anchors[a]

FirstMatch(m) == SelectInSeq(Sources, LAMBDA d : Matches(d, m))

HintOf(i) == IF i = 0 THEN "" ELSE Sources[i].hint

Route ==
    /\ stage = "route"
    /\ matched' = FirstMatch(event.meta)
    /\ routed' = ResolveWithHint(Candidates(event.text), event.text, HintOf(matched'))
    /\ event' = [event EXCEPT !.decision = routed'.decision]
    /\ stage' = "parse"
    /\ UNCHANGED <<message, counters, finished>>

-----------------------------------------------------------------------------
(* Parsing. *)

\* merge_parse_result: dict.update() on every layer, so that a later value of the same
\* name replaces an earlier one.
Kept_Replaced(old, p, t, n) == [k \in OriginalsOf(p, t) |-> n]
Kept(old, p, t, n) ==
    [k \in DOMAIN old \cup OriginalsOf(p, t) |-> IF k \in OriginalsOf(p, t) THEN n ELSE old[k]]

Merge(p, t, format) ==
    [event EXCEPT !.parser = Append(@, p),
                  !.statuses = Append(@, StatusOf(p, t)),
                  !.format = format,
                  !.status = StatusOf(p, t),
                  !.originals = Kept(@, p, t, Len(event.parser) + 1)]

Unrecognized(e) == [e EXCEPT !.format = "unknown", !.status = "UNKNOWN_FORMAT"]

\* No parser, or the plain-text one: nothing was recognized.
AsPlainText_Parsed == [Merge("plain_text", event.text, "unknown") EXCEPT !.format = "unknown"]
AsPlainText == Unrecognized(Merge("plain_text", event.text, "unknown"))

ParsePlain ==
    /\ stage = "parse"
    /\ routed.parser \in {"none", "plain_text"}
    /\ event' = AsPlainText
    /\ counters' = Counted("unknown_format")
    /\ stage' = "limits"
    /\ UNCHANGED <<matched, routed, message, finished>>

Parse ==
    /\ stage = "parse"
    /\ routed.parser \notin {"none", "plain_text"}
    /\ event' = Merge(routed.parser, event.text, Head(Candidates(event.text)))
    /\ message' = IF routed.parser \in Syslog THEN MessageOf(routed.parser, event.text)
                                              ELSE <<>>
    /\ stage' = IF message' = <<>> THEN "limits" ELSE "chain"
    /\ UNCHANGED <<matched, routed, counters, finished>>

\* One level: the inner parser must be another one, and add something.
Chains_WithItself(p, inner) == inner \notin {"none", "plain_text"}
Chains(p, inner) == inner \notin {"none", "plain_text", p}

\* The envelope's format stays the event's format.
WireFormat_Inner(inner) == inner
WireFormat(inner) == event.format

ParseInner ==
    LET inner == ResolveInner(message)
    IN  /\ stage = "chain"
        /\ Chains(routed.parser, inner)
        /\ event' = Merge(inner, message, WireFormat(inner))
        /\ stage' = "reconcile"
        /\ UNCHANGED <<matched, routed, message, counters, finished>>

NothingInside ==
    /\ stage = "chain"
    /\ ~Chains(routed.parser, ResolveInner(message))
    /\ stage' = "limits"
    /\ UNCHANGED <<event, matched, routed, message, counters, finished>>

ChainStatus_Last(statuses) == statuses[2]
ChainStatus(statuses) ==
    LET set == ToSet(statuses)
    IN  IF "FAILED" \in set /\ Cardinality(set) > 1 THEN "PARTIAL"
        ELSE IF "FAILED" \in set THEN "FAILED"
        ELSE IF "PARTIAL" \in set THEN "PARTIAL" ELSE event.status

Reconcile ==
    /\ stage = "reconcile"
    /\ event' = [event EXCEPT !.status = ChainStatus(event.statuses)]
    /\ stage' = "limits"
    /\ UNCHANGED <<matched, routed, message, counters, finished>>

-----------------------------------------------------------------------------
(* What follows the parse. *)

Extracted == \E i \in DOMAIN event.statuses : event.statuses[i] # "FAILED"

\* _enforce_field_limits: too long a value or too many of them are noted, and kept.
EnforceFieldLimits ==
    /\ stage = "limits"
    /\ \E over \in IF Extracted THEN BOOLEAN ELSE {FALSE} :
          /\ event' = [event EXCEPT !.truncated = over]
          /\ counters' = IF over THEN Counted("field_limits") ELSE counters
    /\ stage' = "identify"
    /\ UNCHANGED <<matched, routed, message, finished>>

Signature(t) == Has(t, Asa \cup {"fortigate"})

\* The vendor in the header of a CEF or LEEF message that is the event's format; an
\* appname or a tag names no vendor.
HeaderVendor(e) ==
    /\ e.format \in {"cef", "leef"}
    /\ e.format \in ToSet(e.parser)
    /\ Begins(Unprefixed(e.text), IF e.format = "cef" THEN {"cef", "cef cut"} ELSE {"leef"})

AttributedTo_Last == SelectLastInSeq(Sources, LAMBDA d : Matches(d, event.meta))
AttributedTo == matched

Identity ==
    IF AttributedTo # 0 THEN "KNOWN"
    ELSE IF Signature(event.text) \/ HeaderVendor(event) THEN "INFERRED" ELSE "UNKNOWN"

Identify ==
    /\ stage = "identify"
    /\ event' = [event EXCEPT !.source = Identity, !.by = AttributedTo]
    /\ counters' = IF Identity = "UNKNOWN" THEN Counted("unknown_source") ELSE counters
    /\ stage' = "validate"
    /\ UNCHANGED <<matched, routed, message, finished>>

\* finalize_types and the validation: a typed field with a bad value, or no text at all.
Validate ==
    /\ stage = "validate"
    /\ \E typed \in IF Extracted THEN BOOLEAN ELSE {FALSE} :
          LET invalid == typed \/ event.text = <<>>
          IN  /\ event' = [event EXCEPT !.validation = IF invalid THEN "INVALID" ELSE "VALID"]
              /\ counters' = IF invalid THEN Counted("validation_failed") ELSE counters
    /\ stage' = "count"
    /\ UNCHANGED <<matched, routed, message, finished>>

OutcomeMetrics ==
    CASE event.status = "PARSED" -> Counted("parsed")
      [] event.status = "PARTIAL" -> Counted("partial")
      [] OTHER -> counters

CountOutcome ==
    /\ stage = "count"
    /\ counters' = OutcomeMetrics
    /\ finished' = Append(finished, event)
    /\ stage' = "idle"
    /\ event' = Received(<<>>, [a \in {} |-> ""])
    /\ matched' = 0
    /\ routed' = NoRoute
    /\ message' = <<>>

-----------------------------------------------------------------------------
Next ==
    \/ \E t \in Texts, m \in Metas : Receive(t, m)
    \/ Route
    \/ ParsePlain
    \/ Parse
    \/ ParseInner
    \/ NothingInside
    \/ Reconcile
    \/ EnforceFieldLimits
    \/ Identify
    \/ Validate
    \/ CountOutcome

Spec == Init /\ [][Next]_vars

-----------------------------------------------------------------------------
(* Properties. *)

Events == ToSet(finished)

EventTypeOK(e) ==
    /\ e.text \in Texts \cup {<<>>}
    /\ e.parser \in Seq(Parsers)
    /\ e.format \in Formats \cup {"none"}
    /\ e.status \in {"PENDING", "PARSED", "PARTIAL", "FAILED", "UNKNOWN_FORMAT"}
    /\ e.decision \in {"none", "hint_used", "hint_rejected_fallback"}
    /\ e.truncated \in BOOLEAN
    /\ e.source \in {"KNOWN", "INFERRED", "UNKNOWN"}
    /\ e.by \in 0..Len(Sources)
    /\ e.validation \in {"NOT_VALIDATED", "VALID", "INVALID"}

\* Events name parsers the registry has, formats and statuses the event model has, and
\* configured definitions that exist.
ResolutionTypeOK ==
    /\ stage \in {"idle", "route", "parse", "chain", "reconcile", "limits", "identify",
                  "validate", "count"}
    /\ matched \in 0..Len(Sources)
    /\ routed.parser \in Parsers \cup {"none"}
    /\ message \in Seq(Headers \cup Bodies)
    /\ counters \in [Counters -> Nat]
    /\ finished \in Seq(Events)
    /\ EventTypeOK(event)
    /\ \A e \in Events : EventTypeOK(e)

\* The status of an event is the one its parsers' results call for, whichever path it
\* took: FAILED only if none of them got anything out of it, PARSED only if all of them
\* were satisfied, and UNKNOWN_FORMAT only if it was carried as plain text.
HasHonestStatus(e) ==
    /\ (e.status = "UNKNOWN_FORMAT") <=> (e.parser = <<"plain_text">>)
    /\ (e.status = "UNKNOWN_FORMAT") => (e.format = "unknown")
    /\ (e.status = "FAILED") <=> (ToSet(e.statuses) = {"FAILED"})
    /\ (e.status = "PARSED") =>  (ToSet(e.statuses) = {"PARSED"})

StatusIsHonest == \A e \in Events : HasHonestStatus(e)

\* Between two events the counters are the census of the finished events: no event is in
\* two of the outcome counters, and only the FAILED ones are in none.
CountsAs(c, e) ==
    \/ c = "parsed" /\ e.status = "PARSED"
    \/ c = "partial" /\ e.status = "PARTIAL"
    \/ c = "unknown_format" /\ e.status = "UNKNOWN_FORMAT"
    \/ c = "failed" /\ e.status = "FAILED"
    \/ c = "unknown_source" /\ e.source = "UNKNOWN"
    \/ c = "validation_failed" /\ e.validation = "INVALID"
    \/ c = "field_limits" /\ e.truncated

Census(c) == Cardinality({i \in DOMAIN finished : CountsAs(c, finished[i])})

CountersAgree ==
    stage = "idle" =>
        /\ \A c \in Counters : counters[c] = Census(c)
        /\ counters["parsed"] + counters["partial"] + counters["unknown_format"]
              + Census("failed") = Len(finished)

\* A hint never bypasses a parser's signature check, and it is the only thing that leads
\* an event away from the standard walk; the decision noted on the event says which.
Standard(t) == LET p == Resolve(Candidates(t), t) IN IF p = "none" THEN "plain_text" ELSE p

RoutedAsNoted(e) ==
    LET first == Head(e.parser)
        hint == HintOf(e.by)
        steered == hint \in Parsers /\ Accepts(hint, e.text)
    IN  /\ Accepts(first, e.text)
        /\ first = IF steered THEN hint ELSE Standard(e.text)
        /\ e.decision = IF hint \notin Parsers THEN "none"
                        ELSE IF steered THEN "hint_used" ELSE "hint_rejected_fallback"

HintNeverBypasses == \A e \in Events : RoutedAsNoted(e)

\* The definition that steered the parse is the one the event is attributed to: the first
\* that matches, and KNOWN is said of no other event.
SteeredByItsSource(e) ==
    /\ (e.source = "KNOWN") <=> (\E i \in DOMAIN Sources : Matches(Sources[i], e.meta))
    /\ e.source = "KNOWN" =>
          /\ Matches(Sources[e.by], e.meta)
          /\ \A i \in 1..(e.by - 1) : ~Matches(Sources[i], e.meta)
    /\ e.decision # "none" => e.source = "KNOWN" /\ Sources[e.by].hint \in Parsers

SteeredBySource == \A e \in Events : SteeredByItsSource(e)

\* One inner parse at most, of what a syslog parser left, by another parser that adds
\* something; the format of the envelope stays the event's format.
InOneEnvelope(e) ==
    /\ Len(e.parser) \in {1, 2}
    /\ Len(e.parser) = 2 =>
          /\ e.parser[1] \in Syslog
          /\ e.parser[2] \notin {e.parser[1], "plain_text"}
          /\ e.format = Head(Candidates(e.text))

OneEnvelope == \A e \in Events : InOneEnvelope(e)

\* Every original value a parser kept of its part of the text is in the finished event, and
\* no other is, whatever the other parser of the chain was and did: under its name stands
\* this parser's value.  One syslog header in another is the exception: the relay's hostname,
\* PRI and timestamp, and nothing else of it, give way to those the originator's header has.
Replaceable == {"hostname", "pri", "timestamp"}

\* What the i-th parser of the chain kept, from what it was given to read.
KeptBy(e, i) == OriginalsOf(e.parser[i], IF i = 1 THEN e.text ELSE MessageOf(e.parser[1], e.text))

Relays(e) == e.parser \in {<<"rfc3164", "rfc5424">>, <<"rfc5424", "rfc3164">>}

KeepsItsOriginals(e) ==
    /\ DOMAIN e.originals = UNION {KeptBy(e, i) : i \in DOMAIN e.parser}
    /\ \A i \in DOMAIN e.parser : \A k \in KeptBy(e, i) :
          \/ e.originals[k] = i
          \/ Relays(e) /\ k \in Replaceable /\ i = 1 /\ k \in KeptBy(e, 2) /\ e.originals[k] = 2

OriginalsSurvive == \A e \in Events : KeepsItsOriginals(e)

=============================================================================
