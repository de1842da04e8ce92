--------------------------- MODULE StructuredData ---------------------------
(***************************************************************************)
(* How Rfc5424Parser._split_sd (parsers/rfc5424.py) cuts the text after    *)
(* the header into structured data and message: by counting brackets.      *)
(* A text is a sequence of characters.                                     *)
(***************************************************************************)
EXTENDS Integers, Sequences, FiniteSets, SequencesExt

CONSTANTS
    Elements,   \* SD elements senders write: [id |-> text, params |-> <<[name, val]>>]
    MaxElements,    \* bound: how many of them in one message
    Messages,   \* messages they write, <<>> for none
    Noise       \* any other texts after a header

Blank == " "
Nil == "-"
Quote == "\""
Escape == "\\"
Open == "["
Close == "]"

VARIABLES
    rest,           \* the text after the header
    stage,          \* whether it has been split
    sd, message,    \* what _split_sd returns
    meant           \* the message the sender wrote, as an observer knows, or nobody's

vars == <<rest, stage, sd, message, meant>>

Nobodys == <<Nil>>

-----------------------------------------------------------------------------
(* A conforming sender: "-" or elements one behind the other, and the message, if    *)
(* any, after one blank.                                                             *)

EscapedValue(v) ==
    FlattenSeq([i \in 1..Len(v) |->
        IF v[i] \in {Quote, Escape, Close} THEN <<Escape, v[i]>> ELSE <<v[i]>>])

ElementText(e) ==
    <<Open>> \o e.id
    \o FlattenSeq([i \in 1..Len(e.params) |->
          <<Blank>> \o e.params[i].name \o <<"=", Quote>> \o EscapedValue(e.params[i].val)
          \o <<Quote>>])
    \o <<Close>>

Written(es, m) ==
    <<Blank>>
    \o (IF es = <<>> THEN <<Nil>> ELSE FlattenSeq([i \in 1..Len(es) |-> ElementText(es[i])]))
    \o (IF m = <<>> THEN <<>> ELSE <<Blank>> \o m)

-----------------------------------------------------------------------------
Init ==
    /\ \/ /\ meant \in Messages
          /\ rest \in {Written(es, meant) : es \in UNION {[1..n -> Elements] : n \in 0..MaxElements}}
       \/ meant = Nobodys /\ rest \in Noise
    /\ stage = "header"
    /\ sd = <<>>
    /\ message = <<>>

Returns(data, msg) ==
    /\ stage = "header"
    /\ sd' = data
    /\ message' = msg
    /\ stage' = "split"
    /\ UNCHANGED <<rest, meant>>

From(i) == SubSeq(rest, i, Len(rest))
Has(i, c) == i <= Len(rest) /\ rest[i] = c

\* The message is what follows one blank at i; without the blank there is none.
AfterBlank(i) == IF Has(i, Blank) THEN From(i + 1) ELSE <<>>

\* No blank after the header: the text is the message.
NoBlank == ~Has(1, Blank) /\ Returns(<<>>, rest)

NilData == Has(1, Blank) /\ Has(2, Nil) /\ Returns(<<Nil>>, AfterBlank(3))

\* Brackets count whether they are quoted and escaped or not.
Depth(i) ==
    Cardinality({j \in 2..i : rest[j] = Open}) - Cardinality({j \in 2..i : rest[j] = Close})

Ends == {i \in 2..Len(rest) : rest[i] = Close /\ Depth(i) = 0}

Balanced ==
    /\ Has(1, Blank)
    /\ Has(2, Open)
    /\ Ends # {}
    /\ LET end == CHOOSE i \in Ends : \A j \in Ends : i <= j
       IN  Returns(SubSeq(rest, 2, end), AfterBlank(end + 1))

Unbalanced == Has(1, Blank) /\ Has(2, Open) /\ Ends = {} /\ Returns(From(2), <<>>)

\* No structured data: what follows the blank is the message.
Omitted == Has(1, Blank) /\ ~Has(2, Nil) /\ ~Has(2, Open) /\ Returns(<<>>, From(2))

Next == NoBlank \/ NilData \/ Balanced \/ Unbalanced \/ Omitted

Spec == Init /\ [][Next]_vars

-----------------------------------------------------------------------------
\* protocols-syslog-rfc3164-5424-6587.md: structured data is "zero or more" elements and
\* the message "everything after the single SP following" it: the message a conforming
\* sender wrote is the one the parser finds.
MessageComesThrough == stage = "split" /\ meant # Nobodys => message = meant

=============================================================================
