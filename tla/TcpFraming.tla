----------------------------- MODULE TcpFraming -----------------------------
(***************************************************************************)
(* One TCP connection: the peer and the byte stream it writes, the framer  *)
(* that cuts it into messages (src/ulstp/framing.py, TcpFramer and         *)
(* decode_message) and the thread that serves the connection               *)
(* (src/ulstp/collectors.py, TcpCollector._handle and _emit_frame).        *)
(*                                                                         *)
(* A byte is its number.  What matters of a message is where its digits,   *)
(* spaces and line ends are, so the model's messages are short.  The pull  *)
(* of one frame is one step, as is the emission of one: feed() and the     *)
(* loop around frames touch nothing another thread reads.                  *)
(***************************************************************************)
EXTENDS Integers, Sequences, FiniteSets, SequencesExt

CONSTANTS
    Messages,       \* what a peer may send, sequences of bytes
    Styles,         \* the framing styles of the peers explored
    MaxMessage,     \* limits.max_message_bytes
    MaxPrefix,      \* digits in an octet count, 10 in the code
    Headroom,       \* what the buffer may hold beyond MaxMessage, 16 in the code
    RecvSize,       \* bytes one recv() may return, 65536 in the code
    MaxSent,        \* bound: messages per connection
    AnyFirst        \* may the first message look like the other style?

LF == 10
CR == 13
SP == 32
Digits == 48..57

ASSUME FramingAssumption ==
    /\ Messages \subseteq Seq(0..255)
    /\ Styles \subseteq {"octet", "newline"}
    /\ MaxMessage \in Nat \ {0}
    /\ MaxPrefix \in Nat \ {0}
    /\ Headroom \in Nat /\ Headroom > MaxPrefix
    /\ RecvSize \in Nat \ {0}
    /\ MaxSent \in Nat
    /\ AnyFirst \in BOOLEAN

VARIABLES
    peer,       \* the style the peer uses, which RFC 6587 lets it choose
    sent,       \* the messages it has written
    open,       \* it has not closed its side
    wire,       \* bytes written and not yet received
    buffer,     \* TcpFramer._buffer
    style,      \* TcpFramer._style
    frames,     \* TcpFramer.frames
    pc,         \* where the connection's thread is
    ending,     \* why it ended
    stop,       \* TcpCollector._stop
    emitted,    \* messages put in the pipeline's queue
    metrics     \* the collector's counters

peerSide == <<peer, sent, open>>
framer == <<buffer, style, frames>>
vars == <<peerSide, wire, framer, pc, ending, stop, emitted, metrics>>

MetricNames == {"received", "overflow", "frame_error", "decode_error"}

Init ==
    /\ peer \in Styles
    /\ sent = <<>>
    /\ open = TRUE
    /\ wire = <<>>
    /\ buffer = <<>>
    /\ style = "unknown"
    /\ frames = <<>>
    /\ pc = "loop"
    /\ ending = "none"
    /\ stop = FALSE
    /\ emitted = <<>>
    /\ metrics = [m \in MetricNames |-> 0]

Count_Down(m, name) == [m EXCEPT ![name] = @ - 1]
Count(m, name) == [m EXCEPT ![name] = @ + 1]

-----------------------------------------------------------------------------
(* The peer, a conforming sender of one style.                             *)

Value(digits) == FoldLeft(LAMBDA n, digit : 10 * n + (digit - 48), 0, digits)

\* The octet counts of a sender start with no zero, and have MaxPrefix digits at most.
Counts == {c \in UNION {[1..k -> Digits] : k \in 1..MaxPrefix} : c[1] # 48}

Wrappings(by, m) ==
    IF by = "octet" THEN {c \o <<SP>> \o m : c \in {d \in Counts : Value(d) = Len(m)}}
                      ELSE {m \o <<LF>>, m \o <<CR, LF>>}

FirstAt(byte, bytes) == SelectInSeq(bytes, LAMBDA b : b = byte)
SpaceAt(bytes) == FirstAt(SP, bytes)
LineEndAt(bytes) == FirstAt(LF, bytes)

\* The bytes before the first space are an octet count.
HasCount(bytes) ==
    LET n == SpaceAt(bytes) - 1
    IN  n \in 1..MaxPrefix /\ \A i \in 1..n : bytes[i] \in Digits

CountOf(bytes) == Value(SubSeq(bytes, 1, SpaceAt(bytes) - 1))

Sendable(by, m) ==
    IF by = "octet" THEN m # <<>>
                      ELSE LineEndAt(m) = 0 /\ (m # <<>> => m[Len(m)] # CR)

\* The framer cannot take the style of a connection that begins with m for the other.
Telltale(by, m) == IF by = "octet" THEN LineEndAt(m) = 0 ELSE ~HasCount(m)

PeerSends(m) ==
    /\ open
    /\ pc # "closed"
    /\ Len(sent) < MaxSent
    /\ Sendable(peer, m)
    /\ sent # <<>> \/ AnyFirst \/ Telltale(peer, m)
    /\ sent' = Append(sent, m)
    /\ \E bytes \in Wrappings(peer, m) : wire' = wire \o bytes
    /\ UNCHANGED <<peer, open, framer, pc, ending, stop, emitted, metrics>>

PeerCloses ==
    /\ open
    /\ open' = FALSE
    /\ UNCHANGED <<peer, sent, wire, framer, pc, ending, stop, emitted, metrics>>

-----------------------------------------------------------------------------
(* The connection's thread.                                                *)

\* The thread ends: the connection is closed, what its locals hold is gone.
End(reason) ==
    /\ pc' = "closed"
    /\ ending' = reason
    /\ wire' = <<>>
    /\ buffer' = <<>>
    /\ frames' = <<>>
    /\ UNCHANGED <<peerSide, style, stop>>

CollectorStops ==
    /\ ~stop
    /\ stop' = TRUE
    /\ UNCHANGED <<peerSide, wire, framer, pc, ending, emitted, metrics>>

LoopTop ==
    /\ pc = "loop"
    /\ ~stop
    /\ pc' = "recv"
    /\ UNCHANGED <<peerSide, wire, framer, ending, stop, emitted, metrics>>

LoopEnds ==
    /\ pc = "loop"
    /\ stop
    /\ End("stopped")
    /\ UNCHANGED <<emitted, metrics>>

RecvTimesOut ==
    /\ pc = "recv"
    /\ wire = <<>>
    /\ open
    /\ pc' = "loop"
    /\ UNCHANGED <<peerSide, wire, framer, ending, stop, emitted, metrics>>

RecvEnd ==
    /\ pc = "recv"
    /\ wire = <<>>
    /\ ~open
    /\ End("eof")
    /\ UNCHANGED <<emitted, metrics>>

\* ConnectionResetError is no timeout: it leaves the thread.
RecvFails ==
    /\ pc = "recv"
    /\ End("reset")
    /\ UNCHANGED <<emitted, metrics>>

\* recv() returns any chunk of what is in flight; feed() appends it, whatever its size.
Recv(n) ==
    /\ pc = "recv"
    /\ n <= Len(wire)
    /\ buffer' = buffer \o SubSeq(wire, 1, n)
    /\ wire' = SubSeq(wire, n + 1, Len(wire))
    /\ pc' = "feed"
    /\ UNCHANGED <<peerSide, style, frames, ending, stop, emitted, metrics>>

\* The guard on the buffer comes after the bytes are in it.
WithinGuard_Off(bytes) == TRUE
WithinGuard(bytes) == Len(bytes) <= MaxMessage + Headroom

FeedPasses ==
    /\ pc = "feed"
    /\ WithinGuard(buffer)
    /\ pc' = "extract"
    /\ UNCHANGED <<peerSide, wire, framer, ending, stop, emitted, metrics>>

\* feed() leaves an error in the framer, and buffer and frames as they are.
FeedRefuses ==
    /\ pc = "feed"
    /\ ~WithinGuard(buffer)
    /\ pc' = "failed"
    /\ UNCHANGED <<peerSide, wire, framer, ending, stop, emitted, metrics>>

\* _handle() finds the error: the frames cut in the same feed() are dropped with the rest.
FrameErrorEnds ==
    /\ pc = "failed"
    /\ End("error")
    /\ metrics' = Count(metrics, "frame_error")
    /\ UNCHANGED emitted

-----------------------------------------------------------------------------
(* _extract(): octet frames unless the style is known to be newline; lines *)
(* unless it is known to be octet, and so also while a first octet frame   *)
(* is incomplete.                                                          *)

MayBeOctet == style # "newline" /\ HasCount(buffer)
CountOK == CountOf(buffer) \in 1..MaxMessage
OctetComplete == Len(buffer) - SpaceAt(buffer) >= CountOf(buffer)

Without_OneMore(n) == SubSeq(buffer, n + 2, Len(buffer))
Without(n) == SubSeq(buffer, n + 1, Len(buffer))

TakeOctetFrame ==
    /\ pc = "extract"
    /\ MayBeOctet
    /\ CountOK
    /\ OctetComplete
    /\ LET last == SpaceAt(buffer) + CountOf(buffer)
       IN  /\ frames' = Append(frames, SubSeq(buffer, SpaceAt(buffer) + 1, last))
           /\ buffer' = Without(last)
    /\ style' = "octet"
    /\ UNCHANGED <<peerSide, wire, pc, ending, stop, emitted, metrics>>

\* FrameError, which feed() catches and keeps as its error.
RefuseCount ==
    /\ pc = "extract"
    /\ MayBeOctet
    /\ ~CountOK
    /\ pc' = "failed"
    /\ UNCHANGED <<peerSide, wire, framer, ending, stop, emitted, metrics>>

LineReady == style # "octet" /\ LineEndAt(buffer) # 0

TrimCR_Never(line) == line
TrimCR(line) ==
    IF line # <<>> /\ line[Len(line)] = CR THEN SubSeq(line, 1, Len(line) - 1) ELSE line

TakeLine ==
    /\ pc = "extract"
    /\ MayBeOctet => CountOK /\ ~OctetComplete
    /\ LineReady
    /\ LET last == LineEndAt(buffer)
       IN  /\ frames' = Append(frames, TrimCR(SubSeq(buffer, 1, last - 1)))
           /\ buffer' = Without(last)
    /\ style' = "newline"
    /\ UNCHANGED <<peerSide, wire, pc, ending, stop, emitted, metrics>>

NoMoreFrames ==
    /\ pc = "extract"
    /\ MayBeOctet => CountOK /\ ~OctetComplete
    /\ ~LineReady
    /\ pc' = "emit"
    /\ UNCHANGED <<peerSide, wire, framer, ending, stop, emitted, metrics>>

-----------------------------------------------------------------------------
(* _emit_frame() and CollectorStage.emit(). *)

Fits(m) == Len(m) <= MaxMessage

EmitFrame ==
    /\ pc = "emit"
    /\ frames # <<>>
    /\ Fits(Head(frames))
    /\ emitted' = Append(emitted, Head(frames))
    /\ frames' = Tail(frames)
    /\ metrics' = Count(metrics, "received")
    /\ UNCHANGED <<peerSide, wire, buffer, style, pc, ending, stop>>

EmitTooLong ==
    /\ pc = "emit"
    /\ frames # <<>>
    /\ ~Fits(Head(frames))
    /\ frames' = Tail(frames)
    /\ metrics' = Count(metrics, "decode_error")
    /\ UNCHANGED <<peerSide, wire, buffer, style, pc, ending, stop, emitted>>

\* The queue stays full for five seconds: CollectorError leaves the thread.
Overflowed_Uncounted == Count(metrics, "received")
Overflowed == Count(Count(metrics, "received"), "overflow")

EmitOverflows ==
    /\ pc = "emit"
    /\ frames # <<>>
    /\ Fits(Head(frames))
    /\ End("overflow")
    /\ metrics' = Overflowed
    /\ UNCHANGED emitted

EmitDone ==
    /\ pc = "emit"
    /\ frames = <<>>
    /\ pc' = "loop"
    /\ UNCHANGED <<peerSide, wire, framer, ending, stop, emitted, metrics>>

-----------------------------------------------------------------------------
Loop == LoopTop \/ LoopEnds

Receive ==
    \/ RecvTimesOut
    \/ RecvEnd
    \/ \E n \in 1..RecvSize : Recv(n)

Feed == FeedPasses \/ FeedRefuses \/ FrameErrorEnds

Extract == TakeOctetFrame \/ RefuseCount \/ TakeLine \/ NoMoreFrames

Emit == EmitFrame \/ EmitTooLong \/ EmitDone

Next ==
    \/ \E m \in Messages : PeerSends(m)
    \/ PeerCloses
    \/ CollectorStops
    \/ Loop
    \/ Receive
    \/ RecvFails
    \/ Feed
    \/ Extract
    \/ Emit
    \/ EmitOverflows

\* The thread runs, and TCP delivers what was written: a connection with bytes in
\* flight is not left to time out for ever.
Fairness ==
    /\ WF_vars(Loop)
    /\ WF_vars(Receive)
    /\ WF_vars(Feed)
    /\ WF_vars(Extract)
    /\ WF_vars(Emit)

Spec == Init /\ [][Next]_vars
FairSpec == Spec /\ Fairness

-----------------------------------------------------------------------------
(* Properties. *)

Bytes == 0..255

\* Buffer and frames hold bytes, the style is undecided or one of the two, the thread is at
\* a place of _handle, and no counter of the collector goes below zero.
TypeOK ==
    /\ peer \in Styles
    /\ sent \in Seq(Messages)
    /\ open \in BOOLEAN
    /\ wire \in Seq(Bytes)
    /\ buffer \in Seq(Bytes)
    /\ style \in {"unknown", "octet", "newline"}
    /\ frames \in Seq(Seq(Bytes))
    /\ pc \in {"loop", "recv", "feed", "failed", "extract", "emit", "closed"}
    /\ ending \in {"none", "eof", "stopped", "error", "reset", "overflow"}
    /\ stop \in BOOLEAN
    /\ emitted \in Seq(Seq(Bytes))
    /\ metrics \in [MetricNames -> Nat]

\* However the stream is cut into chunks, the messages come out whole, in order and
\* once (module MessageStream).
Stream == INSTANCE MessageStream WITH
    Message <- Messages,
    got <- emitted,
    skipped <- metrics["decode_error"],
    ended <- pc = "closed"

KeepsOrder == Stream!Spec

\* A connection that ends before all its messages came out shows it: the peer broke it
\* off, the collector was stopped, or an error was counted for it.
LossIsCounted ==
    pc = "closed" /\ Len(emitted) + metrics["decode_error"] < Len(sent) =>
        \/ ending \in {"stopped", "reset"}
        \/ metrics["frame_error"] + metrics["overflow"] = 1

\* What a connection makes the process hold is bounded, whatever the peer sends: the bytes
\* of the buffer and of the frames not yet emitted are together within the guard once feed()
\* let them pass, and never more than one recv() beyond it: the chunk that feed() appended
\* before it tested, and that stays while the thread deals with the error.
PlacesIn(list) == UNION {{i} \X DOMAIN list[i] : i \in DOMAIN list}
Held == Len(buffer) + Cardinality(PlacesIn(frames))

HoldsLittle ==
    /\ Held <= MaxMessage + Headroom + RecvSize
    /\ pc \notin {"feed", "failed"} => Held <= MaxMessage + Headroom

\* A message the peer sent comes out, or is passed over, or the connection ends.
MessagesArrive ==
    \A k \in 1..MaxSent :
        Len(sent) >= k ~> (Len(emitted) + metrics["decode_error"] >= k \/ pc = "closed")

-----------------------------------------------------------------------------
(* framing.py: "RFC 6587 auto-detection per connection [...] deterministic, never   *)
(* switches styles mid-frame": the messages that came out are messages of the peer. *)
FramesAreMessages == \A i \in 1..Len(emitted) : \E j \in 1..Len(sent) : emitted[i] = sent[j]

=============================================================================
