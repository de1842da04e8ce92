------------------------------ MODULE Targets ------------------------------
(***************************************************************************)
(* What one call of a delivery target does (src/ulstp/delivery.py, the    *)
(* four DeliveryTarget classes).  A call takes a batch, a set of events,   *)
(* and ends in one outcome:                                                *)
(*                                                                         *)
(*   sent      events that went out as far as the adapter can see: the     *)
(*             send returned, or the reply names them without an error, or *)
(*             the line was written                                        *)
(*   taken     events the peer, or the spool file, ends up holding         *)
(*   marked    events the adapter itself stamped DELIVERED                 *)
(*   failed    events the adapter stamped FAILED                           *)
(*   returned  events in the list deliver() returns (none when it raises)  *)
(*   raised    an exception left deliver()                                 *)
(*                                                                         *)
(* The order inside a batch is abstracted: "the events before the one that *)
(* raised" is any subset of the others.  The peer, the network and the     *)
(* disk are the environment, so an outcome is chosen from a set; what they *)
(* lose, or deliver late, is decided with the outcome, which nobody sees.  *)
(***************************************************************************)
EXTENDS Naturals, FiniteSets

CONSTANTS
    Events,         \* the events the program ever handles
    Surrogate,      \* those whose text holds a surrogate: strict UTF-8 refuses it
    LoneSurrogate,  \* those with one outside U+DC80..U+DCFF: "surrogateescape" refuses it too
    OddReplies,     \* may a _bulk reply be malformed, or list fewer items than it was sent?
    DiskFaults      \* may the spool file fail with an OSError (disk full, no permission)?

ASSUME TargetsAssumption ==
    /\ IsFiniteSet(Events)
    /\ Surrogate \subseteq Events
    /\ LoneSurrogate \subseteq Surrogate
    /\ OddReplies \in BOOLEAN
    /\ DiskFaults \in BOOLEAN

\* The adapters build_delivery chooses from; QradarTarget.deliver is
\* SyslogTarget.deliver with another serializer, so "syslog" stands for both.
TargetKinds == {"syslog", "elastic", "spool"}

Outcome == [sent : SUBSET Events, taken : SUBSET Events, marked : SUBSET Events,
            failed : SUBSET Events, returned : SUBSET Events, raised : BOOLEAN]

Sent(sent, taken, rest) ==
    [sent |-> sent, taken |-> taken, marked |-> sent, failed |-> rest, returned |-> sent,
     raised |-> FALSE]

Refused(taken, batch) ==
    [sent |-> {}, taken |-> taken, marked |-> {}, failed |-> batch, returned |-> {},
     raised |-> FALSE]

Raised(sent, taken, marked, failed) ==
    [sent |-> sent, taken |-> taken, marked |-> marked, failed |-> failed, returned |-> {},
     raised |-> TRUE]

(***************************************************************************)
(* SyslogTarget / QradarTarget: no connection fails the whole batch; after *)
(* that each send succeeds or fails on its own.  A send that returns says  *)
(* that the kernel took the bytes: the datagram may be lost, the TCP       *)
(* connection may break behind it, and a line may arrive although its send *)
(* timed out, so what the peer takes is any part of what was tried.  A     *)
(* lone surrogate cannot be encoded: UnicodeEncodeError is no OSError, so  *)
(* it leaves deliver() at that event, with the ones before it sent, or     *)
(* failed, and stamped.                                                    *)
(***************************************************************************)
SentInPart(batch) ==
    {Sent(S, T, batch \ S) : S \in SUBSET batch, T \in SUBSET batch}

RaisedAfter(before) ==
    {Raised(S, T, S, before \ S) : S \in SUBSET before, T \in SUBSET before}

SyslogOutcomes(batch) ==
    LET poison == batch \cap LoneSurrogate
    IN  {Refused({}, batch)}
        \cup IF poison = {} THEN SentInPart(batch)
             ELSE UNION {RaisedAfter(before) : before \in SUBSET (batch \ poison)}

(***************************************************************************)
(* ElasticTarget: the body is encoded before the try, so one surrogate in  *)
(* the batch raises and nothing is sent.  A request that fails, or an      *)
(* answer that is late, not 200 or not JSON, fails the batch whatever the  *)
(* server had indexed by then.  In an answered request each item listed    *)
(* with an error fails; everything else, an item the reply does not list   *)
(* included, is claimed delivered.                                         *)
(***************************************************************************)
ItemOutcomes(batch, listed) ==
    {[sent |-> listed \ errors, taken |-> (listed \ errors) \cup unlisted,
      marked |-> batch \ errors, failed |-> errors, returned |-> batch \ errors,
      raised |-> FALSE] :
        errors \in SUBSET listed, unlisted \in SUBSET (batch \ listed)}

FailedRequests(batch) == {Refused(S, batch) : S \in SUBSET batch}

ShortReplies(batch) == UNION {ItemOutcomes(batch, listed) : listed \in SUBSET batch}

MalformedReplies(batch) ==
    {Raised(M, S, M, {}) : S \in SUBSET batch, M \in SUBSET batch}

ElasticOutcomes(batch) ==
    IF batch \cap Surrogate # {}
    THEN {Raised({}, {}, {}, {})}
    ELSE FailedRequests(batch) \cup ItemOutcomes(batch, batch)
         \cup (IF OddReplies THEN ShortReplies(batch) \cup MalformedReplies(batch) ELSE {})

(***************************************************************************)
(* SpoolTarget: what strict UTF-8 refuses is stamped FAILED and skipped,   *)
(* the rest is written and returned but not stamped.  An OSError while the *)
(* file is opened, written, flushed or closed leaves deliver().            *)
(***************************************************************************)
SpoolOutcomes(batch) ==
    LET refused == batch \cap Surrogate
        good == batch \ Surrogate
    IN  {[sent |-> good, taken |-> good, marked |-> {}, failed |-> refused,
          returned |-> good, raised |-> FALSE]}
        \cup {Raised(S, S, {}, F) : S \in {T \in SUBSET good : DiskFaults},
                                 F \in {{}, refused}}

Outcomes(kind, batch) ==
    CASE kind = "syslog"  -> SyslogOutcomes(batch)
      [] kind = "elastic" -> ElasticOutcomes(batch)
      [] kind = "spool"   -> SpoolOutcomes(batch)

\* A syslog peer says nothing of what it took; the others do, as far as they are sound.
Answers(kind) == kind # "syslog"

\* May a call with these events raise after some of them went out?
MayRaise(kind, batch) ==
    \/ kind = "syslog" /\ batch \cap LoneSurrogate # {}
    \/ kind = "elastic" /\ OddReplies
    \/ kind = "spool" /\ DiskFaults

(***************************************************************************)
(* The fallback call spool.deliver([e]) of _spool_event: the line is       *)
(* written, the event is refused, or the OSError escapes, and then the     *)
(* line may or may not have reached the disk.                              *)
(***************************************************************************)
SpoolResults(e) ==
    {[ending |-> IF e \in Surrogate THEN "refused" ELSE "written",
      lines |-> IF e \in Surrogate THEN 0 ELSE 1]}
    \cup {[ending |-> "oserror", lines |-> n] :
            n \in {k \in {0, 1} : DiskFaults /\ (e \in Surrogate => k = 0)}}

=============================================================================
