------------------------------ MODULE Runtime ------------------------------
(***************************************************************************)
(* The running process (src/ulstp/runtime.py): collector threads put       *)
(* events in the pipeline's bounded queue, the pipeline's one worker takes *)
(* them out, processes and records them (history and sink), the API's      *)
(* handlers process and record theirs on their own, and the sink is the    *)
(* delivery manager's submit().  Main starts all of it and stops it again, *)
(* collectors first, then delivery, then the API, then the pipeline.       *)
(* Or main replays a file: it starts the pipeline alone, without a sink,   *)
(* feeds it the lines, and prints the history when the queue is empty.     *)
(*                                                                         *)
(* The delivery manager is module Delivery itself, with the pipeline's     *)
(* worker and the API's handler as its submitters.  Each of its steps is a *)
(* step here; the calls that cross the border are joint steps.             *)
(***************************************************************************)
EXTENDS Delivery

CONSTANTS
    Udp, Files,         \* collectors with one thread each
    Connections,        \* for each TCP collector, the connections its listener may accept
    Replay,             \* the replay of a file, if main may do one
    HistorySize         \* how many events Pipeline._history keeps

Tcp == DOMAIN Connections
Collectors == Udp \cup Tcp \cup Files

\* A TCP collector has a thread that accepts, and one for each connection.
ThreadsOf(c) == {c} \cup (IF c \in Tcp THEN Connections[c] ELSE {})
Connected == UNION {Connections[c] : c \in Tcp}
Feeds == Collectors \cup Connected \cup Replay

ASSUME RuntimeAssumption ==
    /\ {"pipeline", "api"} = Submitters
    /\ "api" \notin Feeds
    /\ \A c, d \in Collectors : c # d => ThreadsOf(c) \cap ThreadsOf(d) = {}
    /\ HistorySize \in Nat \ {0}

VARIABLES
    main,       \* where Runtime.start, Runtime.stop or cmd_replay is
    joining,    \* the collector whose threads stop() joins, if any
    cstop,      \* each collector's _stop flag
    cpc,        \* where each of the collectors' threads is
    chold,      \* the event each of them is emitting
    inq,        \* Pipeline.in_queue
    pstop,      \* Pipeline._stop
    ppc,        \* where the pipeline's worker is
    phold,      \* the event it processes
    apc,        \* where the API's handler is
    ahold,      \* the event it processes
    history,    \* Pipeline._history
    counted     \* events_received and events_queue_overflow

\* What an observer knows.
VARIABLES
    arrived,    \* <<thread, event>> in the order the events were received
    rejected,   \* events the full queue turned away
    abandoned,  \* events of API requests that ended in an exception
    shown       \* events recorded where there is no sink

collecting == <<joining, cstop, cpc, chold>>
processing == <<pstop, ppc, phold>>
serving == <<apc, ahold>>
recorded == <<history>>
observed == <<counted, arrived, rejected, abandoned, shown>>
intake == <<main, collecting, inq, processing, serving, recorded, observed>>
allVars == <<intake, vars>>

Arrived == {arrived[i][2] : i \in 1..Len(arrived)}

\* The next event to arrive: an event is named by a uuid of its own when it is received.
Fresh ==
    IF Events \subseteq Arrived THEN {} ELSE {CHOOSE e \in Events : e \notin Arrived}

RuntimeInit ==
    /\ Init
    /\ main = "boot"
    /\ joining = {}
    /\ cstop = [c \in Collectors |-> FALSE]
    /\ cpc = [c \in Feeds |-> "new"]
    /\ chold = [c \in Feeds |-> {}]
    /\ inq = <<>>
    /\ pstop = FALSE
    /\ ppc = "new"
    /\ phold = {}
    /\ apc = "closed"
    /\ ahold = {}
    /\ history = <<>>
    /\ counted = [received |-> 0, overflow |-> 0]
    /\ arrived = <<>>
    /\ rejected = {}
    /\ abandoned = {}
    /\ shown = {}

-----------------------------------------------------------------------------
(* Runtime.start(): pipeline, collectors, delivery, API. *)

StartPipeline ==
    /\ main = "boot"
    /\ main' = "collectors up"
    /\ ppc' = "loop"
    /\ UNCHANGED <<collecting, inq, pstop, phold, serving, recorded, observed, vars>>

StartCollector(c) ==
    /\ main = "collectors up"
    /\ cpc[c] = "new"
    /\ cpc' = [cpc EXCEPT ![c] = "loop"]
    /\ UNCHANGED <<main, joining, cstop, chold, inq, processing, serving, recorded, observed,
                   vars>>

StartRest ==
    /\ main = "collectors up"
    /\ \A c \in Collectors : cpc[c] # "new"
    /\ Start
    /\ main' = "up"
    /\ apc' = "idle"
    /\ UNCHANGED <<collecting, inq, processing, ahold, recorded, observed>>

-----------------------------------------------------------------------------
(* The collectors' threads and CollectorStage.emit(). *)

Told(f) == \E c \in Collectors : f \in ThreadsOf(c) /\ cstop[c]

CollectorLoop(f) ==
    /\ Running
    /\ cpc[f] = "loop"
    /\ cpc' = [cpc EXCEPT ![f] = IF Told(f) THEN "ended" ELSE IF f \in Tcp THEN @ ELSE "recv"]
    /\ UNCHANGED <<main, joining, cstop, chold, inq, processing, serving, recorded, observed,
                   vars>>

\* _accept_loop() starts a connection's thread, also when the flag was set after it looked.
Accept(c, f) ==
    /\ Running
    /\ cpc[c] = "loop"
    /\ cpc[f] = "new"
    /\ cpc' = [cpc EXCEPT ![f] = "loop"]
    /\ UNCHANGED <<main, joining, cstop, chold, inq, processing, serving, recorded, observed,
                   vars>>

\* A datagram, a line or a frame; it is counted before it is put, and no lock spans the two.
Receive(f, e) ==
    /\ Running
    /\ cpc[f] = "recv"
    /\ chold' = [chold EXCEPT ![f] = {e}]
    /\ cpc' = [cpc EXCEPT ![f] = "put"]
    /\ arrived' = Append(arrived, <<f, e>>)
    /\ counted' = [counted EXCEPT !.received = @ + 1]
    /\ UNCHANGED <<main, joining, cstop, inq, processing, serving, recorded, rejected,
                   abandoned, shown, vars>>

NothingReceived(f) ==
    /\ Running
    /\ cpc[f] = "recv"
    /\ cpc' = [cpc EXCEPT ![f] = "loop"]
    /\ UNCHANGED <<main, joining, cstop, chold, inq, processing, serving, recorded, observed,
                   vars>>

\* The end of the file, or the end of a connection: closed, broken off or badly framed.
EndOfInput(f) ==
    /\ Running
    /\ f \in Files \cup Connected \cup Replay
    /\ cpc[f] = "recv"
    /\ cpc' = [cpc EXCEPT ![f] = "ended"]
    /\ UNCHANGED <<main, joining, cstop, chold, inq, processing, serving, recorded, observed,
                   vars>>

\* A connection may have more frames of the same chunk, and then does not look at
\* its flag before the next; a replay has none.
Emit(f, e) ==
    /\ Running
    /\ cpc[f] = "put"
    /\ e \in chold[f]
    /\ Len(inq) < QueueSize
    /\ inq' = Append(inq, e)
    /\ chold' = [chold EXCEPT ![f] = {}]
    /\ \E next \in {"loop", "recv"} :
          /\ next = "loop" => f \notin Replay
          /\ next = "recv" => f \in Connected \cup Replay
          /\ cpc' = [cpc EXCEPT ![f] = next]
    /\ UNCHANGED <<main, joining, cstop, processing, serving, recorded, observed, vars>>

\* CollectorError leaves the thread: it ends a connection, but also a UDP or file collector,
\* and a replay.
Rejected_Uncounted == counted
Rejected_Down == [counted EXCEPT !.overflow = @ - 1]
Rejected == [counted EXCEPT !.overflow = @ + 1]

EmitOverflows(f) ==
    /\ Running
    /\ cpc[f] = "put"
    /\ Len(inq) = QueueSize
    /\ rejected' = rejected \cup chold[f]
    /\ counted' = Rejected
    /\ chold' = [chold EXCEPT ![f] = {}]
    /\ cpc' = [cpc EXCEPT ![f] = "dead"]
    /\ UNCHANGED <<main, joining, cstop, inq, processing, serving, recorded, arrived,
                   abandoned, shown, vars>>

-----------------------------------------------------------------------------
(* The pipeline's worker, and _record(). *)

Replaying == \E r \in Replay : cpc[r] # "new"

PipelineLoop ==
    /\ Running
    /\ ppc = "loop"
    /\ ppc' = IF pstop THEN "ended" ELSE "get"
    /\ UNCHANGED <<main, collecting, inq, pstop, phold, serving, recorded, observed, vars>>

PipelineGet ==
    /\ Running
    /\ ppc = "get"
    /\ inq # <<>>
    /\ phold' = {Head(inq)}
    /\ inq' = Tail(inq)
    /\ ppc' = "process"
    /\ UNCHANGED <<main, collecting, pstop, serving, recorded, observed, vars>>

PipelineGetTimesOut ==
    /\ Running
    /\ ppc = "get"
    /\ inq = <<>>
    /\ ppc' = "loop"
    /\ UNCHANGED <<main, collecting, inq, pstop, phold, serving, recorded, observed, vars>>

\* _process_event returns or raises: either way the event is recorded.
AfterProcess_Raised == {"record", "loop"}
AfterProcess == {"record"}

PipelineProcess ==
    /\ Running
    /\ ppc = "process"
    /\ ppc' \in AfterProcess
    /\ UNCHANGED <<main, collecting, inq, pstop, phold, serving, recorded, observed, vars>>

\* deque(maxlen=history_size).append, under the lock; then the sink.
Remembered_AtFront(e) == <<e>> \o history
Remembered(e) ==
    LET all == Append(history, e)
    IN  IF Len(all) > HistorySize THEN Tail(all) ELSE all

Record(s, e) ==
    /\ history' = Remembered(e)
    /\ SubmitCall(s, e)

PipelineRecord(e) ==
    /\ ppc = "record"
    /\ ~Replaying
    /\ e \in phold
    /\ Record("pipeline", e)
    /\ phold' = {}
    /\ ppc' = "sink"
    /\ UNCHANGED <<main, collecting, inq, pstop, serving, observed>>

\* A replay has no sink: build_delivery() is not called.
PipelineRecordOnly(e) ==
    /\ ppc = "record"
    /\ Replaying
    /\ e \in phold
    /\ history' = Remembered(e)
    /\ shown' = shown \cup {e}
    /\ phold' = {}
    /\ ppc' = "loop"
    /\ UNCHANGED <<main, collecting, inq, pstop, serving, counted, arrived, rejected, abandoned,
                   vars>>

PipelineRecorded ==
    /\ Running
    /\ ppc = "sink"
    /\ pc["pipeline"] = "idle"
    /\ ppc' = "loop"
    /\ UNCHANGED <<main, collecting, inq, pstop, phold, serving, recorded, observed, vars>>

-----------------------------------------------------------------------------
(* An API request: process_text() in the handler's thread. *)

ApiParse(e) ==
    /\ Running
    /\ apc = "idle"
    /\ ahold' = {e}
    /\ apc' = "process"
    /\ arrived' = Append(arrived, <<"api", e>>)
    /\ counted' = [counted EXCEPT !.received = @ + 1]
    /\ UNCHANGED <<main, collecting, inq, processing, recorded, rejected, abandoned, shown,
                   vars>>

\* A handler that outlives shutdown() is the last of its kind.
NextRequest == IF main \in {"pipeline", "done"} THEN "closed" ELSE "idle"

\* process_text has no handler: an exception ends the request before _record.
ApiRaises ==
    /\ Running
    /\ apc = "process"
    /\ abandoned' = abandoned \cup ahold
    /\ ahold' = {}
    /\ apc' = NextRequest
    /\ UNCHANGED <<main, collecting, inq, processing, recorded, counted, arrived, rejected,
                   shown, vars>>

ApiRecord(e) ==
    /\ apc = "process"
    /\ e \in ahold
    /\ Record("api", e)
    /\ ahold' = {}
    /\ apc' = "sink"
    /\ UNCHANGED <<main, collecting, inq, processing, observed>>

ApiAnswers ==
    /\ Running
    /\ apc = "sink"
    /\ pc["api"] = "idle"
    /\ apc' = NextRequest
    /\ UNCHANGED <<main, collecting, inq, processing, ahold, recorded, observed, vars>>

-----------------------------------------------------------------------------
(* Runtime.stop(). *)

StopRequested ==
    /\ main = "up"
    /\ main' = "collectors"
    /\ UNCHANGED <<collecting, inq, processing, serving, recorded, observed, vars>>

StopCollector(c) ==
    /\ main = "collectors"
    /\ joining = {}
    /\ ~cstop[c]
    /\ cstop' = [cstop EXCEPT ![c] = TRUE]
    /\ joining' = {c}
    /\ UNCHANGED <<main, cpc, chold, inq, processing, serving, recorded, observed, vars>>

\* join(timeout=5): a put() lasts up to 5 s from where it began, a connection's recv() 30 s.
Outlasts(f) == cpc[f] = "put" \/ (f \in Connected /\ cpc[f] = "recv")

\* One thread after the other; a connection that was never accepted has none.
CollectorJoined(c) ==
    /\ c \in joining
    /\ \A f \in ThreadsOf(c) : cpc[f] \in {"new", "ended", "dead"} \/ Outlasts(f)
    /\ joining' = {}
    /\ UNCHANGED <<main, cstop, cpc, chold, inq, processing, serving, recorded, observed,
                   vars>>

StopDelivery ==
    /\ main = "collectors"
    /\ joining = {}
    /\ \A c \in Collectors : cstop[c]
    /\ Stop
    /\ main' = "delivery"
    /\ UNCHANGED <<collecting, inq, processing, serving, recorded, observed>>

StopApiAndPipeline ==
    /\ main = "delivery"
    /\ pc["main"] = "stopped"
    /\ main' = "pipeline"
    /\ apc' = IF apc = "idle" THEN "closed" ELSE apc
    /\ pstop' = TRUE
    /\ UNCHANGED <<collecting, inq, ppc, phold, ahold, recorded, observed, vars>>

\* join(timeout=10): a parse, or the sink with its put and spool write, can last longer.
PipelineJoined ==
    /\ main = "pipeline"
    /\ ppc \in {"ended", "process", "sink"}
    /\ main' = "done"
    /\ UNCHANGED <<collecting, inq, processing, serving, recorded, observed, vars>>

\* The end of the process, after stop() or the exception that left it.
Exit ==
    /\ main = "done" \/ pc["main"] = "aborted"
    /\ Halt
    /\ inq' = <<>>
    /\ chold' = [c \in Feeds |-> {}]
    /\ phold' = {}
    /\ ahold' = {}
    /\ UNCHANGED <<main, joining, cstop, cpc, pstop, ppc, apc, recorded, observed>>

-----------------------------------------------------------------------------
(* cmd_replay(): no collector, no delivery, and an API that is built and not started. *)

StartReplay(r) ==
    /\ main = "boot"
    /\ main' = "replay"
    /\ ppc' = "loop"
    /\ cpc' = [cpc EXCEPT ![r] = "recv"]
    /\ UNCHANGED <<joining, cstop, chold, inq, pstop, phold, serving, recorded, observed, vars>>

\* A line longer than the limit: LimitExceededError leaves replay() and cmd_replay().
ReplayRefuses(r) ==
    /\ Running
    /\ cpc[r] = "recv"
    /\ cpc' = [cpc EXCEPT ![r] = "dead"]
    /\ UNCHANGED <<main, joining, cstop, chold, inq, processing, serving, recorded, observed,
                   vars>>

\* An error leaves main before runtime.stop().
ReplayFails(r) ==
    /\ main = "replay"
    /\ cpc[r] = "dead"
    /\ main' = "done"
    /\ UNCHANGED <<collecting, inq, processing, serving, recorded, observed, vars>>

\* wait_until_drained() returns when it saw the queue empty or after 30 s; the history is
\* printed and runtime.stop() called.
ReplayPrints(r) ==
    /\ main = "replay"
    /\ cpc[r] = "ended"
    /\ main' = "pipeline"
    /\ pstop' = TRUE
    /\ UNCHANGED <<collecting, inq, ppc, phold, serving, recorded, observed, vars>>

ReplayStep(r) ==
    \/ EndOfInput(r)
    \/ \E e \in Events : Emit(r, e)
    \/ EmitOverflows(r)
    \/ ReplayFails(r)
    \/ ReplayPrints(r)

-----------------------------------------------------------------------------
Collect(f) ==
    \/ CollectorLoop(f)
    \/ NothingReceived(f)
    \/ EndOfInput(f)
    \/ \E e \in Events : Emit(f, e)
    \/ EmitOverflows(f)

Process ==
    \/ PipelineLoop
    \/ PipelineGet
    \/ PipelineGetTimesOut
    \/ PipelineProcess
    \/ \E e \in Events : PipelineRecord(e) \/ PipelineRecordOnly(e)
    \/ PipelineRecorded

Serve ==
    \/ ApiRaises
    \/ \E e \in Events : ApiRecord(e)
    \/ ApiAnswers

Boot == StartPipeline \/ (\E c \in Collectors : StartCollector(c)) \/ StartRest

Shutdown ==
    \/ \E c \in Collectors : StopCollector(c) \/ CollectorJoined(c)
    \/ StopDelivery
    \/ StopApiAndPipeline
    \/ PipelineJoined

\* The steps of the delivery manager that no other component takes part in.
PutInDeliveryQueue(s) == (\E e \in Events : PutInQueue(s, e)) \/ PutTimesOut(s)

DeliveryStep ==
    /\ \/ \E s \in Submitters : PutInDeliveryQueue(s)
       \/ WorkerRun
       \/ \E t \in Deliverers : DeliverBatch(t)
       \/ \E t \in Threads : SpoolEvent(t)
       \/ StopReturns
    /\ UNCHANGED intake

RuntimeNext ==
    \/ Boot
    \/ \E f \in Collectors \cup Connected : Collect(f) \/ \E e \in Fresh : Receive(f, e)
    \/ \E c \in Tcp : \E f \in Connections[c] : Accept(c, f)
    \/ Process
    \/ Serve \/ \E e \in Fresh : ApiParse(e)
    \/ StopRequested
    \/ Shutdown
    \/ \E r \in Replay :
          \/ StartReplay(r)
          \/ \E e \in Fresh : Receive(r, e)
          \/ ReplayRefuses(r)
          \/ ReplayStep(r)
    \/ DeliveryStep
    \/ Exit

RuntimeSpec == RuntimeInit /\ [][RuntimeNext]_allVars

\* A submit() call between its first step and its return, which belong to the caller too.
Submitting(s) == (PutInDeliveryQueue(s) \/ SpoolEvent(s)) /\ UNCHANGED intake

\* The threads that hold a collector's event run: its own, a replay, the pipeline's worker.
\* Nobody has to send an event or press Ctrl+C, and the API's handlers and the delivery
\* worker may hang for ever.
RuntimeFairness ==
    /\ \A f \in Udp \cup Files \cup Connected : WF_allVars(Collect(f))
    /\ \A r \in Replay : WF_allVars(ReplayStep(r))
    /\ WF_allVars(Process \/ Submitting("pipeline"))

RuntimeFairSpec == RuntimeSpec /\ RuntimeFairness

-----------------------------------------------------------------------------
(* Properties. *)

Upstream == Elements(inq) \cup phold \cup ahold \cup UNION {chold[c] : c \in Feeds}

\* Every thread is at a place of its loop, holds events only, and no counter of the stage
\* goes below zero.
RuntimeTypeOK ==
    /\ main \in {"boot", "collectors up", "up", "collectors", "delivery", "pipeline", "done",
                "replay"}
    /\ joining \in SUBSET Collectors
    /\ cstop \in [Collectors -> BOOLEAN]
    /\ cpc \in [Feeds -> {"new", "loop", "recv", "put", "ended", "dead"}]
    /\ chold \in [Feeds -> SUBSET Events]
    /\ inq \in Seq(Events)
    /\ pstop \in BOOLEAN
    /\ ppc \in {"new", "loop", "get", "process", "record", "sink", "ended"}
    /\ phold \in SUBSET Events
    /\ apc \in {"closed", "idle", "process", "sink"}
    /\ ahold \in SUBSET Events
    /\ history \in Seq(Events)
    /\ counted \in [received : Nat, overflow : Nat]
    /\ arrived \in Seq((Feeds \cup {"api"}) \X Events)
    /\ rejected \in SUBSET Events
    /\ abandoned \in SUBSET Events
    /\ shown \in SUBSET Events

\* While the process lives, a received event is in exactly one place: on its way to the
\* pipeline, handed to delivery, turned away by the full queue, in a request that failed,
\* or recorded by a replay; and the counters agree.
NothingVanishes ==
    Running =>
        LET ends == <<submitted, rejected, abandoned, shown>>
        IN  /\ Arrived = Upstream \cup UNION {ends[i] : i \in 1..4}
            /\ \A i \in 1..4 : Upstream \cap ends[i] = {}
            /\ \A i, j \in 1..4 : i # j => ends[i] \cap ends[j] = {}
            /\ counted.received = Cardinality(Arrived)
            /\ counted.overflow = Cardinality(rejected)

\* d was received before e, by the same thread: from the same socket, connection or file.
ArrivedBefore(c, d, e) ==
    \E i, j \in 1..Len(arrived) :
        i < j /\ arrived[i] = <<c, d>> /\ arrived[j] = <<c, e>>

\* The history, which a replay prints, shows the events of one socket, connection or file in
\* the order they were received, whatever other threads put between them.  (Of two connections
\* of one listener it promises nothing: one may count an event first and put it second.)
HistoryInOrder ==
    \A c \in Feeds : \A k, l \in 1..Len(history) :
        ArrivedBefore(c, history[k], history[l]) => k < l

\* A received event is recorded and handed to delivery, or turned away, whatever the
\* parsers, the target and the other collectors do, unless the process is being stopped.
CollectedIsRecorded ==
    \A e \in Events :
        (\E c \in Feeds : e \in chold[c])
            ~> (e \in submitted \cup rejected \cup shown
                \/ main \notin {"boot", "collectors up", "up", "replay"})

-----------------------------------------------------------------------------
(* What the proofs need beside the properties: what each thread holds where, *)
(* that no two places share an event, where an event came from, and that     *)
(* none overtakes another on its way from the collector to the history.      *)

Precedes(q, d, e) == \A i, j \in 1..Len(q) : q[i] = d /\ q[j] = e => i < j
CameFrom(c, e) == \E i \in 1..Len(arrived) : arrived[i] = <<c, e>>

UpstreamHands ==
    /\ \A c \in Feeds : \A d, e \in chold[c] : d = e
    /\ \A d, e \in phold : d = e
    /\ \A d, e \in ahold : d = e
    /\ Running => \A c \in Feeds : cpc[c] = "put" <=> chold[c] # {}
    /\ phold # {} => ppc \in {"process", "record"}
    /\ ahold # {} => apc = "process"
    /\ main = "boot" => ppc = "new" /\ \A c \in Feeds : cpc[c] = "new"
    /\ main \in {"boot", "collectors up"} => apc = "closed"

UpstreamApart ==
    /\ Distinct(inq)
    /\ phold \cap Elements(inq) = {}
    /\ ahold \cap (Elements(inq) \cup phold) = {}
    /\ \A c \in Feeds : chold[c] \cap (Elements(inq) \cup phold \cup ahold) = {}
    /\ \A c, d \in Feeds : c # d => chold[c] \cap chold[d] = {}

Origins ==
    /\ \A i, j \in 1..Len(arrived) : arrived[i][2] = arrived[j][2] => i = j
    /\ \A c \in Feeds : \A e \in chold[c] : CameFrom(c, e)
    /\ \A e \in ahold : CameFrom("api", e)
    /\ Upstream \cup Elements(history) \subseteq Arrived

InOrder(c, d, e) ==
    /\ Precedes(history, d, e)
    /\ Precedes(inq, d, e)
    /\ e \in Elements(history) => d \notin phold \cup Elements(inq) \cup chold[c]
    /\ e \in phold => d \notin Elements(inq) \cup chold[c]
    /\ e \in Elements(inq) => d \notin chold[c]

NoOvertaking ==
    \A c \in Feeds : \A d, e \in Events : ArrivedBefore(c, d, e) => InOrder(c, d, e)

-----------------------------------------------------------------------------
\* OPERATIONS.md: "Ctrl+C stops listeners and drains queues".
StopDrainsQueues == main = "done" => inq = <<>> /\ queue = <<>>

=============================================================================
