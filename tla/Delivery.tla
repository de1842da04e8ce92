------------------------------ MODULE Delivery ------------------------------
(***************************************************************************)
(* The delivery manager (src/ulstp/delivery.py, class DeliveryManager): a  *)
(* bounded queue, the worker thread that takes batches from it, the main   *)
(* thread that stops it, and the threads that submit events to it (the     *)
(* pipeline worker and the API's handlers, through Pipeline._record).      *)
(*                                                                         *)
(* An event is one object; the thread whose local variables or the queue   *)
(* that references it has custody of it.  The worker and, when it drains   *)
(* in stop(), the main thread run the same code (_deliver_batch), so both  *)
(* are Deliverers.                                                         *)
(***************************************************************************)
EXTENDS Targets, Sequences

CONSTANTS
    Submitters,     \* threads that call submit()
    Kinds,          \* the configured siem types explored
    QueueSize,      \* limits.max_queue_size
    BatchSize,      \* min(batch_size, limits.max_batch_events)
    MaxRetries      \* limits.max_delivery_retries

ASSUME DeliveryAssumption ==
    /\ Submitters \cap {"worker", "main"} = {}
    /\ Kinds \subseteq TargetKinds
    /\ QueueSize \in Nat \ {0}
    /\ BatchSize \in Nat \ {0}
    /\ MaxRetries \in Nat

Deliverers == {"worker", "main"}
Threads == Submitters \cup Deliverers

VARIABLES
    target,     \* the configured target's kind
    stop,       \* the _stop flag
    queue,      \* the bounded queue, a sequence of events
    pc,         \* where each thread is
    held,       \* the events each thread's locals (event, batch, pending) reference
    attempt,    \* _deliver_batch's counter, per deliverer
    outcome,    \* what the target call a deliverer just made did
    status,     \* delivery_status of each event
    attempts,   \* delivery_attempts of each event
    metrics     \* the delivery counters

\* What the peer, the disk and an observer know; no thread reads these.
VARIABLES
    sent,       \* how often each event went out, as far as the adapters can see
    wire,       \* how often the target took each event
    disk,       \* how many fallback lines the spool file has for each event
    calls,      \* how many target calls each event was part of
    submitted,  \* events handed to submit()
    early,      \* events queued, or held by the worker, when stop() was called
    lost        \* events dropped by an unwinding or dying thread without a verdict

local == <<pc, held, attempt, outcome>>
world == <<sent, wire, disk, calls>>
vars == <<target, stop, queue, local, status, attempts, metrics, world,
          submitted, early, lost>>

-----------------------------------------------------------------------------
Statuses == {"PENDING", "DELIVERED", "FAILED", "SPOOLED", "REJECTED"}
Verdicts == {"DELIVERED", "SPOOLED", "REJECTED"}
MetricNames == {"delivered", "spooled", "rejected", "overflow"}

Elements(q) == {q[i] : i \in 1..Len(q)}
Distinct(q) == \A i, j \in 1..Len(q) : q[i] = q[j] => i = j
Queued == Elements(queue)
Held == UNION {held[t] : t \in Threads}
InCustody == Queued \cup Held
Settled == submitted \ (InCustody \cup lost)    \* nothing will touch these again
Running == pc["main"] # "halted"                \* the process is alive

NoOutcome == [sent |-> {}, taken |-> {}, marked |-> {}, failed |-> {}, returned |-> {},
              raised |-> FALSE]

Stamp(s, S, v) == [e \in Events |-> IF e \in S THEN v ELSE s[e]]
Bump(counts, S) == [e \in Events |-> IF e \in S THEN counts[e] + 1 ELSE counts[e]]

\* Where a thread goes when its batch, or its overflowed event, is done, and
\* where an exception that leaves _spool_event takes it.  The worker has no
\* handler; stop() has none; Pipeline._record catches it for a submitter.
Done(t) == CASE t = "worker" -> "loop" [] t = "main" -> "stopped" [] OTHER -> "idle"
Unwound(t) == CASE t = "worker" -> "dead" [] t = "main" -> "aborted" [] OTHER -> "idle"

Init ==
    /\ target \in Kinds
    /\ stop = FALSE
    /\ queue = <<>>
    /\ pc = [t \in Threads |->
                CASE t = "worker" -> "new" [] t = "main" -> "up" [] OTHER -> "idle"]
    /\ held = [t \in Threads |-> {}]
    /\ attempt = [t \in Deliverers |-> 0]
    /\ outcome = [t \in Deliverers |-> NoOutcome]
    /\ status = [e \in Events |-> "PENDING"]
    /\ attempts = [e \in Events |-> 0]
    /\ metrics = [m \in MetricNames |-> 0]
    /\ sent = [e \in Events |-> 0]
    /\ wire = [e \in Events |-> 0]
    /\ disk = [e \in Events |-> 0]
    /\ calls = [e \in Events |-> 0]
    /\ submitted = {}
    /\ early = {}
    /\ lost = {}

-----------------------------------------------------------------------------
(* submit(): a put that blocks for at most five seconds, then the spool. *)

SubmitCall(s, e) ==
    /\ Running
    /\ pc[s] = "idle"
    /\ e \notin submitted
    /\ submitted' = submitted \cup {e}
    /\ held' = [held EXCEPT ![s] = {e}]
    /\ pc' = [pc EXCEPT ![s] = "put"]
    /\ UNCHANGED <<target, stop, queue, attempt, outcome, status, attempts, metrics,
                   world, early, lost>>

PutInQueue(s, e) ==
    /\ Running
    /\ pc[s] = "put"
    /\ e \in held[s]
    /\ Len(queue) < QueueSize
    /\ queue' = Append(queue, e)
    /\ held' = [held EXCEPT ![s] = {}]
    /\ pc' = [pc EXCEPT ![s] = "idle"]
    /\ UNCHANGED <<target, stop, attempt, outcome, status, attempts, metrics, world,
                   submitted, early, lost>>

PutTimesOut(s) ==
    /\ Running
    /\ pc[s] = "put"
    /\ Len(queue) = QueueSize
    /\ metrics' = [metrics EXCEPT !["overflow"] = @ + 1]
    /\ pc' = [pc EXCEPT ![s] = "spool"]
    /\ UNCHANGED <<target, stop, queue, held, attempt, outcome, status, attempts, world,
                   submitted, early, lost>>

-----------------------------------------------------------------------------
(* start() and the worker's loop _run(). *)

Start ==
    /\ pc["main"] = "up"
    /\ pc["worker"] = "new"
    /\ pc' = [pc EXCEPT !["worker"] = "loop"]
    /\ UNCHANGED <<target, stop, queue, held, attempt, outcome, status, attempts, metrics,
                   world, submitted, early, lost>>

AtLoopTop_IgnoringStop == "get"
AtLoopTop == IF stop THEN "exited" ELSE "get"

WorkerLoop ==
    /\ Running
    /\ pc["worker"] = "loop"
    /\ pc' = [pc EXCEPT !["worker"] = AtLoopTop]
    /\ UNCHANGED <<target, stop, queue, held, attempt, outcome, status, attempts, metrics,
                   world, submitted, early, lost>>

\* get() with the flush interval: an event, or queue.Empty and back to the flag.
WorkerGet ==
    /\ Running
    /\ pc["worker"] = "get"
    /\ queue # <<>>
    /\ held' = [held EXCEPT !["worker"] = {Head(queue)}]
    /\ queue' = Tail(queue)
    /\ pc' = [pc EXCEPT !["worker"] = "fill"]
    /\ UNCHANGED <<target, stop, attempt, outcome, status, attempts, metrics, world,
                   submitted, early, lost>>

AfterEmpty_Breaks == "exited"
AfterEmpty == "loop"

WorkerGetTimesOut ==
    /\ Running
    /\ pc["worker"] = "get"
    /\ queue = <<>>
    /\ pc' = [pc EXCEPT !["worker"] = AfterEmpty]
    /\ UNCHANGED <<target, stop, queue, held, attempt, outcome, status, attempts, metrics,
                   world, submitted, early, lost>>

\* get_nowait() until the batch is full or the queue is empty.
AfterTake_Peek == queue
AfterTake == Tail(queue)

WorkerFill ==
    /\ Running
    /\ pc["worker"] = "fill"
    /\ Cardinality(held["worker"]) < BatchSize
    /\ queue # <<>>
    /\ held' = [held EXCEPT !["worker"] = @ \cup {Head(queue)}]
    /\ queue' = AfterTake
    /\ UNCHANGED <<target, stop, pc, attempt, outcome, status, attempts, metrics, world,
                   submitted, early, lost>>

WorkerFilled ==
    /\ Running
    /\ pc["worker"] = "fill"
    /\ \/ Cardinality(held["worker"]) >= BatchSize
       \/ queue = <<>>
    /\ pc' = [pc EXCEPT !["worker"] = "call"]
    /\ UNCHANGED <<target, stop, queue, held, attempt, outcome, status, attempts, metrics,
                   world, submitted, early, lost>>

-----------------------------------------------------------------------------
(* _deliver_batch(), run by the worker and by the main thread's drain.     *)

\* target.deliver(pending): what it does to the events and to the world.
OnTheWire_KeepsBody(o) == o.taken \cup (IF o.taken = {} THEN {} ELSE {e \in Events : wire[e] > 0})
OnTheWire(o) == o.taken

AdapterRun(t) ==
    /\ Running
    /\ pc[t] = "call"
    /\ \E o \in Outcomes(target, held[t]) :
          /\ outcome' = [outcome EXCEPT ![t] = o]
          /\ status' = Stamp(Stamp(status, o.marked, "DELIVERED"), o.failed, "FAILED")
          /\ sent' = Bump(sent, o.sent)
          /\ wire' = Bump(wire, OnTheWire(o))
    /\ calls' = Bump(calls, held[t])
    /\ pc' = [pc EXCEPT ![t] = "return"]
    /\ UNCHANGED <<target, stop, queue, held, attempt, attempts, metrics, disk,
                   submitted, early, lost>>

\* _safe_deliver's handler and the rest of the loop body: an exception fails
\* the whole batch; the returned events are done; the others go round again
\* while attempt <= max_delivery_retries, then to the spool.
Left_Dropped(t) == IF attempt[t] < MaxRetries THEN held[t] \ outcome[t].returned ELSE {}
Left(t) == held[t] \ outcome[t].returned

RetryAllowed_OneMore(t) == attempt[t] <= MaxRetries
RetryAllowed(t) == attempt[t] + 1 <= MaxRetries

AfterPass(t) ==
    IF Left(t) = {} THEN Done(t) ELSE IF RetryAllowed(t) THEN "backoff" ELSE "spool"

NextAttempt_Down(t) == attempt[t] - 1
NextAttempt(t) == IF Left(t) = {} THEN 0 ELSE attempt[t] + 1

AttemptsOf_FromZero(t) == attempt[t]
AttemptsOf(t) == attempt[t] + 1

NewlyDelivered_Batch(t) == Cardinality(held[t])
NewlyDelivered(t) == Cardinality(outcome[t].returned)

AdapterReturn(t) ==
    /\ Running
    /\ pc[t] = "return"
    /\ status' = IF outcome[t].raised THEN Stamp(status, held[t], "FAILED")
                                      ELSE Stamp(status, outcome[t].returned, "DELIVERED")
    /\ attempts' = [e \in Events |->
                       IF e \in outcome[t].returned THEN AttemptsOf(t) ELSE attempts[e]]
    /\ metrics' = [metrics EXCEPT !["delivered"] = @ + NewlyDelivered(t)]
    /\ held' = [held EXCEPT ![t] = Left(t)]
    /\ attempt' = [attempt EXCEPT ![t] = NextAttempt(t)]
    /\ pc' = [pc EXCEPT ![t] = AfterPass(t)]
    /\ outcome' = [outcome EXCEPT ![t] = NoOutcome]
    /\ UNCHANGED <<target, stop, queue, world, submitted, early, lost>>

\* The sleep between two passes is over.
BackoffEnds(t) ==
    /\ Running
    /\ pc[t] = "backoff"
    /\ pc' = [pc EXCEPT ![t] = "call"]
    /\ UNCHANGED <<target, stop, queue, held, attempt, outcome, status, attempts, metrics,
                   world, submitted, early, lost>>

-----------------------------------------------------------------------------
(* _spool_event(), from submit() on overflow and after the last retry.     *)

\* The call came back: the event is spooled, or rejected, and let go.
SpoolVerdict_Trusting(r) == "SPOOLED"
SpoolVerdict(r) == IF r.ending = "written" THEN "SPOOLED" ELSE "REJECTED"

SpoolSettles(t, e) ==
    /\ Running
    /\ pc[t] = "spool"
    /\ e \in held[t]
    /\ \E r \in SpoolResults(e) :
          /\ r.ending # "oserror"
          /\ disk' = [disk EXCEPT ![e] = @ + r.lines]
          /\ status' = [status EXCEPT ![e] = SpoolVerdict(r)]
          /\ metrics' = IF r.ending = "written"
                        THEN [metrics EXCEPT !["spooled"] = @ + 1]
                        ELSE [metrics EXCEPT !["rejected"] = @ + 1]
    /\ held' = [held EXCEPT ![t] = @ \ {e}]
    /\ \/ /\ held[t] = {e}
          /\ pc' = [pc EXCEPT ![t] = Done(t)]
          /\ attempt' = IF t \in Deliverers THEN [attempt EXCEPT ![t] = 0] ELSE attempt
       \/ /\ held[t] # {e}
          /\ UNCHANGED <<pc, attempt>>
    /\ UNCHANGED <<target, stop, queue, outcome, attempts, sent, wire, calls, submitted,
                   early, lost>>

\* It raised: nothing catches it before the thread's outermost frame, and the
\* event and those behind it are no longer referenced.
Dropped_ButOne(t, e) == held[t] \ {e}
Dropped(t, e) == held[t]

CountRaised_Rejected == [metrics EXCEPT !["rejected"] = @ + 1]
CountRaised == metrics

SpoolRaises(t, e) ==
    /\ Running
    /\ pc[t] = "spool"
    /\ e \in held[t]
    /\ \E r \in SpoolResults(e) :
          /\ r.ending = "oserror"
          /\ disk' = [disk EXCEPT ![e] = @ + r.lines]
    /\ lost' = lost \cup Dropped(t, e)
    /\ metrics' = CountRaised
    /\ held' = [held EXCEPT ![t] = {}]
    /\ pc' = [pc EXCEPT ![t] = Unwound(t)]
    /\ attempt' = IF t \in Deliverers THEN [attempt EXCEPT ![t] = 0] ELSE attempt
    /\ UNCHANGED <<target, stop, queue, outcome, status, attempts, sent, wire, calls,
                   submitted, early>>
-----------------------------------------------------------------------------
(* stop(flush=True), and the end of the process. *)

Stop ==
    /\ pc["main"] = "up"
    /\ stop' = TRUE
    /\ early' = Queued \cup held["worker"]
    /\ pc' = [pc EXCEPT !["main"] = IF pc["worker"] = "new" THEN "drain" ELSE "join"]
    /\ UNCHANGED <<target, queue, held, attempt, outcome, status, attempts, metrics, world,
                   submitted, lost>>

AfterJoin_NoFlush == "stopped"
AfterJoin == "drain"

JoinReturns ==
    /\ pc["main"] = "join"
    /\ pc["worker"] \in {"exited", "dead"}
    /\ pc' = [pc EXCEPT !["main"] = AfterJoin]
    /\ UNCHANGED <<target, stop, queue, held, attempt, outcome, status, attempts, metrics,
                   world, submitted, early, lost>>

\* join(timeout=15) gives up.  A target call, a spool write, a backoff sleep (they
\* sum to 31 s by default) or a get() of an empty queue with a long flush_interval can
\* last longer.
JoinTimesOut ==
    /\ pc["main"] = "join"
    /\ pc["worker"] \in {"get", "call", "return", "backoff", "spool"}
    /\ pc["worker"] = "get" => queue = <<>>
    /\ pc' = [pc EXCEPT !["main"] = "drain"]
    /\ UNCHANGED <<target, stop, queue, held, attempt, outcome, status, attempts, metrics,
                   world, submitted, early, lost>>

\* _drain_sync(): get_nowait() until the queue is empty, then one batch.
Drain ==
    /\ pc["main"] = "drain"
    /\ queue # <<>>
    /\ held' = [held EXCEPT !["main"] = @ \cup {Head(queue)}]
    /\ queue' = Tail(queue)
    /\ UNCHANGED <<target, stop, pc, attempt, outcome, status, attempts, metrics, world,
                   submitted, early, lost>>

Drained ==
    /\ pc["main"] = "drain"
    /\ queue = <<>>
    /\ pc' = [pc EXCEPT !["main"] = IF held["main"] = {} THEN "stopped" ELSE "call"]
    /\ UNCHANGED <<target, stop, queue, held, attempt, outcome, status, attempts, metrics,
                   world, submitted, early, lost>>

\* The main thread ends after stop(), normally or by its exception; every other
\* thread is a daemon, and the queue is memory.
Halt ==
    /\ pc["main"] \in {"stopped", "aborted"}
    /\ pc' = [pc EXCEPT !["main"] = "halted"]
    /\ lost' = lost \cup InCustody
    /\ queue' = <<>>
    /\ held' = [t \in Threads |-> {}]
    /\ UNCHANGED <<target, stop, attempt, outcome, status, attempts, metrics, world,
                   submitted, early>>

-----------------------------------------------------------------------------
Submit(s) ==
    \/ \E e \in Events : SubmitCall(s, e) \/ PutInQueue(s, e)
    \/ PutTimesOut(s)

WorkerRun == WorkerLoop \/ WorkerGet \/ WorkerGetTimesOut \/ WorkerFill \/ WorkerFilled

DeliverBatch(t) == AdapterRun(t) \/ AdapterReturn(t) \/ BackoffEnds(t)

SpoolEvent(t) == \E e \in Events : SpoolSettles(t, e) \/ SpoolRaises(t, e)

StopReturns == JoinReturns \/ JoinTimesOut \/ Drain \/ Drained

Next ==
    \/ \E s \in Submitters : Submit(s)
    \/ Start
    \/ WorkerRun
    \/ \E t \in Deliverers : DeliverBatch(t)
    \/ \E t \in Threads : SpoolEvent(t)
    \/ Stop
    \/ StopReturns
    \/ Halt

(***************************************************************************)
(* The operating system runs every thread that can run, every blocking     *)
(* call of the code has a timeout, and Runtime.start starts the worker.    *)
(* Nobody has to submit an event, stop the program or end it.              *)
(***************************************************************************)
Fairness ==
    /\ WF_vars(Start)
    /\ WF_vars(WorkerRun)
    /\ WF_vars(StopReturns)
    /\ \A t \in Deliverers : WF_vars(DeliverBatch(t))
    /\ \A t \in Threads : WF_vars(SpoolEvent(t))
    /\ \A s \in Submitters :
          WF_vars((\E e \in Events : PutInQueue(s, e)) \/ PutTimesOut(s))

Spec == Init /\ [][Next]_vars
FairSpec == Spec /\ Fairness

-----------------------------------------------------------------------------
(* Properties. *)

Labels == {"idle", "put", "new", "loop", "get", "fill", "call", "return", "backoff", "spool",
           "exited", "dead", "up", "join", "drain", "stopped", "aborted", "halted"}

\* The threads are where the code has a place for them, statuses are those of event.py,
\* and the counters and the attempts of the events never go below zero.
TypeOK ==
    /\ target \in Kinds
    /\ stop \in BOOLEAN
    /\ queue \in Seq(Events)
    /\ pc \in [Threads -> Labels]
    /\ held \in [Threads -> SUBSET Events]
    /\ attempt \in [Deliverers -> Nat]
    /\ outcome \in [Deliverers -> Outcome]
    /\ status \in [Events -> Statuses]
    /\ attempts \in [Events -> Nat]
    /\ metrics \in [MetricNames -> Nat]
    /\ sent \in [Events -> Nat]
    /\ wire \in [Events -> Nat]
    /\ disk \in [Events -> Nat]
    /\ calls \in [Events -> Nat]
    /\ submitted \in SUBSET Events
    /\ early \in SUBSET Events
    /\ lost \in SUBSET Events

\* An event has one holder at a time: no two threads, and not the queue and a
\* thread, reference it, so no two target calls can carry it at once, although
\* the main thread drains beside a worker that outlives the join.
SingleCustody ==
    /\ \A t, u \in Threads : t # u => held[t] \cap held[u] = {}
    /\ \A t \in Threads : held[t] \cap (Queued \cup lost) = {} /\ held[t] \subseteq submitted
    /\ Queued \cap lost = {} /\ Queued \cup lost \subseteq submitted
    /\ Distinct(queue)

\* An event nothing will touch again carries a verdict, and the verdict is as true as
\* the program can know, as far as replies are well formed: what is DELIVERED went out
\* and, where the target answers, the target took it (a syslog peer does not answer);
\* the spool file has what is SPOOLED, and only what UTF-8 refuses is REJECTED.
VerdictsAreTrue ==
    \A e \in Settled :
        /\ status[e] \in Verdicts
        /\ status[e] = "DELIVERED" =>
              OddReplies \/ (sent[e] >= 1 /\ (Answers(target) => wire[e] >= 1))
        /\ status[e] = "SPOOLED" => disk[e] = 1
        /\ status[e] = "REJECTED" => e \in Surrogate /\ disk[e] = 0

\* Retry and fallback: no event is part of more than MaxRetries + 1 target calls (the
\* documents say max_delivery_retries passes; the code makes that many after the first),
\* and a fallback line is written at most once, for an event that never reached the
\* worker (overflow) or that had every retry it is due.  What went out goes out again
\* only where an adapter may raise in the middle of a batch.
RetryThenSpool ==
    \A e \in Events :
        /\ sent[e] <= calls[e] /\ wire[e] <= calls[e]
        /\ calls[e] <= MaxRetries + 1
        /\ sent[e] > 1 => MayRaise(target, submitted)
        /\ disk[e] <= 1
        /\ disk[e] = 1 => calls[e] \in {0, MaxRetries + 1}

\* A settled event stays as it is: never sent, spooled or restamped again.
SettledIsFinal ==
    [][\A e \in Settled :
          /\ e \in Settled'
          /\ status'[e] = status[e]
          /\ attempts'[e] = attempts[e]
          /\ sent'[e] = sent[e]
          /\ wire'[e] = wire[e]
          /\ disk'[e] = disk[e]]_vars

\* The counters agree with the statuses: one of delivery_delivered, events_spooled
\* and delivery_rejected is counted, once, for each settled event.
SettledAs(v) == {e \in Settled : status[e] = v}

MetricsAreExact ==
    /\ metrics["delivered"] = Cardinality(SettledAs("DELIVERED"))
    /\ metrics["spooled"] = Cardinality(SettledAs("SPOOLED"))
    /\ metrics["rejected"] = Cardinality(SettledAs("REJECTED"))

\* delivery_attempts of a delivered event is the number of calls it took.
AttemptsAreExact ==
    \A e \in SettledAs("DELIVERED") : attempts[e] = calls[e]

\* A stop() that found the worker gone has settled everything that was queued, or
\* with the worker, when it was called.
StopDrains ==
    pc["main"] = "stopped" /\ pc["worker"] = "exited" => early \subseteq Settled

\* A submitted event gets its verdict, unless the manager is stopped meanwhile.
SubmittedSettles ==
    \A e \in Events : e \in submitted ~> (e \in Settled \/ stop)

\* The worker notices the flag and ends, whatever its batch is going through.
WorkerExits ==
    stop ~> (pc["worker"] \in {"exited", "dead", "new"} \/ ~Running)

\* The manager implements what it promises (module Custody): each accepted event
\* gets one true and final verdict.
Promise == INSTANCE Custody WITH
    Hopeless <- Surrogate,
    Faulty <- DiskFaults,
    accepted <- submitted,
    verdict <- [e \in Settled |-> status[e]],
    gone <- lost,
    over <- ~Running

KeepsPromise == Promise!Spec

-----------------------------------------------------------------------------
(* What the proofs need beside the properties: where the threads can be and  *)
(* what they hold there, how far along its retries a held event is, and      *)
(* where the events that were there when stop() was called can be.           *)

EmptyHanded == {"idle", "new", "loop", "get", "exited", "dead", "up", "join", "stopped",
                "aborted", "halted"}
Delivering == {"call", "return", "backoff", "spool"}

Hands ==
    /\ \A t \in Threads : pc[t] \in EmptyHanded => held[t] = {}
    /\ \A s \in Submitters : /\ pc[s] \in {"idle", "put", "spool"}
                             /\ \A d, e \in held[s] : d = e
    /\ pc["worker"] \in {"new", "loop", "get", "fill", "exited", "dead"} \cup Delivering
    /\ pc["main"] \in {"up", "join", "drain", "stopped", "aborted", "halted"} \cup Delivering
    /\ ~Running => queue = <<>> /\ \A t \in Threads : held[t] = {}

\* deliver()'s result is within what it was called with.
Honest(kind, o, batch) ==
    /\ o \in Outcome
    /\ o.sent \subseteq batch
    /\ o.taken \subseteq batch
    /\ o.marked \subseteq batch
    /\ o.failed \subseteq batch
    /\ o.returned \subseteq batch
    /\ o.raised => o.returned = {}
    /\ OddReplies \/ o.returned \subseteq o.sent
    /\ OddReplies \/ ~Answers(kind) \/ o.returned \subseteq o.taken
    /\ MayRaise(kind, batch) \/ o.sent = o.returned

PassCount ==
    \A t \in Deliverers :
        /\ pc[t] \in {"call", "return", "backoff"} => attempt[t] <= MaxRetries
        /\ pc[t] = "spool" => attempt[t] = MaxRetries + 1
        /\ pc[t] \notin Delivering => attempt[t] = 0

ResultsAreHonest ==
    \A t \in Deliverers :
        Running /\ pc[t] = "return" =>
            /\ Honest(target, outcome[t], held[t])
            /\ \A e \in outcome[t].sent : sent[e] >= 1
            /\ \A e \in outcome[t].taken : wire[e] >= 1

CallsMatch ==
    /\ \A t \in Deliverers : \A e \in held[t] :
          calls[e] = IF pc[t] = "return" THEN attempt[t] + 1 ELSE attempt[t]
    /\ \A e \in Events \ submitted : calls[e] = 0
    /\ \A e \in Queued : calls[e] = 0
    /\ \A s \in Submitters : \A e \in held[s] : calls[e] = 0

\* Where an adapter does not raise halfway, what went out is settled, or about to be.
Returning == UNION {outcome[t].returned : t \in {d \in Deliverers : pc[d] = "return"}}

Unsent ==
    MayRaise(target, submitted)
    \/ \A e \in Events \ (Settled \cup lost) : sent[e] = 0 \/ e \in Returning

Unspooled == \A e \in Events \ (Settled \cup lost) : disk[e] = 0

WhereEarlyIs ==
    /\ early \subseteq submitted
    /\ pc["main"] = "up" => early = {}
    /\ \A s \in Submitters : early \cap held[s] = {}
    /\ pc["main"] \notin {"up", "join", "drain"} => early \cap Queued = {}
    /\ early \cap lost # {} => pc["worker"] = "dead" \/ pc["main"] \in {"aborted", "halted"}

-----------------------------------------------------------------------------
(* What the documents promise and the code does not keep. *)

\* DELIVERY.md: "the delivery worker never dies silently".
WorkerNeverDies == pc["worker"] # "dead"

=============================================================================
