--------------------------- MODULE DeliveryProofs ---------------------------
(***************************************************************************)
(* Theorems about the delivery manager, for every set of events and of     *)
(* submitters, every queue and batch size and every number of retries; its *)
(* refinement of Custody, and its counters.                                *)
(***************************************************************************)
EXTENDS Delivery, FiniteSetTheorems, TLAPS

-----------------------------------------------------------------------------
(* What a target call can do, whatever the target. *)

\* The parts of an outcome are events of the batch; a call that raises returns
\* nothing; what a well-formed reply makes deliver() return went out, and was taken if
\* the target answers; where no adapter raises halfway, it is all that went out.

LEMMA SyslogIsHonest ==
    ASSUME NEW batch \in SUBSET Events, NEW o \in SyslogOutcomes(batch)
    PROVE  Honest("syslog", o, batch)
  <1> DEFINE poison == batch \cap LoneSurrogate
  <1> USE DEF Honest, Outcome, Answers, MayRaise
  <1>1. CASE o = Refused({}, batch)
    BY <1>1 DEF Refused
  <1>2. ASSUME NEW S \in SUBSET batch, NEW T \in SUBSET batch, o = Sent(S, T, batch \ S)
        PROVE  Honest("syslog", o, batch)
    BY <1>2 DEF Sent
  <1>3. ASSUME poison # {}, NEW before \in SUBSET (batch \ poison), NEW S \in SUBSET before,
               NEW T \in SUBSET before, o = Raised(S, T, S, before \ S)
        PROVE  Honest("syslog", o, batch)
    BY <1>3 DEF Raised
  <1>4. \/ o = Refused({}, batch)
        \/ o \in SentInPart(batch)
        \/ poison # {} /\ \E before \in SUBSET (batch \ poison) : o \in RaisedAfter(before)
    BY DEF SyslogOutcomes
  <1>5. o \in SentInPart(batch) =>
           \E S \in SUBSET batch : \E T \in SUBSET batch : o = Sent(S, T, batch \ S)
    BY DEF SentInPart
  <1>6. ASSUME poison # {}, NEW before \in SUBSET (batch \ poison), o \in RaisedAfter(before)
        PROVE  Honest("syslog", o, batch)
    <2>1. \E S \in SUBSET before : \E T \in SUBSET before : o = Raised(S, T, S, before \ S)
      BY <1>6 DEF RaisedAfter
    <2>2. QED
      BY <1>3, <1>6, <2>1
  <1>7. QED
    BY <1>1, <1>2, <1>3, <1>4, <1>5, <1>6

LEMMA ElasticIsHonest ==
    ASSUME NEW batch \in SUBSET Events, NEW o \in ElasticOutcomes(batch)
    PROVE  Honest("elastic", o, batch)
  <1> USE DEF Honest, Outcome, MayRaise
  <1>1. CASE o = Raised({}, {}, {}, {})
    BY <1>1 DEF Raised
  <1>2. ASSUME NEW S \in SUBSET batch, o = Refused(S, batch)
        PROVE  Honest("elastic", o, batch)
    BY <1>2 DEF Refused
  <1>3. ASSUME NEW L \in SUBSET batch, L = batch \/ OddReplies, o \in ItemOutcomes(batch, L)
        PROVE  Honest("elastic", o, batch)
    <2>1. PICK errors \in SUBSET L, unlisted \in SUBSET (batch \ L) :
             o = [sent |-> L \ errors, taken |-> (L \ errors) \cup unlisted,
                  marked |-> batch \ errors, failed |-> errors, returned |-> batch \ errors,
                  raised |-> FALSE]
      BY <1>3 DEF ItemOutcomes
    <2>2. OddReplies \/ (L \ errors = batch \ errors /\ unlisted = {})
      BY <1>3
    <2>3. QED
      BY <2>1, <2>2
  <1>4. ASSUME OddReplies, NEW S \in SUBSET batch, NEW M \in SUBSET batch,
               o = Raised(M, S, M, {})
        PROVE  Honest("elastic", o, batch)
    BY <1>4 DEF Raised
  <1>5. \/ o = Raised({}, {}, {}, {})
        \/ \E S \in SUBSET batch : o = Refused(S, batch)
        \/ \E L \in SUBSET batch : (L = batch \/ OddReplies) /\ o \in ItemOutcomes(batch, L)
        \/ OddReplies /\ \E S \in SUBSET batch : \E M \in SUBSET batch : o = Raised(M, S, M, {})
    <2>1. \/ o = Raised({}, {}, {}, {})
          \/ o \in FailedRequests(batch)
          \/ o \in ItemOutcomes(batch, batch)
          \/ OddReplies /\ o \in ShortReplies(batch)
          \/ OddReplies /\ o \in MalformedReplies(batch)
      BY DEF ElasticOutcomes
    <2>2. QED
      BY <2>1 DEF FailedRequests, ShortReplies, MalformedReplies
  <1>6. QED
    BY <1>1, <1>2, <1>3, <1>4, <1>5

LEMMA SpoolIsHonest ==
    ASSUME NEW batch \in SUBSET Events, NEW o \in SpoolOutcomes(batch)
    PROVE  Honest("spool", o, batch)
  <1> DEFINE good == batch \ Surrogate
             refused == batch \cap Surrogate
  <1> USE DEF Honest, Outcome, MayRaise
  <1>1. CASE o = [sent |-> good, taken |-> good, marked |-> {}, failed |-> refused,
                  returned |-> good, raised |-> FALSE]
    BY <1>1
  <1>2. ASSUME DiskFaults, NEW S \in SUBSET good, NEW F \in {{}, refused},
               o = Raised(S, S, {}, F)
        PROVE  Honest("spool", o, batch)
    BY <1>2 DEF Raised
  <1>3. \/ o = [sent |-> good, taken |-> good, marked |-> {}, failed |-> refused,
                returned |-> good, raised |-> FALSE]
        \/ /\ DiskFaults
           /\ \E S \in SUBSET good : \E F \in {{}, refused} : o = Raised(S, S, {}, F)
    BY DEF SpoolOutcomes
  <1>4. QED
    BY <1>1, <1>2, <1>3

LEMMA OutcomesAreHonest ==
    ASSUME NEW kind \in TargetKinds, NEW batch \in SUBSET Events,
           NEW o \in Outcomes(kind, batch)
    PROVE  Honest(kind, o, batch)
  BY SyslogIsHonest, ElasticIsHonest, SpoolIsHonest DEF Outcomes, TargetKinds

\* A fallback call writes at most one line, none for an event UTF-8 refuses.
LEMMA SpoolResultParts ==
    ASSUME NEW e \in Events, NEW r \in SpoolResults(e)
    PROVE  /\ r.lines \in {0, 1}
           /\ r.ending \in {"written", "refused", "oserror"}
           /\ r.ending = "written" => r.lines = 1
           /\ r.ending = "refused" => r.lines = 0 /\ e \in Surrogate
           /\ r.ending = "oserror" => DiskFaults
  BY DEF SpoolResults

-----------------------------------------------------------------------------
(* The queue as a set. *)

LEMMA ElementsOfEmpty == Elements(<<>>) = {} /\ Distinct(<<>>)
  BY DEF Elements, Distinct

LEMMA ElementsOfAppend ==
    ASSUME NEW q \in Seq(Events), NEW e \in Events
    PROVE  /\ Append(q, e) \in Seq(Events)
           /\ Elements(Append(q, e)) = Elements(q) \cup {e}
           /\ Distinct(q) /\ e \notin Elements(q) => Distinct(Append(q, e))
  BY DEF Elements, Distinct

\* Taking the head of a queue without duplicates takes it out of the queue.
LEMMA ElementsOfTail ==
    ASSUME NEW q \in Seq(Events), q # <<>>
    PROVE  /\ Tail(q) \in Seq(Events)
           /\ Head(q) \in Events
           /\ Elements(q) = Elements(Tail(q)) \cup {Head(q)}
           /\ Distinct(q) => Distinct(Tail(q)) /\ Head(q) \notin Elements(Tail(q))
  <1>1. Len(q) \in Nat \ {0}
    OBVIOUS
  <1>2. /\ Tail(q) \in Seq(Events)
        /\ Head(q) \in Events
        /\ Head(q) = q[1]
        /\ Len(Tail(q)) = Len(q) - 1
        /\ \A i \in 1..Len(Tail(q)) : Tail(q)[i] = q[i + 1]
    BY <1>1
  <1>3. Elements(q) \subseteq Elements(Tail(q)) \cup {Head(q)}
    <2>1. ASSUME NEW i \in 1..Len(q), i # 1
          PROVE  q[i] \in Elements(Tail(q))
      <3>1. i - 1 \in 1..Len(Tail(q)) /\ Tail(q)[i - 1] = q[i]
        BY <1>1, <1>2, <2>1
      <3>2. QED
        BY <3>1 DEF Elements
    <2>2. QED
      BY <1>2, <2>1 DEF Elements
  <1>4. Elements(Tail(q)) \cup {Head(q)} \subseteq Elements(q)
    BY <1>1, <1>2 DEF Elements
  <1>5. ASSUME Distinct(q)
        PROVE  Distinct(Tail(q)) /\ Head(q) \notin Elements(Tail(q))
    <2>1. Distinct(Tail(q))
      BY <1>1, <1>2, <1>5 DEF Distinct
    <2>2. ASSUME NEW i \in 1..Len(Tail(q)), Tail(q)[i] = Head(q)
          PROVE  FALSE
      <3>1. i + 1 \in 1..Len(q) /\ 1 \in 1..Len(q) /\ q[i + 1] = q[1] /\ i + 1 # 1
        BY <1>1, <1>2, <2>2
      <3>2. QED
        BY <1>5, <3>1 DEF Distinct
    <2>3. QED
      BY <2>1, <2>2 DEF Elements
  <1>6. QED
    BY <1>2, <1>3, <1>4, <1>5

-----------------------------------------------------------------------------
(* Type correctness. *)

LEMMA StampType ==
    ASSUME NEW s \in [Events -> Statuses], NEW S, NEW v \in Statuses
    PROVE  Stamp(s, S, v) \in [Events -> Statuses]
  BY DEF Stamp

LEMMA BumpType ==
    ASSUME NEW c \in [Events -> Nat], NEW S
    PROVE  Bump(c, S) \in [Events -> Nat]
  BY DEF Bump

LEMMA TypeInit == Init => TypeOK
  <1> SUFFICES ASSUME Init PROVE TypeOK
    OBVIOUS
  <1>1. /\ pc \in [Threads -> {"idle", "new", "up"}]
        /\ held \in [Threads -> SUBSET Events]
    BY DEF Init
  <1>2. outcome \in [Deliverers -> Outcome]
    BY DEF Init, NoOutcome, Outcome
  <1>3. status \in [Events -> Statuses] /\ metrics \in [MetricNames -> Nat]
    BY DEF Init, Statuses
  <1>4. queue \in Seq(Events) /\ stop \in BOOLEAN /\ target \in Kinds
    <2>1. queue = <<>> /\ stop = FALSE /\ target \in Kinds
      BY DEF Init
    <2>2. queue \in Seq(Events)
      BY <2>1
    <2>3. stop \in BOOLEAN
      BY <2>1
    <2>4. QED
      BY <2>1, <2>2, <2>3
  <1>5. /\ attempt \in [Deliverers -> Nat]
        /\ attempts \in [Events -> Nat]
        /\ sent \in [Events -> Nat] /\ wire \in [Events -> Nat]
        /\ disk \in [Events -> Nat] /\ calls \in [Events -> Nat]
        /\ submitted \in SUBSET Events /\ early \in SUBSET Events
        /\ lost \in SUBSET Events
    BY DEF Init
  <1>6. QED
    BY <1>1, <1>2, <1>3, <1>4, <1>5 DEF TypeOK, Labels

LEMMA TypeStep == TypeOK /\ [Next]_vars => TypeOK'
  <1> SUFFICES ASSUME TypeOK, [Next]_vars
               PROVE  TypeOK'
    OBVIOUS
  <1> USE DEF TypeOK, Labels
  <1>1. ASSUME NEW s \in Submitters, Submit(s)
        PROVE  TypeOK'
    <2> s \in Threads
      BY DEF Threads
    <2>1. ASSUME NEW e \in Events, SubmitCall(s, e)
          PROVE  TypeOK'
      BY <2>1 DEF SubmitCall, world
    <2>2. ASSUME NEW e \in Events, PutInQueue(s, e)
          PROVE  TypeOK'
      BY <2>2, ElementsOfAppend DEF PutInQueue, world
    <2>3. CASE PutTimesOut(s)
      BY <2>3 DEF PutTimesOut, MetricNames, world
    <2>4. QED
      BY <1>1, <2>1, <2>2, <2>3 DEF Submit
  <1>2. CASE Start
    BY <1>2 DEF Start, world
  <1>3. CASE WorkerRun
    <2>1. CASE WorkerLoop
      BY <2>1 DEF WorkerLoop, AtLoopTop, world
    <2>2. CASE WorkerGet
      <3>1. Tail(queue) \in Seq(Events) /\ Head(queue) \in Events
        BY <2>2, ElementsOfTail DEF WorkerGet
      <3>2. QED
        BY <2>2, <3>1 DEF WorkerGet, world
    <2>3. CASE WorkerGetTimesOut
      BY <2>3 DEF WorkerGetTimesOut, AfterEmpty, world
    <2>4. CASE WorkerFill
      <3>1. Tail(queue) \in Seq(Events) /\ Head(queue) \in Events
        BY <2>4, ElementsOfTail DEF WorkerFill
      <3>2. held["worker"] \cup {Head(queue)} \in SUBSET Events
        BY <3>1 DEF Threads, Deliverers
      <3>3. QED
        BY <2>4, <3>1, <3>2 DEF WorkerFill, AfterTake, world
    <2>5. CASE WorkerFilled
      BY <2>5 DEF WorkerFilled, world
    <2>6. QED
      BY <1>3, <2>1, <2>2, <2>3, <2>4, <2>5 DEF WorkerRun
  <1>4. ASSUME NEW t \in Deliverers, DeliverBatch(t)
        PROVE  TypeOK'
    <2> t \in Threads
      BY DEF Threads
    <2>1. CASE AdapterRun(t)
      <3>1. PICK o \in Outcomes(target, held[t]) :
               /\ outcome' = [outcome EXCEPT ![t] = o]
               /\ status' = Stamp(Stamp(status, o.marked, "DELIVERED"), o.failed, "FAILED")
               /\ sent' = Bump(sent, o.sent)
               /\ wire' = Bump(wire, OnTheWire(o))
        BY <2>1 DEF AdapterRun
      <3>2. target \in TargetKinds /\ held[t] \in SUBSET Events
        BY DeliveryAssumption
      <3>3. o \in Outcome
        BY <3>2, OutcomesAreHonest DEF Honest
      <3>4. status' \in [Events -> Statuses]
        BY <3>1, StampType DEF Statuses
      <3>5. /\ sent' \in [Events -> Nat]
            /\ wire' \in [Events -> Nat] /\ calls' \in [Events -> Nat]
        BY <2>1, <3>1, BumpType DEF AdapterRun
      <3>6. QED
        BY <2>1, <3>1, <3>3, <3>4, <3>5 DEF AdapterRun
    <2>2. CASE AdapterReturn(t)
      <3>1. outcome[t] \in Outcome /\ attempt[t] \in Nat /\ held[t] \in SUBSET Events
        OBVIOUS
      <3>2. Cardinality(outcome[t].returned) \in Nat
        BY <3>1, TargetsAssumption, FS_Subset, FS_CardinalityType DEF Outcome
      <3>3. status' \in [Events -> Statuses]
        BY <2>2, StampType DEF AdapterReturn, Statuses
      <3>4. attempts' \in [Events -> Nat]
        BY <2>2, <3>1 DEF AdapterReturn, AttemptsOf
      <3>5. metrics' \in [MetricNames -> Nat]
        BY <2>2, <3>2 DEF AdapterReturn, NewlyDelivered, MetricNames
      <3>6. held' \in [Threads -> SUBSET Events] /\ attempt' \in [Deliverers -> Nat]
        BY <2>2, <3>1 DEF AdapterReturn, Left, NextAttempt
      <3>7. outcome' \in [Deliverers -> Outcome]
        BY <2>2 DEF AdapterReturn, NoOutcome, Outcome
      <3>8. AfterPass(t) \in {"idle", "loop", "stopped", "backoff", "spool"}
        BY DEF AfterPass, Done
      <3>9. QED
        BY <2>2, <3>3, <3>4, <3>5, <3>6, <3>7, <3>8 DEF AdapterReturn, world
    <2>3. CASE BackoffEnds(t)
      BY <2>3 DEF BackoffEnds, world
    <2>4. QED
      BY <1>4, <2>1, <2>2, <2>3 DEF DeliverBatch
  <1>5. ASSUME NEW t \in Threads, NEW e \in Events, SpoolSettles(t, e)
        PROVE  TypeOK'
    <2>1. PICK r \in SpoolResults(e) :
             /\ disk' = [disk EXCEPT ![e] = @ + r.lines]
             /\ status' = [status EXCEPT ![e] = SpoolVerdict(r)]
             /\ metrics' = IF r.ending = "written"
                           THEN [metrics EXCEPT !.spooled = @ + 1]
                           ELSE [metrics EXCEPT !.rejected = @ + 1]
      BY <1>5 DEF SpoolSettles
    <2>2. r.lines \in {0, 1}
      BY SpoolResultParts, Zenon
    <2>3. disk' \in [Events -> Nat] /\ status' \in [Events -> Statuses]
      BY <2>1, <2>2 DEF SpoolVerdict, Statuses
    <2>4. metrics' \in [MetricNames -> Nat]
      <3>1. \/ metrics' = [metrics EXCEPT !["spooled"] = @ + 1]
            \/ metrics' = [metrics EXCEPT !["rejected"] = @ + 1]
        BY <2>1
      <3>2. metrics \in [MetricNames -> Nat]
        OBVIOUS
      <3> HIDE DEF TypeOK
      <3>3. QED
        BY <3>1, <3>2 DEF MetricNames
    <2>5. Done(t) \in {"idle", "loop", "stopped"}
      BY DEF Done
    <2>6. attempt' \in [Deliverers -> Nat]
      <3>1. \/ attempt' = attempt
            \/ t \in Deliverers /\ attempt' = [attempt EXCEPT ![t] = 0]
        BY <1>5 DEF SpoolSettles
      <3>2. attempt \in [Deliverers -> Nat]
        OBVIOUS
      <3> HIDE DEF TypeOK
      <3>3. QED
        BY <3>1, <3>2
    <2>7. held' \in [Threads -> SUBSET Events] /\ pc' \in [Threads -> Labels]
      <3>1. /\ held' = [held EXCEPT ![t] = @ \ {e}]
            /\ pc' = [pc EXCEPT ![t] = Done(t)] \/ pc' = pc
        BY <1>5 DEF SpoolSettles
      <3>2. Done(t) \in Labels
        BY <2>5 DEF Labels
      <3>3. /\ held \in [Threads -> SUBSET Events]
            /\ pc \in [Threads -> Labels]
        OBVIOUS
      <3> HIDE DEF TypeOK
      <3>4. QED
        BY <3>1, <3>2, <3>3
    <2>8. /\ UNCHANGED <<target, stop, queue, outcome, attempts, sent, wire, calls, submitted,
                         early, lost>>
      BY <1>5 DEF SpoolSettles
    <2>9. QED
      BY <2>3, <2>4, <2>6, <2>7, <2>8
  <1>6. ASSUME NEW t \in Threads, NEW e \in Events, SpoolRaises(t, e)
        PROVE  TypeOK'
    <2>1. PICK r \in SpoolResults(e) : disk' = [disk EXCEPT ![e] = @ + r.lines]
      BY <1>6 DEF SpoolRaises
    <2>2. disk' \in [Events -> Nat]
      <3>1. r.lines \in {0, 1}
        BY SpoolResultParts, Zenon
      <3>2. QED
        BY <2>1, <3>1
    <2>3. Unwound(t) \in {"idle", "dead", "aborted"}
      BY DEF Unwound
    <2>4. attempt' \in [Deliverers -> Nat]
      BY <1>6 DEF SpoolRaises
    <2>5. QED
      BY <1>6, <2>2, <2>3, <2>4 DEF SpoolRaises, Dropped, CountRaised
  <1>7. CASE Stop
    <2>1. early' \in SUBSET Events
      <3>1. early' = Queued \cup held["worker"] /\ "worker" \in Threads
        BY <1>7 DEF Stop, Threads, Deliverers
      <3>2. Queued \in SUBSET Events
        BY DEF Queued, Elements
      <3>3. QED
        BY <3>1, <3>2
    <2>2. QED
      BY <1>7, <2>1 DEF Stop, world
  <1>8. CASE StopReturns
    <2>1. CASE JoinReturns
      BY <2>1 DEF JoinReturns, AfterJoin, world
    <2>2. CASE JoinTimesOut
      BY <2>2 DEF JoinTimesOut, world
    <2>3. CASE Drain
      <3>1. Tail(queue) \in Seq(Events) /\ Head(queue) \in Events
        BY <2>3, ElementsOfTail DEF Drain
      <3>2. held["main"] \cup {Head(queue)} \in SUBSET Events
        BY <3>1 DEF Threads, Deliverers
      <3>3. QED
        BY <2>3, <3>1, <3>2 DEF Drain, world
    <2>4. CASE Drained
      BY <2>4 DEF Drained, world
    <2>5. QED
      BY <1>8, <2>1, <2>2, <2>3, <2>4 DEF StopReturns
  <1>9. CASE Halt
    <2>1. lost' \in SUBSET Events
      BY <1>9 DEF Halt, InCustody, Queued, Elements, Held
    <2>2. QED
      <3>1. pc' = [pc EXCEPT !["main"] = "halted"] /\ queue' = <<>>
            /\ held' = [t \in Threads |-> {}]
            /\ UNCHANGED <<target, stop, attempt, outcome, status, attempts, metrics, world,
                           submitted, early>>
        BY <1>9 DEF Halt
      <3>2. queue' \in Seq(Events) /\ held' \in [Threads -> SUBSET Events]
        BY <3>1
      <3>3. QED
        BY <2>1, <3>1, <3>2 DEF world
  <1>10. CASE UNCHANGED vars
    BY <1>10 DEF vars, local, world
  <1>11. QED
    BY <1>1, <1>2, <1>3, <1>4, <1>5, <1>6, <1>7, <1>8, <1>9, <1>10 DEF Next, SpoolEvent

\* Every variable keeps its type.
THEOREM TypeCorrect == Spec => []TypeOK
  BY TypeInit, TypeStep, PTL DEF Spec

-----------------------------------------------------------------------------
(* Where the threads are and what they hold. *)

LEMMA HandsStep ==
    ASSUME TypeOK, Hands, [Next]_vars
    PROVE  Hands'
  <1> USE DEF Hands, EmptyHanded, Delivering, Running
  <1>0. /\ "worker" \in Threads /\ "main" \in Threads
        /\ Submitters \subseteq Threads /\ Deliverers \subseteq Threads
        /\ \A s \in Submitters : s # "worker" /\ s # "main"
        /\ pc \in [Threads -> Labels] /\ held \in [Threads -> SUBSET Events]
    BY DeliveryAssumption DEF Threads, Deliverers, TypeOK
  <1>1. ASSUME NEW s \in Submitters, Submit(s)
        PROVE  Hands'
    <2>1. ASSUME NEW e \in Events, SubmitCall(s, e)
          PROVE  Hands'
      BY <1>0, <2>1 DEF SubmitCall
    <2>2. ASSUME NEW e \in Events, PutInQueue(s, e)
          PROVE  Hands'
      BY <1>0, <2>2 DEF PutInQueue
    <2>3. CASE PutTimesOut(s)
      BY <1>0, <2>3 DEF PutTimesOut
    <2>4. QED
      BY <1>1, <2>1, <2>2, <2>3 DEF Submit
  <1>2. CASE Start
    BY <1>0, <1>2 DEF Start
  <1>3. CASE WorkerRun
    <2>1. CASE WorkerLoop
      BY <1>0, <2>1 DEF WorkerLoop, AtLoopTop
    <2>2. CASE WorkerGet
      BY <1>0, <2>2 DEF WorkerGet
    <2>3. CASE WorkerGetTimesOut
      BY <1>0, <2>3 DEF WorkerGetTimesOut, AfterEmpty
    <2>4. CASE WorkerFill
      BY <1>0, <2>4 DEF WorkerFill
    <2>5. CASE WorkerFilled
      BY <1>0, <2>5 DEF WorkerFilled
    <2>6. QED
      BY <1>3, <2>1, <2>2, <2>3, <2>4, <2>5 DEF WorkerRun
  <1>4. ASSUME NEW t \in Deliverers, DeliverBatch(t)
        PROVE  Hands'
    <2>0. t \in {"worker", "main"} /\ t \in Threads /\ t \notin Submitters
      BY <1>0 DEF Deliverers
    <2>1. CASE AdapterRun(t)
      BY <1>0, <2>0, <2>1 DEF AdapterRun
    <2>2. CASE AdapterReturn(t)
      <3>1. /\ held' = [held EXCEPT ![t] = Left(t)]
            /\ pc' = [pc EXCEPT ![t] = AfterPass(t)]
            /\ pc["main"] # "halted"
        BY <2>2 DEF AdapterReturn
      <3>2. \/ Left(t) = {} /\ t = "worker" /\ AfterPass(t) = "loop"
            \/ Left(t) = {} /\ t = "main" /\ AfterPass(t) = "stopped"
            \/ AfterPass(t) \in {"backoff", "spool"}
        BY <2>0 DEF AfterPass, Done
      <3>3. QED
        BY <1>0, <2>0, <3>1, <3>2
    <2>3. CASE BackoffEnds(t)
      BY <1>0, <2>0, <2>3 DEF BackoffEnds
    <2>4. QED
      BY <1>4, <2>1, <2>2, <2>3 DEF DeliverBatch
  <1>5. ASSUME NEW t \in Threads, NEW e \in Events, SpoolSettles(t, e)
        PROVE  Hands'
    <2>1. /\ held' = [held EXCEPT ![t] = @ \ {e}]
          /\ \/ held[t] = {e} /\ pc' = [pc EXCEPT ![t] = Done(t)]
             \/ UNCHANGED pc
          /\ pc["main"] # "halted" /\ pc[t] = "spool"
      BY <1>5 DEF SpoolSettles
    <2>2. CASE t \in Submitters
      <3>1. Done(t) = "idle"
        BY <1>0, <2>2 DEF Done
      <3>2. QED
        BY <1>0, <2>1, <2>2, <3>1
    <2>3. CASE t = "worker"
      <3>1. Done(t) = "loop"
        BY <2>3 DEF Done
      <3>2. QED
        BY <1>0, <2>1, <2>3, <3>1
    <2>4. CASE t = "main"
      <3>1. Done(t) = "stopped"
        BY <2>4 DEF Done
      <3>2. QED
        BY <1>0, <2>1, <2>4, <3>1
    <2>5. QED
      BY <2>2, <2>3, <2>4 DEF Threads, Deliverers
  <1>6. ASSUME NEW t \in Threads, NEW e \in Events, SpoolRaises(t, e)
        PROVE  Hands'
    <2>1. /\ held' = [held EXCEPT ![t] = {}]
          /\ pc' = [pc EXCEPT ![t] = Unwound(t)]
          /\ pc["main"] # "halted"
      BY <1>6 DEF SpoolRaises
    <2>2. \/ t = "worker" /\ Unwound(t) = "dead"
          \/ t = "main" /\ Unwound(t) = "aborted"
          \/ t \in Submitters /\ Unwound(t) = "idle"
      BY <1>0 DEF Unwound, Threads, Deliverers
    <2>3. QED
      BY <1>0, <2>1, <2>2
  <1>7. CASE Stop
    BY <1>0, <1>7 DEF Stop
  <1>8. CASE StopReturns
    <2>1. CASE JoinReturns
      BY <1>0, <2>1 DEF JoinReturns, AfterJoin
    <2>2. CASE JoinTimesOut
      BY <1>0, <2>2 DEF JoinTimesOut
    <2>3. CASE Drain
      BY <1>0, <2>3 DEF Drain
    <2>4. CASE Drained
      BY <1>0, <2>4 DEF Drained
    <2>5. QED
      BY <1>8, <2>1, <2>2, <2>3, <2>4 DEF StopReturns
  <1>9. CASE Halt
    BY <1>0, <1>9 DEF Halt
  <1>10. CASE UNCHANGED vars
    BY <1>10 DEF vars, local
  <1>11. QED
    BY <1>1, <1>2, <1>3, <1>4, <1>5, <1>6, <1>7, <1>8, <1>9, <1>10 DEF Next, SpoolEvent

LEMMA HandsInit == Init => Hands
  BY DeliveryAssumption DEF Init, Hands, EmptyHanded, Delivering, Running, Threads, Deliverers

-----------------------------------------------------------------------------
(* One holder at a time. *)

LEMMA CustodyStep ==
    ASSUME TypeOK, Hands, SingleCustody, [Next]_vars
    PROVE  SingleCustody'
  <1> USE DEF SingleCustody, Queued
  <1>0. /\ "worker" \in Threads /\ "main" \in Threads
        /\ Submitters \subseteq Threads /\ Deliverers \subseteq Threads
        /\ queue \in Seq(Events) /\ held \in [Threads -> SUBSET Events]
    BY DEF Threads, Deliverers, TypeOK
  <1>1. ASSUME NEW s \in Submitters, Submit(s)
        PROVE  SingleCustody'
    <2>1. ASSUME NEW e \in Events, SubmitCall(s, e)
          PROVE  SingleCustody'
      BY <1>0, <2>1 DEF SubmitCall
    <2>2. ASSUME NEW e \in Events, PutInQueue(s, e)
          PROVE  SingleCustody'
      <3>1. /\ queue' = Append(queue, e)
            /\ held' = [held EXCEPT ![s] = {}]
            /\ UNCHANGED <<submitted, lost>>
            /\ e \in held[s]
        BY <2>2 DEF PutInQueue
      <3>2. Elements(queue') = Elements(queue) \cup {e} /\ Distinct(queue')
        BY <1>0, <3>1, ElementsOfAppend
      <3>3. QED
        BY <1>0, <3>1, <3>2
    <2>3. CASE PutTimesOut(s)
      BY <2>3 DEF PutTimesOut
    <2>4. QED
      BY <1>1, <2>1, <2>2, <2>3 DEF Submit
  <1>2. ASSUME NEW t \in Deliverers, queue # <<>>, queue' = Tail(queue),
               held' = [held EXCEPT ![t] = @ \cup {Head(queue)}],
               UNCHANGED <<submitted, lost>>
        PROVE  SingleCustody'
    <2>1. /\ Elements(queue) = Elements(queue') \cup {Head(queue)}
          /\ Head(queue) \notin Elements(queue')
          /\ Distinct(queue')
      BY <1>0, <1>2, ElementsOfTail
    <2>2. \A u \in Threads :
             held'[u] = IF u = t THEN held[t] \cup {Head(queue)} ELSE held[u]
      BY <1>0, <1>2
    <2> HIDE <1>0
    <2>3. QED
      BY <1>2, <2>1, <2>2
  <1>3. CASE WorkerRun
    <2>1. CASE WorkerLoop \/ WorkerGetTimesOut \/ WorkerFilled
      BY <2>1 DEF WorkerLoop, WorkerGetTimesOut, WorkerFilled
    <2>2. CASE WorkerGet
      <3>1. held["worker"] = {}
        BY <1>0, <2>2 DEF WorkerGet, Hands, EmptyHanded
      <3>2. held' = [held EXCEPT !["worker"] = @ \cup {Head(queue)}]
        BY <2>2, <3>1 DEF WorkerGet
      <3>3. QED
        BY <1>2, <2>2, <3>2 DEF WorkerGet, Deliverers
    <2>3. CASE WorkerFill
      BY <1>2, <2>3 DEF WorkerFill, AfterTake, Deliverers
    <2>4. QED
      BY <1>3, <2>1, <2>2, <2>3 DEF WorkerRun
  <1>4. ASSUME NEW t \in Deliverers, DeliverBatch(t)
        PROVE  SingleCustody'
    <2>1. CASE AdapterRun(t) \/ BackoffEnds(t)
      BY <2>1 DEF AdapterRun, BackoffEnds
    <2>2. CASE AdapterReturn(t)
      <3>1. /\ held' = [held EXCEPT ![t] = Left(t)]
            /\ Left(t) \subseteq held[t]
            /\ UNCHANGED <<queue, submitted, lost>>
        BY <2>2 DEF AdapterReturn, Left
      <3>2. QED
        BY <1>0, <3>1
    <2>3. QED
      BY <1>4, <2>1, <2>2 DEF DeliverBatch
  <1>5. ASSUME NEW t \in Threads, NEW e \in Events, SpoolSettles(t, e)
        PROVE  SingleCustody'
    BY <1>0, <1>5 DEF SpoolSettles
  <1>6. ASSUME NEW t \in Threads, NEW e \in Events, SpoolRaises(t, e)
        PROVE  SingleCustody'
    BY <1>0, <1>6 DEF SpoolRaises, Dropped
  <1>7. CASE Start \/ Stop
    BY <1>7 DEF Start, Stop
  <1>8. CASE StopReturns
    <2>1. CASE JoinReturns \/ JoinTimesOut \/ Drained
      BY <2>1 DEF JoinReturns, JoinTimesOut, Drained
    <2>2. CASE Drain
      BY <1>2, <2>2 DEF Drain, Deliverers
    <2>3. QED
      BY <1>8, <2>1, <2>2 DEF StopReturns
  <1>9. CASE Halt
    <2>1. /\ lost' = lost \cup Elements(queue) \cup UNION {held[t] : t \in Threads}
          /\ queue' = <<>>
          /\ held' = [t \in Threads |-> {}]
          /\ UNCHANGED submitted
      BY <1>9 DEF Halt, InCustody, Held
    <2>2. lost' \subseteq submitted
      BY <2>1
    <2>3. Elements(queue') = {} /\ Distinct(queue')
      BY <2>1, ElementsOfEmpty
    <2>4. QED
      BY <2>1, <2>2, <2>3
  <1>10. CASE UNCHANGED vars
    BY <1>10 DEF vars, local
  <1>11. QED
    BY <1>1, <1>3, <1>4, <1>5, <1>6, <1>7, <1>8, <1>9, <1>10 DEF Next, SpoolEvent

-----------------------------------------------------------------------------
(* What a step does to the settled events. *)

LEMMA SettledIff ==
    \A e : e \in Settled <=> /\ e \in submitted
                             /\ e \notin Queued
                             /\ e \notin lost
                             /\ \A t \in Threads : e \notin held[t]
  BY DEF Settled, InCustody, Held

\* A step settles only what a target call returned or a spool call took.
LEMMA NewlySettled ==
    ASSUME TypeOK, Hands, SingleCustody, [Next]_vars,
           NEW e \in Settled', e \notin Settled
    PROVE  \/ \E t \in Deliverers : AdapterReturn(t) /\ e \in outcome[t].returned
           \/ \E t \in Threads : SpoolSettles(t, e)
  <1>0. /\ "worker" \in Threads /\ "main" \in Threads
        /\ Submitters \subseteq Threads /\ Deliverers \subseteq Threads
        /\ queue \in Seq(Events) /\ held \in [Threads -> SUBSET Events]
    BY DEF Threads, Deliverers, TypeOK
  <1>1. /\ e \in submitted' /\ e \notin Elements(queue') /\ e \notin lost'
        /\ \A t \in Threads : e \notin held'[t]
    BY DEF Settled, InCustody, Held, Queued
  <1>2. \/ e \notin submitted \/ e \in Elements(queue) \/ e \in lost
        \/ \E t \in Threads : e \in held[t]
    BY SettledIff DEF Queued
  <1>3. ASSUME NEW s \in Submitters, Submit(s)
        PROVE  FALSE
    <2>1. ASSUME NEW f \in Events, SubmitCall(s, f)
          PROVE  FALSE
      BY <1>0, <1>1, <1>2, <2>1 DEF SubmitCall, Hands, EmptyHanded
    <2>2. ASSUME NEW f \in Events, PutInQueue(s, f)
          PROVE  FALSE
      <3>1. /\ Elements(queue') = Elements(queue) \cup {f}
            /\ f \in held[s] /\ held' = [held EXCEPT ![s] = {}]
            /\ UNCHANGED <<submitted, lost>>
        BY <1>0, <2>2, ElementsOfAppend DEF PutInQueue
      <3>2. held[s] = {f}
        BY <3>1 DEF Hands
      <3>3. QED
        BY <1>0, <1>1, <1>2, <3>1, <3>2
    <2>3. CASE PutTimesOut(s)
      BY <1>1, <1>2, <2>3 DEF PutTimesOut
    <2>4. QED
      BY <1>3, <2>1, <2>2, <2>3 DEF Submit
  <1>4. ASSUME NEW t \in Deliverers, queue # <<>>, queue' = Tail(queue),
               held' = [held EXCEPT ![t] = @ \cup {Head(queue)}],
               UNCHANGED <<submitted, lost>>
        PROVE  FALSE
    <2>1. Elements(queue) = Elements(queue') \cup {Head(queue)}
      BY <1>0, <1>4, ElementsOfTail
    <2>2. QED
      BY <1>0, <1>1, <1>2, <1>4, <2>1
  <1>5. CASE WorkerRun
    <2>1. CASE WorkerLoop \/ WorkerGetTimesOut \/ WorkerFilled
      BY <1>1, <1>2, <2>1 DEF WorkerLoop, WorkerGetTimesOut, WorkerFilled
    <2>2. CASE WorkerGet
      <3>1. held["worker"] = {}
        BY <1>0, <2>2 DEF WorkerGet, Hands, EmptyHanded
      <3>2. held' = [held EXCEPT !["worker"] = @ \cup {Head(queue)}]
        BY <2>2, <3>1 DEF WorkerGet
      <3>3. QED
        BY <1>4, <2>2, <3>2 DEF WorkerGet, Deliverers
    <2>3. CASE WorkerFill
      BY <1>4, <2>3 DEF WorkerFill, AfterTake, Deliverers
    <2>4. QED
      BY <1>5, <2>1, <2>2, <2>3 DEF WorkerRun
  <1>6. ASSUME NEW t \in Deliverers, DeliverBatch(t)
        PROVE  AdapterReturn(t) /\ e \in outcome[t].returned
    <2>1. CASE AdapterRun(t) \/ BackoffEnds(t)
      BY <1>1, <1>2, <2>1 DEF AdapterRun, BackoffEnds
    <2>2. CASE AdapterReturn(t)
      <3>1. /\ held' = [held EXCEPT ![t] = held[t] \ outcome[t].returned]
            /\ UNCHANGED <<queue, submitted, lost>>
        BY <2>2 DEF AdapterReturn, Left
      <3>2. QED
        BY <1>0, <1>1, <1>2, <2>2, <3>1
    <2>3. QED
      BY <1>6, <2>1, <2>2 DEF DeliverBatch
  <1>7. ASSUME NEW t \in Threads, NEW f \in Events, SpoolSettles(t, f)
        PROVE  SpoolSettles(t, e)
    <2>1. /\ held' = [held EXCEPT ![t] = @ \ {f}]
          /\ UNCHANGED <<queue, submitted, lost>>
      BY <1>7 DEF SpoolSettles
    <2>2. e = f
      BY <1>0, <1>1, <1>2, <2>1
    <2>3. QED
      BY <1>7, <2>2
  <1>8. ASSUME NEW t \in Threads, NEW f \in Events, SpoolRaises(t, f)
        PROVE  FALSE
    BY <1>0, <1>1, <1>2, <1>8 DEF SpoolRaises, Dropped
  <1>9. CASE Start \/ Stop
    BY <1>1, <1>2, <1>9 DEF Start, Stop
  <1>10. CASE StopReturns
    <2>1. CASE JoinReturns \/ JoinTimesOut \/ Drained
      BY <1>1, <1>2, <2>1 DEF JoinReturns, JoinTimesOut, Drained
    <2>2. CASE Drain
      BY <1>4, <2>2 DEF Drain, Deliverers
    <2>3. QED
      BY <1>10, <2>1, <2>2 DEF StopReturns
  <1>11. CASE Halt
    BY <1>1, <1>2, <1>11 DEF Halt, InCustody, Held, Queued
  <1>12. CASE UNCHANGED vars
    BY <1>1, <1>2, <1>12 DEF vars, local
  <1>13. QED
    BY <1>3, <1>5, <1>6, <1>7, <1>8, <1>9, <1>10, <1>11, <1>12 DEF Next, SpoolEvent

\* A settled event stays settled and is not touched: it has no holder, and every
\* step changes only what its own thread holds.
Untouched(e) ==
    /\ status'[e] = status[e]
    /\ attempts'[e] = attempts[e]
    /\ sent'[e] = sent[e]
    /\ wire'[e] = wire[e]
    /\ disk'[e] = disk[e]
    /\ calls'[e] = calls[e]

LEMMA OnlyTheHeldChange ==
    ASSUME TypeOK, ResultsAreHonest, [Next]_vars, NEW e \in Events,
           \A t \in Threads : e \notin held[t]
    PROVE  Untouched(e)
  <1> USE DEF Untouched
  <1>0. /\ Deliverers \subseteq Threads
        /\ status \in [Events -> Statuses] /\ attempts \in [Events -> Nat]
        /\ sent \in [Events -> Nat] /\ wire \in [Events -> Nat]
        /\ disk \in [Events -> Nat] /\ calls \in [Events -> Nat]
    BY DEF Threads, TypeOK
  <1>1. ASSUME NEW s \in Submitters, Submit(s)
        PROVE  Untouched(e)
    BY <1>1 DEF Submit, SubmitCall, PutInQueue, PutTimesOut, world
  <1>2. CASE Start \/ WorkerRun
    BY <1>2 DEF Start, WorkerRun, WorkerLoop, WorkerGet, WorkerGetTimesOut, WorkerFill,
                WorkerFilled, world
  <1>3. ASSUME NEW t \in Deliverers, DeliverBatch(t)
        PROVE  Untouched(e)
    <2>0. e \notin held[t]
      BY <1>0
    <2>1. CASE AdapterRun(t)
      <3>1. PICK o \in Outcomes(target, held[t]) :
               /\ status' = Stamp(Stamp(status, o.marked, "DELIVERED"), o.failed, "FAILED")
               /\ sent' = Bump(sent, o.sent)
               /\ wire' = Bump(wire, OnTheWire(o))
        BY <2>1 DEF AdapterRun
      <3>2. target \in TargetKinds /\ held[t] \in SUBSET Events
        BY DeliveryAssumption, <1>0 DEF TypeOK
      <3>3. /\ o.sent \subseteq held[t] /\ o.taken \subseteq held[t]
            /\ o.marked \subseteq held[t] /\ o.failed \subseteq held[t]
        BY <3>2, OutcomesAreHonest DEF Honest
      <3>4. status'[e] = status[e] /\ sent'[e] = sent[e] /\ wire'[e] = wire[e]
        BY <2>0, <3>1, <3>3 DEF Stamp, Bump, OnTheWire
      <3>5. calls'[e] = calls[e] /\ UNCHANGED <<attempts, disk>>
        BY <2>0, <2>1 DEF AdapterRun, Bump
      <3>6. QED
        BY <3>4, <3>5
    <2>2. CASE AdapterReturn(t)
      <3>1. outcome[t].returned \subseteq held[t]
        BY <2>2 DEF AdapterReturn, ResultsAreHonest, Honest
      <3>2. QED
        BY <2>0, <2>2, <3>1 DEF AdapterReturn, Stamp, world
    <2>3. CASE BackoffEnds(t)
      BY <2>3 DEF BackoffEnds, world
    <2>4. QED
      BY <1>3, <2>1, <2>2, <2>3 DEF DeliverBatch
  <1>4. ASSUME NEW t \in Threads, NEW f \in Events, SpoolSettles(t, f)
        PROVE  Untouched(e)
    <2>1. f # e
      BY <1>4 DEF SpoolSettles
    <2>2. PICK r \in SpoolResults(f) : /\ disk' = [disk EXCEPT ![f] = @ + r.lines]
                                       /\ status' = [status EXCEPT ![f] = SpoolVerdict(r)]
      BY <1>4 DEF SpoolSettles
    <2>3. UNCHANGED <<attempts, sent, wire, calls>>
      BY <1>4 DEF SpoolSettles
    <2>4. QED
      BY <1>0, <2>1, <2>2, <2>3
  <1>5. ASSUME NEW t \in Threads, NEW f \in Events, SpoolRaises(t, f)
        PROVE  Untouched(e)
    <2>1. f # e
      BY <1>5 DEF SpoolRaises
    <2>2. PICK r \in SpoolResults(f) : disk' = [disk EXCEPT ![f] = @ + r.lines]
      BY <1>5 DEF SpoolRaises
    <2>3. UNCHANGED <<status, attempts, sent, wire, calls>>
      BY <1>5 DEF SpoolRaises
    <2>4. QED
      BY <1>0, <2>1, <2>2, <2>3
  <1>6. CASE Stop \/ StopReturns \/ Halt
    BY <1>6 DEF Stop, StopReturns, JoinReturns, JoinTimesOut, Drain, Drained, Halt, world
  <1>7. CASE UNCHANGED vars
    BY <1>7 DEF vars, world
  <1>8. QED
    BY <1>1, <1>2, <1>3, <1>4, <1>5, <1>6, <1>7 DEF Next, SpoolEvent

\* A settled event is not held, queued or lost again.
LEMMA StaysSettled ==
    ASSUME TypeOK, SingleCustody, [Next]_vars, NEW e \in Settled
    PROVE  e \in Settled'
  <1>0. /\ "worker" \in Threads /\ "main" \in Threads
        /\ Submitters \subseteq Threads /\ Deliverers \subseteq Threads
        /\ queue \in Seq(Events) /\ held \in [Threads -> SUBSET Events]
    BY DEF Threads, Deliverers, TypeOK
  <1>1. /\ e \in submitted /\ e \notin Elements(queue) /\ e \notin lost
        /\ \A t \in Threads : e \notin held[t]
    BY SettledIff DEF Queued
  <1> SUFFICES /\ e \in submitted' /\ e \notin Elements(queue') /\ e \notin lost'
               /\ \A t \in Threads : e \notin held'[t]
    BY DEF Settled, InCustody, Held, Queued
  <1> DEFINE Stays == /\ e \in submitted' /\ e \notin Elements(queue') /\ e \notin lost'
                      /\ \A t \in Threads : e \notin held'[t]
  <1>2. ASSUME NEW s \in Submitters, Submit(s)
        PROVE  Stays
    <2>1. ASSUME NEW f \in Events, SubmitCall(s, f)
          PROVE  Stays
      BY <1>0, <1>1, <2>1 DEF SubmitCall
    <2>2. ASSUME NEW f \in Events, PutInQueue(s, f)
          PROVE  Stays
      <3>1. /\ Elements(queue') = Elements(queue) \cup {f}
            /\ f \in held[s] /\ held' = [held EXCEPT ![s] = {}]
            /\ UNCHANGED <<submitted, lost>>
        BY <1>0, <2>2, ElementsOfAppend DEF PutInQueue
      <3>2. QED
        BY <1>0, <1>1, <3>1
    <2>3. CASE PutTimesOut(s)
      BY <1>1, <2>3 DEF PutTimesOut
    <2>4. QED
      BY <1>2, <2>1, <2>2, <2>3 DEF Submit
  <1>3. ASSUME NEW t \in Deliverers, queue # <<>>, queue' = Tail(queue),
               \/ held' = [held EXCEPT ![t] = @ \cup {Head(queue)}]
               \/ held' = [held EXCEPT ![t] = {Head(queue)}],
               UNCHANGED <<submitted, lost>>
        PROVE  Stays
    <2>1. Elements(queue) = Elements(queue') \cup {Head(queue)}
      BY <1>0, <1>3, ElementsOfTail
    <2>2. QED
      BY <1>0, <1>1, <1>3, <2>1
  <1>4. CASE WorkerRun
    <2>1. CASE WorkerLoop \/ WorkerGetTimesOut \/ WorkerFilled
      BY <1>1, <2>1 DEF WorkerLoop, WorkerGetTimesOut, WorkerFilled
    <2>2. CASE WorkerGet
      BY <1>3, <2>2 DEF WorkerGet, Deliverers
    <2>3. CASE WorkerFill
      BY <1>3, <2>3 DEF WorkerFill, AfterTake, Deliverers
    <2>4. QED
      BY <1>4, <2>1, <2>2, <2>3 DEF WorkerRun
  <1>5. ASSUME NEW t \in Deliverers, DeliverBatch(t)
        PROVE  Stays
    <2>1. CASE AdapterRun(t) \/ BackoffEnds(t)
      BY <1>1, <2>1 DEF AdapterRun, BackoffEnds
    <2>2. CASE AdapterReturn(t)
      BY <1>0, <1>1, <2>2 DEF AdapterReturn, Left
    <2>3. QED
      BY <1>5, <2>1, <2>2 DEF DeliverBatch
  <1>6. ASSUME NEW t \in Threads, NEW f \in Events, SpoolSettles(t, f) \/ SpoolRaises(t, f)
        PROVE  Stays
    BY <1>0, <1>1, <1>6 DEF SpoolSettles, SpoolRaises, Dropped
  <1>7. CASE Start \/ Stop
    BY <1>1, <1>7 DEF Start, Stop
  <1>8. CASE StopReturns
    <2>1. CASE JoinReturns \/ JoinTimesOut \/ Drained
      BY <1>1, <2>1 DEF JoinReturns, JoinTimesOut, Drained
    <2>2. CASE Drain
      BY <1>3, <2>2 DEF Drain, Deliverers
    <2>3. QED
      BY <1>8, <2>1, <2>2 DEF StopReturns
  <1>9. CASE Halt
    BY <1>1, <1>9, ElementsOfEmpty DEF Halt, InCustody, Held, Queued
  <1>10. CASE UNCHANGED vars
    BY <1>1, <1>10 DEF vars, local
  <1>11. QED
    BY <1>2, <1>4, <1>5, <1>6, <1>7, <1>8, <1>9, <1>10 DEF Next, SpoolEvent

-----------------------------------------------------------------------------
(* Retries and calls. *)

LEMMA ThreadFacts ==
    /\ "worker" \in Threads /\ "main" \in Threads
    /\ Submitters \subseteq Threads /\ Deliverers \subseteq Threads
    /\ \A s \in Submitters : s \notin Deliverers
    /\ MaxRetries \in Nat
  BY DeliveryAssumption DEF Threads, Deliverers

LEMMA PassCountStep ==
    ASSUME TypeOK, Hands, PassCount, [Next]_vars
    PROVE  PassCount'
  <1> USE DEF PassCount, Delivering
  <1>0. /\ pc \in [Threads -> Labels] /\ attempt \in [Deliverers -> Nat]
        /\ "worker" \in Deliverers /\ "main" \in Deliverers
    BY DEF TypeOK, Deliverers
  <1>1. ASSUME NEW s \in Submitters, Submit(s)
        PROVE  PassCount'
    <2>1. /\ UNCHANGED attempt
          /\ \A t \in Deliverers : pc'[t] = pc[t]
      BY <1>0, <1>1, ThreadFacts DEF Submit, SubmitCall, PutInQueue, PutTimesOut
    <2>2. QED
      BY <2>1
  <1>2. CASE Start \/ WorkerRun
    <2>1. /\ UNCHANGED attempt
          /\ \A t \in Deliverers : t # "worker" => pc'[t] = pc[t]
          /\ \/ pc'["worker"] \in {"exited", "get", "loop", "fill"}
             \/ pc'["worker"] = "call"
          /\ pc["worker"] \in {"new", "loop", "get", "fill"}
      BY <1>0, <1>2, ThreadFacts
         DEF Start, WorkerRun, WorkerLoop, AtLoopTop, WorkerGet, WorkerGetTimesOut,
             AfterEmpty, WorkerFill, WorkerFilled
    <2>2. QED
      BY <2>1, ThreadFacts
  <1>3. ASSUME NEW t \in Deliverers, DeliverBatch(t)
        PROVE  PassCount'
    <2>1. CASE AdapterRun(t)
      BY <1>0, <2>1, ThreadFacts DEF AdapterRun
    <2>2. CASE AdapterReturn(t)
      <3>1. /\ pc[t] = "return"
            /\ attempt' = [attempt EXCEPT ![t] = NextAttempt(t)]
            /\ pc' = [pc EXCEPT ![t] = AfterPass(t)]
        BY <2>2 DEF AdapterReturn
      <3>2. \/ NextAttempt(t) = 0 /\ AfterPass(t) \in {"idle", "loop", "stopped"}
            \/ /\ NextAttempt(t) = attempt[t] + 1 /\ attempt[t] + 1 <= MaxRetries
               /\ AfterPass(t) = "backoff"
            \/ /\ NextAttempt(t) = attempt[t] + 1 /\ ~(attempt[t] + 1 <= MaxRetries)
               /\ AfterPass(t) = "spool"
        BY DEF NextAttempt, AfterPass, Done, RetryAllowed
      <3>3. attempt[t] \in Nat /\ attempt[t] <= MaxRetries
        BY <1>0, <3>1
      <3>4. QED
        BY <1>0, <3>1, <3>2, <3>3, ThreadFacts
    <2>3. CASE BackoffEnds(t)
      BY <1>0, <2>3, ThreadFacts DEF BackoffEnds
    <2>4. QED
      BY <1>3, <2>1, <2>2, <2>3 DEF DeliverBatch
  <1>4. ASSUME NEW t \in Threads, NEW e \in Events, SpoolSettles(t, e)
        PROVE  PassCount'
    <2>1. \/ /\ pc' = [pc EXCEPT ![t] = Done(t)]
             /\ attempt' = IF t \in Deliverers THEN [attempt EXCEPT ![t] = 0] ELSE attempt
          \/ UNCHANGED <<pc, attempt>>
      BY <1>4 DEF SpoolSettles
    <2>2. Done(t) \in {"idle", "loop", "stopped"}
      BY DEF Done
    <2>3. QED
      BY <1>0, <2>1, <2>2, ThreadFacts
  <1>5. ASSUME NEW t \in Threads, NEW e \in Events, SpoolRaises(t, e)
        PROVE  PassCount'
    <2>1. Unwound(t) \in {"idle", "dead", "aborted"}
      BY DEF Unwound
    <2>2. QED
      BY <1>0, <1>5, <2>1, ThreadFacts DEF SpoolRaises
  <1>6. CASE Stop \/ StopReturns \/ Halt
    <2>1. /\ UNCHANGED attempt
          /\ \A t \in Deliverers : t # "main" => pc'[t] = pc[t]
          /\ pc'["main"] \in {"drain", "join", "stopped", "call", "halted"}
          /\ pc["main"] \in {"up", "join", "drain", "stopped", "aborted"}
      BY <1>0, <1>6, ThreadFacts
         DEF Stop, StopReturns, JoinReturns, AfterJoin, JoinTimesOut, Drain, Drained, Halt
    <2>2. QED
      BY <2>1, ThreadFacts
  <1>7. CASE UNCHANGED vars
    BY <1>7 DEF vars, local
  <1>8. QED
    BY <1>1, <1>2, <1>3, <1>4, <1>5, <1>6, <1>7 DEF Next, SpoolEvent

LEMMA ResultsStep ==
    ASSUME TypeOK, Hands, ResultsAreHonest, [Next]_vars
    PROVE  ResultsAreHonest'
  <1> USE DEF ResultsAreHonest, Running
  <1>0. /\ pc \in [Threads -> Labels] /\ held \in [Threads -> SUBSET Events]
        /\ outcome \in [Deliverers -> Outcome]
        /\ sent \in [Events -> Nat] /\ wire \in [Events -> Nat]
        /\ "worker" \in Deliverers /\ "main" \in Deliverers
    BY DEF TypeOK, Deliverers
  <1>1. ASSUME NEW s \in Submitters, Submit(s)
        PROVE  ResultsAreHonest'
    <2>1. /\ UNCHANGED <<target, outcome, sent, wire>>
          /\ \A t \in Deliverers : pc'[t] = pc[t] /\ held'[t] = held[t]
      BY <1>0, <1>1, ThreadFacts DEF Submit, SubmitCall, PutInQueue, PutTimesOut, world
    <2>2. QED
      BY <1>0, <2>1
  <1>2. CASE Start \/ WorkerRun
    <2>1. /\ UNCHANGED <<target, outcome, sent, wire>>
          /\ \A t \in Deliverers : t # "worker" => pc'[t] = pc[t] /\ held'[t] = held[t]
          /\ pc'["worker"] # "return"
      BY <1>0, <1>2, ThreadFacts
         DEF Start, WorkerRun, WorkerLoop, AtLoopTop, WorkerGet, WorkerGetTimesOut,
             AfterEmpty, WorkerFill, WorkerFilled, world
    <2>2. QED
      BY <1>0, <2>1
  <1>3. ASSUME NEW t \in Deliverers, DeliverBatch(t)
        PROVE  ResultsAreHonest'
    <2>1. CASE AdapterRun(t)
      <3>1. PICK o \in Outcomes(target, held[t]) :
               /\ outcome' = [outcome EXCEPT ![t] = o]
               /\ sent' = Bump(sent, o.sent)
               /\ wire' = Bump(wire, o.taken)
        BY <2>1 DEF AdapterRun, OnTheWire
      <3>2. target \in TargetKinds /\ held[t] \in SUBSET Events
        BY DeliveryAssumption, <1>0, ThreadFacts DEF TypeOK
      <3>3. Honest(target, o, held[t])
        BY <3>2, OutcomesAreHonest
      <3>4. /\ \A e \in o.sent : sent'[e] >= 1
            /\ \A e \in o.taken : wire'[e] >= 1
        BY <1>0, <3>1, <3>2, <3>3 DEF Bump, Honest
      <3>5. \A e \in Events :
               /\ sent'[e] \in Nat /\ sent[e] \in Nat /\ sent'[e] >= sent[e]
               /\ wire'[e] \in Nat /\ wire[e] \in Nat /\ wire'[e] >= wire[e]
        BY <1>0, <3>1 DEF Bump
      <3>6. outcome'[t] = o /\ \A u \in Deliverers : u # t => outcome'[u] = outcome[u]
        BY <1>0, <3>1
      <3>7. UNCHANGED <<target, held>> /\ \A u \in Deliverers : u # t => pc'[u] = pc[u]
        BY <1>0, <2>1, ThreadFacts DEF AdapterRun
      <3>8. ASSUME NEW u \in Deliverers, u # t, Running', pc'[u] = "return"
            PROVE  /\ Honest(target', outcome'[u], held'[u])
                   /\ \A e \in outcome'[u].sent : sent'[e] >= 1
                   /\ \A e \in outcome'[u].taken : wire'[e] >= 1
        <4>1. pc[u] = "return" /\ Running
          BY <2>1, <3>7, <3>8 DEF AdapterRun
        <4>2. /\ Honest(target, outcome[u], held[u])
              /\ \A e \in outcome[u].sent : sent[e] >= 1
              /\ \A e \in outcome[u].taken : wire[e] >= 1
          BY <4>1
        <4>3. /\ \A e \in outcome[u].sent : sent'[e] >= 1
              /\ \A e \in outcome[u].taken : wire'[e] >= 1
          <5>1. outcome[u].sent \subseteq Events /\ outcome[u].taken \subseteq Events
            BY <4>2 DEF Honest, Outcome
          <5>2. QED
            BY <3>5, <4>2, <5>1
        <4>4. QED
          BY <3>6, <3>7, <3>8, <4>2, <4>3
      <3>9. QED
        BY <3>3, <3>4, <3>6, <3>7, <3>8
    <2>2. CASE AdapterReturn(t)
      <3>1. AfterPass(t) # "return"
        BY DEF AfterPass, Done
      <3>2. /\ UNCHANGED <<target, sent, wire>>
            /\ \A u \in Deliverers : u # t => /\ pc'[u] = pc[u]
                                             /\ outcome'[u] = outcome[u]
                                             /\ held'[u] = held[u]
            /\ pc'[t] # "return" /\ Running
        BY <1>0, <2>2, <3>1, ThreadFacts DEF AdapterReturn, world
      <3>3. QED
        BY <3>2
    <2>3. CASE BackoffEnds(t)
      BY <1>0, <2>3, ThreadFacts DEF BackoffEnds, world
    <2>4. QED
      BY <1>3, <2>1, <2>2, <2>3 DEF DeliverBatch
  <1>4. ASSUME NEW t \in Threads, NEW e \in Events, SpoolSettles(t, e) \/ SpoolRaises(t, e)
        PROVE  ResultsAreHonest'
    <2>1. Done(t) # "return" /\ Unwound(t) # "return"
      BY DEF Done, Unwound
    <2>2. /\ UNCHANGED <<target, outcome, sent, wire>>
          /\ pc[t] = "spool" /\ pc'[t] # "return" /\ Running
          /\ \A u \in Threads : u # t => pc'[u] = pc[u] /\ held'[u] = held[u]
      BY <1>0, <1>4, <2>1 DEF SpoolSettles, SpoolRaises
    <2>3. QED
      BY <2>2, ThreadFacts
  <1>5. CASE Stop \/ StopReturns
    <2>1. /\ UNCHANGED <<target, outcome, sent, wire>>
          /\ \A t \in Deliverers : t # "main" => pc'[t] = pc[t] /\ held'[t] = held[t]
          /\ pc'["main"] # "return"
      BY <1>0, <1>5, ThreadFacts
         DEF Stop, StopReturns, JoinReturns, AfterJoin, JoinTimesOut, Drain, Drained, world
    <2>2. Running
      BY <1>5 DEF Stop, StopReturns, JoinReturns, JoinTimesOut, Drain, Drained
    <2>3. QED
      BY <2>1, <2>2
  <1>6. CASE Halt
    BY <1>0, <1>6, ThreadFacts DEF Halt
  <1>7. CASE UNCHANGED vars
    BY <1>7 DEF vars, local, world
  <1>8. QED
    BY <1>1, <1>2, <1>3, <1>4, <1>5, <1>6, <1>7 DEF Next, SpoolEvent

LEMMA CallsMatchStep ==
    ASSUME TypeOK, Hands, SingleCustody, PassCount, ResultsAreHonest, CallsMatch, [Next]_vars
    PROVE  CallsMatch'
  <1> USE DEF CallsMatch
  <1>0. /\ pc \in [Threads -> Labels] /\ held \in [Threads -> SUBSET Events]
        /\ attempt \in [Deliverers -> Nat] /\ calls \in [Events -> Nat]
        /\ queue \in Seq(Events) /\ submitted \in SUBSET Events
        /\ "worker" \in Deliverers /\ "main" \in Deliverers
    BY DEF TypeOK, Deliverers
  <1>1. ASSUME NEW s \in Submitters, Submit(s)
        PROVE  CallsMatch'
    <2>1. ASSUME NEW e \in Events, SubmitCall(s, e)
          PROVE  CallsMatch'
      <3>1. /\ e \notin submitted /\ submitted' = submitted \cup {e}
            /\ held' = [held EXCEPT ![s] = {e}]
            /\ UNCHANGED <<calls, attempt, queue>>
            /\ \A t \in Deliverers : pc'[t] = pc[t]
        BY <1>0, <2>1, ThreadFacts DEF SubmitCall, world
      <3>2. QED
        BY <1>0, <3>1, ThreadFacts DEF Queued
    <2>2. ASSUME NEW e \in Events, PutInQueue(s, e)
          PROVE  CallsMatch'
      <3>1. /\ Elements(queue') = Elements(queue) \cup {e}
            /\ e \in held[s] /\ held' = [held EXCEPT ![s] = {}]
            /\ UNCHANGED <<calls, attempt, submitted>>
            /\ \A t \in Deliverers : pc'[t] = pc[t]
        BY <1>0, <2>2, ElementsOfAppend, ThreadFacts DEF PutInQueue, world
      <3>2. QED
        BY <1>0, <3>1, ThreadFacts DEF Queued
    <2>3. CASE PutTimesOut(s)
      <3>1. /\ UNCHANGED <<calls, attempt, submitted, queue, held>>
            /\ \A t \in Deliverers : pc'[t] = pc[t]
        BY <1>0, <2>3, ThreadFacts DEF PutTimesOut, world
      <3>2. QED
        BY <3>1 DEF Queued
    <2>4. QED
      BY <1>1, <2>1, <2>2, <2>3 DEF Submit
  <1>2. ASSUME NEW t \in Deliverers, queue # <<>>, queue' = Tail(queue),
               held' = [held EXCEPT ![t] = @ \cup {Head(queue)}],
               pc[t] \notin Delivering, pc'[t] # "return",
               \A u \in Deliverers : u # t => pc'[u] = pc[u],
               UNCHANGED <<submitted, calls, attempt>>
        PROVE  CallsMatch'
    <2>1. /\ Elements(queue) = Elements(queue') \cup {Head(queue)}
          /\ Head(queue) \in Events
      BY <1>0, <1>2, ElementsOfTail
    <2>2. calls[Head(queue)] = 0
      BY <2>1 DEF Queued
    <2>3. attempt[t] = 0
      BY <1>2 DEF PassCount
    <2>4. \A e \in held'[t] : calls[e] = attempt[t]
      <3>1. pc[t] # "return"
        BY <1>2 DEF Delivering
      <3>2. QED
        BY <1>0, <1>2, <2>2, <2>3, <3>1, ThreadFacts
    <2>5. \A u \in Threads : u # t => held'[u] = held[u]
      BY <1>0, <1>2, ThreadFacts
    <2>6. QED
      BY <1>0, <1>2, <2>1, <2>4, <2>5, ThreadFacts DEF Queued
  <1>3. CASE WorkerRun
    <2>1. CASE WorkerLoop \/ WorkerGetTimesOut \/ WorkerFilled
      <3>1. /\ UNCHANGED <<calls, attempt, submitted, queue, held>>
            /\ pc["worker"] # "return" /\ pc'["worker"] # "return"
            /\ pc'["main"] = pc["main"]
        BY <1>0, <2>1, ThreadFacts
           DEF WorkerLoop, AtLoopTop, WorkerGetTimesOut, AfterEmpty, WorkerFilled, world
      <3>2. QED
        BY <3>1 DEF Queued, Deliverers
    <2>2. CASE WorkerGet
      <3>1. held["worker"] = {}
        BY <1>0, <2>2, ThreadFacts DEF WorkerGet, Hands, EmptyHanded
      <3>2. held' = [held EXCEPT !["worker"] = @ \cup {Head(queue)}]
        BY <2>2, <3>1 DEF WorkerGet
      <3>3. pc["worker"] \notin Delivering /\ pc'["worker"] # "return" /\ pc'["main"] = pc["main"]
        BY <1>0, <2>2, ThreadFacts DEF WorkerGet, Delivering
      <3>4. QED
        BY <1>0, <1>2, <2>2, <3>2, <3>3 DEF WorkerGet, Deliverers, world
    <2>3. CASE WorkerFill
      <3>1. pc["worker"] \notin Delivering /\ UNCHANGED pc
        BY <2>3 DEF WorkerFill, Delivering
      <3>2. pc'["worker"] # "return"
        BY <3>1 DEF Delivering
      <3>3. QED
        BY <1>0, <1>2, <2>3, <3>1, <3>2 DEF WorkerFill, AfterTake, world
    <2>4. QED
      BY <1>3, <2>1, <2>2, <2>3 DEF WorkerRun
  <1>4. ASSUME NEW t \in Deliverers, DeliverBatch(t)
        PROVE  CallsMatch'
    <2>1. CASE AdapterRun(t)
      <3>1. /\ calls' = Bump(calls, held[t])
            /\ pc[t] = "call" /\ pc' = [pc EXCEPT ![t] = "return"]
            /\ UNCHANGED <<attempt, submitted, queue, held>>
        BY <2>1 DEF AdapterRun
      <3>2. \A e \in held[t] : calls'[e] = attempt[t] + 1
        BY <1>0, <3>1, ThreadFacts DEF Bump
      <3>3. \A e \in Events : e \notin held[t] => calls'[e] = calls[e]
        BY <3>1 DEF Bump
      <3>4. \A u \in Deliverers : u # t => pc'[u] = pc[u]
        BY <1>0, <3>1, ThreadFacts
      <3>5. \A u \in Threads : u # t => \A e \in held[u] : e \in Events /\ e \notin held[t]
        BY <1>0, ThreadFacts DEF SingleCustody
      <3>6. \A e \in Queued \cup (Events \ submitted) : e \in Events /\ e \notin held[t]
        BY <1>0, ThreadFacts DEF SingleCustody, Queued, Elements
      <3>7. pc'[t] = "return"
        BY <1>0, <3>1, ThreadFacts
      <3>8. QED
        BY <3>1, <3>2, <3>3, <3>4, <3>5, <3>6, <3>7, ThreadFacts DEF Queued
    <2>2. CASE AdapterReturn(t)
      <3>1. /\ held' = [held EXCEPT ![t] = Left(t)]
            /\ attempt' = [attempt EXCEPT ![t] = NextAttempt(t)]
            /\ pc[t] = "return" /\ pc' = [pc EXCEPT ![t] = AfterPass(t)]
            /\ UNCHANGED <<calls, submitted, queue>>
        BY <2>2 DEF AdapterReturn, world
      <3>2. AfterPass(t) # "return" /\ Left(t) \subseteq held[t]
        BY DEF AfterPass, Done, Left
      <3>3. \A e \in Left(t) : calls[e] = NextAttempt(t)
        BY <3>1, <3>2 DEF NextAttempt
      <3>4. QED
        BY <1>0, <3>1, <3>2, <3>3, ThreadFacts DEF Queued
    <2>3. CASE BackoffEnds(t)
      <3>1. /\ UNCHANGED <<calls, attempt, submitted, queue, held>>
            /\ pc[t] # "return" /\ pc'[t] # "return"
            /\ \A u \in Deliverers : u # t => pc'[u] = pc[u]
        BY <1>0, <2>3, ThreadFacts DEF BackoffEnds, world
      <3>2. QED
        BY <3>1 DEF Queued
    <2>4. QED
      BY <1>4, <2>1, <2>2, <2>3 DEF DeliverBatch
  <1>5. ASSUME NEW t \in Threads, NEW e \in Events, SpoolSettles(t, e)
        PROVE  CallsMatch'
    <2>1. /\ held' = [held EXCEPT ![t] = @ \ {e}]
          /\ UNCHANGED <<calls, submitted, queue>>
          /\ pc[t] = "spool"
          /\ \/ /\ held[t] = {e} /\ pc' = [pc EXCEPT ![t] = Done(t)]
                /\ attempt' = IF t \in Deliverers THEN [attempt EXCEPT ![t] = 0] ELSE attempt
             \/ UNCHANGED <<pc, attempt>>
      BY <1>5 DEF SpoolSettles
    <2>2. QED
      BY <1>0, <2>1, ThreadFacts DEF Queued
  <1>6. ASSUME NEW t \in Threads, NEW e \in Events, SpoolRaises(t, e)
        PROVE  CallsMatch'
    <2>1. /\ held' = [held EXCEPT ![t] = {}]
          /\ pc' = [pc EXCEPT ![t] = Unwound(t)]
          /\ attempt' = IF t \in Deliverers THEN [attempt EXCEPT ![t] = 0] ELSE attempt
          /\ UNCHANGED <<calls, submitted, queue>>
      BY <1>6 DEF SpoolRaises
    <2>2. QED
      BY <1>0, <2>1, ThreadFacts DEF Queued
  <1>7. CASE Start
    <2>1. /\ UNCHANGED <<calls, attempt, submitted, queue, held>>
          /\ pc["worker"] # "return" /\ pc'["worker"] # "return"
          /\ pc'["main"] = pc["main"]
      BY <1>0, <1>7, ThreadFacts DEF Start, world
    <2>2. QED
      BY <2>1 DEF Queued, Deliverers
  <1>8. CASE Stop \/ StopReturns
    <2>1. CASE Stop \/ JoinReturns \/ JoinTimesOut \/ Drained
      <3>1. /\ UNCHANGED <<calls, attempt, submitted, queue, held>>
            /\ pc["main"] # "return" /\ pc'["main"] # "return"
            /\ pc'["worker"] = pc["worker"]
        BY <1>0, <2>1, ThreadFacts
           DEF Stop, JoinReturns, AfterJoin, JoinTimesOut, Drained, world
      <3>2. QED
        BY <3>1 DEF Queued, Deliverers
    <2>2. CASE Drain
      <3>1. pc["main"] \notin Delivering /\ UNCHANGED pc
        BY <2>2 DEF Drain, Delivering
      <3>2. pc'["main"] # "return"
        BY <3>1 DEF Delivering
      <3>3. QED
        BY <1>0, <1>2, <2>2, <3>1, <3>2 DEF Drain, world
    <2>3. QED
      BY <1>8, <2>1, <2>2 DEF StopReturns
  <1>9. CASE Halt
    <2>1. /\ Elements(queue') = {} /\ \A t \in Threads : held'[t] = {}
          /\ UNCHANGED <<calls, submitted>>
      BY <1>9, ElementsOfEmpty DEF Halt, world
    <2>2. QED
      BY <2>1, ThreadFacts DEF Queued
  <1>10. CASE UNCHANGED vars
    BY <1>10 DEF vars, local, world, Queued
  <1>11. QED
    BY <1>1, <1>3, <1>4, <1>5, <1>6, <1>7, <1>8, <1>9, <1>10 DEF Next, SpoolEvent

\* The file has no line for an event that is not settled and not lost.
LEMMA UnspooledStep ==
    ASSUME TypeOK, Hands, SingleCustody, ResultsAreHonest, Unspooled, [Next]_vars
    PROVE  Unspooled'
  <1> SUFFICES ASSUME NEW e \in Events, e \notin Settled', e \notin lost'
               PROVE  disk'[e] = 0
    BY DEF Unspooled
  <1>1. e \notin Settled
    BY StaysSettled
  <1>2. disk \in [Events -> Nat] /\ held \in [Threads -> SUBSET Events]
    BY DEF TypeOK
  <1>3. lost \subseteq lost'
    BY DEF Next, Submit, SubmitCall, PutInQueue, PutTimesOut, Start, WorkerRun, WorkerLoop,
           WorkerGet, WorkerGetTimesOut, WorkerFill, WorkerFilled, DeliverBatch, AdapterRun,
           AdapterReturn, BackoffEnds, SpoolEvent, SpoolSettles, SpoolRaises, Stop, StopReturns,
           JoinReturns, JoinTimesOut, Drain, Drained, Halt, vars
  <1>4. disk[e] = 0
    BY <1>1, <1>3 DEF Unspooled
  <1>5. CASE \A t \in Threads : e \notin held[t]
    BY <1>4, <1>5, OnlyTheHeldChange DEF Untouched
  <1>6. ASSUME NEW t \in Threads, e \in held[t]
        PROVE  disk'[e] = 0
    <2>1. \A u \in Threads : u # t => e \notin held[u]
      BY <1>6 DEF SingleCustody
    <2>2. ASSUME NEW u \in Threads, NEW f \in Events, SpoolSettles(u, f)
          PROVE  disk'[e] = 0
      <3>1. /\ f \in held[u] /\ held' = [held EXCEPT ![u] = @ \ {f}]
            /\ UNCHANGED <<queue, submitted, lost>>
            /\ \E r \in SpoolResults(f) : disk' = [disk EXCEPT ![f] = @ + r.lines]
        BY <2>2 DEF SpoolSettles
      <3>2. CASE e = f
        <4>1. /\ e \in submitted' /\ e \notin Queued'
              /\ \A v \in Threads : e \notin held'[v]
          BY <1>2, <1>6, <2>1, <3>1, <3>2 DEF SingleCustody, Queued
        <4>2. e \in Settled'
          BY <4>1 DEF Settled, InCustody, Held
        <4>3. QED
          BY <4>2
      <3>3. CASE e # f
        BY <1>2, <1>4, <3>1, <3>3
      <3>4. QED
        BY <3>2, <3>3
    <2>3. ASSUME NEW u \in Threads, NEW f \in Events, SpoolRaises(u, f)
          PROVE  disk'[e] = 0
      <3>1. /\ f \in held[u] /\ lost' = lost \cup held[u]
            /\ \E r \in SpoolResults(f) : disk' = [disk EXCEPT ![f] = @ + r.lines]
        BY <2>3 DEF SpoolRaises, Dropped
      <3>2. e # f
        BY <3>1
      <3>3. QED
        BY <1>2, <1>4, <3>1, <3>2
    <2>4. CASE UNCHANGED disk
      BY <1>4, <2>4
    <2>5. QED
      BY <2>2, <2>3, <2>4
         DEF Next, Submit, SubmitCall, PutInQueue, PutTimesOut, Start, WorkerRun, WorkerLoop,
             WorkerGet, WorkerGetTimesOut, WorkerFill, WorkerFilled, DeliverBatch, AdapterRun,
             AdapterReturn, BackoffEnds, SpoolEvent, Stop, StopReturns, JoinReturns,
             JoinTimesOut, Drain, Drained, Halt, vars, world
  <1>7. QED
    BY <1>5, <1>6

\* A result stays with its thread until that thread takes it.
LEMMA ResultsStay ==
    ASSUME TypeOK, [Next]_vars, NEW d \in Deliverers, pc[d] = "return", ~AdapterReturn(d)
    PROVE  pc'[d] = "return" /\ outcome'[d] = outcome[d]
  <1>0. /\ pc \in [Threads -> Labels] /\ outcome \in [Deliverers -> Outcome] /\ d \in Threads
        /\ d \in {"worker", "main"} /\ "worker" \in Threads /\ "main" \in Threads
        /\ Submitters \subseteq Threads
    BY DEF TypeOK, Threads, Deliverers
  <1>1. ASSUME NEW s \in Submitters, Submit(s)
        PROVE  pc'[d] = "return" /\ outcome'[d] = outcome[d]
    BY <1>0, <1>1 DEF Submit, SubmitCall, PutInQueue, PutTimesOut
  <1>2. CASE Start \/ WorkerRun
    BY <1>0, <1>2 DEF Start, WorkerRun, WorkerLoop, WorkerGet, WorkerGetTimesOut, WorkerFill,
                      WorkerFilled
  <1>3. ASSUME NEW t \in Deliverers, DeliverBatch(t)
        PROVE  pc'[d] = "return" /\ outcome'[d] = outcome[d]
    <2>1. t \in Threads
      BY DEF Threads
    <2>2. QED
      BY <1>0, <1>3, <2>1 DEF DeliverBatch, AdapterRun, AdapterReturn, BackoffEnds
  <1>4. ASSUME NEW t \in Threads, SpoolEvent(t)
        PROVE  pc'[d] = "return" /\ outcome'[d] = outcome[d]
    BY <1>0, <1>4 DEF SpoolEvent, SpoolSettles, SpoolRaises
  <1>5. CASE Stop \/ StopReturns \/ Halt
    BY <1>0, <1>5 DEF Stop, StopReturns, JoinReturns, JoinTimesOut, Drain, Drained, Halt
  <1>6. CASE UNCHANGED vars
    BY <1>6 DEF vars, local
  <1>7. QED
    BY <1>1, <1>2, <1>3, <1>4, <1>5, <1>6 DEF Next

\* What went out of an unsettled event is in a result its thread is about to take.
LEMMA UnsentStep ==
    ASSUME TypeOK, Hands, SingleCustody, ResultsAreHonest, Unsent, [Next]_vars
    PROVE  Unsent'
  <1> SUFFICES ASSUME ~MayRaise(target', submitted'), NEW e \in Events,
                      e \notin Settled', e \notin lost'
               PROVE  sent'[e] = 0 \/ e \in Returning'
    BY DEF Unsent
  <1>0. /\ sent \in [Events -> Nat] /\ held \in [Threads -> SUBSET Events]
        /\ pc \in [Threads -> Labels] /\ outcome \in [Deliverers -> Outcome]
        /\ Deliverers \subseteq Threads
    BY DEF TypeOK, Threads
  <1>1. target' = target /\ submitted \subseteq submitted' /\ lost \subseteq lost'
    BY DEF Next, Submit, SubmitCall, PutInQueue, PutTimesOut, Start, WorkerRun, WorkerLoop,
           WorkerGet, WorkerGetTimesOut, WorkerFill, WorkerFilled, DeliverBatch, AdapterRun,
           AdapterReturn, BackoffEnds, SpoolEvent, SpoolSettles, SpoolRaises, Stop, StopReturns,
           JoinReturns, JoinTimesOut, Drain, Drained, Halt, vars
  <1>2. ~MayRaise(target, submitted)
    BY <1>1 DEF MayRaise
  <1>3. e \notin Settled /\ e \notin lost
    BY <1>1, StaysSettled
  <1>4. sent[e] = 0 \/ e \in Returning
    BY <1>2, <1>3 DEF Unsent
  <1>5. ASSUME NEW d \in Deliverers, pc[d] = "return", e \in outcome[d].returned
        PROVE  e \in Returning'
    <2>1. ~AdapterReturn(d)
      <3> SUFFICES ASSUME AdapterReturn(d)
                   PROVE  FALSE
        OBVIOUS
      <3>1. /\ held' = [held EXCEPT ![d] = held[d] \ outcome[d].returned]
            /\ UNCHANGED <<queue, submitted, lost>> /\ Running
        BY DEF AdapterReturn, Left
      <3>2. e \in held[d]
        BY <1>5, <3>1 DEF ResultsAreHonest, Honest
      <3>3. /\ e \in submitted' /\ e \notin Queued' /\ e \notin lost'
            /\ \A v \in Threads : e \notin held'[v]
        BY <1>0, <1>5, <3>1, <3>2 DEF SingleCustody, Queued
      <3>4. e \in Settled'
        BY <3>3 DEF Settled, InCustody, Held
      <3>5. QED
        BY <3>4
    <2>2. pc'[d] = "return" /\ outcome'[d] = outcome[d]
      BY <1>5, <2>1, ResultsStay
    <2>3. QED
      BY <1>5, <2>2 DEF Returning
  <1>6. ASSUME NEW u \in Deliverers, AdapterRun(u)
        PROVE  sent'[e] = 0 \/ e \in Returning'
    <2>1. PICK o \in Outcomes(target, held[u]) : /\ outcome' = [outcome EXCEPT ![u] = o]
                                                 /\ sent' = Bump(sent, o.sent)
      BY <1>6 DEF AdapterRun
    <2>2. target \in TargetKinds /\ held[u] \in SUBSET Events
      BY <1>0, DeliveryAssumption DEF TypeOK
    <2>3. Honest(target, o, held[u]) /\ held[u] \subseteq submitted
      BY <1>0, <2>2, OutcomesAreHonest DEF SingleCustody
    <2>4. o.sent = o.returned
      BY <1>2, <2>3 DEF Honest, MayRaise
    <2>5. CASE e \in o.sent
      <3>1. pc'[u] = "return" /\ e \in outcome'[u].returned
        BY <1>0, <1>6, <2>1, <2>4, <2>5 DEF AdapterRun
      <3>2. QED
        BY <3>1 DEF Returning
    <2>6. CASE e \notin o.sent
      <3>1. sent'[e] = sent[e]
        BY <2>1, <2>6 DEF Bump
      <3>2. QED
        BY <1>4, <1>5, <3>1 DEF Returning
    <2>7. QED
      BY <2>5, <2>6
  <1>7. CASE UNCHANGED sent
    BY <1>4, <1>5, <1>7 DEF Returning
  <1>8. QED
    BY <1>6, <1>7
       DEF Next, Submit, SubmitCall, PutInQueue, PutTimesOut, Start, WorkerRun, WorkerLoop,
           WorkerGet, WorkerGetTimesOut, WorkerFill, WorkerFilled, DeliverBatch, AdapterReturn,
           BackoffEnds, SpoolEvent, SpoolSettles, SpoolRaises, Stop, StopReturns, JoinReturns,
           JoinTimesOut, Drain, Drained, Halt, vars, world

-----------------------------------------------------------------------------
(* The verdicts. *)

\* The inductive invariant: the bookkeeping and what it is needed for.
Bookkeeping ==
    /\ TypeOK
    /\ Hands
    /\ SingleCustody
    /\ PassCount
    /\ ResultsAreHonest
    /\ CallsMatch
    /\ Unspooled
    /\ Unsent

LEMMA BookkeepingInit == Init => Bookkeeping
  <1> SUFFICES ASSUME Init PROVE Bookkeeping
    OBVIOUS
  <1>1. TypeOK /\ Hands
    BY TypeInit, HandsInit
  <1>2. SingleCustody
    BY ElementsOfEmpty DEF Init, SingleCustody, Queued
  <1>3. PassCount
    BY ThreadFacts DEF Init, PassCount, Delivering, Deliverers
  <1>4. ResultsAreHonest
    BY ThreadFacts DEF Init, ResultsAreHonest, Deliverers
  <1>5. CallsMatch
    BY ThreadFacts, ElementsOfEmpty DEF Init, CallsMatch, Queued
  <1>6. Unspooled /\ Unsent
    BY DEF Init, Unspooled, Unsent
  <1>7. QED
    BY <1>1, <1>2, <1>3, <1>4, <1>5, <1>6 DEF Bookkeeping

LEMMA BookkeepingStep == Bookkeeping /\ [Next]_vars => Bookkeeping'
  BY TypeStep, HandsStep, CustodyStep, PassCountStep, ResultsStep, CallsMatchStep, UnspooledStep,
     UnsentStep DEF Bookkeeping

LEMMA BookkeepingCorrect == Spec => []Bookkeeping
  BY BookkeepingInit, BookkeepingStep, PTL DEF Spec

\* An event about to be spooled was in no call (overflow) or in all it is due.
LEMMA CallsBeforeSpool ==
    ASSUME PassCount, CallsMatch, NEW t \in Threads, pc[t] = "spool", NEW e \in held[t]
    PROVE  calls[e] \in {0, MaxRetries + 1}
  <1>1. CASE t \in Submitters
    BY <1>1 DEF CallsMatch
  <1>2. CASE t \in Deliverers
    <2>1. calls[e] = attempt[t] /\ attempt[t] = MaxRetries + 1
      BY <1>2 DEF CallsMatch, PassCount
    <2>2. QED
      BY <2>1
  <1>3. QED
    BY <1>1, <1>2 DEF Threads

\* How an event settles: delivered by the call that just returned it, or by the
\* line the spool call wrote or refused to write.
LEMMA HowItSettles ==
    ASSUME Bookkeeping, [Next]_vars, NEW e \in Settled', e \notin Settled
    PROVE  \/ /\ status'[e] = "DELIVERED"
              /\ attempts'[e] = calls'[e]
              /\ OddReplies \/ (sent'[e] >= 1 /\ (Answers(target') => wire'[e] >= 1))
              /\ disk'[e] = 0
              /\ calls'[e] <= MaxRetries + 1
           \/ /\ status'[e] = "SPOOLED"
              /\ disk'[e] = 1
              /\ calls'[e] \in {0, MaxRetries + 1}
           \/ /\ status'[e] = "REJECTED"
              /\ e \in Surrogate
              /\ disk'[e] = 0
              /\ calls'[e] \in {0, MaxRetries + 1}
  <1> USE DEF Bookkeeping
  <1>0. /\ e \in Events /\ e \notin Settled /\ disk[e] \in Nat
        /\ held \in [Threads -> SUBSET Events] /\ status \in [Events -> Statuses]
        /\ disk \in [Events -> Nat] /\ calls \in [Events -> Nat]
        /\ attempt \in [Deliverers -> Nat]
    <2>1. TypeOK'
      BY TypeStep
    <2>2. e \in Events
      BY <2>1 DEF TypeOK, Settled
    <2>3. QED
      BY <2>2 DEF TypeOK
  <1>1. e \notin lost
    BY DEF Settled, Next, Submit, SubmitCall, PutInQueue, PutTimesOut, Start, WorkerRun,
           WorkerLoop, WorkerGet, WorkerGetTimesOut, WorkerFill, WorkerFilled, DeliverBatch,
           AdapterRun, AdapterReturn, BackoffEnds, SpoolEvent, SpoolSettles, SpoolRaises, Stop,
           StopReturns, JoinReturns, JoinTimesOut, Drain, Drained, Halt, vars
  <1>2. disk[e] = 0
    BY <1>0, <1>1 DEF Unspooled
  <1>3. ASSUME NEW t \in Deliverers, AdapterReturn(t), e \in outcome[t].returned
        PROVE  /\ status'[e] = "DELIVERED"
               /\ attempts'[e] = calls'[e]
               /\ OddReplies \/ (sent'[e] >= 1 /\ (Answers(target') => wire'[e] >= 1))
               /\ disk'[e] = 0
               /\ calls'[e] <= MaxRetries + 1
    <2>1. /\ pc[t] = "return" /\ Running
          /\ status' = IF outcome[t].raised THEN Stamp(status, held[t], "FAILED")
                                          ELSE Stamp(status, outcome[t].returned, "DELIVERED")
          /\ attempts' = [f \in Events |->
                             IF f \in outcome[t].returned THEN attempt[t] + 1 ELSE attempts[f]]
          /\ UNCHANGED <<target, sent, wire, disk, calls>>
      BY <1>3 DEF AdapterReturn, AttemptsOf, world
    <2>2. /\ Honest(target, outcome[t], held[t])
          /\ \A f \in outcome[t].sent : sent[f] >= 1
          /\ \A f \in outcome[t].taken : wire[f] >= 1
          /\ attempt[t] <= MaxRetries
      BY <2>1 DEF ResultsAreHonest, PassCount
    <2>3. /\ e \in held[t] /\ ~outcome[t].raised
          /\ OddReplies \/ (e \in outcome[t].sent /\ (Answers(target) => e \in outcome[t].taken))
      BY <1>3, <2>2 DEF Honest, Outcome
    <2>4. calls[e] = attempt[t] + 1
      BY <2>1, <2>3 DEF CallsMatch
    <2>5. status'[e] = "DELIVERED" /\ attempts'[e] = attempt[t] + 1
      BY <1>0, <1>3, <2>1, <2>3 DEF Stamp
    <2>6. QED
      BY <1>0, <1>2, <2>1, <2>2, <2>3, <2>4, <2>5, ThreadFacts
  <1>4. ASSUME NEW t \in Threads, SpoolSettles(t, e)
        PROVE  /\ calls'[e] \in {0, MaxRetries + 1}
               /\ \/ status'[e] = "SPOOLED" /\ disk'[e] = 1
                  \/ status'[e] = "REJECTED" /\ e \in Surrogate /\ disk'[e] = 0
    <2>1. PICK r \in SpoolResults(e) : /\ r.ending # "oserror"
                                       /\ disk' = [disk EXCEPT ![e] = @ + r.lines]
                                       /\ status' = [status EXCEPT ![e] = SpoolVerdict(r)]
      BY <1>4 DEF SpoolSettles
    <2>2. \/ SpoolVerdict(r) = "SPOOLED" /\ r.lines = 1
          \/ SpoolVerdict(r) = "REJECTED" /\ r.lines = 0 /\ e \in Surrogate
      BY <1>0, <2>1, SpoolResultParts DEF SpoolVerdict
    <2>3. pc[t] = "spool" /\ e \in held[t] /\ UNCHANGED calls
      BY <1>4 DEF SpoolSettles
    <2>4. calls[e] \in {0, MaxRetries + 1}
      BY <2>3, CallsBeforeSpool
    <2>5. QED
      BY <1>0, <1>2, <2>1, <2>2, <2>3, <2>4
  <1>5. \/ \E t \in Deliverers : AdapterReturn(t) /\ e \in outcome[t].returned
        \/ \E t \in Threads : SpoolSettles(t, e)
    BY NewlySettled
  <1>6. QED
    BY <1>3, <1>4, <1>5

\* At every moment each event has at most one holder, so no two target calls, the
\* worker's and the draining main thread's, ever carry the same event.
THEOREM OneHolder == Spec => []SingleCustody
  BY BookkeepingCorrect, PTL DEF Bookkeeping

LEMMA VerdictsStep ==
    ASSUME Bookkeeping, VerdictsAreTrue, [Next]_vars
    PROVE  VerdictsAreTrue'
  <1> USE DEF VerdictsAreTrue
  <1>1. ASSUME NEW e \in Settled', e \in Settled
        PROVE  Untouched(e)
    <2>1. e \in Events /\ \A t \in Threads : e \notin held[t]
      BY <1>1, SettledIff DEF Bookkeeping, TypeOK
    <2>2. QED
      BY <2>1, OnlyTheHeldChange DEF Bookkeeping
  <1>2. ASSUME NEW e \in Settled', e \notin Settled
        PROVE  /\ status'[e] \in Verdicts
               /\ status'[e] = "DELIVERED" =>
                     OddReplies \/ (sent'[e] >= 1 /\ (Answers(target') => wire'[e] >= 1))
               /\ status'[e] = "SPOOLED" => disk'[e] = 1
               /\ status'[e] = "REJECTED" => e \in Surrogate /\ disk'[e] = 0
    BY <1>2, HowItSettles DEF Verdicts
  <1>3. target' = target
    BY DEF Next, Submit, SubmitCall, PutInQueue, PutTimesOut, Start, WorkerRun, WorkerLoop,
           WorkerGet, WorkerGetTimesOut, WorkerFill, WorkerFilled, DeliverBatch, AdapterRun,
           AdapterReturn, BackoffEnds, SpoolEvent, SpoolSettles, SpoolRaises, Stop, StopReturns,
           JoinReturns, JoinTimesOut, Drain, Drained, Halt, vars
  <1>4. QED
    BY <1>1, <1>2, <1>3 DEF Untouched

\* An event that nothing will touch again carries a verdict as true as the program can
\* know: DELIVERED went out, and a target that answers took it; SPOOLED is in the file.
THEOREM TrueVerdicts == Spec => []VerdictsAreTrue
  <1>1. Init => VerdictsAreTrue
    BY DEF Init, VerdictsAreTrue, Settled
  <1>2. QED
    BY <1>1, VerdictsStep, BookkeepingCorrect, PTL DEF Spec

LEMMA RetryStep ==
    ASSUME Bookkeeping, RetryThenSpool, [Next]_vars
    PROVE  RetryThenSpool'
  <1> USE DEF Bookkeeping
  <1> SUFFICES ASSUME NEW e \in Events
               PROVE  /\ sent'[e] <= calls'[e] /\ wire'[e] <= calls'[e]
                      /\ calls'[e] <= MaxRetries + 1
                      /\ sent'[e] > 1 => MayRaise(target', submitted')
                      /\ disk'[e] <= 1
                      /\ disk'[e] = 1 => calls'[e] \in {0, MaxRetries + 1}
    BY DEF RetryThenSpool
  <1> DEFINE Goal == /\ sent'[e] <= calls'[e] /\ wire'[e] <= calls'[e]
                     /\ calls'[e] <= MaxRetries + 1
                     /\ sent'[e] > 1 => MayRaise(target', submitted')
                     /\ disk'[e] <= 1
                     /\ disk'[e] = 1 => calls'[e] \in {0, MaxRetries + 1}
  <1>0. /\ sent[e] \in Nat /\ wire[e] \in Nat /\ calls[e] \in Nat /\ disk[e] \in Nat
        /\ sent \in [Events -> Nat] /\ sent[e] <= calls[e]
        /\ sent[e] > 1 => MayRaise(target, submitted)
        /\ wire[e] <= calls[e] /\ calls[e] <= MaxRetries + 1 /\ disk[e] <= 1
        /\ disk[e] = 1 => calls[e] \in {0, MaxRetries + 1}
        /\ disk \in [Events -> Nat] /\ MaxRetries \in Nat
        /\ held \in [Threads -> SUBSET Events] /\ attempt \in [Deliverers -> Nat]
    BY ThreadFacts DEF TypeOK, RetryThenSpool
  <1>9. MayRaise(target, submitted) => MayRaise(target', submitted')
    <2>1. target' = target /\ submitted \subseteq submitted'
      BY DEF Next, Submit, SubmitCall, PutInQueue, PutTimesOut, Start, WorkerRun, WorkerLoop,
             WorkerGet, WorkerGetTimesOut, WorkerFill, WorkerFilled, DeliverBatch, AdapterRun,
             AdapterReturn, BackoffEnds, SpoolEvent, SpoolSettles, SpoolRaises, Stop,
             StopReturns, JoinReturns, JoinTimesOut, Drain, Drained, Halt, vars
    <2>2. QED
      BY <2>1 DEF MayRaise
  <1>1. CASE \A t \in Threads : e \notin held[t]
    BY <1>0, <1>1, <1>9, OnlyTheHeldChange DEF Untouched
  <1>2. ASSUME NEW t \in Threads, e \in held[t]
        PROVE  Goal
    <2>1. /\ \A u \in Threads : u # t => e \notin held[u]
          /\ e \notin Settled /\ e \notin lost
      BY <1>2, SettledIff DEF SingleCustody
    <2>2. disk[e] = 0
      BY <2>1 DEF Unspooled
    <2>3. CASE UNCHANGED <<sent, wire, calls, disk>>
      BY <1>0, <1>9, <2>3
    <2>4. ASSUME NEW u \in Deliverers, AdapterRun(u)
          PROVE  Goal
      <3>1. PICK o \in Outcomes(target, held[u]) : /\ sent' = Bump(sent, o.sent)
                                                   /\ wire' = Bump(wire, o.taken)
        BY <2>4 DEF AdapterRun, OnTheWire
      <3>2. calls' = Bump(calls, held[u]) /\ pc[u] = "call" /\ UNCHANGED disk
        BY <2>4 DEF AdapterRun
      <3>3. o.sent \subseteq held[u] /\ o.taken \subseteq held[u]
        <4>1. target \in TargetKinds /\ held[u] \in SUBSET Events
          BY DeliveryAssumption, <1>0, ThreadFacts DEF TypeOK
        <4>2. QED
          BY <4>1, OutcomesAreHonest DEF Honest
      <3>4. CASE u = t
        <4>1. calls[e] = attempt[t] /\ attempt[t] \in Nat /\ attempt[t] <= MaxRetries
          BY <1>0, <1>2, <3>2, <3>4 DEF CallsMatch, PassCount
        <4>2. /\ calls'[e] = calls[e] + 1 /\ wire'[e] \in {wire[e], wire[e] + 1}
              /\ sent'[e] \in {sent[e], sent[e] + 1}
          BY <1>2, <3>1, <3>2, <3>4 DEF Bump
        <4>3. sent[e] = 0 \/ MayRaise(target, submitted)
          <5>1. ASSUME NEW d \in Deliverers, pc[d] = "return"
                PROVE  e \notin outcome[d].returned
            <6>0. Running
              BY <2>4 DEF AdapterRun
            <6>1. d # t /\ d \in Threads /\ outcome[d].returned \subseteq held[d]
              BY <3>2, <3>4, <5>1, <6>0 DEF ResultsAreHonest, Honest, Threads
            <6>2. QED
              BY <2>1, <6>1
          <5>2. QED
            BY <2>1, <5>1 DEF Unsent, Returning
        <4>4. QED
          BY <1>0, <1>9, <2>2, <3>2, <4>1, <4>2, <4>3
      <3>5. CASE u # t
        <4>1. e \notin held[u]
          BY <2>1, <3>5, ThreadFacts
        <4>2. calls'[e] = calls[e] /\ sent'[e] = sent[e] /\ wire'[e] = wire[e]
          BY <3>1, <3>2, <3>3, <4>1 DEF Bump
        <4>3. QED
          BY <1>0, <1>9, <3>2, <4>2
      <3>6. QED
        BY <3>4, <3>5
    <2>5. ASSUME NEW u \in Threads, NEW f \in Events, SpoolSettles(u, f) \/ SpoolRaises(u, f)
          PROVE  Goal
      <3>1. /\ UNCHANGED <<sent, wire, calls>> /\ pc[u] = "spool" /\ f \in held[u]
            /\ \E r \in SpoolResults(f) : disk' = [disk EXCEPT ![f] = @ + r.lines]
        BY <2>5 DEF SpoolSettles, SpoolRaises
      <3>2. CASE e = f
        <4>1. disk'[e] \in {0, 1}
          BY <1>0, <2>2, <3>1, <3>2, SpoolResultParts
        <4>2. calls[e] \in {0, MaxRetries + 1}
          BY <3>1, <3>2, CallsBeforeSpool
        <4>3. QED
          BY <1>0, <1>9, <3>1, <4>1, <4>2
      <3>3. CASE e # f
        BY <1>0, <1>9, <3>1, <3>3
      <3>4. QED
        BY <3>2, <3>3
    <2>6. QED
      BY <2>3, <2>4, <2>5
         DEF Next, Submit, SubmitCall, PutInQueue, PutTimesOut, Start, WorkerRun, WorkerLoop,
             WorkerGet, WorkerGetTimesOut, WorkerFill, WorkerFilled, DeliverBatch,
             AdapterReturn, BackoffEnds, SpoolEvent, Stop, StopReturns, JoinReturns,
             JoinTimesOut, Drain, Drained, Halt, vars, world
  <1>3. QED
    BY <1>1, <1>2

\* No event is in more than MaxRetries + 1 target calls, it goes out twice only where an
\* adapter may raise halfway, and it has at most one fallback line, written without any
\* call or after all of them.
THEOREM BoundedRetries == Spec => []RetryThenSpool
  <1>1. Init => RetryThenSpool
    BY ThreadFacts DEF Init, RetryThenSpool
  <1>2. QED
    BY <1>1, RetryStep, BookkeepingCorrect, PTL DEF Spec

\* The attempts recorded on a delivered event are the calls it took.
THEOREM ExactAttempts == Spec => []AttemptsAreExact
  <1>1. Init => AttemptsAreExact
    BY DEF Init, AttemptsAreExact, SettledAs, Settled
  <1>2. ASSUME Bookkeeping, AttemptsAreExact, [Next]_vars
        PROVE  AttemptsAreExact'
    <2> SUFFICES ASSUME NEW e \in Settled', status'[e] = "DELIVERED"
                 PROVE  attempts'[e] = calls'[e]
      BY DEF AttemptsAreExact, SettledAs
    <2>1. CASE e \in Settled
      <3>1. e \in Events /\ \A t \in Threads : e \notin held[t]
        BY <1>2, <2>1, SettledIff DEF Bookkeeping, TypeOK
      <3>2. Untouched(e)
        BY <3>1, <1>2, OnlyTheHeldChange DEF Bookkeeping
      <3>3. QED
        BY <1>2, <2>1, <3>2 DEF Untouched, AttemptsAreExact, SettledAs
    <2>2. CASE e \notin Settled
      BY <1>2, <2>2, HowItSettles
    <2>3. QED
      BY <2>1, <2>2
  <1>3. QED
    BY <1>1, <1>2, BookkeepingCorrect, PTL DEF Spec

\* Once settled, an event is never sent, spooled or restamped again.
THEOREM FinalVerdicts == Spec => SettledIsFinal
  <1>1. ASSUME Bookkeeping, [Next]_vars, NEW e \in Settled
        PROVE  /\ e \in Settled'
               /\ Untouched(e)
    <2>1. e \in Events /\ \A t \in Threads : e \notin held[t]
      BY <1>1, SettledIff DEF Bookkeeping, TypeOK
    <2>2. QED
      BY <1>1, <2>1, StaysSettled, OnlyTheHeldChange DEF Bookkeeping
  <1>2. Bookkeeping /\ [Next]_vars =>
           [\A e \in Settled : /\ e \in Settled'
                               /\ status'[e] = status[e]
                               /\ attempts'[e] = attempts[e]
                               /\ sent'[e] = sent[e]
                               /\ wire'[e] = wire[e]
                               /\ disk'[e] = disk[e]]_vars
    BY <1>1 DEF Untouched
  <1>3. QED
    BY <1>2, BookkeepingCorrect, PTL DEF Spec, SettledIsFinal

-----------------------------------------------------------------------------
(* stop(): what was there when it was called. *)

LEMMA WhereEarlyIsStep ==
    ASSUME TypeOK, Hands, SingleCustody, WhereEarlyIs, [Next]_vars
    PROVE  WhereEarlyIs'
  <1> USE DEF WhereEarlyIs
  <1>0. /\ pc \in [Threads -> Labels] /\ held \in [Threads -> SUBSET Events]
        /\ queue \in Seq(Events) /\ "worker" \in Deliverers /\ "main" \in Deliverers
    BY DEF TypeOK, Deliverers
  <1>1. ASSUME NEW s \in Submitters, Submit(s)
        PROVE  WhereEarlyIs'
    <2>0. UNCHANGED <<early, lost>> /\ \A t \in Deliverers : pc'[t] = pc[t]
      BY <1>0, <1>1, ThreadFacts DEF Submit, SubmitCall, PutInQueue, PutTimesOut
    <2>1. ASSUME NEW e \in Events, SubmitCall(s, e)
          PROVE  WhereEarlyIs'
      <3>1. /\ e \notin submitted /\ submitted' = submitted \cup {e}
            /\ held' = [held EXCEPT ![s] = {e}] /\ UNCHANGED queue
        BY <2>1 DEF SubmitCall
      <3>2. QED
        BY <1>0, <2>0, <3>1, ThreadFacts DEF Queued
    <2>2. ASSUME NEW e \in Events, PutInQueue(s, e)
          PROVE  WhereEarlyIs'
      <3>1. /\ Elements(queue') = Elements(queue) \cup {e}
            /\ e \in held[s] /\ held' = [held EXCEPT ![s] = {}] /\ UNCHANGED submitted
        BY <1>0, <2>2, ElementsOfAppend DEF PutInQueue
      <3>2. e \notin early
        BY <3>1
      <3>3. QED
        BY <1>0, <2>0, <3>1, <3>2, ThreadFacts DEF Queued
    <2>3. CASE PutTimesOut(s)
      BY <1>0, <2>0, <2>3 DEF PutTimesOut, Queued
    <2>4. QED
      BY <1>1, <2>1, <2>2, <2>3 DEF Submit
  <1>2. ASSUME NEW t \in Deliverers, queue # <<>>, queue' = Tail(queue),
               \A u \in Threads : u # t => held'[u] = held[u],
               pc'["main"] = pc["main"], pc["worker"] # "dead",
               UNCHANGED <<submitted, early, lost>>
        PROVE  WhereEarlyIs'
    <2>1. Elements(queue) = Elements(queue') \cup {Head(queue)}
      BY <1>0, <1>2, ElementsOfTail
    <2>2. QED
      BY <1>0, <1>2, <2>1, ThreadFacts DEF Queued
  <1>3. CASE WorkerRun
    <2>1. /\ pc["worker"] # "dead" /\ pc'["main"] = pc["main"]
          /\ UNCHANGED <<submitted, early, lost>>
          /\ \A u \in Threads : u # "worker" => held'[u] = held[u]
      BY <1>0, <1>3, ThreadFacts
         DEF WorkerRun, WorkerLoop, WorkerGet, WorkerGetTimesOut, WorkerFill, WorkerFilled
    <2>2. CASE UNCHANGED queue
      BY <1>0, <2>1, <2>2, ThreadFacts DEF Queued
    <2>3. CASE queue # <<>> /\ queue' = Tail(queue)
      BY <1>0, <1>2, <2>1, <2>3
    <2>4. QED
      BY <1>3, <2>2, <2>3
         DEF WorkerRun, WorkerLoop, WorkerGet, WorkerGetTimesOut, WorkerFill, AfterTake,
             WorkerFilled
  <1>4. ASSUME NEW t \in Deliverers, DeliverBatch(t)
        PROVE  WhereEarlyIs'
    <2>1. /\ UNCHANGED <<queue, submitted, early, lost>>
          /\ \A u \in Threads : u # t => held'[u] = held[u] /\ pc'[u] = pc[u]
          /\ pc[t] \in {"call", "return", "backoff"}
          /\ pc'[t] \in {"call", "return", "backoff", "spool", "loop", "stopped", "idle"}
      BY <1>0, <1>4, ThreadFacts
         DEF DeliverBatch, AdapterRun, AdapterReturn, AfterPass, Done, BackoffEnds
    <2>2. QED
      BY <1>0, <2>1, ThreadFacts DEF Queued
  <1>5. ASSUME NEW t \in Threads, NEW e \in Events, SpoolSettles(t, e)
        PROVE  WhereEarlyIs'
    <2>1. /\ UNCHANGED <<queue, submitted, early, lost>>
          /\ held' = [held EXCEPT ![t] = @ \ {e}]
          /\ pc[t] = "spool"
          /\ \/ UNCHANGED pc
             \/ pc' = [pc EXCEPT ![t] = Done(t)]
      BY <1>5 DEF SpoolSettles
    <2>2. Done(t) \in {"idle", "loop", "stopped"}
      BY DEF Done
    <2>3. QED
      BY <1>0, <2>1, <2>2, ThreadFacts DEF Queued
  <1>6. ASSUME NEW t \in Threads, NEW e \in Events, SpoolRaises(t, e)
        PROVE  WhereEarlyIs'
    <2>1. /\ UNCHANGED <<queue, submitted, early>>
          /\ held' = [held EXCEPT ![t] = {}] /\ lost' = lost \cup held[t]
          /\ pc[t] = "spool" /\ pc' = [pc EXCEPT ![t] = Unwound(t)]
      BY <1>6 DEF SpoolRaises, Dropped
    <2>2. CASE t \in Submitters
      <3>1. Unwound(t) = "idle" /\ t \notin Deliverers
        BY <2>2, ThreadFacts DEF Unwound, Deliverers
      <3>2. QED
        BY <1>0, <2>1, <2>2, <3>1, ThreadFacts DEF Queued
    <2>3. CASE t = "worker"
      <3>1. Unwound(t) = "dead"
        BY <2>3 DEF Unwound
      <3>2. QED
        BY <1>0, <2>1, <2>3, <3>1, ThreadFacts DEF Queued
    <2>4. CASE t = "main"
      <3>1. Unwound(t) = "aborted"
        BY <2>4 DEF Unwound
      <3>2. QED
        BY <1>0, <2>1, <2>4, <3>1, ThreadFacts DEF Queued
    <2>5. QED
      BY <2>2, <2>3, <2>4 DEF Threads, Deliverers
  <1>7. CASE Start
    BY <1>0, <1>7, ThreadFacts DEF Start, Queued
  <1>8. CASE Stop
    <2>1. /\ early' = Queued \cup held["worker"] /\ early = {} /\ pc["main"] = "up"
          /\ UNCHANGED <<queue, submitted, lost, held>>
          /\ pc'["main"] \in {"drain", "join"}
      BY <1>0, <1>8, ThreadFacts DEF Stop
    <2>2. QED
      BY <1>0, <2>1, ThreadFacts DEF Queued, SingleCustody
  <1>9. CASE StopReturns
    <2>1. CASE JoinReturns \/ JoinTimesOut
      BY <1>0, <2>1, ThreadFacts DEF JoinReturns, AfterJoin, JoinTimesOut, Queued
    <2>2. CASE Drain
      <3>1. /\ pc["main"] = "drain" /\ queue # <<>> /\ queue' = Tail(queue)
            /\ held' = [held EXCEPT !["main"] = @ \cup {Head(queue)}]
            /\ UNCHANGED <<pc, submitted, early, lost>>
        BY <2>2 DEF Drain
      <3>2. Elements(queue') \subseteq Elements(queue)
        BY <1>0, <3>1, ElementsOfTail
      <3>3. \A s \in Submitters : held'[s] = held[s]
        BY <1>0, <3>1, ThreadFacts
      <3>4. QED
        BY <3>1, <3>2, <3>3 DEF Queued
    <2>3. CASE Drained
      BY <1>0, <2>3, ThreadFacts, ElementsOfEmpty DEF Drained, Queued
    <2>4. QED
      BY <1>9, <2>1, <2>2, <2>3 DEF StopReturns
  <1>10. CASE Halt
    <2>1. /\ pc'["main"] = "halted" /\ Elements(queue') = {} /\ UNCHANGED <<early, submitted>>
          /\ \A s \in Submitters : held'[s] = {}
          /\ pc["main"] # "up"
      BY <1>0, <1>10, ThreadFacts, ElementsOfEmpty DEF Halt
    <2>2. QED
      BY <2>1 DEF Queued
  <1>11. CASE UNCHANGED vars
    BY <1>11 DEF vars, local, Queued
  <1>12. QED
    BY <1>1, <1>3, <1>4, <1>5, <1>6, <1>7, <1>8, <1>9, <1>10, <1>11 DEF Next, SpoolEvent

\* A stop() that finds the worker gone leaves nothing it found undelivered.
THEOREM StopDelivers == Spec => []StopDrains
  <1>1. Init => WhereEarlyIs
    BY ElementsOfEmpty DEF Init, WhereEarlyIs, Queued
  <1>2. Bookkeeping /\ WhereEarlyIs /\ [Next]_vars => WhereEarlyIs'
    BY WhereEarlyIsStep DEF Bookkeeping
  <1>3. ASSUME Bookkeeping, WhereEarlyIs
        PROVE  StopDrains
    <2> SUFFICES ASSUME pc["main"] = "stopped", pc["worker"] = "exited",
                        NEW e \in early
                 PROVE  e \in Settled
      BY DEF StopDrains
    <2>1. held["main"] = {} /\ held["worker"] = {}
      BY <1>3, ThreadFacts DEF Bookkeeping, Hands, EmptyHanded
    <2>2. \A t \in Threads : e \notin held[t]
      BY <1>3, <2>1 DEF WhereEarlyIs, Threads, Deliverers
    <2>3. e \in submitted /\ e \notin Queued /\ e \notin lost
      BY <1>3 DEF WhereEarlyIs
    <2>4. QED
      BY <2>2, <2>3, SettledIff
  <1>4. QED
    BY <1>1, <1>2, <1>3, BookkeepingCorrect, PTL DEF Spec

-----------------------------------------------------------------------------
(* The manager implements what it promises (module Custody), and its       *)
(* counters are a census of what it settled.  First the two kinds of step  *)
(* that settle events, and all the others.                                 *)

Settles(t) == (t \in Deliverers /\ AdapterReturn(t)) \/ \E e \in Events : SpoolSettles(t, e)

\* A step of neither kind leaves the settled events as they are.
LEMMA NothingSettles ==
    ASSUME Bookkeeping, [Next]_vars, \A t \in Threads : ~Settles(t)
    PROVE  /\ Settled' = Settled
           /\ \A e \in Settled : status'[e] = status[e]
  <1>1. Settled \subseteq Settled'
    BY StaysSettled DEF Bookkeeping
  <1>2. ASSUME NEW e \in Settled', e \notin Settled PROVE FALSE
    <2>1. TypeOK'
      BY TypeStep DEF Bookkeeping
    <2>2. e \in Events
      BY <2>1 DEF TypeOK, Settled
    <2>3. \/ \E t \in Deliverers : AdapterReturn(t) /\ e \in outcome[t].returned
          \/ \E t \in Threads : SpoolSettles(t, e)
      BY <1>2, NewlySettled DEF Bookkeeping
    <2>4. QED
      BY <2>2, <2>3 DEF Settles, Threads
  <1>3. ASSUME NEW e \in Settled PROVE status'[e] = status[e]
    <2>1. e \in Events /\ \A t \in Threads : e \notin held[t]
      BY SettledIff DEF Bookkeeping, TypeOK
    <2>2. QED
      BY <2>1, OnlyTheHeldChange DEF Bookkeeping, Untouched
  <1>4. QED
    BY <1>1, <1>2, <1>3

\* A call that returns settles what it returned, as delivered.
LEMMA ReturnSettles ==
    ASSUME Bookkeeping, NEW t \in Deliverers, AdapterReturn(t)
    PROVE  /\ Settled' = Settled \cup outcome[t].returned
           /\ outcome[t].returned \cap Settled = {}
           /\ \A e \in Events : status'[e] = IF e \in outcome[t].returned THEN "DELIVERED"
                                             ELSE IF outcome[t].raised /\ e \in held[t]
                                             THEN "FAILED" ELSE status[e]
           /\ UNCHANGED <<submitted, lost>>
  <1> USE DEF Bookkeeping
  <1> DEFINE returned == outcome[t].returned
  <1>1. /\ pc[t] = "return" /\ Running
        /\ status' = IF outcome[t].raised THEN Stamp(status, held[t], "FAILED")
                                          ELSE Stamp(status, returned, "DELIVERED")
        /\ held' = [held EXCEPT ![t] = held[t] \ returned]
        /\ UNCHANGED <<queue, submitted, lost>>
    BY DEF AdapterReturn, Left
  <1>2. returned \subseteq held[t] /\ (outcome[t].raised => returned = {})
    BY <1>1 DEF ResultsAreHonest, Honest
  <1>3. t \in Threads /\ held \in [Threads -> SUBSET Events] /\ status \in [Events -> Statuses]
    BY DEF Threads, TypeOK
  <1>4. \A e : e \in Settled' <=> e \in Settled \/ e \in returned
    <2> TAKE e
    <2>1. e \in Settled' <=> /\ e \in submitted /\ e \notin Queued /\ e \notin lost
                             /\ \A u \in Threads : e \notin held'[u]
      BY <1>1 DEF Settled, InCustody, Held, Queued
    <2>2. (\A u \in Threads : e \notin held'[u]) <=> e \in returned \/ \A u \in Threads : e \notin held[u]
      BY <1>1, <1>2, <1>3 DEF SingleCustody
    <2>3. e \in returned => e \in submitted /\ e \notin Queued /\ e \notin lost
      BY <1>2, <1>3 DEF SingleCustody
    <2>4. QED
      BY <2>1, <2>2, <2>3, SettledIff
  <1>5. \A e \in returned : e \notin Settled
    BY <1>2, <1>3, SettledIff
  <1>6. \A e \in Events : status'[e] = IF e \in returned THEN "DELIVERED"
                                       ELSE IF outcome[t].raised /\ e \in held[t]
                                       THEN "FAILED" ELSE status[e]
    BY <1>1, <1>2, <1>3 DEF Stamp
  <1>7. QED
    BY <1>1, <1>4, <1>5, <1>6

\* A spool call that comes back settles its event.
LEMMA SpoolCallSettles ==
    ASSUME Bookkeeping, NEW t \in Threads, NEW e \in Events, SpoolSettles(t, e)
    PROVE  /\ Settled' = Settled \cup {e}
           /\ e \notin Settled
           /\ \A f \in Events : f # e => status'[f] = status[f]
           /\ UNCHANGED <<submitted, lost>>
  <1> USE DEF Bookkeeping
  <1>1. /\ e \in held[t]
        /\ held' = [held EXCEPT ![t] = @ \ {e}]
        /\ \E v : status' = [status EXCEPT ![e] = v]
        /\ UNCHANGED <<queue, submitted, lost>>
    BY DEF SpoolSettles
  <1>2. held \in [Threads -> SUBSET Events] /\ status \in [Events -> Statuses]
    BY DEF TypeOK
  <1>3. \A f : f \in Settled' <=> f \in Settled \/ f = e
    <2> TAKE f
    <2>1. f \in Settled' <=> /\ f \in submitted /\ f \notin Queued /\ f \notin lost
                             /\ \A u \in Threads : f \notin held'[u]
      BY <1>1 DEF Settled, InCustody, Held, Queued
    <2>2. (\A u \in Threads : f \notin held'[u]) <=> f = e \/ \A u \in Threads : f \notin held[u]
      BY <1>1, <1>2 DEF SingleCustody
    <2>3. e \in submitted /\ e \notin Queued /\ e \notin lost
      BY <1>1, <1>2 DEF SingleCustody
    <2>4. QED
      BY <2>1, <2>2, <2>3, SettledIff
  <1>4. e \notin Settled
    BY <1>1, SettledIff
  <1>5. QED
    BY <1>1, <1>2, <1>3, <1>4

-----------------------------------------------------------------------------
(* The counters. *)

LEMMA SettledIsFinite ==
    ASSUME TypeOK, NEW v
    PROVE  IsFiniteSet(SettledAs(v)) /\ SettledAs(v) \subseteq Events
  <1>1. SettledAs(v) \subseteq Events
    BY DEF SettledAs, Settled, TypeOK
  <1>2. QED
    BY <1>1, FS_Subset, TargetsAssumption

LEMMA MetricsStep ==
    ASSUME Bookkeeping, MetricsAreExact, [Next]_vars
    PROVE  MetricsAreExact'
  <1> USE DEF MetricsAreExact
  <1>0. /\ TypeOK /\ metrics \in [MetricNames -> Nat]
        /\ {"delivered", "spooled", "rejected"} \subseteq MetricNames
        /\ Settled \subseteq Events
    BY DEF Bookkeeping, TypeOK, MetricNames, Settled
  <1>1. ASSUME NEW t \in Deliverers, AdapterReturn(t)
        PROVE  MetricsAreExact'
    <2> DEFINE returned == outcome[t].returned
    <2>1. returned \subseteq Events
      BY <1>0 DEF TypeOK, Outcome
    <2>2. /\ SettledAs("DELIVERED")' = SettledAs("DELIVERED") \cup returned
          /\ SettledAs("SPOOLED")' = SettledAs("SPOOLED")
          /\ SettledAs("REJECTED")' = SettledAs("REJECTED")
          /\ SettledAs("DELIVERED") \cap returned = {}
      <3>1. /\ Settled' = Settled \cup returned
            /\ returned \cap Settled = {}
            /\ \A e \in returned : status'[e] = "DELIVERED"
        BY <1>1, <2>1, ReturnSettles
      <3>2. \A e \in Settled : status'[e] = status[e]
        <4>1. \A e \in Settled : e \in Events /\ e \notin returned /\ e \notin held[t]
          BY <1>0, <3>1, SettledIff DEF Threads
        <4>2. QED
          BY <1>1, <4>1, ReturnSettles
      <3>3. QED
        BY <3>1, <3>2 DEF SettledAs
    <2>3. /\ metrics'["delivered"] = metrics["delivered"] + Cardinality(returned)
          /\ metrics'["spooled"] = metrics["spooled"]
          /\ metrics'["rejected"] = metrics["rejected"]
      BY <1>0, <1>1 DEF AdapterReturn, NewlyDelivered
    <2>4. Cardinality(SettledAs("DELIVERED") \cup returned)
             = Cardinality(SettledAs("DELIVERED")) + Cardinality(returned)
      <3>1. IsFiniteSet(returned) /\ IsFiniteSet(SettledAs("DELIVERED"))
        BY <1>0, <2>1, SettledIsFinite, FS_Subset, TargetsAssumption
      <3>2. /\ Cardinality(returned) \in Nat
            /\ Cardinality(SettledAs("DELIVERED")) \in Nat
        BY <3>1, FS_CardinalityType
      <3>3. Cardinality(SettledAs("DELIVERED") \cap returned) = 0
        BY <2>2, FS_EmptySet
      <3>4. QED
        BY <3>1, <3>2, <3>3, FS_Union
    <2>5. QED
      BY <2>2, <2>3, <2>4
  <1>2. ASSUME NEW t \in Threads, NEW e \in Events, SpoolSettles(t, e)
        PROVE  MetricsAreExact'
    <2>1. /\ Settled' = Settled \cup {e}
          /\ e \notin Settled
          /\ \A f \in Settled : status'[f] = status[f]
      BY <1>0, <1>2, SpoolCallSettles
    <2>2. \/ /\ status'[e] = "SPOOLED"
             /\ metrics' = [metrics EXCEPT !["spooled"] = @ + 1]
          \/ /\ status'[e] = "REJECTED"
             /\ metrics' = [metrics EXCEPT !["rejected"] = @ + 1]
      <3>1. status \in [Events -> Statuses]
        BY <1>0 DEF TypeOK
      <3>2. QED
        BY <1>2, <3>1 DEF SpoolSettles, SpoolVerdict
    <2>3. ASSUME NEW v, status'[e] = v
          PROVE  Cardinality(SettledAs(v)') = Cardinality(SettledAs(v)) + 1
      <3>1. SettledAs(v)' = SettledAs(v) \cup {e} /\ e \notin SettledAs(v)
        BY <2>1, <2>3 DEF SettledAs
      <3>2. QED
        BY <1>0, <3>1, SettledIsFinite, FS_AddElement
    <2>4. ASSUME NEW v, status'[e] # v
          PROVE  SettledAs(v)' = SettledAs(v)
      BY <2>1, <2>4 DEF SettledAs
    <2>5. CASE /\ status'[e] = "SPOOLED"
               /\ metrics' = [metrics EXCEPT !["spooled"] = @ + 1]
      <3>1. /\ metrics'["spooled"] = metrics["spooled"] + 1
            /\ metrics'["delivered"] = metrics["delivered"]
            /\ metrics'["rejected"] = metrics["rejected"]
        BY <1>0, <2>5
      <3>2. /\ Cardinality(SettledAs("SPOOLED")') = Cardinality(SettledAs("SPOOLED")) + 1
            /\ SettledAs("DELIVERED")' = SettledAs("DELIVERED")
            /\ SettledAs("REJECTED")' = SettledAs("REJECTED")
        BY <2>3, <2>4, <2>5
      <3>3. QED
        BY <3>1, <3>2
    <2>6. CASE /\ status'[e] = "REJECTED"
               /\ metrics' = [metrics EXCEPT !["rejected"] = @ + 1]
      <3>1. /\ metrics'["rejected"] = metrics["rejected"] + 1
            /\ metrics'["delivered"] = metrics["delivered"]
            /\ metrics'["spooled"] = metrics["spooled"]
        BY <1>0, <2>6
      <3>2. /\ Cardinality(SettledAs("REJECTED")') = Cardinality(SettledAs("REJECTED")) + 1
            /\ SettledAs("DELIVERED")' = SettledAs("DELIVERED")
            /\ SettledAs("SPOOLED")' = SettledAs("SPOOLED")
        BY <2>3, <2>4, <2>6
      <3>3. QED
        BY <3>1, <3>2
    <2>7. QED
      BY <2>2, <2>5, <2>6
  <1>3. CASE \A t \in Threads : ~Settles(t)
    <2>1. /\ metrics'["delivered"] = metrics["delivered"]
          /\ metrics'["spooled"] = metrics["spooled"]
          /\ metrics'["rejected"] = metrics["rejected"]
      BY <1>0, <1>3
         DEF Settles, Threads, Next, Submit, SubmitCall, PutInQueue, PutTimesOut, Start,
             WorkerRun, WorkerLoop, WorkerGet, WorkerGetTimesOut, WorkerFill, WorkerFilled,
             DeliverBatch, AdapterRun, BackoffEnds, SpoolEvent, SpoolRaises, CountRaised, Stop,
             StopReturns, JoinReturns, JoinTimesOut, Drain, Drained, Halt, vars
    <2>2. \A v : SettledAs(v)' = SettledAs(v)
      BY <1>3, NothingSettles DEF SettledAs
    <2>3. QED
      BY <2>1, <2>2
  <1>4. QED
    BY <1>1, <1>2, <1>3 DEF Settles

\* delivery_delivered, events_spooled and delivery_rejected count each settled event once,
\* under the verdict it carries.
THEOREM ExactMetrics == Spec => []MetricsAreExact
  <1>1. Init => MetricsAreExact
    <2>1. Init => \A v : SettledAs(v) = {}
      BY DEF Init, SettledAs, Settled
    <2>2. QED
      BY <2>1, FS_EmptySet DEF Init, MetricsAreExact, MetricNames
  <1>2. QED
    BY <1>1, MetricsStep, BookkeepingCorrect, PTL DEF Spec

-----------------------------------------------------------------------------
(* The refinement: what each step of the manager is for module Custody. *)

LEMMA PromiseInit == Init => Promise!Init
  <1> SUFFICES ASSUME Init PROVE Promise!Init
    OBVIOUS
  <1>1. submitted = {} /\ lost = {} /\ Settled = {}
    BY DEF Init, Settled
  <1>2. Running
    BY ThreadFacts DEF Init, Running
  <1>3. [e \in Settled |-> status[e]] = [e \in {} |-> "DELIVERED"]
    BY <1>1
  <1>4. QED
    BY <1>1, <1>2, <1>3 DEF Promise!Init

\* A submitted event is accepted.
LEMMA AcceptStep ==
    ASSUME Bookkeeping, NEW s \in Submitters, NEW e \in Events, SubmitCall(s, e),
           Settled' = Settled, \A f \in Settled : status'[f] = status[f]
    PROVE  Promise!Accept(e)
  <1>1. /\ e \notin submitted /\ submitted' = submitted \cup {e}
        /\ UNCHANGED lost
        /\ Running /\ pc' = [pc EXCEPT ![s] = "put"]
    BY DEF SubmitCall
  <1>2. Running'
    BY <1>1, ThreadFacts DEF Running, Bookkeeping, TypeOK
  <1>3. [f \in Settled |-> status[f]]' = [f \in Settled |-> status[f]]
    OBVIOUS
  <1>4. QED
    BY <1>1, <1>2, <1>3 DEF Promise!Accept

\* What a target or spool call settles is settled, truly.
LEMMA SettleStep ==
    ASSUME Bookkeeping, [Next]_vars, NEW t \in Threads, Settles(t)
    PROVE  \E S \in SUBSET Events : Promise!Settle(S)
  <1> DEFINE verdict == [e \in Settled |-> status[e]]
  <1>0. PICK S : S = Settled' \ Settled
    OBVIOUS
  <1>1. Settled \subseteq Settled'
    BY StaysSettled DEF Bookkeeping
  <1>2. UNCHANGED <<submitted, lost>>
    BY DEF Settles, AdapterReturn, SpoolSettles
  <1>3. Running /\ Running'
    <2>1. pc \in [Threads -> Labels] /\ Running /\ pc'["main"] \in {pc["main"], AfterPass(t), Done(t)}
      BY ThreadFacts DEF Bookkeeping, TypeOK, Settles, AdapterReturn, SpoolSettles
    <2>2. AfterPass(t) # "halted" /\ Done(t) # "halted"
      BY DEF AfterPass, Done
    <2>3. QED
      BY <2>1, <2>2 DEF Running
  <1>4. S \in SUBSET Events /\ S \subseteq submitted \ (Settled \cup lost)
    BY <1>0, <1>2 DEF Settled, Bookkeeping, TypeOK
  <1>5. ASSUME NEW e \in Settled PROVE verdict'[e] = verdict[e]
    <2>1. e \in Events /\ \A u \in Threads : e \notin held[u]
      BY SettledIff DEF Bookkeeping, TypeOK
    <2>2. QED
      BY <1>1, <2>1, OnlyTheHeldChange DEF Bookkeeping, Untouched
  <1>6. ASSUME NEW e \in S PROVE verdict'[e] \in Promise!VerdictsFor(e)
    <2>1. status'[e] \in {"DELIVERED", "SPOOLED"} \/ (status'[e] = "REJECTED" /\ e \in Surrogate)
      BY <1>0, HowItSettles
    <2>2. QED
      BY <1>0, <2>1 DEF Promise!VerdictsFor
  <1>7. Promise!Settle(S)
    <2>1. /\ ~ ~Running
          /\ S \subseteq Promise!Waiting
          /\ DOMAIN verdict' = DOMAIN verdict \cup S
          /\ verdict' = [e \in DOMAIN verdict' |-> verdict'[e]]
          /\ \A e \in DOMAIN verdict : verdict'[e] = verdict[e]
          /\ \A e \in S : verdict'[e] \in Promise!VerdictsFor(e)
          /\ UNCHANGED <<submitted, lost, ~Running>>
      BY <1>0, <1>1, <1>2, <1>3, <1>4, <1>5, <1>6 DEF Promise!Waiting
    <2>2. QED
      BY <2>1 DEF Promise!Settle
  <1>8. QED
    BY <1>4, <1>7

\* An exception that leaves the spool loses what its thread held, and only a fault of the
\* disk raises one.
LEMMA LoseStep ==
    ASSUME Bookkeeping, NEW t \in Threads, NEW e \in Events, SpoolRaises(t, e),
           Settled' = Settled, \A f \in Settled : status'[f] = status[f]
    PROVE  \E S \in SUBSET Events : Promise!Lose(S)
  <1>1. /\ Running /\ e \in held[t]
        /\ lost' = lost \cup held[t] /\ UNCHANGED submitted
        /\ pc' = [pc EXCEPT ![t] = Unwound(t)]
        /\ \E r \in SpoolResults(e) : r.ending = "oserror"
    BY DEF SpoolRaises, Dropped
  <1>2. DiskFaults
    BY <1>1, SpoolResultParts
  <1>3. Running'
    <2>1. Unwound(t) # "halted" /\ pc \in [Threads -> Labels]
      BY DEF Unwound, Bookkeeping, TypeOK
    <2>2. QED
      BY <1>1, <2>1, ThreadFacts DEF Running
  <1>4. held[t] \in SUBSET Events /\ held[t] \subseteq submitted \ (Settled \cup lost)
    BY SettledIff DEF Bookkeeping, TypeOK, SingleCustody
  <1>5. [f \in Settled |-> status[f]]' = [f \in Settled |-> status[f]]
    OBVIOUS
  <1>6. Promise!Lose(held[t])
    BY <1>1, <1>2, <1>3, <1>4, <1>5 DEF Promise!Lose, Promise!Waiting
  <1>7. QED
    BY <1>4, <1>6

\* With the process everything goes that has no verdict yet, and nothing else.
LEMMA EndStep ==
    ASSUME Bookkeeping, Halt, Settled' = Settled, \A f \in Settled : status'[f] = status[f]
    PROVE  Promise!End
  <1>1. /\ pc["main"] \in {"stopped", "aborted"} /\ pc' = [pc EXCEPT !["main"] = "halted"]
        /\ lost' = lost \cup InCustody /\ UNCHANGED submitted
    BY DEF Halt
  <1>2. Running /\ ~Running'
    BY <1>1, ThreadFacts DEF Running, Bookkeeping, TypeOK
  <1>3. InCustody = submitted \ (Settled \cup lost)
    <2>1. InCustody \subseteq submitted /\ InCustody \cap lost = {}
      BY DEF Bookkeeping, SingleCustody, InCustody, Held
    <2>2. QED
      BY <2>1 DEF Settled
  <1>4. [f \in Settled |-> status[f]]' = [f \in Settled |-> status[f]]
    OBVIOUS
  <1>5. QED
    BY <1>1, <1>2, <1>3, <1>4 DEF Promise!End, Promise!Waiting

LEMMA PromiseStep ==
    ASSUME Bookkeeping, [Next]_vars
    PROVE  [Promise!Next]_(Promise!custody)
  <1>1. ASSUME NEW t \in Threads, Settles(t)
        PROVE  Promise!Next
    BY <1>1, SettleStep DEF Promise!Next
  <1>2. CASE \A t \in Threads : ~Settles(t)
    <2>0. Settled' = Settled /\ \A e \in Settled : status'[e] = status[e]
      BY <1>2, NothingSettles
    <2>1. ASSUME NEW s \in Submitters, NEW e \in Events, SubmitCall(s, e)
          PROVE  Promise!Next
      BY <2>0, <2>1, AcceptStep DEF Promise!Next
    <2>2. ASSUME NEW t \in Threads, NEW e \in Events, SpoolRaises(t, e)
          PROVE  Promise!Next
      BY <2>0, <2>2, LoseStep DEF Promise!Next
    <2>3. CASE Halt
      BY <2>0, <2>3, EndStep DEF Promise!Next
    <2>4. CASE UNCHANGED <<submitted, lost>> /\ Running' = Running
      <3>1. [e \in Settled |-> status[e]]' = [e \in Settled |-> status[e]]
        BY <2>0
      <3>2. QED
        BY <2>4, <3>1 DEF Promise!custody
    <2>5. \/ \E s \in Submitters, e \in Events : SubmitCall(s, e)
          \/ \E t \in Threads, e \in Events : SpoolRaises(t, e)
          \/ Halt
          \/ UNCHANGED <<submitted, lost>> /\ Running' = Running
      <3>0. pc \in [Threads -> Labels]
        BY DEF Bookkeeping, TypeOK
      <3>1. ASSUME NEW s \in Submitters, (\E e \in Events : PutInQueue(s, e)) \/ PutTimesOut(s)
            PROVE  UNCHANGED <<submitted, lost>> /\ Running' = Running
        BY <3>0, <3>1, ThreadFacts DEF PutInQueue, PutTimesOut, Running
      <3>2. CASE Start \/ WorkerRun
        BY <3>0, <3>2, ThreadFacts
           DEF Start, WorkerRun, WorkerLoop, WorkerGet, WorkerGetTimesOut, WorkerFill,
               WorkerFilled, Running
      <3>3. ASSUME NEW t \in Deliverers, AdapterRun(t) \/ BackoffEnds(t)
            PROVE  UNCHANGED <<submitted, lost>> /\ Running' = Running
        BY <3>0, <3>3, ThreadFacts DEF AdapterRun, BackoffEnds, Running
      <3>4. CASE Stop \/ StopReturns
        BY <3>0, <3>4, ThreadFacts
           DEF Stop, StopReturns, JoinReturns, AfterJoin, JoinTimesOut, Drain, Drained, Running
      <3>5. CASE UNCHANGED vars
        BY <3>5 DEF vars, local, Running
      <3>6. ASSUME NEW s \in Submitters, Submit(s)
            PROVE  \/ \E e \in Events : SubmitCall(s, e)
                   \/ UNCHANGED <<submitted, lost>> /\ Running' = Running
        BY <3>1, <3>6 DEF Submit
      <3>7. ASSUME NEW t \in Deliverers, DeliverBatch(t)
            PROVE  UNCHANGED <<submitted, lost>> /\ Running' = Running
        BY <1>2, <3>3, <3>7 DEF DeliverBatch, Settles, Threads
      <3>8. ASSUME NEW t \in Threads, SpoolEvent(t)
            PROVE  \E e \in Events : SpoolRaises(t, e)
        BY <1>2, <3>8 DEF SpoolEvent, Settles
      <3>9. QED
        BY <3>2, <3>4, <3>5, <3>6, <3>7, <3>8 DEF Next
    <2>6. QED
      BY <2>1, <2>2, <2>3, <2>4, <2>5
  <1>3. QED
    BY <1>1, <1>2

\* The delivery manager keeps its promise: what was handed to submit() gets one verdict,
\* true and final, or is lost to a fault of the disk or with the process.
THEOREM PromiseKept == Spec => KeepsPromise
  <1>1. Init => Promise!Init
    BY PromiseInit
  <1>2. Bookkeeping /\ [Next]_vars => [Promise!Next]_(Promise!custody)
    BY PromiseStep
  <1>3. QED
    BY <1>1, <1>2, BookkeepingCorrect, PTL DEF Spec, KeepsPromise, Promise!Spec


\* While the process lives, an event is lost without a verdict only where the disk fails.
OnlyFaultsLose == lost # {} => DiskFaults \/ ~Running

THEOREM LossNeedsFault == Spec => []OnlyFaultsLose
  <1>1. Init => OnlyFaultsLose
    BY DEF Init, OnlyFaultsLose
  <1>2. Bookkeeping /\ OnlyFaultsLose /\ [Next]_vars => OnlyFaultsLose'
    <2> SUFFICES ASSUME Bookkeeping, OnlyFaultsLose, [Next]_vars
                 PROVE  OnlyFaultsLose'
      OBVIOUS
    <2>1. CASE \E e \in Events : Promise!Accept(e)
      BY <2>1 DEF Promise!Accept, OnlyFaultsLose
    <2>2. CASE \E S \in SUBSET Events : Promise!Settle(S) \/ Promise!Lose(S)
      BY <2>2 DEF Promise!Settle, Promise!Lose, OnlyFaultsLose
    <2>3. CASE Promise!End
      BY <2>3 DEF Promise!End, OnlyFaultsLose
    <2>4. CASE UNCHANGED Promise!custody
      BY <2>4 DEF Promise!custody, OnlyFaultsLose
    <2>5. QED
      BY <2>1, <2>2, <2>3, <2>4, PromiseStep DEF Promise!Next
  <1>3. QED
    BY <1>1, <1>2, BookkeepingCorrect, PTL DEF Spec

=============================================================================
