---------------------------- MODULE RuntimeProofs ----------------------------
(***************************************************************************)
(* Theorems about the running process, for every set of collectors and     *)
(* connections, of events, and every size of the queues and of the         *)
(* history.  Its delivery manager behaves as module Delivery says, so the  *)
(* theorems about Delivery hold in the process; and an event the process   *)
(* received is never in two places, never in none, and never overtakes one *)
(* received before it by the same thread: from the same socket, connection *)
(* or file.                                                                *)
(***************************************************************************)
EXTENDS Runtime, DeliveryProofs

-----------------------------------------------------------------------------
(* Every step of the process is a step of the delivery manager, or leaves it *)
(* alone.                                                                    *)

LEMMA RuntimeInitIsInit == RuntimeInit => Init
  BY DEF RuntimeInit

LEMMA BootIsDelivery ==
    ASSUME Boot PROVE [Next]_vars
  <1>1. CASE StartPipeline
    BY <1>1 DEF StartPipeline
  <1>2. ASSUME NEW c \in Collectors, StartCollector(c) PROVE UNCHANGED vars
    BY <1>2 DEF StartCollector
  <1>3. CASE StartRest
    BY <1>3 DEF StartRest, Next
  <1>4. QED
    BY <1>1, <1>2, <1>3 DEF Boot

LEMMA FeedLeavesDelivery ==
    ASSUME NEW c \in Feeds,
           \/ CollectorLoop(c) \/ (\E e \in Events : Receive(c, e)) \/ NothingReceived(c)
           \/ EndOfInput(c) \/ (\E e \in Events : Emit(c, e)) \/ EmitOverflows(c)
           \/ StartReplay(c) \/ ReplayRefuses(c) \/ ReplayFails(c) \/ ReplayPrints(c)
    PROVE  UNCHANGED vars
  BY DEF CollectorLoop, Receive, NothingReceived, EndOfInput, Emit, EmitOverflows,
         StartReplay, ReplayRefuses, ReplayFails, ReplayPrints

LEMMA AcceptIsQuiet ==
    ASSUME NEW c \in Tcp, NEW f \in Connections[c], Accept(c, f)
    PROVE  /\ f \in Connected /\ c \in Collectors
           /\ Running /\ cpc[c] = "loop" /\ cpc' = [cpc EXCEPT ![f] = "loop"] /\ cpc[f] = "new"
           /\ UNCHANGED <<main, joining, cstop, chold, inq, processing, serving, recorded,
                          observed, vars>>
  BY DEF Accept, Connected, Collectors

LEMMA ProcessIsDelivery ==
    ASSUME Process PROVE [Next]_vars
  <1>1. CASE PipelineLoop \/ PipelineGet \/ PipelineGetTimesOut \/ PipelineProcess \/ PipelineRecorded
    BY <1>1 DEF PipelineLoop, PipelineGet, PipelineGetTimesOut, PipelineProcess, PipelineRecorded
  <1>2. ASSUME NEW e \in Events, PipelineRecordOnly(e) PROVE UNCHANGED vars
    BY <1>2 DEF PipelineRecordOnly
  <1>3. ASSUME NEW e \in Events, PipelineRecord(e) PROVE Next
    BY <1>3, RuntimeAssumption DEF PipelineRecord, Record, Next, Submit
  <1>4. QED
    BY <1>1, <1>2, <1>3 DEF Process

LEMMA ServeIsDelivery ==
    ASSUME Serve \/ \E e \in Events : ApiParse(e) PROVE [Next]_vars
  <1>1. CASE ApiRaises \/ ApiAnswers \/ \E e \in Events : ApiParse(e)
    BY <1>1 DEF ApiRaises, ApiAnswers, ApiParse
  <1>2. ASSUME NEW e \in Events, ApiRecord(e) PROVE Next
    BY <1>2, RuntimeAssumption DEF ApiRecord, Record, Next, Submit
  <1>3. QED
    BY <1>1, <1>2 DEF Serve

LEMMA ShutdownIsDelivery ==
    ASSUME StopRequested \/ Shutdown \/ Exit PROVE [Next]_vars
  <1>1. CASE StopRequested \/ StopApiAndPipeline \/ PipelineJoined
    BY <1>1 DEF StopRequested, StopApiAndPipeline, PipelineJoined
  <1>2. ASSUME NEW c \in Collectors, StopCollector(c) \/ CollectorJoined(c) PROVE UNCHANGED vars
    BY <1>2 DEF StopCollector, CollectorJoined
  <1>3. CASE StopDelivery \/ Exit
    BY <1>3 DEF StopDelivery, Exit, Next
  <1>4. QED
    BY <1>1, <1>2, <1>3 DEF Shutdown

LEMMA DeliveryStepIsNext ==
    ASSUME DeliveryStep PROVE Next
  <1>1. ASSUME NEW s \in Submitters, PutInDeliveryQueue(s) PROVE Submit(s)
    BY <1>1 DEF PutInDeliveryQueue, Submit
  <1>2. QED
    BY <1>1 DEF DeliveryStep, Next

LEMMA FreshIsNew == Fresh \subseteq Events \ Arrived
  <1>1. CASE Events \subseteq Arrived
    BY <1>1 DEF Fresh
  <1>2. CASE ~(Events \subseteq Arrived)
    <2>1. (CHOOSE e \in Events : e \notin Arrived) \in Events \ Arrived
      BY <1>2
    <2>2. QED
      BY <1>2, <2>1 DEF Fresh
  <1>3. QED
    BY <1>1, <1>2

LEMMA StepIsDelivery ==
    ASSUME [RuntimeNext]_allVars PROVE [Next]_vars
  <1>1. Fresh \subseteq Events /\ Collectors \cup Connected \subseteq Feeds /\ Replay \subseteq Feeds
    BY FreshIsNew DEF Feeds
  <1>2. CASE UNCHANGED allVars
    BY <1>2 DEF allVars
  <1>3. ASSUME NEW c \in Collectors \cup Connected, Collect(c) \/ \E e \in Fresh : Receive(c, e)
        PROVE  UNCHANGED vars
    BY <1>1, <1>3, FeedLeavesDelivery DEF Collect
  <1>4. ASSUME NEW r \in Replay,
               \/ StartReplay(r) \/ (\E e \in Fresh : Receive(r, e)) \/ ReplayRefuses(r)
               \/ ReplayStep(r)
        PROVE  UNCHANGED vars
    BY <1>1, <1>4, FeedLeavesDelivery DEF ReplayStep
  <1>5. CASE Boot
    BY <1>5, BootIsDelivery
  <1>6. CASE Process
    BY <1>6, ProcessIsDelivery
  <1>7. CASE Serve \/ \E e \in Fresh : ApiParse(e)
    BY <1>1, <1>7, ServeIsDelivery
  <1>8. CASE StopRequested \/ Shutdown \/ Exit
    BY <1>8, ShutdownIsDelivery
  <1>9. CASE DeliveryStep
    BY <1>9, DeliveryStepIsNext
  <1>10. ASSUME NEW c \in Tcp, NEW f \in Connections[c], Accept(c, f) PROVE UNCHANGED vars
    BY <1>10, AcceptIsQuiet
  <1>11. QED
    BY <1>2, <1>3, <1>4, <1>5, <1>6, <1>7, <1>8, <1>9, <1>10 DEF RuntimeNext

\* In the running process the delivery manager behaves as module Delivery says: its
\* submitters are the pipeline's worker and the API's handler, and nothing in the process
\* steps in between.
THEOREM DeliveryInRuntime == RuntimeSpec => Spec
  <1>1. RuntimeInit => Init
    BY RuntimeInitIsInit
  <1>2. [RuntimeNext]_allVars => [Next]_vars
    BY StepIsDelivery
  <1>3. QED
    BY <1>1, <1>2, PTL DEF RuntimeSpec, Spec

LEMMA BookkeepingInRuntime == RuntimeSpec => []Bookkeeping
  BY DeliveryInRuntime, BookkeepingCorrect, PTL

\* What the process hands to the delivery manager gets one verdict, true and final, or is
\* lost to a fault of the disk or with the process.
THEOREM PromiseKeptInRuntime == RuntimeSpec => KeepsPromise
  BY DeliveryInRuntime, PromiseKept, PTL

-----------------------------------------------------------------------------
(* The steps that move an event from one place to another. *)

moving == <<chold, inq, phold, ahold, history, counted, arrived, rejected, abandoned, shown,
            submitted>>

\* A process that has ended does not come back.
LEMMA NeverResumes ==
    ASSUME TypeOK, [Next]_vars, Running' PROVE Running
  <1> SUFFICES ASSUME ~Running PROVE FALSE
    OBVIOUS
  <1>0. pc \in [Threads -> Labels] /\ pc["main"] = "halted" /\ pc'["main"] # "halted"
    BY DEF TypeOK, Running
  <1>1. ASSUME NEW s \in Submitters, Submit(s) PROVE FALSE
    BY <1>1 DEF Submit, SubmitCall, PutInQueue, PutTimesOut
  <1>2. CASE Start \/ Stop \/ StopReturns \/ Halt
    BY <1>0, <1>2
       DEF Start, Stop, StopReturns, JoinReturns, JoinTimesOut, Drain, Drained, Halt
  <1>3. CASE WorkerRun
    BY <1>3 DEF WorkerRun, WorkerLoop, WorkerGet, WorkerGetTimesOut, WorkerFill, WorkerFilled
  <1>4. ASSUME NEW t \in Deliverers, DeliverBatch(t) PROVE FALSE
    BY <1>4 DEF DeliverBatch, AdapterRun, AdapterReturn, BackoffEnds
  <1>5. ASSUME NEW t \in Threads, SpoolEvent(t) PROVE FALSE
    BY <1>5 DEF SpoolEvent, SpoolSettles, SpoolRaises
  <1>6. CASE UNCHANGED vars
    BY <1>0, <1>6 DEF vars, local
  <1>7. QED
    BY <1>1, <1>2, <1>3, <1>4, <1>5, <1>6 DEF Next

LEMMA DeliveryStepIsQuiet ==
    ASSUME DeliveryStep PROVE UNCHANGED moving
  <1>1. UNCHANGED <<chold, inq, phold, ahold, history, counted, arrived, rejected, abandoned,
                    shown>>
    BY DEF DeliveryStep, intake, collecting, processing, serving, recorded, observed
  <1>2. UNCHANGED submitted
    <2>1. ASSUME NEW s \in Submitters, PutInDeliveryQueue(s) PROVE UNCHANGED submitted
      BY <2>1 DEF PutInDeliveryQueue, PutInQueue, PutTimesOut
    <2>2. CASE WorkerRun
      BY <2>2 DEF WorkerRun, WorkerLoop, WorkerGet, WorkerGetTimesOut, WorkerFill, WorkerFilled
    <2>3. ASSUME NEW t \in Deliverers, DeliverBatch(t) PROVE UNCHANGED submitted
      BY <2>3 DEF DeliverBatch, AdapterRun, AdapterReturn, BackoffEnds
    <2>4. ASSUME NEW t \in Threads, SpoolEvent(t) PROVE UNCHANGED submitted
      BY <2>4 DEF SpoolEvent, SpoolSettles, SpoolRaises
    <2>5. CASE StopReturns
      BY <2>5 DEF StopReturns, JoinReturns, JoinTimesOut, Drain, Drained
    <2>6. QED
      BY <2>1, <2>2, <2>3, <2>4, <2>5 DEF DeliveryStep
  <1>3. QED
    BY <1>1, <1>2 DEF moving

LEMMA Movements ==
    ASSUME [RuntimeNext]_allVars
    PROVE  \/ \E c \in Feeds : \E e \in Fresh : Receive(c, e)
           \/ \E e \in Fresh : ApiParse(e)
           \/ \E c \in Feeds : (\E e \in Events : Emit(c, e)) \/ EmitOverflows(c)
           \/ PipelineGet
           \/ \E e \in Events : PipelineRecord(e) \/ PipelineRecordOnly(e) \/ ApiRecord(e)
           \/ ApiRaises
           \/ Exit
           \/ UNCHANGED moving
  <1> DEFINE Moves ==
               \/ \E c \in Feeds : \E e \in Fresh : Receive(c, e)
               \/ \E c \in Feeds : (\E e \in Events : Emit(c, e)) \/ EmitOverflows(c)
             still == <<chold, inq, phold, ahold, history, counted, arrived, rejected,
                        abandoned, shown, vars>>
  <1>0. Collectors \cup Connected \subseteq Feeds /\ Replay \subseteq Feeds
    BY DEF Feeds
  <1>1. ASSUME UNCHANGED still PROVE UNCHANGED moving
    BY <1>1 DEF moving, vars
  <1>2. CASE UNCHANGED allVars
    BY <1>2 DEF allVars, intake, collecting, processing, serving, recorded, observed, moving, vars
  <1>3. CASE Boot
    <2>1. CASE StartPipeline
      BY <1>1, <2>1 DEF StartPipeline, collecting, serving, recorded, observed
    <2>2. ASSUME NEW c \in Collectors, StartCollector(c) PROVE UNCHANGED moving
      BY <1>1, <2>2 DEF StartCollector, processing, serving, recorded, observed
    <2>3. CASE StartRest
      BY <2>3 DEF StartRest, Start, collecting, processing, recorded, observed, moving
    <2>4. QED
      BY <1>3, <2>1, <2>2, <2>3 DEF Boot
  <1>4. ASSUME NEW c \in Feeds, \/ CollectorLoop(c) \/ NothingReceived(c) \/ EndOfInput(c)
                                \/ StartReplay(c) \/ ReplayRefuses(c) \/ ReplayFails(c)
                                \/ ReplayPrints(c)
        PROVE  UNCHANGED moving
    BY <1>1, <1>4 DEF CollectorLoop, NothingReceived, EndOfInput, StartReplay, ReplayRefuses,
                      ReplayFails, ReplayPrints, collecting, processing, serving, recorded,
                      observed
  <1>5. ASSUME NEW c \in Collectors \cup Connected, Collect(c) \/ \E e \in Fresh : Receive(c, e)
        PROVE  Moves \/ UNCHANGED moving
    BY <1>0, <1>4, <1>5 DEF Collect
  <1>6. ASSUME NEW r \in Replay,
               \/ StartReplay(r) \/ (\E e \in Fresh : Receive(r, e)) \/ ReplayRefuses(r)
               \/ ReplayStep(r)
        PROVE  Moves \/ UNCHANGED moving
    BY <1>0, <1>4, <1>6 DEF ReplayStep
  <1>7. CASE \/ PipelineLoop \/ PipelineGetTimesOut \/ PipelineProcess \/ PipelineRecorded
             \/ ApiAnswers \/ StopRequested \/ StopApiAndPipeline \/ PipelineJoined
    BY <1>1, <1>7 DEF PipelineLoop, PipelineGetTimesOut, PipelineProcess, PipelineRecorded,
                      ApiAnswers, StopRequested, StopApiAndPipeline, PipelineJoined,
                      collecting, processing, serving, recorded, observed
  <1>8. ASSUME NEW c \in Collectors, StopCollector(c) \/ CollectorJoined(c)
        PROVE  UNCHANGED moving
    BY <1>1, <1>8 DEF StopCollector, CollectorJoined, processing, serving, recorded, observed
  <1>9. CASE StopDelivery
    BY <1>9 DEF StopDelivery, Stop, collecting, processing, serving, recorded, observed, moving
  <1>10. CASE DeliveryStep
    BY <1>10, DeliveryStepIsQuiet
  <1>11. CASE Process
    BY <1>7, <1>11 DEF Process
  <1>12. CASE Serve
    BY <1>7, <1>12 DEF Serve
  <1>13. CASE Shutdown
    BY <1>7, <1>8, <1>9, <1>13 DEF Shutdown
  <1>14. ASSUME NEW c \in Tcp, NEW f \in Connections[c], Accept(c, f) PROVE UNCHANGED moving
    <2>1. UNCHANGED <<chold, inq, processing, serving, recorded, observed, vars>>
      BY <1>14, AcceptIsQuiet
    <2>2. QED
      BY <1>1, <2>1 DEF processing, serving, recorded, observed
  <1>15. QED
    BY <1>2, <1>3, <1>5, <1>6, <1>7, <1>10, <1>11, <1>12, <1>13, <1>14 DEF RuntimeNext

-----------------------------------------------------------------------------
(* Type correctness. *)

LEMMA FeedFacts ==
    /\ Collectors \cup Connected \subseteq Feeds /\ Replay \subseteq Feeds
    /\ Tcp \subseteq Feeds /\ Files \subseteq Feeds
    /\ "pipeline" \in Submitters /\ "api" \in Submitters /\ "api" \notin Feeds
    /\ HistorySize \in Nat \ {0}
    /\ Fresh \subseteq Events \ Arrived
  BY RuntimeAssumption, FreshIsNew DEF Feeds, Collectors

\* The history with one more event, and without the oldest when that is one too many.
LEMMA RememberedType ==
    ASSUME history \in Seq(Events), NEW e \in Events
    PROVE  /\ Remembered(e) \in Seq(Events)
           /\ Elements(Remembered(e)) \subseteq Elements(history) \cup {e}
  <1> DEFINE all == Append(history, e)
  <1>1. all \in Seq(Events) /\ all # <<>> /\ Elements(all) = Elements(history) \cup {e}
    BY ElementsOfAppend
  <1>3. Remembered(e) \in {all, Tail(all)}
    BY DEF Remembered
  <1> HIDE DEF all
  <1>2. Tail(all) \in Seq(Events) /\ Elements(Tail(all)) \subseteq Elements(all)
    BY <1>1, ElementsOfTail
  <1>4. QED
    BY <1>1, <1>2, <1>3

LEMMA AppendType ==
    ASSUME NEW S, NEW q \in Seq(S), NEW x \in S
    PROVE  Append(q, x) \in Seq(S)
  OBVIOUS

LEMMA CountsType ==
    ASSUME NEW counts \in [received : Nat, overflow : Nat]
    PROVE  /\ [counts EXCEPT !.received = @ + 1] \in [received : Nat, overflow : Nat]
           /\ [counts EXCEPT !.overflow = @ + 1] \in [received : Nat, overflow : Nat]
  OBVIOUS

LEMMA RuntimeTypeInit == RuntimeInit => RuntimeTypeOK
  <1> SUFFICES ASSUME RuntimeInit PROVE RuntimeTypeOK
    OBVIOUS
  <1>1. counted \in [received : Nat, overflow : Nat]
    BY DEF RuntimeInit
  <1>2. inq \in Seq(Events) /\ history \in Seq(Events) /\ arrived \in Seq((Feeds \cup {"api"}) \X Events)
    BY DEF RuntimeInit
  <1>3. QED
    BY <1>1, <1>2 DEF RuntimeInit, RuntimeTypeOK, Feeds

LEMMA RuntimeTypeStep ==
    ASSUME RuntimeTypeOK, [RuntimeNext]_allVars
    PROVE  RuntimeTypeOK'
  <1> USE DEF RuntimeTypeOK, collecting, processing, serving, recorded, observed
  <1>0. Collectors \cup Connected \subseteq Feeds /\ Replay \subseteq Feeds /\ Fresh \subseteq Events
    BY FeedFacts
  <1>1. CASE UNCHANGED allVars
    BY <1>1 DEF allVars, intake
  <1>2. CASE Boot
    <2>1. CASE StartPipeline
      BY <2>1 DEF StartPipeline
    <2>2. ASSUME NEW c \in Collectors, StartCollector(c) PROVE RuntimeTypeOK'
      BY <1>0, <2>2 DEF StartCollector
    <2>3. CASE StartRest
      BY <2>3 DEF StartRest
    <2>4. QED
      BY <1>2, <2>1, <2>2, <2>3 DEF Boot
  <1>3. ASSUME NEW c \in Feeds,
               CollectorLoop(c) \/ NothingReceived(c) \/ EndOfInput(c) \/ ReplayRefuses(c)
        PROVE  RuntimeTypeOK'
    <2>1. CASE CollectorLoop(c)
      BY <2>1 DEF CollectorLoop
    <2>2. CASE NothingReceived(c)
      BY <2>2 DEF NothingReceived
    <2>3. CASE EndOfInput(c)
      BY <2>3 DEF EndOfInput
    <2>4. CASE ReplayRefuses(c)
      BY <2>4 DEF ReplayRefuses
    <2>5. QED
      BY <1>3, <2>1, <2>2, <2>3, <2>4
  <1>4. ASSUME NEW c \in Feeds, NEW e \in Fresh, Receive(c, e)
        PROVE  RuntimeTypeOK'
    <2>1. counted' \in [received : Nat, overflow : Nat]
      BY <1>4, CountsType DEF Receive
    <2>2. arrived' \in Seq((Feeds \cup {"api"}) \X Events)
      <3>1. <<c, e>> \in (Feeds \cup {"api"}) \X Events
        BY <1>0
      <3>2. QED
        BY <1>4, <3>1, AppendType DEF Receive
    <2>3. QED
      BY <1>0, <1>4, <2>1, <2>2 DEF Receive
  <1>5. ASSUME NEW c \in Feeds, NEW e \in Events, Emit(c, e)
        PROVE  RuntimeTypeOK'
    <2>1. inq' \in Seq(Events)
      BY <1>5, ElementsOfAppend DEF Emit
    <2>2. QED
      BY <1>5, <2>1 DEF Emit
  <1>6. ASSUME NEW c \in Feeds, EmitOverflows(c)
        PROVE  RuntimeTypeOK'
    <2>1. counted' \in [received : Nat, overflow : Nat]
      BY <1>6, CountsType DEF EmitOverflows, Rejected
    <2>2. QED
      BY <1>6, <2>1 DEF EmitOverflows
  <1>7. CASE Process
    <2>1. CASE PipelineGet
      <3>1. /\ inq \in Seq(Events) /\ inq # <<>>
            /\ inq' = Tail(inq) /\ phold' = {Head(inq)}
        BY <2>1 DEF PipelineGet
      <3>2. inq' \in Seq(Events) /\ phold' \in SUBSET Events
        BY ONLY <3>1, ElementsOfTail
      <3>3. QED
        BY <2>1, <3>2 DEF PipelineGet
    <2>2. CASE PipelineLoop \/ PipelineGetTimesOut \/ PipelineProcess \/ PipelineRecorded
      BY <2>2 DEF PipelineLoop, PipelineGetTimesOut, PipelineProcess, PipelineRecorded,
                  AfterProcess
    <2>3. ASSUME NEW e \in Events, PipelineRecord(e)
          PROVE  RuntimeTypeOK'
      BY <2>3, RememberedType DEF PipelineRecord, Record
    <2>4. ASSUME NEW e \in Events, PipelineRecordOnly(e)
          PROVE  RuntimeTypeOK'
      <3>1. history' \in Seq(Events)
        BY <2>4, RememberedType DEF PipelineRecordOnly
      <3>2. QED
        BY <2>4, <3>1 DEF PipelineRecordOnly
    <2>5. QED
      BY <1>7, <2>1, <2>2, <2>3, <2>4 DEF Process
  <1>8. CASE Serve
    <2>1. CASE ApiRaises \/ ApiAnswers
      BY <2>1 DEF ApiRaises, ApiAnswers, NextRequest
    <2>2. ASSUME NEW e \in Events, ApiRecord(e)
          PROVE  RuntimeTypeOK'
      BY <2>2, RememberedType DEF ApiRecord, Record
    <2>3. QED
      BY <1>8, <2>1, <2>2 DEF Serve
  <1>9. ASSUME NEW e \in Fresh, ApiParse(e)
        PROVE  RuntimeTypeOK'
    <2>1. counted' \in [received : Nat, overflow : Nat]
      BY <1>9, CountsType DEF ApiParse
    <2>2. arrived' \in Seq((Feeds \cup {"api"}) \X Events)
      <3>1. <<"api", e>> \in (Feeds \cup {"api"}) \X Events
        BY <1>0
      <3>2. QED
        BY <1>9, <3>1, AppendType DEF ApiParse
    <2>3. QED
      BY <1>0, <1>9, <2>1, <2>2 DEF ApiParse
  <1>10. CASE StopRequested \/ Shutdown
    <2>1. CASE StopRequested \/ StopDelivery \/ StopApiAndPipeline \/ PipelineJoined
      BY <2>1 DEF StopRequested, StopDelivery, StopApiAndPipeline, PipelineJoined
    <2>2. ASSUME NEW c \in Collectors, StopCollector(c) \/ CollectorJoined(c)
          PROVE  RuntimeTypeOK'
      BY <2>2 DEF StopCollector, CollectorJoined
    <2>3. QED
      BY <1>10, <2>1, <2>2 DEF Shutdown
  <1>11. ASSUME NEW r \in Replay, StartReplay(r) \/ ReplayFails(r) \/ ReplayPrints(r)
         PROVE  RuntimeTypeOK'
    BY <1>0, <1>11 DEF StartReplay, ReplayFails, ReplayPrints
  <1>12. CASE DeliveryStep
    BY <1>12 DEF DeliveryStep, intake
  <1>13. CASE Exit
    <2>1. inq' \in Seq(Events)
      <3>1. inq' = <<>>
        BY <1>13 DEF Exit
      <3>2. QED
        BY ONLY <3>1
    <2>2. QED
      BY <1>13, <2>1 DEF Exit
  <1> HIDE DEF RuntimeTypeOK
  <1>14. ASSUME NEW c \in Collectors \cup Connected, Collect(c) \/ \E e \in Fresh : Receive(c, e)
         PROVE  RuntimeTypeOK'
    BY <1>0, <1>3, <1>4, <1>5, <1>6, <1>14 DEF Collect
  <1>15. ASSUME NEW r \in Replay,
                \/ StartReplay(r) \/ (\E e \in Fresh : Receive(r, e)) \/ ReplayRefuses(r)
                \/ ReplayStep(r)
         PROVE  RuntimeTypeOK'
    BY <1>0, <1>3, <1>4, <1>5, <1>6, <1>11, <1>15 DEF ReplayStep
  <1>16. ASSUME NEW c \in Tcp, NEW f \in Connections[c], Accept(c, f) PROVE RuntimeTypeOK'
    <2>1. /\ cpc' = [cpc EXCEPT ![f] = "loop"]
          /\ UNCHANGED <<main, joining, cstop, chold, inq, processing, serving, recorded, observed>>
      BY <1>16, AcceptIsQuiet
    <2>2. QED
      BY <2>1 DEF RuntimeTypeOK, processing, serving, recorded, observed
  <1>17. QED
    BY <1>1, <1>2, <1>7, <1>8, <1>9, <1>10, <1>12, <1>13, <1>14, <1>15, <1>16 DEF RuntimeNext

\* Every thread of the process is at a place of its loop and holds events, whatever the
\* collectors, the queue and the history.
THEOREM RuntimeTypeCorrect == RuntimeSpec => []RuntimeTypeOK
  <1>1. RuntimeInit => RuntimeTypeOK
    BY RuntimeTypeInit
  <1>2. RuntimeTypeOK /\ [RuntimeNext]_allVars => RuntimeTypeOK'
    BY RuntimeTypeStep
  <1>3. QED
    BY <1>1, <1>2, PTL DEF RuntimeSpec

-----------------------------------------------------------------------------
(* Who holds what: at most one event in every thread, and only while its     *)
(* place says so.                                                            *)

LEMMA UpstreamHandsInit == RuntimeInit => UpstreamHands
  BY DEF RuntimeInit, UpstreamHands

LEMMA UpstreamHandsStep ==
    ASSUME TypeOK, RuntimeTypeOK, UpstreamHands, [RuntimeNext]_allVars
    PROVE  UpstreamHands'
  <1> USE DEF UpstreamHands, collecting, processing, serving, recorded, observed
  <1>0. /\ Collectors \cup Connected \subseteq Feeds /\ Replay \subseteq Feeds
        /\ cpc \in [Feeds -> {"new", "loop", "recv", "put", "ended", "dead"}]
        /\ chold \in [Feeds -> SUBSET Events]
    BY FeedFacts DEF RuntimeTypeOK
  <1>r. Running' => Running
    BY StepIsDelivery, NeverResumes
  <1>1. CASE UNCHANGED allVars
    BY <1>1 DEF allVars, intake, vars, local, Running
  <1>2. CASE Boot
    <2>1. CASE StartPipeline
      BY <1>r, <2>1 DEF StartPipeline
    <2>2. ASSUME NEW c \in Collectors, StartCollector(c) PROVE UpstreamHands'
      BY <1>0, <1>r, <2>2 DEF StartCollector
    <2>3. CASE StartRest
      BY <1>r, <2>3 DEF StartRest
    <2>4. QED
      BY <1>2, <2>1, <2>2, <2>3 DEF Boot
  <1>3. ASSUME NEW c \in Feeds,
               CollectorLoop(c) \/ NothingReceived(c) \/ EndOfInput(c) \/ ReplayRefuses(c)
        PROVE  UpstreamHands'
    <2>1. /\ UNCHANGED <<main, chold, phold, ppc, apc, ahold>>
          /\ cpc[c] \in {"loop", "recv"} /\ Running
          /\ \E v \in {"loop", "recv", "ended", "dead"} : cpc' = [cpc EXCEPT ![c] = v]
      BY <1>3 DEF CollectorLoop, NothingReceived, EndOfInput, ReplayRefuses
    <2>2. QED
      BY <1>0, <1>r, <2>1
  <1>4. ASSUME NEW c \in Feeds, NEW e \in Events, Receive(c, e)
        PROVE  UpstreamHands'
    <2>1. /\ UNCHANGED <<main, phold, ppc, apc, ahold>>
          /\ chold' = [chold EXCEPT ![c] = {e}] /\ cpc' = [cpc EXCEPT ![c] = "put"]
          /\ cpc[c] = "recv" /\ Running
      BY <1>4 DEF Receive
    <2>2. \A f \in Feeds : /\ chold'[f] = IF f = c THEN {e} ELSE chold[f]
                           /\ cpc'[f] = IF f = c THEN "put" ELSE cpc[f]
      BY <1>0, <2>1
    <2>3. main # "boot"
      BY <2>1
    <2>4. \A f \in Feeds : \A d, g \in chold'[f] : d = g
      BY <2>2
    <2>5. ASSUME NEW f \in Feeds
          PROVE  cpc'[f] = "put" <=> chold'[f] # {}
      <3>1. CASE f = c
        BY <2>2, <3>1
      <3>2. CASE f # c
        <4>1. cpc[f] = "put" <=> chold[f] # {}
          BY <2>1
        <4>2. cpc'[f] = cpc[f] /\ chold'[f] = chold[f]
          BY <2>2, <3>2
        <4> HIDE DEF UpstreamHands
        <4>3. QED
          BY ONLY <4>1, <4>2
      <3>3. QED
        BY <3>1, <3>2
    <2>6. QED
      BY <2>1, <2>3, <2>4, <2>5
  <1>5. ASSUME NEW c \in Feeds, NEW e \in Events, Emit(c, e)
        PROVE  UpstreamHands'
    <2>1. /\ UNCHANGED <<main, phold, ppc, apc, ahold>>
          /\ cpc[c] = "put" /\ Running /\ chold' = [chold EXCEPT ![c] = {}]
          /\ \E v \in {"loop", "recv"} : cpc' = [cpc EXCEPT ![c] = v]
      BY <1>5 DEF Emit
    <2>2. QED
      BY <1>0, <1>r, <2>1
  <1>6. ASSUME NEW c \in Feeds, EmitOverflows(c)
        PROVE  UpstreamHands'
    <2>1. /\ UNCHANGED <<main, phold, ppc, apc, ahold>>
          /\ cpc[c] = "put" /\ Running /\ chold' = [chold EXCEPT ![c] = {}]
          /\ \E v \in {"loop", "dead"} : cpc' = [cpc EXCEPT ![c] = v]
      BY <1>6 DEF EmitOverflows
    <2>2. QED
      BY <1>0, <1>r, <2>1
  <1>7. CASE Process
    <2>1. CASE PipelineGet \/ PipelineLoop \/ PipelineGetTimesOut \/ PipelineProcess \/ PipelineRecorded
      BY <1>r, <2>1 DEF PipelineGet, PipelineLoop, PipelineGetTimesOut, PipelineProcess,
                        PipelineRecorded, AfterProcess
    <2>2. ASSUME NEW e \in Events, PipelineRecord(e) \/ PipelineRecordOnly(e)
          PROVE  UpstreamHands'
      <3>1. /\ UNCHANGED <<main, cpc, chold, apc, ahold>>
            /\ ppc = "record" /\ phold' = {}
        BY <2>2 DEF PipelineRecord, PipelineRecordOnly
      <3>2. main # "boot"
        BY <3>1
      <3>3. QED
        BY <1>r, <3>1, <3>2
    <2>3. QED
      BY <1>7, <2>1, <2>2 DEF Process
  <1>8. CASE Serve
    <2>1. CASE ApiRaises \/ ApiAnswers
      BY <1>r, <2>1 DEF ApiRaises, ApiAnswers, NextRequest
    <2>2. ASSUME NEW e \in Events, ApiRecord(e)
          PROVE  UpstreamHands'
      <3>1. /\ UNCHANGED <<main, cpc, chold, ppc, phold>>
            /\ apc = "process" /\ ahold' = {} /\ apc' = "sink"
        BY <2>2 DEF ApiRecord
      <3>2. QED
        BY <1>r, <3>1
    <2>3. QED
      BY <1>8, <2>1, <2>2 DEF Serve
  <1>9. ASSUME NEW e \in Events, ApiParse(e)
        PROVE  UpstreamHands'
    BY <1>r, <1>9 DEF ApiParse
  <1>10. CASE StopRequested \/ Shutdown
    <2>1. CASE StopRequested \/ StopDelivery \/ StopApiAndPipeline \/ PipelineJoined
      BY <1>r, <2>1 DEF StopRequested, StopDelivery, StopApiAndPipeline, PipelineJoined
    <2>2. ASSUME NEW c \in Collectors, StopCollector(c) \/ CollectorJoined(c)
          PROVE  UpstreamHands'
      BY <1>r, <2>2 DEF StopCollector, CollectorJoined
    <2>3. QED
      BY <1>10, <2>1, <2>2 DEF Shutdown
  <1>11. ASSUME NEW r \in Replay, StartReplay(r) \/ ReplayFails(r) \/ ReplayPrints(r)
         PROVE  UpstreamHands'
    BY <1>0, <1>r, <1>11 DEF StartReplay, ReplayFails, ReplayPrints
  <1>12. CASE DeliveryStep
    BY <1>r, <1>12 DEF DeliveryStep, intake
  <1>13. CASE Exit
    <2>1. ~Running'
      BY <1>13, ThreadFacts DEF Exit, Halt, Running, TypeOK
    <2>2. /\ UNCHANGED <<main, cpc, ppc, apc>> /\ phold' = {} /\ ahold' = {}
          /\ \A c \in Feeds : chold'[c] = {}
      BY <1>13 DEF Exit
    <2>3. QED
      BY <2>1, <2>2
  <1> HIDE DEF UpstreamHands
  <1>14. ASSUME NEW c \in Collectors \cup Connected, Collect(c) \/ \E e \in Fresh : Receive(c, e)
         PROVE  UpstreamHands'
    BY <1>0, <1>3, <1>4, <1>5, <1>6, <1>14, FeedFacts DEF Collect
  <1>15. ASSUME NEW r \in Replay,
                \/ StartReplay(r) \/ (\E e \in Fresh : Receive(r, e)) \/ ReplayRefuses(r)
                \/ ReplayStep(r)
         PROVE  UpstreamHands'
    BY <1>0, <1>3, <1>4, <1>5, <1>6, <1>11, <1>15, FeedFacts DEF ReplayStep
  <1>16. ASSUME NEW c \in Tcp, NEW f \in Connections[c], Accept(c, f) PROVE UpstreamHands'
    <2>1. /\ f \in Feeds /\ c \in Feeds /\ Running
          /\ cpc[c] = "loop" /\ cpc[f] = "new" /\ cpc' = [cpc EXCEPT ![f] = "loop"]
          /\ UNCHANGED <<main, chold, processing, serving>>
      BY <1>0, <1>16, AcceptIsQuiet
    <2>2. main # "boot"
      BY <2>1 DEF UpstreamHands
    <2>3. QED
      BY <1>0, <1>r, <2>1, <2>2 DEF UpstreamHands, processing, serving
  <1>17. QED
    BY <1>1, <1>2, <1>7, <1>8, <1>9, <1>10, <1>12, <1>13, <1>14, <1>15, <1>16, FeedFacts
       DEF RuntimeNext

-----------------------------------------------------------------------------
(* Where events come from. *)

\* What one more arrival adds to what an observer knows.
LEMMA OneMoreArrival ==
    ASSUME arrived \in Seq((Feeds \cup {"api"}) \X Events),
           NEW c \in Feeds \cup {"api"}, NEW e \in Events,
           arrived' = Append(arrived, <<c, e>>)
    PROVE  /\ Arrived' = Arrived \cup {e}
           /\ \A b, x : CameFrom(b, x)' <=> CameFrom(b, x) \/ (b = c /\ x = e)
           /\ \A b, x, y : ArrivedBefore(b, x, y)' <=>
                 ArrivedBefore(b, x, y) \/ (b = c /\ y = e /\ CameFrom(b, x))
  <1> DEFINE n == Len(arrived)
  <1>1. /\ n \in Nat /\ Len(arrived') = n + 1 /\ 1..Len(arrived') = (1..n) \cup {n + 1}
        /\ arrived'[n + 1] = <<c, e>>
        /\ \A i \in 1..n : arrived'[i] = arrived[i]
    OBVIOUS
  <1> HIDE DEF n
  <1>2. Arrived' = {arrived'[i][2] : i \in (1..n) \cup {n + 1}}
    BY <1>1 DEF Arrived
  <1>3. Arrived = {arrived[i][2] : i \in 1..n}
    BY DEF Arrived, n
  <1>4. Arrived' = Arrived \cup {e}
    BY <1>1, <1>2, <1>3
  <1>5. ASSUME NEW b, NEW x
        PROVE  CameFrom(b, x)' <=> CameFrom(b, x) \/ (b = c /\ x = e)
    <2>1. CameFrom(b, x)' <=> \E i \in (1..n) \cup {n + 1} : arrived'[i] = <<b, x>>
      BY <1>1 DEF CameFrom
    <2>2. CameFrom(b, x) <=> \E i \in 1..n : arrived[i] = <<b, x>>
      BY DEF CameFrom, n
    <2>3. <<c, e>> = <<b, x>> <=> b = c /\ x = e
      OBVIOUS
    <2>4. QED
      BY <1>1, <2>1, <2>2, <2>3
  <1>6. ASSUME NEW b, NEW x, NEW y
        PROVE  ArrivedBefore(b, x, y)' <=>
                  ArrivedBefore(b, x, y) \/ (b = c /\ y = e /\ CameFrom(b, x))
    <2>1. ArrivedBefore(b, x, y)' <=>
             \E i, j \in (1..n) \cup {n + 1} :
                i < j /\ arrived'[i] = <<b, x>> /\ arrived'[j] = <<b, y>>
      BY <1>1 DEF ArrivedBefore
    <2>2. ArrivedBefore(b, x, y) <=>
             \E i, j \in 1..n : i < j /\ arrived[i] = <<b, x>> /\ arrived[j] = <<b, y>>
      BY DEF ArrivedBefore, n
    <2>3. CameFrom(b, x) <=> \E i \in 1..n : arrived[i] = <<b, x>>
      BY DEF CameFrom, n
    <2>4. <<c, e>> = <<b, y>> <=> b = c /\ y = e
      OBVIOUS
    <2>5. \A i, j \in (1..n) \cup {n + 1} :
             i < j <=> \/ i \in 1..n /\ j \in 1..n /\ i < j
                       \/ i \in 1..n /\ j = n + 1
      BY <1>1
    <2>6. QED
      BY <1>1, <2>1, <2>2, <2>3, <2>4, <2>5
  <1>7. QED
    BY <1>4, <1>5, <1>6

\* An event arrives once, from one place, and after itself never.
LEMMA OneOrigin ==
    ASSUME arrived \in Seq((Feeds \cup {"api"}) \X Events), Origins
    PROVE  /\ \A b, c, e : CameFrom(b, e) /\ CameFrom(c, e) => b = c
           /\ \A c, e : CameFrom(c, e) => e \in Arrived
           /\ \A c, d, e : ArrivedBefore(c, d, e) => d # e /\ CameFrom(c, d) /\ CameFrom(c, e)
  <1>1. \A i, j \in 1..Len(arrived) : arrived[i][2] = arrived[j][2] => i = j
    BY DEF Origins
  <1>2. \A b, e : <<b, e>>[1] = b /\ <<b, e>>[2] = e
    OBVIOUS
  <1>3. ASSUME NEW b, NEW c, NEW e, CameFrom(b, e), CameFrom(c, e) PROVE b = c
    <2>1. PICK i \in 1..Len(arrived) : arrived[i] = <<b, e>>
      BY <1>3 DEF CameFrom
    <2>2. PICK j \in 1..Len(arrived) : arrived[j] = <<c, e>>
      BY <1>3 DEF CameFrom
    <2>3. i = j
      BY <1>1, <1>2, <2>1, <2>2
    <2>4. QED
      BY <1>2, <2>1, <2>2, <2>3
  <1>4. ASSUME NEW c, NEW e, CameFrom(c, e) PROVE e \in Arrived
    BY <1>2, <1>4 DEF CameFrom, Arrived
  <1>5. ASSUME NEW c, NEW d, NEW e, ArrivedBefore(c, d, e)
        PROVE  d # e /\ CameFrom(c, d) /\ CameFrom(c, e)
    <2>1. PICK i \in 1..Len(arrived), j \in 1..Len(arrived) :
             i < j /\ arrived[i] = <<c, d>> /\ arrived[j] = <<c, e>>
      BY <1>5 DEF ArrivedBefore
    <2>2. i # j
      BY <2>1
    <2>3. d # e
      BY <1>1, <1>2, <2>1, <2>2
    <2>4. QED
      BY <2>1, <2>3 DEF CameFrom
  <1>6. QED
    BY <1>3, <1>4, <1>5

\* Parts of Upstream.
LEMMA UpstreamParts ==
    /\ Elements(inq) \subseteq Upstream /\ phold \subseteq Upstream /\ ahold \subseteq Upstream
    /\ \A c \in Feeds : chold[c] \subseteq Upstream
    /\ \A e \in Upstream :
          e \in Elements(inq) \/ e \in phold \/ e \in ahold \/ \E c \in Feeds : e \in chold[c]
  BY DEF Upstream

LEMMA OriginsInit == RuntimeInit => Origins
  <1> SUFFICES ASSUME RuntimeInit PROVE Origins
    OBVIOUS
  <1>1. /\ inq = <<>> /\ phold = {} /\ ahold = {} /\ arrived = <<>> /\ history = <<>>
        /\ \A c \in Feeds : chold[c] = {}
    BY DEF RuntimeInit
  <1>2. Elements(<<>>) = {}
    BY ElementsOfEmpty
  <1>3. Upstream = {} /\ Elements(history) = {}
    BY <1>1, <1>2 DEF Upstream
  <1>4. QED
    BY <1>1, <1>3 DEF Origins

LEMMA OriginsStep ==
    ASSUME RuntimeTypeOK, Origins, [RuntimeNext]_allVars
    PROVE  Origins'
  <1>0. /\ arrived \in Seq((Feeds \cup {"api"}) \X Events)
        /\ inq \in Seq(Events) /\ history \in Seq(Events)
        /\ chold \in [Feeds -> SUBSET Events] /\ phold \in SUBSET Events
        /\ ahold \in SUBSET Events
    BY DEF RuntimeTypeOK
  <1>1. ASSUME NEW c \in Feeds \cup {"api"}, NEW e \in Events \ Arrived,
               arrived' = Append(arrived, <<c, e>>), UNCHANGED <<inq, phold, history>>,
               \A b \in Feeds : \A x \in chold'[b] : x \in chold[b] \/ (b = c /\ x = e),
               \A x \in ahold' : x \in ahold \/ (c = "api" /\ x = e)
        PROVE  Origins'
    <2>1. /\ Arrived' = Arrived \cup {e}
          /\ \A b, x : CameFrom(b, x)' <=> CameFrom(b, x) \/ (b = c /\ x = e)
      BY <1>0, <1>1, OneMoreArrival
    <2>2. \A i, j \in 1..Len(arrived') : arrived'[i][2] = arrived'[j][2] => i = j
      <3> DEFINE n == Len(arrived)
      <3>1. /\ n \in Nat /\ Len(arrived') = n + 1
            /\ arrived'[n + 1] = <<c, e>>
            /\ \A i \in 1..n : arrived'[i] = arrived[i]
        BY <1>0, <1>1
      <3>2. \A i \in 1..n : arrived[i][2] # e
        BY <1>1 DEF Arrived
      <3>3. \A i, j \in 1..n : arrived[i][2] = arrived[j][2] => i = j
        BY DEF Origins
      <3>4. <<c, e>>[2] = e
        OBVIOUS
      <3> HIDE DEF n
      <3>5. 1..(n + 1) = (1..n) \cup {n + 1}
        BY <3>1
      <3>6. QED
        BY <3>1, <3>2, <3>3, <3>4, <3>5
    <2>3. Upstream' \subseteq Upstream \cup {e}
      BY <1>1 DEF Upstream
    <2>4. Upstream' \cup Elements(history)' \subseteq Arrived'
      BY <1>1, <2>1, <2>3 DEF Origins
    <2>5. QED
      BY <1>1, <2>1, <2>2, <2>4 DEF Origins
  <1>2. ASSUME UNCHANGED arrived,
               \A b \in Feeds : chold'[b] \subseteq chold[b],
               ahold' \subseteq ahold,
               Upstream' \subseteq Upstream,
               Elements(history') \subseteq Elements(history) \cup Upstream
        PROVE  Origins'
    <2>1. Arrived' = Arrived /\ \A b, x : CameFrom(b, x)' <=> CameFrom(b, x)
      BY <1>2 DEF Arrived, CameFrom
    <2>2. Upstream' \cup Elements(history)' \subseteq Arrived'
      BY <1>2, <2>1 DEF Origins
    <2>3. QED
      BY <1>2, <2>1, <2>2 DEF Origins
  <1> USE DEF collecting, processing, serving, recorded, observed
  <1>3. ASSUME NEW c \in Feeds, NEW e \in Fresh, Receive(c, e) PROVE Origins'
    <2>1. /\ arrived' = Append(arrived, <<c, e>>) /\ UNCHANGED <<inq, phold, history, ahold>>
          /\ chold' = [chold EXCEPT ![c] = {e}]
      BY <1>3 DEF Receive
    <2>2. QED
      BY <1>0, <1>1, <2>1, FeedFacts
  <1>4. ASSUME NEW e \in Fresh, ApiParse(e) PROVE Origins'
    <2>1. /\ arrived' = Append(arrived, <<"api", e>>) /\ UNCHANGED <<inq, phold, history, chold>>
          /\ ahold' = {e}
      BY <1>4 DEF ApiParse
    <2>2. QED
      BY <1>1, <2>1, FeedFacts
  <1>5. ASSUME NEW c \in Feeds, NEW e \in Events, Emit(c, e) PROVE Origins'
    <2>1. /\ e \in chold[c] /\ UNCHANGED <<arrived, history, phold, ahold>>
          /\ inq' = Append(inq, e) /\ chold' = [chold EXCEPT ![c] = {}]
      BY <1>5 DEF Emit
    <2>2. Elements(inq)' = Elements(inq) \cup {e}
      BY <1>0, <2>1, ElementsOfAppend
    <2>3. Upstream' \subseteq Upstream
      BY <1>0, <2>1, <2>2 DEF Upstream
    <2>4. QED
      BY <1>0, <1>2, <2>1, <2>3
  <1>6. ASSUME NEW c \in Feeds, EmitOverflows(c) PROVE Origins'
    <2>1. /\ UNCHANGED <<arrived, history, phold, ahold, inq>>
          /\ chold' = [chold EXCEPT ![c] = {}]
      BY <1>6 DEF EmitOverflows
    <2>2. Upstream' \subseteq Upstream
      BY <1>0, <2>1 DEF Upstream
    <2>3. QED
      BY <1>0, <1>2, <2>1, <2>2
  <1>7. CASE PipelineGet
    <2>1. /\ UNCHANGED <<arrived, history, chold, ahold>>
          /\ inq # <<>> /\ inq' = Tail(inq) /\ phold' = {Head(inq)}
      BY <1>7 DEF PipelineGet
    <2>2. Elements(inq) = Elements(inq)' \cup {Head(inq)}
      BY <1>0, <2>1, ElementsOfTail
    <2>3. Upstream' \subseteq Upstream
      BY <2>1, <2>2 DEF Upstream
    <2>4. QED
      BY <1>2, <2>1, <2>3
  <1>8. ASSUME NEW e \in Events, PipelineRecord(e) \/ PipelineRecordOnly(e) \/ ApiRecord(e)
        PROVE  Origins'
    <2>1. /\ UNCHANGED <<arrived, chold, inq>> /\ history' = Remembered(e)
          /\ \/ e \in phold /\ phold' = {} /\ UNCHANGED ahold
             \/ e \in ahold /\ ahold' = {} /\ UNCHANGED phold
      BY <1>8 DEF PipelineRecord, PipelineRecordOnly, ApiRecord, Record
    <2>2. e \in Upstream /\ Upstream' \subseteq Upstream
      BY <2>1 DEF Upstream
    <2>3. Elements(history') \subseteq Elements(history) \cup {e}
      BY <1>0, <2>1, RememberedType
    <2>4. QED
      BY <1>2, <2>1, <2>2, <2>3
  <1>9. CASE ApiRaises
    <2>1. UNCHANGED <<arrived, chold, inq, history, phold>> /\ ahold' = {}
      BY <1>9 DEF ApiRaises
    <2>2. Upstream' \subseteq Upstream
      BY <2>1 DEF Upstream
    <2>3. QED
      BY <1>2, <2>1, <2>2
  <1>10. CASE Exit
    <2>1. /\ UNCHANGED <<arrived, history>> /\ inq' = <<>> /\ phold' = {} /\ ahold' = {}
          /\ \A c \in Feeds : chold'[c] = {}
      BY <1>10 DEF Exit
    <2>2. Upstream' = {}
      BY <2>1, ElementsOfEmpty DEF Upstream
    <2>3. QED
      BY <1>2, <2>1, <2>2
  <1>11. CASE UNCHANGED moving
    <2>1. UNCHANGED <<arrived, history, inq, phold, ahold, chold>>
      BY <1>11 DEF moving
    <2>2. QED
      BY <1>2, <2>1 DEF Upstream
  <1>12. QED
    BY <1>3, <1>4, <1>5, <1>6, <1>7, <1>8, <1>9, <1>10, <1>11, Movements

-----------------------------------------------------------------------------
(* No event is in two places upstream. *)

LEMMA UpstreamApartInit == RuntimeInit => UpstreamApart
  <1> SUFFICES ASSUME RuntimeInit PROVE UpstreamApart
    OBVIOUS
  <1>1. /\ inq = <<>> /\ phold = {} /\ ahold = {} /\ \A c \in Feeds : chold[c] = {}
    BY DEF RuntimeInit
  <1>2. QED
    BY <1>1, ElementsOfEmpty DEF UpstreamApart

LEMMA UpstreamApartStep ==
    ASSUME RuntimeTypeOK, UpstreamHands, UpstreamApart, Origins, [RuntimeNext]_allVars
    PROVE  UpstreamApart'
  <1>0. /\ inq \in Seq(Events) /\ chold \in [Feeds -> SUBSET Events]
    BY DEF RuntimeTypeOK
  <1>1. ASSUME NEW e \in Fresh
        PROVE  /\ e \notin Elements(inq) /\ e \notin phold /\ e \notin ahold
               /\ \A c \in Feeds : e \notin chold[c]
    BY <1>1, FeedFacts, UpstreamParts DEF Origins
  <1> USE DEF UpstreamApart, collecting, processing, serving, recorded, observed
  <1>2. ASSUME NEW c \in Feeds, NEW e \in Fresh, Receive(c, e) PROVE UpstreamApart'
    <2>1. UNCHANGED <<inq, phold, ahold>> /\ chold' = [chold EXCEPT ![c] = {e}]
      BY <1>2 DEF Receive
    <2>2. QED
      BY <1>0, <1>1, <2>1
  <1>3. ASSUME NEW e \in Fresh, ApiParse(e) PROVE UpstreamApart'
    <2>1. UNCHANGED <<inq, phold, chold>> /\ ahold' = {e}
      BY <1>3 DEF ApiParse
    <2>2. QED
      BY <1>1, <2>1
  <1>4. ASSUME NEW c \in Feeds, NEW e \in Events, Emit(c, e) PROVE UpstreamApart'
    <2>1. /\ e \in chold[c] /\ UNCHANGED <<phold, ahold>>
          /\ inq' = Append(inq, e) /\ chold' = [chold EXCEPT ![c] = {}]
      BY <1>4 DEF Emit
    <2>2. Elements(inq)' = Elements(inq) \cup {e} /\ Distinct(inq)'
      BY <1>0, <2>1, ElementsOfAppend
    <2>3. QED
      BY <1>0, <2>1, <2>2
  <1>5. ASSUME NEW c \in Feeds, EmitOverflows(c) PROVE UpstreamApart'
    <2>1. UNCHANGED <<phold, ahold, inq>> /\ chold' = [chold EXCEPT ![c] = {}]
      BY <1>5 DEF EmitOverflows
    <2>2. QED
      BY <1>0, <2>1
  <1>6. CASE PipelineGet
    <2>1. /\ UNCHANGED <<chold, ahold>>
          /\ inq # <<>> /\ inq' = Tail(inq) /\ phold' = {Head(inq)}
      BY <1>6 DEF PipelineGet
    <2>2. /\ Elements(inq) = Elements(inq)' \cup {Head(inq)}
          /\ Distinct(inq)' /\ Head(inq) \notin Elements(inq)'
      BY <1>0, <2>1, ElementsOfTail
    <2>3. QED
      BY <2>1, <2>2
  <1>7. ASSUME NEW e \in Events, PipelineRecord(e) \/ PipelineRecordOnly(e) \/ ApiRecord(e)
        PROVE  UpstreamApart'
    <2>1. UNCHANGED <<chold, inq>> /\ phold' \subseteq phold /\ ahold' \subseteq ahold
      BY <1>7 DEF PipelineRecord, PipelineRecordOnly, ApiRecord, Record
    <2>2. QED
      BY <2>1
  <1>8. CASE ApiRaises
    <2>1. UNCHANGED <<chold, inq, phold>> /\ ahold' = {}
      BY <1>8 DEF ApiRaises
    <2>2. QED
      BY <2>1
  <1>9. CASE Exit
    <2>1. /\ inq' = <<>> /\ phold' = {} /\ ahold' = {} /\ \A c \in Feeds : chold'[c] = {}
      BY <1>9 DEF Exit
    <2>2. QED
      BY <2>1, ElementsOfEmpty
  <1>10. CASE UNCHANGED moving
    BY <1>10 DEF moving
  <1>11. QED
    BY <1>2, <1>3, <1>4, <1>5, <1>6, <1>7, <1>8, <1>9, <1>10, Movements

-----------------------------------------------------------------------------
(* Nothing vanishes. *)

Accounts ==
    /\ Arrived = Upstream \cup submitted \cup rejected \cup abandoned \cup shown
    /\ Upstream \cap (submitted \cup rejected \cup abandoned \cup shown) = {}
    /\ submitted \cap (rejected \cup abandoned \cup shown) = {}
    /\ rejected \cap (abandoned \cup shown) = {}
    /\ abandoned \cap shown = {}
    /\ counted.received = Cardinality(Arrived)
    /\ counted.overflow = Cardinality(rejected)

LEMMA NothingVanishesIff == NothingVanishes <=> (Running => Accounts)
  <1> DEFINE ends == <<submitted, rejected, abandoned, shown>>
  <1>1. /\ 1..4 = {1, 2, 3, 4}
        /\ ends[1] = submitted /\ ends[2] = rejected /\ ends[3] = abandoned /\ ends[4] = shown
    OBVIOUS
  <1> HIDE DEF ends
  <1>2. UNION {ends[i] : i \in 1..4} = submitted \cup rejected \cup abandoned \cup shown
    BY <1>1
  <1>3. (\A i \in 1..4 : Upstream \cap ends[i] = {})
          <=> Upstream \cap (submitted \cup rejected \cup abandoned \cup shown) = {}
    BY <1>1
  <1>4. (\A i, j \in 1..4 : i # j => ends[i] \cap ends[j] = {})
          <=> /\ submitted \cap (rejected \cup abandoned \cup shown) = {}
              /\ rejected \cap (abandoned \cup shown) = {}
              /\ abandoned \cap shown = {}
    BY <1>1
  <1>5. QED
    BY <1>2, <1>3, <1>4 DEF NothingVanishes, Accounts, ends

LEMMA UpstreamIff ==
    ASSUME NEW x
    PROVE  /\ x \in Upstream <=> \/ x \in Elements(inq) \/ x \in phold \/ x \in ahold
                                  \/ \E c \in Feeds : x \in chold[c]
           /\ x \in Upstream' <=> \/ x \in Elements(inq)' \/ x \in phold' \/ x \in ahold'
                                   \/ \E c \in Feeds : x \in chold'[c]
  BY DEF Upstream

\* What a step of the living process does to the events upstream: one arrives, one leaves
\* for one of the four ends, or they stay, the same events though maybe elsewhere.
LEMMA UpstreamChanges ==
    ASSUME TypeOK, RuntimeTypeOK, UpstreamHands, UpstreamApart, Running, Running',
           [RuntimeNext]_allVars
    PROVE  \/ \E c \in Feeds \cup {"api"}, e \in Fresh :
                 /\ Upstream' = Upstream \cup {e}
                 /\ arrived' = Append(arrived, <<c, e>>)
                 /\ counted' = [counted EXCEPT !.received = @ + 1]
                 /\ UNCHANGED <<submitted, rejected, abandoned, shown>>
           \/ \E e \in Upstream :
                 /\ Upstream' = Upstream \ {e}
                 /\ UNCHANGED arrived
                 /\ \/ /\ submitted' = submitted \cup {e}
                       /\ UNCHANGED <<rejected, abandoned, shown, counted>>
                    \/ /\ rejected' = rejected \cup {e}
                       /\ counted' = [counted EXCEPT !.overflow = @ + 1]
                       /\ UNCHANGED <<submitted, abandoned, shown>>
                    \/ /\ abandoned' = abandoned \cup {e}
                       /\ UNCHANGED <<submitted, rejected, shown, counted>>
                    \/ /\ shown' = shown \cup {e}
                       /\ UNCHANGED <<submitted, rejected, abandoned, counted>>
           \/ /\ Upstream' = Upstream
              /\ UNCHANGED <<arrived, counted, submitted, rejected, abandoned, shown>>
  <1>0. /\ inq \in Seq(Events) /\ chold \in [Feeds -> SUBSET Events]
    BY DEF RuntimeTypeOK
  <1> USE DEF collecting, processing, serving, recorded, observed
  <1>1. ASSUME NEW c \in Feeds, NEW e \in Fresh, Receive(c, e)
        PROVE  /\ Upstream' = Upstream \cup {e}
               /\ arrived' = Append(arrived, <<c, e>>)
               /\ counted' = [counted EXCEPT !.received = @ + 1]
               /\ UNCHANGED <<submitted, rejected, abandoned, shown>>
    <2>1. /\ UNCHANGED <<inq, phold, ahold, submitted, rejected, abandoned, shown>>
          /\ chold' = [chold EXCEPT ![c] = {e}] /\ cpc[c] = "recv"
          /\ arrived' = Append(arrived, <<c, e>>)
          /\ counted' = [counted EXCEPT !.received = @ + 1]
      BY <1>1 DEF Receive, vars
    <2>2. chold[c] = {}
      BY <2>1 DEF UpstreamHands
    <2>3. \A x : (\E b \in Feeds : x \in chold'[b]) <=> (\E b \in Feeds : x \in chold[b]) \/ x = e
      BY <1>0, <2>1, <2>2
    <2>4. \A x : x \in Upstream' <=> x \in Upstream \/ x = e
      BY <2>1, <2>3, UpstreamIff
    <2>5. QED
      BY <2>1, <2>4
  <1>2. ASSUME NEW e \in Fresh, ApiParse(e)
        PROVE  /\ Upstream' = Upstream \cup {e}
               /\ arrived' = Append(arrived, <<"api", e>>)
               /\ counted' = [counted EXCEPT !.received = @ + 1]
               /\ UNCHANGED <<submitted, rejected, abandoned, shown>>
    <2>1. /\ UNCHANGED <<inq, phold, chold, submitted, rejected, abandoned, shown>>
          /\ ahold' = {e} /\ apc = "idle"
          /\ arrived' = Append(arrived, <<"api", e>>)
          /\ counted' = [counted EXCEPT !.received = @ + 1]
      BY <1>2 DEF ApiParse, vars
    <2>2. ahold = {}
      BY <2>1 DEF UpstreamHands
    <2>3. QED
      BY <2>1, <2>2 DEF Upstream
  <1>3. ASSUME NEW c \in Feeds, NEW e \in Events, Emit(c, e)
        PROVE  /\ Upstream' = Upstream
               /\ UNCHANGED <<arrived, counted, submitted, rejected, abandoned, shown>>
    <2>1. /\ e \in chold[c] /\ inq' = Append(inq, e) /\ chold' = [chold EXCEPT ![c] = {}]
          /\ UNCHANGED <<phold, ahold, arrived, counted, submitted, rejected, abandoned, shown>>
      BY <1>3 DEF Emit, vars
    <2>2. Elements(inq)' = Elements(inq) \cup {e}
      BY <1>0, <2>1, ElementsOfAppend
    <2>3. chold[c] = {e}
      BY <2>1 DEF UpstreamHands
    <2>4. \A x : (\E b \in Feeds : x \in chold[b]) <=> (\E b \in Feeds : x \in chold'[b]) \/ x = e
      BY <1>0, <2>1, <2>3
    <2>5. \A x : x \in Upstream' <=> x \in Upstream
      BY <2>1, <2>2, <2>4, UpstreamIff
    <2>6. QED
      BY <2>1, <2>5
  <1>4. ASSUME NEW c \in Feeds, EmitOverflows(c)
        PROVE  \E e \in Upstream :
                 /\ Upstream' = Upstream \ {e}
                 /\ rejected' = rejected \cup {e}
                 /\ counted' = [counted EXCEPT !.overflow = @ + 1]
                 /\ UNCHANGED <<arrived, submitted, abandoned, shown>>
    <2>1. /\ cpc[c] = "put" /\ chold' = [chold EXCEPT ![c] = {}]
          /\ rejected' = rejected \cup chold[c]
          /\ counted' = [counted EXCEPT !.overflow = @ + 1]
          /\ UNCHANGED <<inq, phold, ahold, arrived, submitted, abandoned, shown>>
      BY <1>4 DEF EmitOverflows, Rejected, vars
    <2>2. PICK e \in chold[c] : chold[c] = {e}
      <3>1. chold[c] # {} /\ \A x, y \in chold[c] : x = y
        BY <2>1 DEF UpstreamHands
      <3>2. QED
        BY <3>1
    <2>3. \A b \in Feeds : b # c => e \notin chold[b]
      BY <2>2 DEF UpstreamApart
    <2>4. \A x : (\E b \in Feeds : x \in chold'[b]) <=> (\E b \in Feeds : x \in chold[b]) /\ x # e
      BY <1>0, <2>1, <2>2, <2>3
    <2>5. e \notin Elements(inq) /\ e \notin phold /\ e \notin ahold
      BY <2>2 DEF UpstreamApart
    <2>6. e \in Upstream /\ \A x : x \in Upstream' <=> x \in Upstream /\ x # e
      BY <2>1, <2>2, <2>4, <2>5, UpstreamIff
    <2>7. QED
      BY <2>1, <2>2, <2>6
  <1>5. CASE PipelineGet
    <2>1. /\ inq # <<>> /\ inq' = Tail(inq) /\ phold' = {Head(inq)} /\ ppc = "get"
          /\ UNCHANGED <<chold, ahold, arrived, counted, submitted, rejected, abandoned, shown>>
      BY <1>5 DEF PipelineGet, vars
    <2>2. Elements(inq) = Elements(inq)' \cup {Head(inq)}
      BY <1>0, <2>1, ElementsOfTail
    <2>3. phold = {}
      BY <2>1 DEF UpstreamHands
    <2>4. QED
      BY <2>1, <2>2, <2>3 DEF Upstream
  <1>6. ASSUME NEW e \in Events, PipelineRecord(e) \/ PipelineRecordOnly(e)
        PROVE  /\ e \in Upstream /\ Upstream' = Upstream \ {e}
               /\ UNCHANGED <<arrived, rejected, abandoned, counted>>
               /\ \/ submitted' = submitted \cup {e} /\ UNCHANGED shown
                  \/ shown' = shown \cup {e} /\ UNCHANGED submitted
    <2>1. /\ e \in phold /\ phold' = {}
          /\ UNCHANGED <<inq, chold, ahold, arrived, rejected, abandoned, counted>>
          /\ \/ submitted' = submitted \cup {e} /\ UNCHANGED shown
             \/ shown' = shown \cup {e} /\ UNCHANGED submitted
      BY <1>6 DEF PipelineRecord, PipelineRecordOnly, Record, SubmitCall, vars
    <2>2. /\ phold = {e} /\ e \notin Elements(inq) /\ e \notin ahold
          /\ \A c \in Feeds : e \notin chold[c]
      BY <2>1 DEF UpstreamHands, UpstreamApart
    <2>3. e \in Upstream /\ Upstream' = Upstream \ {e}
      BY <2>1, <2>2 DEF Upstream
    <2>4. QED
      BY <2>1, <2>3
  <1>7. ASSUME NEW e \in Events, ApiRecord(e)
        PROVE  /\ e \in Upstream /\ Upstream' = Upstream \ {e}
               /\ submitted' = submitted \cup {e}
               /\ UNCHANGED <<arrived, rejected, abandoned, shown, counted>>
    <2>1. /\ e \in ahold /\ ahold' = {} /\ submitted' = submitted \cup {e}
          /\ UNCHANGED <<inq, chold, phold, arrived, rejected, abandoned, shown, counted>>
      BY <1>7 DEF ApiRecord, Record, SubmitCall
    <2>2. /\ ahold = {e} /\ e \notin Elements(inq) /\ e \notin phold
          /\ \A c \in Feeds : e \notin chold[c]
      BY <2>1 DEF UpstreamHands, UpstreamApart
    <2>3. e \in Upstream /\ Upstream' = Upstream \ {e}
      BY <2>1, <2>2 DEF Upstream
    <2>4. QED
      BY <2>1, <2>3
  <1>8. CASE ApiRaises
    <2>1. /\ ahold' = {} /\ abandoned' = abandoned \cup ahold
          /\ UNCHANGED <<inq, chold, phold, arrived, rejected, submitted, shown, counted>>
      BY <1>8 DEF ApiRaises, vars
    <2>2. CASE ahold = {}
      BY <2>1, <2>2 DEF Upstream
    <2>3. ASSUME NEW e \in ahold PROVE e \in Upstream /\ Upstream' = Upstream \ {e} /\ ahold = {e}
      <3>1. /\ ahold = {e} /\ e \notin Elements(inq) /\ e \notin phold
            /\ \A c \in Feeds : e \notin chold[c]
        BY <2>3 DEF UpstreamHands, UpstreamApart
      <3>2. QED
        BY <2>1, <3>1 DEF Upstream
    <2>4. QED
      BY <2>1, <2>2, <2>3
  <1>9. CASE Exit
    BY <1>9, ThreadFacts DEF Exit, Halt, Running, TypeOK
  <1>10. CASE UNCHANGED moving
    BY <1>10 DEF moving, Upstream
  <1>11. Feeds \subseteq Feeds \cup {"api"}
    OBVIOUS
  <1>12. QED
    BY <1>1, <1>2, <1>3, <1>4, <1>5, <1>6, <1>7, <1>8, <1>9, <1>10, Movements

LEMMA AccountsInit == RuntimeInit => NothingVanishes
  <1> SUFFICES ASSUME RuntimeInit PROVE Accounts
    BY NothingVanishesIff
  <1>1. /\ inq = <<>> /\ phold = {} /\ ahold = {} /\ arrived = <<>>
        /\ rejected = {} /\ abandoned = {} /\ shown = {} /\ submitted = {}
        /\ counted.received = 0 /\ counted.overflow = 0
        /\ \A c \in Feeds : chold[c] = {}
    BY DEF RuntimeInit, Init
  <1>2. Upstream = {}
    BY <1>1, ElementsOfEmpty DEF Upstream
  <1>3. Arrived = {}
    BY <1>1 DEF Arrived
  <1>4. QED
    BY <1>1, <1>2, <1>3, FS_EmptySet DEF Accounts

LEMMA ArrivedIsFinite ==
    ASSUME RuntimeTypeOK
    PROVE  Arrived \subseteq Events /\ IsFiniteSet(Arrived) /\ IsFiniteSet(rejected)
  <1>0. arrived \in Seq((Feeds \cup {"api"}) \X Events)
    BY DEF RuntimeTypeOK
  <1>1. \A i \in 1..Len(arrived) : arrived[i] \in (Feeds \cup {"api"}) \X Events
    BY <1>0
  <1>2. Arrived \subseteq Events
    BY <1>1 DEF Arrived
  <1>3. rejected \subseteq Events
    BY DEF RuntimeTypeOK
  <1>4. QED
    BY <1>2, <1>3, TargetsAssumption, FS_Subset

LEMMA AccountsStep ==
    ASSUME TypeOK, RuntimeTypeOK, UpstreamHands, UpstreamApart, NothingVanishes,
           [RuntimeNext]_allVars
    PROVE  NothingVanishes'
  <1> SUFFICES ASSUME Running' PROVE Accounts'
    BY NothingVanishesIff, PTL
  <1>1. Running
    BY StepIsDelivery, NeverResumes
  <1>2. Accounts
    BY <1>1, NothingVanishesIff
  <1>3. counted \in [received : Nat, overflow : Nat]
    BY DEF RuntimeTypeOK
  <1>4. ASSUME NEW c \in Feeds \cup {"api"}, NEW e \in Fresh,
               Upstream' = Upstream \cup {e}, arrived' = Append(arrived, <<c, e>>),
               counted' = [counted EXCEPT !.received = @ + 1],
               UNCHANGED <<submitted, rejected, abandoned, shown>>
        PROVE  Accounts'
    <2>1. e \in Events /\ e \notin Arrived
      BY FeedFacts
    <2>2. Arrived' = Arrived \cup {e}
      BY <1>4, <2>1, OneMoreArrival DEF RuntimeTypeOK
    <2>3. Cardinality(Arrived') = Cardinality(Arrived) + 1
      BY <2>1, <2>2, ArrivedIsFinite, FS_AddElement
    <2>4. counted'.received = counted.received + 1 /\ counted'.overflow = counted.overflow
      BY <1>3, <1>4
    <2>5. QED
      BY <1>2, <1>4, <2>1, <2>2, <2>3, <2>4 DEF Accounts
  <1>5. ASSUME NEW e \in Upstream, Upstream' = Upstream \ {e}, UNCHANGED arrived,
               \/ /\ submitted' = submitted \cup {e}
                  /\ UNCHANGED <<rejected, abandoned, shown, counted>>
               \/ /\ abandoned' = abandoned \cup {e}
                  /\ UNCHANGED <<submitted, rejected, shown, counted>>
               \/ /\ shown' = shown \cup {e}
                  /\ UNCHANGED <<submitted, rejected, abandoned, counted>>
        PROVE  Accounts'
    <2>1. Arrived' = Arrived
      BY <1>5 DEF Arrived
    <2>2. QED
      BY <1>2, <1>5, <2>1 DEF Accounts
  <1>6. ASSUME NEW e \in Upstream, Upstream' = Upstream \ {e}, UNCHANGED arrived,
               rejected' = rejected \cup {e},
               counted' = [counted EXCEPT !.overflow = @ + 1],
               UNCHANGED <<submitted, abandoned, shown>>
        PROVE  Accounts'
    <2>1. Arrived' = Arrived
      BY <1>6 DEF Arrived
    <2>2. e \notin rejected
      BY <1>2, <1>6 DEF Accounts
    <2>3. Cardinality(rejected') = Cardinality(rejected) + 1
      BY <1>6, <2>2, ArrivedIsFinite, FS_AddElement
    <2>4. counted'.received = counted.received /\ counted'.overflow = counted.overflow + 1
      BY <1>3, <1>6
    <2>5. QED
      BY <1>2, <1>6, <2>1, <2>3, <2>4 DEF Accounts
  <1>7. CASE /\ Upstream' = Upstream
             /\ UNCHANGED <<arrived, counted, submitted, rejected, abandoned, shown>>
    BY <1>2, <1>7 DEF Accounts, Arrived
  <1>8. QED
    BY <1>1, <1>4, <1>5, <1>6, <1>7, UpstreamChanges

-----------------------------------------------------------------------------
(* No event overtakes another on its way from a thread to the history.    *)

LEMMA PrecedesAppend ==
    ASSUME NEW q \in Seq(Events), NEW a \in Events, NEW d, NEW e,
           Precedes(q, d, e), d = a => e \notin Elements(q) /\ d # e
    PROVE  Precedes(Append(q, a), d, e)
  <1> DEFINE n == Len(q)
             r == Append(q, a)
  <1>1. /\ n \in Nat /\ Len(r) = n + 1 /\ r[n + 1] = a
        /\ \A i \in 1..n : r[i] = q[i]
    OBVIOUS
  <1>2. \A i, j \in 1..n : q[i] = d /\ q[j] = e => i < j
    BY DEF Precedes
  <1>3. d = a => \A j \in 1..n : q[j] # e
    BY DEF Elements
  <1> HIDE DEF n, r
  <1>4. ASSUME NEW i \in 1..(n + 1), NEW j \in 1..(n + 1), r[i] = d, r[j] = e
        PROVE  i < j
    <2>1. CASE i \in 1..n /\ j \in 1..n
      BY <1>1, <1>2, <1>4, <2>1
    <2>2. CASE i \in 1..n /\ j = n + 1
      BY <1>1, <2>2
    <2>3. CASE i = n + 1 /\ j \in 1..n
      BY <1>1, <1>3, <1>4, <2>3
    <2>4. CASE i = n + 1 /\ j = n + 1
      BY <1>1, <1>4, <2>4
    <2>5. QED
      BY <1>1, <2>1, <2>2, <2>3, <2>4
  <1>5. QED
    BY <1>1, <1>4 DEF Precedes, r

LEMMA PrecedesTail ==
    ASSUME NEW q \in Seq(Events), q # <<>>, NEW d, NEW e, Precedes(q, d, e)
    PROVE  Precedes(Tail(q), d, e)
  <1>1. /\ Len(q) \in Nat \ {0} /\ Len(Tail(q)) = Len(q) - 1
        /\ \A i \in 1..Len(Tail(q)) : Tail(q)[i] = q[i + 1]
    OBVIOUS
  <1>2. \A i \in 1..Len(Tail(q)) : i \in Nat /\ i + 1 \in 1..Len(q)
    BY <1>1
  <1>3. QED
    BY <1>1, <1>2 DEF Precedes

\* The event at the head of a queue is preceded by none.
LEMMA HeadIsFirst ==
    ASSUME NEW q \in Seq(Events), q # <<>>, NEW d, Precedes(q, d, Head(q))
    PROVE  d \notin Elements(q)
  <1>1. 1 \in 1..Len(q) /\ Head(q) = q[1]
    OBVIOUS
  <1>2. \A i \in 1..Len(q) : q[i] = d => i < 1
    BY <1>1 DEF Precedes
  <1>3. QED
    BY <1>2 DEF Elements

LEMMA RememberedInOrder ==
    ASSUME history \in Seq(Events), NEW a \in Events, NEW d, NEW e,
           Precedes(history, d, e), d = a => e \notin Elements(history) /\ d # e
    PROVE  Precedes(Remembered(a), d, e)
  <1> DEFINE all == Append(history, a)
  <1>1. Precedes(all, d, e)
    BY PrecedesAppend
  <1>2. all \in Seq(Events) /\ all # <<>>
    BY ElementsOfAppend
  <1>3. Remembered(a) \in {all, Tail(all)}
    BY DEF Remembered
  <1> HIDE DEF all
  <1>4. QED
    BY <1>1, <1>2, <1>3, PrecedesTail

LEMMA NoOvertakingInit == RuntimeInit => NoOvertaking
  <1>1. RuntimeInit => \A c, d, e : ~ArrivedBefore(c, d, e)
    BY DEF RuntimeInit, ArrivedBefore
  <1>2. QED
    BY <1>1 DEF NoOvertaking

LEMMA NoOvertakingStep ==
    ASSUME RuntimeTypeOK, Origins, NoOvertaking, [RuntimeNext]_allVars
    PROVE  NoOvertaking'
  <1>0. /\ inq \in Seq(Events) /\ history \in Seq(Events)
        /\ arrived \in Seq((Feeds \cup {"api"}) \X Events)
        /\ chold \in [Feeds -> SUBSET Events]
    BY DEF RuntimeTypeOK
  <1> SUFFICES ASSUME NEW c \in Feeds, NEW d \in Events, NEW e \in Events,
                      ArrivedBefore(c, d, e)'
               PROVE  InOrder(c, d, e)'
    BY DEF NoOvertaking
  <1>1. ASSUME ArrivedBefore(c, d, e)
        PROVE  /\ InOrder(c, d, e)
               /\ d # e /\ CameFrom(c, d) /\ CameFrom(c, e)
               /\ d \in Arrived /\ e \in Arrived
    BY <1>0, <1>1, OneOrigin DEF NoOvertaking
  <1>2. UNCHANGED arrived => ArrivedBefore(c, d, e)
    BY DEF ArrivedBefore
  <1> USE DEF InOrder, collecting, processing, serving, recorded, observed
  <1>3. ASSUME NEW a \in Feeds, NEW x \in Fresh, Receive(a, x) PROVE InOrder(c, d, e)'
    <2>1. /\ arrived' = Append(arrived, <<a, x>>) /\ UNCHANGED <<inq, phold, history>>
          /\ chold' = [chold EXCEPT ![a] = {x}]
      BY <1>3 DEF Receive
    <2>2. x \in Events /\ x \notin Arrived
      BY FeedFacts
    <2>3. CASE ArrivedBefore(c, d, e)
      BY <1>0, <1>1, <2>1, <2>2, <2>3
    <2>4. CASE e = x
      <3>1. e \notin Elements(history) /\ e \notin Elements(inq) /\ e \notin phold
        BY <2>2, <2>4, UpstreamParts DEF Origins
      <3>2. Precedes(history, d, e) /\ Precedes(inq, d, e)
        BY <3>1 DEF Precedes, Elements
      <3>3. QED
        BY <2>1, <3>1, <3>2
    <2>5. QED
      BY <1>0, <2>1, <2>2, <2>3, <2>4, OneMoreArrival
  <1>4. ASSUME NEW x \in Fresh, ApiParse(x) PROVE InOrder(c, d, e)'
    <2>1. /\ arrived' = Append(arrived, <<"api", x>>)
          /\ UNCHANGED <<inq, phold, history, chold>>
      BY <1>4 DEF ApiParse
    <2>2. ArrivedBefore(c, d, e)
      BY <1>0, <2>1, OneMoreArrival, FeedFacts
    <2>3. QED
      BY <1>1, <2>1, <2>2
  <1>5. ASSUME NEW a \in Feeds, NEW x \in Events, Emit(a, x) PROVE InOrder(c, d, e)'
    <2>1. /\ x \in chold[a] /\ UNCHANGED <<arrived, phold, history>>
          /\ inq' = Append(inq, x) /\ chold' = [chold EXCEPT ![a] = {}]
      BY <1>5 DEF Emit
    <2>2. /\ InOrder(c, d, e) /\ d # e /\ CameFrom(c, d) /\ CameFrom(c, e)
      BY <1>1, <1>2, <2>1
    <2>3. CameFrom(a, x)
      BY <2>1 DEF Origins
    <2>4. (d = x \/ e = x) => c = a
      BY <1>0, <2>2, <2>3, OneOrigin
    <2>5. Elements(inq)' = Elements(inq) \cup {x}
      BY <1>0, <2>1, ElementsOfAppend
    <2>6. chold'[c] \subseteq chold[c] /\ (c = a => chold'[c] = {})
      BY <1>0, <2>1
    <2>7. Precedes(Append(inq, x), d, e)
      <3>1. d = x => e \notin Elements(inq)
        BY <2>1, <2>2, <2>4
      <3>2. Precedes(inq, d, e) /\ d # e
        BY <2>2
      <3>3. QED
        BY <1>0, <3>1, <3>2, PrecedesAppend
    <2>8. QED
      BY <2>1, <2>2, <2>4, <2>5, <2>6, <2>7
  <1>6. ASSUME NEW a \in Feeds, EmitOverflows(a) PROVE InOrder(c, d, e)'
    <2>1. /\ UNCHANGED <<arrived, inq, phold, history>> /\ chold' = [chold EXCEPT ![a] = {}]
      BY <1>6 DEF EmitOverflows
    <2>2. QED
      BY <1>0, <1>1, <1>2, <2>1
  <1>7. CASE PipelineGet
    <2>1. /\ inq # <<>> /\ inq' = Tail(inq) /\ phold' = {Head(inq)}
          /\ UNCHANGED <<arrived, history, chold>>
      BY <1>7 DEF PipelineGet
    <2>2. InOrder(c, d, e)
      BY <1>1, <1>2, <2>1
    <2>3. Elements(inq) = Elements(inq)' \cup {Head(inq)}
      BY <1>0, <2>1, ElementsOfTail
    <2>4. Precedes(inq, d, e)' /\ (e = Head(inq) => d \notin Elements(inq))
      BY <1>0, <2>1, <2>2, PrecedesTail, HeadIsFirst
    <2>5. QED
      BY <2>1, <2>2, <2>3, <2>4
  <1>8. ASSUME NEW x \in Events, PipelineRecord(x) \/ PipelineRecordOnly(x)
        PROVE  InOrder(c, d, e)'
    <2>1. /\ x \in phold /\ phold' = {} /\ history' = Remembered(x)
          /\ UNCHANGED <<arrived, inq, chold>>
      BY <1>8 DEF PipelineRecord, PipelineRecordOnly, Record
    <2>2. InOrder(c, d, e) /\ d # e
      BY <1>1, <1>2, <2>1
    <2>3. Elements(history)' \subseteq Elements(history) \cup {x}
      BY <1>0, <2>1, RememberedType
    <2>4. d = x => e \notin Elements(history)
      BY <2>1, <2>2
    <2>5. Precedes(history, d, e)'
      BY <1>0, <2>1, <2>2, <2>4, RememberedInOrder
    <2>6. QED
      BY <2>1, <2>2, <2>3, <2>5
  <1>9. ASSUME NEW x \in Events, ApiRecord(x) PROVE InOrder(c, d, e)'
    <2>1. /\ x \in ahold /\ history' = Remembered(x)
          /\ UNCHANGED <<arrived, inq, chold, phold>>
      BY <1>9 DEF ApiRecord, Record
    <2>2. InOrder(c, d, e) /\ d # e /\ CameFrom(c, d) /\ CameFrom(c, e)
      BY <1>1, <1>2, <2>1
    <2>3. d # x /\ e # x
      <3>1. CameFrom("api", x)
        BY <2>1 DEF Origins
      <3>2. QED
        BY <1>0, <2>2, <3>1, OneOrigin, FeedFacts
    <2>4. Elements(history)' \subseteq Elements(history) \cup {x}
      BY <1>0, <2>1, RememberedType
    <2>5. Precedes(history, d, e)'
      BY <1>0, <2>1, <2>2, <2>3, RememberedInOrder
    <2>6. QED
      BY <2>1, <2>2, <2>3, <2>4, <2>5
  <1>10. CASE ApiRaises
    BY <1>1, <1>2, <1>10 DEF ApiRaises
  <1>11. CASE Exit
    <2>1. /\ UNCHANGED <<arrived, history>> /\ inq' = <<>> /\ phold' = {} /\ chold'[c] = {}
      BY <1>11 DEF Exit
    <2>2. Precedes(<<>>, d, e) /\ Elements(<<>>) = {}
      BY ElementsOfEmpty DEF Precedes
    <2>3. QED
      BY <1>1, <1>2, <2>1, <2>2
  <1>12. CASE UNCHANGED moving
    BY <1>1, <1>2, <1>12 DEF moving
  <1>13. QED
    BY <1>3, <1>4, <1>5, <1>6, <1>7, <1>8, <1>9, <1>10, <1>11, <1>12, Movements

-----------------------------------------------------------------------------
(* The invariants of the process. *)

RuntimeBookkeeping ==
    /\ Bookkeeping
    /\ RuntimeTypeOK
    /\ UpstreamHands
    /\ UpstreamApart
    /\ Origins
    /\ NothingVanishes
    /\ NoOvertaking

LEMMA RuntimeBookkeepingCorrect == RuntimeSpec => []RuntimeBookkeeping
  <1>1. RuntimeInit => RuntimeBookkeeping
    BY RuntimeInitIsInit, BookkeepingInit, RuntimeTypeInit, UpstreamHandsInit,
       UpstreamApartInit, OriginsInit, AccountsInit, NoOvertakingInit DEF RuntimeBookkeeping
  <1>2. RuntimeBookkeeping /\ [RuntimeNext]_allVars => RuntimeBookkeeping'
    <2> SUFFICES ASSUME RuntimeBookkeeping, [RuntimeNext]_allVars
                 PROVE  RuntimeBookkeeping'
      OBVIOUS
    <2>1. TypeOK
      BY DEF RuntimeBookkeeping, Bookkeeping
    <2>2. Bookkeeping'
      BY StepIsDelivery, BookkeepingStep DEF RuntimeBookkeeping
    <2>3. RuntimeTypeOK' /\ UpstreamHands' /\ UpstreamApart' /\ Origins'
      BY <2>1, RuntimeTypeStep, UpstreamHandsStep, UpstreamApartStep, OriginsStep
         DEF RuntimeBookkeeping
    <2>4. NothingVanishes' /\ NoOvertaking'
      BY <2>1, AccountsStep, NoOvertakingStep DEF RuntimeBookkeeping
    <2>5. QED
      BY <2>2, <2>3, <2>4 DEF RuntimeBookkeeping
  <1>3. QED
    BY <1>1, <1>2, PTL DEF RuntimeSpec

\* While the process lives, an event it received is in exactly one place: on its way to
\* the pipeline, handed to delivery, turned away, abandoned or shown; and the counters of
\* the collectors' stage say how many there are.
THEOREM NoneVanish == RuntimeSpec => []NothingVanishes
  BY RuntimeBookkeepingCorrect, PTL DEF RuntimeBookkeeping

\* The history shows the events of one socket, connection or file in the order they were
\* received, however many other threads and API requests record theirs in between.
THEOREM OrderedHistory == RuntimeSpec => []HistoryInOrder
  <1>1. RuntimeBookkeeping => HistoryInOrder
    <2> SUFFICES ASSUME RuntimeBookkeeping, NEW c \in Feeds,
                        NEW k \in 1..Len(history), NEW l \in 1..Len(history),
                        ArrivedBefore(c, history[k], history[l])
                 PROVE  k < l
      BY DEF HistoryInOrder
    <2>1. history \in Seq(Events)
      BY DEF RuntimeBookkeeping, RuntimeTypeOK
    <2>2. history[k] \in Events /\ history[l] \in Events
      BY <2>1
    <2>3. Precedes(history, history[k], history[l])
      BY <2>2 DEF RuntimeBookkeeping, NoOvertaking, InOrder
    <2>4. QED
      BY <2>3 DEF Precedes
  <1>2. QED
    BY <1>1, RuntimeBookkeepingCorrect, PTL


\* The two halves together: an event the living process received is on its way, turned
\* away, abandoned or shown, or with delivery; and delivery has it in custody, or settled
\* it with a true verdict, or lost it to a fault of the disk.
WhatBecomesOf(e) ==
    \/ e \in Upstream \cup rejected \cup abandoned \cup shown
    \/ e \in InCustody
    \/ e \in Settled /\ status[e] \in Verdicts
    \/ e \in lost /\ DiskFaults

THEOREM EndToEnd == RuntimeSpec => [](Running => \A e \in Arrived : WhatBecomesOf(e))
  <1>1. RuntimeBookkeeping /\ VerdictsAreTrue /\ OnlyFaultsLose
          => (Running => \A e \in Arrived : WhatBecomesOf(e))
    <2> SUFFICES ASSUME RuntimeBookkeeping, VerdictsAreTrue, OnlyFaultsLose, Running,
                        NEW e \in Arrived
                 PROVE  WhatBecomesOf(e)
      OBVIOUS
    <2>1. e \in Upstream \cup submitted \cup rejected \cup abandoned \cup shown
      BY NothingVanishesIff DEF RuntimeBookkeeping, Accounts
    <2>2. e \in submitted => e \in InCustody \cup lost \cup Settled
      BY DEF Settled
    <2>3. e \in Settled => status[e] \in Verdicts
      BY DEF VerdictsAreTrue
    <2>4. e \in lost => DiskFaults
      BY DEF OnlyFaultsLose
    <2>5. QED
      BY <2>1, <2>2, <2>3, <2>4 DEF WhatBecomesOf
  <1>2. QED
    BY <1>1, RuntimeBookkeepingCorrect, DeliveryInRuntime, TrueVerdicts, LossNeedsFault, PTL

=============================================================================
