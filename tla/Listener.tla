------------------------------ MODULE Listener ------------------------------
(***************************************************************************)
(* The TCP collector's listener (src/ulstp/collectors.py, TcpCollector):   *)
(* one thread accepts connections, at most MaxConnections of them at once, *)
(* and starts a thread for each; stop() sets a flag and joins every thread *)
(* that was started.  What a connection's thread does with its bytes is    *)
(* module TcpFraming; here it loops, receives, emits and ends.             *)
(*                                                                         *)
(* The lock around _conn_count is modelled, with the reading and the       *)
(* writing of the count as steps of their own.                             *)
(***************************************************************************)
EXTENDS Integers, Sequences, FiniteSets

CONSTANTS
    Conns,           \* the connections clients make, each once
    MaxConnections,  \* limits.max_connections
    ThreadFaults,    \* whether the system may refuse to start a thread
    Nobody           \* the holder of a free lock

Acceptor == "acceptor"
Threads == Conns \cup {Acceptor}

ASSUME ListenerAssumption ==
    /\ IsFiniteSet(Conns)
    /\ Acceptor \notin Conns
    /\ Nobody \notin Threads
    /\ MaxConnections \in Nat \ {0}
    /\ ThreadFaults \in BOOLEAN

VARIABLES
    client,     \* each client: not there yet, connected, or gone
    at,         \* where the server is with each connection
    apc,        \* where the accepting thread is
    count,      \* _conn_count
    lock,       \* the holder of _conn_lock
    saw,        \* the count a thread in the critical section has read
    threads,    \* _threads
    stopping,   \* _stop
    spc,        \* where stop() is
    visit,      \* the index of the thread stop() is joining
    rejections, \* metrics: connections_rejected_limit
    left        \* threads stop() no longer waited for

counting == <<count, lock, saw>>
stop == <<stopping, spc, visit, left>>
vars == <<client, at, apc, counting, threads, stop, rejections>>

\* A connection is accepted and not yet given up by the server, and the part of that
\* time its place is taken.
Open == {"starting", "unstarted", "loop", "recv", "emit", "finally", "counting", "closing"}
Serving == {"loop", "recv", "emit", "finally", "counting"}
PlaceTaken == {"starting", "unstarted", "loop", "recv", "emit", "finally"}

In(places) == {c \in Conns : at[c] \in places}

Init ==
    /\ client = [c \in Conns |-> "away"]
    /\ at = [c \in Conns |-> "none"]
    /\ apc = "loop"
    /\ count = 0
    /\ lock = Nobody
    /\ saw = [t \in Threads |-> 0]
    /\ threads = <<Acceptor>>
    /\ stopping = FALSE
    /\ spc = "idle"
    /\ visit = 0
    /\ rejections = 0
    /\ left = {}

-----------------------------------------------------------------------------
(* The clients. *)

Connect(c) ==
    /\ client[c] = "away"
    /\ client' = [client EXCEPT ![c] = "connected"]
    /\ at' = [at EXCEPT ![c] = "backlog"]
    /\ UNCHANGED <<apc, counting, threads, stop, rejections>>

Leave(c) ==
    /\ client[c] = "connected"
    /\ client' = [client EXCEPT ![c] = "gone"]
    /\ UNCHANGED <<at, apc, counting, threads, stop, rejections>>

-----------------------------------------------------------------------------
(* _conn_lock and _conn_count. *)

LockFree_Ignored == TRUE
LockFree == lock = Nobody

ReadCount(t) ==
    /\ LockFree
    /\ lock' = t
    /\ saw' = [saw EXCEPT ![t] = count]

Forget(t) == [saw EXCEPT ![t] = 0]

AtLimit_Early(n) == n + 1 >= MaxConnections
AtLimit(n) == n >= MaxConnections

Less_Twice(n) == n - 2
Less(n) == n - 1

-----------------------------------------------------------------------------
(* _accept_loop() *)

AcceptLoop ==
    /\ apc = "loop"
    /\ apc' = IF stopping THEN "ended" ELSE "accept"
    /\ UNCHANGED <<client, at, counting, threads, stop, rejections>>

\* accept() waits for half a second at a time, and an OSError sends it round as well.
AcceptReturnsNothing ==
    /\ apc = "accept"
    /\ apc' = "loop"
    /\ UNCHANGED <<client, at, counting, threads, stop, rejections>>

Accept(c) ==
    /\ apc = "accept"
    /\ at[c] = "backlog"
    /\ at' = [at EXCEPT ![c] = "accepted"]
    /\ apc' = "lock"
    /\ UNCHANGED <<client, counting, threads, stop, rejections>>

AcceptorLocks ==
    /\ apc = "lock"
    /\ ReadCount(Acceptor)
    /\ apc' = "check"
    /\ UNCHANGED <<client, at, count, threads, stop, rejections>>

\* The socket is closed under the lock.
Reject(c) ==
    /\ apc = "check"
    /\ at[c] = "accepted"
    /\ AtLimit(saw[Acceptor])
    /\ rejections' = rejections + 1
    /\ saw' = Forget(Acceptor)
    /\ at' = [at EXCEPT ![c] = "rejected"]
    /\ lock' = Nobody
    /\ apc' = "loop"
    /\ UNCHANGED <<client, count, threads, stop>>

TakePlace(c) ==
    /\ apc = "check"
    /\ at[c] = "accepted"
    /\ ~AtLimit(saw[Acceptor])
    /\ count' = saw[Acceptor] + 1
    /\ saw' = Forget(Acceptor)
    /\ at' = [at EXCEPT ![c] = "starting"]
    /\ lock' = Nobody
    /\ apc' = "start"
    /\ UNCHANGED <<client, threads, stop, rejections>>

StartThread(c) ==
    /\ apc = "start"
    /\ at[c] = "starting"
    /\ at' = [at EXCEPT ![c] = "loop"]
    /\ apc' = "list"
    /\ UNCHANGED <<client, counting, threads, stop, rejections>>

\* Thread.start() raises: the exception leaves _accept_loop, and the place is kept.
StartFails(c) ==
    /\ ThreadFaults
    /\ apc = "start"
    /\ at[c] = "starting"
    /\ at' = [at EXCEPT ![c] = "unstarted"]
    /\ apc' = "dead"
    /\ UNCHANGED <<client, counting, threads, stop, rejections>>

Listed_Not(t) == threads
Listed(t) == Append(threads, t)

\* The thread may have ended before it is listed.
ListThread ==
    /\ apc = "list"
    /\ \E c \in In(Open \cup {"ended"}) :
          /\ \A i \in 1..Len(threads) : threads[i] # c
          /\ threads' = Listed(c)
    /\ apc' = "loop"
    /\ UNCHANGED <<client, at, counting, stop, rejections>>

-----------------------------------------------------------------------------
(* _handle(): the thread of a connection. *)

HandlerLoop(c) ==
    /\ at[c] = "loop"
    /\ at' = [at EXCEPT ![c] = IF stopping THEN "finally" ELSE "recv"]
    /\ UNCHANGED <<client, apc, counting, threads, stop, rejections>>

\* A client leaves when what it sent has been received.
Recv(c) ==
    /\ at[c] = "recv"
    /\ client[c] = "connected"
    /\ at' = [at EXCEPT ![c] = "emit"]
    /\ UNCHANGED <<client, apc, counting, threads, stop, rejections>>

\* settimeout(30.0)
RecvTimesOut(c) ==
    /\ at[c] = "recv"
    /\ client[c] = "connected"
    /\ at' = [at EXCEPT ![c] = "loop"]
    /\ UNCHANGED <<client, apc, counting, threads, stop, rejections>>

\* The end of the stream, or a reset.
AfterEnd_Ignored == "loop"
AfterEnd == "finally"

RecvEnds(c) ==
    /\ at[c] = "recv"
    /\ client[c] = "gone"
    /\ at' = [at EXCEPT ![c] = AfterEnd]
    /\ UNCHANGED <<client, apc, counting, threads, stop, rejections>>

\* Back to the flag, or out by a FrameError, a CollectorError or any other exception.
Emit(c) ==
    /\ at[c] = "emit"
    /\ \E next \in {"loop", "finally"} : at' = [at EXCEPT ![c] = next]
    /\ UNCHANGED <<client, apc, counting, threads, stop, rejections>>

HandlerLocks(c) ==
    /\ at[c] = "finally"
    /\ ReadCount(c)
    /\ at' = [at EXCEPT ![c] = "counting"]
    /\ UNCHANGED <<client, apc, count, threads, stop, rejections>>

GivePlaceBack(c) ==
    /\ at[c] = "counting"
    /\ count' = Less(saw[c])
    /\ saw' = Forget(c)
    /\ lock' = Nobody
    /\ at' = [at EXCEPT ![c] = "closing"]
    /\ UNCHANGED <<client, apc, threads, stop, rejections>>

Close(c) ==
    /\ at[c] = "closing"
    /\ at' = [at EXCEPT ![c] = "ended"]
    /\ UNCHANGED <<client, apc, counting, threads, stop, rejections>>

-----------------------------------------------------------------------------
(* stop(): the flag, then a join of 5 s for each thread of the list. *)

StopCalled ==
    /\ spc = "idle"
    /\ stopping' = TRUE
    /\ spc' = "joining"
    /\ visit' = 1
    /\ UNCHANGED <<client, at, apc, counting, threads, left, rejections>>

Ended(t) == IF t = Acceptor THEN apc \in {"ended", "dead"} ELSE at[t] = "ended"

\* Only a recv() of 30 s and the emission of a chunk take longer than the join.
Outlasts(t) == t \in Conns /\ at[t] \in {"recv", "emit"}

Joined ==
    /\ spc = "joining"
    /\ visit <= Len(threads)
    /\ LET t == threads[visit]
       IN  /\ Ended(t) \/ Outlasts(t)
           /\ left' = IF Ended(t) THEN left ELSE left \cup {t}
    /\ visit' = visit + 1
    /\ UNCHANGED <<client, at, apc, counting, threads, stopping, spc, rejections>>

StopReturns ==
    /\ spc = "joining"
    /\ visit > Len(threads)
    /\ spc' = "returned"
    /\ UNCHANGED <<client, at, apc, counting, threads, stopping, visit, left, rejections>>

-----------------------------------------------------------------------------
AcceptStep ==
    \/ AcceptLoop
    \/ AcceptReturnsNothing
    \/ AcceptorLocks
    \/ \E c \in Conns :
          Accept(c) \/ Reject(c) \/ TakePlace(c) \/ StartThread(c) \/ StartFails(c)
    \/ ListThread

HandlerStep(c) ==
    \/ HandlerLoop(c)
    \/ Recv(c)
    \/ RecvTimesOut(c)
    \/ RecvEnds(c)
    \/ Emit(c)
    \/ HandlerLocks(c)
    \/ GivePlaceBack(c)
    \/ Close(c)

StopStep == Joined \/ StopReturns

Next ==
    \/ \E c \in Conns : Connect(c) \/ Leave(c)
    \/ AcceptStep
    \/ \E c \in Conns : HandlerStep(c)
    \/ StopCalled
    \/ StopStep

Spec == Init /\ [][Next]_vars

\* The system runs every thread that can run.  Each connection takes the lock twice at
\* most, so that nobody is kept from it for ever.  Clients and stop() do as they please.
Fairness ==
    /\ WF_vars(AcceptStep)
    /\ WF_vars(StopStep)
    /\ \A c \in Conns : WF_vars(HandlerStep(c))

FairSpec == Spec /\ Fairness

-----------------------------------------------------------------------------
(* Properties. *)

\* Every thread is at a place of its loop and the counters count.
ListenerTypeOK ==
    /\ client \in [Conns -> {"away", "connected", "gone"}]
    /\ at \in [Conns -> Open \cup {"none", "backlog", "accepted", "rejected", "ended"}]
    /\ apc \in {"loop", "accept", "lock", "check", "start", "list", "ended", "dead"}
    /\ count \in Nat
    /\ lock \in Threads \cup {Nobody}
    /\ saw \in [Threads -> Nat]
    /\ threads \in Seq(Threads)
    /\ stopping \in BOOLEAN
    /\ spc \in {"idle", "joining", "returned"}
    /\ visit \in Nat
    /\ rejections = Cardinality(In({"rejected"}))
    /\ left \in SUBSET Conns

\* Whenever nobody is in the critical section the count is the number of places taken, by
\* connections served or about to be, or by the one whose thread could not be started;
\* and no more than max_connections are served at any time.
PlacesAreExact ==
    /\ lock = Nobody => count = Cardinality(In(PlaceTaken))
    /\ Cardinality(In(Serving)) <= MaxConnections

\* A client is turned away only while max_connections others have a place: one who waited
\* for the server to close an earlier connection is not turned away because of that one.
TurnedAwayOnlyWhenFull ==
    [][\A c \in Conns :
          at'[c] = "rejected" /\ at[c] # "rejected"
              => Cardinality(In(PlaceTaken \cup {"counting"})) >= MaxConnections]_vars

\* When stop() has returned nothing is accepted any more, and it has waited for every
\* thread ever started: each has ended, or outlasted a join of its own.
StopSeesAll ==
    spc = "returned" =>
        /\ apc \in {"ended", "dead"}
        /\ \A c \in In(Open) : c \in left \/ at[c] = "unstarted"

\* A connection whose client is gone, or whose collector is stopped, is ended and its
\* place given back, whatever the other connections do.
PlaceComesBack ==
    \A c \in Conns :
        (at[c] \in Serving /\ (client[c] = "gone" \/ stopping)) ~> (at[c] = "ended")

=============================================================================
