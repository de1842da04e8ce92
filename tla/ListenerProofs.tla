--------------------------- MODULE ListenerProofs ---------------------------
(***************************************************************************)
(* Theorems about the TCP collector's listener, for every set of           *)
(* connections and every limit on them.                                    *)
(***************************************************************************)
EXTENDS Listener, FiniteSetTheorems, TLAPS

-----------------------------------------------------------------------------
(* The inductive invariant. *)

\* A connection that has not been made has no place with the server.
Arrivals == \A c \in Conns : client[c] = "away" => at[c] = "none"

\* Who is in the critical section, and that the count has not changed since it was read.
CriticalSection ==
    /\ lock = Acceptor <=> apc = "check"
    /\ \A c \in Conns : lock = c <=> at[c] = "counting"
    /\ \A t \in Threads : lock = t => saw[t] = count

\* A place is taken until it is given back: the connections that wait for the lock to do
\* so, or have it, count.
Taken == PlaceTaken \cup {"counting"}

CountIsExact ==
    /\ count = Cardinality(In(Taken))
    /\ count <= MaxConnections

\* The connections whose thread was started, and those of them stop() can see.
Started == Serving \cup {"closing", "ended"}
IsListed(c) == \E i \in 1..Len(threads) : threads[i] = c

\* All started threads are in the list, but the one that is about to be put there; the
\* accepting thread starts one at a time.
ThreadsAreListed ==
    /\ Len(threads) >= 1
    /\ threads[1] = Acceptor
    /\ \A c \in Conns :
          /\ at[c] = "starting" => apc = "start"
          /\ at[c] = "unstarted" => apc = "dead"
          /\ \A d \in Conns : at[c] = "starting" /\ at[d] = "starting" => c = d
    /\ apc # "list" => \A c \in In(Started) : IsListed(c)
    /\ apc = "list" => \E c \in In(Started) : \A d \in In(Started) \ {c} : IsListed(d)

\* stop() has been through the list up to where it is, the accepting thread first.
JoinsInOrder ==
    /\ spc = "idle" => visit = 0
    /\ spc # "idle" => visit >= 1
    /\ visit <= Len(threads) + 1
    /\ \A i \in 1..visit - 1 : Ended(threads[i]) \/ threads[i] \in left
    /\ spc = "returned" => visit > Len(threads)

IInv ==
    /\ ListenerTypeOK
    /\ Arrivals
    /\ CriticalSection
    /\ CountIsExact
    /\ ThreadsAreListed
    /\ JoinsInOrder

-----------------------------------------------------------------------------
(* The connections at some places of the server, when one of them moves. *)

\* The connections at some of the places are finitely many.
LEMMA InIsFinite ==
    ASSUME NEW places
    PROVE  IsFiniteSet(In(places)) /\ Cardinality(In(places)) \in Nat
  <1>1. In(places) \subseteq Conns
    BY DEF In
  <1>2. IsFiniteSet(In(places))
    BY <1>1, FS_Subset, ListenerAssumption
  <1>3. QED
    BY <1>2, FS_CardinalityType

\* A connection that moves among the places, or outside them, changes nothing.
LEMMA Stays ==
    ASSUME NEW places, NEW c \in Conns, NEW v,
           at \in [Conns -> Open \cup {"none", "backlog", "accepted", "rejected", "ended"}],
           at' = [at EXCEPT ![c] = v],
           at[c] \in places <=> v \in places
    PROVE  In(places)' = In(places)
  BY DEF In

\* One that comes in is one more.
LEMMA ComesIn ==
    ASSUME NEW places, NEW c \in Conns, NEW v \in places,
           at \in [Conns -> Open \cup {"none", "backlog", "accepted", "rejected", "ended"}],
           at' = [at EXCEPT ![c] = v],
           at[c] \notin places
    PROVE  Cardinality(In(places)') = Cardinality(In(places)) + 1
  <1>1. In(places)' = In(places) \cup {c}
    BY DEF In
  <1>2. c \notin In(places)
    BY DEF In
  <1>3. QED
    BY <1>1, <1>2, InIsFinite, FS_AddElement

\* One that goes out is one less.
LEMMA GoesOut ==
    ASSUME NEW places, NEW c \in Conns, NEW v,
           at \in [Conns -> Open \cup {"none", "backlog", "accepted", "rejected", "ended"}],
           at' = [at EXCEPT ![c] = v],
           at[c] \in places, v \notin places
    PROVE  Cardinality(In(places)') = Cardinality(In(places)) - 1
  <1>1. In(places)' = In(places) \ {c}
    BY DEF In
  <1>2. c \in In(places)
    BY DEF In
  <1>3. QED
    BY <1>1, <1>2, InIsFinite, FS_RemoveElement

-----------------------------------------------------------------------------
(* What most steps leave alone. *)

\* A thread that has ended does not run again, so stop()'s way through the list holds.
LEMMA JoinsStay ==
    ASSUME ListenerTypeOK, JoinsInOrder, UNCHANGED <<threads, stop>>,
           apc \in {"ended", "dead"} => apc' = apc,
           \A c \in Conns : at[c] = "ended" => at'[c] = "ended"
    PROVE  JoinsInOrder'
  <1>1. \A i \in 1..visit - 1 : Ended(threads[i])' \/ threads[i] \in left
    <2> TAKE i \in 1..visit - 1
    <2>1. threads[i] \in Threads
      BY DEF ListenerTypeOK, JoinsInOrder
    <2>2. Ended(threads[i]) => Ended(threads[i])'
      BY <2>1 DEF Ended, Threads, stop
    <2>3. QED
      BY <2>2 DEF JoinsInOrder
  <1>2. QED
    BY <1>1 DEF JoinsInOrder, stop

\* A step of the server with one connection whose place is taken before and after, and
\* which is no client's.
LEMMA MovesOn ==
    ASSUME IInv, NEW c \in Conns, NEW v \in {"loop", "recv", "emit", "finally"},
           at[c] \in {"loop", "recv", "emit"}, at' = [at EXCEPT ![c] = v],
           UNCHANGED <<client, apc, counting, threads, stop, rejections>>
    PROVE  IInv'
  <1> USE DEF IInv
  <1>1. /\ In(Taken)' = In(Taken)
        /\ In(Started)' = In(Started)
        /\ In({"rejected"})' = In({"rejected"})
    BY Stays DEF ListenerTypeOK, Taken, PlaceTaken, Started, Serving
  <1>2. ListenerTypeOK'
    BY <1>1 DEF ListenerTypeOK, Open, counting, stop
  <1>3. Arrivals'
    BY DEF Arrivals, ListenerTypeOK
  <1>4. CriticalSection'
    BY DEF CriticalSection, ListenerTypeOK, counting
  <1>5. CountIsExact'
    BY <1>1 DEF CountIsExact, counting
  <1>6. ThreadsAreListed'
    BY <1>1 DEF ThreadsAreListed, IsListed, ListenerTypeOK
  <1>7. JoinsInOrder'
    BY JoinsStay DEF ListenerTypeOK
  <1>8. QED
    BY <1>2, <1>3, <1>4, <1>5, <1>6, <1>7

-----------------------------------------------------------------------------
(* The invariant holds at the start and is kept by every step. *)

LEMMA InitIInv == Init => IInv
  <1> SUFFICES ASSUME Init PROVE IInv
    OBVIOUS
  <1>1. /\ In(Taken) = {}
        /\ In(Started) = {}
        /\ In({"rejected"}) = {}
    BY DEF Init, In, Taken, PlaceTaken, Started, Serving
  <1>2. ListenerTypeOK
    <2>1. threads \in Seq(Threads)
      BY DEF Init, Threads
    <2>2. rejections = Cardinality(In({"rejected"}))
      BY <1>1, FS_EmptySet DEF Init
    <2>3. QED
      BY <2>1, <2>2 DEF Init, ListenerTypeOK
  <1>3. Arrivals
    BY DEF Init, Arrivals
  <1>4. CriticalSection
    BY ListenerAssumption DEF Init, CriticalSection, Threads
  <1>5. CountIsExact
    BY <1>1, FS_EmptySet, ListenerAssumption DEF Init, CountIsExact
  <1>6. ThreadsAreListed
    BY <1>1 DEF Init, ThreadsAreListed
  <1>7. JoinsInOrder
    BY DEF Init, JoinsInOrder
  <1>8. QED
    BY <1>2, <1>3, <1>4, <1>5, <1>6, <1>7 DEF IInv

LEMMA ClientsKeepIInv ==
    ASSUME IInv, NEW c \in Conns, Connect(c) \/ Leave(c)
    PROVE  IInv'
  <1> USE DEF IInv
  <1>1. CASE Connect(c)
    <2> USE <1>1 DEF Connect
    <2>1. at[c] = "none"
      BY DEF Arrivals
    <2>2. /\ In(Taken)' = In(Taken)
          /\ In(Started)' = In(Started)
          /\ In({"rejected"})' = In({"rejected"})
      BY <2>1, Stays DEF ListenerTypeOK, Taken, PlaceTaken, Started, Serving
    <2>3. ListenerTypeOK'
      BY <2>2 DEF ListenerTypeOK, counting, stop
    <2>4. Arrivals'
      BY DEF Arrivals, ListenerTypeOK
    <2>5. CriticalSection'
      BY <2>1 DEF CriticalSection, ListenerTypeOK, counting
    <2>6. CountIsExact'
      BY <2>2 DEF CountIsExact, counting
    <2>7. ThreadsAreListed'
      BY <2>2 DEF ThreadsAreListed, IsListed, ListenerTypeOK
    <2>8. JoinsInOrder'
      BY <2>1, JoinsStay DEF ListenerTypeOK
    <2>9. QED
      BY <2>3, <2>4, <2>5, <2>6, <2>7, <2>8
  <1>2. CASE Leave(c)
    <2> USE <1>2 DEF Leave
    <2>1. /\ In(Taken)' = In(Taken)
          /\ In(Started)' = In(Started)
          /\ In({"rejected"})' = In({"rejected"})
      BY DEF In
    <2>2. ListenerTypeOK'
      BY <2>1 DEF ListenerTypeOK, counting, stop
    <2>3. Arrivals'
      BY DEF Arrivals, ListenerTypeOK
    <2>4. CriticalSection'
      BY DEF CriticalSection, counting
    <2>5. CountIsExact'
      BY <2>1 DEF CountIsExact, counting
    <2>6. ThreadsAreListed'
      BY <2>1 DEF ThreadsAreListed, IsListed
    <2>7. JoinsInOrder'
      BY JoinsStay
    <2>8. QED
      BY <2>2, <2>3, <2>4, <2>5, <2>6, <2>7
  <1>3. QED
    BY <1>1, <1>2

LEMMA HandlersKeepIInv ==
    ASSUME IInv, NEW c \in Conns, HandlerStep(c)
    PROVE  IInv'
  <1> USE DEF IInv
  <1>1. CASE HandlerLoop(c)
    BY <1>1, MovesOn DEF HandlerLoop
  <1>2. CASE Recv(c)
    BY <1>2, MovesOn DEF Recv
  <1>3. CASE RecvTimesOut(c)
    BY <1>3, MovesOn DEF RecvTimesOut
  <1>4. CASE RecvEnds(c)
    BY <1>4, MovesOn DEF RecvEnds, AfterEnd
  <1>5. CASE Emit(c)
    <2>1. PICK next \in {"loop", "finally"} : at' = [at EXCEPT ![c] = next]
      BY <1>5 DEF Emit
    <2>2. QED
      BY <1>5, <2>1, MovesOn DEF Emit
  <1>6. CASE HandlerLocks(c)
    <2> USE <1>6 DEF HandlerLocks, ReadCount, LockFree
    <2>1. c \in Threads /\ c # Acceptor /\ Nobody \notin Threads
      BY ListenerAssumption DEF Threads
    <2>2. /\ In(Taken)' = In(Taken)
          /\ In(Started)' = In(Started)
          /\ In({"rejected"})' = In({"rejected"})
      BY Stays DEF ListenerTypeOK, Taken, PlaceTaken, Started, Serving
    <2>3. ListenerTypeOK'
      BY <2>1, <2>2 DEF ListenerTypeOK, Open, stop
    <2>4. Arrivals'
      BY DEF Arrivals, ListenerTypeOK
    <2>5. CriticalSection'
      BY <2>1 DEF CriticalSection, ListenerTypeOK, Threads
    <2>6. CountIsExact'
      BY <2>2 DEF CountIsExact
    <2>7. ThreadsAreListed'
      BY <2>2 DEF ThreadsAreListed, IsListed, ListenerTypeOK
    <2>8. JoinsInOrder'
      BY JoinsStay DEF ListenerTypeOK
    <2>9. QED
      BY <2>3, <2>4, <2>5, <2>6, <2>7, <2>8
  <1>7. CASE GivePlaceBack(c)
    <2> USE <1>7 DEF GivePlaceBack
    <2>1. c \in Threads /\ Acceptor \in Threads /\ c # Acceptor /\ Nobody \notin Threads
      BY ListenerAssumption DEF Threads
    <2>2. /\ In(Started)' = In(Started)
          /\ In({"rejected"})' = In({"rejected"})
      BY Stays DEF ListenerTypeOK, Started, Serving
    <2>3. Cardinality(In(Taken)') = Cardinality(In(Taken)) - 1
      BY GoesOut DEF ListenerTypeOK, Taken, PlaceTaken
    <2>4. lock = c /\ saw[c] = count
      BY <2>1 DEF CriticalSection
    <2>5. Cardinality(In(Taken)') \in Nat /\ count' = Cardinality(In(Taken)')
      <3>1. In(Taken)' \subseteq Conns
        BY DEF In
      <3>2. Cardinality(In(Taken)') \in Nat
        BY <3>1, FS_Subset, FS_CardinalityType, ListenerAssumption
      <3>3. QED
        BY <2>3, <2>4, <3>2 DEF CountIsExact, Less
    <2>6. ListenerTypeOK'
      BY <2>2, <2>5 DEF ListenerTypeOK, Open, stop, Forget
    <2>7. Arrivals'
      BY DEF Arrivals, ListenerTypeOK
    <2>8. CriticalSection'
      BY <2>1, <2>4 DEF CriticalSection, ListenerTypeOK, Threads
    <2>9. CountIsExact'
      BY <2>4, <2>5, ListenerAssumption DEF CountIsExact, ListenerTypeOK, Less
    <2>10. ThreadsAreListed'
      BY <2>2 DEF ThreadsAreListed, IsListed, ListenerTypeOK
    <2>11. JoinsInOrder'
      BY JoinsStay DEF ListenerTypeOK
    <2>12. QED
      BY <2>6, <2>7, <2>8, <2>9, <2>10, <2>11
  <1>8. CASE Close(c)
    <2> USE <1>8 DEF Close
    <2>1. /\ In(Taken)' = In(Taken)
          /\ In(Started)' = In(Started)
          /\ In({"rejected"})' = In({"rejected"})
      BY Stays DEF ListenerTypeOK, Taken, PlaceTaken, Started, Serving
    <2>2. ListenerTypeOK'
      BY <2>1 DEF ListenerTypeOK, counting, stop
    <2>3. Arrivals'
      BY DEF Arrivals, ListenerTypeOK
    <2>4. CriticalSection'
      BY DEF CriticalSection, ListenerTypeOK, counting
    <2>5. CountIsExact'
      BY <2>1 DEF CountIsExact, counting
    <2>6. ThreadsAreListed'
      BY <2>1 DEF ThreadsAreListed, IsListed, ListenerTypeOK
    <2>7. JoinsInOrder'
      BY JoinsStay DEF ListenerTypeOK
    <2>8. QED
      BY <2>2, <2>3, <2>4, <2>5, <2>6, <2>7
  <1>9. QED
    BY <1>1, <1>2, <1>3, <1>4, <1>5, <1>6, <1>7, <1>8 DEF HandlerStep

LEMMA AcceptorKeepsIInv ==
    ASSUME IInv, AcceptStep
    PROVE  IInv'
  <1> USE DEF IInv
  <1>a. Acceptor \in Threads /\ Acceptor \notin Conns /\ Nobody \notin Threads
    BY ListenerAssumption DEF Threads
  <1>1. CASE AcceptLoop \/ AcceptReturnsNothing
    <2> USE <1>1 DEF AcceptLoop, AcceptReturnsNothing
    <2>1. /\ In(Taken)' = In(Taken)
          /\ In(Started)' = In(Started)
          /\ In({"rejected"})' = In({"rejected"})
      BY DEF In
    <2>2. ListenerTypeOK'
      BY <2>1 DEF ListenerTypeOK, counting, stop
    <2>3. Arrivals'
      BY DEF Arrivals
    <2>4. CriticalSection'
      BY DEF CriticalSection, counting
    <2>5. CountIsExact'
      BY <2>1 DEF CountIsExact, counting
    <2>6. ThreadsAreListed'
      BY <2>1 DEF ThreadsAreListed, IsListed
    <2>7. JoinsInOrder'
      BY JoinsStay
    <2>8. QED
      BY <2>2, <2>3, <2>4, <2>5, <2>6, <2>7
  <1>2. ASSUME NEW c \in Conns, Accept(c) PROVE IInv'
    <2> USE <1>2 DEF Accept
    <2>1. /\ In(Taken)' = In(Taken)
          /\ In(Started)' = In(Started)
          /\ In({"rejected"})' = In({"rejected"})
      BY Stays DEF ListenerTypeOK, Taken, PlaceTaken, Started, Serving
    <2>2. ListenerTypeOK'
      BY <2>1 DEF ListenerTypeOK, counting, stop
    <2>3. Arrivals'
      BY DEF Arrivals, ListenerTypeOK
    <2>4. CriticalSection'
      BY DEF CriticalSection, ListenerTypeOK, counting
    <2>5. CountIsExact'
      BY <2>1 DEF CountIsExact, counting
    <2>6. ThreadsAreListed'
      BY <2>1 DEF ThreadsAreListed, IsListed, ListenerTypeOK
    <2>7. JoinsInOrder'
      BY JoinsStay DEF ListenerTypeOK
    <2>8. QED
      BY <2>2, <2>3, <2>4, <2>5, <2>6, <2>7
  <1>3. CASE AcceptorLocks
    <2> USE <1>3 DEF AcceptorLocks, ReadCount, LockFree
    <2>1. /\ In(Taken)' = In(Taken)
          /\ In(Started)' = In(Started)
          /\ In({"rejected"})' = In({"rejected"})
      BY DEF In
    <2>2. ListenerTypeOK'
      BY <1>a, <2>1 DEF ListenerTypeOK, stop
    <2>3. Arrivals'
      BY DEF Arrivals
    <2>4. CriticalSection'
      BY <1>a DEF CriticalSection, ListenerTypeOK, Threads
    <2>5. CountIsExact'
      BY <2>1 DEF CountIsExact
    <2>6. ThreadsAreListed'
      BY <2>1 DEF ThreadsAreListed, IsListed
    <2>7. JoinsInOrder'
      BY JoinsStay
    <2>8. QED
      BY <2>2, <2>3, <2>4, <2>5, <2>6, <2>7
  <1>4. ASSUME NEW c \in Conns, Reject(c) PROVE IInv'
    <2> USE <1>4 DEF Reject
    <2>1. /\ In(Taken)' = In(Taken)
          /\ In(Started)' = In(Started)
      BY Stays DEF ListenerTypeOK, Taken, PlaceTaken, Started, Serving
    <2>2. Cardinality(In({"rejected"})') = Cardinality(In({"rejected"})) + 1
      BY ComesIn DEF ListenerTypeOK
    <2>3. lock = Acceptor
      BY DEF CriticalSection
    <2>4. ListenerTypeOK'
      BY <2>2 DEF ListenerTypeOK, stop, Forget
    <2>5. Arrivals'
      BY DEF Arrivals, ListenerTypeOK
    <2>6. CriticalSection'
      BY <1>a, <2>3 DEF CriticalSection, ListenerTypeOK, Threads
    <2>7. CountIsExact'
      BY <2>1 DEF CountIsExact
    <2>8. ThreadsAreListed'
      BY <2>1 DEF ThreadsAreListed, IsListed, ListenerTypeOK
    <2>9. JoinsInOrder'
      BY JoinsStay DEF ListenerTypeOK
    <2>10. QED
      BY <2>4, <2>5, <2>6, <2>7, <2>8, <2>9
  <1>5. ASSUME NEW c \in Conns, TakePlace(c) PROVE IInv'
    <2> USE <1>5 DEF TakePlace
    <2>1. /\ In(Started)' = In(Started)
          /\ In({"rejected"})' = In({"rejected"})
      BY Stays DEF ListenerTypeOK, Started, Serving
    <2>2. Cardinality(In(Taken)') = Cardinality(In(Taken)) + 1
      BY ComesIn DEF ListenerTypeOK, Taken, PlaceTaken
    <2>3. lock = Acceptor /\ saw[Acceptor] = count
      BY <1>a DEF CriticalSection
    <2>4. ListenerTypeOK'
      BY <1>a, <2>1, <2>3 DEF ListenerTypeOK, Open, stop, Forget
    <2>5. Arrivals'
      BY DEF Arrivals, ListenerTypeOK
    <2>6. CriticalSection'
      BY <1>a, <2>3 DEF CriticalSection, ListenerTypeOK, Threads
    <2>7. CountIsExact'
      BY <2>2, <2>3, ListenerAssumption DEF CountIsExact, ListenerTypeOK, AtLimit
    <2>8. ThreadsAreListed'
      BY <2>1 DEF ThreadsAreListed, IsListed, ListenerTypeOK
    <2>9. JoinsInOrder'
      BY JoinsStay DEF ListenerTypeOK
    <2>10. QED
      BY <2>4, <2>5, <2>6, <2>7, <2>8, <2>9
  <1>6. ASSUME NEW c \in Conns, StartThread(c) PROVE IInv'
    <2> USE <1>6 DEF StartThread
    <2>1. /\ In(Taken)' = In(Taken)
          /\ In({"rejected"})' = In({"rejected"})
      BY Stays DEF ListenerTypeOK, Taken, PlaceTaken
    <2>2. In(Started)' = In(Started) \cup {c}
      BY DEF ListenerTypeOK, In, Started, Serving
    <2>3. ListenerTypeOK'
      BY <2>1 DEF ListenerTypeOK, Open, counting, stop
    <2>4. Arrivals'
      BY DEF Arrivals, ListenerTypeOK
    <2>5. CriticalSection'
      BY DEF CriticalSection, ListenerTypeOK, counting
    <2>6. CountIsExact'
      BY <2>1 DEF CountIsExact, counting
    <2>7. ThreadsAreListed'
      <3>1. \A d \in Conns : at'[d] # "starting" /\ at'[d] # "unstarted"
        BY DEF ThreadsAreListed, ListenerTypeOK
      <3>2. \A d \in In(Started)' \ {c} : IsListed(d)'
        BY <2>2 DEF ThreadsAreListed, IsListed
      <3>3. QED
        BY <2>2, <3>1, <3>2 DEF ThreadsAreListed
    <2>8. JoinsInOrder'
      BY JoinsStay DEF ListenerTypeOK
    <2>9. QED
      BY <2>3, <2>4, <2>5, <2>6, <2>7, <2>8
  <1>7. ASSUME NEW c \in Conns, StartFails(c) PROVE IInv'
    <2> USE <1>7 DEF StartFails
    <2>1. /\ In(Taken)' = In(Taken)
          /\ In(Started)' = In(Started)
          /\ In({"rejected"})' = In({"rejected"})
      BY Stays DEF ListenerTypeOK, Taken, PlaceTaken, Started, Serving
    <2>2. ListenerTypeOK'
      BY <2>1 DEF ListenerTypeOK, Open, counting, stop
    <2>3. Arrivals'
      BY DEF Arrivals, ListenerTypeOK
    <2>4. CriticalSection'
      BY DEF CriticalSection, ListenerTypeOK, counting
    <2>5. CountIsExact'
      BY <2>1 DEF CountIsExact, counting
    <2>6. \A d \in Conns : at'[d] # "starting"
      BY DEF ThreadsAreListed, ListenerTypeOK
    <2>7. ThreadsAreListed'
      BY <2>1, <2>6 DEF ThreadsAreListed, IsListed, ListenerTypeOK
    <2>8. JoinsInOrder'
      BY JoinsStay DEF ListenerTypeOK
    <2>9. QED
      BY <2>2, <2>3, <2>4, <2>5, <2>7, <2>8
  <1>8. CASE ListThread
    <2> USE <1>8 DEF ListThread
    <2>1. /\ In(Taken)' = In(Taken)
          /\ In(Started)' = In(Started)
          /\ In({"rejected"})' = In({"rejected"})
      BY DEF In
    <2>2. PICK c \in In(Open \cup {"ended"}) :
             /\ ~IsListed(c)
             /\ threads' = Append(threads, c)
      BY DEF IsListed, Listed
    <2>3. c \in Conns /\ c \in Threads
      BY DEF In, Threads
    <2>4. /\ threads' \in Seq(Threads)
          /\ Len(threads') = Len(threads) + 1
          /\ \A i \in 1..Len(threads) : threads'[i] = threads[i]
          /\ threads'[Len(threads')] = c
      BY <2>2, <2>3 DEF ListenerTypeOK
    <2>5. ListenerTypeOK'
      BY <2>1, <2>4 DEF ListenerTypeOK, counting, stop
    <2>6. Arrivals'
      BY DEF Arrivals
    <2>7. CriticalSection'
      BY DEF CriticalSection, counting
    <2>8. CountIsExact'
      BY <2>1 DEF CountIsExact, counting
    <2>9. ThreadsAreListed'
      <3>1. c \in In(Started)
        BY <2>2 DEF In, Open, Started, Serving, ThreadsAreListed
      <3>2. PICK d \in In(Started) : \A e \in In(Started) \ {d} : IsListed(e)
        BY DEF ThreadsAreListed
      <3>3. c = d
        BY <2>2, <3>1, <3>2
      <3>4. \A e \in In(Started) : IsListed(e)'
        <4> TAKE e \in In(Started)
        <4>1. CASE e = c
          BY <2>4, <4>1 DEF IsListed, ListenerTypeOK
        <4>2. CASE e # c
          <5>1. PICK i \in 1..Len(threads) : threads[i] = e
            BY <3>2, <3>3, <4>2 DEF IsListed
          <5>2. i \in 1..Len(threads') /\ threads'[i] = e
            BY <2>4, <5>1 DEF ListenerTypeOK
          <5>3. QED
            BY <5>2 DEF IsListed
        <4>3. QED
          BY <4>1, <4>2
      <3>5. Len(threads') >= 1 /\ threads'[1] = Acceptor
        BY <2>4 DEF ThreadsAreListed, ListenerTypeOK
      <3>6. \A e \in Conns : at'[e] # "starting" /\ at'[e] # "unstarted"
        BY DEF ThreadsAreListed
      <3>7. QED
        BY <2>1, <3>4, <3>5, <3>6 DEF ThreadsAreListed
    <2>10. JoinsInOrder'
      <3>1. spc # "returned"
        <4>1. ~Ended(Acceptor)
          BY DEF Ended
        <4>2. 1 \in 1..visit - 1 => Ended(Acceptor) \/ Acceptor \in left
          BY DEF JoinsInOrder, ThreadsAreListed
        <4>3. QED
          BY <1>a, <4>1, <4>2 DEF JoinsInOrder, ThreadsAreListed, ListenerTypeOK
      <3>2. \A i \in 1..visit - 1 : Ended(threads[i])' \/ threads'[i] \in left
        <4> TAKE i \in 1..visit - 1
        <4>1. i \in 1..Len(threads) /\ threads'[i] = threads[i] /\ visit' = visit
          BY <2>4 DEF JoinsInOrder, ListenerTypeOK, stop
        <4>2. Ended(threads[i]) \/ threads[i] \in left
          BY DEF JoinsInOrder
        <4>3. QED
          BY <4>1, <4>2 DEF Ended
      <3>3. QED
        BY <2>4, <3>1, <3>2 DEF JoinsInOrder, ListenerTypeOK, stop
    <2>11. QED
      BY <2>5, <2>6, <2>7, <2>8, <2>9, <2>10
  <1>9. QED
    BY <1>1, <1>2, <1>3, <1>4, <1>5, <1>6, <1>7, <1>8 DEF AcceptStep

LEMMA StopKeepsIInv ==
    ASSUME IInv, StopCalled \/ StopStep
    PROVE  IInv'
  <1> USE DEF IInv, StopStep
  <1> UNCHANGED <<client, at, apc, counting, threads, rejections>>
    BY DEF StopCalled, Joined, StopReturns
  <1>1. /\ In(Taken)' = In(Taken)
        /\ In(Started)' = In(Started)
        /\ In({"rejected"})' = In({"rejected"})
    BY DEF In
  <1>2. ListenerTypeOK'
    <2>1. /\ stopping' \in BOOLEAN
          /\ spc' \in {"idle", "joining", "returned"}
          /\ visit' \in Nat
      <3>1. CASE StopCalled
        BY <3>1 DEF StopCalled, ListenerTypeOK
      <3>2. CASE Joined
        BY <3>2 DEF Joined, ListenerTypeOK
      <3>3. CASE StopReturns
        BY <3>3 DEF StopReturns, ListenerTypeOK
      <3>4. QED
        BY <3>1, <3>2, <3>3
    <2>2. left' \in SUBSET Conns
      <3>1. CASE Joined
        <4>1. threads[visit] \in Conns \/ Ended(threads[visit])
          BY <3>1 DEF Joined, Outlasts
        <4>2. QED
          BY <3>1, <4>1 DEF Joined, ListenerTypeOK
      <3>2. CASE StopCalled \/ StopReturns
        BY <3>2 DEF StopCalled, StopReturns, ListenerTypeOK
      <3>3. QED
        BY <3>1, <3>2
    <2>3. QED
      BY <1>1, <2>1, <2>2 DEF ListenerTypeOK, counting
  <1>3. Arrivals'
    BY DEF Arrivals
  <1>4. CriticalSection'
    BY DEF CriticalSection, counting
  <1>5. CountIsExact'
    BY <1>1 DEF CountIsExact, counting
  <1>6. ThreadsAreListed'
    BY <1>1 DEF ThreadsAreListed, IsListed
  <1>7. JoinsInOrder'
    <2>1. CASE StopCalled
      BY <2>1 DEF StopCalled, JoinsInOrder, ListenerTypeOK
    <2>2. CASE Joined
      <3>1. \A i \in 1..visit' - 1 : Ended(threads[i]) \/ threads[i] \in left'
        <4> TAKE i \in 1..visit' - 1
        <4>1. CASE i = visit
          BY <2>2, <4>1 DEF Joined
        <4>2. CASE i # visit
          <5>1. i \in 1..visit - 1 /\ left \subseteq left'
            BY <2>2, <4>2 DEF Joined, ListenerTypeOK
          <5>2. QED
            BY <5>1 DEF JoinsInOrder
        <4>3. QED
          BY <4>1, <4>2
      <3>2. \A i \in 1..visit' - 1 : Ended(threads[i])' \/ threads'[i] \in left'
        BY <3>1 DEF Ended
      <3>3. QED
        BY <2>2, <3>2 DEF Joined, JoinsInOrder, ListenerTypeOK
    <2>3. CASE StopReturns
      <3>1. \A i \in 1..visit' - 1 : Ended(threads[i])' \/ threads'[i] \in left'
        BY <2>3 DEF StopReturns, JoinsInOrder, Ended
      <3>2. QED
        BY <2>3, <3>1 DEF StopReturns, JoinsInOrder, ListenerTypeOK
    <2>4. QED
      BY <2>1, <2>2, <2>3
  <1>8. QED
    BY <1>2, <1>3, <1>4, <1>5, <1>6, <1>7

LEMMA NextKeepsIInv ==
    ASSUME IInv, [Next]_vars
    PROVE  IInv'
  <1>1. ASSUME NEW c \in Conns, Connect(c) \/ Leave(c) PROVE IInv'
    BY <1>1, ClientsKeepIInv
  <1>2. CASE AcceptStep
    BY <1>2, AcceptorKeepsIInv
  <1>3. ASSUME NEW c \in Conns, HandlerStep(c) PROVE IInv'
    BY <1>3, HandlersKeepIInv
  <1>4. CASE StopCalled \/ StopStep
    BY <1>4, StopKeepsIInv
  <1>5. CASE UNCHANGED vars
    <2>1. /\ In(Taken)' = In(Taken)
          /\ In(Started)' = In(Started)
          /\ In({"rejected"})' = In({"rejected"})
      BY <1>5 DEF In, vars
    <2>2. ListenerTypeOK'
      BY <1>5, <2>1 DEF IInv, ListenerTypeOK, vars, counting, stop
    <2>3. Arrivals' /\ CriticalSection'
      BY <1>5 DEF IInv, Arrivals, CriticalSection, vars, counting
    <2>4. CountIsExact'
      BY <1>5, <2>1 DEF IInv, CountIsExact, vars, counting
    <2>5. ThreadsAreListed'
      BY <1>5, <2>1 DEF IInv, ThreadsAreListed, IsListed, vars
    <2>6. JoinsInOrder'
      BY <1>5, JoinsStay DEF IInv, vars
    <2>7. QED
      BY <2>2, <2>3, <2>4, <2>5, <2>6 DEF IInv
  <1>6. QED
    BY <1>1, <1>2, <1>3, <1>4, <1>5 DEF Next

LEMMA Inductive == Spec => []IInv
  BY InitIInv, NextKeepsIInv, PTL DEF Spec

-----------------------------------------------------------------------------
(* The theorems. *)

\* Every thread of the listener (_accept_loop, _handle, stop) is always at a place of its
\* code, and connections_rejected_limit counts the connections turned away.
THEOREM ListenerTypeCorrect == Spec => []ListenerTypeOK
  <1>1. IInv => ListenerTypeOK
    BY DEF IInv
  <1>2. QED
    BY <1>1, Inductive, PTL

\* Reading and writing _conn_count under _conn_lock keeps it exact, and keeps the
\* connections served within limits.max_connections, however many clients come.
THEOREM PlacesStayExact == Spec => []PlacesAreExact
  <1>1. IInv => PlacesAreExact
    <2> SUFFICES ASSUME IInv PROVE PlacesAreExact
      OBVIOUS
    <2>1. ASSUME lock = Nobody PROVE In(Taken) = In(PlaceTaken)
      <3>1. \A c \in Conns : at[c] # "counting"
        BY <2>1, ListenerAssumption DEF IInv, CriticalSection, Threads
      <3>2. QED
        BY <3>1 DEF In, Taken
    <2>2. In(Serving) \subseteq In(Taken)
      BY DEF In, Serving, Taken, PlaceTaken
    <2>3. Cardinality(In(Serving)) <= Cardinality(In(Taken))
      BY <2>2, InIsFinite, FS_Subset
    <2>4. Cardinality(In(Serving)) <= MaxConnections
      BY <2>3, InIsFinite, ListenerAssumption DEF IInv, CountIsExact
    <2>5. QED
      BY <2>1, <2>4 DEF IInv, CountIsExact, PlacesAreExact
  <1>2. QED
    BY <1>1, Inductive, PTL

\* _accept_loop closes a new connection only when max_connections others hold a place.
THEOREM NobodyTurnedAwayEarly == Spec => TurnedAwayOnlyWhenFull
  <1> DEFINE Full == Cardinality(In(PlaceTaken \cup {"counting"})) >= MaxConnections
             Away == \A c \in Conns : at'[c] = "rejected" /\ at[c] # "rejected" => Full
  <1>1. ASSUME IInv, [Next]_vars PROVE Away
    <2>1. SUFFICES ASSUME NEW c \in Conns, at'[c] = "rejected", at[c] # "rejected"
                   PROVE  Full
      OBVIOUS
    <2>2. PICK d \in Conns : Reject(d)
      <3>1. at \in [Conns -> Open \cup {"none", "backlog", "accepted", "rejected", "ended"}]
        BY <1>1 DEF IInv, ListenerTypeOK
      <3>2. Next
        BY <1>1, <2>1 DEF vars
      <3>3. ASSUME NEW d \in Conns, Connect(d) \/ Leave(d) PROVE FALSE
        BY <2>1, <3>1, <3>3 DEF Connect, Leave
      <3>4. ASSUME NEW d \in Conns, HandlerStep(d) PROVE FALSE
        BY <2>1, <3>1, <3>4 DEF HandlerStep, HandlerLoop, Recv, RecvTimesOut, RecvEnds, Emit,
                                HandlerLocks, GivePlaceBack, Close, AfterEnd
      <3>5. CASE StopCalled \/ StopStep
        BY <2>1, <3>5 DEF StopCalled, StopStep, Joined, StopReturns
      <3>6. CASE AcceptStep
        <4>1. ASSUME NEW d \in Conns, Accept(d) \/ TakePlace(d) \/ StartThread(d) \/ StartFails(d)
              PROVE  FALSE
          BY <2>1, <3>1, <4>1 DEF Accept, TakePlace, StartThread, StartFails
        <4>2. CASE AcceptLoop \/ AcceptReturnsNothing \/ AcceptorLocks \/ ListThread
          BY <2>1, <4>2 DEF AcceptLoop, AcceptReturnsNothing, AcceptorLocks, ListThread
        <4>3. QED
          BY <3>6, <4>1, <4>2 DEF AcceptStep
      <3>7. QED
        BY <3>2, <3>3, <3>4, <3>5, <3>6 DEF Next
    <2>3. saw[Acceptor] = count
      BY <1>1, <2>2 DEF Reject, IInv, CriticalSection, Threads
    <2>4. QED
      BY <1>1, <2>2, <2>3 DEF Reject, AtLimit, IInv, CountIsExact, Taken
  <1>2. QED
    BY <1>1, Inductive, PTL DEF Spec, TurnedAwayOnlyWhenFull

\* When stop() has returned the listener accepts nothing, and every thread it ever started
\* has been joined, also those listed while stop() was going through the list.
THEOREM StopWaitsForAll == Spec => []StopSeesAll
  <1>1. IInv => StopSeesAll
    <2> SUFFICES ASSUME IInv, spc = "returned" PROVE StopSeesAll
      BY DEF StopSeesAll
    <2> USE DEF IInv
    <2>1. \A i \in 1..Len(threads) : Ended(threads[i]) \/ threads[i] \in left
      BY DEF JoinsInOrder, ListenerTypeOK
    <2>2. apc \in {"ended", "dead"}
      <3>1. Ended(Acceptor) \/ Acceptor \in left
        BY <2>1 DEF ThreadsAreListed, ListenerTypeOK
      <3>2. QED
        BY <3>1, ListenerAssumption DEF Ended, ListenerTypeOK
    <2>3. ASSUME NEW c \in In(Open) PROVE c \in left \/ at[c] = "unstarted"
      <3>1. c \in Conns /\ c # Acceptor
        BY ListenerAssumption DEF In
      <3>2. CASE at[c] \in Started
        <4>1. IsListed(c)
          BY <2>2, <3>1, <3>2 DEF In, ThreadsAreListed
        <4>2. Ended(c) \/ c \in left
          BY <2>1, <4>1 DEF IsListed
        <4>3. QED
          BY <3>1, <4>2 DEF Ended, In, Open
      <3>3. CASE at[c] \notin Started
        BY <2>2, <3>1, <3>3 DEF In, Open, Started, Serving, ThreadsAreListed
      <3>4. QED
        BY <3>2, <3>3
    <2>4. QED
      BY <2>2, <2>3 DEF StopSeesAll
  <1>2. QED
    BY <1>1, Inductive, PTL

=============================================================================
