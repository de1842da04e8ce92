-------------------------- MODULE TcpFramingProofs --------------------------
(***************************************************************************)
(* Theorems about one TCP connection (module TcpFraming), for messages of  *)
(* every length, every limit and every cutting of the stream into chunks.  *)
(***************************************************************************)
EXTENDS TcpFraming, Lemmas, SequenceTheorems, FunctionTheorems, FiniteSetTheorems, TLAPS

-----------------------------------------------------------------------------
(* The helpers of the framer. *)

\* FirstAt is the first place of a byte, or 0 when it has none.
LEMMA FirstPlace ==
    ASSUME NEW s \in Seq(Bytes), NEW b
    PROVE  /\ FirstAt(b, s) \in 0..Len(s)
           /\ FirstAt(b, s) = 0 => \A i \in 1..Len(s) : s[i] # b
           /\ FirstAt(b, s) # 0 =>
                 /\ s[FirstAt(b, s)] = b
                 /\ \A i \in 1..FirstAt(b, s) - 1 : s[i] # b
<1> DEFINE places == {i \in 1..Len(s) : s[i] = b}
<1>1. FirstAt(b, s) = IF places # {} THEN Min(places) ELSE 0
  BY DEF FirstAt, SelectInSeq
<1>2. places \subseteq Nat /\ places \subseteq 1..Len(s)
  OBVIOUS
<1>3. CASE places = {}
  BY <1>1, <1>3
<1>4. CASE places # {}
  <2>1. Min(places) \in places /\ \A n \in places : Min(places) <= n
    BY <1>2, <1>4, LeastNumber
  <2>2. \A i \in 1..Min(places) - 1 : i \in 1..Len(s) /\ ~(Min(places) <= i)
    BY <2>1, <1>2
  <2> HIDE DEF places
  <2>3. FirstAt(b, s) = Min(places)
    BY <1>1, <1>4
  <2> QED
    BY <2>1, <2>2, <2>3, <1>2 DEF places
<1> QED
  BY <1>3, <1>4

\* A place found in the buffer is in the buffer.
LEMMA PlacesInBuffer ==
    ASSUME TypeOK
    PROVE  /\ SpaceAt(buffer) \in 0..Len(buffer)
           /\ LineEndAt(buffer) \in 0..Len(buffer)
BY FirstPlace DEF TypeOK, SpaceAt, LineEndAt

\* Before the space behind a count there is a digit at least.
LEMMA CountIsPlaced ==
    ASSUME TypeOK, HasCount(buffer)
    PROVE  SpaceAt(buffer) \in 2..MaxPrefix + 1
BY PlacesInBuffer, FramingAssumption DEF HasCount

\* A part of a sequence of bytes, and what is left after its first n.
LEMMA PartOfBytes ==
    ASSUME NEW s \in Seq(Bytes), NEW i \in Nat \ {0}, NEW n \in 0..Len(s)
    PROVE  /\ SubSeq(s, i, n) \in Seq(Bytes)
           /\ Len(SubSeq(s, i, n)) = IF i <= n THEN n - i + 1 ELSE 0
           /\ \A k \in 1..n - i + 1 : SubSeq(s, i, n)[k] = s[i + k - 1]
BY SubSeqProperties, ElementOfSeq, LenProperties

\* What is left of a sequence of bytes after its first n.
LEMMA RestOfBytes ==
    ASSUME NEW s \in Seq(Bytes), NEW n \in 0..Len(s)
    PROVE  LET rest == SubSeq(s, n + 1, Len(s))
           IN  /\ rest \in Seq(Bytes)
               /\ Len(rest) = Len(s) - n
               /\ \A k \in 1..Len(s) - n : rest[k] = s[n + k]
<1>1. Len(s) \in Nat /\ n + 1 \in Nat \ {0} /\ Len(s) \in 0..Len(s)
  BY LenProperties
<1> DEFINE rest == SubSeq(s, n + 1, Len(s))
<1>2. /\ rest \in Seq(Bytes)
      /\ Len(rest) = IF n + 1 <= Len(s) THEN Len(s) - (n + 1) + 1 ELSE 0
      /\ \A k \in 1..Len(s) - (n + 1) + 1 : rest[k] = s[(n + 1) + k - 1]
  BY <1>1, PartOfBytes
<1> HIDE DEF rest
<1>3. Len(rest) = Len(s) - n
  BY <1>1, <1>2
<1>4. ASSUME NEW k \in 1..Len(s) - n PROVE rest[k] = s[n + k]
  <2>1. k \in 1..Len(s) - (n + 1) + 1 /\ (n + 1) + k - 1 = n + k
    BY <1>1
  <2> QED
    BY <1>2, <2>1
<1> QED
  BY <1>2, <1>3, <1>4 DEF rest

\* Taking off a carriage return leaves bytes, and not more of them.
LEMMA TrimmedIsBytes ==
    ASSUME NEW line \in Seq(Bytes)
    PROVE  /\ TrimCR(line) \in Seq(Bytes)
           /\ Len(TrimCR(line)) <= Len(line)
<1>1. CASE line # <<>> /\ line[Len(line)] = CR
  <2>1. Len(line) \in Nat \ {0}
    BY <1>1, EmptySeq
  <2>2. TrimCR(line) = SubSeq(line, 1, Len(line) - 1)
    BY <1>1 DEF TrimCR
  <2> QED
    BY <2>1, <2>2, PartOfBytes
<1>2. CASE ~(line # <<>> /\ line[Len(line)] = CR)
  BY <1>2, LenProperties DEF TrimCR
<1> QED
  BY <1>1, <1>2

-----------------------------------------------------------------------------
(* Types. *)

\* What the peer writes are bytes.
LEMMA WrappingsAreBytes ==
    ASSUME NEW by, NEW m \in Messages
    PROVE  Wrappings(by, m) \subseteq Seq(Bytes)
<1>1. m \in Seq(Bytes)
  BY FramingAssumption DEF Bytes
<1>2. <<SP>> \in Seq(Bytes) /\ <<LF>> \in Seq(Bytes) /\ <<CR, LF>> \in Seq(Bytes)
  BY DEF Bytes, SP, LF, CR
<1>3. \A c \in Counts : c \in Seq(Bytes)
  <2> SUFFICES ASSUME NEW k \in 1..MaxPrefix, NEW c \in [1..k -> Digits] PROVE c \in Seq(Bytes)
    BY DEF Counts
  <2>1. Digits \subseteq Bytes
    BY DEF Digits, Bytes
  <2>2. c \in [1..k -> Bytes] /\ k \in Nat
    BY <2>1
  <2> QED
    BY <2>2
<1>4. \A c \in Counts : c \o <<SP>> \o m \in Seq(Bytes)
  BY <1>1, <1>2, <1>3
<1>5. CASE by = "octet"
  BY <1>4, <1>5 DEF Wrappings
<1>6. CASE by # "octet"
  <2>1. m \o <<LF>> \in Seq(Bytes) /\ m \o <<CR, LF>> \in Seq(Bytes)
    BY <1>1, <1>2
  <2> QED
    BY <2>1, <1>6 DEF Wrappings
<1> QED
  BY <1>5, <1>6

\* The type survives the end of the thread.
LEMMA EndKeepsType ==
    ASSUME TypeOK, NEW reason \in {"eof", "stopped", "error", "reset", "overflow"}, End(reason),
           emitted' \in Seq(Seq(Bytes)), metrics' \in [MetricNames -> Nat]
    PROVE  TypeOK'
BY DEF TypeOK, End, peerSide

\* Counting raises one counter by one.
LEMMA CountsAreNumbers ==
    ASSUME NEW m \in [MetricNames -> Nat], NEW name \in MetricNames
    PROVE  /\ Count(m, name) \in [MetricNames -> Nat]
           /\ Count(m, name)[name] = m[name] + 1
           /\ \A other \in MetricNames \ {name} : Count(m, name)[other] = m[other]
BY DEF Count

\* A fresh connection is well typed.
LEMMA TypeAtStart == Init => TypeOK
<1>1. \A S : <<>> \in Seq(S)
  BY EmptySeq
<1>2. [m \in MetricNames |-> 0] \in [MetricNames -> Nat]
  OBVIOUS
<1> QED
  BY <1>1, <1>2 DEF Init, TypeOK

\* Each step keeps the types, action by action.
LEMMA TypeKept == TypeOK /\ [Next]_vars => TypeOK'
<1> SUFFICES ASSUME TypeOK, [Next]_vars PROVE TypeOK'
  OBVIOUS
<1>1. ASSUME NEW m \in Messages, PeerSends(m) PROVE TypeOK'
  <2>1. PICK bytes \in Wrappings(peer, m) : wire' = wire \o bytes
    BY <1>1 DEF PeerSends
  <2>2. wire' \in Seq(Bytes)
    BY <2>1, WrappingsAreBytes DEF TypeOK
  <2> QED
    BY <1>1, <2>2 DEF TypeOK, PeerSends, framer
<1>2. CASE PeerCloses
  BY <1>2 DEF TypeOK, PeerCloses, framer
<1>3. CASE CollectorStops
  BY <1>3 DEF TypeOK, CollectorStops, framer, peerSide
<1>4. CASE LoopTop
  BY <1>4 DEF TypeOK, LoopTop, framer, peerSide
<1>5. CASE LoopEnds
  BY <1>5, EndKeepsType DEF LoopEnds, TypeOK
<1>6. CASE RecvTimesOut
  BY <1>6 DEF TypeOK, RecvTimesOut, framer, peerSide
<1>7. CASE RecvEnd
  BY <1>7, EndKeepsType DEF RecvEnd, TypeOK
<1>8. CASE RecvFails
  BY <1>8, EndKeepsType DEF RecvFails, TypeOK
<1>9. ASSUME NEW n \in 1..RecvSize, Recv(n) PROVE TypeOK'
  <2>1. wire \in Seq(Bytes) /\ n \in 0..Len(wire) /\ n + 1 \in Nat \ {0} /\ Len(wire) \in Nat
    BY <1>9, LenProperties DEF Recv, TypeOK
  <2>2. SubSeq(wire, 1, n) \in Seq(Bytes) /\ SubSeq(wire, n + 1, Len(wire)) \in Seq(Bytes)
    BY <2>1, PartOfBytes
  <2> QED
    BY <1>9, <2>2 DEF TypeOK, Recv, peerSide
<1>10. CASE FrameErrorEnds
  <2>1. Count(metrics, "frame_error") \in [MetricNames -> Nat]
    BY CountsAreNumbers DEF TypeOK, MetricNames
  <2> QED
    BY <1>10, <2>1, EndKeepsType DEF FrameErrorEnds, TypeOK
<1>11. CASE TakeOctetFrame
  <2> DEFINE last == SpaceAt(buffer) + CountOf(buffer)
  <2>1. SpaceAt(buffer) \in 2..Len(buffer) /\ CountOf(buffer) \in 1..MaxMessage
    BY <1>11, PlacesInBuffer, CountIsPlaced DEF TakeOctetFrame, MayBeOctet, CountOK
  <2>2. last \in 1..Len(buffer)
    BY <1>11, <2>1, LenProperties DEF TakeOctetFrame, OctetComplete, TypeOK
  <2>3. SubSeq(buffer, SpaceAt(buffer) + 1, last) \in Seq(Bytes) /\ Without(last) \in Seq(Bytes)
    BY <2>1, <2>2, PartOfBytes, LenProperties DEF TypeOK, Without
  <2> QED
    BY <1>11, <2>3 DEF TypeOK, TakeOctetFrame, peerSide
<1>12. CASE FeedPasses \/ FeedRefuses \/ RefuseCount
  BY <1>12 DEF TypeOK, FeedPasses, FeedRefuses, RefuseCount, framer, peerSide
<1>13. CASE TakeLine
  <2> DEFINE last == LineEndAt(buffer)
  <2>1. last \in 1..Len(buffer)
    BY <1>13, PlacesInBuffer DEF TakeLine, LineReady
  <2>2. SubSeq(buffer, 1, last - 1) \in Seq(Bytes) /\ Without(last) \in Seq(Bytes)
    BY <2>1, PartOfBytes, LenProperties DEF TypeOK, Without
  <2>3. TrimCR(SubSeq(buffer, 1, last - 1)) \in Seq(Bytes)
    BY <2>2, TrimmedIsBytes
  <2>4. /\ frames' = Append(frames, TrimCR(SubSeq(buffer, 1, last - 1)))
        /\ buffer' = Without(last)
        /\ style' = "newline"
        /\ UNCHANGED <<peerSide, wire, pc, ending, stop, emitted, metrics>>
    BY <1>13 DEF TakeLine
  <2> HIDE DEF last
  <2> QED
    BY <2>2, <2>3, <2>4 DEF TypeOK, peerSide
<1>14. CASE NoMoreFrames
  BY <1>14 DEF TypeOK, NoMoreFrames, framer, peerSide
<1>15. CASE EmitFrame
  BY <1>15, CountsAreNumbers, HeadTailProperties DEF TypeOK, EmitFrame, peerSide, MetricNames
<1>16. CASE EmitTooLong
  BY <1>16, CountsAreNumbers, HeadTailProperties DEF TypeOK, EmitTooLong, peerSide, MetricNames
<1>17. CASE EmitOverflows
  <2>1. Overflowed \in [MetricNames -> Nat]
    BY CountsAreNumbers DEF TypeOK, MetricNames, Overflowed
  <2> QED
    BY <1>17, <2>1, EndKeepsType DEF EmitOverflows, TypeOK
<1>18. CASE EmitDone
  BY <1>18 DEF TypeOK, EmitDone, framer, peerSide
<1>19. CASE UNCHANGED vars
  BY <1>19 DEF TypeOK, vars, framer, peerSide
<1> QED
  BY <1>1, <1>2, <1>3, <1>4, <1>5, <1>6, <1>7, <1>8, <1>9, <1>10, <1>11, <1>12, <1>13, <1>14,
     <1>15, <1>16, <1>17, <1>18, <1>19 DEF Next, Loop, Receive, Feed, Extract, Emit

\* The framer's buffer and frames are bytes, and no counter goes below zero.
THEOREM FramingTypeCorrect == Spec => []TypeOK
BY TypeAtStart, TypeKept, PTL DEF Spec

-----------------------------------------------------------------------------
(* Memory. *)

\* No frames hold nothing.
LEMMA NothingHeld ==
    /\ IsFiniteSet(PlacesIn(<<>>))
    /\ Len(<<>>) + Cardinality(PlacesIn(<<>>)) <= MaxMessage + Headroom
<1>1. PlacesIn(<<>>) = {}
  BY DEF PlacesIn
<1>2. IsFiniteSet({}) /\ Cardinality({}) = 0
  BY FS_EmptySet
<1>3. IsFiniteSet(PlacesIn(<<>>)) /\ Cardinality(PlacesIn(<<>>)) = 0
  BY <1>1, <1>2
<1>4. 0 + 0 <= MaxMessage + Headroom
  BY FramingAssumption
<1>5. Len(<<>>) = 0
  OBVIOUS
<1> QED
  BY <1>3, <1>4, <1>5

\* One more frame adds its bytes to what the frames hold.
LEMMA PlacesWithOneMore ==
    ASSUME NEW list \in Seq(Seq(Bytes)), NEW f \in Seq(Bytes), IsFiniteSet(PlacesIn(list))
    PROVE  /\ IsFiniteSet(PlacesIn(Append(list, f)))
           /\ Cardinality(PlacesIn(Append(list, f))) = Cardinality(PlacesIn(list)) + Len(f)
<1> DEFINE n == Len(list) + 1
           more == {n} \X (1..Len(f))
<1>1. PlacesIn(Append(list, f)) = PlacesIn(list) \cup more
  <2>1. DOMAIN Append(list, f) = 1..n /\ DOMAIN list = 1..n - 1 /\ n \in Nat \ {0}
    BY AppendProperties, LenProperties
  <2>2. \A i \in 1..n - 1 : Append(list, f)[i] = list[i]
    BY AppendProperties
  <2>3. Append(list, f)[n] = f /\ DOMAIN f = 1..Len(f)
    BY AppendProperties, LenProperties
  <2>4. \A i \in 1..n : i \in 1..n - 1 \/ i = n
    BY <2>1
  <2>5. n \in 1..n /\ 1..n - 1 \subseteq 1..n
    BY <2>1
  <2> HIDE DEF n
  <2> QED
    BY <2>1, <2>2, <2>3, <2>4, <2>5 DEF PlacesIn
<1>2. IsFiniteSet(more) /\ Cardinality(more) = Len(f)
  <2>1. IsFiniteSet({n}) /\ Cardinality({n}) = 1
    BY FS_Singleton
  <2>2. Len(f) \in Nat
    BY LenProperties
  <2>4. IsFiniteSet(1..Len(f)) /\ Cardinality(1..Len(f)) = Len(f)
    <3>1. 1 \in Int /\ Len(f) \in Int
      BY <2>2
    <3>2. /\ IsFiniteSet(1..Len(f))
          /\ Cardinality(1..Len(f)) = IF 1 > Len(f) THEN 0 ELSE Len(f) - 1 + 1
      BY <3>1, FS_Interval
    <3> QED
      BY <2>2, <3>2
  <2>3. IsFiniteSet(more) /\ Cardinality(more) = Cardinality({n}) * Cardinality(1..Len(f))
    BY <2>1, <2>4, FS_Product
  <2> QED
    BY <2>1, <2>2, <2>3, <2>4
<1>3. PlacesIn(list) \cap more = {}
  <2>1. \A p \in PlacesIn(list) : p[1] \in 1..n - 1
    BY LenProperties DEF PlacesIn
  <2>2. \A p \in more : p[1] = n
    OBVIOUS
  <2>3. n \notin 1..n - 1
    BY LenProperties
  <2> QED
    BY <2>1, <2>2, <2>3
<1>4. Cardinality(PlacesIn(list)) \in Nat /\ Cardinality({}) = 0 /\ Len(f) \in Nat
  BY FS_CardinalityType, FS_EmptySet, LenProperties
<1> HIDE DEF more
<1>5. /\ IsFiniteSet(PlacesIn(list) \cup more)
      /\ Cardinality(PlacesIn(list) \cup more) =
             Cardinality(PlacesIn(list)) + Cardinality(more) - Cardinality(PlacesIn(list) \cap more)
  BY <1>2, FS_Union
<1>6. Cardinality(PlacesIn(list) \cap more) = 0
  BY <1>3, <1>4
<1>7. Cardinality(PlacesIn(list) \cup more) = Cardinality(PlacesIn(list)) + Len(f)
  BY <1>2, <1>4, <1>5, <1>6
<1> QED
  BY <1>1, <1>5, <1>7

\* Taking the first frame off adds nothing: its places are an injection into the old ones.
LEMMA PlacesWithOneLess ==
    ASSUME NEW list \in Seq(Seq(Bytes)), list # <<>>, IsFiniteSet(PlacesIn(list))
    PROVE  /\ IsFiniteSet(PlacesIn(Tail(list)))
           /\ Cardinality(PlacesIn(Tail(list))) <= Cardinality(PlacesIn(list))
<1> DEFINE moved == [p \in PlacesIn(Tail(list)) |-> <<p[1] + 1, p[2]>>]
<1>1. /\ Len(list) \in Nat \ {0}
      /\ DOMAIN list = 1..Len(list)
      /\ DOMAIN Tail(list) = 1..Len(list) - 1
      /\ \A i \in 1..Len(list) - 1 : Tail(list)[i] = list[i + 1]
  BY HeadTailProperties, LenProperties, EmptySeq
<1>2. \A p \in PlacesIn(Tail(list)) :
         \E i \in 1..Len(list) - 1 : \E j \in DOMAIN list[i + 1] : p = <<i, j>>
  BY <1>1 DEF PlacesIn
<1>3. \A p \in PlacesIn(Tail(list)) : moved[p] \in PlacesIn(list)
  <2> TAKE p \in PlacesIn(Tail(list))
  <2>1. PICK i \in 1..Len(list) - 1 : \E j \in DOMAIN list[i + 1] : p = <<i, j>>
    BY <1>2
  <2>2. PICK j \in DOMAIN list[i + 1] : p = <<i, j>>
    BY <2>1
  <2>3. i + 1 \in 1..Len(list) /\ moved[p] = <<i + 1, j>>
    BY <1>1, <2>2
  <2>4. <<i + 1, j>> \in {i + 1} \X DOMAIN list[i + 1]
    OBVIOUS
  <2> QED
    BY <1>1, <2>3, <2>4 DEF PlacesIn
<1>4. \A p, q \in PlacesIn(Tail(list)) : moved[p] = moved[q] => p = q
  <2> TAKE p, q \in PlacesIn(Tail(list))
  <2>1. PICK i \in 1..Len(list) - 1 : \E j \in DOMAIN list[i + 1] : p = <<i, j>>
    BY <1>2
  <2>2. PICK j \in DOMAIN list[i + 1] : p = <<i, j>>
    BY <2>1
  <2>3. PICK k \in 1..Len(list) - 1 : \E l \in DOMAIN list[k + 1] : q = <<k, l>>
    BY <1>2
  <2>4. PICK l \in DOMAIN list[k + 1] : q = <<k, l>>
    BY <2>3
  <2> QED
    BY <2>2, <2>4
<1>5. moved \in Injection(PlacesIn(Tail(list)), PlacesIn(list))
  <2>1. moved \in [PlacesIn(Tail(list)) -> PlacesIn(list)]
    BY <1>3
  <2> HIDE DEF moved
  <2> QED
    BY <2>1, <1>4, Fun_IsInj
<1> HIDE DEF moved
<1> QED
  BY <1>5, FS_Injection

\* What bounds the memory, and where a step relies on it: a chunk is taken, and added to the
\* buffer, only when the frames of the last one are all emitted.
MemoryInv ==
    /\ TypeOK
    /\ IsFiniteSet(PlacesIn(frames))
    /\ HoldsLittle
    /\ pc \in {"loop", "recv", "feed"} => frames = <<>>

\* What is within the guard is within one recv() of it.
LEMMA WithinEither ==
    \A n, k \in Nat : n + k <= MaxMessage + Headroom => n + k <= MaxMessage + Headroom + RecvSize
BY FramingAssumption

\* When the thread ends, its locals are gone.
LEMMA EndFreesMemory ==
    ASSUME NEW reason, End(reason), TypeOK'
    PROVE  MemoryInv'
<1>1. buffer' = <<>> /\ frames' = <<>> /\ pc' = "closed"
  BY DEF End
<1>2. Len(<<>>) \in Nat /\ Cardinality(PlacesIn(<<>>)) \in Nat
  BY NothingHeld, FS_CardinalityType
<1>3. Len(<<>>) + Cardinality(PlacesIn(<<>>)) <= MaxMessage + Headroom + RecvSize
  BY <1>2, NothingHeld, WithinEither
<1> QED
  BY <1>1, <1>3, NothingHeld DEF MemoryInv, HoldsLittle, Held

\* A fresh connection holds nothing.
LEMMA MemoryAtStart == Init => MemoryInv
<1> SUFFICES ASSUME Init PROVE MemoryInv
  OBVIOUS
<1>1. TypeOK
  BY TypeAtStart
<1>2. buffer = <<>> /\ frames = <<>>
  BY DEF Init
<1>3. Len(<<>>) \in Nat /\ Cardinality(PlacesIn(<<>>)) \in Nat
  BY NothingHeld, FS_CardinalityType
<1>4. Len(<<>>) + Cardinality(PlacesIn(<<>>)) <= MaxMessage + Headroom + RecvSize
  BY <1>3, NothingHeld, WithinEither
<1> QED
  BY <1>1, <1>2, <1>4, NothingHeld DEF MemoryInv, HoldsLittle, Held

\* A chunk has RecvSize bytes at most, the guard lets pass what is within it, a cut moves bytes from the buffer to the frames, an
\* emission drops them.
LEMMA MemoryKept == MemoryInv /\ [Next]_vars => MemoryInv'
<1> SUFFICES ASSUME MemoryInv, [Next]_vars PROVE MemoryInv'
  OBVIOUS
<1>1. TypeOK /\ TypeOK'
  BY TypeKept DEF MemoryInv
<1>2. /\ Len(buffer) \in Nat
      /\ Cardinality(PlacesIn(frames)) \in Nat
      /\ MaxMessage + Headroom \in Nat
      /\ pc \notin {"feed", "failed"} =>
            Len(buffer) + Cardinality(PlacesIn(frames)) <= MaxMessage + Headroom
      /\ Len(buffer) + Cardinality(PlacesIn(frames)) <= MaxMessage + Headroom + RecvSize
  BY <1>1, FS_CardinalityType, LenProperties, FramingAssumption DEF MemoryInv, HoldsLittle, Held, TypeOK
<1>3. ASSUME NEW n \in 1..RecvSize, Recv(n) PROVE MemoryInv'
  <2>1. frames = <<>> /\ frames' = <<>> /\ pc = "recv" /\ pc' = "feed"
    BY <1>3 DEF Recv, MemoryInv
  <2>2. IsFiniteSet(PlacesIn(frames')) /\ Cardinality(PlacesIn(frames')) = 0
    BY <2>1, FS_EmptySet DEF PlacesIn
  <2>3. Len(buffer') = Len(buffer) + n
    <3>1. wire \in Seq(Bytes) /\ n \in 0..Len(wire) /\ Len(wire) \in Nat /\ buffer \in Seq(Bytes)
      BY <1>3, <1>1, LenProperties DEF Recv, TypeOK
    <3>2. SubSeq(wire, 1, n) \in Seq(Bytes) /\ Len(SubSeq(wire, 1, n)) = n
      BY <3>1, PartOfBytes
    <3> QED
      BY <1>3, <3>1, <3>2, ConcatProperties DEF Recv
  <2>4. Len(buffer) <= MaxMessage + Headroom
    BY <1>2, <2>1, FS_EmptySet DEF PlacesIn
  <2>5. Len(buffer') + Cardinality(PlacesIn(frames')) <= MaxMessage + Headroom + RecvSize
    BY <1>2, <2>2, <2>3, <2>4, FramingAssumption
  <2> QED
    BY <1>1, <2>1, <2>2, <2>5 DEF MemoryInv, HoldsLittle, Held
<1>4. CASE TakeOctetFrame
  <2> DEFINE last == SpaceAt(buffer) + CountOf(buffer)
             frame == SubSeq(buffer, SpaceAt(buffer) + 1, last)
  <2>1. SpaceAt(buffer) \in 2..Len(buffer) /\ CountOf(buffer) \in 1..MaxMessage
    BY <1>4, <1>1, PlacesInBuffer, CountIsPlaced DEF TakeOctetFrame, MayBeOctet, CountOK
  <2>2. last \in 1..Len(buffer)
    <3>1. Len(buffer) - SpaceAt(buffer) >= CountOf(buffer)
      BY <1>4 DEF TakeOctetFrame, OctetComplete
    <3> QED
      BY <2>1, <1>2, <3>1
  <2>3. frame \in Seq(Bytes) /\ Len(frame) = CountOf(buffer)
    <3>1. MaxMessage \in Nat
      BY FramingAssumption
    <3>2. \A i, n \in Nat : i + n - (i + 1) + 1 = n /\ i + 1 \in Nat \ {0}
      OBVIOUS
    <3>3. SpaceAt(buffer) \in Nat /\ CountOf(buffer) \in Nat /\ CountOf(buffer) >= 1
      BY <1>2, <2>1, <3>1
    <3>4. SpaceAt(buffer) + 1 <= last
      BY <3>3
    <3>5. last - (SpaceAt(buffer) + 1) + 1 = CountOf(buffer)
      BY <3>2, <3>3
    <3>6. SpaceAt(buffer) + 1 \in Nat \ {0}
      BY <3>2, <3>3
    <3>7. buffer \in Seq(Bytes) /\ last \in 0..Len(buffer)
      BY <1>1, <1>2, <2>2 DEF TypeOK
    <3> HIDE DEF last
    <3>8. /\ SubSeq(buffer, SpaceAt(buffer) + 1, last) \in Seq(Bytes)
          /\ Len(SubSeq(buffer, SpaceAt(buffer) + 1, last)) = last - (SpaceAt(buffer) + 1) + 1
      BY <3>4, <3>6, <3>7, PartOfBytes
    <3> QED
      BY <3>5, <3>8 DEF last
  <2>7. Len(Without(last)) = Len(buffer) - last
    BY <1>1, <2>2, RestOfBytes DEF TypeOK, Without
  <2>4. buffer' = Without(last) /\ frames' = Append(frames, frame) /\ pc' = "extract"
    BY <1>4 DEF TakeOctetFrame
  <2> HIDE DEF last, frame
  <2>5. /\ IsFiniteSet(PlacesIn(frames'))
        /\ Cardinality(PlacesIn(frames')) = Cardinality(PlacesIn(frames)) + Len(frame)
    BY <1>1, <2>3, <2>4, PlacesWithOneMore DEF MemoryInv, TypeOK
  <2>8. pc = "extract" /\ SpaceAt(buffer) \in Nat /\ CountOf(buffer) \in Nat /\ last \in Nat
    BY <1>4, <1>2, <2>1, <2>2 DEF TakeOctetFrame
  <2>9. last = SpaceAt(buffer) + CountOf(buffer) /\ SpaceAt(buffer) >= 1
    BY <2>1 DEF last
  <2>10. Len(buffer') \in Nat /\ Cardinality(PlacesIn(frames')) \in Nat
    BY <1>2, <2>2, <2>4, <2>5, <2>7, FS_CardinalityType
  <2>6. Len(buffer') + Cardinality(PlacesIn(frames')) <= MaxMessage + Headroom
    BY <1>2, <2>3, <2>4, <2>5, <2>7, <2>8, <2>9
  <2>11. Len(buffer') + Cardinality(PlacesIn(frames')) <= MaxMessage + Headroom + RecvSize
    BY <2>6, <2>10, WithinEither
  <2> QED
    BY <1>1, <2>4, <2>5, <2>6, <2>11 DEF MemoryInv, HoldsLittle, Held
<1>5. CASE TakeLine
  <2> DEFINE last == LineEndAt(buffer)
             frame == TrimCR(SubSeq(buffer, 1, last - 1))
  <2>1. last \in 1..Len(buffer)
    BY <1>5, <1>1, PlacesInBuffer DEF TakeLine, LineReady
  <2>2. SubSeq(buffer, 1, last - 1) \in Seq(Bytes) /\ Len(SubSeq(buffer, 1, last - 1)) = last - 1
    BY <1>1, <2>1, <1>2, PartOfBytes DEF TypeOK
  <2>3. frame \in Seq(Bytes) /\ Len(frame) \in Nat /\ Len(frame) <= last - 1
    BY <2>2, TrimmedIsBytes, LenProperties
  <2>4. Len(Without(last)) = Len(buffer) - last
    BY <1>1, <2>1, RestOfBytes DEF TypeOK, Without
  <2>5. buffer' = Without(last) /\ frames' = Append(frames, frame) /\ pc' = "extract"
    BY <1>5 DEF TakeLine
  <2> HIDE DEF last, frame
  <2>6. /\ IsFiniteSet(PlacesIn(frames'))
        /\ Cardinality(PlacesIn(frames')) = Cardinality(PlacesIn(frames)) + Len(frame)
    BY <1>1, <2>3, <2>5, PlacesWithOneMore DEF MemoryInv, TypeOK
  <2>7. Len(buffer') + Cardinality(PlacesIn(frames')) <= MaxMessage + Headroom
    BY <1>2, <1>5, <2>1, <2>3, <2>4, <2>5, <2>6 DEF TakeLine
  <2>8. Len(buffer') \in Nat /\ Cardinality(PlacesIn(frames')) \in Nat
    BY <1>2, <2>1, <2>4, <2>5, <2>6, FS_CardinalityType
  <2>9. Len(buffer') + Cardinality(PlacesIn(frames')) <= MaxMessage + Headroom + RecvSize
    BY <2>7, <2>8, WithinEither
  <2> QED
    BY <1>1, <2>5, <2>6, <2>7, <2>9 DEF MemoryInv, HoldsLittle, Held
<1>6. CASE EmitFrame \/ EmitTooLong
  <2>1. /\ frames # <<>> /\ frames' = Tail(frames)
        /\ buffer' = buffer /\ pc = "emit" /\ pc' = "emit"
    BY <1>6 DEF EmitFrame, EmitTooLong
  <2>2. /\ IsFiniteSet(PlacesIn(frames'))
        /\ Cardinality(PlacesIn(frames')) <= Cardinality(PlacesIn(frames))
    BY <1>1, <2>1, PlacesWithOneLess DEF MemoryInv, TypeOK
  <2>3. Cardinality(PlacesIn(frames')) \in Nat
    BY <2>2, FS_CardinalityType
  <2>4. Len(buffer') + Cardinality(PlacesIn(frames')) <= MaxMessage + Headroom
    BY <1>2, <2>1, <2>2, <2>3
  <2>5. Len(buffer') + Cardinality(PlacesIn(frames')) <= MaxMessage + Headroom + RecvSize
    BY <1>2, <2>1, <2>3, <2>4, WithinEither
  <2> QED
    BY <1>1, <2>1, <2>2, <2>4, <2>5 DEF MemoryInv, HoldsLittle, Held
<1>7. CASE LoopEnds \/ RecvEnd \/ RecvFails \/ FrameErrorEnds \/ EmitOverflows
  BY <1>1, <1>7, EndFreesMemory DEF LoopEnds, RecvEnd, RecvFails, FrameErrorEnds, EmitOverflows
<1>8. CASE FeedPasses
  <2>1. /\ buffer' = buffer /\ frames' = frames /\ frames = <<>> /\ pc' = "extract"
        /\ Len(buffer) <= MaxMessage + Headroom
    BY <1>8 DEF FeedPasses, WithinGuard, framer, MemoryInv
  <2>2. Cardinality(PlacesIn(frames)) = 0
    BY <2>1, FS_EmptySet DEF PlacesIn
  <2> QED
    BY <1>1, <1>2, <2>1, <2>2 DEF MemoryInv, HoldsLittle, Held
<1>9. CASE \/ LoopTop \/ RecvTimesOut \/ FeedRefuses \/ RefuseCount \/ NoMoreFrames \/ EmitDone
           \/ PeerCloses \/ CollectorStops \/ UNCHANGED vars
           \/ \E m \in Messages : PeerSends(m)
  <2>1. buffer' = buffer /\ frames' = frames
    BY <1>9 DEF LoopTop, RecvTimesOut, FeedRefuses, RefuseCount, NoMoreFrames, EmitDone,
                PeerCloses, CollectorStops, PeerSends, vars, framer
  <2>2. /\ pc' \in {"loop", "recv", "feed"} => pc \in {"loop", "recv", "feed"} \/ frames = <<>>
        /\ pc' \notin {"feed", "failed"} => pc \notin {"feed", "failed"}
    BY <1>9 DEF LoopTop, RecvTimesOut, FeedRefuses, RefuseCount, NoMoreFrames, EmitDone,
                PeerCloses, CollectorStops, PeerSends, vars
  <2> QED
    BY <1>1, <2>1, <2>2 DEF MemoryInv, HoldsLittle, Held
<1> QED
  BY <1>3, <1>4, <1>5, <1>6, <1>7, <1>8, <1>9 DEF Next, Loop, Receive, Feed, Extract, Emit

\* The invariant of the memory.
LEMMA MemoryHolds == Spec => []MemoryInv
BY MemoryAtStart, MemoryKept, PTL DEF Spec

\* What a connection makes the process hold is within the guard once feed() tested it, and
\* within one recv() of it at any time, whatever the peer sends and however it arrives
\* (TcpFramer.feed extends its buffer first; _handle emits all frames of a chunk before the
\* next recv).
THEOREM MemoryBounded == Spec => []HoldsLittle
<1>1. MemoryInv => HoldsLittle
  BY DEF MemoryInv
<1> QED
  BY <1>1, MemoryHolds, PTL

-----------------------------------------------------------------------------
(* The invariant behind the order of the messages. *)

StandsAt(w, place, bytes) == \A i \in 1..Len(w) : bytes[place + i] = w[i]

\* at[k] is where the k-th message of the list, wrapped, ends in the bytes; the first n
\* messages are not in them.
Marks(at, bytes, n, list, by) ==
    /\ at \in [n..Len(list) -> 0..Len(bytes)]
    /\ at[n] = 0
    /\ at[Len(list)] = Len(bytes)
    /\ \A j, k \in n..Len(list) : j <= k => at[j] <= at[k]
    /\ \A k \in n..Len(list) - 1 :
          \E w \in Wrappings(by, list[k + 1]) :
              at[k + 1] = at[k] + Len(w) /\ StandsAt(w, at[k], bytes)

\* The bytes are the messages of the list after the first n, one after the other.
Carries(bytes, n, list, by) ==
    n \in 0..Len(list) /\ \E at : Marks(at, bytes, n, list, by)

InFlight == buffer \o wire
Out == Len(emitted) + metrics["decode_error"]
Cut == Out + Len(frames)

\* _extract() has cut all it can.
NothingToCut == (MayBeOctet => CountOK /\ ~OctetComplete) /\ ~LineReady

\* Every message so far is one the peer may send, and the first shows the peer's style.
PeerConforms ==
    /\ \A k \in 1..Len(sent) : Sendable(peer, sent[k])
    /\ sent # <<>> => Telltale(peer, sent[1])

\* Where the buffer may begin with a frame that is not cut yet.
Feeding == {"feed", "failed", "extract"}

\* What was cut are the first messages of the peer, and what is in flight are the others.
CutRight ==
    pc # "closed" =>
        /\ Carries(InFlight, Cut, sent, peer)
        /\ \A i \in 1..Len(frames) : frames[i] = sent[Out + i]
        /\ style \in {"unknown", peer}
        /\ style = "unknown" => Cut = 0
        /\ pc \notin Feeding => NothingToCut

CuttingInv ==
    /\ MemoryInv
    /\ PeerConforms
    /\ CutRight
    /\ pc = "closed" /\ ending = "eof" => Out = Len(sent)

\* Each frame that fits is counted as received, whether it was queued or the queue was
\* full, and the two endings that are errors are counted once.
Accounted ==
    /\ metrics["received"] = Len(emitted) + metrics["overflow"]
    /\ metrics["frame_error"] = IF ending = "error" THEN 1 ELSE 0
    /\ metrics["overflow"] = IF ending = "overflow" THEN 1 ELSE 0
    /\ pc = "closed" <=> ending # "none"

-----------------------------------------------------------------------------
(* What is in flight, as messages are sent, received and cut. *)

\* Concatenation, place by place.
LEMMA JoinedBytes ==
    ASSUME NEW s \in Seq(Bytes), NEW t \in Seq(Bytes)
    PROVE  /\ s \o t \in Seq(Bytes)
           /\ Len(s) \in Nat /\ Len(t) \in Nat
           /\ Len(s \o t) = Len(s) + Len(t)
           /\ \A i \in 1..Len(s) : (s \o t)[i] = s[i]
           /\ \A i \in 1..Len(t) : (s \o t)[Len(s) + i] = t[i]
<1>1. Len(s) \in Nat /\ Len(t) \in Nat
  BY LenProperties
<1>2. /\ s \o t \in Seq(Bytes)
      /\ Len(s \o t) = Len(s) + Len(t)
      /\ \A i \in 1..Len(s) + Len(t) :
            (s \o t)[i] = IF i <= Len(s) THEN s[i] ELSE t[i - Len(s)]
  BY ConcatProperties
<1>3. ASSUME NEW i \in 1..Len(s) PROVE (s \o t)[i] = s[i]
  BY <1>1, <1>2
<1>4. ASSUME NEW i \in 1..Len(t) PROVE (s \o t)[Len(s) + i] = t[i]
  <2>1. Len(s) + i \in 1..Len(s) + Len(t) /\ ~(Len(s) + i <= Len(s)) /\ (Len(s) + i) - Len(s) = i
    BY <1>1
  <2> QED
    BY <1>2, <2>1
<1> QED
  BY <1>1, <1>2, <1>3, <1>4

\* No bytes carry no message.
LEMMA NothingCarried ==
    ASSUME NEW by
    PROVE  Carries(<<>>, 0, <<>>, by)
<1> DEFINE at == [k \in 0..0 |-> 0]
<1>1. at \in [0..Len(<<>>) -> 0..Len(<<>>)] /\ at[0] = 0 /\ Len(<<>>) = 0
  OBVIOUS
<1>2. \A j, k \in 0..Len(<<>>) : at[j] <= at[k]
  BY <1>1
<1>3. 0..Len(<<>>) - 1 = {}
  BY <1>1
<1> HIDE DEF at
<1>4. Marks(at, <<>>, 0, <<>>, by)
  BY <1>1, <1>2, <1>3 DEF Marks
<1> QED
  BY <1>1, <1>4 DEF Carries

\* What the peer writes is behind what is in flight.
LEMMA OneMoreSent ==
    ASSUME NEW bytes \in Seq(Bytes), NEW n, NEW list \in Seq(Messages), NEW by,
           Carries(bytes, n, list, by),
           NEW m \in Messages, NEW w \in Wrappings(by, m)
    PROVE  Carries(bytes \o w, n, Append(list, m), by)
<1> DEFINE len == Len(list)
           longer == Append(list, m)
           end == Len(bytes) + Len(w)
<1>1. /\ w \in Seq(Bytes)
      /\ Len(bytes) \in Nat /\ Len(w) \in Nat /\ len \in Nat /\ n \in 0..len
      /\ Len(bytes \o w) = end
      /\ \A i \in 1..Len(bytes) : (bytes \o w)[i] = bytes[i]
      /\ StandsAt(w, Len(bytes), bytes \o w)
  BY WrappingsAreBytes, JoinedBytes, LenProperties DEF Carries, StandsAt
<1>2. PICK at : Marks(at, bytes, n, list, by)
  BY DEF Carries
<1>3. /\ Len(longer) = len + 1
      /\ \A k \in 1..len : longer[k] = list[k]
      /\ longer[len + 1] = m
  BY AppendProperties
<1>4. end \in Nat /\ Len(bytes) <= end
  BY <1>1
<1> HIDE DEF len, longer, end
<1> DEFINE upto == [k \in n..len + 1 |-> IF k = len + 1 THEN end ELSE at[k]]
<1>5. \A k \in n..len + 1 : k = len + 1 \/ k \in n..len
  BY <1>1
<1>6. /\ upto[len + 1] = end
      /\ \A k \in n..len : k \in n..len + 1 /\ upto[k] = at[k]
  BY <1>1
<1>7. /\ at \in [n..len -> 0..Len(bytes)]
      /\ at[n] = 0 /\ at[len] = Len(bytes)
      /\ \A j, k \in n..len : j <= k => at[j] <= at[k]
      /\ \A k \in n..len - 1 :
            \E v \in Wrappings(by, list[k + 1]) :
                at[k + 1] = at[k] + Len(v) /\ StandsAt(v, at[k], bytes)
  BY <1>2 DEF Marks, len
<1>8. \A k \in n..len : at[k] \in 0..Len(bytes) /\ at[k] \in 0..end /\ at[k] <= end
  BY <1>1, <1>4, <1>7
<1>9. upto \in [n..len + 1 -> 0..end]
  <2>1. ASSUME NEW k \in n..len + 1 PROVE (IF k = len + 1 THEN end ELSE at[k]) \in 0..end
    BY <1>4, <1>5, <1>8
  <2> QED
    BY <2>1
<1> HIDE DEF upto
<1>10. upto[n] = 0
  BY <1>1, <1>6, <1>7
<1>11. ASSUME NEW j \in n..len + 1, NEW k \in n..len + 1, j <= k PROVE upto[j] <= upto[k]
  <2>1. CASE k = len + 1
    BY <1>4, <1>5, <1>6, <1>8, <2>1
  <2>2. CASE k # len + 1
    <3>1. j \in n..len /\ k \in n..len
      BY <1>1, <1>5, <1>11, <2>2
    <3> QED
      BY <1>6, <1>7, <1>11, <3>1
  <2> QED
    BY <2>1, <2>2
<1>12. ASSUME NEW k \in n..len
       PROVE  \E v \in Wrappings(by, longer[k + 1]) :
                  upto[k + 1] = upto[k] + Len(v) /\ StandsAt(v, upto[k], bytes \o w)
  <2>1. CASE k = len
    <3>1. upto[k] = Len(bytes) /\ upto[k + 1] = Len(bytes) + Len(w) /\ longer[k + 1] = m
      BY <1>3, <1>6, <1>7, <2>1 DEF end
    <3> QED
      BY <1>1, <3>1
  <2>2. CASE k # len
    <3>1. /\ k \in n..len - 1 /\ k + 1 \in n..len /\ k + 1 \in 1..len
      BY <1>1, <2>2
    <3>2. PICK v \in Wrappings(by, list[k + 1]) :
            at[k + 1] = at[k] + Len(v) /\ StandsAt(v, at[k], bytes)
      BY <1>7, <3>1
    <3>3. v \in Seq(Bytes) /\ Len(v) \in Nat
      BY <3>1, <3>2, WrappingsAreBytes, ElementOfSeq, LenProperties DEF len
    <3>4. \A i \in 1..Len(v) : at[k] + i \in 1..Len(bytes)
      BY <1>1, <1>8, <3>1, <3>2, <3>3, SMTT(20)
    <3>5. StandsAt(v, at[k], bytes \o w)
      BY <1>1, <3>2, <3>4 DEF StandsAt
    <3> QED
      BY <1>3, <1>6, <3>1, <3>2, <3>5
  <2> QED
    BY <2>1, <2>2
<1>13. (len + 1) - 1 = len /\ n \in 0..len + 1
  BY <1>1
<1>14. Marks(upto, bytes \o w, n, longer, by)
  BY <1>1, <1>3, <1>6, <1>9, <1>10, <1>11, <1>12, <1>13 DEF Marks
<1> QED
  BY <1>3, <1>13, <1>14 DEF Carries, longer

\* What begins the bytes is the next message, wrapped; the others are behind it.
LEMMA NextCarried ==
    ASSUME NEW bytes \in Seq(Bytes), NEW n, NEW list \in Seq(Messages), NEW by,
           Carries(bytes, n, list, by), n # Len(list)
    PROVE  /\ n + 1 \in 1..Len(list)
           /\ \E w \in Wrappings(by, list[n + 1]) :
                 /\ w \in Seq(Bytes)
                 /\ Len(w) \in 0..Len(bytes)
                 /\ StandsAt(w, 0, bytes)
                 /\ Carries(SubSeq(bytes, Len(w) + 1, Len(bytes)), n + 1, list, by)
<1> DEFINE len == Len(list)
<1>1. Len(bytes) \in Nat /\ len \in Nat /\ n \in 0..len - 1
  BY LenProperties DEF Carries
<1>2. n \in n..len - 1 /\ n \in n..len /\ n + 1 \in n..len /\ n + 1 \in 1..len
  BY <1>1
<1>3. PICK at : Marks(at, bytes, n, list, by)
  BY DEF Carries
<1>4. /\ at \in [n..len -> 0..Len(bytes)]
      /\ at[n] = 0 /\ at[len] = Len(bytes)
      /\ \A j, k \in n..len : j <= k => at[j] <= at[k]
      /\ \A k \in n..len - 1 :
            \E v \in Wrappings(by, list[k + 1]) :
                at[k + 1] = at[k] + Len(v) /\ StandsAt(v, at[k], bytes)
  BY <1>3 DEF Marks
<1> HIDE DEF len
<1>5. PICK w \in Wrappings(by, list[n + 1]) :
        at[n + 1] = at[n] + Len(w) /\ StandsAt(w, at[n], bytes)
  BY <1>2, <1>4
<1>6. w \in Seq(Bytes) /\ Len(w) \in Nat
  BY <1>2, <1>5, WrappingsAreBytes, ElementOfSeq, LenProperties DEF len
<1>7. at[n + 1] = Len(w) /\ Len(w) \in 0..Len(bytes) /\ StandsAt(w, 0, bytes)
  BY <1>2, <1>4, <1>5, <1>6
<1> DEFINE rest == SubSeq(bytes, Len(w) + 1, Len(bytes))
           size == Len(bytes) - Len(w)
<1>8. /\ Len(rest) = size
      /\ \A i \in 1..size : rest[i] = bytes[Len(w) + i]
      /\ size \in Nat
  BY <1>1, <1>7, RestOfBytes
<1> HIDE DEF rest
<1> DEFINE left == [k \in n + 1..len |-> at[k] - Len(w)]
<1>9. \A k \in n + 1..len : k \in n..len /\ left[k] = at[k] - Len(w)
  BY <1>1
<1>10. \A k \in n..len : at[k] \in 0..Len(bytes)
  BY <1>4
<1>11. \A k \in n + 1..len : at[k] >= Len(w)
  <2> TAKE k \in n + 1..len
  <2>1. n + 1 <= k /\ k \in n..len
    BY <1>1
  <2>2. at[n + 1] <= at[k]
    BY <1>2, <1>4, <2>1
  <2> QED
    BY <1>7, <1>10, <2>1, <2>2
<1>12. left \in [n + 1..len -> 0..size]
  <2>1. \A k \in n + 1..len : at[k] - Len(w) \in 0..size
    BY <1>1, <1>6, <1>9, <1>10, <1>11
  <2> HIDE DEF size
  <2> QED
    BY <2>1
<1> HIDE DEF left
<1>13. left[n + 1] = 0 /\ left[len] = size
  <2>1. n + 1 \in n + 1..len /\ len \in n + 1..len
    BY <1>1
  <2> QED
    BY <1>4, <1>6, <1>7, <1>9, <2>1
<1>14. \A j, k \in n + 1..len : j <= k => left[j] <= left[k]
  <2> SUFFICES ASSUME NEW j \in n + 1..len, NEW k \in n + 1..len, j <= k PROVE left[j] <= left[k]
    OBVIOUS
  <2>1. at[j] <= at[k] /\ at[j] \in 0..Len(bytes) /\ at[k] \in 0..Len(bytes)
    BY <1>4, <1>9, <1>10
  <2> QED
    BY <1>6, <1>9, <2>1
<1>15. ASSUME NEW k \in n + 1..len - 1
       PROVE  \E v \in Wrappings(by, list[k + 1]) :
                  left[k + 1] = left[k] + Len(v) /\ StandsAt(v, left[k], rest)
  <2>1. k \in n..len - 1 /\ k \in n + 1..len /\ k + 1 \in n + 1..len /\ k + 1 \in 1..len
    BY <1>1
  <2>2. PICK v \in Wrappings(by, list[k + 1]) :
          at[k + 1] = at[k] + Len(v) /\ StandsAt(v, at[k], bytes)
    BY <1>4, <2>1
  <2>3. v \in Seq(Bytes) /\ Len(v) \in Nat
    BY <2>1, <2>2, WrappingsAreBytes, ElementOfSeq, LenProperties DEF len
  <2>4. /\ left[k] = at[k] - Len(w) /\ left[k + 1] = at[k + 1] - Len(w)
        /\ at[k] \in 0..Len(bytes) /\ at[k + 1] \in 0..Len(bytes)
        /\ left[k] \in 0..size /\ left[k + 1] \in 0..size
    BY <1>9, <1>10, <1>12, <2>1
  <2>5. left[k + 1] = left[k] + Len(v)
    BY <1>6, <2>2, <2>3, <2>4
  <2>6. ASSUME NEW i \in 1..Len(v) PROVE rest[left[k] + i] = v[i]
    <3>1. left[k] + i \in 1..size
      <4> HIDE DEF size
      <4>1. left[k] \in Nat /\ i \in Nat /\ i >= 1 /\ i <= Len(v) /\ left[k + 1] <= size
        BY <1>8, <2>3, <2>4
      <4>2. left[k] + i >= 1 /\ left[k] + i <= left[k + 1]
        BY <4>1, <2>3, <2>5
      <4>3. size \in Nat /\ left[k + 1] \in Nat
        BY <1>8, <2>4
      <4> QED
        BY <4>1, <4>2, <4>3
    <3>2. Len(w) + (left[k] + i) = at[k] + i
      BY <1>6, <2>4
    <3>3. rest[left[k] + i] = bytes[Len(w) + (left[k] + i)]
      BY <1>8, <3>1
    <3> QED
      BY <2>2, <3>2, <3>3 DEF StandsAt
  <2> QED
    BY <2>2, <2>5, <2>6 DEF StandsAt
<1>16. Marks(left, rest, n + 1, list, by)
  BY <1>8, <1>12, <1>13, <1>14, <1>15 DEF Marks, len
<1>17. Carries(rest, n + 1, list, by)
  BY <1>1, <1>2, <1>16 DEF Carries, len
<1> QED
  BY <1>2, <1>5, <1>6, <1>7, <1>17 DEF rest, len

\* When every message is cut nothing is in flight.
LEMMA AllCut ==
    ASSUME NEW bytes \in Seq(Bytes), NEW n, NEW list, NEW by,
           Carries(bytes, n, list, by), n = Len(list)
    PROVE  bytes = <<>>
<1>1. Len(bytes) = 0
  BY DEF Carries, Marks
<1> QED
  BY <1>1, EmptySeq

-----------------------------------------------------------------------------
(* What the framer reads at the front of its buffer. *)

\* As far as the buffer and the wrapped message both go, they are the same.
Agrees(s, w) == \A i \in 1..Len(s) : i <= Len(w) => s[i] = w[i]

\* An octet count is a few digits.
LEMMA CountsAreDigits ==
    ASSUME NEW c \in Counts
    PROVE  /\ c \in Seq(Bytes)
           /\ Len(c) \in 1..MaxPrefix
           /\ \A i \in 1..Len(c) : c[i] \in Digits
<1>1. PICK k \in 1..MaxPrefix : c \in [1..k -> Digits]
  BY DEF Counts
<1>2. k \in Nat /\ Digits \subseteq Bytes
  BY FramingAssumption DEF Digits, Bytes
<1>3. c \in [1..k -> Bytes]
  BY <1>1, <1>2
<1>4. c \in Seq(Bytes) /\ Len(c) = k
  BY <1>2, <1>3
<1> QED
  BY <1>1, <1>4

\* The layout of a message with its octet count.
LEMMA OctetLayout ==
    ASSUME NEW m \in Seq(Bytes), NEW w \in Wrappings("octet", m)
    PROVE  \E c \in Counts :
              /\ Value(c) = Len(m)
              /\ Len(c) \in 1..MaxPrefix
              /\ Len(w) = Len(c) + 1 + Len(m)
              /\ w \in Seq(Bytes)
              /\ \A i \in 1..Len(c) : w[i] = c[i] /\ w[i] \in Digits
              /\ w[Len(c) + 1] = SP
              /\ \A i \in 1..Len(m) : w[Len(c) + 1 + i] = m[i]
<1>1. PICK c \in Counts : Value(c) = Len(m) /\ w = c \o <<SP>> \o m
  BY DEF Wrappings
<1>2. /\ c \in Seq(Bytes) /\ Len(c) \in 1..MaxPrefix
      /\ \A i \in 1..Len(c) : c[i] \in Digits
  BY CountsAreDigits
<1>3. <<SP>> \in Seq(Bytes) /\ Len(<<SP>>) = 1 /\ <<SP>>[1] = SP
  BY DEF SP, Bytes
<1> DEFINE head == c \o <<SP>>
<1>4. /\ head \in Seq(Bytes) /\ Len(c) \in Nat
      /\ Len(head) = Len(c) + 1
      /\ \A i \in 1..Len(c) : head[i] = c[i]
      /\ head[Len(c) + 1] = SP
  <2>1. /\ head \in Seq(Bytes) /\ Len(c) \in Nat
        /\ Len(head) = Len(c) + Len(<<SP>>)
        /\ \A i \in 1..Len(c) : head[i] = c[i]
        /\ \A i \in 1..Len(<<SP>>) : head[Len(c) + i] = <<SP>>[i]
    BY <1>2, <1>3, JoinedBytes
  <2>2. 1 \in 1..Len(<<SP>>)
    BY <1>3
  <2> HIDE DEF head
  <2> QED
    BY <1>3, <2>1, <2>2
<1>5. /\ w \in Seq(Bytes) /\ Len(m) \in Nat
      /\ Len(w) = Len(head) + Len(m)
      /\ \A i \in 1..Len(head) : w[i] = head[i]
      /\ \A i \in 1..Len(m) : w[Len(head) + i] = m[i]
  <2>1. w = head \o m
    BY <1>1
  <2> HIDE DEF head
  <2> QED
    BY <1>4, <2>1, JoinedBytes
<1> HIDE DEF head
<1>6. \A i \in 1..Len(c) : i \in 1..Len(head) /\ w[i] = c[i]
  BY <1>4, <1>5
<1>7. w[Len(c) + 1] = SP
  <2>1. Len(c) + 1 \in 1..Len(head)
    BY <1>4
  <2> QED
    BY <1>4, <1>5, <2>1
<1> QED
  BY <1>1, <1>2, <1>4, <1>5, <1>6, <1>7

\* The framer finds the count of the message at the front, once all of it has arrived
\* with the space behind it.
LEMMA OctetCountRead ==
    ASSUME NEW m \in Seq(Bytes), NEW w \in Wrappings("octet", m),
           NEW s \in Seq(Bytes), Agrees(s, w)
    PROVE  \E n \in 1..MaxPrefix :
              /\ Len(w) = n + 1 + Len(m) /\ Len(w) > n
              /\ \A i \in 1..Len(m) : w[n + 1 + i] = m[i]
              /\ \A i \in 1..n : w[i] \in Digits
              /\ w[n + 1] = SP
              /\ HasCount(s) <=> Len(s) > n
              /\ Len(s) > n => SpaceAt(s) = n + 1 /\ CountOf(s) = Len(m)
<1>1. PICK c \in Counts :
        /\ Value(c) = Len(m)
        /\ Len(c) \in 1..MaxPrefix
        /\ Len(w) = Len(c) + 1 + Len(m)
        /\ w \in Seq(Bytes)
        /\ \A i \in 1..Len(c) : w[i] = c[i] /\ w[i] \in Digits
        /\ w[Len(c) + 1] = SP
        /\ \A i \in 1..Len(m) : w[Len(c) + 1 + i] = m[i]
  BY OctetLayout
<1>2. Len(m) \in Nat /\ Len(s) \in Nat /\ Len(c) \in Nat /\ MaxPrefix \in Nat
  BY <1>1, LenProperties, FramingAssumption
<1> DEFINE n == Len(c)
           place == SpaceAt(s)
<1>3. /\ place \in 0..Len(s)
      /\ place = 0 => \A i \in 1..Len(s) : s[i] # SP
      /\ place # 0 => s[place] = SP /\ \A i \in 1..place - 1 : s[i] # SP
  BY FirstPlace DEF SpaceAt
<1>4. \A i \in 1..Len(s) : i <= n => s[i] = c[i] /\ s[i] \in Digits /\ s[i] # SP
  <2> TAKE i \in 1..Len(s)
  <2> HAVE i <= n
  <2>1. i \in 1..n /\ i <= Len(w)
    BY <1>1, <1>2
  <2>2. s[i] = w[i]
    BY <2>1 DEF Agrees
  <2> QED
    BY <1>1, <2>1, <2>2 DEF Digits, SP
<1>5. ASSUME Len(s) > n
      PROVE  place = n + 1 /\ HasCount(s) /\ CountOf(s) = Len(m)
  <2>1. n + 1 \in 1..Len(s) /\ n + 1 <= Len(w)
    BY <1>1, <1>2, <1>5
  <2>2. s[n + 1] = SP
    BY <1>1, <2>1 DEF Agrees
  <2>3. place # 0 /\ ~(n + 1 < place)
    <3>1. place # 0
      BY <1>3, <2>1, <2>2
    <3>2. n + 1 < place => n + 1 \in 1..place - 1
      BY <1>2, <1>3, <2>1
    <3> QED
      BY <1>3, <2>2, <3>1, <3>2
  <2>4. ~(place <= n)
    BY <1>3, <1>4, <2>3
  <2>5. place = n + 1
    BY <1>2, <1>3, <2>3, <2>4
  <2>6. HasCount(s)
    <3>1. place - 1 = n /\ \A i \in 1..n : i \in 1..Len(s) /\ i <= n
      BY <1>2, <2>1, <2>5
    <3>2. \A i \in 1..n : s[i] \in Digits
      BY <1>4, <3>1
    <3> QED
      BY <1>1, <3>1, <3>2 DEF HasCount
  <2>7. SubSeq(s, 1, n) = c
    <3>1. /\ SubSeq(s, 1, n) \in Seq(Bytes)
          /\ Len(SubSeq(s, 1, n)) = IF 1 <= n THEN n - 1 + 1 ELSE 0
          /\ \A i \in 1..n - 1 + 1 : SubSeq(s, 1, n)[i] = s[1 + i - 1]
      <4>1. n \in 0..Len(s) /\ 1 \in Nat \ {0}
        BY <1>2, <1>5
      <4> QED
        BY <4>1, PartOfBytes
    <3>2. Len(SubSeq(s, 1, n)) = n
      BY <1>1, <3>1
    <3>3. ASSUME NEW i \in 1..n PROVE SubSeq(s, 1, n)[i] = c[i]
      <4>1. i \in 1..n - 1 + 1 /\ 1 + i - 1 = i /\ i \in 1..Len(s) /\ i <= n
        BY <1>2, <1>5
      <4> QED
        BY <1>4, <3>1, <4>1
    <3> QED
      BY <3>1, <3>2, <3>3, CountsAreDigits, SeqEqual
  <2>8. CountOf(s) = Len(m)
    <3>1. SpaceAt(s) - 1 = n
      BY <1>2, <2>5
    <3> QED
      BY <1>1, <2>7, <3>1 DEF CountOf
  <2> QED
    BY <2>5, <2>6, <2>8
<1>6. ASSUME HasCount(s) PROVE Len(s) > n
  <2>1. place - 1 \in 1..MaxPrefix
    BY <1>6 DEF HasCount
  <2>2. place # 0 /\ place \in 1..Len(s)
    BY <1>3, <2>1
  <2>3. ~(place <= n)
    BY <1>3, <1>4, <2>2
  <2> QED
    BY <1>2, <2>2, <2>3
<1>7. Len(w) > n
  BY <1>1, <1>2
<1> QED
  BY <1>1, <1>5, <1>6, <1>7

\* The frame that is cut is the message.
LEMMA OctetFrameIsMessage ==
    ASSUME NEW m \in Seq(Bytes), NEW w \in Wrappings("octet", m),
           NEW s \in Seq(Bytes), Agrees(s, w), HasCount(s)
    PROVE  /\ CountOf(s) = Len(m)
           /\ SpaceAt(s) + CountOf(s) = Len(w)
           /\ Len(s) - SpaceAt(s) >= CountOf(s) <=> Len(s) >= Len(w)
           /\ Len(s) >= Len(w) =>
                 SubSeq(s, SpaceAt(s) + 1, SpaceAt(s) + CountOf(s)) = m
<1>1. PICK n \in 1..MaxPrefix :
        /\ Len(w) = n + 1 + Len(m)
        /\ \A i \in 1..Len(m) : w[n + 1 + i] = m[i]
        /\ HasCount(s) <=> Len(s) > n
        /\ Len(s) > n => SpaceAt(s) = n + 1 /\ CountOf(s) = Len(m)
  BY OctetCountRead
<1>2. Len(m) \in Nat /\ Len(s) \in Nat /\ n \in Nat /\ SpaceAt(s) = n + 1 /\ CountOf(s) = Len(m)
  BY <1>1, LenProperties, FramingAssumption
<1>3. SpaceAt(s) + CountOf(s) = Len(w)
  BY <1>1, <1>2
<1>4. Len(s) - SpaceAt(s) >= CountOf(s) <=> Len(s) >= Len(w)
  BY <1>1, <1>2
<1>5. ASSUME Len(s) >= Len(w)
      PROVE  SubSeq(s, SpaceAt(s) + 1, SpaceAt(s) + CountOf(s)) = m
  <2> DEFINE from == n + 2
             frame == SubSeq(s, from, Len(w))
  <2>1. from \in Nat \ {0} /\ Len(w) \in 0..Len(s) /\ SpaceAt(s) + 1 = from
    BY <1>1, <1>2, <1>5
  <2>2. /\ frame \in Seq(Bytes)
        /\ Len(frame) = IF from <= Len(w) THEN Len(w) - from + 1 ELSE 0
        /\ \A k \in 1..Len(w) - from + 1 : frame[k] = s[from + k - 1]
    BY <2>1, PartOfBytes
  <2> HIDE DEF frame
  <2>3. Len(w) - from + 1 = Len(m)
    BY <1>1, <1>2
  <2>4. Len(frame) = Len(m)
    BY <1>1, <1>2, <2>2, <2>3
  <2>5. ASSUME NEW i \in 1..Len(m) PROVE frame[i] = m[i]
    <3>1. frame[i] = s[from + i - 1]
      BY <2>2, <2>3
    <3>2. from + i - 1 = n + 1 + i /\ n + 1 + i \in 1..Len(s) /\ n + 1 + i <= Len(w)
      BY <1>1, <1>2, <1>5
    <3> QED
      BY <1>1, <3>1, <3>2 DEF Agrees
  <2>6. frame = m
    BY <2>2, <2>4, <2>5, SeqEqual
  <2> QED
    BY <1>3, <2>1, <2>6 DEF frame
<1> QED
  BY <1>2, <1>3, <1>4, <1>5

\* A message without a line feed and its count show no line end while they arrive.
LEMMA OctetShowsNoLine ==
    ASSUME NEW m \in Seq(Bytes), NEW w \in Wrappings("octet", m), LineEndAt(m) = 0,
           NEW s \in Seq(Bytes), Agrees(s, w), Len(s) <= Len(w)
    PROVE  LineEndAt(s) = 0
<1>1. PICK n \in 1..MaxPrefix :
        /\ Len(w) = n + 1 + Len(m)
        /\ \A i \in 1..Len(m) : w[n + 1 + i] = m[i]
        /\ \A i \in 1..n : w[i] \in Digits
        /\ w[n + 1] = SP
  BY OctetCountRead
<1>2. Len(m) \in Nat /\ Len(s) \in Nat /\ n \in Nat
  BY <1>1, LenProperties, FramingAssumption
<1>3. \A i \in 1..Len(m) : m[i] # LF
  BY FirstPlace DEF LineEndAt
<1>4. ASSUME NEW i \in 1..Len(s) PROVE s[i] # LF
  <2>1. i <= Len(w) /\ s[i] = w[i]
    BY <1>1, <1>2 DEF Agrees
  <2>2. CASE i <= n
    <3>1. i \in 1..n
      BY <1>2, <2>2
    <3>2. w[i] \in Digits
      BY <1>1, <3>1
    <3> QED
      BY <2>1, <3>2 DEF Digits, LF
  <2>3. CASE i = n + 1
    BY <1>1, <2>1, <2>3 DEF SP, LF
  <2>4. CASE i > n + 1
    <3>1. i - (n + 1) \in 1..Len(m) /\ n + 1 + (i - (n + 1)) = i
      BY <1>1, <1>2, <2>1, <2>4
    <3> QED
      BY <1>1, <1>3, <2>1, <3>1
  <2> QED
    BY <1>2, <2>2, <2>3, <2>4
<1> QED
  BY <1>4, FirstPlace DEF LineEndAt

\* A sequence that another starts with is its front.
LEMMA FrontOfBytes ==
    ASSUME NEW s \in Seq(Bytes), NEW m \in Seq(Bytes), Len(m) <= Len(s),
           \A i \in 1..Len(m) : s[i] = m[i]
    PROVE  SubSeq(s, 1, Len(m)) = m
<1>1. Len(m) \in 0..Len(s) /\ 1 \in Nat \ {0} /\ Len(m) - 1 + 1 = Len(m)
  BY LenProperties
<1> DEFINE front == SubSeq(s, 1, Len(m))
<1>2. /\ front \in Seq(Bytes)
      /\ Len(front) = IF 1 <= Len(m) THEN Len(m) - 1 + 1 ELSE 0
      /\ \A k \in 1..Len(m) - 1 + 1 : front[k] = s[1 + k - 1]
  BY <1>1, PartOfBytes
<1> HIDE DEF front
<1>3. Len(front) = Len(m)
  BY <1>1, <1>2
<1>4. ASSUME NEW i \in 1..Len(m) PROVE front[i] = m[i]
  <2>1. i \in 1..Len(m) - 1 + 1 /\ 1 + i - 1 = i
    BY <1>1
  <2> QED
    BY <1>2, <2>1
<1>5. front = m
  BY <1>2, <1>3, <1>4, SeqEqual
<1> QED
  BY <1>5 DEF front

\* The layout of a message with its line end.
LEMMA LineLayout ==
    ASSUME NEW m \in Seq(Bytes), NEW w \in Wrappings("newline", m)
    PROVE  /\ w \in Seq(Bytes)
           /\ Len(w) = Len(m) + 1 \/ (Len(w) = Len(m) + 2 /\ w[Len(m) + 1] = CR)
           /\ \A i \in 1..Len(m) : w[i] = m[i]
           /\ w[Len(m) + 1] \in {CR, LF}
           /\ w[Len(w)] = LF
<1>1. w = m \o <<LF>> \/ w = m \o <<CR, LF>>
  BY DEF Wrappings
<1>2. CASE w = m \o <<LF>>
  <2>1. <<LF>> \in Seq(Bytes) /\ Len(<<LF>>) = 1 /\ <<LF>>[1] = LF /\ 1 \in 1..Len(<<LF>>)
    BY DEF LF, Bytes
  <2>2. /\ w \in Seq(Bytes) /\ Len(m) \in Nat
        /\ Len(w) = Len(m) + Len(<<LF>>)
        /\ \A i \in 1..Len(m) : w[i] = m[i]
        /\ \A i \in 1..Len(<<LF>>) : w[Len(m) + i] = <<LF>>[i]
    BY <1>2, <2>1, JoinedBytes
  <2>3. w[Len(m) + 1] = LF
    BY <2>1, <2>2
  <2> QED
    BY <2>1, <2>2, <2>3
<1>3. CASE w = m \o <<CR, LF>>
  <2>1. /\ <<CR, LF>> \in Seq(Bytes) /\ Len(<<CR, LF>>) = 2
        /\ <<CR, LF>>[1] = CR /\ <<CR, LF>>[2] = LF
        /\ 1 \in 1..Len(<<CR, LF>>) /\ 2 \in 1..Len(<<CR, LF>>)
    BY DEF CR, LF, Bytes
  <2>2. /\ w \in Seq(Bytes) /\ Len(m) \in Nat
        /\ Len(w) = Len(m) + Len(<<CR, LF>>)
        /\ \A i \in 1..Len(m) : w[i] = m[i]
        /\ \A i \in 1..Len(<<CR, LF>>) : w[Len(m) + i] = <<CR, LF>>[i]
    BY <1>3, <2>1, JoinedBytes
  <2>3. w[Len(m) + 1] = CR /\ w[Len(m) + 2] = LF
    BY <2>1, <2>2
  <2> QED
    BY <2>1, <2>2, <2>3
<1> QED
  BY <1>1, <1>2, <1>3

\* The line that is cut is the message, and no count is found in it that it has not itself.
LEMMA LineIsMessage ==
    ASSUME NEW m \in Seq(Bytes), Sendable("newline", m), NEW w \in Wrappings("newline", m),
           NEW s \in Seq(Bytes), Agrees(s, w)
    PROVE  /\ LineEndAt(s) # 0 <=> Len(s) >= Len(w)
           /\ Len(s) >= Len(w) =>
                 LineEndAt(s) = Len(w) /\ TrimCR(SubSeq(s, 1, Len(w) - 1)) = m
           /\ HasCount(s) => HasCount(m)
<1>1. /\ w \in Seq(Bytes)
      /\ Len(w) = Len(m) + 1 \/ (Len(w) = Len(m) + 2 /\ w[Len(m) + 1] = CR)
      /\ \A i \in 1..Len(m) : w[i] = m[i]
      /\ w[Len(m) + 1] \in {CR, LF}
      /\ w[Len(w)] = LF
  BY LineLayout
<1>2. Len(m) \in Nat /\ Len(s) \in Nat /\ Len(w) \in Nat /\ Len(w) > Len(m)
  BY <1>1, LenProperties
<1>3. (\A i \in 1..Len(m) : m[i] # LF) /\ (m # <<>> => m[Len(m)] # CR)
  BY FirstPlace DEF Sendable, LineEndAt
<1>4. \A i \in 1..Len(s) : i < Len(w) => s[i] # LF
  <2> TAKE i \in 1..Len(s)
  <2> HAVE i < Len(w)
  <2>1. s[i] = w[i]
    BY <1>2 DEF Agrees
  <2>2. CASE i <= Len(m)
    <3>1. i \in 1..Len(m)
      BY <1>2, <2>2
    <3> QED
      BY <1>1, <1>3, <2>1, <3>1
  <2>3. CASE i > Len(m)
    <3>1. i = Len(m) + 1 /\ w[Len(m) + 1] = CR
      BY <1>1, <1>2, <2>3
    <3> QED
      BY <2>1, <3>1 DEF CR, LF
  <2> QED
    BY <1>2, <2>2, <2>3
<1>5. /\ LineEndAt(s) \in 0..Len(s)
      /\ LineEndAt(s) = 0 => \A i \in 1..Len(s) : s[i] # LF
      /\ LineEndAt(s) # 0 => s[LineEndAt(s)] = LF /\ \A i \in 1..LineEndAt(s) - 1 : s[i] # LF
  BY FirstPlace DEF LineEndAt
<1>6. ASSUME Len(s) >= Len(w) PROVE LineEndAt(s) = Len(w)
  <2>1. Len(w) \in 1..Len(s) /\ s[Len(w)] = LF
    BY <1>1, <1>2, <1>6 DEF Agrees
  <2>2. LineEndAt(s) # 0 /\ LineEndAt(s) \in 1..Len(s)
    BY <1>5, <2>1
  <2>3. ~(LineEndAt(s) < Len(w))
    BY <1>4, <1>5, <2>2
  <2>4. Len(w) < LineEndAt(s) => Len(w) \in 1..LineEndAt(s) - 1
    BY <1>2, <1>5, <2>1
  <2> QED
    BY <1>2, <1>5, <2>1, <2>2, <2>3, <2>4
<1>7. LineEndAt(s) # 0 => Len(s) >= Len(w)
  <2> HAVE LineEndAt(s) # 0
  <2>1. LineEndAt(s) \in 1..Len(s) /\ ~(LineEndAt(s) < Len(w))
    BY <1>4, <1>5
  <2> QED
    BY <1>2, <2>1
<1>8. ASSUME Len(s) >= Len(w) PROVE TrimCR(SubSeq(s, 1, Len(w) - 1)) = m
  <2>1. Len(m) <= Len(s) /\ \A i \in 1..Len(m) : i \in 1..Len(s) /\ i <= Len(w)
    BY <1>2, <1>8
  <2>2. \A i \in 1..Len(m) : s[i] = m[i]
    BY <1>1, <2>1 DEF Agrees
  <2>3. SubSeq(s, 1, Len(m)) = m
    BY <2>1, <2>2, FrontOfBytes
  <2>4. CASE Len(w) = Len(m) + 1
    <3>1. Len(w) - 1 = Len(m)
      BY <1>2, <2>4
    <3> QED
      BY <1>3, <2>3, <3>1 DEF TrimCR
  <2>5. CASE Len(w) = Len(m) + 2 /\ w[Len(m) + 1] = CR
    <3> DEFINE line == SubSeq(s, 1, Len(m) + 1)
    <3>1. Len(m) + 1 \in 0..Len(s) /\ 1 \in Nat \ {0} /\ Len(m) + 1 - 1 + 1 = Len(m) + 1
      BY <1>2, <1>8, <2>5
    <3>2. /\ line \in Seq(Bytes)
          /\ Len(line) = IF 1 <= Len(m) + 1 THEN Len(m) + 1 - 1 + 1 ELSE 0
          /\ \A k \in 1..Len(m) + 1 - 1 + 1 : line[k] = s[1 + k - 1]
      BY <3>1, PartOfBytes
    <3> HIDE DEF line
    <3>3. Len(line) = Len(m) + 1
      BY <1>2, <3>1, <3>2
    <3>4. ASSUME NEW i \in 1..Len(m) + 1 PROVE line[i] = s[i]
      <4>1. i \in 1..Len(m) + 1 - 1 + 1 /\ 1 + i - 1 = i
        BY <1>2
      <4> QED
        BY <3>2, <4>1
    <3>5. line[Len(line)] = CR
      <4>1. Len(m) + 1 \in 1..Len(s) /\ Len(m) + 1 <= Len(w) /\ Len(m) + 1 \in 1..Len(m) + 1
        BY <1>2, <1>8, <2>5
      <4>2. s[Len(m) + 1] = CR
        BY <2>5, <4>1 DEF Agrees
      <4> QED
        BY <3>3, <3>4, <4>1, <4>2
    <3>6. line # <<>>
      BY <1>2, <3>3
    <3>7. TrimCR(line) = SubSeq(line, 1, Len(m))
      <4>1. Len(line) - 1 = Len(m)
        BY <1>2, <3>3
      <4> QED
        BY <3>5, <3>6, <4>1 DEF TrimCR
    <3>8. SubSeq(line, 1, Len(m)) = m
      <4>1. Len(m) <= Len(line) /\ \A i \in 1..Len(m) : line[i] = m[i]
        BY <1>2, <2>2, <3>3, <3>4
      <4> QED
        BY <3>2, <4>1, FrontOfBytes
    <3>9. Len(w) - 1 = Len(m) + 1
      BY <1>2, <2>5
    <3> QED
      BY <3>7, <3>8, <3>9 DEF line
  <2> QED
    BY <1>1, <2>4, <2>5
<1>9. ASSUME HasCount(s) PROVE HasCount(m)
  <2> DEFINE place == SpaceAt(s)
  <2>1. /\ place \in 2..Len(s) /\ place - 1 \in 1..MaxPrefix
        /\ s[place] = SP
        /\ \A i \in 1..place - 1 : s[i] \in Digits /\ s[i] # SP
    <3>1. place - 1 \in 1..MaxPrefix /\ \A i \in 1..place - 1 : s[i] \in Digits
      BY <1>9 DEF HasCount
    <3>2. /\ place \in 0..Len(s)
          /\ place # 0 => s[place] = SP
      BY FirstPlace DEF SpaceAt
    <3>3. place \in 2..Len(s)
      BY <1>2, <3>1, <3>2, FramingAssumption
    <3> QED
      BY <3>1, <3>2, <3>3 DEF Digits, SP
  <2>2. place <= Len(m)
    <3>1. SUFFICES ASSUME Len(m) + 1 <= place PROVE FALSE
      BY <1>2, <2>1
    <3>2. Len(m) + 1 \in 1..Len(s) /\ Len(m) + 1 <= Len(w)
      BY <1>2, <2>1, <3>1
    <3>3. s[Len(m) + 1] \in {CR, LF}
      BY <1>1, <3>2 DEF Agrees
    <3>4. CASE Len(m) + 1 = place
      BY <2>1, <3>3, <3>4 DEF CR, LF, SP
    <3>5. CASE Len(m) + 1 < place
      <4>1. Len(m) + 1 \in 1..place - 1
        BY <1>2, <2>1, <3>5
      <4> QED
        BY <2>1, <3>3, <4>1, SMTT(20) DEF CR, LF, Digits
    <3> QED
      BY <1>2, <2>1, <3>1, <3>4, <3>5
  <2>3. \A i \in 1..place : i \in 1..Len(m) /\ i \in 1..Len(s) /\ i <= Len(w)
    BY <1>2, <2>1, <2>2
  <2>4. \A i \in 1..place : m[i] = s[i]
    BY <1>1, <2>3 DEF Agrees
  <2> HIDE DEF place
  <2>5. SpaceAt(m) = place
    <3>1. /\ SpaceAt(m) \in 0..Len(m)
          /\ SpaceAt(m) = 0 => \A i \in 1..Len(m) : m[i] # SP
          /\ SpaceAt(m) # 0 => m[SpaceAt(m)] = SP /\ \A i \in 1..SpaceAt(m) - 1 : m[i] # SP
      BY FirstPlace DEF SpaceAt
    <3>2. place \in 1..place /\ m[place] = SP
      BY <2>1, <2>4
    <3>3. SpaceAt(m) # 0 /\ SpaceAt(m) \in 1..Len(m)
      BY <2>3, <3>1, <3>2
    <3>4. ~(SpaceAt(m) < place)
      <4>1. SUFFICES ASSUME SpaceAt(m) < place PROVE FALSE
        OBVIOUS
      <4>2. SpaceAt(m) \in 1..place - 1 /\ SpaceAt(m) \in 1..place
        BY <2>1, <3>3, <4>1
      <4> QED
        BY <2>1, <2>4, <3>1, <3>3, <4>2
    <3>5. ~(place < SpaceAt(m))
      <4>1. place < SpaceAt(m) => place \in 1..SpaceAt(m) - 1
        BY <2>1, <3>1
      <4> QED
        BY <3>1, <3>2, <3>3, <4>1
    <3> QED
      BY <2>1, <3>3, <3>4, <3>5
  <2>6. \A i \in 1..place - 1 : i \in 1..place /\ m[i] \in Digits
    BY <2>1, <2>4
  <2> QED
    BY <2>1, <2>5, <2>6 DEF HasCount
<1> QED
  BY <1>2, <1>6, <1>7, <1>8, <1>9

-----------------------------------------------------------------------------
(* The front of the buffer, in a state of the connection. *)

\* Types of what the invariant talks about.
LEMMA Numbers ==
    ASSUME TypeOK
    PROVE  /\ Len(sent) \in Nat /\ Len(frames) \in Nat /\ Len(emitted) \in Nat
           /\ metrics["decode_error"] \in Nat
           /\ Out \in Nat /\ Cut \in Nat /\ Cut = Out + Len(frames)
           /\ \A k \in 1..Len(sent) : sent[k] \in Messages /\ sent[k] \in Seq(Bytes)
           /\ InFlight \in Seq(Bytes) /\ Len(buffer) \in Nat
           /\ Len(InFlight) = Len(buffer) + Len(wire) /\ Len(wire) \in Nat
<1>1. \A k \in 1..Len(sent) : sent[k] \in Messages
  BY ElementOfSeq DEF TypeOK
<1>2. Messages \subseteq Seq(Bytes)
  BY FramingAssumption DEF Bytes
<1>3. Len(sent) \in Nat /\ Len(frames) \in Nat /\ Len(emitted) \in Nat
  BY LenProperties DEF TypeOK
<1>4. metrics["decode_error"] \in Nat
  BY DEF TypeOK, MetricNames
<1>5. /\ InFlight \in Seq(Bytes) /\ Len(buffer) \in Nat
      /\ Len(InFlight) = Len(buffer) + Len(wire) /\ Len(wire) \in Nat
  BY JoinedBytes DEF TypeOK, InFlight
<1> QED
  BY <1>1, <1>2, <1>3, <1>4, <1>5 DEF Out, Cut

\* The buffer starts with the next message, as far as it has arrived.
LEMMA FrontIsNext ==
    ASSUME CuttingInv, pc # "closed", Cut # Len(sent)
    PROVE  /\ Cut + 1 \in 1..Len(sent)
           /\ sent[Cut + 1] \in Seq(Bytes)
           /\ Sendable(peer, sent[Cut + 1])
           /\ \E w \in Wrappings(peer, sent[Cut + 1]) :
                 /\ w \in Seq(Bytes)
                 /\ Len(w) \in 0..Len(InFlight)
                 /\ Agrees(buffer, w)
                 /\ Carries(SubSeq(InFlight, Len(w) + 1, Len(InFlight)), Cut + 1, sent, peer)
<1>1. TypeOK /\ Carries(InFlight, Cut, sent, peer)
  BY DEF CuttingInv, MemoryInv, CutRight
<1>2. /\ Cut + 1 \in 1..Len(sent)
      /\ \E w \in Wrappings(peer, sent[Cut + 1]) :
            /\ w \in Seq(Bytes)
            /\ Len(w) \in 0..Len(InFlight)
            /\ StandsAt(w, 0, InFlight)
            /\ Carries(SubSeq(InFlight, Len(w) + 1, Len(InFlight)), Cut + 1, sent, peer)
  BY <1>1, Numbers, NextCarried DEF TypeOK
<1>3. PICK w \in Wrappings(peer, sent[Cut + 1]) :
        /\ w \in Seq(Bytes)
        /\ Len(w) \in 0..Len(InFlight)
        /\ StandsAt(w, 0, InFlight)
        /\ Carries(SubSeq(InFlight, Len(w) + 1, Len(InFlight)), Cut + 1, sent, peer)
  BY <1>2
<1>4. Agrees(buffer, w)
  <2> SUFFICES ASSUME NEW i \in 1..Len(buffer), i <= Len(w) PROVE buffer[i] = w[i]
    BY DEF Agrees
  <2>1. InFlight[i] = buffer[i]
    BY <1>1, JoinedBytes DEF TypeOK, InFlight
  <2>2. i \in 1..Len(w) /\ 0 + i = i
    BY <1>1, <1>3, Numbers
  <2> QED
    BY <1>3, <2>1, <2>2 DEF StandsAt
<1>5. sent[Cut + 1] \in Seq(Bytes) /\ Sendable(peer, sent[Cut + 1])
  BY <1>1, <1>2, Numbers DEF CuttingInv, PeerConforms
<1> QED
  BY <1>2, <1>3, <1>4, <1>5

\* When every message is cut the framer finds nothing in its buffer.
LEMMA AllCutIsEmpty ==
    ASSUME CuttingInv, pc # "closed", Cut = Len(sent)
    PROVE  buffer = <<>> /\ ~HasCount(buffer) /\ LineEndAt(buffer) = 0
<1>1. TypeOK /\ Carries(InFlight, Cut, sent, peer)
  BY DEF CuttingInv, MemoryInv, CutRight
<1>2. InFlight = <<>>
  BY <1>1, Numbers, AllCut
<1>3. Len(buffer) = 0
  BY <1>1, <1>2, Numbers
<1>4. buffer = <<>>
  BY <1>1, <1>3, EmptySeq DEF TypeOK
<1>5. SpaceAt(buffer) = 0 /\ LineEndAt(buffer) = 0
  BY <1>1, <1>3, PlacesInBuffer
<1> QED
  BY <1>4, <1>5 DEF HasCount

\* A count at the front of the buffer is one of a peer that counts octets.
LEMMA CountMeansOctetPeer ==
    ASSUME CuttingInv, pc # "closed", MayBeOctet
    PROVE  peer = "octet" /\ Cut # Len(sent)
<1>1. Cut # Len(sent)
  BY AllCutIsEmpty DEF MayBeOctet
<1>2. /\ Cut + 1 \in 1..Len(sent)
      /\ sent[Cut + 1] \in Seq(Bytes)
      /\ Sendable(peer, sent[Cut + 1])
  BY <1>1, FrontIsNext
<1>3. PICK w \in Wrappings(peer, sent[Cut + 1]) : Agrees(buffer, w)
  BY <1>1, FrontIsNext
<1>4. buffer \in Seq(Bytes) /\ peer \in {"octet", "newline"} /\ sent \in Seq(Messages)
  BY FramingAssumption DEF CuttingInv, MemoryInv, TypeOK
<1>5. SUFFICES ASSUME peer = "newline" PROVE FALSE
  BY <1>1, <1>4
<1>6. style = "unknown" /\ Cut = 0
  BY <1>5 DEF CuttingInv, CutRight, MayBeOctet
<1>7. sent # <<>> /\ Cut + 1 = 1
  BY <1>2, <1>6, EmptySeq
<1>8. ~HasCount(sent[1])
  BY <1>5, <1>7 DEF CuttingInv, PeerConforms, Telltale
<1>9. HasCount(sent[1])
  BY <1>2, <1>3, <1>4, <1>5, <1>7, LineIsMessage DEF MayBeOctet
<1> QED
  BY <1>8, <1>9

\* A line end at the front of the buffer, where no octet frame is, is one of a peer that
\* ends its messages with line feeds.
LEMMA LineMeansNewlinePeer ==
    ASSUME CuttingInv, pc # "closed", MayBeOctet => CountOK /\ ~OctetComplete, LineReady
    PROVE  peer = "newline" /\ Cut # Len(sent)
<1>1. Cut # Len(sent)
  BY AllCutIsEmpty DEF LineReady
<1>2. /\ Cut + 1 \in 1..Len(sent)
      /\ sent[Cut + 1] \in Seq(Bytes)
  BY <1>1, FrontIsNext
<1>3. PICK w \in Wrappings(peer, sent[Cut + 1]) : w \in Seq(Bytes) /\ Agrees(buffer, w)
  BY <1>1, FrontIsNext
<1>4. /\ buffer \in Seq(Bytes) /\ peer \in {"octet", "newline"} /\ sent \in Seq(Messages)
      /\ Len(buffer) \in Nat /\ Len(w) \in Nat /\ Len(sent[Cut + 1]) \in Nat
  BY <1>2, <1>3, FramingAssumption, LenProperties DEF CuttingInv, MemoryInv, TypeOK
<1>5. SUFFICES ASSUME peer = "octet" PROVE FALSE
  BY <1>1, <1>4
<1>6. style = "unknown" /\ Cut = 0
  BY <1>5 DEF CuttingInv, CutRight, LineReady
<1>7. sent # <<>> /\ Cut + 1 = 1
  BY <1>2, <1>6, EmptySeq
<1>8. LineEndAt(sent[1]) = 0
  BY <1>5, <1>7 DEF CuttingInv, PeerConforms, Telltale
<1>9. Len(buffer) <= Len(w)
  <2>1. CASE HasCount(buffer)
    <3>1. ~OctetComplete
      BY <1>6, <2>1 DEF MayBeOctet
    <3>2. ~(Len(buffer) >= Len(w))
      BY <1>2, <1>3, <1>4, <1>5, <2>1, <3>1, OctetFrameIsMessage DEF OctetComplete
    <3> QED
      BY <1>4, <3>2
  <2>2. CASE ~HasCount(buffer)
    <3>1. PICK n \in 1..MaxPrefix :
            /\ Len(w) > n
            /\ HasCount(buffer) <=> Len(buffer) > n
      BY <1>2, <1>3, <1>4, <1>5, OctetCountRead
    <3>2. n \in Nat
      BY FramingAssumption
    <3>3. Len(buffer) <= n
      BY <1>4, <2>2, <3>1, <3>2
    <3> QED
      BY <1>4, <3>1, <3>2, <3>3
  <2> QED
    BY <2>1, <2>2
<1>10. LineEndAt(buffer) = 0
  BY <1>2, <1>3, <1>4, <1>5, <1>7, <1>8, <1>9, OctetShowsNoLine
<1> QED
  BY <1>10 DEF LineReady

\* When all that was written has arrived and nothing more can be cut, nothing is left.
LEMMA NothingIsLeft ==
    ASSUME CuttingInv, pc # "closed", wire = <<>>, NothingToCut
    PROVE  Cut = Len(sent)
<1>1. SUFFICES ASSUME Cut # Len(sent) PROVE FALSE
  OBVIOUS
<1>2. sent[Cut + 1] \in Seq(Bytes) /\ Sendable(peer, sent[Cut + 1])
  BY <1>1, FrontIsNext
<1>3. PICK w \in Wrappings(peer, sent[Cut + 1]) :
        w \in Seq(Bytes) /\ Len(w) \in 0..Len(InFlight) /\ Agrees(buffer, w)
  BY <1>1, FrontIsNext
<1>4. /\ buffer \in Seq(Bytes) /\ peer \in {"octet", "newline"} /\ style \in {"unknown", peer}
      /\ Len(sent[Cut + 1]) \in Nat
  BY <1>2, FramingAssumption, LenProperties DEF CuttingInv, MemoryInv, TypeOK, CutRight
<1>5. Len(buffer) >= Len(w) /\ Len(buffer) \in Nat /\ Len(w) \in Nat
  <2>1. /\ Len(InFlight) = Len(buffer) + Len(wire) /\ Len(buffer) \in Nat
    BY Numbers DEF CuttingInv, MemoryInv
  <2>2. Len(wire) = 0
    OBVIOUS
  <2> QED
    BY <1>3, <2>1, <2>2
<1>6. CASE peer = "octet"
  <2>1. PICK n \in 1..MaxPrefix :
          /\ Len(w) > n
          /\ HasCount(buffer) <=> Len(buffer) > n
    BY <1>2, <1>3, <1>4, <1>6, OctetCountRead
  <2>2. HasCount(buffer)
    <3>1. n \in Nat
      BY FramingAssumption
    <3>2. Len(buffer) > n
      BY <1>4, <1>5, <2>1, <3>1
    <3> QED
      BY <2>1, <3>2
  <2>3. MayBeOctet
    BY <1>4, <1>6, <2>2 DEF MayBeOctet
  <2>4. OctetComplete
    BY <1>2, <1>3, <1>4, <1>5, <1>6, <2>2, OctetFrameIsMessage DEF OctetComplete
  <2> QED
    BY <2>3, <2>4 DEF NothingToCut
<1>7. CASE peer = "newline"
  <2>1. LineEndAt(buffer) # 0
    BY <1>2, <1>3, <1>4, <1>5, <1>7, LineIsMessage
  <2> QED
    BY <1>4, <1>7, <2>1 DEF NothingToCut, LineReady
<1> QED
  BY <1>4, <1>6, <1>7

-----------------------------------------------------------------------------
(* Each step keeps the order. *)

\* A fresh connection has cut nothing and has nothing to cut.
LEMMA CuttingAtStart == Init => CuttingInv
<1> SUFFICES ASSUME Init PROVE CuttingInv
  OBVIOUS
<1>1. MemoryInv /\ TypeOK
  BY MemoryAtStart, TypeAtStart
<1>2. /\ sent = <<>> /\ wire = <<>> /\ buffer = <<>> /\ frames = <<>> /\ emitted = <<>>
      /\ pc = "loop" /\ style = "unknown" /\ metrics["decode_error"] = 0
  BY DEF Init, MetricNames
<1>3. Len(<<>>) = 0 /\ <<>> \o <<>> = <<>>
  OBVIOUS
<1>4. Out = 0 /\ Cut = 0 /\ InFlight = <<>>
  BY <1>2, <1>3 DEF Out, Cut, InFlight
<1>5. Carries(InFlight, Cut, sent, peer)
  BY <1>2, <1>4, NothingCarried
<1>6. NothingToCut
  <2>1. SpaceAt(buffer) \in 0..0 /\ LineEndAt(buffer) \in 0..0
    BY <1>1, <1>2, <1>3, PlacesInBuffer
  <2>2. ~HasCount(buffer) /\ LineEndAt(buffer) = 0
    BY <2>1 DEF HasCount
  <2> QED
    BY <2>2 DEF NothingToCut, MayBeOctet, LineReady
<1>7. (1..Len(sent)) = {} /\ (1..Len(frames)) = {}
  BY <1>2, <1>3
<1> QED
  BY <1>1, <1>2, <1>4, <1>5, <1>6, <1>7 DEF CuttingInv, PeerConforms, CutRight

\* Steps that leave the stream as it is: bytes only go from the wire to the buffer.
LEMMA SameStream ==
    ASSUME CuttingInv, MemoryInv', pc # "closed",
           peer' = peer, sent' = sent, style' = style, frames' = frames,
           InFlight' = InFlight, Out' = Out,
           pc' # "closed", pc' \notin Feeding => NothingToCut'
    PROVE  CuttingInv'
<1>1. Cut' = Cut
  BY DEF Cut
<1>2. PeerConforms'
  BY DEF CuttingInv, PeerConforms
<1>3. CutRight'
  BY <1>1 DEF CuttingInv, CutRight
<1> QED
  BY <1>2, <1>3 DEF CuttingInv

\* The thread ends: what was cut by then was cut right, and at the end of the stream
\* that was all.
LEMMA EndKeepsOrder ==
    ASSUME CuttingInv, MemoryInv', NEW reason, End(reason),
           reason = "eof" => Out' = Len(sent)
    PROVE  CuttingInv'
<1>1. peer' = peer /\ sent' = sent /\ pc' = "closed" /\ ending' = reason
  BY DEF End, peerSide
<1> QED
  BY <1>1 DEF CuttingInv, PeerConforms, CutRight

\* The peer adds a message at the end of the stream; its first one shows its style.
LEMMA SendKeepsOrder ==
    ASSUME ~AnyFirst, CuttingInv, MemoryInv', NEW m \in Messages, PeerSends(m)
    PROVE  CuttingInv'
<1>1. TypeOK /\ sent \in Seq(Messages) /\ buffer \in Seq(Bytes) /\ wire \in Seq(Bytes)
  BY DEF CuttingInv, MemoryInv, TypeOK
<1>2. PICK w \in Wrappings(peer, m) : wire' = wire \o w
  BY DEF PeerSends
<1>3. w \in Seq(Bytes)
  BY <1>2, WrappingsAreBytes
<1>4. /\ sent' = Append(sent, m) /\ Sendable(peer, m) /\ (sent # <<>> \/ Telltale(peer, m))
      /\ pc # "closed" /\ pc' = pc
      /\ peer' = peer /\ buffer' = buffer /\ frames' = frames /\ style' = style
      /\ emitted' = emitted /\ metrics' = metrics
  BY DEF PeerSends, framer
<1>5. Out' = Out /\ Cut' = Cut
  BY <1>4 DEF Out, Cut
<1>6. InFlight' = InFlight \o w
  <2>1. buffer \o (wire \o w) = (buffer \o wire) \o w
    BY <1>1, <1>3, ConcatAssociative
  <2>2. InFlight' = buffer' \o wire'
    BY DEF InFlight
  <2> QED
    BY <1>2, <1>4, <2>1, <2>2 DEF InFlight
<1>7. Carries(InFlight, Cut, sent, peer) /\ Cut \in 0..Len(sent)
  BY <1>4 DEF CuttingInv, CutRight, Carries
<1>8. Carries(InFlight', Cut', sent', peer')
  BY <1>1, <1>2, <1>4, <1>5, <1>6, <1>7, OneMoreSent, Numbers
<1>9. /\ Len(sent') = Len(sent) + 1
      /\ \A k \in 1..Len(sent) : sent'[k] = sent[k]
      /\ sent'[Len(sent) + 1] = m
      /\ Len(sent) \in Nat /\ Len(frames) \in Nat /\ Out \in Nat /\ Cut = Out + Len(frames)
  BY <1>1, <1>4, AppendProperties, Numbers
<1>10. PeerConforms'
  <2>1. ASSUME NEW k \in 1..Len(sent') PROVE Sendable(peer', sent'[k])
    <3>1. CASE k \in 1..Len(sent)
      BY <1>4, <1>9, <3>1 DEF CuttingInv, PeerConforms
    <3>2. CASE k = Len(sent) + 1
      BY <1>4, <1>9, <3>2
    <3> QED
      BY <1>9, <3>1, <3>2
  <2>2. Telltale(peer', sent'[1])
    <3>1. CASE sent = <<>>
      <4>1. Len(sent) + 1 = 1
        BY <3>1
      <4> QED
        BY <1>4, <1>9, <3>1, <4>1
    <3>2. CASE sent # <<>>
      <4>1. 1 \in 1..Len(sent)
        BY <1>1, <3>2, EmptySeq
      <4> QED
        BY <1>4, <1>9, <3>2, <4>1 DEF CuttingInv, PeerConforms
    <3> QED
      BY <3>1, <3>2
  <2> QED
    BY <2>1, <2>2 DEF PeerConforms
<1>11. \A i \in 1..Len(frames') : frames'[i] = sent'[Out' + i]
  <2> SUFFICES ASSUME NEW i \in 1..Len(frames) PROVE frames[i] = sent'[Out + i]
    BY <1>4, <1>5
  <2>1. Out + i \in 1..Len(sent)
    BY <1>7, <1>9
  <2> QED
    BY <1>4, <1>9, <2>1 DEF CuttingInv, CutRight
<1>12. NothingToCut' <=> NothingToCut
  BY <1>4 DEF NothingToCut, MayBeOctet, CountOK, OctetComplete, LineReady
<1> QED
  BY <1>4, <1>5, <1>8, <1>10, <1>11, <1>12 DEF CuttingInv, CutRight

\* A chunk moves from the wire to the end of the buffer.
LEMMA RecvKeepsOrder ==
    ASSUME CuttingInv, MemoryInv', NEW n \in 1..RecvSize, Recv(n)
    PROVE  CuttingInv'
<1>1. wire \in Seq(Bytes) /\ buffer \in Seq(Bytes) /\ n \in 1..Len(wire) /\ Len(wire) \in Nat
  BY LenProperties, FramingAssumption DEF CuttingInv, MemoryInv, TypeOK, Recv
<1>2. /\ buffer' = buffer \o SubSeq(wire, 1, n) /\ wire' = SubSeq(wire, n + 1, Len(wire))
      /\ pc = "recv" /\ pc' = "feed"
      /\ peer' = peer /\ sent' = sent /\ style' = style /\ frames' = frames
      /\ emitted' = emitted /\ metrics' = metrics
  BY DEF Recv, peerSide
<1>3. SubSeq(wire, 1, n) \in Seq(Bytes) /\ SubSeq(wire, n + 1, Len(wire)) \in Seq(Bytes)
  BY <1>1, PartOfBytes
<1>4. SubSeq(wire, 1, n) \o SubSeq(wire, n + 1, Len(wire)) = wire
  <2>1. 1 \in 1..Len(wire) + 1 /\ n \in 1 - 1..Len(wire) /\ Len(wire) \in n..Len(wire)
    BY <1>1
  <2>2. SubSeq(wire, 1, n) \o SubSeq(wire, n + 1, Len(wire)) = SubSeq(wire, 1, Len(wire))
    BY <1>1, <2>1, ConcatAdjacentSubSeq
  <2> QED
    BY <1>1, <2>2, SubSeqFull
<1>5. InFlight' = InFlight
  <2> DEFINE chunk == SubSeq(wire, 1, n)
             others == SubSeq(wire, n + 1, Len(wire))
  <2>1. (buffer \o chunk) \o others = buffer \o (chunk \o others)
    <3>1. chunk \in Seq(Bytes) /\ others \in Seq(Bytes) /\ buffer \in Seq(Bytes)
      BY <1>1, <1>3
    <3> HIDE DEF chunk, others
    <3> QED
      BY <3>1, ConcatAssociative
  <2>2. InFlight' = buffer' \o wire'
    BY DEF InFlight
  <2> QED
    BY <1>2, <1>4, <2>1, <2>2 DEF InFlight
<1>6. Out' = Out
  BY <1>2 DEF Out
<1> QED
  BY <1>2, <1>5, <1>6, SameStream DEF Feeding

\* What is cut from the front of the buffer is cut from what is in flight.
LEMMA CutFromFront ==
    ASSUME TypeOK, NEW n \in 0..Len(buffer)
    PROVE  Without(n) \o wire = SubSeq(InFlight, n + 1, Len(InFlight))
<1>1. /\ buffer \in Seq(Bytes) /\ wire \in Seq(Bytes) /\ InFlight \in Seq(Bytes)
      /\ Len(buffer) \in Nat /\ Len(wire) \in Nat /\ Len(InFlight) = Len(buffer) + Len(wire)
      /\ \A i \in 1..Len(buffer) : InFlight[i] = buffer[i]
      /\ \A i \in 1..Len(wire) : InFlight[Len(buffer) + i] = wire[i]
  BY JoinedBytes DEF TypeOK, InFlight
<1> DEFINE rest == SubSeq(InFlight, n + 1, Len(InFlight))
           left == Without(n)
<1>2. n \in 0..Len(InFlight)
  BY <1>1
<1>3. /\ rest \in Seq(Bytes) /\ Len(rest) = Len(InFlight) - n
      /\ \A k \in 1..Len(InFlight) - n : rest[k] = InFlight[n + k]
  BY <1>1, <1>2, RestOfBytes
<1>4. /\ left \in Seq(Bytes) /\ Len(left) = Len(buffer) - n
      /\ \A k \in 1..Len(buffer) - n : left[k] = buffer[n + k]
  BY <1>1, RestOfBytes DEF Without
<1> HIDE DEF rest, left
<1>5. /\ left \o wire \in Seq(Bytes)
      /\ Len(left \o wire) = Len(left) + Len(wire)
      /\ \A i \in 1..Len(left) : (left \o wire)[i] = left[i]
      /\ \A i \in 1..Len(wire) : (left \o wire)[Len(left) + i] = wire[i]
  BY <1>1, <1>4, JoinedBytes
<1>6. Len(left \o wire) = Len(rest)
  BY <1>1, <1>3, <1>4, <1>5
<1>7. ASSUME NEW k \in 1..Len(left \o wire) PROVE (left \o wire)[k] = rest[k]
  <2>1. rest[k] = InFlight[n + k]
    BY <1>3, <1>6, <1>7
  <2>2. CASE k <= Len(left)
    <3>1. k \in 1..Len(left) /\ k \in 1..Len(buffer) - n /\ n + k \in 1..Len(buffer)
      BY <1>1, <1>4, <2>2
    <3> QED
      BY <1>1, <1>4, <1>5, <2>1, <3>1
  <2>3. CASE k > Len(left)
    <3> DEFINE i == k - Len(left)
    <3>1. i \in 1..Len(wire) /\ Len(left) + i = k /\ Len(buffer) + i = n + k
      BY <1>1, <1>4, <1>5, <2>3
    <3> HIDE DEF i
    <3> QED
      BY <1>1, <1>5, <2>1, <3>1
  <2> QED
    BY <1>1, <1>4, <2>2, <2>3
<1>8. left \o wire = rest
  BY <1>3, <1>5, <1>6, <1>7, SeqEqual
<1> QED
  BY <1>8 DEF rest, left

\* Cutting off the next message, whatever its style.
LEMMA CutKeepsOrder ==
    ASSUME CuttingInv, MemoryInv', pc # "closed", Cut # Len(sent),
           NEW n \in 0..Len(buffer),
           Carries(SubSeq(InFlight, n + 1, Len(InFlight)), Cut + 1, sent, peer),
           buffer' = Without(n), frames' = Append(frames, sent[Cut + 1]), style' = peer,
           wire' = wire, pc' = pc, pc = "extract",
           UNCHANGED <<peer, sent, emitted, metrics>>
    PROVE  CuttingInv'
<1>1. TypeOK /\ frames \in Seq(Seq(Bytes))
  BY DEF CuttingInv, MemoryInv, TypeOK
<1>2. /\ Cut + 1 \in 1..Len(sent) /\ sent[Cut + 1] \in Seq(Bytes)
  BY FrontIsNext
<1>3. /\ Len(frames') = Len(frames) + 1
      /\ \A i \in 1..Len(frames) : frames'[i] = frames[i]
      /\ frames'[Len(frames) + 1] = sent[Cut + 1]
  BY <1>1, <1>2, AppendProperties
<1>4. Out' = Out /\ Out \in Nat /\ Len(frames) \in Nat /\ Cut = Out + Len(frames)
  BY <1>1, Numbers DEF Out
<1>5. Cut' = Cut + 1
  BY <1>3, <1>4 DEF Cut
<1>6. InFlight' = SubSeq(InFlight, n + 1, Len(InFlight))
  <2>1. InFlight' = buffer' \o wire'
    BY DEF InFlight
  <2> QED
    BY <1>1, <2>1, CutFromFront
<1>7. Carries(InFlight', Cut', sent', peer')
  BY <1>5, <1>6
<1>8. \A i \in 1..Len(frames') : frames'[i] = sent'[Out' + i]
  <2> SUFFICES ASSUME NEW i \in 1..Len(frames) + 1 PROVE frames'[i] = sent[Out + i]
    BY <1>3, <1>4
  <2>1. CASE i \in 1..Len(frames)
    BY <1>3, <2>1 DEF CuttingInv, CutRight
  <2>2. CASE i = Len(frames) + 1
    <3>1. Out + i = Cut + 1
      BY <1>4, <2>2
    <3> QED
      BY <1>3, <2>2, <3>1
  <2> QED
    BY <1>4, <2>1, <2>2
<1>9. peer # "unknown"
  BY <1>1, FramingAssumption DEF TypeOK
<1>10. PeerConforms'
  BY DEF CuttingInv, PeerConforms
<1> QED
  BY <1>7, <1>8, <1>9, <1>10 DEF CuttingInv, CutRight, Feeding

\* An octet frame is the next message of a peer that counts octets.
LEMMA OctetFrameKeepsOrder ==
    ASSUME CuttingInv, MemoryInv', TakeOctetFrame
    PROVE  CuttingInv'
<1>1. /\ pc = "extract" /\ pc' = pc /\ MayBeOctet /\ OctetComplete
      /\ style' = "octet" /\ wire' = wire
      /\ UNCHANGED <<peer, sent, emitted, metrics>>
      /\ frames' = Append(frames, SubSeq(buffer, SpaceAt(buffer) + 1,
                                          SpaceAt(buffer) + CountOf(buffer)))
      /\ buffer' = Without(SpaceAt(buffer) + CountOf(buffer))
  BY DEF TakeOctetFrame, peerSide
<1>2. peer = "octet" /\ Cut # Len(sent)
  BY <1>1, CountMeansOctetPeer
<1>3. sent[Cut + 1] \in Seq(Bytes)
  BY <1>1, <1>2, FrontIsNext
<1>4. PICK w \in Wrappings(peer, sent[Cut + 1]) :
        /\ w \in Seq(Bytes)
        /\ Agrees(buffer, w)
        /\ Carries(SubSeq(InFlight, Len(w) + 1, Len(InFlight)), Cut + 1, sent, peer)
  BY <1>1, <1>2, FrontIsNext
<1>5. buffer \in Seq(Bytes) /\ HasCount(buffer) /\ Len(buffer) \in Nat /\ Len(w) \in Nat
  BY <1>1, <1>4, LenProperties DEF CuttingInv, MemoryInv, TypeOK, MayBeOctet
<1>6. /\ SpaceAt(buffer) + CountOf(buffer) = Len(w)
      /\ Len(buffer) >= Len(w)
      /\ SubSeq(buffer, SpaceAt(buffer) + 1, SpaceAt(buffer) + CountOf(buffer)) = sent[Cut + 1]
  <2>1. /\ SpaceAt(buffer) + CountOf(buffer) = Len(w)
        /\ Len(buffer) - SpaceAt(buffer) >= CountOf(buffer) <=> Len(buffer) >= Len(w)
        /\ Len(buffer) >= Len(w) =>
              SubSeq(buffer, SpaceAt(buffer) + 1, SpaceAt(buffer) + CountOf(buffer))
                 = sent[Cut + 1]
    BY <1>2, <1>3, <1>4, <1>5, OctetFrameIsMessage
  <2> QED
    BY <1>1, <2>1 DEF OctetComplete
<1>7. Len(w) \in 0..Len(buffer)
  BY <1>5, <1>6
<1> QED
  BY <1>1, <1>2, <1>4, <1>6, <1>7, CutKeepsOrder

\* A line is the next message of a peer that ends messages with line feeds.
LEMMA LineKeepsOrder ==
    ASSUME CuttingInv, MemoryInv', TakeLine
    PROVE  CuttingInv'
<1>1. /\ pc = "extract" /\ pc' = pc /\ LineReady
      /\ MayBeOctet => CountOK /\ ~OctetComplete
      /\ style' = "newline" /\ wire' = wire
      /\ UNCHANGED <<peer, sent, emitted, metrics>>
      /\ frames' = Append(frames, TrimCR(SubSeq(buffer, 1, LineEndAt(buffer) - 1)))
      /\ buffer' = Without(LineEndAt(buffer))
  BY DEF TakeLine, peerSide
<1>2. peer = "newline" /\ Cut # Len(sent)
  BY <1>1, LineMeansNewlinePeer
<1>3. sent[Cut + 1] \in Seq(Bytes) /\ Sendable(peer, sent[Cut + 1])
  BY <1>1, <1>2, FrontIsNext
<1>4. PICK w \in Wrappings(peer, sent[Cut + 1]) :
        /\ w \in Seq(Bytes)
        /\ Agrees(buffer, w)
        /\ Carries(SubSeq(InFlight, Len(w) + 1, Len(InFlight)), Cut + 1, sent, peer)
  BY <1>1, <1>2, FrontIsNext
<1>5. buffer \in Seq(Bytes) /\ Len(buffer) \in Nat /\ Len(w) \in Nat
  BY <1>4, LenProperties DEF CuttingInv, MemoryInv, TypeOK
<1>6. /\ Len(buffer) >= Len(w)
      /\ LineEndAt(buffer) = Len(w)
      /\ TrimCR(SubSeq(buffer, 1, Len(w) - 1)) = sent[Cut + 1]
  BY <1>1, <1>2, <1>3, <1>4, <1>5, LineIsMessage DEF LineReady
<1>7. Len(w) \in 0..Len(buffer)
  BY <1>5, <1>6
<1> QED
  BY <1>1, <1>2, <1>4, <1>6, <1>7, CutKeepsOrder

\* The frame at the head is queued or passed over; the next is the next message.
LEMMA EmitKeepsOrder ==
    ASSUME CuttingInv, MemoryInv', EmitFrame \/ EmitTooLong
    PROVE  CuttingInv'
<1>1. /\ pc = "emit" /\ pc' = pc /\ frames # <<>> /\ frames' = Tail(frames)
      /\ UNCHANGED <<peer, sent, wire, buffer, style>>
  BY DEF EmitFrame, EmitTooLong, peerSide
<1>2. TypeOK /\ frames \in Seq(Seq(Bytes)) /\ emitted \in Seq(Seq(Bytes))
  BY DEF CuttingInv, MemoryInv, TypeOK
<1>3. /\ Len(frames') = Len(frames) - 1
      /\ \A i \in 1..Len(frames') : frames'[i] = frames[i + 1]
      /\ Len(frames) \in Nat \ {0} /\ Head(frames) \in Seq(Bytes)
  BY <1>1, <1>2, HeadTailProperties, EmptySeq
<1>4. Out \in Nat /\ Cut = Out + Len(frames) /\ Len(emitted) \in Nat
      /\ metrics["decode_error"] \in Nat
  BY <1>2, Numbers
<1>5. Out' = Out + 1
  <2>1. CASE EmitFrame
    <3>1. Len(emitted') = Len(emitted) + 1
      BY <1>2, <1>3, <2>1, AppendProperties DEF EmitFrame
    <3>2. metrics'["decode_error"] = metrics["decode_error"]
      BY <1>2, <2>1, CountsAreNumbers DEF EmitFrame, TypeOK, MetricNames
    <3> QED
      BY <1>4, <3>1, <3>2, SMTT(20) DEF Out
  <2>2. CASE EmitTooLong
    <3>1. emitted' = emitted
      BY <2>2 DEF EmitTooLong
    <3>2. metrics'["decode_error"] = metrics["decode_error"] + 1
      BY <1>2, <2>2, CountsAreNumbers DEF EmitTooLong, TypeOK, MetricNames
    <3> QED
      BY <1>4, <3>1, <3>2 DEF Out
  <2> QED
    BY <2>1, <2>2
<1>6. Cut' = Cut
  BY <1>3, <1>4, <1>5 DEF Cut
<1>7. InFlight' = InFlight
  BY <1>1 DEF InFlight
<1>8. \A i \in 1..Len(frames') : frames'[i] = sent'[Out' + i]
  <2> SUFFICES ASSUME NEW i \in 1..Len(frames') PROVE frames'[i] = sent[Out' + i]
    BY <1>1
  <2>1. i + 1 \in 1..Len(frames) /\ Out + (i + 1) = Out' + i
    BY <1>3, <1>4, <1>5
  <2>2. frames[i + 1] = sent[Out + (i + 1)]
    BY <1>1, <2>1 DEF CuttingInv, CutRight
  <2> QED
    BY <1>3, <2>1, <2>2
<1>9. NothingToCut' <=> NothingToCut
  BY <1>1 DEF NothingToCut, MayBeOctet, CountOK, OctetComplete, LineReady
<1>10. PeerConforms'
  BY <1>1 DEF CuttingInv, PeerConforms
<1> QED
  BY <1>1, <1>6, <1>7, <1>8, <1>9, <1>10 DEF CuttingInv, CutRight

\* Each step keeps the invariant, action by action.
LEMMA CuttingKept ==
    ASSUME ~AnyFirst, CuttingInv, [Next]_vars
    PROVE  CuttingInv'
<1>1. MemoryInv' /\ TypeOK
  BY MemoryKept DEF CuttingInv, MemoryInv
<1>2. ASSUME NEW m \in Messages, PeerSends(m) PROVE CuttingInv'
  BY <1>1, <1>2, SendKeepsOrder
<1>3. ASSUME NEW n \in 1..RecvSize, Recv(n) PROVE CuttingInv'
  BY <1>1, <1>3, RecvKeepsOrder
<1>4. CASE TakeOctetFrame
  BY <1>1, <1>4, OctetFrameKeepsOrder
<1>5. CASE TakeLine
  BY <1>1, <1>5, LineKeepsOrder
<1>6. CASE EmitFrame \/ EmitTooLong
  BY <1>1, <1>6, EmitKeepsOrder
<1>7. CASE RecvEnd
  <2>1. pc = "recv" /\ wire = <<>> /\ frames = <<>> /\ NothingToCut
    BY <1>7 DEF RecvEnd, CuttingInv, MemoryInv, CutRight, Feeding
  <2>2. Cut = Len(sent)
    BY <2>1, NothingIsLeft
  <2>3. Out = Len(sent)
    BY <1>1, <2>1, <2>2, Numbers
  <2>4. emitted' = emitted /\ metrics' = metrics /\ End("eof")
    BY <1>7 DEF RecvEnd
  <2>5. Out' = Len(sent)
    BY <2>3, <2>4 DEF Out
  <2> QED
    BY <1>1, <2>4, <2>5, EndKeepsOrder
<1>8. CASE FeedPasses \/ FeedRefuses \/ RefuseCount
  <2>1. /\ UNCHANGED <<peer, sent, wire, buffer, style, frames, emitted, metrics>>
        /\ pc # "closed" /\ pc' # "closed" /\ pc' \in Feeding
    BY <1>8 DEF FeedPasses, FeedRefuses, RefuseCount, Feeding, peerSide, framer
  <2>2. InFlight' = InFlight /\ Out' = Out
    BY <2>1 DEF InFlight, Out
  <2> QED
    BY <1>1, <2>1, <2>2, SameStream
<1>9. CASE LoopEnds \/ RecvFails \/ FrameErrorEnds \/ EmitOverflows
  BY <1>1, <1>9, EndKeepsOrder DEF LoopEnds, RecvFails, FrameErrorEnds, EmitOverflows
<1>10. CASE LoopTop \/ RecvTimesOut \/ NoMoreFrames \/ EmitDone
  <2>1. /\ UNCHANGED <<peer, sent, wire, buffer, style, frames, emitted, metrics>>
        /\ pc # "closed" /\ pc' # "closed"
    BY <1>10 DEF LoopTop, RecvTimesOut, NoMoreFrames, EmitDone, peerSide, framer
  <2>2. NothingToCut
    BY <1>10 DEF LoopTop, RecvTimesOut, NoMoreFrames, EmitDone, CuttingInv, CutRight, NothingToCut,
                 Feeding
  <2>3. NothingToCut' /\ InFlight' = InFlight /\ Out' = Out
    BY <2>1, <2>2 DEF NothingToCut, MayBeOctet, CountOK, OctetComplete, LineReady, InFlight, Out
  <2> QED
    BY <1>1, <2>1, <2>3, SameStream
<1>11. CASE PeerCloses \/ CollectorStops \/ UNCHANGED vars
  <2>1. UNCHANGED <<peer, sent, wire, buffer, style, frames, emitted, metrics, pc, ending>>
    BY <1>11 DEF PeerCloses, CollectorStops, vars, peerSide, framer
  <2>2. (NothingToCut' <=> NothingToCut) /\ InFlight' = InFlight /\ Out' = Out
    BY <2>1 DEF NothingToCut, MayBeOctet, CountOK, OctetComplete, LineReady, InFlight, Out
  <2>3. Cut' = Cut
    BY <2>1, <2>2 DEF Cut
  <2> QED
    BY <1>1, <2>1, <2>2, <2>3 DEF CuttingInv, CutRight, PeerConforms
<1> QED
  BY <1>2, <1>3, <1>4, <1>5, <1>6, <1>7, <1>8, <1>9, <1>10, <1>11
     DEF Next, Loop, Receive, Feed, Extract, Emit, CuttingInv

\* The invariant of the order.
LEMMA CuttingHolds ==
    ASSUME ~AnyFirst
    PROVE  Spec => []CuttingInv
<1>1. CuttingInv /\ [Next]_vars => CuttingInv'
  BY CuttingKept
<1> QED
  BY CuttingAtStart, <1>1, PTL DEF Spec

-----------------------------------------------------------------------------
(* The promise of module MessageStream. *)

\* Whatever the chunks, the messages come out whole, in order and once: the connection of
\* a peer whose first message shows its style implements MessageStream.
THEOREM MessagesInOrder ==
    ASSUME ~AnyFirst
    PROVE  Spec => KeepsOrder
<1>1. Init => Stream!Init
  BY DEF Init, Stream!Init, MetricNames
<1>2. CuttingInv /\ [Next]_vars => [Stream!Next]_(Stream!stream)
  <2> SUFFICES ASSUME CuttingInv, [Next]_vars PROVE Stream!Next \/ UNCHANGED Stream!stream
    OBVIOUS
  <2>1. TypeOK
    BY DEF CuttingInv, MemoryInv
  <2>2. ASSUME NEW m \in Messages, PeerSends(m) PROVE Stream!Next
    <3>1. Stream!Send(m)
      BY <2>2 DEF PeerSends, Stream!Send
    <3> QED
      BY <3>1 DEF Stream!Next
  <2>3. CASE EmitFrame \/ EmitTooLong
    <3>1. pc # "closed" /\ pc' # "closed" /\ frames # <<>> /\ sent' = sent
      BY <2>3 DEF EmitFrame, EmitTooLong, peerSide
    <3>2. Len(frames) \in Nat \ {0} /\ Head(frames) = frames[1]
      BY <2>1, <3>1, EmptySeq DEF TypeOK
    <3>3. Out + 1 <= Len(sent)
      BY <2>1, <3>1, <3>2, Numbers DEF CuttingInv, CutRight, Carries
    <3>4. Head(frames) = sent[Out + 1]
      BY <3>1, <3>2 DEF CuttingInv, CutRight
    <3>5. Stream!NextUp = Out + 1
      BY DEF Stream!NextUp, Out
    <3>6. CASE EmitFrame
      <4>1. /\ Fits(Head(frames)) /\ emitted' = Append(emitted, Head(frames))
            /\ metrics'["decode_error"] = metrics["decode_error"]
        BY <2>1, <3>6, CountsAreNumbers DEF EmitFrame, TypeOK, MetricNames
      <4>2. Stream!Pass
        BY <3>1, <3>3, <3>4, <3>5, <4>1 DEF Stream!Pass
      <4> QED
        BY <4>2 DEF Stream!Next
    <3>7. CASE EmitTooLong
      <4>1. /\ ~Fits(Head(frames)) /\ emitted' = emitted
            /\ metrics'["decode_error"] = metrics["decode_error"] + 1
        BY <2>1, <3>7, CountsAreNumbers DEF EmitTooLong, TypeOK, MetricNames
      <4>2. Stream!Skip
        BY <3>1, <3>3, <3>4, <3>5, <4>1 DEF Stream!Skip
      <4> QED
        BY <4>2 DEF Stream!Next
    <3> QED
      BY <2>3, <3>6, <3>7
  <2>4. ASSUME NEW reason, End(reason), pc # "closed", emitted' = emitted,
               metrics'["decode_error"] = metrics["decode_error"]
        PROVE  Stream!Next
    <3>1. Stream!End
      BY <2>4 DEF End, Stream!End, peerSide
    <3> QED
      BY <3>1 DEF Stream!Next
  <2>5. CASE LoopEnds \/ RecvEnd \/ RecvFails
    BY <2>4, <2>5 DEF LoopEnds, RecvEnd, RecvFails
  <2>6. CASE FrameErrorEnds \/ EmitOverflows
    <3>1. metrics' = Count(metrics, "frame_error") \/ metrics' = Overflowed
      BY <2>6 DEF FrameErrorEnds, EmitOverflows
    <3>2. metrics'["decode_error"] = metrics["decode_error"]
      <4>1. CASE metrics' = Count(metrics, "frame_error")
        BY <2>1, <4>1, CountsAreNumbers DEF TypeOK, MetricNames
      <4>2. CASE metrics' = Overflowed
        BY <2>1, <4>2, CountsAreNumbers DEF Overflowed, TypeOK, MetricNames
      <4> QED
        BY <3>1, <4>1, <4>2
    <3> QED
      BY <2>4, <2>6, <3>2 DEF FrameErrorEnds, EmitOverflows
  <2>7. CASE \/ PeerCloses \/ CollectorStops \/ LoopTop \/ RecvTimesOut \/ NoMoreFrames \/ EmitDone
             \/ UNCHANGED vars \/ TakeOctetFrame \/ TakeLine
             \/ FeedPasses \/ FeedRefuses \/ RefuseCount
             \/ \E n \in 1..RecvSize : Recv(n)
    <3>1. sent' = sent /\ emitted' = emitted /\ metrics' = metrics
      BY <2>7 DEF PeerCloses, CollectorStops, LoopTop, RecvTimesOut, NoMoreFrames, EmitDone, vars,
                  TakeOctetFrame, TakeLine, Recv, FeedPasses, FeedRefuses, RefuseCount, peerSide
    <3>2. (pc' = "closed") = (pc = "closed")
      BY <2>7 DEF PeerCloses, CollectorStops, LoopTop, RecvTimesOut, NoMoreFrames, EmitDone, vars,
                  TakeOctetFrame, TakeLine, Recv, FeedPasses, FeedRefuses, RefuseCount
    <3> QED
      BY <3>1, <3>2 DEF Stream!stream
  <2> QED
    BY <2>2, <2>3, <2>5, <2>6, <2>7 DEF Next, Loop, Receive, Feed, Extract, Emit
<1> QED
  BY <1>1, <1>2, CuttingHolds, PTL DEF Spec, KeepsOrder, Stream!Spec

-----------------------------------------------------------------------------
(* The counters. *)

\* While the thread runs no error is counted.
LEMMA EndsOnce ==
    ASSUME TypeOK, Accounted, pc # "closed"
    PROVE  /\ metrics["frame_error"] = 0 /\ metrics["overflow"] = 0
           /\ metrics["received"] = Len(emitted)
           /\ Len(emitted) \in Nat
BY Numbers DEF Accounted

\* Each frame that fits is counted as received, queued or not, and each ending that is an
\* error is counted once (CollectorStage.emit, TcpCollector._handle).
THEOREM FramesAccounted == Spec => []Accounted
<1>1. Init => Accounted
  BY DEF Init, Accounted, MetricNames
<1>2. TypeOK /\ Accounted /\ [Next]_vars => Accounted'
  <2> SUFFICES ASSUME TypeOK, Accounted, [Next]_vars PROVE Accounted'
    OBVIOUS
  <2>1. /\ metrics["frame_error"] \in Nat /\ metrics["overflow"] \in Nat
        /\ metrics["received"] \in Nat /\ metrics["decode_error"] \in Nat
    BY DEF TypeOK, MetricNames
  <2>2. CASE LoopEnds \/ RecvEnd \/ RecvFails
    <3>1. /\ pc # "closed" /\ pc' = "closed" /\ ending' \in {"stopped", "eof", "reset"}
          /\ emitted' = emitted /\ metrics' = metrics
      BY <2>2 DEF LoopEnds, RecvEnd, RecvFails, End
    <3> QED
      BY <3>1, EndsOnce DEF Accounted
  <2>3. CASE FrameErrorEnds
    <3>1. /\ pc # "closed" /\ pc' = "closed" /\ ending' = "error"
          /\ emitted' = emitted /\ metrics' = Count(metrics, "frame_error")
      BY <2>3 DEF FrameErrorEnds, End
    <3>2. /\ metrics'["frame_error"] = metrics["frame_error"] + 1
          /\ metrics'["overflow"] = metrics["overflow"]
          /\ metrics'["received"] = metrics["received"]
      BY <3>1, CountsAreNumbers DEF TypeOK, MetricNames
    <3> QED
      BY <3>1, <3>2, EndsOnce DEF Accounted
  <2>4. CASE EmitOverflows
    <3>1. /\ pc # "closed" /\ pc' = "closed" /\ ending' = "overflow"
          /\ emitted' = emitted /\ metrics' = Overflowed
      BY <2>4 DEF EmitOverflows, End
    <3>2. /\ metrics'["frame_error"] = metrics["frame_error"]
          /\ metrics'["overflow"] = metrics["overflow"] + 1
          /\ metrics'["received"] = metrics["received"] + 1
      BY <3>1, CountsAreNumbers DEF Overflowed, TypeOK, MetricNames
    <3> QED
      BY <3>1, <3>2, EndsOnce DEF Accounted
  <2>5. CASE EmitFrame
    <3>1. /\ pc # "closed" /\ pc' = pc /\ ending' = ending
          /\ emitted' = Append(emitted, Head(frames)) /\ metrics' = Count(metrics, "received")
          /\ frames # <<>>
      BY <2>5 DEF EmitFrame
    <3>2. Len(emitted') = Len(emitted) + 1
      BY <3>1, HeadTailProperties, AppendProperties DEF TypeOK
    <3>3. /\ metrics'["frame_error"] = metrics["frame_error"]
          /\ metrics'["overflow"] = metrics["overflow"]
          /\ metrics'["received"] = metrics["received"] + 1
      BY <3>1, CountsAreNumbers DEF TypeOK, MetricNames
    <3> QED
      BY <3>1, <3>2, <3>3, EndsOnce DEF Accounted
  <2>6. CASE EmitTooLong
    <3>1. /\ pc' = pc /\ ending' = ending
          /\ emitted' = emitted /\ metrics' = Count(metrics, "decode_error")
      BY <2>6 DEF EmitTooLong
    <3>2. /\ metrics'["frame_error"] = metrics["frame_error"]
          /\ metrics'["overflow"] = metrics["overflow"]
          /\ metrics'["received"] = metrics["received"]
      BY <3>1, CountsAreNumbers DEF TypeOK, MetricNames
    <3> QED
      BY <3>1, <3>2 DEF Accounted
  <2>7. CASE \/ PeerCloses \/ CollectorStops \/ LoopTop \/ RecvTimesOut \/ NoMoreFrames \/ EmitDone
             \/ UNCHANGED vars \/ TakeOctetFrame \/ TakeLine
             \/ FeedPasses \/ FeedRefuses \/ RefuseCount
             \/ (\E n \in 1..RecvSize : Recv(n)) \/ (\E m \in Messages : PeerSends(m))
    <3>1. emitted' = emitted /\ metrics' = metrics /\ ending' = ending
      BY <2>7 DEF PeerCloses, CollectorStops, LoopTop, RecvTimesOut, NoMoreFrames, EmitDone, vars,
                  TakeOctetFrame, TakeLine, Recv, FeedPasses, FeedRefuses, RefuseCount, PeerSends
    <3>2. pc' = "closed" <=> pc = "closed"
      BY <2>7 DEF PeerCloses, CollectorStops, LoopTop, RecvTimesOut, NoMoreFrames, EmitDone, vars,
                  TakeOctetFrame, TakeLine, Recv, FeedPasses, FeedRefuses, RefuseCount, PeerSends
    <3> QED
      BY <3>1, <3>2 DEF Accounted
  <2> QED
    BY <2>2, <2>3, <2>4, <2>5, <2>6, <2>7 DEF Next, Loop, Receive, Feed, Extract, Emit
<1> QED
  BY <1>1, <1>2, FramingTypeCorrect, PTL DEF Spec

\* A connection whose messages did not all come out was broken off or stopped, or an error
\* was counted for it; only the end of the stream would go unnoticed, and there all has
\* come out.
THEOREM NoSilentLoss ==
    ASSUME ~AnyFirst
    PROVE  Spec => []LossIsCounted
<1>1. CuttingInv /\ Accounted => LossIsCounted
  <2> SUFFICES ASSUME CuttingInv, Accounted, pc = "closed",
                      Len(emitted) + metrics["decode_error"] < Len(sent),
                      ending \notin {"stopped", "reset"}
               PROVE  metrics["frame_error"] + metrics["overflow"] = 1
    BY DEF LossIsCounted
  <2>1. TypeOK
    BY DEF CuttingInv, MemoryInv
  <2>2. ending # "eof"
    BY <2>1, Numbers DEF CuttingInv, Out
  <2>3. ending = "error" \/ ending = "overflow"
    BY <2>1, <2>2 DEF Accounted, TypeOK
  <2> QED
    BY <2>3 DEF Accounted
<1> QED
  BY <1>1, CuttingHolds, FramesAccounted, PTL

=============================================================================
