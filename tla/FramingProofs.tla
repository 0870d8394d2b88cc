---------------------------- MODULE FramingProofs ----------------------------
(***************************************************************************)
(* What Framing does for every camera, every fragmentation of its stream   *)
(* and every capacity of the queue.  FramesExact rests on Laid (what the   *)
(* connection carries is the segments, one after the other), on InStep     *)
(* (only a keepalive leaves the loop inside a frame) and on Heard (and     *)
(* then it has read of that frame); DeliveredInOrder rests on Owned (a     *)
(* buffer is in one place) and on Contents (a buffer in the channel holds  *)
(* the packet that was queued there).                                      *)
(***************************************************************************)
EXTENDS Framing, SequenceTheorems, FiniteSetTheorems, TLAPS

Packets == Seq(Nat)

FramingTypeOK ==
  /\ bytes \in Seq(Nat) /\ sent \in Seq([from : Nat, segment : Segments])
  /\ arrived \in 0 .. Len(bytes) /\ pos \in 0 .. arrived
  /\ quit \in BOOLEAN /\ closing \in {"no", "asking", "draining"}
  /\ asking \in BOOLEAN /\ unheard \subseteq Nat /\ cut \in BOOLEAN /\ phantom \in BOOLEAN
  /\ taken \in Seq([from : Nat, packet : Packets])
  /\ pool \subseteq Buffers /\ memory \in [Buffers -> Packets]
  /\ received \in Seq(Buffers) /\ queued \in Seq(Packets)
  /\ held \in Buffers \cup {NoBuffer}
  /\ delivered \in Seq([number : Nat, packet : Packets])
  /\ gone \in Nat /\ ticket \in Nat

----------------------------------------------------------------------------
(* The inductive invariant of the stream.                                  *)

Size(x) == Len(Encode(x.segment))
End(x)  == x.from + Size(x)

\* The bytes are the segments, one after the other.
Laid ==
  /\ \A i \in 1 .. Len(sent) :
       /\ End(sent[i]) <= Len(bytes)
       /\ \A k \in 1 .. Size(sent[i]) : bytes[sent[i].from + k] = Encode(sent[i].segment)[k]
  /\ \A i, j \in 1 .. Len(sent) : i < j => End(sent[i]) <= sent[j].from
  /\ \A p \in 1 .. Len(bytes) : \E i \in 1 .. Len(sent) :
       sent[i].from < p /\ p <= End(sent[i])

\* The loop stands in no frame.
Between ==
  \A i \in 1 .. Len(sent) : ~sent[i].segment.stray =>
    pos <= sent[i].from \/ End(sent[i]) <= pos

\* It is a keepalive that leaves it in one, and no header is taken from
\* inside a frame otherwise.
InStep == (~cut => Between) /\ (phantom => cut)

\* A packet that was built lies behind the loop.
Behind == \A j \in 1 .. Len(taken) : taken[j].from < pos

\* Of the frame the loop stands in a keepalive has read.
Heard ==
  ~phantom => \A i \in 1 .. Len(sent) :
    ~sent[i].segment.stray /\ sent[i].from < pos /\ pos < End(sent[i]) => Unheard(sent[i])

\* A frame was built, or a keepalive has read of it.
Known(x) == (\E j \in 1 .. Len(taken) : taken[j] = AsTaken(x)) \/ Unheard(x)

\* The rest of FramesExact, over the ends of the segments.
Exact ==
  /\ ~phantom => \A i \in 1 .. Len(sent) :
       Wanted(sent[i]) /\ End(sent[i]) <= pos => Known(sent[i])
  /\ ~phantom => \A j \in 1 .. Len(taken) : \E i \in 1 .. Len(sent) :
       Wanted(sent[i]) /\ End(sent[i]) <= pos /\ taken[j] = AsTaken(sent[i])
  /\ \A i, j \in 1 .. Len(taken) : i < j => taken[i].from < taken[j].from

\* What holds until Close reads the stream too.
Undisturbed == InStep /\ Behind /\ Heard /\ Exact

StreamInv == Laid /\ (closing = "no" => Undisturbed)

----------------------------------------------------------------------------
(* The inductive invariant of the buffers.                                 *)

\* A buffer is in one place, and none is lost.
Owned ==
  /\ \A i, j \in 1 .. Len(received) : received[i] = received[j] => i = j
  /\ \A i \in 1 .. Len(received) : received[i] \notin pool /\ received[i] # held
  /\ held \notin pool
  /\ \A b \in Buffers : b \in pool \/ b = held \/ \E i \in 1 .. Len(received) : received[i] = b
  /\ Len(received) <= QueueSize

\* What is in the channel, and what the consumer holds, is what was queued.
Contents ==
  /\ Len(queued) = gone + Len(received)
  /\ \A i \in 1 .. Len(received) : memory[received[i]] = queued[gone + i]
  /\ held # NoBuffer => ticket \in 1 .. gone /\ memory[held] = queued[ticket]

\* The packets delivered came before the one the consumer holds; until Close
\* drains the channel, they are all that left it.
Delivered ==
  /\ ticket <= gone
  /\ \A i \in 1 .. Len(delivered) : delivered[i].number \in 1 .. ticket
  /\ held # NoBuffer => \A i \in 1 .. Len(delivered) : delivered[i].number < ticket
  /\ ~Drained => ticket = gone /\ gone = Len(delivered) + (IF held = NoBuffer THEN 0 ELSE 1)

\* DeliveredInOrder, over the lengths of the sequences.
Ordered ==
  /\ \A i \in 1 .. Len(delivered) :
       /\ delivered[i].packet = queued[delivered[i].number]
       /\ ~Drained => delivered[i].number = i
  /\ \A i, j \in 1 .. Len(delivered) : i < j => delivered[i].number < delivered[j].number

BufferInv == Owned /\ Contents /\ Delivered /\ Ordered

----------------------------------------------------------------------------
(* Segments and their bytes.                                               *)

\* Two sequences, one after the other.
LEMMA Concat ==
  ASSUME NEW S, NEW h \in Seq(S), NEW t \in Seq(S)
  PROVE  h \o t \in Seq(S) /\ Len(h \o t) = Len(h) + Len(t)
BY ConcatProperties, Zenon

LEMMA ConcatLeft ==
  ASSUME NEW S, NEW h \in Seq(S), NEW t \in Seq(S), NEW i \in 1 .. Len(h)
  PROVE  (h \o t)[i] = h[i]
<1>1. i \in 1 .. Len(h) + Len(t) /\ i <= Len(h)
  OBVIOUS
<1>2. QED
  BY <1>1, ConcatProperties, Zenon

LEMMA ConcatRight ==
  ASSUME NEW S, NEW h \in Seq(S), NEW t \in Seq(S), NEW i \in 1 .. Len(t)
  PROVE  (h \o t)[Len(h) + i] = t[i]
<1> DEFINE n == Len(h) + i
<1>1. n \in 1 .. Len(h) + Len(t) /\ ~(n <= Len(h)) /\ n - Len(h) = i
  OBVIOUS
<1> HIDE DEF n
<1>2. (h \o t)[n] = t[n - Len(h)]
  BY <1>1, ConcatProperties, Zenon
<1>3. QED
  BY <1>1, <1>2 DEF n

LEMMA AppendFacts ==
  ASSUME NEW S, NEW s \in Seq(S), NEW e \in S
  PROVE  /\ Len(Append(s, e)) = Len(s) + 1 /\ Append(s, e)[Len(s) + 1] = e
         /\ \A i \in 1 .. Len(s) : Append(s, e)[i] = s[i]
         /\ \A i \in 1 .. Len(s) + 1 : i \in 1 .. Len(s) \/ i = Len(s) + 1
<1>1. Len(Append(s, e)) = Len(s) + 1 /\ Append(s, e)[Len(s) + 1] = e
  <2>1. Len(Append(s, e)) = Len(s) + 1
    BY AppendProperties, Zenon
  <2>2. Append(s, e)[Len(s) + 1] = e
    BY AppendProperties, Zenon
  <2>3. QED
    BY <2>1, <2>2
<1>2. \A i \in 1 .. Len(s) : Append(s, e)[i] = s[i]
  <2> TAKE i \in 1 .. Len(s)
  <2>1. QED
    OBVIOUS
<1>3. Len(s) \in Nat
  OBVIOUS
<1>4. \A i \in 1 .. Len(s) + 1 : i \in 1 .. Len(s) \/ i = Len(s) + 1
  BY <1>3
<1>5. QED
  BY <1>1, <1>2, <1>4

\* A part of a sequence.
LEMMA Slice ==
  ASSUME NEW S, NEW s \in Seq(S), NEW m \in Nat, NEW n \in Nat, m < n, n <= Len(s)
  PROVE  /\ SubSeq(s, m + 1, n) \in Seq(S) /\ Len(SubSeq(s, m + 1, n)) = n - m
         /\ \A k \in 1 .. n - m : SubSeq(s, m + 1, n)[k] = s[m + k]
<1>1. \A i \in m + 1 .. n : s[i] \in S
  OBVIOUS
<1>2. m + 1 \in Int /\ n \in Int
  OBVIOUS
<1>3. SubSeq(s, m + 1, n) \in Seq(S)
  BY <1>1, <1>2, SubSeqProperties, Zenon
<1>4. QED
  BY <1>3

\* A frame is its header and its payload; stray bytes hold no `$`.
LEMMA EncodeFacts ==
  ASSUME NEW s \in Segments
  PROVE  /\ Encode(s) \in Packets /\ Len(Encode(s)) \in Nat \ {0}
         /\ s.stray => \A k \in 1 .. Len(Encode(s)) : Encode(s)[k] # Dollar
         /\ ~s.stray => /\ Len(Encode(s)) = Header + Len(s.bytes)
                        /\ Encode(s)[1] = Dollar
                        /\ Encode(s)[2] = s.channel
                        /\ Encode(s)[3] = Len(s.bytes)
<1>1. s.stray \in BOOLEAN /\ s.channel \in Nat /\ s.bytes \in Seq(Nat) /\ Len(s.bytes) \in Nat
  BY FramingAssumption
<1>2. CASE s.stray
  <2>1. Encode(s) = s.bytes /\ s.bytes # <<>> /\ \A i \in DOMAIN s.bytes : s.bytes[i] # Dollar
    BY <1>2, FramingAssumption DEF Encode
  <2>2. Len(s.bytes) # 0 /\ DOMAIN s.bytes = 1 .. Len(s.bytes)
    BY <1>1, <2>1
  <2>3. QED
    BY <1>1, <1>2, <2>1, <2>2 DEF Packets
<1>3. CASE ~s.stray
  <2> DEFINE head == <<Dollar, s.channel, Len(s.bytes)>>
  <2>1. head \in Seq(Nat) /\ Len(head) = 3 /\ head[1] = Dollar /\ head[2] = s.channel
        /\ head[3] = Len(s.bytes)
    BY <1>1 DEF Dollar
  <2>2. Encode(s) = head \o s.bytes
    BY <1>3 DEF Encode
  <2>3. /\ Encode(s) \in Seq(Nat) /\ Len(Encode(s)) = 3 + Len(s.bytes)
        /\ \A i \in 1 .. 3 : Encode(s)[i] = head[i]
    <3>1. /\ head \o s.bytes \in Seq(Nat) /\ Len(head \o s.bytes) = Len(head) + Len(s.bytes)
          /\ \A i \in 1 .. Len(head) : (head \o s.bytes)[i] = head[i]
      <4> HIDE DEF head
      <4>1. QED
        BY <1>1, <2>1, Concat, ConcatLeft, Zenon
    <3> HIDE DEF head
    <3>2. QED
      BY <1>1, <2>1, <2>2, <3>1
  <2>4. QED
    BY <1>1, <1>3, <2>1, <2>3 DEF Header, Packets
<1>4. QED
  BY <1>1, <1>2, <1>3

----------------------------------------------------------------------------
(* Types.                                                                  *)

\* What the loop reads of a header lies inside what has arrived.
LEMMA HeaderFacts ==
  ASSUME FramingTypeOK, HeaderThere
  PROVE  /\ AtFrame \in BOOLEAN /\ Channel \in Nat /\ Length \in Nat
         /\ FrameEnd \in Nat /\ FrameEnd = pos + 3 + Length /\ pos \in Nat /\ arrived \in Nat
         /\ pos + 1 \in 1 .. Len(bytes) /\ pos + 3 \in 1 .. arrived
         /\ FrameEnd <= arrived => FrameEnd \in 0 .. arrived
         /\ FrameEnd <= arrived => SubSeq(bytes, pos + 1, FrameEnd) \in Packets
<1>1. /\ bytes \in Seq(Nat) /\ Len(bytes) \in Nat /\ arrived \in Nat /\ pos \in Nat
      /\ arrived <= Len(bytes) /\ pos + 3 <= arrived
  BY DEF FramingTypeOK, HeaderThere, Header
<1>2. /\ pos + 1 \in 1 .. Len(bytes) /\ pos + 2 \in 1 .. Len(bytes) /\ pos + 3 \in 1 .. Len(bytes)
      /\ pos + 3 \in 1 .. arrived
  BY <1>1
<1>3. Channel \in Nat /\ Length \in Nat /\ AtFrame \in BOOLEAN
  BY <1>1, <1>2 DEF Channel, Length, AtFrame
<1>4. FrameEnd = pos + 3 + Length /\ FrameEnd \in Nat
  BY <1>1, <1>3 DEF FrameEnd, Header
<1>5. ASSUME FrameEnd <= arrived PROVE SubSeq(bytes, pos + 1, FrameEnd) \in Seq(Nat)
  <2>1. \A i \in pos + 1 .. FrameEnd : bytes[i] \in Nat
    BY <1>1, <1>4, <1>5
  <2>2. pos + 1 \in Int /\ FrameEnd \in Int
    BY <1>1, <1>4
  <2>3. QED
    BY <2>1, <2>2, SubSeqProperties, Zenon
<1>6. QED
  BY <1>1, <1>2, <1>3, <1>4, <1>5 DEF Packets

LEMMA TypesInit == Init => FramingTypeOK
<1> SUFFICES ASSUME Init PROVE FramingTypeOK
  OBVIOUS
<1>1. memory \in [Buffers -> Packets]
  <2>1. <<>> \in Packets
    BY DEF Packets
  <2>2. QED
    BY <2>1, Zenon DEF Init
<1>2. pool \subseteq Buffers
  BY Zenon DEF Init
<1>3. /\ bytes = <<>> /\ sent = <<>> /\ arrived = 0 /\ pos = 0 /\ taken = <<>> /\ quit = FALSE
      /\ received = <<>> /\ queued = <<>> /\ held = NoBuffer /\ delivered = <<>>
      /\ gone = 0 /\ ticket = 0 /\ closing = "no"
      /\ asking = FALSE /\ unheard = {} /\ cut = FALSE /\ phantom = FALSE
  BY DEF Init
<1>4. bytes \in Seq(Nat) /\ arrived \in 0 .. Len(bytes) /\ pos \in 0 .. arrived
  BY <1>3
<1>5. /\ sent \in Seq([from : Nat, segment : Segments]) /\ received \in Seq(Buffers)
      /\ taken \in Seq([from : Nat, packet : Packets]) /\ queued \in Seq(Packets)
      /\ delivered \in Seq([number : Nat, packet : Packets])
  BY <1>3, EmptySeq, Zenon
<1>6. QED
  BY <1>1, <1>2, <1>3, <1>4, <1>5 DEF FramingTypeOK

\* A type holds of every step.
LEMMA TypesNext == FramingTypeOK /\ [Next]_vars => FramingTypeOK'
<1> SUFFICES ASSUME FramingTypeOK, [Next]_vars PROVE FramingTypeOK'
  OBVIOUS
<1> USE DEF FramingTypeOK
<1>1. ASSUME NEW s \in Segments, Send(s) PROVE FramingTypeOK'
  <2>1. bytes' \in Seq(Nat) /\ Len(bytes') \in Nat /\ Len(bytes) <= Len(bytes')
    <3>1. Encode(s) \in Seq(Nat) /\ Len(Encode(s)) \in Nat
      BY EncodeFacts DEF Packets
    <3>2. bytes' \in Seq(Nat) /\ Len(bytes') = Len(bytes) + Len(Encode(s))
      BY <1>1, <3>1, Concat, Zenon DEF Send
    <3>3. QED
      BY <3>1, <3>2
  <2>2. sent' \in Seq([from : Nat, segment : Segments])
    <3>1. [from |-> Len(bytes), segment |-> s] \in [from : Nat, segment : Segments]
      OBVIOUS
    <3>2. QED
      BY <1>1, <3>1 DEF Send
  <2>3. UNCHANGED <<arrived, loop, quit, keepalive, channel, tracks, closing>>
    BY <1>1 DEF Send
  <2>4. QED
    BY <2>1, <2>2, <2>3 DEF loop, keepalive, channel, tracks
<1>2. CASE Arrive
  BY <1>2 DEF Arrive, wire, loop, keepalive, channel, tracks
<1>3. CASE TimeOut
  BY <1>3 DEF TimeOut, PeekTimesOut, wire, keepalive, channel, tracks
<1>4. CASE Resync
  <2>1. pos + 1 \in 0 .. arrived
    BY <1>4, HeaderFacts DEF Resync
  <2>2. QED
    BY <1>4, <2>1 DEF Resync, wire, keepalive, channel, tracks
<1>5. CASE ReadOver
  <2>1. FrameEnd \in 0 .. arrived
    BY <1>5, HeaderFacts DEF ReadOver, FrameThere
  <2>2. phantom' \in BOOLEAN
    BY <1>5, Zenon DEF ReadOver, Inside
  <2>3. QED
    BY <1>5, <2>1, <2>2 DEF ReadOver, wire, keepalive, channel, tracks
<1>6. CASE ReadError
  BY <1>6 DEF ReadError, wire, loop, keepalive, channel, tracks
<1>7. ASSUME NEW b \in Buffers, ReadPacket(b) PROVE FramingTypeOK'
  <2> DEFINE packet == SubSeq(bytes, pos + 1, FrameEnd)
  <2>1. FrameEnd \in 0 .. arrived /\ packet \in Packets /\ pos \in Nat
    BY <1>7, HeaderFacts DEF ReadPacket, FrameThere
  <2> HIDE DEF packet
  <2>2. /\ memory' = [memory EXCEPT ![b] = packet] /\ QueueOrDrop(b, packet)
        /\ taken' = Append(taken, [from |-> pos, packet |-> packet]) /\ pos' = FrameEnd
        /\ UNCHANGED <<wire, arrived, quit, keepalive, tracks, closing>>
    BY <1>7 DEF ReadPacket, packet
  <2>3. taken' \in Seq([from : Nat, packet : Packets])
    <3>1. [from |-> pos, packet |-> packet] \in [from : Nat, packet : Packets]
      BY <2>1
    <3>2. QED
      BY <2>2, <3>1
  <2>4. memory' \in [Buffers -> Packets]
    BY <2>1, <2>2
  <2>5. pool' \subseteq Buffers /\ received' \in Seq(Buffers) /\ queued' \in Seq(Packets)
    <3>1. received \in Seq(Buffers) /\ b \in Buffers /\ queued \in Seq(Packets) /\ pool \subseteq Buffers
      BY <1>7
    <3>2. Append(received, b) \in Seq(Buffers) /\ Append(queued, packet) \in Seq(Packets)
      BY <2>1, <3>1, AppendProperties, Zenon
    <3>3. QED
      BY <2>2, <3>1, <3>2, Zenon DEF QueueOrDrop
  <2>6. /\ UNCHANGED <<bytes, sent, arrived, quit, held, delivered, gone, ticket, closing>>
        /\ UNCHANGED <<asking, unheard, cut>> /\ pos' \in 0 .. arrived
    BY <2>1, <2>2 DEF wire, keepalive, tracks
  <2>7. phantom' \in BOOLEAN
    BY <1>7, Zenon DEF ReadPacket, Inside
  <2>8. QED
    BY <2>3, <2>4, <2>5, <2>6, <2>7
<1>8. CASE Ask
  BY <1>8 DEF Ask, wire, loop, channel, tracks
<1>9. ASSUME NEW to \in 0 .. arrived, Hears(to), asking' \in BOOLEAN PROVE FramingTypeOK'
  <2>1. unheard' \subseteq Nat
    <3>1. pos \in Nat /\ unheard' = unheard \cup (pos + 1 .. to)
      BY <1>9 DEF Hears
    <3>2. QED
      BY <3>1
  <2>2. cut' \in BOOLEAN
    BY <1>9, Zenon DEF Hears, Inside
  <2>3. QED
    BY <1>9, <2>1, <2>2 DEF Hears, wire, channel, tracks
<1>10. CASE SkipFrame
  BY <1>9, <1>10, HeaderFacts DEF SkipFrame, FrameThere
<1>11. CASE ReadLine
  <2>1. asking' \in BOOLEAN
    BY <1>11 DEF ReadLine
  <2>2. PICK n \in LineEnds : Hears(n)
    BY <1>11 DEF ReadLine
  <2>3. n \in 0 .. arrived
    BY <2>2 DEF LineEnds
  <2>4. QED
    BY <1>9, <2>1, <2>2, <2>3
<1>12. CASE Expires
  <2>1. Hears(arrived) /\ asking' \in BOOLEAN
    BY <1>12 DEF Expires
  <2>2. arrived \in 0 .. arrived
    OBVIOUS
  <2>3. QED
    BY <1>9, <2>1, <2>2, Zenon
<1>13. CASE Consume
  <2>1. Head(received) \in Buffers /\ Tail(received) \in Seq(Buffers)
    BY <1>13 DEF Consume
  <2>2. QED
    BY <1>13, <2>1 DEF Consume, PoolKeepsHeld, wire, loop, keepalive
<1>14. CASE Deliver
  <2>1. memory[held] \in Packets /\ held \in Buffers
    BY <1>14 DEF Deliver
  <2>2. [number |-> ticket, packet |-> memory[held]] \in [number : Nat, packet : Packets]
    BY <2>1
  <2>3. delivered' \in Seq([number : Nat, packet : Packets])
    BY <1>14, <2>2 DEF Deliver
  <2>4. QED
    BY <1>14, <2>1, <2>3 DEF Deliver, wire, loop, keepalive
<1>15. CASE CloseAsks
  BY <1>15 DEF CloseAsks, wire, keepalive, channel, tracks
<1>16. CASE Drain
  <2>1. Head(received) \in Buffers /\ Tail(received) \in Seq(Buffers)
    BY <1>16 DEF Drain
  <2>2. QED
    BY <1>16, <2>1 DEF Drain, wire, loop, keepalive
<1>17. CASE UNCHANGED vars
  BY <1>17 DEF vars, wire, loop, keepalive, channel, tracks
<1>18. QED
  BY <1>1, <1>2, <1>3, <1>4, <1>5, <1>6, <1>7, <1>8, <1>10, <1>11, <1>12, <1>13, <1>14,
     <1>15, <1>16, <1>17 DEF Next

\* The loop reads no byte that has not arrived, and no buffer, packet or
\* number is of a kind the code does not handle (handleTCPPackets,
\* consumeRTPPackets).
THEOREM FramingTypes == Spec => []FramingTypeOK
<1>1. QED
  BY TypesInit, TypesNext, PTL DEF Spec

----------------------------------------------------------------------------
(* The stream.                                                             *)

\* Where a segment lies.
LEMMA SegmentFacts ==
  ASSUME FramingTypeOK, NEW i \in 1 .. Len(sent)
  PROVE  /\ sent[i].from \in Nat /\ sent[i].segment \in Segments
         /\ Size(sent[i]) \in Nat /\ Size(sent[i]) >= 1
         /\ End(sent[i]) = sent[i].from + Size(sent[i]) /\ End(sent[i]) \in Nat
         /\ ~sent[i].segment.stray => Size(sent[i]) = 3 + Len(sent[i].segment.bytes)
<1>1. sent[i] \in [from : Nat, segment : Segments]
  <2>1. sent \in Seq([from : Nat, segment : Segments])
    BY DEF FramingTypeOK
  <2>2. QED
    BY <2>1, ElementOfSeq, Zenon
<1>2. Len(Encode(sent[i].segment)) \in Nat \ {0}
  BY <1>1, EncodeFacts
<1>3. ~sent[i].segment.stray => Size(sent[i]) = Header + Len(sent[i].segment.bytes)
  BY <1>1, EncodeFacts DEF Size
<1>4. QED
  BY <1>1, <1>2, <1>3 DEF Size, End, Header

LEMMA TakenFacts ==
  ASSUME FramingTypeOK
  PROVE  pos \in Nat /\ Len(taken) \in Nat /\ \A j \in 1 .. Len(taken) : taken[j].from \in Nat
<1>1. taken \in Seq([from : Nat, packet : Packets]) /\ pos \in Nat
  BY DEF FramingTypeOK
<1>2. \A j \in 1 .. Len(taken) : taken[j] \in [from : Nat, packet : Packets]
  BY <1>1, ElementOfSeq, Zenon
<1>3. QED
  BY <1>1, <1>2

\* The places inside a frame, over its end.
LEMMA InsideFacts ==
  ASSUME FramingTypeOK
  PROVE  /\ \A p : Inside(p) <=> \E i \in 1 .. Len(sent) :
              ~sent[i].segment.stray /\ sent[i].from < p /\ p < End(sent[i])
         /\ ~Inside(pos) <=> Between
<1>1. DOMAIN sent = 1 .. Len(sent)
  BY DEF FramingTypeOK
<1>2. \A p : Inside(p) <=> \E i \in 1 .. Len(sent) :
        ~sent[i].segment.stray /\ sent[i].from < p /\ p < End(sent[i])
  BY <1>1, Zenon DEF Inside, End, Size
<1>3. \A i \in 1 .. Len(sent) :
        (pos <= sent[i].from \/ End(sent[i]) <= pos) <=> ~(sent[i].from < pos /\ pos < End(sent[i]))
  BY SegmentFacts, TakenFacts
<1>4. QED
  BY <1>2, <1>3, Zenon DEF Between

\* A `$` where the loop stands between the frames begins one, and the header
\* the loop reads is that frame's.
LEMMA AtFrameStart ==
  ASSUME FramingTypeOK, Laid, Between, HeaderThere, AtFrame
  PROVE  \E i \in 1 .. Len(sent) :
           /\ ~sent[i].segment.stray /\ sent[i].from = pos
           /\ Channel = sent[i].segment.channel /\ Length = Len(sent[i].segment.bytes)
           /\ FrameEnd = End(sent[i])
           /\ FrameEnd <= arrived => SubSeq(bytes, pos + 1, FrameEnd) = Encode(sent[i].segment)
<1>1. /\ pos + 1 \in 1 .. Len(bytes) /\ pos \in Nat /\ Len(bytes) \in Nat /\ Length \in Nat
      /\ FrameEnd = pos + 3 + Length /\ FrameEnd \in Nat
  BY HeaderFacts DEF FramingTypeOK
<1>2. PICK i \in 1 .. Len(sent) : sent[i].from < pos + 1 /\ pos + 1 <= End(sent[i])
  BY <1>1 DEF Laid
<1> DEFINE x == sent[i]
<1>3. /\ x.from \in Nat /\ x.segment \in Segments /\ Size(x) \in Nat /\ Size(x) >= 1
      /\ End(x) = x.from + Size(x) /\ (~x.segment.stray => Size(x) = 3 + Len(x.segment.bytes))
  BY SegmentFacts
<1>4. \A k \in 1 .. Size(x) : bytes[x.from + k] = Encode(x.segment)[k]
  BY DEF Laid
<1>5. ~x.segment.stray
  <2> SUFFICES ASSUME x.segment.stray PROVE FALSE
    OBVIOUS
  <2>1. (pos + 1 - x.from) \in 1 .. Size(x) /\ x.from + (pos + 1 - x.from) = pos + 1
    BY <1>1, <1>2, <1>3
  <2>2. bytes[pos + 1] = Encode(x.segment)[pos + 1 - x.from]
    BY <1>4, <2>1
  <2>3. Encode(x.segment)[pos + 1 - x.from] # Dollar
    BY <1>3, <2>1, EncodeFacts DEF Size
  <2>4. QED
    BY <2>2, <2>3 DEF AtFrame
<1>6. x.from = pos
  <2>1. pos <= x.from \/ End(x) <= pos
    BY <1>5 DEF Between
  <2>2. QED
    BY <1>1, <1>2, <1>3, <2>1
<1>7. /\ Encode(x.segment) \in Seq(Nat) /\ Len(Encode(x.segment)) = Size(x)
      /\ Encode(x.segment)[2] = x.segment.channel
      /\ Encode(x.segment)[3] = Len(x.segment.bytes)
      /\ Len(x.segment.bytes) \in Nat /\ Size(x) = 3 + Len(x.segment.bytes)
  BY <1>3, <1>5, EncodeFacts, FramingAssumption DEF Packets, Size
<1>8. bytes[pos + 2] = Encode(x.segment)[2] /\ bytes[pos + 3] = Encode(x.segment)[3]
  <2>1. 2 \in 1 .. Size(x) /\ 3 \in 1 .. Size(x)
    BY <1>7
  <2>2. QED
    BY <1>4, <1>6, <2>1
<1>9. Channel = x.segment.channel /\ Length = Len(x.segment.bytes)
  BY <1>7, <1>8 DEF Channel, Length
<1>10. FrameEnd = End(x) /\ FrameEnd = pos + Size(x) /\ pos < FrameEnd
  <2>1. FrameEnd = pos + (3 + Length) /\ pos < FrameEnd
    BY <1>1
  <2>2. Size(x) = 3 + Length
    BY <1>7, <1>9
  <2>3. End(x) = x.from + Size(x)
    BY <1>3
  <2>4. End(x) = pos + Size(x)
    BY <1>6, <2>3
  <2>5. FrameEnd = pos + Size(x)
    BY <2>1, <2>2
  <2>6. QED
    BY <2>1, <2>4, <2>5
<1>11. ASSUME FrameEnd <= arrived PROVE SubSeq(bytes, pos + 1, FrameEnd) = Encode(x.segment)
  <2>1. FrameEnd <= Len(bytes) /\ bytes \in Seq(Nat)
    BY <1>1, <1>11 DEF FramingTypeOK
  <2>2. FrameEnd - pos = Size(x)
    BY <1>1, <1>3, <1>10
  <2> DEFINE packet == SubSeq(bytes, pos + 1, FrameEnd)
  <2>3. /\ packet \in Seq(Nat) /\ Len(packet) = Size(x)
        /\ \A k \in 1 .. Size(x) : packet[k] = bytes[pos + k]
    <3>1. /\ SubSeq(bytes, pos + 1, FrameEnd) \in Seq(Nat)
          /\ Len(SubSeq(bytes, pos + 1, FrameEnd)) = FrameEnd - pos
          /\ \A k \in 1 .. FrameEnd - pos : SubSeq(bytes, pos + 1, FrameEnd)[k] = bytes[pos + k]
      <4>1. pos \in Nat /\ FrameEnd \in Nat /\ pos < FrameEnd
        BY <1>1, <1>10
      <4>2. QED
        BY <2>1, <4>1, Slice, Zenon
    <3>2. QED
      BY <2>2, <3>1
  <2> HIDE DEF packet
  <2>4. packet = Encode(x.segment)
    BY <1>4, <1>6, <1>7, <2>3, SeqEqual
  <2>5. QED
    BY <2>4 DEF packet
<1>12. QED
  BY <1>5, <1>6, <1>9, <1>10, <1>11

\* Past the frame it stood before, the loop stands in no other, and has
\* passed that one more.
LEMMA OverAFrame ==
  ASSUME FramingTypeOK, Laid,
         NEW i \in 1 .. Len(sent), ~sent[i].segment.stray, sent[i].from = pos
  PROVE  /\ \A j \in 1 .. Len(sent) : ~sent[j].segment.stray =>
              \/ End(sent[i]) <= sent[j].from
              \/ End(sent[j]) <= End(sent[i])
         /\ \A j \in 1 .. Len(sent) :
              ~sent[j].segment.stray /\ End(sent[j]) <= End(sent[i]) => j = i \/ End(sent[j]) <= pos
         /\ pos < End(sent[i])
<1>1. pos \in Nat /\ pos < End(sent[i]) /\ End(sent[i]) \in Nat
  BY SegmentFacts DEF FramingTypeOK
<1>2. ASSUME NEW j \in 1 .. Len(sent), j # i
      PROVE  /\ End(sent[i]) <= sent[j].from \/ End(sent[j]) <= pos
             /\ sent[j].from < End(sent[j]) /\ sent[j].from \in Nat /\ End(sent[j]) \in Nat
  <2>1. sent[j].from < End(sent[j]) /\ sent[j].from \in Nat /\ End(sent[j]) \in Nat
    BY SegmentFacts
  <2>2. i < j \/ j < i
    BY <1>2 DEF FramingTypeOK
  <2>3. QED
    BY <2>1, <2>2 DEF Laid
<1>3. QED
  BY <1>1, <1>2

\* What sending a segment does to the stream.
LEMMA SendFacts ==
  ASSUME FramingTypeOK, NEW s \in Segments, Send(s)
  PROVE  /\ Len(sent') = Len(sent) + 1 /\ Len(sent) \in Nat /\ Len(bytes) \in Nat
         /\ \A i \in 1 .. Len(sent) : sent'[i] = sent[i]
         /\ sent'[Len(sent) + 1] = [from |-> Len(bytes), segment |-> s]
         /\ Len(bytes') = Len(bytes) + Len(Encode(s)) /\ Len(Encode(s)) \in Nat \ {0}
         /\ \A p \in 1 .. Len(bytes) : bytes'[p] = bytes[p]
         /\ \A k \in 1 .. Len(Encode(s)) : bytes'[Len(bytes) + k] = Encode(s)[k]
<1>1. /\ sent \in Seq([from : Nat, segment : Segments]) /\ bytes \in Seq(Nat)
      /\ Encode(s) \in Seq(Nat) /\ Len(Encode(s)) \in Nat \ {0}
      /\ Len(sent) \in Nat /\ Len(bytes) \in Nat
  BY EncodeFacts DEF FramingTypeOK, Packets
<1>2. [from |-> Len(bytes), segment |-> s] \in [from : Nat, segment : Segments]
  BY <1>1
<1>3. /\ sent' = Append(sent, [from |-> Len(bytes), segment |-> s])
      /\ bytes' = bytes \o Encode(s)
  BY DEF Send
<1>4. /\ Len(bytes') = Len(bytes) + Len(Encode(s))
      /\ \A p \in 1 .. Len(bytes) : bytes'[p] = bytes[p]
      /\ \A k \in 1 .. Len(Encode(s)) : bytes'[Len(bytes) + k] = Encode(s)[k]
  <2>1. bytes \in Seq(Nat) /\ Encode(s) \in Seq(Nat)
    BY <1>1
  <2>2. Len(bytes \o Encode(s)) = Len(bytes) + Len(Encode(s))
    BY <2>1, Concat, Zenon
  <2>3. \A p \in 1 .. Len(bytes) : (bytes \o Encode(s))[p] = bytes[p]
    BY <2>1, ConcatLeft, Zenon
  <2>4. \A k \in 1 .. Len(Encode(s)) : (bytes \o Encode(s))[Len(bytes) + k] = Encode(s)[k]
    BY <2>1, ConcatRight, Zenon
  <2>5. QED
    BY <1>3, <2>2, <2>3, <2>4
<1>5. /\ Len(sent') = Len(sent) + 1
      /\ \A i \in 1 .. Len(sent) : sent'[i] = sent[i]
      /\ sent'[Len(sent) + 1] = [from |-> Len(bytes), segment |-> s]
  <2> DEFINE x == [from |-> Len(bytes), segment |-> s]
             R == [from : Nat, segment : Segments]
  <2>1. sent \in Seq(R) /\ x \in R /\ sent' = Append(sent, x)
    BY <1>1, <1>2, <1>3
  <2> HIDE DEF x, R
  <2>2. Len(sent') = Len(sent) + 1 /\ sent'[Len(sent) + 1] = x
    BY <2>1, AppendProperties, Zenon
  <2>3. \A i \in 1 .. Len(sent) : sent'[i] = sent[i]
    BY <2>1, AppendProperties, Zenon
  <2>4. QED
    BY <2>2, <2>3 DEF x
<1>6. QED
  BY <1>1, <1>4, <1>5

\* The stream stays laid out when a segment is added behind it.
LEMMA SendKeepsLaid ==
  ASSUME FramingTypeOK, Laid, NEW s \in Segments, Send(s)
  PROVE  Laid'
<1>0. /\ Len(sent') = Len(sent) + 1 /\ Len(sent) \in Nat /\ Len(bytes) \in Nat
      /\ \A i \in 1 .. Len(sent) : sent'[i] = sent[i]
      /\ sent'[Len(sent) + 1] = [from |-> Len(bytes), segment |-> s]
      /\ Len(bytes') = Len(bytes) + Len(Encode(s)) /\ Len(Encode(s)) \in Nat \ {0}
      /\ \A p \in 1 .. Len(bytes) : bytes'[p] = bytes[p]
      /\ \A k \in 1 .. Len(Encode(s)) : bytes'[Len(bytes) + k] = Encode(s)[k]
  BY SendFacts
<1> DEFINE m == Len(sent) + 1
<1>1. /\ \A i \in 1 .. Len(sent) : /\ sent'[i] = sent[i] /\ Size(sent'[i]) = Size(sent[i])
                                   /\ End(sent'[i]) = End(sent[i])
      /\ sent'[m].from = Len(bytes) /\ sent'[m].segment = s
      /\ Size(sent'[m]) = Len(Encode(s)) /\ End(sent'[m]) = Len(bytes')
  BY <1>0 DEF Size, End
<1>2. \A i \in 1 .. Len(sent') : i \in 1 .. Len(sent) \/ i = m
  BY <1>0
<1>3. Laid'
  <2>1. \A i \in 1 .. Len(sent) : /\ sent[i].from \in Nat /\ Size(sent[i]) \in Nat
          /\ End(sent[i]) = sent[i].from + Size(sent[i]) /\ End(sent[i]) <= Len(bytes)
    BY SegmentFacts DEF Laid
  <2>2. ASSUME NEW i \in 1 .. Len(sent')
        PROVE  /\ End(sent'[i]) <= Len(bytes')
               /\ \A k \in 1 .. Size(sent'[i]) :
                    bytes'[sent'[i].from + k] = Encode(sent'[i].segment)[k]
    <3>1. CASE i = m
      <4>1. End(sent'[m]) <= Len(bytes')
        BY <1>0, <1>1
      <4>2. \A k \in 1 .. Size(sent'[m]) : bytes'[sent'[m].from + k] = Encode(sent'[m].segment)[k]
        <5> HIDE DEF m
        <5>1. QED
          BY <1>0, <1>1
      <4>3. QED
        BY <3>1, <4>1, <4>2
    <3>2. CASE i \in 1 .. Len(sent)
      <4>1. \A k \in 1 .. Size(sent[i]) : sent[i].from + k \in 1 .. Len(bytes)
        BY <2>1, <3>2
      <4>2. \A k \in 1 .. Size(sent[i]) : bytes[sent[i].from + k] = Encode(sent[i].segment)[k]
        BY <3>2 DEF Laid
      <4>3. QED
        <5>1. \A k \in 1 .. Size(sent[i]) :
                bytes'[sent[i].from + k] = Encode(sent[i].segment)[k]
          BY <1>0, <4>1, <4>2
        <5>2. End(sent[i]) <= Len(bytes')
          BY <1>0, <2>1, <3>2
        <5>3. QED
          BY <1>0, <1>1, <3>2, <5>1, <5>2
    <3>3. QED
      BY <1>2, <3>1, <3>2
  <2>3. ASSUME NEW i \in 1 .. Len(sent'), NEW j \in 1 .. Len(sent'), i < j
        PROVE  End(sent'[i]) <= sent'[j].from
    <3>1. i \in 1 .. Len(sent)
      BY <1>0, <2>3
    <3>2. CASE j = m
      BY <1>1, <2>1, <3>1, <3>2
    <3>3. CASE j \in 1 .. Len(sent)
      BY <1>1, <2>3, <3>1, <3>3 DEF Laid
    <3>4. QED
      BY <1>2, <3>2, <3>3
  <2>4. ASSUME NEW p \in 1 .. Len(bytes')
        PROVE  \E i \in 1 .. Len(sent') : sent'[i].from < p /\ p <= End(sent'[i])
    <3>1. CASE p \in 1 .. Len(bytes)
      <4>1. PICK i \in 1 .. Len(sent) : sent[i].from < p /\ p <= End(sent[i])
        BY <3>1 DEF Laid
      <4>2. i \in 1 .. Len(sent')
        BY <1>0
      <4>3. QED
        BY <1>1, <4>1, <4>2
    <3>2. CASE p > Len(bytes)
      <4>1. m \in 1 .. Len(sent') /\ sent'[m].from < p /\ p <= End(sent'[m])
        BY <1>0, <1>1, <3>2
      <4>2. QED
        BY <4>1
    <3>3. QED
      BY <1>0, <3>1, <3>2
  <2>5. QED
    BY <2>2, <2>3, <2>4 DEF Laid
<1>4. QED
  BY <1>3

\* What is added lies ahead of the loop.
LEMMA SendKeeps ==
  ASSUME FramingTypeOK, Undisturbed, NEW s \in Segments, Send(s)
  PROVE  Undisturbed'
<1> DEFINE m == Len(sent) + 1
<1>0. /\ Len(sent') = m /\ Len(sent) \in Nat /\ Len(bytes) \in Nat
      /\ \A i \in 1 .. Len(sent) : sent'[i] = sent[i]
      /\ sent'[m] = [from |-> Len(bytes), segment |-> s]
      /\ Len(Encode(s)) \in Nat \ {0}
  BY SendFacts
<1>1. /\ Len(sent') = m /\ Len(sent) \in Nat /\ Len(bytes) \in Nat
      /\ \A i \in 1 .. Len(sent) : sent'[i] = sent[i] /\ i \in 1 .. m
      /\ sent'[m].from = Len(bytes)
      /\ \A i \in 1 .. m : i \in 1 .. Len(sent) \/ i = m
  BY <1>0
<1>2. /\ pos' = pos /\ taken' = taken /\ phantom' = phantom /\ cut' = cut /\ unheard' = unheard
      /\ pos \in Nat /\ pos <= Len(bytes)
  BY DEF Send, loop, keepalive, FramingTypeOK
<1>3. ~(sent'[m].from < pos) /\ ~(End(sent'[m]) <= pos) /\ pos <= sent'[m].from
  <2>1. End(sent'[m]) = Len(bytes) + Len(Encode(s)) /\ Len(Encode(s)) \in Nat
    BY <1>0 DEF End, Size
  <2>2. QED
    BY <1>0, <1>1, <1>2, <2>1
<1> HIDE DEF m
<1>4. \A i \in 1 .. Len(sent) : Known(sent[i])' <=> Known(sent[i])
  BY <1>1, <1>2, Zenon DEF Known, Unheard
<1>5. \A i \in 1 .. Len(sent) : Unheard(sent[i])' <=> Unheard(sent[i])
  BY <1>1, <1>2, Zenon DEF Unheard
<1>6. InStep'
  <2>1. Between => Between'
    BY <1>1, <1>2, <1>3 DEF Between, End, Size
  <2>2. QED
    BY <1>2, <2>1, Zenon DEF Undisturbed, InStep
<1>7. Behind'
  BY <1>2 DEF Undisturbed, Behind
<1>8. Heard'
  <2>1. ASSUME NEW i \in 1 .. Len(sent'), ~phantom, ~sent'[i].segment.stray,
               sent'[i].from < pos, pos < End(sent'[i])
        PROVE  Unheard(sent[i])'
    <3>1. i \in 1 .. Len(sent)
      BY <1>1, <1>3, <2>1, Zenon
    <3>2. sent'[i] = sent[i]
      BY <1>1, <3>1
    <3>3. Unheard(sent[i])
      BY <2>1, <3>1, <3>2, Zenon DEF Undisturbed, Heard
    <3>4. QED
      BY <1>5, <3>1, <3>3, Zenon
  <2>2. QED
    BY <1>2, <2>1, Zenon DEF Heard, End, Size
<1>9. Exact'
  <2>1. ASSUME NEW i \in 1 .. Len(sent'), ~phantom, Wanted(sent'[i]), End(sent'[i]) <= pos
        PROVE  Known(sent[i])'
    <3>1. i \in 1 .. Len(sent)
      BY <1>1, <1>3, <2>1, Zenon
    <3>2. sent'[i] = sent[i]
      BY <1>1, <3>1
    <3>3. Known(sent[i])
      BY <2>1, <3>1, <3>2, Zenon DEF Undisturbed, Exact
    <3>4. QED
      BY <1>4, <3>1, <3>3, Zenon
  <2>2. ASSUME NEW j \in 1 .. Len(taken), ~phantom
        PROVE  \E i \in 1 .. Len(sent') :
                 Wanted(sent'[i]) /\ End(sent'[i]) <= pos /\ taken[j] = AsTaken(sent'[i])
    <3>1. PICK i \in 1 .. Len(sent) :
            Wanted(sent[i]) /\ End(sent[i]) <= pos /\ taken[j] = AsTaken(sent[i])
      BY <2>2, Zenon DEF Exact, Undisturbed
    <3>2. i \in 1 .. Len(sent') /\ sent'[i] = sent[i]
      BY <1>1
    <3>3. QED
      BY <3>1, <3>2, Zenon
  <2>3. \A i, j \in 1 .. Len(taken) : i < j => taken[i].from < taken[j].from
    BY DEF Exact, Undisturbed
  <2>4. QED
    BY <1>2, <2>1, <2>2, <2>3, Zenon DEF Exact, End, Size, Wanted, AsTaken
<1>10. QED
  BY <1>6, <1>7, <1>8, <1>9 DEF Undisturbed

\* A byte that is no `$` begins no frame: skipping it leaves none behind but
\* the one the loop was in.
LEMMA ResyncKeeps ==
  ASSUME FramingTypeOK, Laid, Undisturbed, Resync
  PROVE  Undisturbed'
<1>1. /\ bytes' = bytes /\ sent' = sent /\ taken' = taken /\ pos' = pos + 1 /\ pos \in Nat
      /\ phantom' = phantom /\ cut' = cut /\ unheard' = unheard /\ HeaderThere /\ ~AtFrame
  BY DEF Resync, wire, keepalive, FramingTypeOK
<1>2. ASSUME NEW i \in 1 .. Len(sent), ~sent[i].segment.stray
      PROVE  /\ sent[i].from < pos + 1 => sent[i].from < pos
             /\ End(sent[i]) <= pos + 1 => End(sent[i]) <= pos \/ (sent[i].from < pos /\ pos < End(sent[i]))
             /\ pos + 1 < End(sent[i]) => pos < End(sent[i])
             /\ End(sent[i]) <= pos => End(sent[i]) <= pos + 1
             /\ Between => pos + 1 <= sent[i].from \/ End(sent[i]) <= pos + 1
  <2>1. /\ sent[i].from \in Nat /\ sent[i].segment \in Segments /\ Size(sent[i]) \in Nat
        /\ Size(sent[i]) >= 1 /\ End(sent[i]) = sent[i].from + Size(sent[i])
    BY SegmentFacts
  <2>2. sent[i].from # pos
    <3> SUFFICES ASSUME sent[i].from = pos PROVE FALSE
      OBVIOUS
    <3>1. bytes[pos + 1] = Encode(sent[i].segment)[1]
      <4>1. 1 \in 1 .. Size(sent[i])
        BY <2>1
      <4>2. QED
        BY <4>1 DEF Laid
    <3>2. Encode(sent[i].segment)[1] = Dollar
      BY <1>2, <2>1, EncodeFacts
    <3>3. QED
      BY <1>1, <3>1, <3>2 DEF AtFrame
  <2>3. Between => pos <= sent[i].from \/ End(sent[i]) <= pos
    BY <1>2, Zenon DEF Between
  <2>4. QED
    BY <1>1, <2>1, <2>2, <2>3
<1>3. InStep'
  <2>1. Between => Between'
    BY <1>1, <1>2, Zenon DEF Between, End, Size
  <2>2. QED
    BY <1>1, <2>1, Zenon DEF InStep, Undisturbed
<1>4. Behind'
  <2>1. \A j \in 1 .. Len(taken) : taken[j].from \in Nat
    BY TakenFacts
  <2>2. QED
    BY <1>1, <2>1 DEF Behind, Undisturbed
<1>5. Heard'
  BY <1>1, <1>2, Zenon DEF Heard, Undisturbed, Unheard, End, Size
<1>6. Exact'
  <2>1. ASSUME NEW i \in 1 .. Len(sent), ~phantom, Wanted(sent[i]), End(sent[i]) <= pos + 1
        PROVE  Known(sent[i])
    <3>1. ~sent[i].segment.stray
      BY <2>1 DEF Wanted
    <3>2. CASE End(sent[i]) <= pos
      BY <2>1, <3>2, Zenon DEF Exact, Undisturbed
    <3>3. CASE sent[i].from < pos /\ pos < End(sent[i])
      BY <2>1, <3>1, <3>3, Zenon DEF Heard, Undisturbed, Known
    <3>4. QED
      BY <1>2, <2>1, <3>1, <3>2, <3>3, Zenon
  <2>2. ASSUME NEW j \in 1 .. Len(taken), ~phantom
        PROVE  \E i \in 1 .. Len(sent) :
                 Wanted(sent[i]) /\ End(sent[i]) <= pos + 1 /\ taken[j] = AsTaken(sent[i])
    <3>1. PICK i \in 1 .. Len(sent) :
            Wanted(sent[i]) /\ End(sent[i]) <= pos /\ taken[j] = AsTaken(sent[i])
      BY <2>2, Zenon DEF Exact, Undisturbed
    <3>2. QED
      BY <1>2, <3>1, Zenon DEF Wanted
  <2>3. \A i, j \in 1 .. Len(taken) : i < j => taken[i].from < taken[j].from
    BY DEF Exact, Undisturbed
  <2>4. QED
    BY <1>1, <2>1, <2>2, <2>3, Zenon DEF Exact, Known, Unheard, End, Size, Wanted, AsTaken
<1>7. QED
  BY <1>3, <1>4, <1>5, <1>6 DEF Undisturbed

\* What a keepalive reads it has read, up to where it stops.
LEMMA HearsKeeps ==
  ASSUME FramingTypeOK, Undisturbed, NEW to \in Nat, pos <= to, Hears(to)
  PROVE  Undisturbed'
<1>1. /\ bytes' = bytes /\ sent' = sent /\ taken' = taken /\ pos' = to /\ pos \in Nat
      /\ phantom' = phantom /\ cut' = (cut \/ Inside(to))
      /\ unheard' = unheard \cup (pos + 1 .. to)
  BY DEF Hears, wire, FramingTypeOK
<1>2. ASSUME NEW i \in 1 .. Len(sent), ~phantom, ~sent[i].segment.stray,
             sent[i].from < to, pos < End(sent[i])
      PROVE  Unheard(sent[i])'
  <2>1. /\ sent[i].from \in Nat /\ Size(sent[i]) \in Nat /\ Size(sent[i]) >= 1
        /\ End(sent[i]) = sent[i].from + Size(sent[i])
    BY SegmentFacts
  <2>2. \E p \in sent[i].from + 1 .. End(sent[i]) : p \in unheard'
    <3>1. CASE sent[i].from < pos
      <4>1. Unheard(sent[i])
        BY <1>2, <3>1, Zenon DEF Heard, Undisturbed
      <4>2. \E p \in sent[i].from + 1 .. End(sent[i]) : p \in unheard
        BY <4>1, Zenon DEF Unheard, End, Size
      <4>3. QED
        BY <1>1, <4>2
    <3>2. CASE pos <= sent[i].from
      <4>1. sent[i].from + 1 \in sent[i].from + 1 .. End(sent[i])
        BY <2>1
      <4>2. sent[i].from + 1 \in pos + 1 .. to
        BY <1>1, <1>2, <2>1, <3>2
      <4>3. QED
        BY <1>1, <4>1, <4>2
    <3>3. QED
      BY <1>1, <2>1, <3>1, <3>2
  <2>3. QED
    BY <1>1, <2>2, Zenon DEF Unheard, End, Size
<1>3. \A i \in 1 .. Len(sent) : sent[i].from \in Nat /\ End(sent[i]) \in Nat /\ sent[i].from < End(sent[i])
  BY SegmentFacts
<1>4. InStep'
  <2>1. ~Inside(to) => Between'
    <3>1. ASSUME ~Inside(to), NEW i \in 1 .. Len(sent), ~sent[i].segment.stray
          PROVE  to <= sent[i].from \/ End(sent[i]) <= to
      <4>1. ~(sent[i].from < to /\ to < End(sent[i]))
        BY <3>1, InsideFacts, Zenon
      <4>2. QED
        BY <1>3, <4>1
    <3>2. QED
      BY <1>1, <3>1, Zenon DEF Between, End, Size
  <2>2. QED
    BY <1>1, <2>1, Zenon DEF InStep, Undisturbed
<1>5. Behind'
  <2>1. \A j \in 1 .. Len(taken) : taken[j].from \in Nat
    BY TakenFacts
  <2>2. QED
    BY <1>1, <2>1 DEF Behind, Undisturbed
<1>6. Heard'
  <2>1. ASSUME NEW i \in 1 .. Len(sent), ~phantom, ~sent[i].segment.stray,
               sent[i].from < to, to < End(sent[i])
        PROVE  Unheard(sent[i])'
    <3>1. pos < End(sent[i])
      BY <1>1, <1>3, <2>1
    <3>2. QED
      BY <1>2, <2>1, <3>1
  <2>2. QED
    BY <1>1, <2>1, Zenon DEF Heard, Unheard, End, Size
<1>7. Exact'
  <2>1. ASSUME NEW i \in 1 .. Len(sent), ~phantom, Wanted(sent[i]), End(sent[i]) <= to
        PROVE  Known(sent[i])'
    <3>1. ~sent[i].segment.stray
      BY <2>1 DEF Wanted
    <3>2. CASE End(sent[i]) <= pos
      <4>1. Known(sent[i])
        BY <2>1, <3>2, Zenon DEF Exact, Undisturbed
      <4>2. QED
        BY <1>1, <4>1, Zenon DEF Known, Unheard
    <3>3. CASE pos < End(sent[i])
      <4>1. sent[i].from < to
        BY <1>1, <1>3, <2>1
      <4>2. Unheard(sent[i])'
        BY <1>2, <2>1, <3>1, <3>3, <4>1
      <4>3. QED
        BY <4>2, Zenon DEF Known
    <3>4. QED
      BY <1>1, <1>3, <3>2, <3>3
  <2>2. ASSUME NEW j \in 1 .. Len(taken), ~phantom
        PROVE  \E i \in 1 .. Len(sent) :
                 Wanted(sent[i]) /\ End(sent[i]) <= to /\ taken[j] = AsTaken(sent[i])
    <3>1. PICK i \in 1 .. Len(sent) :
            Wanted(sent[i]) /\ End(sent[i]) <= pos /\ taken[j] = AsTaken(sent[i])
      BY <2>2, Zenon DEF Exact, Undisturbed
    <3>2. End(sent[i]) <= to
      BY <1>1, <1>3, <3>1
    <3>3. QED
      BY <3>1, <3>2, Zenon
  <2>3. \A i, j \in 1 .. Len(taken) : i < j => taken[i].from < taken[j].from
    BY DEF Exact, Undisturbed
  <2>4. QED
    BY <1>1, <2>1, <2>2, <2>3, Zenon DEF Exact, Known, Unheard, End, Size, Wanted, AsTaken
<1>8. QED
  BY <1>4, <1>5, <1>6, <1>7 DEF Undisturbed

\* Each read of a keepalive goes forward.
LEMMA KeepaliveKeeps ==
  ASSUME FramingTypeOK, Undisturbed, SkipFrame \/ ReadLine \/ Expires
  PROVE  Undisturbed'
<1>1. pos \in Nat /\ arrived \in Nat /\ pos <= arrived
  BY DEF FramingTypeOK
<1>2. \E to \in Nat : pos <= to /\ Hears(to)
  <2>1. CASE SkipFrame
    <3>1. FrameEnd \in Nat /\ FrameEnd = pos + 3 + Length /\ Length \in Nat /\ Hears(FrameEnd)
      BY <2>1, HeaderFacts DEF SkipFrame, FrameThere
    <3>2. QED
      BY <1>1, <3>1
  <2>2. CASE ReadLine
    <3>1. PICK n \in LineEnds : Hears(n)
      BY <2>2 DEF ReadLine
    <3>2. n \in Nat /\ pos <= n
      BY <1>1 DEF LineEnds
    <3>3. QED
      BY <3>1, <3>2
  <2>3. CASE Expires
    BY <1>1, <2>3 DEF Expires
  <2>4. QED
    BY <2>1, <2>2, <2>3
<1>3. QED
  BY <1>2, HearsKeeps

\* A frame that the loop reads from its beginning leaves it between frames.
LEMMA OverKeeps ==
  ASSUME FramingTypeOK, Laid, Undisturbed, NEW i \in 1 .. Len(sent),
         ~sent[i].segment.stray, sent[i].from = pos, Between,
         sent' = sent, pos' = End(sent[i]),
         phantom' = phantom, cut' = cut
  PROVE  InStep' /\ Heard'
<1>1. \A j \in 1 .. Len(sent) : ~sent[j].segment.stray =>
        End(sent[i]) <= sent[j].from \/ End(sent[j]) <= End(sent[i])
  BY OverAFrame
<1>2. Between'
  BY <1>1, Zenon DEF Between, End, Size
<1>3. InStep'
  BY <1>2, Zenon DEF InStep, Undisturbed
<1>4. \A j \in 1 .. Len(sent) : ~sent[j].segment.stray =>
        ~(sent[j].from < End(sent[i]) /\ End(sent[i]) < End(sent[j]))
  <2>1. \A j \in 1 .. Len(sent) : sent[j].from \in Nat /\ End(sent[j]) \in Nat
    BY SegmentFacts
  <2>2. QED
    BY <1>1, <2>1
<1>5. Heard'
  BY <1>4, Zenon DEF Heard, End, Size
<1>6. QED
  BY <1>3, <1>5

\* A header from inside a frame spoils what is known, but only a keepalive
\* brings the loop there.
LEMMA PhantomKeeps ==
  ASSUME FramingTypeOK, Undisturbed, Inside(pos), phantom' = TRUE, cut' = cut
  PROVE  InStep' /\ Heard'
<1>1. cut
  BY InsideFacts, Zenon DEF InStep, Undisturbed
<1>2. QED
  BY <1>1, Zenon DEF InStep, Heard

\* A frame that is not forwarded is read over whole.
LEMMA ReadOverKeeps ==
  ASSUME FramingTypeOK, Laid, Undisturbed, ReadOver
  PROVE  Undisturbed'
<1>1. /\ bytes' = bytes /\ sent' = sent /\ taken' = taken /\ pos' = FrameEnd
      /\ phantom' = (phantom \/ Inside(pos)) /\ cut' = cut /\ unheard' = unheard
      /\ HeaderThere /\ AtFrame /\ ~Forwarded(Channel, Length)
  BY DEF ReadOver, FrameThere, wire, keepalive
<1>2. FrameEnd \in Nat /\ pos \in Nat /\ pos < FrameEnd
  <2>1. FrameEnd \in Nat /\ FrameEnd = pos + 3 + Length /\ pos \in Nat /\ Length \in Nat
    BY <1>1, HeaderFacts
  <2>2. QED
    BY <2>1
<1>3. Behind'
  <2>1. \A j \in 1 .. Len(taken) : taken[j].from \in Nat
    BY TakenFacts
  <2>2. QED
    BY <1>1, <1>2, <2>1 DEF Behind, Undisturbed
<1>4. \A i, j \in 1 .. Len(taken') : i < j => taken'[i].from < taken'[j].from
  BY <1>1 DEF Exact, Undisturbed
<1>5. CASE Inside(pos)
  <2>1. phantom' = TRUE
    BY <1>1, <1>5
  <2>2. InStep' /\ Heard'
    BY <1>1, <1>5, <2>1, PhantomKeeps
  <2>3. Exact'
    BY <1>4, <2>1, Zenon DEF Exact
  <2>4. QED
    BY <1>3, <2>2, <2>3 DEF Undisturbed
<1>6. CASE ~Inside(pos)
  <2>1. Between /\ phantom' = phantom
    BY <1>1, <1>6, InsideFacts DEF FramingTypeOK
  <2>2. PICK i \in 1 .. Len(sent) :
          /\ ~sent[i].segment.stray /\ sent[i].from = pos
          /\ Channel = sent[i].segment.channel /\ Length = Len(sent[i].segment.bytes)
          /\ FrameEnd = End(sent[i])
    BY <1>1, <2>1, AtFrameStart
  <2>3. ~Wanted(sent[i])
    BY <1>1, <2>2 DEF Wanted
  <2>4. InStep' /\ Heard'
    BY <1>1, <2>1, <2>2, OverKeeps
  <2>5. \A j \in 1 .. Len(sent) : ~sent[j].segment.stray /\ End(sent[j]) <= End(sent[i]) =>
          j = i \/ End(sent[j]) <= pos
    BY <2>1, <2>2, OverAFrame
  <2>6. \A j \in 1 .. Len(sent) : Wanted(sent[j]) => (End(sent[j]) <= pos' <=> End(sent[j]) <= pos)
    <3> TAKE j \in 1 .. Len(sent)
    <3>1. End(sent[j]) \in Nat /\ End(sent[i]) \in Nat /\ pos \in Nat
      BY SegmentFacts, TakenFacts
    <3>2. Wanted(sent[j]) => j # i /\ ~sent[j].segment.stray
      BY <2>3 DEF Wanted
    <3>3. QED
      BY <1>1, <1>2, <2>2, <2>5, <3>1, <3>2
  <2>7. Exact'
    BY <1>1, <2>1, <2>6, Zenon DEF Exact, Undisturbed, Known, Unheard, End, Size, Wanted, AsTaken
  <2>8. QED
    BY <1>3, <2>4, <2>7 DEF Undisturbed
<1>7. QED
  BY <1>5, <1>6

\* What is built lies behind the loop, after all that was built.
LEMMA TakenGrows ==
  ASSUME FramingTypeOK, Undisturbed, NEW b \in Buffers, ReadPacket(b)
  PROVE  /\ Behind'
         /\ \A i, j \in 1 .. Len(taken') : i < j => taken'[i].from < taken'[j].from
         /\ Len(taken) \in Nat /\ Len(taken') = Len(taken) + 1
         /\ \A j \in 1 .. Len(taken) : taken'[j] = taken[j] /\ j \in 1 .. Len(taken')
         /\ taken'[Len(taken')] = [from |-> pos, packet |-> SubSeq(bytes, pos + 1, FrameEnd)]
<1> DEFINE x == [from |-> pos, packet |-> SubSeq(bytes, pos + 1, FrameEnd)]
           R == [from : Nat, packet : Packets]
           n == Len(taken) + 1
<1>1. taken' = Append(taken, x) /\ pos' = FrameEnd /\ HeaderThere /\ FrameEnd <= arrived
  BY DEF ReadPacket, FrameThere
<1>2. /\ pos \in Nat /\ FrameEnd \in Nat /\ pos < FrameEnd
      /\ SubSeq(bytes, pos + 1, FrameEnd) \in Packets
  <2>1. /\ FrameEnd \in Nat /\ FrameEnd = pos + 3 + Length /\ pos \in Nat /\ Length \in Nat
        /\ SubSeq(bytes, pos + 1, FrameEnd) \in Packets
    BY <1>1, HeaderFacts
  <2>2. QED
    BY <2>1
<1>3. x \in R /\ x.from = pos
  BY <1>2
<1>4. taken \in Seq(R) /\ Len(taken) \in Nat /\ \A j \in 1 .. Len(taken) : taken[j].from \in Nat
  BY TakenFacts DEF FramingTypeOK
<1> HIDE DEF x, R
<1>5. /\ Len(taken') = n /\ taken'[n] = x
      /\ \A j \in 1 .. Len(taken) : taken'[j] = taken[j]
      /\ \A j \in 1 .. n : j \in 1 .. Len(taken) \/ j = n
  BY <1>1, <1>3, <1>4, AppendFacts
<1>6. \A j \in 1 .. Len(taken) : j \in 1 .. n /\ taken[j].from < pos
  BY <1>4 DEF Behind, Undisturbed
<1>7. ASSUME NEW i \in 1 .. n, NEW j \in 1 .. n, i < j
      PROVE  taken'[i].from < taken'[j].from
  <2>1. i \in 1 .. Len(taken)
    BY <1>4, <1>7
  <2> HIDE DEF n
  <2>2. CASE j = n
    BY <1>3, <1>5, <1>6, <2>1, <2>2
  <2>3. CASE j \in 1 .. Len(taken)
    BY <1>5, <1>7, <2>1, <2>3 DEF Exact, Undisturbed
  <2>4. QED
    BY <1>5, <2>2, <2>3
<1> HIDE DEF n
<1>8. \A j \in 1 .. Len(taken') : taken'[j].from < pos'
  BY <1>1, <1>2, <1>3, <1>4, <1>5, <1>6
<1>9. QED
  BY <1>4, <1>5, <1>6, <1>7, <1>8 DEF Behind, x, n

\* A frame that is forwarded becomes a packet of its bytes.
LEMMA ReadPacketKeeps ==
  ASSUME FramingTypeOK, Laid, Undisturbed, NEW b \in Buffers, ReadPacket(b)
  PROVE  Undisturbed'
<1>1. /\ bytes' = bytes /\ sent' = sent /\ pos' = FrameEnd /\ FrameEnd <= arrived
      /\ phantom' = (phantom \/ Inside(pos)) /\ cut' = cut /\ unheard' = unheard
      /\ HeaderThere /\ AtFrame /\ Forwarded(Channel, Length)
  BY DEF ReadPacket, FrameThere, wire, keepalive
<1> DEFINE n == Len(taken')
<1>2. /\ Behind'
      /\ \A i, j \in 1 .. n : i < j => taken'[i].from < taken'[j].from
      /\ Len(taken) \in Nat /\ n = Len(taken) + 1
      /\ \A j \in 1 .. Len(taken) : taken'[j] = taken[j] /\ j \in 1 .. n
      /\ taken'[n] = [from |-> pos, packet |-> SubSeq(bytes, pos + 1, FrameEnd)]
  BY TakenGrows
<1>3. CASE Inside(pos)
  <2>1. phantom' = TRUE
    BY <1>1, <1>3
  <2>2. InStep' /\ Heard'
    BY <1>1, <1>3, <2>1, PhantomKeeps
  <2>3. Exact'
    BY <1>2, <2>1, Zenon DEF Exact
  <2>4. QED
    BY <1>2, <2>2, <2>3 DEF Undisturbed
<1>4. CASE ~Inside(pos)
  <2>1. Between /\ phantom' = phantom
    BY <1>1, <1>4, InsideFacts DEF FramingTypeOK
  <2>2. PICK i \in 1 .. Len(sent) :
          /\ ~sent[i].segment.stray /\ sent[i].from = pos
          /\ Channel = sent[i].segment.channel /\ Length = Len(sent[i].segment.bytes)
          /\ FrameEnd = End(sent[i])
          /\ SubSeq(bytes, pos + 1, FrameEnd) = Encode(sent[i].segment)
    BY <1>1, <2>1, AtFrameStart
  <2>3. Wanted(sent[i]) /\ taken'[n] = AsTaken(sent[i])
    BY <1>1, <1>2, <2>2 DEF Wanted, AsTaken
  <2>4. InStep' /\ Heard'
    BY <1>1, <2>1, <2>2, OverKeeps
  <2>5. /\ \A j \in 1 .. Len(sent) : ~sent[j].segment.stray /\ End(sent[j]) <= End(sent[i]) =>
             j = i \/ End(sent[j]) <= pos
        /\ pos < End(sent[i]) /\ pos' = End(sent[i]) /\ pos \in Nat
        /\ \A j \in 1 .. Len(sent) : End(sent[j]) \in Nat
    BY <1>1, <2>1, <2>2, OverAFrame, SegmentFacts, TakenFacts
  <2>6. n \in 1 .. n /\ \A j \in 1 .. n : j \in 1 .. Len(taken) \/ j = n
    BY <1>2
  <2> HIDE DEF n
  <2>7. ASSUME NEW j \in 1 .. Len(sent), ~phantom, Wanted(sent[j]), End(sent[j]) <= pos'
        PROVE  Known(sent[j])'
    <3>1. j = i \/ End(sent[j]) <= pos
      BY <2>5, <2>7 DEF Wanted
    <3>2. CASE j = i
      BY <1>1, <2>3, <2>6, <3>2, Zenon DEF Known, AsTaken, n
    <3>3. CASE End(sent[j]) <= pos
      <4>1. Known(sent[j])
        BY <2>7, <3>3, Zenon DEF Exact, Undisturbed
      <4>2. (\E k \in 1 .. Len(taken) : taken[k] = AsTaken(sent[j])) =>
              \E k \in 1 .. n : taken'[k] = AsTaken(sent[j])
        BY <1>2, Zenon
      <4>3. QED
        BY <1>1, <4>1, <4>2, Zenon DEF Known, Unheard, AsTaken, n
    <3>4. QED
      BY <3>1, <3>2, <3>3
  <2>8. ASSUME NEW k \in 1 .. n, ~phantom
        PROVE  \E j \in 1 .. Len(sent) :
                 Wanted(sent[j]) /\ End(sent[j]) <= pos' /\ taken'[k] = AsTaken(sent[j])
    <3>1. CASE k = n
      <4>1. End(sent[i]) <= pos'
        BY <2>5
      <4>2. QED
        BY <2>3, <3>1, <4>1, Zenon
    <3>2. CASE k \in 1 .. Len(taken)
      <4>1. PICK j \in 1 .. Len(sent) :
              Wanted(sent[j]) /\ End(sent[j]) <= pos /\ taken[k] = AsTaken(sent[j])
        BY <2>8, <3>2, Zenon DEF Exact, Undisturbed
      <4>2. End(sent[j]) <= pos' /\ taken'[k] = taken[k]
        BY <1>2, <2>5, <3>2, <4>1
      <4>3. QED
        BY <4>1, <4>2, Zenon
    <3>3. QED
      BY <2>6, <3>1, <3>2
  <2>9. Exact'
    BY <1>1, <1>2, <2>1, <2>7, <2>8, Zenon DEF Exact, Known, Unheard, End, Size, Wanted, AsTaken, n
  <2>10. QED
    BY <1>2, <2>4, <2>9 DEF Undisturbed
<1>5. QED
  BY <1>3, <1>4

LEMMA StreamInit == Init => StreamInv
<1> SUFFICES ASSUME Init PROVE StreamInv
  OBVIOUS
<1>1. Len(sent) = 0 /\ Len(bytes) = 0 /\ Len(taken) = 0 /\ phantom = FALSE
  BY DEF Init
<1>2. QED
  BY <1>1 DEF StreamInv, Laid, Undisturbed, InStep, Between, Behind, Heard, Exact

LEMMA StreamNext == FramingTypeOK /\ StreamInv /\ [Next]_vars => StreamInv'
<1> SUFFICES ASSUME FramingTypeOK, StreamInv, [Next]_vars PROVE StreamInv'
  OBVIOUS
<1>1. Laid
  BY DEF StreamInv
<1>2. ASSUME UNCHANGED wire PROVE Laid'
  BY <1>1, <1>2 DEF wire, Laid
<1>3. ASSUME closing = "no" => Undisturbed', closing' = closing, Laid' PROVE StreamInv'
  BY <1>3 DEF StreamInv
<1>4. ASSUME UNCHANGED <<wire, loop, keepalive, closing>> PROVE StreamInv'
  BY <1>4 DEF wire, loop, keepalive, StreamInv, Laid, Undisturbed, InStep, Between, Behind,
              Heard, Exact, Known, Unheard, End, Size, Wanted, AsTaken
<1>5. CASE \E s \in Segments : Send(s)
  <2>1. PICK s \in Segments : Send(s)
    BY <1>5
  <2>2. Laid'
    BY <1>1, <2>1, SendKeepsLaid
  <2>3. closing' = closing
    BY <2>1 DEF Send
  <2>4. closing = "no" => Undisturbed'
    BY <2>1, SendKeeps DEF StreamInv
  <2>5. QED
    BY <1>3, <2>2, <2>3, <2>4
<1>6. CASE Resync \/ ReadOver \/ \E b \in Buffers : ReadPacket(b)
  <2>1. UNCHANGED wire /\ closing' = closing
    BY <1>6, Zenon DEF Resync, ReadOver, ReadPacket
  <2>2. closing = "no" => Undisturbed'
    BY <1>6, ResyncKeeps, ReadOverKeeps, ReadPacketKeeps DEF StreamInv
  <2>3. QED
    BY <1>2, <1>3, <2>1, <2>2
<1>7. CASE SkipFrame \/ ReadLine \/ Expires
  <2>1. UNCHANGED wire /\ closing' = closing
    BY <1>7, Zenon DEF SkipFrame, ReadLine, Expires, Hears
  <2>2. closing = "no" => Undisturbed'
    BY <1>7, KeepaliveKeeps DEF StreamInv
  <2>3. QED
    BY <1>2, <1>3, <2>1, <2>2
<1>8. CASE CloseAsks \/ Drain
  <2>1. UNCHANGED wire /\ closing' # "no"
    BY <1>8 DEF CloseAsks, Drain
  <2>2. QED
    BY <1>2, <2>1 DEF StreamInv
<1>9. CASE Arrive \/ TimeOut \/ ReadError \/ Ask \/ Consume \/ Deliver
  <2>1. UNCHANGED <<wire, pos, taken, phantom, unheard, cut, closing>>
    BY <1>9, Zenon DEF Arrive, TimeOut, PeekTimesOut, ReadError, Ask, Consume, Deliver, loop, keepalive
  <2>2. QED
    BY <2>1 DEF wire, StreamInv, Laid, Undisturbed, InStep, Between, Behind,
                Heard, Exact, Known, Unheard, End, Size, Wanted, AsTaken
<1>10. CASE UNCHANGED vars
  BY <1>4, <1>10 DEF vars
<1>11. QED
  BY <1>5, <1>6, <1>7, <1>8, <1>9, <1>10 DEF Next

LEMMA ExactIsFramesExact == FramingTypeOK /\ StreamInv => FramesExact
<1> SUFFICES ASSUME FramingTypeOK, StreamInv, closing = "no" PROVE FramesExact
  BY DEF FramesExact
<1>1. Undisturbed
  BY DEF StreamInv
<1>2. DOMAIN sent = 1 .. Len(sent) /\ DOMAIN taken = 1 .. Len(taken)
  BY DEF FramingTypeOK
<1>3. \A i \in 1 .. Len(sent) : Passed(sent[i]) <=> End(sent[i]) <= pos
  BY Zenon DEF Passed, End, Size
<1>4. Inside(pos) \/ phantom => cut
  BY <1>1, InsideFacts, Zenon DEF Undisturbed, InStep
<1>5. QED
  BY <1>1, <1>2, <1>3, <1>4, Zenon DEF FramesExact, Undisturbed, Exact, Known

\* FramesExact holds for every camera, whatever its frames hold (a `$`, or a
\* whole header), however its bytes arrive and whenever keepalives read and
\* give up: where the loop stands between frames, a `$` begins one
\* (handleTCPPackets), and of a frame it has lost or stands in, a keepalive has
\* read (readRTSPResponse).
THEOREM FramesAreExact == Spec => []FramesExact
<1>1. Spec => [](FramingTypeOK /\ StreamInv)
  BY TypesInit, TypesNext, StreamInit, StreamNext, PTL DEF Spec
<1>2. QED
  BY <1>1, ExactIsFramesExact, PTL

----------------------------------------------------------------------------
(* The buffers.                                                            *)

LEMMA BufferTypes ==
  ASSUME FramingTypeOK
  PROVE  /\ received \in Seq(Buffers) /\ Len(received) \in Nat
         /\ \A i \in 1 .. Len(received) : received[i] \in Buffers
         /\ queued \in Seq(Packets) /\ Len(queued) \in Nat /\ gone \in Nat /\ ticket \in Nat
         /\ delivered \in Seq([number : Nat, packet : Packets]) /\ Len(delivered) \in Nat
         /\ \A i \in 1 .. Len(delivered) : delivered[i].number \in Nat
         /\ NoBuffer \notin Buffers /\ pool \subseteq Buffers
<1>1. /\ received \in Seq(Buffers) /\ queued \in Seq(Packets) /\ gone \in Nat /\ ticket \in Nat
      /\ delivered \in Seq([number : Nat, packet : Packets]) /\ pool \subseteq Buffers
  BY DEF FramingTypeOK
<1>2. \A i \in 1 .. Len(delivered) : delivered[i] \in [number : Nat, packet : Packets]
  BY <1>1, ElementOfSeq, Zenon
<1>3. \A i \in 1 .. Len(received) : received[i] \in Buffers
  BY <1>1, ElementOfSeq, Zenon
<1>4. NoBuffer \notin Buffers
  BY FramingAssumption
<1>5. QED
  BY <1>1, <1>2, <1>3, <1>4

\* The head leaves; the rest moves up.
LEMMA TailFacts ==
  ASSUME NEW S, NEW s \in Seq(S), s # <<>>
  PROVE  /\ Len(s) \in Nat /\ Len(s) >= 1 /\ Head(s) = s[1] /\ Len(Tail(s)) = Len(s) - 1
         /\ \A i \in 1 .. Len(s) - 1 : Tail(s)[i] = s[i + 1] /\ i + 1 \in 1 .. Len(s)
<1>1. Len(s) \in Nat /\ Len(s) >= 1 /\ Head(s) = s[1]
  OBVIOUS
<1>2. Len(Tail(s)) = Len(s) - 1
  BY HeadTailProperties, Zenon
<1>3. \A i \in 1 .. Len(Tail(s)) : Tail(s)[i] = s[i + 1]
  BY HeadTailProperties, Zenon
<1>4. QED
  BY <1>1, <1>2, <1>3

\* The loop fills a free buffer, which no packet in the channel is in.
LEMMA QueueKeeps ==
  ASSUME FramingTypeOK, BufferInv, NEW b \in Buffers, ReadPacket(b)
  PROVE  BufferInv'
<1> DEFINE packet == SubSeq(bytes, pos + 1, FrameEnd)
           n == Len(received) + 1
<1>1. /\ b \in pool /\ packet \in Packets /\ memory' = [memory EXCEPT ![b] = packet]
      /\ QueueOrDrop(b, packet) /\ UNCHANGED <<tracks, closing>>
  BY HeaderFacts DEF ReadPacket, FrameThere
<1> HIDE DEF packet
<1>2. /\ held' = held /\ delivered' = delivered /\ gone' = gone /\ ticket' = ticket
      /\ closing' = closing /\ (Drained' <=> Drained)
  BY <1>1 DEF tracks, Drained
<1>3. \A c \in Buffers : memory'[c] = IF c = b THEN packet ELSE memory[c]
  BY <1>1 DEF FramingTypeOK
<1>4. /\ \A i \in 1 .. Len(received) : received[i] \in Buffers /\ received[i] # b
      /\ held # b /\ held \in Buffers \cup {NoBuffer}
  BY <1>1, BufferTypes DEF BufferInv, Owned, FramingTypeOK
<1>5. CASE Len(received) < QueueSize
  <2>1. received' = Append(received, b) /\ pool' = pool \ {b} /\ queued' = Append(queued, packet)
    BY <1>1, <1>5 DEF QueueOrDrop
  <2>2. /\ Len(received') = n /\ received'[n] = b /\ n \in 1 .. n
        /\ \A i \in 1 .. Len(received) : received'[i] = received[i] /\ i \in 1 .. n
        /\ \A i \in 1 .. n : i \in 1 .. Len(received) \/ i = n
        /\ Len(received) \in Nat
    BY <2>1, BufferTypes, AppendFacts
  <2>3. /\ Len(queued') = Len(queued) + 1 /\ queued'[Len(queued) + 1] = packet
        /\ \A i \in 1 .. Len(queued) : queued'[i] = queued[i]
        /\ Len(queued) \in Nat
    BY <1>1, <2>1, BufferTypes, AppendFacts
  <2> HIDE DEF n
  <2>4. Owned'
    <3>1. \A i, j \in 1 .. Len(received') : received'[i] = received'[j] => i = j
      BY <1>4, <2>2 DEF BufferInv, Owned
    <3>2. /\ \A i \in 1 .. Len(received') : received'[i] \notin pool' /\ received'[i] # held'
          /\ held' \notin pool'
      BY <1>2, <1>4, <2>1, <2>2 DEF BufferInv, Owned
    <3>3. \A c \in Buffers : c \in pool' \/ c = held' \/ \E i \in 1 .. Len(received') : received'[i] = c
      BY <1>2, <2>1, <2>2 DEF BufferInv, Owned
    <3>4. Len(received') <= QueueSize
      BY <1>5, <2>2, FramingAssumption DEF n
    <3>5. QED
      BY <3>1, <3>2, <3>3, <3>4 DEF Owned
  <2>5. Contents'
    <3>1. Len(queued) = gone + Len(received) /\ gone \in Nat /\ ticket \in Nat
      BY BufferTypes DEF BufferInv, Contents
    <3>2. \A i \in 1 .. Len(received') : memory'[received'[i]] = queued'[gone' + i]
      <4>1. memory'[received'[n]] = queued'[gone' + n]
        BY <1>2, <1>3, <2>2, <2>3, <3>1 DEF n
      <4>2. ASSUME NEW i \in 1 .. Len(received)
            PROVE  memory'[received'[i]] = queued'[gone' + i]
        <5>1. memory'[received'[i]] = memory[received[i]]
          BY <1>3, <1>4, <2>2
        <5>2. gone + i \in 1 .. Len(queued)
          BY <2>2, <3>1
        <5>3. QED
          BY <1>2, <2>3, <5>1, <5>2 DEF BufferInv, Contents
      <4>3. QED
        BY <2>2, <4>1, <4>2
    <3>3. held' # NoBuffer => ticket' \in 1 .. gone' /\ memory'[held'] = queued'[ticket']
      <4>1. SUFFICES ASSUME held # NoBuffer
            PROVE  ticket \in 1 .. gone /\ memory'[held] = queued'[ticket]
        BY <1>2
      <4>2. ticket \in 1 .. gone /\ memory[held] = queued[ticket] /\ ticket \in 1 .. Len(queued)
        BY <2>2, <3>1, <4>1 DEF BufferInv, Contents
      <4>3. QED
        BY <1>3, <1>4, <2>3, <4>1, <4>2
    <3>4. Len(queued') = gone' + Len(received')
      BY <1>2, <2>2, <2>3, <3>1 DEF n
    <3>5. QED
      BY <3>2, <3>3, <3>4 DEF Contents
  <2>6. Delivered'
    BY <1>2 DEF BufferInv, Delivered
  <2>7. Ordered'
    <3>1. \A i \in 1 .. Len(delivered) : delivered[i].number \in 1 .. Len(queued)
      BY BufferTypes DEF BufferInv, Delivered, Contents
    <3>2. QED
      BY <1>2, <2>3, <3>1 DEF BufferInv, Ordered
  <2>8. QED
    BY <2>4, <2>5, <2>6, <2>7 DEF BufferInv
<1>6. CASE ~(Len(received) < QueueSize)
  <2>1. received' = received /\ pool' = pool /\ queued' = queued
    BY <1>1, <1>6 DEF QueueOrDrop
  <2>2. Owned' /\ Delivered' /\ Ordered'
    BY <1>2, <2>1 DEF BufferInv, Owned, Delivered, Ordered
  <2>3. Contents'
    <3>1. \A i \in 1 .. Len(received) : memory'[received[i]] = memory[received[i]]
      BY <1>3, <1>4
    <3>2. held # NoBuffer => memory'[held] = memory[held]
      BY <1>3, <1>4
    <3>3. QED
      BY <1>2, <2>1, <3>1, <3>2 DEF BufferInv, Contents
  <2>4. QED
    BY <2>2, <2>3 DEF BufferInv
<1>7. QED
  BY <1>5, <1>6

\* The consumer takes the oldest packet, and its buffer stays out of the pool.
LEMMA ConsumeKeeps ==
  ASSUME FramingTypeOK, BufferInv, Consume
  PROVE  BufferInv'
<1>1. /\ held = NoBuffer /\ received # <<>> /\ held' = Head(received) /\ received' = Tail(received)
      /\ pool' = pool /\ gone' = gone + 1 /\ ticket' = gone + 1
      /\ memory' = memory /\ queued' = queued /\ delivered' = delivered /\ (Drained' <=> Drained)
  BY DEF Consume, PoolKeepsHeld, Drained
<1> DEFINE n == Len(received) - 1
<1>2. /\ Len(received) \in Nat /\ Len(received) >= 1 /\ held' = received[1]
      /\ Len(received') = n /\ n \in Nat /\ n + 1 = Len(received) /\ 1 \in 1 .. n + 1
      /\ \A i \in 1 .. n : received'[i] = received[i + 1] /\ i + 1 \in 1 .. n + 1
  BY <1>1, BufferTypes, TailFacts
<1> HIDE DEF n
<1>3. Owned'
  <2>1. \A i, j \in 1 .. Len(received') : received'[i] = received'[j] => i = j
    BY <1>2 DEF BufferInv, Owned
  <2>2. /\ \A i \in 1 .. Len(received') : received'[i] \notin pool' /\ received'[i] # held'
        /\ held' \notin pool'
    BY <1>1, <1>2 DEF BufferInv, Owned
  <2>3. ASSUME NEW c \in Buffers
        PROVE  c \in pool' \/ c = held' \/ \E i \in 1 .. Len(received') : received'[i] = c
    <3>1. c \in pool \/ \E i \in 1 .. Len(received) : received[i] = c
      BY <1>1, BufferTypes DEF BufferInv, Owned
    <3>2. ASSUME NEW i \in 1 .. Len(received), received[i] = c, i # 1
          PROVE  i - 1 \in 1 .. Len(received') /\ received'[i - 1] = c
      BY <1>2, <3>2
    <3>3. QED
      BY <1>1, <1>2, <3>1, <3>2
  <2>4. Len(received') <= QueueSize
    BY <1>2, FramingAssumption DEF BufferInv, Owned
  <2>5. QED
    BY <2>1, <2>2, <2>3, <2>4 DEF Owned
<1>4. Contents'
  <2>1. Len(queued) = gone + Len(received) /\ gone \in Nat
    BY BufferTypes DEF BufferInv, Contents
  <2>2. \A i \in 1 .. Len(received) : memory[received[i]] = queued[gone + i]
    BY DEF BufferInv, Contents
  <2>3. \A i \in 1 .. n : memory[received'[i]] = queued[gone + 1 + i]
    <3> TAKE i \in 1 .. n
    <3>1. memory[received[i + 1]] = queued[gone + (i + 1)]
      BY <1>2, <2>2
    <3>2. gone + (i + 1) = gone + 1 + i
      BY <1>2, <2>1
    <3>3. QED
      BY <1>2, <3>1, <3>2
  <2>4. memory[held'] = queued[gone + 1]
    BY <1>2, <2>2
  <2>5. Len(queued) = gone + 1 + n
    BY <1>2, <2>1
  <2>6. QED
    BY <1>1, <1>2, <2>1, <2>3, <2>4, <2>5 DEF Contents
<1>5. Delivered'
  <2>1. ticket \in Nat /\ gone \in Nat /\ ticket <= gone
    BY BufferTypes DEF BufferInv, Delivered
  <2>2. \A i \in 1 .. Len(delivered) : delivered[i].number \in 1 .. ticket
    BY DEF BufferInv, Delivered
  <2>3. \A i \in 1 .. Len(delivered) : delivered[i].number \in 1 .. gone + 1 /\ delivered[i].number < gone + 1
    BY <2>1, <2>2
  <2>4. ~Drained => gone = Len(delivered) /\ Len(delivered) \in Nat
    BY <1>1, BufferTypes DEF BufferInv, Delivered
  <2>5. held' # NoBuffer
    BY <1>2, BufferTypes
  <2>6. QED
    BY <1>1, <2>1, <2>3, <2>4, <2>5 DEF Delivered
<1>6. Ordered'
  BY <1>1 DEF BufferInv, Ordered
<1>7. QED
  BY <1>3, <1>4, <1>5, <1>6 DEF BufferInv

\* The packet written is the one taken, and comes after those written before.
LEMMA DeliverKeeps ==
  ASSUME FramingTypeOK, BufferInv, Deliver
  PROVE  BufferInv'
<1> DEFINE x == [number |-> ticket, packet |-> memory[held]]
           n == Len(delivered) + 1
<1>1. /\ held # NoBuffer /\ delivered' = Append(delivered, x) /\ pool' = pool \cup {held}
      /\ held' = NoBuffer /\ received' = received /\ memory' = memory /\ queued' = queued
      /\ gone' = gone /\ ticket' = ticket /\ (Drained' <=> Drained)
  BY DEF Deliver, Drained
<1>2. x \in [number : Nat, packet : Packets] /\ x.number = ticket /\ x.packet = queued[ticket]
  <2>1. held \in Buffers /\ ticket \in Nat
    BY <1>1 DEF FramingTypeOK
  <2>2. memory[held] \in Packets
    BY <2>1 DEF FramingTypeOK
  <2>3. memory[held] = queued[ticket]
    BY <1>1 DEF BufferInv, Contents
  <2>4. QED
    BY <2>1, <2>2, <2>3
<1> HIDE DEF x
<1>3. /\ Len(delivered') = n /\ delivered'[n] = x
      /\ \A i \in 1 .. Len(delivered) : delivered'[i] = delivered[i]
      /\ \A i \in 1 .. n : i \in 1 .. Len(delivered) \/ i = n
      /\ Len(delivered) \in Nat
  BY <1>1, <1>2, BufferTypes, AppendFacts
<1>4. Owned'
  <2>1. /\ \A i \in 1 .. Len(received) : received[i] \in Buffers /\ received[i] # held /\ received[i] \notin pool
        /\ NoBuffer \notin Buffers /\ held \in Buffers /\ pool \subseteq Buffers
    BY <1>1, BufferTypes DEF BufferInv, Owned, FramingTypeOK
  <2>2. /\ \A i \in 1 .. Len(received') : received'[i] \notin pool' /\ received'[i] # held'
        /\ held' \notin pool'
    BY <1>1, <2>1
  <2>3. QED
    BY <1>1, <2>2 DEF BufferInv, Owned
<1>5. Contents'
  BY <1>1 DEF BufferInv, Contents
<1>6. /\ ticket \in 1 .. gone /\ gone \in Nat
      /\ \A i \in 1 .. Len(delivered) : delivered[i].number \in 1 .. ticket /\ delivered[i].number < ticket
      /\ ~Drained => ticket = gone /\ gone = n
  BY <1>1, BufferTypes DEF BufferInv, Contents, Delivered
<1> HIDE DEF n
<1>7. Delivered'
  <2>1. \A i \in 1 .. n : delivered'[i].number \in 1 .. ticket
    BY <1>2, <1>3, <1>6
  <2>2. QED
    BY <1>1, <1>3, <1>6, <2>1 DEF Delivered, n
<1>8. Ordered'
  <2>1. \A i \in 1 .. n :
          /\ delivered'[i].packet = queued[delivered'[i].number]
          /\ ~Drained => delivered'[i].number = i
    BY <1>2, <1>3, <1>6 DEF BufferInv, Ordered
  <2>2. ASSUME NEW i \in 1 .. n, NEW j \in 1 .. n, i < j
        PROVE  delivered'[i].number < delivered'[j].number
    <3>1. i \in 1 .. Len(delivered)
      BY <1>3, <2>2 DEF n
    <3>2. CASE j = n
      BY <1>2, <1>3, <1>6, <3>1, <3>2
    <3>3. CASE j \in 1 .. Len(delivered)
      BY <1>3, <2>2, <3>1, <3>3 DEF BufferInv, Ordered
    <3>4. QED
      BY <1>3, <3>2, <3>3
  <2>3. queued' = queued /\ (Drained' <=> Drained) /\ Len(delivered') = n
    BY <1>1, <1>3
  <2>4. QED
    BY <2>1, <2>2, <2>3 DEF Ordered
<1>9. QED
  BY <1>4, <1>5, <1>7, <1>8 DEF BufferInv

\* What Close takes out of the channel is the consumer's no more.
LEMMA DrainKeeps ==
  ASSUME FramingTypeOK, BufferInv, Drain
  PROVE  BufferInv'
<1>1. /\ Drained' /\ received # <<>> /\ received' = Tail(received)
      /\ pool' = pool \cup {Head(received)} /\ gone' = gone + 1
      /\ memory' = memory /\ queued' = queued /\ held' = held /\ delivered' = delivered
      /\ ticket' = ticket
  BY DEF Drain, Drained
<1> DEFINE n == Len(received) - 1
<1>2. /\ Len(received) \in Nat /\ Len(received) >= 1 /\ Head(received) = received[1]
      /\ Len(received') = n /\ n \in Nat /\ n + 1 = Len(received) /\ 1 \in 1 .. n + 1
      /\ \A i \in 1 .. n : received'[i] = received[i + 1] /\ i + 1 \in 1 .. n + 1
  BY <1>1, BufferTypes, TailFacts
<1> HIDE DEF n
<1>3. Owned'
  <2>1. \A i, j \in 1 .. Len(received') : received'[i] = received'[j] => i = j
    BY <1>2 DEF BufferInv, Owned
  <2>2. /\ \A i \in 1 .. Len(received') : received'[i] \notin pool' /\ received'[i] # held'
        /\ held' \notin pool'
    <3>1. \A i \in 1 .. n : received[i + 1] # received[1] /\ received[i + 1] \notin pool
                          /\ received[i + 1] # held
      BY <1>2 DEF BufferInv, Owned
    <3>2. held # received[1] /\ held \notin pool
      BY <1>2 DEF BufferInv, Owned
    <3>3. QED
      BY <1>1, <1>2, <3>1, <3>2
  <2>3. ASSUME NEW c \in Buffers
        PROVE  c \in pool' \/ c = held' \/ \E i \in 1 .. Len(received') : received'[i] = c
    <3>1. c \in pool \/ c = held \/ \E i \in 1 .. Len(received) : received[i] = c
      BY DEF BufferInv, Owned
    <3>2. ASSUME NEW i \in 1 .. Len(received), received[i] = c, i # 1
          PROVE  i - 1 \in 1 .. Len(received') /\ received'[i - 1] = c
      BY <1>2, <3>2
    <3>3. QED
      BY <1>1, <1>2, <3>1, <3>2
  <2>4. Len(received') <= QueueSize
    BY <1>2, FramingAssumption DEF BufferInv, Owned
  <2>5. QED
    BY <2>1, <2>2, <2>3, <2>4 DEF Owned
<1>4. Contents'
  <2>1. Len(queued) = gone + Len(received) /\ gone \in Nat /\ ticket \in Nat
    BY BufferTypes DEF BufferInv, Contents
  <2>2. \A i \in 1 .. Len(received) : memory[received[i]] = queued[gone + i]
    BY DEF BufferInv, Contents
  <2>3. \A i \in 1 .. n : memory[received'[i]] = queued[gone + 1 + i]
    <3> TAKE i \in 1 .. n
    <3>1. memory[received[i + 1]] = queued[gone + (i + 1)]
      BY <1>2, <2>2
    <3>2. gone + (i + 1) = gone + 1 + i
      BY <1>2, <2>1
    <3>3. QED
      BY <1>2, <3>1, <3>2
  <2>4. Len(queued) = gone + 1 + n
    BY <1>2, <2>1
  <2>5. held # NoBuffer => ticket \in 1 .. gone + 1 /\ memory[held] = queued[ticket]
    BY <2>1 DEF BufferInv, Contents
  <2>6. QED
    BY <1>1, <1>2, <2>3, <2>4, <2>5 DEF Contents
<1>5. Delivered'
  <2>1. ticket \in Nat /\ gone \in Nat /\ ticket <= gone + 1
    BY BufferTypes DEF BufferInv, Delivered
  <2>2. /\ \A i \in 1 .. Len(delivered) : delivered[i].number \in 1 .. ticket
        /\ held # NoBuffer => \A i \in 1 .. Len(delivered) : delivered[i].number < ticket
    BY Zenon DEF BufferInv, Delivered
  <2>3. QED
    BY <1>1, <2>1, <2>2 DEF Delivered
<1>6. Ordered'
  BY <1>1 DEF BufferInv, Ordered
<1>7. QED
  BY <1>3, <1>4, <1>5, <1>6 DEF BufferInv

LEMMA BufferInit == Init => BufferInv
<1> SUFFICES ASSUME Init PROVE BufferInv
  OBVIOUS
<1>1. /\ Len(received) = 0 /\ Len(queued) = 0 /\ Len(delivered) = 0 /\ gone = 0 /\ ticket = 0
      /\ held = NoBuffer
  BY DEF Init
<1>2. pool = Buffers /\ NoBuffer \notin Buffers
  BY FramingAssumption DEF Init
<1>3. Owned
  BY <1>1, <1>2, FramingAssumption DEF Owned
<1>4. Contents /\ Delivered /\ Ordered
  BY <1>1 DEF Contents, Delivered, Ordered
<1>5. QED
  BY <1>3, <1>4 DEF BufferInv

LEMMA BufferNext == FramingTypeOK /\ BufferInv /\ [Next]_vars => BufferInv'
<1> SUFFICES ASSUME FramingTypeOK, BufferInv, [Next]_vars PROVE BufferInv'
  OBVIOUS
<1>1. ASSUME UNCHANGED <<channel, tracks>>, Drained' <=> Drained PROVE BufferInv'
  <2>1. /\ UNCHANGED <<pool, memory, received, queued>>
        /\ UNCHANGED <<held, delivered, gone, ticket>> /\ (Drained' <=> Drained)
    BY <1>1 DEF channel, tracks
  <2>2. QED
    BY <2>1 DEF BufferInv, Owned, Contents, Delivered, Ordered
<1>2. CASE \E b \in Buffers : ReadPacket(b)
  BY <1>2, QueueKeeps
<1>3. CASE Consume
  BY <1>3, ConsumeKeeps
<1>4. CASE Deliver
  BY <1>4, DeliverKeeps
<1>5. CASE Drain
  BY <1>5, DrainKeeps
<1>6. CASE \/ (\E s \in Segments : Send(s)) \/ Arrive \/ TimeOut \/ Resync \/ ReadOver \/ ReadError
           \/ Ask \/ SkipFrame \/ ReadLine \/ Expires
  <2>1. UNCHANGED <<channel, tracks, closing>>
    BY <1>6, Zenon DEF Send, Arrive, TimeOut, Resync, ReadOver, ReadError,
                       Ask, SkipFrame, ReadLine, Expires, Hears
  <2>2. QED
    BY <1>1, <2>1 DEF Drained
<1>7. CASE CloseAsks
  BY <1>1, <1>7 DEF CloseAsks, Drained
<1>8. CASE UNCHANGED vars
  BY <1>1, <1>8 DEF vars, Drained
<1>9. QED
  BY <1>2, <1>3, <1>4, <1>5, <1>6, <1>7, <1>8 DEF Next

LEMMA OrderedIsDeliveredInOrder == FramingTypeOK /\ BufferInv => DeliveredInOrder
<1> SUFFICES ASSUME FramingTypeOK, BufferInv PROVE DeliveredInOrder
  OBVIOUS
<1>1. DOMAIN delivered = 1 .. Len(delivered) /\ DOMAIN queued = 1 .. Len(queued)
  BY DEF FramingTypeOK
<1>2. \A i \in 1 .. Len(delivered) : delivered[i].number \in 1 .. Len(queued)
  BY BufferTypes DEF BufferInv, Contents, Delivered
<1>3. QED
  BY <1>1, <1>2 DEF BufferInv, Ordered, DeliveredInOrder

\* DeliveredInOrder holds for every capacity of the channel: the loop never
\* writes into a buffer that is in the channel or that the consumer still
\* reads (consumeRTPPackets puts it back only after it has written it), and
\* the packets Close drains leave the others in order.
THEOREM DeliveryIsInOrder == Spec => []DeliveredInOrder
<1>1. Spec => [](FramingTypeOK /\ BufferInv)
  BY TypesInit, TypesNext, BufferInit, BufferNext, PTL DEF Spec
<1>2. QED
  BY <1>1, OrderedIsDeliveredInOrder, PTL

----------------------------------------------------------------------------
(* Whether the buffers suffice.                                            *)

\* QueueSize buffers in the channel, one with the consumer and one for the
\* loop: with pool empty, two of the QueueSize + 2 would be in one place.
LEMMA PoolNeverEmpty == FramingTypeOK /\ BufferInv => pool # {}
<1> SUFFICES ASSUME FramingTypeOK, BufferInv, pool = {} PROVE FALSE
  OBVIOUS
<1> DEFINE Places == 1 .. QueueSize + 1
           place == [b \in Buffers |-> IF b = held THEN QueueSize + 1
                                      ELSE CHOOSE i \in 1 .. Len(received) : received[i] = b]
<1>1. /\ QueueSize \in Nat /\ Len(received) \in Nat /\ Len(received) <= QueueSize
      /\ \A b \in Buffers : b = held \/ \E i \in 1 .. Len(received) : received[i] = b
  BY BufferTypes, FramingAssumption DEF BufferInv, Owned
<1>2. \A b \in Buffers : b # held =>
        /\ place[b] \in 1 .. Len(received) /\ received[place[b]] = b
  BY <1>1
<1>3. place[held] = QueueSize + 1 \/ held \notin Buffers
  OBVIOUS
<1>4. place \in [Buffers -> Places]
  <2>1. ASSUME NEW b \in Buffers PROVE place[b] \in Places
    <3>1. CASE b = held
      BY <1>1, <1>3, <3>1
    <3>2. CASE b # held
      BY <1>1, <1>2, <3>2
    <3>3. QED
      BY <3>1, <3>2
  <2>2. QED
    BY <2>1
<1>5. /\ IsFiniteSet(Buffers) /\ Cardinality(Buffers) = QueueSize + 2
      /\ IsFiniteSet(Places) /\ Cardinality(Places) = QueueSize + 1
  <2>1. 1 \in Int /\ QueueSize + 1 \in Int
    BY <1>1
  <2>2. QED
    BY <1>1, <2>1, FS_Interval, FramingAssumption
<1> HIDE DEF place, Places
<1>6. PICK b \in Buffers, c \in Buffers : b # c /\ place[b] = place[c]
  <2>1. Cardinality(Places) < Cardinality(Buffers)
    BY <1>1, <1>5
  <2>2. QED
    BY <1>4, <1>5, <2>1, FS_PigeonHole
<1>7. CASE b = held
  BY <1>1, <1>2, <1>3, <1>6, <1>7
<1>8. CASE c = held
  BY <1>1, <1>2, <1>3, <1>6, <1>8
<1>9. CASE b # held /\ c # held
  BY <1>2, <1>6, <1>9
<1>10. QED
  BY <1>7, <1>8, <1>9

\* The loop always finds a buffer: rtpPacketPool never has more than
\* QueueSize + 2 of them in use, however the loop, the consumer and Close
\* interleave.
THEOREM BuffersSuffice == Spec => [](pool # {})
<1>1. Spec => [](FramingTypeOK /\ BufferInv)
  BY TypesInit, TypesNext, BufferInit, BufferNext, PTL DEF Spec
<1>2. QED
  BY <1>1, PoolNeverEmpty, PTL
=============================================================================
