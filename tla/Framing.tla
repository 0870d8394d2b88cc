------------------------------- MODULE Framing -------------------------------
(***************************************************************************)
(* The interleaved frames of the camera's TCP stream on their way to the   *)
(* WebRTC tracks (consumeRTPPackets of src/webrtc.go), through the bounded *)
(* queue rc.received and the buffers of rtpPacketPool.  RtspRtpLoop        *)
(* (src/rtsp_client.go) reads the stream in two ways: frame by frame       *)
(* (handleTCPPackets), and up to the answer of its keepalive               *)
(* (readRTSPResponse); Close reads it too, for TEARDOWN, and empties the   *)
(* queue.  A header is scaled to three bytes: `$`, the channel and one     *)
(* byte of length; an answer to one line that begins with Status.          *)
(***************************************************************************)
EXTENDS Naturals, Sequences, FiniteSets

CONSTANTS
  Segments,    \* what a camera may send: frames, and bytes in none, as answers
  MaxSegments, \* bound: how many of them
  MinPayload,  \* the shortest payload forwarded: an RTP header (12 bytes)
  QueueSize,   \* capacity of rc.received (512)
  Buffers,     \* bound: the packet buffers there are
  NoBuffer

Frame(channel, payload) == [stray |-> FALSE, channel |-> channel, bytes |-> payload]
Stray(garbage)          == [stray |-> TRUE, channel |-> 0, bytes |-> garbage]

Dollar   == 36
Newline  == 10
Status   == 82  \* "RTSP/"
Header   == 3

ASSUME FramingAssumption ==
  /\ MaxSegments \in Nat /\ MinPayload \in Nat /\ QueueSize \in Nat \ {0}
  /\ IsFiniteSet(Buffers) /\ Cardinality(Buffers) = QueueSize + 2 /\ NoBuffer \notin Buffers
  /\ Segments \subseteq [stray : BOOLEAN, channel : Nat, bytes : Seq(Nat)]
  /\ \A s \in Segments : s.stray =>
       s.bytes # <<>> /\ \A i \in DOMAIN s.bytes : s.bytes[i] # Dollar

VARIABLES
  bytes,     \* what the camera has sent
  sent,      \* history: its segments, and where each begins
  arrived,   \* bytes of them that reached rc.reader
  pos,       \* bytes consumed
  quit,      \* the loop returned on a read error
  asking,    \* the loop waits for the answer of its keepalive
  pool,      \* free buffers of rtpPacketPool
  memory,    \* the packet each buffer holds
  received,  \* the channel: buffers
  held,      \* the buffer the consumer holds, or NoBuffer
  closing,   \* Close: no, asking (TEARDOWN), draining (the channel)
  delivered, \* packets written to the tracks, by their number in `queued`
  taken,     \* history: packets the loop built, and where their frame began
  phantom,   \* history: the loop took a header from inside a frame
  unheard,   \* history: the bytes that keepalives read
  cut,       \* history: a keepalive ended inside a frame
  queued,    \* history: packets that went into the channel
  gone,      \* history: how many of them left it
  ticket     \* history: the number of the packet the consumer took last

wire      == <<bytes, sent>>
loop      == <<pos, taken, phantom>>
keepalive == <<asking, unheard, cut>>
channel   == <<pool, memory, received, queued>>
tracks    == <<held, delivered, gone, ticket>>
vars      == <<wire, arrived, loop, quit, keepalive, channel, tracks, closing>>

Init ==
  /\ bytes = <<>> /\ sent = <<>> /\ arrived = 0
  /\ pos = 0 /\ taken = <<>> /\ phantom = FALSE /\ quit = FALSE
  /\ asking = FALSE /\ unheard = {} /\ cut = FALSE
  /\ pool = Buffers /\ memory = [b \in Buffers |-> <<>>]
  /\ received = <<>> /\ queued = <<>>
  /\ held = NoBuffer /\ delivered = <<>> /\ gone = 0 /\ ticket = 0
  /\ closing = "no"

----------------------------------------------------------------------------
(* The camera and the network.                                             *)

Encode(s) == IF s.stray THEN s.bytes ELSE <<Dollar, s.channel, Len(s.bytes)>> \o s.bytes

Send(s) ==
  /\ Len(sent) < MaxSegments
  /\ sent' = Append(sent, [from |-> Len(bytes), segment |-> s])
  /\ bytes' = bytes \o Encode(s)
  /\ UNCHANGED <<arrived, loop, quit, keepalive, channel, tracks, closing>>

\* Several bytes at once are several steps: nobody has to act in between.
Arrive ==
  /\ arrived < Len(bytes)
  /\ arrived' = arrived + 1
  /\ UNCHANGED <<wire, loop, quit, keepalive, channel, tracks, closing>>

----------------------------------------------------------------------------
(* handleTCPPackets.                                                       *)

Reading     == ~quit /\ ~asking
HeaderThere == arrived >= pos + Header
AtFrame     == bytes[pos + 1] = Dollar
Channel     == bytes[pos + 2]
Length      == bytes[pos + 3]
FrameEnd    == pos + Header + Length
FrameThere  == HeaderThere /\ FrameEnd <= arrived

\* A place after the first byte of a frame and before its last.
Inside(p) == \E i \in DOMAIN sent :
  /\ ~sent[i].segment.stray
  /\ sent[i].from < p /\ p < sent[i].from + Len(Encode(sent[i].segment))

\* Peek(4) has its bytes or times out, which is no error; nothing is consumed.
PeekConsumes == pos' = arrived
PeekTimesOut == UNCHANGED pos

TimeOut ==
  /\ Reading /\ ~HeaderThere
  /\ PeekTimesOut
  /\ UNCHANGED <<wire, arrived, taken, phantom, quit, keepalive, channel, tracks, closing>>

\* Synchronization is lost: one byte is skipped.
Resync ==
  /\ Reading /\ HeaderThere /\ ~AtFrame
  /\ pos' = pos + 1
  /\ UNCHANGED <<wire, arrived, taken, phantom, quit, keepalive, channel, tracks, closing>>

\* RTCP, unknown channels and frames without an RTP header are read over.
Forwarded(ch, length) == ch \in {0, 2} /\ length >= MinPayload

ReadOver ==
  /\ Reading /\ FrameThere /\ AtFrame /\ ~Forwarded(Channel, Length)
  /\ pos' = FrameEnd
  /\ phantom' = (phantom \/ Inside(pos))
  /\ UNCHANGED <<wire, arrived, taken, quit, keepalive, channel, tracks, closing>>

\* The packet is built in a buffer of the pool, then queued; when the queue
\* is full it is dropped and its buffer goes back.
QueueOrDrop(b, packet) ==
  IF Len(received) < QueueSize
  THEN /\ received' = Append(received, b) /\ pool' = pool \ {b}
       /\ queued' = Append(queued, packet)
  ELSE UNCHANGED <<received, pool, queued>>

ReadPacket(b) ==
  /\ Reading /\ FrameThere /\ AtFrame /\ Forwarded(Channel, Length)
  /\ b \in pool
  /\ LET packet == SubSeq(bytes, pos + 1, FrameEnd)
     IN  /\ memory' = [memory EXCEPT ![b] = packet]
         /\ QueueOrDrop(b, packet)
         /\ taken' = Append(taken, [from |-> pos, packet |-> packet])
  /\ pos' = FrameEnd
  /\ phantom' = (phantom \/ Inside(pos))
  /\ UNCHANGED <<wire, arrived, quit, keepalive, tracks, closing>>

\* The connection is lost, or a deadline passes in the middle of a frame.
ReadError ==
  /\ Reading
  /\ quit' = TRUE
  /\ UNCHANGED <<wire, arrived, loop, keepalive, channel, tracks, closing>>

----------------------------------------------------------------------------
(* The keepalive: readRTSPResponse, in the loop itself and under ioMu.     *)

Ask ==
  /\ Reading /\ closing = "no"
  /\ asking' = TRUE
  /\ UNCHANGED <<wire, arrived, loop, quit, unheard, cut, channel, tracks, closing>>

Hears(to) ==
  /\ pos' = to
  /\ unheard' = unheard \cup (pos + 1 .. to)
  /\ cut' = (cut \/ Inside(to))
  /\ UNCHANGED <<wire, arrived, taken, phantom, quit, channel, tracks, closing>>

\* A frame is thrown away, forwardable or not.
SkipFrame ==
  /\ asking /\ FrameThere /\ AtFrame
  /\ Hears(FrameEnd)
  /\ UNCHANGED asking

\* Anything else is read to the end of its line, wherever that is.
LineEnds == {n \in pos + 1 .. arrived : bytes[n] = Newline}

ReadLine ==
  /\ asking /\ arrived > pos /\ ~AtFrame
  /\ \E n \in LineEnds : (\A k \in LineEnds : n <= k) /\ Hears(n)
  /\ asking' = (bytes[pos + 1] # Status)

\* The deadline of 3 s: what has arrived of a frame or a line is consumed, and
\* the loop goes on.
Expires ==
  /\ asking
  /\ arrived > pos => IF AtFrame THEN ~FrameThere ELSE LineEnds = {}
  /\ Hears(arrived)
  /\ asking' = FALSE

----------------------------------------------------------------------------
(* consumeRTPPackets and Close.                                            *)

\* The consumer takes a buffer from the channel ...
PoolGetsHeldAtOnce == pool' = pool \cup {Head(received)}
PoolKeepsHeld      == UNCHANGED pool

Consume ==
  /\ held = NoBuffer /\ received # <<>>
  /\ held' = Head(received)
  /\ received' = Tail(received)
  /\ PoolKeepsHeld
  /\ gone' = gone + 1 /\ ticket' = gone + 1
  /\ UNCHANGED <<wire, arrived, loop, quit, keepalive, memory, queued, delivered, closing>>

\* ... writes it to its track and puts the buffer back.
Deliver ==
  /\ held # NoBuffer
  /\ delivered' = Append(delivered, [number |-> ticket, packet |-> memory[held]])
  /\ pool' = pool \cup {held}
  /\ held' = NoBuffer
  /\ UNCHANGED <<wire, arrived, loop, quit, keepalive, memory, received, queued, gone, ticket, closing>>

\* Close holds ioMu, the loop does not: for TEARDOWN both read rc.reader, a
\* data race after which the loop may stand anywhere.
CloseAsks ==
  /\ closing = "no" /\ ~asking
  /\ closing' = "asking"
  /\ \E p \in 0 .. arrived : pos' = p
  /\ UNCHANGED <<wire, arrived, taken, phantom, quit, keepalive, channel, tracks>>

\* Then it empties the channel, while the loop may fill it and the consumer
\* take from it.
Drained == closing = "draining"

Drain ==
  /\ ~asking
  /\ closing' = "draining"
  /\ received # <<>>
  /\ received' = Tail(received)
  /\ pool' = pool \cup {Head(received)}
  /\ gone' = gone + 1
  /\ UNCHANGED <<wire, arrived, loop, quit, keepalive, memory, queued, held, delivered, ticket>>

Next ==
  \/ \E s \in Segments : Send(s)
  \/ Arrive \/ TimeOut \/ Resync \/ ReadOver \/ ReadError
  \/ \E b \in Buffers : ReadPacket(b)
  \/ Ask \/ SkipFrame \/ ReadLine \/ Expires
  \/ Consume \/ Deliver \/ CloseAsks \/ Drain

Spec == Init /\ [][Next]_vars

----------------------------------------------------------------------------
(* Properties.                                                             *)

\* The frames sent that are to be forwarded: what the loop must build.
Wanted(x)  == ~x.segment.stray /\ Forwarded(x.segment.channel, Len(x.segment.bytes))
AsTaken(x) == [from |-> x.from, packet |-> Encode(x.segment)]
Passed(x)  == x.from + Len(Encode(x.segment)) <= pos

Unheard(x) == \E p \in x.from + 1 .. x.from + Len(Encode(x.segment)) : p \in unheard

\* Whatever arrives in whatever pieces, after stray bytes and timeouts, the
\* loop builds every frame it has passed that no keepalive read into, no other,
\* and each once, in order; a keepalive may leave it inside a frame, and nothing
\* else does.  From there it finds the next frame, unless a `$` of the payload
\* makes it a phantom (handleTCPPackets, readRTSPResponse), until Close.
FramesExact ==
  closing = "no" =>
    /\ Inside(pos) \/ phantom => cut
    /\ ~phantom => \A i \in DOMAIN sent : Wanted(sent[i]) /\ Passed(sent[i]) =>
         (\E j \in DOMAIN taken : taken[j] = AsTaken(sent[i])) \/ Unheard(sent[i])
    /\ ~phantom => \A j \in DOMAIN taken :
         \E i \in DOMAIN sent : Wanted(sent[i]) /\ Passed(sent[i]) /\ taken[j] = AsTaken(sent[i])
    /\ \A i, j \in DOMAIN taken : i < j => taken[i].from < taken[j].from

\* A packet that was queued reaches its track whole and in order, although its
\* buffer is used again and again; none is skipped but by Close, which may
\* drain the channel while it is being filled.
DeliveredInOrder ==
  /\ \A i \in DOMAIN delivered :
       /\ delivered[i].number \in DOMAIN queued
       /\ delivered[i].packet = queued[delivered[i].number]
       /\ ~Drained => delivered[i].number = i
  /\ \A i, j \in DOMAIN delivered : i < j => delivered[i].number < delivered[j].number
=============================================================================
