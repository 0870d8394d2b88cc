------------------------------- MODULE MCData -------------------------------
(* Framing for TLC, and the pure functions of Codecs and Inbox on every      *)
(* bounded input: a behaviour starts with a stream, an SDP or a message.     *)
EXTENDS Framing, Codecs, Inbox, TLC

CONSTANTS MaxLines, Clocks
VARIABLES sdp, msg, now

\* A clock is set some time after 1970, far from the end of Unix times.
ASSUME DataAssumption ==
  /\ MaxLines \in Nat
  /\ Clocks \subseteq 0 .. SecondsHalf - 1 - UnixToInternal - maxClockSkew

dataVars == <<vars, sdp, msg, now>>

Symmetry == Permutations(Buffers)

\* Bound: the camera is ahead of the network.  The code sees what has arrived,
\* so a stream cut anywhere is one that arrived so far.
SentAhead == arrived > 0 => Len(sent) = MaxSegments

\* Bound: Close comes late, and before any keepalive.  It may leave the loop
\* anywhere, so the stream behind it adds nothing.
ClosedLate == closing # "no" => arrived = Len(bytes) /\ unheard = {}

\* Payloads hold a `$`, and a `$` with a plausible header after it.
MCSegments ==
  {Stray(<<Status, Newline>>), Frame(0, <<7, Dollar>>), Frame(2, <<Dollar, 0, 2>>),
   Frame(1, <<Dollar, 0>>), Frame(0, <<Dollar>>)}

Lines ==
  {MediaLine("video", <<96>>), MediaLine("audio", <<0, 97, 8>>), MediaLine("audio", <<97>>),
   MediaLine("application", <<0>>), Rtpmap("h264"), Rtpmap("opus"), Rtpmap("mpeg4-generic"),
   OtherLine}

Messages == [sender : BOOLEAN, version : BOOLEAN, type : {"offer", "bye", "unknown"},
             ts : Signed(SecondsHalf)]
NoMessage == [sender |-> FALSE, version |-> FALSE, type |-> "unknown", ts |-> 0]

DataInit ==
  /\ Init
  /\ \/ sdp \in UNION {[1 .. n -> Lines] : n \in 0 .. MaxLines} /\ msg = NoMessage /\ now = 0
     \/ sdp = <<>> /\ msg \in Messages /\ now \in Clocks

DataNext ==
  /\ sdp = <<>> /\ msg = NoMessage /\ now = 0
  /\ Next
  /\ UNCHANGED <<sdp, msg, now>>

DataSpec == DataInit /\ [][DataNext]_dataVars

\* The codecs of the SDP are found, published and used as announced.
CodecsExact == ParsedExactly(sdp) /\ UsesFirstPublished(sdp)

\* A message is handled if it is timely, and an offer that is not is told so.
TimelyHandled == HandledIffTimely(msg, now)
=============================================================================
