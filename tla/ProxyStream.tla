----------------------------- MODULE ProxyStream -----------------------------
(***************************************************************************)
(* One WebRTCProxy (src/webrtc.go), from the offer it is made for, and the *)
(* RtspClients it opens, one per attempt.  HandleOffer makes the           *)
(* PeerConnection and negotiates, or closes it.  Pion runs every callback  *)
(* of handleConnectionState in a goroutine of its own; the first           *)
(* `connected` starts StartRTSPStream; each client that plays has its      *)
(* RtspRtpLoop; Close may come from anyone at any time.  A critical        *)
(* section of wp.mu or of ioMu is one step, and so is each RTSP request.   *)
(***************************************************************************)
EXTENDS Naturals

CONSTANTS
  MaxAttempts,  \* maxAttempts of StartRTSPStream
  Callbacks     \* goroutines for pion's callbacks

ASSUME ProxyAssumption == MaxAttempts \in Nat \ {0}

Clients == 1..MaxAttempts
PeerStates == {"connected", "disconnected", "failed"}

VARIABLES
  offer,    \* HandleOffer: new, made (the PeerConnection), answered, failed, refused
  done,     \* wp.done is closed
  closed,   \* wp.closed
  client,   \* wp.rtspClient: the attempt it serves, 0 when nil
  started,  \* wp.started
  grace,    \* wp.disconnectTimer: none (nil), armed, off (stopped or fired)
  expired,  \* the timer fired, its callback is about to call end
  raised,   \* the reasons given to onEnd
  peer,     \* the state of the PeerConnection
  at,       \* where each callback is: idle, enter, act (past the first lock)
  seen,     \* the state each callback was called with, or none
  sp,       \* where StartRTSPStream is
  attempt,  \* its attempt, counted from 1
  socket,   \* the socket of each client: none, open, closed
  loop,     \* RtspRtpLoop of each client: none, running, quit (it signalled)
  cl,       \* where Close is
  mine,     \* its local `client`
  missed,   \* client.Close ran while that client was still dialing
  crossed   \* history: some callback has started while another ran, since
            \* one last started alone

proxy    == <<done, closed, client, started>>
timer    == <<grace, expired>>
callback == <<at, seen, crossed>>
stream   == <<sp, attempt>>
rtsp     == <<socket, loop>>
closer   == <<cl, mine, missed>>
vars     == <<offer, proxy, timer, raised, peer, callback, stream, rtsp, closer>>

ProxyTypeOK ==
  /\ offer   \in {"new", "made", "answered", "failed", "refused"}
  /\ done \in BOOLEAN /\ closed \in BOOLEAN /\ started \in BOOLEAN
  /\ client  \in {0} \cup Clients
  /\ grace   \in {"none", "armed", "off"}
  /\ expired \in BOOLEAN
  /\ raised  \subseteq {"ice_failed", "source_lost"}
  /\ peer    \in PeerStates \cup {"none", "new", "closed"}
  /\ at      \in [Callbacks -> {"idle", "enter", "act"}]
  /\ seen    \in [Callbacks -> PeerStates \cup {"none"}]
  /\ sp      \in {"none", "backoff", "install", "dial", "describe", "setup",
                  "play", "consume", "check", "drop", "lost", "gone"}
  /\ attempt \in Clients
  /\ socket  \in [Clients -> {"none", "open", "closed"}]
  /\ loop    \in [Clients -> {"none", "running", "quit"}]
  /\ cl      \in {"idle", "lock", "peer", "client", "closed"}
  /\ mine    \in {0} \cup Clients
  /\ missed  \in BOOLEAN /\ crossed \in BOOLEAN

Init ==
  /\ offer = "new"
  /\ done = FALSE /\ closed = FALSE /\ client = 0 /\ started = FALSE
  /\ grace = "none" /\ expired = FALSE
  /\ raised = {}
  /\ peer = "none"
  /\ at = [h \in Callbacks |-> "idle"]
  /\ seen = [h \in Callbacks |-> "none"]
  /\ sp = "none" /\ attempt = 1
  /\ socket = [c \in Clients |-> "none"]
  /\ loop = [c \in Clients |-> "none"]
  /\ cl = "idle" /\ mine = 0 /\ missed = FALSE
  /\ crossed = FALSE

----------------------------------------------------------------------------
(* HandleOffer.  Nobody else has the proxy before it answered.             *)

\* The offer lacks the video codec: there is nothing to close.
RefuseCodec ==
  /\ offer = "new" /\ offer' = "refused"
  /\ UNCHANGED <<proxy, timer, raised, peer, callback, stream, rtsp, closer>>

MakePeer ==
  /\ offer = "new"
  /\ \/ offer' = "made" /\ peer' = "new"
     \/ offer' = "failed" /\ UNCHANGED peer
  /\ UNCHANGED <<proxy, timer, raised, callback, stream, rtsp, closer>>

\* The tracks, the remote description, the answer, the local description.
Negotiate ==
  /\ offer = "made" /\ offer' \in {"answered", "failed"}
  /\ UNCHANGED <<proxy, timer, raised, peer, callback, stream, rtsp, closer>>

\* The error is returned once wp.Close is over.
CloseSkipped == TRUE
CloseOver    == cl = "closed"

Refuse ==
  /\ offer = "failed"
  /\ CloseOver
  /\ offer' = "refused"
  /\ UNCHANGED <<proxy, timer, raised, peer, callback, stream, rtsp, closer>>

OfferStep == RefuseCodec \/ MakePeer \/ Negotiate \/ Refuse

----------------------------------------------------------------------------
(* The PeerConnection and its callbacks.                                   *)

PeerMoves(from, to) ==
  \/ to = "connected"    /\ from \in {"new", "disconnected"}
  \/ to = "disconnected" /\ from = "connected"
  \/ to = "failed"       /\ from \in {"new", "connected", "disconnected"}

PeerChanges(h, to) ==
  /\ offer = "answered"
  /\ at[h] = "idle"
  /\ PeerMoves(peer, to)
  /\ peer' = to
  /\ at'   = [at EXCEPT ![h] = "enter"]
  /\ seen' = [seen EXCEPT ![h] = to]
  /\ crossed' = (\E g \in Callbacks : at[g] # "idle")
  /\ UNCHANGED <<offer, proxy, timer, raised, stream, rtsp, closer>>

Returns(h) ==
  /\ at'   = [at EXCEPT ![h] = "idle"]
  /\ seen' = [seen EXCEPT ![h] = "none"]
  /\ UNCHANGED crossed

\* Any state but `disconnected` stops the timer and forgets it.
GraceKept(h)    == UNCHANGED grace
GraceStopped(h) == grace' = IF seen[h] = "disconnected" THEN grace ELSE "none"

\* The first critical section of handleConnectionState.
CallbackEnters(h) ==
  /\ at[h] = "enter"
  /\ ~closed
  /\ at'    = [at EXCEPT ![h] = "act"]
  /\ GraceStopped(h)
  /\ UNCHANGED <<offer, proxy, expired, raised, peer, seen, crossed, stream, rtsp, closer>>

CallbackFindsClosed(h) ==
  /\ at[h] = "enter"
  /\ closed
  /\ Returns(h)
  /\ UNCHANGED <<offer, proxy, timer, raised, peer, stream, rtsp, closer>>

CallbackActs(h, state) ==
  /\ at[h] = "act" /\ seen[h] = state
  /\ Returns(h)

\* wp.end: nothing once closed, else onEnd.
Raise(reason) == raised' = IF closed THEN raised ELSE raised \cup {reason}

PeerFails(h) ==
  /\ CallbackActs(h, "failed")
  /\ Raise("ice_failed")
  /\ UNCHANGED <<offer, proxy, timer, peer, stream, rtsp, closer>>

GraceGuardForgettingClose == grace = "none"
GraceGuard                == grace = "none" /\ ~closed

PeerDisconnects(h) ==
  /\ CallbackActs(h, "disconnected")
  /\ grace' = IF GraceGuard THEN "armed" ELSE grace
  /\ UNCHANGED <<offer, proxy, expired, raised, peer, stream, rtsp, closer>>

\* Only the first `connected` starts the stream.
PeerConnects(h) ==
  /\ CallbackActs(h, "connected")
  /\ started' = TRUE
  /\ sp' = IF started THEN sp ELSE "install"
  /\ UNCHANGED <<offer, done, closed, client, timer, raised, peer, attempt, rtsp, closer>>

GraceFires ==
  /\ grace = "armed"
  /\ grace' = "off" /\ expired' = TRUE
  /\ UNCHANGED <<offer, proxy, raised, peer, callback, stream, rtsp, closer>>

GraceEnds ==
  /\ expired
  /\ expired' = FALSE
  /\ Raise("ice_failed")
  /\ UNCHANGED <<offer, proxy, grace, peer, callback, stream, rtsp, closer>>

----------------------------------------------------------------------------
(* StartRTSPStream.                                                        *)

StreamTo(place) == sp' = place /\ UNCHANGED attempt

CloseSocket(c) == socket' = [socket EXCEPT ![c] = IF @ = "open" THEN "closed" ELSE @]

\* The wait before a new attempt ends, or wp.done is closed.
Backoff ==
  /\ sp = "backoff"
  /\ \/ StreamTo("install")
     \/ done /\ StreamTo("gone")
  /\ UNCHANGED <<offer, proxy, timer, raised, peer, callback, rtsp, closer>>

MayInstallUnchecked == TRUE
MayInstall          == ~closed

Install ==
  /\ sp = "install"
  /\ \/ ~MayInstall /\ StreamTo("gone") /\ UNCHANGED client
     \/ MayInstall /\ StreamTo("dial") /\ client' = attempt
  /\ UNCHANGED <<offer, done, closed, started, timer, raised, peer, callback, rtsp, closer>>

\* client.Client failed: client.Close, then the next attempt, if any is left.
NextAttemptUncounted ==
  \/ attempt <= MaxAttempts /\ attempt' = attempt + 1 /\ sp' = "backoff"
  \/ attempt > MaxAttempts /\ StreamTo("lost")

NextAttempt ==
  \/ attempt < MaxAttempts /\ attempt' = attempt + 1 /\ sp' = "backoff"
  \/ attempt = MaxAttempts /\ StreamTo("lost")

AbandonLeavingSocket == NextAttempt /\ UNCHANGED socket
Abandon              == NextAttempt /\ CloseSocket(attempt)

\* Connect sets the socket without ioMu, whatever Close did meanwhile.
Dial ==
  /\ sp = "dial"
  /\ \/ Abandon
     \/ socket' = [socket EXCEPT ![attempt] = "open"] /\ StreamTo("describe")
  /\ UNCHANGED <<offer, proxy, timer, raised, peer, callback, loop, closer>>

\* A request needs the socket; the camera may refuse it or be lost.  The
\* answer to OPTIONS is ignored, and so is the status of SETUP.
Answered(from, to) ==
  /\ sp = from
  /\ socket[attempt] = "open"
  /\ StreamTo(to)

RequestFails ==
  /\ sp \in {"describe", "setup", "play"}
  /\ Abandon
  /\ UNCHANGED <<offer, proxy, timer, raised, peer, callback, loop, closer>>

HandshakeGoesOn ==
  /\ Answered("describe", "setup") \/ Answered("setup", "play")
  /\ UNCHANGED <<offer, proxy, timer, raised, peer, callback, rtsp, closer>>

\* PLAY was answered 200: go rc.RtspRtpLoop().
Plays ==
  /\ Answered("play", "consume")
  /\ loop' = [loop EXCEPT ![attempt] = "running"]
  /\ UNCHANGED <<offer, proxy, timer, raised, peer, callback, socket, closer>>

\* RtspRtpLoop returns or panics, and signals.
LoopEnds(c) ==
  /\ loop[c] = "running"
  /\ loop' = [loop EXCEPT ![c] = "quit"]
  /\ UNCHANGED <<offer, proxy, timer, raised, peer, callback, stream, socket, closer>>

\* The select of consumeRTPPackets leaves on the signal or on wp.done.
ConsumeEndsOnSignal == loop[attempt] = "quit"
ConsumeEnds         == loop[attempt] = "quit" \/ done

Consume ==
  /\ sp = "consume"
  /\ ConsumeEnds
  /\ StreamTo("check")
  /\ UNCHANGED <<offer, proxy, timer, raised, peer, callback, rtsp, closer>>

\* isClosed: the client is left to Close.
Check ==
  /\ sp = "check"
  /\ StreamTo(IF closed THEN "gone" ELSE "drop")
  /\ UNCHANGED <<offer, proxy, timer, raised, peer, callback, rtsp, closer>>

Drop ==
  /\ sp = "drop"
  /\ Abandon
  /\ UNCHANGED <<offer, proxy, timer, raised, peer, callback, loop, closer>>

LostUnreported == StreamTo("gone") /\ UNCHANGED raised
Report         == StreamTo("gone") /\ Raise("source_lost")

SourceLost ==
  /\ sp = "lost"
  /\ Report
  /\ UNCHANGED <<offer, proxy, timer, peer, callback, rtsp, closer>>

StreamStep ==
  \/ Backoff \/ Install \/ Dial \/ RequestFails \/ HandshakeGoesOn
  \/ Plays \/ Consume \/ Check \/ Drop \/ SourceLost

----------------------------------------------------------------------------
(* Close, once: from endSession after onEnd, after a bye, at shutdown, or  *)
(* from HandleOffer.                                                       *)

CloseBegins ==
  /\ cl = "idle"
  /\ offer \in {"answered", "failed"}
  /\ cl' = "lock"
  /\ done' = TRUE
  /\ UNCHANGED <<offer, closed, client, started, timer, raised, peer, callback, stream, rtsp,
                 mine, missed>>

CloseLocks ==
  /\ cl = "lock"
  /\ cl' = "peer"
  /\ closed' = TRUE
  /\ mine' = client /\ client' = 0
  /\ grace' = IF grace = "armed" THEN "off" ELSE grace
  /\ UNCHANGED <<offer, done, started, expired, raised, peer, callback, stream, rtsp, missed>>

ClosePeer ==
  /\ cl = "peer"
  /\ cl' = "client"
  /\ peer' = IF peer = "none" THEN peer ELSE "closed"
  /\ UNCHANGED <<offer, proxy, timer, raised, callback, stream, rtsp, mine, missed>>

\* client.Close: nothing to close while the client is still dialing.
CloseClient ==
  /\ cl = "client"
  /\ cl' = "closed"
  /\ IF mine = 0 THEN UNCHANGED socket ELSE CloseSocket(mine)
  /\ missed' = (mine # 0 /\ sp = "dial")
  /\ mine' = 0
  /\ UNCHANGED <<offer, proxy, timer, raised, peer, callback, stream, loop>>

CloseStep == CloseLocks \/ ClosePeer \/ CloseClient

----------------------------------------------------------------------------
CallbackStep(h) ==
  \/ CallbackEnters(h) \/ CallbackFindsClosed(h)
  \/ PeerFails(h) \/ PeerDisconnects(h) \/ PeerConnects(h)

Next ==
  \/ OfferStep
  \/ \E h \in Callbacks : CallbackStep(h) \/ \E to \in PeerStates : PeerChanges(h, to)
  \/ GraceFires \/ GraceEnds
  \/ StreamStep
  \/ \E c \in Clients : LoopEnds(c)
  \/ CloseBegins \/ CloseStep

Spec == Init /\ [][Next]_vars

\* The loop of a client whose socket is gone reads an error.
ReadFails == \E c \in Clients : socket[c] # "open" /\ LoopEnds(c)

\* Goroutines run on; dials and requests time out; the agent closes a proxy
\* that called onEnd.  Nothing makes a good connection fail.
Fairness ==
  /\ \A h \in Callbacks : WF_vars(CallbackStep(h))
  /\ WF_vars(GraceEnds)
  /\ WF_vars(StreamStep)
  /\ WF_vars(ReadFails)
  /\ WF_vars((raised # {} \/ offer = "failed") /\ CloseBegins)
  /\ WF_vars(OfferStep)
  /\ WF_vars(CloseStep)

FairSpec == Spec /\ Fairness

----------------------------------------------------------------------------
(* Properties.                                                             *)

\* The camera is asked for one stream at a time: StartRTSPStream closes a
\* client before it dials with the next one.
OneConnection ==
  \A c, d \in Clients : socket[c] = "open" /\ socket[d] = "open" => c = d

\* A callback that was between its two critical sections when Close ran does
\* not leave a disconnectTimer armed on a closed proxy.
NoGraceOnceClosed == closed => grace # "armed"

\* An offer that is refused leaves no PeerConnection behind, whatever failed.
RefusedLeavesNothing == offer = "refused" => peer \in {"none", "closed"}

\* When no callback runs, the grace of a disconnected peer is armed or over,
\* and that of a peer that is back is stopped, unless callbacks crossed: pion
\* orders their starts, not their critical sections.
GraceFollowsPeer ==
  ~crossed /\ ~closed /\ (\A h \in Callbacks : at[h] = "idle") =>
    /\ grace = "armed" => peer = "disconnected"
    /\ peer = "disconnected" => grace # "none"

\* Once Close and StartRTSPStream are over, a socket is still open only if
\* client.Close had come while the client was dialing.
LeakOnlyWhileDialing ==
  cl = "closed" /\ sp \in {"none", "gone"} /\ ~missed =>
    \A c \in Clients : socket[c] # "open"

\* After Close the stream goroutine ends for good, be it started by a
\* callback that Close overtook.
StreamStops == <>[](done => sp \in {"none", "gone"})

\* A failed connection, and a stream goroutine that gave up, end the session:
\* the proxy never stays open with nothing to forward.
LossEndsSession == (peer = "failed" \/ sp = "gone") ~> closed

\* "Close terminates the WebRTC and RTSP connections" (webrtc.go:71).
CloseTerminates ==
  cl = "closed" /\ sp \in {"none", "gone"} => \A c \in Clients : socket[c] # "open"
=============================================================================
