-------------------------- MODULE ProxyStreamProofs --------------------------
(***************************************************************************)
(* The stream of a session for any number of attempts and of callbacks.    *)
(* Only the socket of the current attempt can be open (OnlyCurrent); while *)
(* the stream works with a client, that client is the one Close will find  *)
(* (Found) or has found (Grabbed); so what Close misses is a client whose  *)
(* socket did not exist yet.  A second invariant, HandlingInv, follows the  *)
(* PeerConnection: one callback at a time unless they crossed, each seeing *)
(* the state the peer is in.                                               *)
(***************************************************************************)
EXTENDS ProxyStream, TLAPS

\* StartRTSPStream holds a client it installed.
Live == {"dial", "describe", "setup", "play", "consume", "check", "drop"}

\* No socket but the one of the current attempt is open.
OnlyCurrent == \A c \in Clients : socket[c] = "open" => c = attempt

\* Before the first `connected` there is no stream; a stream that holds no
\* client has no open socket, unless it left the client to Close.
Holding ==
  /\ ~started => sp = "none"
  /\ socket[attempt] = "open" => sp \in Live \/ (sp = "gone" /\ closed)

\* closed is set by the first critical section of Close, and stays.
Closing == closed <=> cl \in {"peer", "client", "closed"}

\* A client in use is the one in wp.rtspClient, until Close takes it.
Found   == ~closed /\ sp \in Live => client = attempt
Grabbed == cl \in {"peer", "client"} /\ (sp \in Live \/ socket[attempt] = "open") => mine = attempt

\* What Close found, it closed.
Finished == cl = "closed" /\ ~missed => sp # "dial" /\ \A c \in Clients : socket[c] # "open"

ProxyInv ==
  /\ ProxyTypeOK /\ OnlyCurrent /\ Holding /\ Closing /\ Found /\ Grabbed /\ Finished
  /\ NoGraceOnceClosed

LEMMA ProxyInvInit == Init => ProxyInv
<1> SUFFICES ASSUME Init PROVE ProxyInv
  OBVIOUS
<1> USE ProxyAssumption DEF Init, Clients
<1>1. ProxyTypeOK
  <2>1. /\ at \in [Callbacks -> {"idle", "enter", "act"}]
        /\ seen \in [Callbacks -> PeerStates \cup {"none"}]
    OBVIOUS
  <2>2. /\ socket \in [Clients -> {"none", "open", "closed"}]
        /\ loop \in [Clients -> {"none", "running", "quit"}]
    OBVIOUS
  <2>3. raised \subseteq {"ice_failed", "source_lost"} /\ attempt \in Clients
    OBVIOUS
  <2>4. QED
    BY <2>1, <2>2, <2>3 DEF ProxyTypeOK
<1>2. OnlyCurrent /\ Holding /\ Closing /\ Found /\ Grabbed /\ Finished /\ NoGraceOnceClosed
  BY DEF OnlyCurrent, Holding, Closing, Found, Grabbed, Finished, NoGraceOnceClosed, Live
<1>3. QED
  BY <1>1, <1>2 DEF ProxyInv

\* client.Close and the next attempt, from a place where the stream holds its
\* client: the socket is closed, the next one is not open yet.
LEMMA AbandonKeeps ==
  ASSUME ProxyInv, sp \in Live, Abandon,
         UNCHANGED <<offer, proxy, timer, raised, peer, callback, loop, closer>>
  PROVE  ProxyInv'
<1> USE ProxyAssumption DEF ProxyInv, ProxyTypeOK, OnlyCurrent, Holding, Closing, Found, Grabbed,
        Finished, NoGraceOnceClosed, Clients, Live, proxy, timer, callback, closer
<1>1. /\ attempt' \in Clients
      /\ socket' \in [Clients -> {"none", "open", "closed"}]
      /\ \A c \in Clients : socket'[c] # "open"
      /\ sp' \in {"backoff", "lost"}
  BY DEF Abandon, NextAttempt, CloseSocket, StreamTo
<1>2. QED
  BY <1>1

\* One step of a callback (handleConnectionState).
LEMMA CallbackKeeps ==
  ASSUME ProxyInv, NEW h \in Callbacks, CallbackStep(h)
  PROVE  ProxyInv'
<1> USE ProxyAssumption DEF ProxyInv, ProxyTypeOK, OnlyCurrent, Holding, Closing, Found, Grabbed,
        Finished, NoGraceOnceClosed, Live, proxy, timer, callback, stream, rtsp, closer, Returns,
        CallbackActs, Raise, PeerStates
<1>1. CASE CallbackEnters(h)
  BY <1>1 DEF CallbackEnters, GraceStopped
<1>2. CASE CallbackFindsClosed(h)
  BY <1>2 DEF CallbackFindsClosed
<1>3. CASE PeerFails(h)
  BY <1>3 DEF PeerFails
<1>4. CASE PeerDisconnects(h)
  BY <1>4 DEF PeerDisconnects, GraceGuard
<1>5. CASE PeerConnects(h)
  BY <1>5 DEF PeerConnects
<1>6. QED
  BY <1>1, <1>2, <1>3, <1>4, <1>5 DEF CallbackStep

\* One step of StartRTSPStream.
LEMMA StreamKeeps ==
  ASSUME ProxyInv, StreamStep
  PROVE  ProxyInv'
<1> USE ProxyAssumption DEF ProxyInv, ProxyTypeOK, OnlyCurrent, Holding, Closing, Found, Grabbed,
        Finished, NoGraceOnceClosed, Live, proxy, timer, callback, rtsp, closer, StreamTo
<1>1. CASE Backoff
  BY <1>1 DEF Backoff
<1>2. CASE Install
  BY <1>2 DEF Install, MayInstall
<1>3. CASE Dial
  <2>1. CASE Abandon
    BY <1>3, <2>1, AbandonKeeps DEF Dial
  <2>2. CASE socket' = [socket EXCEPT ![attempt] = "open"] /\ StreamTo("describe")
    BY <1>3, <2>2 DEF Dial
  <2>3. QED
    BY <1>3, <2>1, <2>2 DEF Dial
<1>4. CASE RequestFails
  BY <1>4, AbandonKeeps DEF RequestFails
<1>5. CASE HandshakeGoesOn
  BY <1>5 DEF HandshakeGoesOn, Answered
<1>6. CASE Plays
  BY <1>6 DEF Plays, Answered
<1>7. CASE Consume
  BY <1>7 DEF Consume
<1>8. CASE Check
  BY <1>8 DEF Check
<1>9. CASE Drop
  BY <1>9, AbandonKeeps DEF Drop
<1>10. CASE SourceLost
  BY <1>10 DEF SourceLost, Report, Raise
<1>11. QED
  BY <1>1, <1>2, <1>3, <1>4, <1>5, <1>6, <1>7, <1>8, <1>9, <1>10 DEF StreamStep

\* One step of Close.
LEMMA CloseKeeps ==
  ASSUME ProxyInv, CloseBegins \/ CloseStep
  PROVE  ProxyInv'
<1> USE ProxyAssumption DEF ProxyInv, ProxyTypeOK, OnlyCurrent, Holding, Closing, Found, Grabbed,
        Finished, NoGraceOnceClosed, Live, proxy, timer, callback, stream, rtsp
<1>1. CASE CloseBegins
  BY <1>1 DEF CloseBegins
<1>2. CASE CloseLocks
  BY <1>2 DEF CloseLocks
<1>3. CASE ClosePeer
  BY <1>3 DEF ClosePeer
<1>4. CASE CloseClient
  <2>1. CASE mine = 0
    BY <1>4, <2>1 DEF CloseClient, Clients
  <2>2. CASE mine # 0
    <3>1. /\ socket' = [socket EXCEPT ![mine] = IF @ = "open" THEN "closed" ELSE @]
          /\ missed' = (sp = "dial") /\ mine \in Clients
      BY <1>4, <2>2 DEF CloseClient, CloseSocket
    <3>2. \A c \in Clients : socket'[c] # "open"
      BY <1>4, <3>1 DEF CloseClient
    <3>3. QED
      BY <1>4, <3>1, <3>2 DEF CloseClient
  <2>3. QED
    BY <2>1, <2>2
<1>5. QED
  BY <1>1, <1>2, <1>3, <1>4 DEF CloseStep

LEMMA ProxyInvStep == ProxyInv /\ [Next]_vars => ProxyInv'
<1> SUFFICES ASSUME ProxyInv, [Next]_vars PROVE ProxyInv'
  OBVIOUS
<1> USE DEF ProxyInv, ProxyTypeOK, OnlyCurrent, Holding, Closing, Found, Grabbed, Finished,
        NoGraceOnceClosed, proxy, timer, callback, stream, rtsp, closer
<1>1. ASSUME NEW h \in Callbacks, NEW to \in PeerStates, PeerChanges(h, to) PROVE ProxyInv'
  BY <1>1 DEF PeerChanges
<1>2. CASE GraceFires
  BY <1>2 DEF GraceFires
<1>3. CASE GraceEnds
  <2>1. raised' \subseteq {"ice_failed", "source_lost"} /\ expired' \in BOOLEAN
    BY <1>3 DEF GraceEnds, Raise
  <2>2. QED
    BY <1>3, <2>1 DEF GraceEnds
<1>4. ASSUME NEW c \in Clients, LoopEnds(c) PROVE ProxyInv'
  BY <1>4 DEF LoopEnds
<1>5. CASE OfferStep
  <2>1. CASE RefuseCodec
    BY <2>1 DEF RefuseCodec
  <2>2. CASE MakePeer
    BY <2>2 DEF MakePeer
  <2>3. CASE Negotiate
    BY <2>3 DEF Negotiate
  <2>4. CASE Refuse
    BY <2>4 DEF Refuse
  <2>5. QED
    BY <1>5, <2>1, <2>2, <2>3, <2>4 DEF OfferStep
<1>6. CASE UNCHANGED vars
  BY <1>6 DEF vars
<1>7. QED
  BY <1>1, <1>2, <1>3, <1>4, <1>5, <1>6, CallbackKeeps, StreamKeeps, CloseKeeps DEF Next

THEOREM ProxyInvariant == Spec => []ProxyInv
BY ProxyInvInit, ProxyInvStep, PTL DEF Spec

\* Every variable of the proxy keeps its type; the attempts stay in bounds.
THEOREM ProxyTypeCorrect == Spec => []ProxyTypeOK
<1>1. ProxyInv => ProxyTypeOK
  BY DEF ProxyInv
<1>2. QED
  BY <1>1, ProxyInvariant, PTL

\* StartRTSPStream never holds two connections to the camera.
THEOREM OneConnectionAlways == Spec => []OneConnection
<1>1. ProxyInv => OneConnection
  BY DEF ProxyInv, OnlyCurrent, OneConnection
<1>2. QED
  BY <1>1, ProxyInvariant, PTL

\* Close and the two critical sections of a callback, in any order, leave no
\* disconnectTimer armed.
THEOREM GraceNeverOutlives == Spec => []NoGraceOnceClosed
<1>1. ProxyInv => NoGraceOnceClosed
  BY DEF ProxyInv
<1>2. QED
  BY <1>1, ProxyInvariant, PTL

\* The one way Close leaves the camera streaming is to come during the dial.
THEOREM LeaksOnlyWhileDialing == Spec => []LeakOnlyWhileDialing
<1>1. ProxyInv => LeakOnlyWhileDialing
  BY DEF ProxyInv, Finished, LeakOnlyWhileDialing
<1>2. QED
  BY <1>1, ProxyInvariant, PTL

----------------------------------------------------------------------------
(* The PeerConnection, its callbacks and the grace timer.                  *)

\* Unless callbacks crossed, at most one is running, with the peer's state;
\* past its first lock, only a `disconnected` one leaves a timer.
Lone ==
  ~crossed => \A g, h \in Callbacks : at[g] # "idle" /\ at[h] # "idle" => g = h

GraceInTime ==
  ~crossed /\ ~closed => \A h \in Callbacks : at[h] # "idle" =>
    /\ seen[h] = peer
    /\ at[h] = "act" /\ peer # "disconnected" => grace = "none"

\* Before the answer nothing runs; Close closes the PeerConnection for good.
PeerInv ==
  /\ offer \in {"new", "made"} => cl = "idle" /\ \A h \in Callbacks : at[h] = "idle"
  /\ offer = "new" => peer = "none"
  /\ cl \in {"client", "closed"} => peer \in {"none", "closed"}
  /\ RefusedLeavesNothing

HandlingInv == ProxyTypeOK /\ Closing /\ Lone /\ GraceInTime /\ GraceFollowsPeer /\ PeerInv

LEMMA HandlingInit == Init => HandlingInv
<1> SUFFICES ASSUME Init PROVE HandlingInv
  OBVIOUS
<1>1. ProxyTypeOK /\ Closing
  BY ProxyInvInit DEF ProxyInv
<1>2. Lone /\ GraceInTime /\ GraceFollowsPeer /\ PeerInv
  BY DEF Init, Lone, GraceInTime, GraceFollowsPeer, PeerInv, RefusedLeavesNothing
<1>3. QED
  BY <1>1, <1>2 DEF HandlingInv

LEMMA HandlingCallback ==
  ASSUME HandlingInv, NEW h \in Callbacks, CallbackStep(h)
  PROVE  (Lone /\ GraceInTime /\ GraceFollowsPeer /\ PeerInv)'
<1> USE DEF HandlingInv, ProxyTypeOK, Closing, Lone, GraceInTime, GraceFollowsPeer, PeerInv,
        RefusedLeavesNothing, proxy, timer, closer, Returns, CallbackActs, PeerStates
<1>1. CASE CallbackEnters(h)
  BY <1>1 DEF CallbackEnters, GraceStopped
<1>2. CASE CallbackFindsClosed(h)
  BY <1>2 DEF CallbackFindsClosed
<1>3. CASE PeerFails(h)
  BY <1>3 DEF PeerFails
<1>4. CASE PeerDisconnects(h)
  BY <1>4 DEF PeerDisconnects, GraceGuard
<1>5. CASE PeerConnects(h)
  BY <1>5 DEF PeerConnects
<1>6. QED
  BY <1>1, <1>2, <1>3, <1>4, <1>5 DEF CallbackStep

LEMMA HandlingStep == HandlingInv /\ ProxyInv' /\ [Next]_vars => HandlingInv'
<1> SUFFICES ASSUME HandlingInv, ProxyInv', [Next]_vars PROVE HandlingInv'
  OBVIOUS
<1> USE DEF HandlingInv, ProxyTypeOK, Closing, Lone, GraceInTime, GraceFollowsPeer, PeerInv,
        RefusedLeavesNothing, proxy, timer, callback, closer
<1>1. ProxyTypeOK' /\ Closing'
  BY DEF ProxyInv
<1> SUFFICES (Lone /\ GraceInTime /\ GraceFollowsPeer /\ PeerInv)'
  BY <1>1
<1>2. ASSUME NEW h \in Callbacks, NEW to \in PeerStates, PeerChanges(h, to)
      PROVE  (Lone /\ GraceInTime /\ GraceFollowsPeer /\ PeerInv)'
  BY <1>2 DEF PeerChanges, PeerMoves
<1>3. CASE OfferStep
  <2>1. CASE RefuseCodec
    BY <2>1 DEF RefuseCodec
  <2>2. CASE MakePeer
    BY <2>2 DEF MakePeer
  <2>3. CASE Negotiate
    BY <2>3 DEF Negotiate
  <2>4. CASE Refuse
    BY <2>4 DEF Refuse, CloseOver
  <2>5. QED
    BY <1>3, <2>1, <2>2, <2>3, <2>4 DEF OfferStep
<1>4. CASE GraceFires \/ GraceEnds
  BY <1>4 DEF GraceFires, GraceEnds
<1>5. CASE StreamStep
  BY <1>5 DEF StreamStep, Backoff, Install, Dial, RequestFails, HandshakeGoesOn, Plays, Consume,
              Check, Drop, SourceLost
<1>6. CASE \E c \in Clients : LoopEnds(c)
  BY <1>6 DEF LoopEnds
<1>7. CASE CloseBegins
  BY <1>7 DEF CloseBegins
<1>8. CASE CloseStep
  BY <1>8 DEF CloseStep, CloseLocks, ClosePeer, CloseClient
<1>9. CASE UNCHANGED vars
  BY <1>9 DEF vars
<1>10. ASSUME NEW h \in Callbacks, CallbackStep(h)
       PROVE  (Lone /\ GraceInTime /\ GraceFollowsPeer /\ PeerInv)'
  BY <1>10, HandlingCallback
<1>11. QED
  BY <1>1, <1>2, <1>3, <1>4, <1>5, <1>6, <1>7, <1>8, <1>9, <1>10 DEF Next

THEOREM HandlingInvariant == Spec => []HandlingInv
<1>1. Init => HandlingInv
  BY HandlingInit
<1>2. QED
  BY <1>1, HandlingStep, ProxyInvariant, PTL DEF Spec

\* For any number of callbacks, the grace timer follows the peer unless two
\* of them were in flight together.
THEOREM GraceFollowsPeerAlways == Spec => []GraceFollowsPeer
<1>1. HandlingInv => GraceFollowsPeer
  BY DEF HandlingInv
<1>2. QED
  BY <1>1, HandlingInvariant, PTL

\* HandleOffer returns its errors with nothing left open.
THEOREM RefusedAlwaysClean == Spec => []RefusedLeavesNothing
<1>1. HandlingInv => RefusedLeavesNothing
  BY DEF HandlingInv, PeerInv
<1>2. QED
  BY <1>1, HandlingInvariant, PTL
=============================================================================
