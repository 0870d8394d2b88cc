----------------------------- MODULE RtspClient -----------------------------
(***************************************************************************)
(* One RtspClient (src/rtsp_client.go) and its camera.  The caller is      *)
(* ProbeSource, or Client followed by consumeRTPPackets; RtspRtpLoop sends *)
(* the keepalives; WebRTCProxy.Close may close the client at any time.     *)
(* Each request holds ioMu from its write to the end of its answer, and    *)
(* takes the first answer that comes: CSeq is sent and never compared.     *)
(***************************************************************************)
EXTENDS Naturals, Sequences

CONSTANTS
  MaxReconnect,  \* maxReconnectAttempts of RtspRtpLoop
  MaxLate        \* bound: a camera with so many requests waiting drops the next

ASSUME RtspAssumption == MaxReconnect \in Nat /\ MaxLate \in Nat \ {0}

Goroutines == {"caller", "loop", "closer"}

VARIABLES
  setting,  \* the caller's mode, and how the camera authenticates requests
  cam,      \* the camera: up, hung (connected and silent), gone
  asked,    \* requests the camera has to answer, in order: method and auth
  answers,  \* answers in the socket and rc.reader: method answered, status
  playing,  \* the camera answered PLAY and sends frames while it is up
  pc,       \* where each goroutine is
  ioMu,     \* the goroutine whose request holds ioMu, or free
  socket,   \* rc.socket: none, open, closed
  auth,     \* rc.auth: its scheme, and the method its digest was made for
  session,  \* rc.session is set
  failures, \* reconnectAttempts: keepalives failed in a row
  late      \* history: some request was given up before its answer

camera == <<cam, asked, answers, playing>>
client == <<socket, auth, session, failures>>
vars   == <<setting, camera, pc, ioMu, client, late>>

Settings == [mode : {"probe", "stream"}, scheme : {"open", "Basic", "Digest"},
             options : BOOLEAN,  \* OPTIONS is challenged too
             strict  : BOOLEAN]  \* a digest is good for its own method only

Requests  == {"options", "again", "describe", "setup", "setup2", "play",
              "keepalive", "teardown"}
Method    == [r \in Requests |->
                CASE r \in {"options", "again", "keepalive"} -> "OPTIONS"
                  [] r = "describe" -> "DESCRIBE"  [] r = "play" -> "PLAY"
                  [] r \in {"setup", "setup2"} -> "SETUP"
                  [] r = "teardown" -> "TEARDOWN"]
Methods   == {Method[r] : r \in Requests}
Unknown   == [scheme |-> "open", method |-> "none"]
Auths     == [scheme : {"open", "Basic", "Digest"}, method : Methods \cup {"none"}]
Streaming == playing /\ cam = "up"

RtspTypeOK ==
  /\ setting \in Settings
  /\ cam \in {"up", "hung", "gone"}
  /\ asked \in Seq([method : Methods, auth : Auths]) /\ Len(asked) <= MaxLate
  /\ answers \in Seq([to : Methods, status : {200, 401, 500}])
  /\ playing \in BOOLEAN /\ session \in BOOLEAN /\ late \in BOOLEAN
  /\ pc \in [Goroutines -> Requests \cup {"dial", "consume", "close", "idle", "read", "done"}]
  /\ ioMu \in Goroutines \cup {"free"}
  /\ socket \in {"none", "open", "closed"}
  /\ auth \in Auths
  /\ failures \in 0..MaxReconnect

Init ==
  /\ setting \in Settings
  /\ cam = "up" /\ asked = <<>> /\ answers = <<>> /\ playing = FALSE
  /\ pc = [g \in Goroutines |-> IF g = "caller" THEN "dial" ELSE "idle"]
  /\ ioMu = "free"
  /\ socket = "none" /\ auth = Unknown /\ session = FALSE /\ failures = 0
  /\ late = FALSE

----------------------------------------------------------------------------
(* The camera.                                                             *)

Accepts(request) ==
  \/ setting.scheme = "open"
  \/ request.method = "OPTIONS" /\ ~setting.options
  \/ /\ request.auth.scheme = setting.scheme
     /\ setting.scheme = "Digest" /\ setting.strict => request.auth.method = request.method

CameraAnswers ==
  /\ cam = "up" /\ asked # <<>>
  /\ \E status \in IF Accepts(Head(asked)) THEN {200, 500} ELSE {401} :
       /\ answers' = Append(answers, [to |-> Head(asked).method, status |-> status])
       /\ playing' = (playing \/ (Head(asked).method = "PLAY" /\ status = 200))
  /\ asked' = Tail(asked)
  /\ UNCHANGED <<setting, cam, pc, ioMu, client, late>>

CameraHangs ==
  /\ cam = "up" /\ cam' = "hung"
  /\ UNCHANGED <<setting, asked, answers, playing, pc, ioMu, client, late>>

CameraLeaves ==
  /\ cam # "gone" /\ cam' = "gone"
  /\ asked' = <<>> /\ answers' = <<>>
  /\ UNCHANGED <<setting, playing, pc, ioMu, client, late>>

----------------------------------------------------------------------------
(* Requests.                                                               *)

GoTo(g, place) == pc' = [pc EXCEPT ![g] = place]

Write(method) ==
  asked' = IF cam = "up" /\ Len(asked) < MaxLate
           THEN Append(asked, [method |-> method, auth |-> auth]) ELSE asked

\* SendRequest takes ioMu and writes the request.
Send(g) ==
  /\ pc[g] \in Requests \ {"teardown"}
  /\ ioMu = "free" /\ socket = "open"
  /\ ioMu' = g
  /\ Write(Method[pc[g]])
  /\ UNCHANGED <<setting, cam, answers, playing, pc, client, late>>

\* Where the caller goes once its request ended with a status, 0 for an
\* error, in an answer to the method `to`.
CallerGoesTo(status, to) ==
  CASE pc["caller"] = "options"  -> IF status = 200 THEN {"describe"} ELSE {"again"}
    [] pc["caller"] = "again"    -> {"describe"}
    [] pc["caller"] = "describe" ->
         IF setting.mode = "stream" /\ status = 200 /\ to = "DESCRIBE"
         THEN {"setup", "close"} ELSE {"close"}  \* an SDP with a track, or without
    [] pc["caller"] = "setup"    -> IF status = 0 THEN {"close"} ELSE {"setup2", "play"}
    [] pc["caller"] = "setup2"   -> IF status = 0 THEN {"close"} ELSE {"play"}
    [] pc["caller"] = "play"     -> IF status = 200 THEN {"consume"} ELSE {"close"}

CallerGoesOn(status, to) ==
  /\ pc["caller"] \in Requests \ {"teardown"}
  /\ \E place \in CallerGoesTo(status, to) :
       pc' = [pc EXCEPT !["caller"] = place,
                        !["loop"]   = IF place = "consume" THEN "read" ELSE @]
  /\ session' = IF pc["caller"] \in {"setup", "setup2"} /\ status = 200
                THEN to = "SETUP" ELSE session
  /\ UNCHANGED <<socket, failures>>

\* A keepalive that was answered, whatever the answer, resets the count.
GivesUpLate == failures = MaxReconnect + 1
GivesUp     == failures = MaxReconnect

KeepaliveForgives(status) ==
  /\ GoTo("loop", "read")
  /\ failures' = 0
  /\ UNCHANGED <<socket, session>>

KeepaliveEnds(status) ==
  /\ IF status = 0 /\ GivesUp THEN GoTo("loop", "done") ELSE GoTo("loop", "read")
  /\ failures' = IF status # 0 THEN 0 ELSE IF GivesUp THEN failures ELSE failures + 1
  /\ UNCHANGED <<socket, session>>

\* Close drops the socket whatever became of TEARDOWN.
TeardownEnds(g) ==
  /\ pc[g] = "teardown"
  /\ GoTo(g, "done")
  /\ socket' = "closed"
  /\ UNCHANGED <<session, failures>>

RequestEnds(g, status, to) ==
  /\ ioMu = g /\ ioMu' = "free"
  /\ \/ g = "caller" /\ CallerGoesOn(status, to)
     \/ g = "loop" /\ KeepaliveEnds(status)
     \/ TeardownEnds(g)

\* The first challenge makes rc.auth, for the method that was sent; it is
\* never made again.
LearnNothing(g, status) == UNCHANGED auth
Learn(g, status) ==
  auth' = IF auth = Unknown /\ status = 401
          THEN [scheme |-> setting.scheme, method |-> Method[pc[g]]] ELSE auth

Receive(g) ==
  /\ answers # <<>>
  /\ RequestEnds(g, Head(answers).status, Head(answers).to)
  /\ Learn(g, Head(answers).status)
  /\ answers' = Tail(answers)
  /\ UNCHANGED <<setting, cam, asked, playing, late>>

\* 3 s go by without an answer and without a frame, also between two frames of
\* a camera that streams: the deadline is set again for every frame skipped.
ReadExpires == answers = <<>> /\ cam # "gone"

TimesOut(g) ==
  /\ ReadExpires
  /\ RequestEnds(g, 0, "none")
  /\ late' = TRUE
  /\ UNCHANGED <<setting, camera, auth>>

ConnectionLost(g) ==
  /\ cam = "gone"
  /\ RequestEnds(g, 0, "none")
  /\ UNCHANGED <<setting, camera, auth, late>>

\* sendRequest without a socket.
NoSocket(g) ==
  /\ ioMu = "free" /\ socket # "open"
  /\ \/ g = "caller" /\ CallerGoesOn(0, "none")
     \/ g = "loop" /\ pc[g] = "keepalive" /\ KeepaliveEnds(0)
  /\ UNCHANGED <<setting, camera, ioMu, auth, late>>

----------------------------------------------------------------------------
(* The caller, the loop and Close.                                         *)

Connect ==
  /\ pc["caller"] = "dial"
  /\ \/ cam # "gone" /\ GoTo("caller", "options") /\ socket' = "open"
     \/ GoTo("caller", "close") /\ UNCHANGED socket
  /\ UNCHANGED <<setting, camera, ioMu, auth, session, failures, late>>

\* consumeRTPPackets leaves on the loop's signal or on wp.done; the client
\* of a closed proxy is left to WebRTCProxy.Close.
Consumed ==
  /\ pc["caller"] = "consume"
  /\ pc["loop"] = "done" \/ pc["closer"] # "idle"
  /\ \/ GoTo("caller", "close")
     \/ pc["closer"] # "idle" /\ GoTo("caller", "done")
  /\ UNCHANGED <<setting, camera, ioMu, client, late>>

Tick ==
  /\ pc["loop"] = "read"
  /\ GoTo("loop", "keepalive")
  /\ UNCHANGED <<setting, camera, ioMu, client, late>>

\* handleTCPPackets skips, byte by byte, what is no frame.
LoopEatsAnswer ==
  /\ pc["loop"] = "read" /\ socket = "open" /\ answers # <<>>
  /\ answers' = Tail(answers)
  /\ UNCHANGED <<setting, cam, asked, playing, pc, ioMu, client, late>>

\* A read error, or the panic of a nil socket, recovered.
LoopBreaks ==
  /\ pc["loop"] = "read" /\ (socket = "closed" \/ cam = "gone")
  /\ GoTo("loop", "done")
  /\ UNCHANGED <<setting, camera, ioMu, client, late>>

ProxyCloses ==
  /\ setting.mode = "stream" /\ pc["closer"] = "idle"
  /\ GoTo("closer", "close")
  /\ UNCHANGED <<setting, camera, ioMu, client, late>>

MayCloseUnlocked(g) == pc[g] = "close"
MayClose(g)         == pc[g] = "close" /\ ioMu = "free"

\* SendRequest in place of sendRequest: ioMu is not reentrant.
TeardownRelocking(g) ==
  /\ MayClose(g) /\ socket = "open" /\ session
  /\ ioMu' = g
  /\ UNCHANGED <<setting, camera, pc, client, late>>

Teardown(g) ==
  /\ MayClose(g) /\ socket = "open" /\ session
  /\ ioMu' = g
  /\ GoTo(g, "teardown")
  /\ Write("TEARDOWN")
  /\ UNCHANGED <<setting, cam, answers, playing, client, late>>

CloseSocket(g) ==
  /\ MayClose(g) /\ ~(socket = "open" /\ session)
  /\ GoTo(g, "done")
  /\ socket' = IF socket = "open" THEN "closed" ELSE socket
  /\ UNCHANGED <<setting, camera, ioMu, auth, session, failures, late>>

----------------------------------------------------------------------------
Locks(g)   == Send(g) \/ NoSocket(g) \/ Teardown(g) \/ CloseSocket(g)
Ends(g)    == Receive(g) \/ TimesOut(g) \/ ConnectionLost(g)
MustEnd(g) == Receive(g) \/ (~Streaming /\ TimesOut(g)) \/ ConnectionLost(g)
CameraStep == CameraAnswers \/ CameraHangs \/ CameraLeaves
LoopStep   == LoopEatsAnswer \/ LoopBreaks

Next ==
  \/ CameraStep
  \/ Connect \/ Consumed \/ Tick \/ LoopStep \/ ProxyCloses
  \/ \E g \in Goroutines : Locks(g) \/ Ends(g)

Spec == Init /\ [][Next]_vars

\* Goroutines run, the ticker fires, deadlines expire unless frames put them
\* off; a sync.Mutex starves no one for ever.  The camera promises nothing.
Fairness ==
  /\ WF_vars(Connect) /\ WF_vars(Consumed) /\ WF_vars(Tick) /\ WF_vars(LoopStep)
  /\ \A g \in Goroutines : SF_vars(Locks(g)) /\ WF_vars(MustEnd(g))

FairSpec == Spec /\ Fairness
----------------------------------------------------------------------------
(* Properties.                                                             *)

\* Until a request is given up, what the camera has to answer or has answered
\* is the request that holds ioMu and nothing else: every answer is taken by
\* the request it answers, although nothing compares CSeq.
InStep ==
  ~late => IF ioMu = "free" THEN asked = <<>> /\ answers = <<>>
           ELSE /\ Len(asked) + Len(answers) <= 1
                /\ asked # <<>> => Head(asked).method = Method[pc[ioMu]]
                /\ answers # <<>> => Head(answers).to = Method[pc[ioMu]]

\* DESCRIBE is being refused for its credentials, which are right.
Refused ==
  ioMu = "caller" /\ pc["caller"] = "describe" /\ answers # <<>> /\ Head(answers).status = 401

\* The challenge of OPTIONS is what lets the client describe a camera: one
\* is refused only if it does not challenge OPTIONS, wants a digest made for
\* the method, or answered too late.
RefusedOnlyUnasked == Refused => ~setting.options \/ setting.strict \/ late

\* A camera that keeps the connection and falls silent is noticed: its read
\* timeouts are no error, the keepalives that fail are.
SilenceNoticed == cam = "hung" ~> pc["loop"] # "read" /\ pc["loop"] # "keepalive"

\* Close of a client returns, and stops its loop, unless the camera goes on
\* streaming: each frame gives the answer 3 s more.
CloseReturns ==
  <>[]~Streaming =>
    (pc["closer"] = "close" /\ socket = "open")
      ~> (pc["closer"] = "done" /\ pc["loop"] \in {"idle", "done"})

\* "credentials may be embedded" (README.md:38): they open the camera.
CredentialsWork == ~Refused
=============================================================================
