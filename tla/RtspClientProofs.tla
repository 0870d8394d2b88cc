-------------------------- MODULE RtspClientProofs --------------------------
(***************************************************************************)
(* The requests of an RtspClient, for any number of keepalive failures and *)
(* of requests a camera lets wait.  InStep rests on ioMu: its holder is in *)
(* a request, on an open socket (Holding).  RefusedOnlyUnasked follows the *)
(* challenge of OPTIONS: until it is answered rc.auth is empty and nobody  *)
(* else uses the connection (Early), what the camera answers is its        *)
(* verdict on rc.auth (Verdict), and so the client that goes on has the    *)
(* scheme it was asked for (Known).                                        *)
(***************************************************************************)
EXTENDS RtspClient, TLAPS

AllPlaces    == Requests \cup {"dial", "consume", "close", "idle", "read", "done"}
CallerPlaces == (Requests \ {"keepalive"}) \cup {"dial", "consume", "close", "done"}
LoopPlaces   == {"idle", "read", "keepalive", "done"}
CloserPlaces == {"idle", "close", "teardown", "done"}

\* Each goroutine is at places of its own.
Places ==
  /\ pc["caller"] \in CallerPlaces
  /\ pc["loop"] \in LoopPlaces
  /\ pc["closer"] \in CloserPlaces

\* A connection that is gone carries nothing.
Gone == cam = "gone" => asked = <<>> /\ answers = <<>>

\* Who holds ioMu is in a request, and nobody closes the socket meanwhile.
Holding == ioMu # "free" => pc[ioMu] \in Requests /\ socket = "open"

\* Before OPTIONS is answered the caller is alone and knows no challenge.
Early ==
  pc["caller"] \in {"dial", "options"} =>
    ~session /\ pc["loop"] = "idle" /\ pc["closer"] # "teardown" /\ auth = Unknown

\* What waits was asked with the present rc.auth, and judged by it.
Verdict ==
  ~late =>
    /\ asked # <<>> => Head(asked).auth = auth
    /\ answers # <<>> =>
         (Head(answers).status = 401 <=> ~Accepts([method |-> Head(answers).to, auth |-> auth]))

\* Past a challenged OPTIONS the client has the camera's scheme.
Known ==
  /\ ~late /\ setting.options /\ setting.scheme # "open"
  /\ cam # "gone" /\ socket = "open" /\ pc["caller"] \in {"again", "describe"}
  => auth.scheme = setting.scheme

RtspInv ==
  /\ RtspTypeOK /\ Places /\ Gone /\ Holding /\ InStep /\ Early /\ Verdict /\ Known

-----------------------------------------------------------------------------
(* Where goroutines go.                                                    *)

LEMMA PlaceFacts ==
  /\ Goroutines = {"caller", "loop", "closer"}
  /\ CallerPlaces \subseteq AllPlaces /\ LoopPlaces \subseteq AllPlaces
  /\ CloserPlaces \subseteq AllPlaces /\ Requests \subseteq AllPlaces
BY DEF Goroutines, AllPlaces, CallerPlaces, LoopPlaces, CloserPlaces, Requests

LEMMA Moves ==
  ASSUME RtspTypeOK, NEW g \in Goroutines, NEW place \in AllPlaces, GoTo(g, place)
  PROVE  /\ pc' \in [Goroutines -> AllPlaces]
         /\ pc'[g] = place
         /\ \A h \in Goroutines : h # g => pc'[h] = pc[h]
BY DEF RtspTypeOK, GoTo, AllPlaces

\* The caller's way through describe and Client.
LEMMA CallerMoves ==
  ASSUME RtspTypeOK, Places, NEW status, NEW to, CallerGoesOn(status, to)
  PROVE  /\ pc' \in [Goroutines -> AllPlaces] /\ Places'
         /\ pc'["closer"] = pc["closer"]
         /\ pc'["caller"] \notin {"dial", "options"}
         /\ pc'["caller"] \in {"again", "describe"} => pc["caller"] \in {"options", "again"}
         /\ session' \in BOOLEAN
         /\ UNCHANGED <<socket, failures>>
<1>1. pc["caller"] \in {"options", "again", "describe", "setup", "setup2", "play"}
  BY DEF CallerGoesOn, Places, CallerPlaces, Requests
<1>2. PICK place \in CallerGoesTo(status, to) :
        pc' = [pc EXCEPT !["caller"] = place,
                         !["loop"]   = IF place = "consume" THEN "read" ELSE @]
  BY DEF CallerGoesOn
<1>3. /\ place \in {"again", "describe", "setup", "setup2", "play", "consume", "close"}
      /\ place \in {"again", "describe"} => pc["caller"] \in {"options", "again"}
  <2>1. CASE pc["caller"] = "options"
    BY <1>2, <2>1 DEF CallerGoesTo
  <2>2. CASE pc["caller"] = "again"
    BY <1>2, <2>2 DEF CallerGoesTo
  <2>3. CASE pc["caller"] = "describe"
    BY <1>2, <2>3 DEF CallerGoesTo
  <2>4. CASE pc["caller"] = "setup"
    BY <1>2, <2>4 DEF CallerGoesTo
  <2>5. CASE pc["caller"] = "setup2"
    BY <1>2, <2>5 DEF CallerGoesTo
  <2>6. CASE pc["caller"] = "play"
    BY <1>2, <2>6 DEF CallerGoesTo
  <2>7. QED
    BY <1>1, <2>1, <2>2, <2>3, <2>4, <2>5, <2>6
<1>4. pc \in [{"caller", "loop", "closer"} -> AllPlaces]
  BY PlaceFacts DEF RtspTypeOK, AllPlaces
<1>5. /\ pc'["caller"] = place /\ pc'["closer"] = pc["closer"]
      /\ pc'["loop"] \in {pc["loop"], "read"}
  BY <1>2, <1>4
<1>6. pc' \in [Goroutines -> AllPlaces]
  <2>1. place \in AllPlaces /\ "read" \in AllPlaces
    BY <1>3 DEF AllPlaces, Requests
  <2>2. QED
    BY <1>2, <1>4, <2>1, PlaceFacts
<1>7. Places'
  BY <1>3, <1>5 DEF Places, CallerPlaces, LoopPlaces, Requests
<1>8. session' \in BOOLEAN
  BY DEF CallerGoesOn, RtspTypeOK
<1>9. QED
  BY <1>3, <1>5, <1>6, <1>7, <1>8 DEF CallerGoesOn

\* The loop's keepalive.
LEMMA LoopMoves ==
  ASSUME RtspTypeOK, Places, NEW status, KeepaliveEnds(status)
  PROVE  /\ pc' \in [Goroutines -> AllPlaces] /\ Places'
         /\ pc'["caller"] = pc["caller"] /\ pc'["closer"] = pc["closer"]
         /\ failures' \in 0 .. MaxReconnect
         /\ UNCHANGED <<socket, session>>
<1>1. PICK place \in {"done", "read"} : GoTo("loop", place)
  BY DEF KeepaliveEnds
<1>2. /\ pc' \in [Goroutines -> AllPlaces] /\ pc'["loop"] = place
      /\ pc'["caller"] = pc["caller"] /\ pc'["closer"] = pc["closer"]
  BY <1>1, Moves, PlaceFacts DEF AllPlaces
<1>3. Places'
  BY <1>2 DEF Places, LoopPlaces
<1>4. failures' \in 0 .. MaxReconnect
  BY RtspAssumption DEF KeepaliveEnds, GivesUp, RtspTypeOK
<1>5. QED
  BY <1>2, <1>3, <1>4 DEF KeepaliveEnds

\* A request that ends, of whichever goroutine.
LEMMA RequestMoves ==
  ASSUME RtspTypeOK, Places, Holding, NEW g \in Goroutines, NEW status, NEW to,
         RequestEnds(g, status, to)
  PROVE  /\ pc' \in [Goroutines -> AllPlaces] /\ Places'
         /\ ioMu = g /\ ioMu' = "free" /\ socket = "open" /\ pc[g] \in Requests
         /\ socket' \in {"open", "closed"} /\ session' \in BOOLEAN
         /\ failures' \in 0 .. MaxReconnect
         /\ pc'["caller"] \in {"dial", "options"} => g # "caller" /\ pc'["caller"] = pc["caller"]
         /\ pc'["caller"] \in {"again", "describe"} =>
              \/ g = "caller" /\ pc["caller"] \in {"options", "again"}
              \/ g # "caller" /\ pc'["caller"] = pc["caller"]
<1>1. ioMu = g /\ ioMu' = "free" /\ socket = "open" /\ pc[g] \in Requests
  BY PlaceFacts DEF RequestEnds, Holding
<1>2. CASE g = "caller" /\ CallerGoesOn(status, to)
  BY <1>1, <1>2, CallerMoves DEF RtspTypeOK
<1>3. CASE g = "loop" /\ KeepaliveEnds(status)
  BY <1>1, <1>3, LoopMoves DEF RtspTypeOK
<1>4. CASE TeardownEnds(g)
  <2>1. /\ pc' \in [Goroutines -> AllPlaces] /\ pc'[g] = "done"
        /\ \A h \in Goroutines : h # g => pc'[h] = pc[h]
    BY <1>4, Moves DEF TeardownEnds, AllPlaces
  <2>2. g \in {"caller", "closer"}
    BY <1>4, PlaceFacts DEF TeardownEnds, Places, LoopPlaces
  <2>3. Places'
    BY <2>1, <2>2, PlaceFacts DEF Places, CallerPlaces, CloserPlaces
  <2>4. g # "caller" => pc'["caller"] = pc["caller"]
    BY <2>1, PlaceFacts
  <2>5. g = "caller" => pc'["caller"] = "done"
    BY <2>1
  <2>6. QED
    BY <1>1, <1>4, <2>1, <2>3, <2>4, <2>5 DEF TeardownEnds, RtspTypeOK
<1>5. QED
  BY <1>2, <1>3, <1>4 DEF RequestEnds

-----------------------------------------------------------------------------
(* What waits at the camera and in the socket.                             *)

AskedType   == [method : Methods, auth : Auths]
AnswersType == [to : Methods, status : {200, 401, 500}]

LEMMA TypeParts ==
  RtspTypeOK <=>
    /\ setting \in Settings /\ cam \in {"up", "hung", "gone"}
    /\ asked \in Seq(AskedType) /\ Len(asked) <= MaxLate
    /\ answers \in Seq(AnswersType)
    /\ playing \in BOOLEAN /\ session \in BOOLEAN /\ late \in BOOLEAN
    /\ pc \in [Goroutines -> AllPlaces]
    /\ ioMu \in Goroutines \cup {"free"} /\ socket \in {"none", "open", "closed"}
    /\ auth \in Auths /\ failures \in 0 .. MaxReconnect
BY DEF RtspTypeOK, AllPlaces, AskedType, AnswersType

LEMMA MethodType == ASSUME NEW r \in Requests PROVE Method[r] \in Methods
BY DEF Methods

LEMMA Taken ==
  ASSUME NEW T, NEW q \in Seq(T), q # <<>>
  PROVE  /\ Head(q) \in T /\ Tail(q) \in Seq(T) /\ Len(Tail(q)) = Len(q) - 1
         /\ Len(q) \in Nat \ {0}
OBVIOUS

LEMMA LastTaken ==
  ASSUME NEW T, NEW q \in Seq(T), Len(q) <= 1, q # <<>>
  PROVE  Tail(q) = <<>>
<1>1. /\ Tail(q) \in Seq(T) /\ Len(Tail(q)) = Len(q) - 1
      /\ Len(q) \in Nat \ {0}
  OBVIOUS
<1>2. Len(Tail(q)) = 0
  BY <1>1
<1>3. QED
  BY <1>1, <1>2

LEMMA EmptyAppend ==
  ASSUME NEW T, NEW e \in T
  PROVE  Append(<<>>, e) = <<e>> /\ Len(<<e>>) = 1 /\ Head(<<e>>) = e /\ <<e>> # <<>>
OBVIOUS

LEMMA WriteType ==
  ASSUME RtspTypeOK, NEW method \in Methods, Write(method)
  PROVE  asked' \in Seq(AskedType) /\ Len(asked') <= MaxLate
<1>1. [method |-> method, auth |-> auth] \in AskedType
  BY TypeParts DEF AskedType
<1>2. asked \in Seq(AskedType) /\ Len(asked) <= MaxLate /\ Len(asked) \in Nat
  BY TypeParts
<1>3. CASE cam = "up" /\ Len(asked) < MaxLate
  BY <1>1, <1>2, <1>3, RtspAssumption DEF Write
<1>4. CASE ~(cam = "up" /\ Len(asked) < MaxLate)
  BY <1>2, <1>4 DEF Write
<1>5. QED
  BY <1>3, <1>4

\* A challenge is of the camera's scheme.
LEMMA LearnType ==
  ASSUME RtspTypeOK, NEW g \in Goroutines, pc[g] \in Requests, NEW status, Learn(g, status)
  PROVE  /\ auth' \in Auths
         /\ auth' = auth \/ auth'.scheme = setting.scheme
         /\ auth = Unknown /\ status = 401 => auth'.scheme = setting.scheme
<1>1. Method[pc[g]] \in Methods /\ setting.scheme \in {"open", "Basic", "Digest"}
  BY MethodType, TypeParts DEF Settings
<1>2. [scheme |-> setting.scheme, method |-> Method[pc[g]]] \in Auths
  BY <1>1 DEF Auths
<1>3. QED
  BY <1>2, TypeParts DEF Learn

-----------------------------------------------------------------------------
(* Types, places, a connection that is gone, the holder of ioMu.           *)

Basic == RtspTypeOK /\ Places /\ Gone /\ Holding

LEMMA BasicInit == Init => Basic
<1> SUFFICES ASSUME Init PROVE Basic
  OBVIOUS
<1>1. pc \in [Goroutines -> AllPlaces]
  BY DEF Init, AllPlaces
<1>2. Unknown \in Auths /\ 0 \in 0 .. MaxReconnect /\ 0 <= MaxLate
  BY RtspAssumption DEF Unknown, Auths
<1>3. RtspTypeOK
  <2>1. /\ <<>> \in Seq(AskedType) /\ Len(<<>>) <= MaxLate
        /\ <<>> \in Seq(AnswersType)
    BY <1>2
  <2>2. QED
    BY <1>1, <1>2, <2>1, TypeParts DEF Init
<1>4. Places /\ Gone /\ Holding
  BY PlaceFacts DEF Init, Places, Gone, Holding, CallerPlaces, LoopPlaces, CloserPlaces
<1>5. QED
  BY <1>3, <1>4 DEF Basic

\* The steps of the camera, and the loop that eats an answer, move nobody.
LEMMA BasicQueues ==
  ASSUME Basic, CameraStep \/ LoopEatsAnswer
  PROVE  Basic'
<1>1. CASE CameraAnswers
  <2>1. PICK status \in IF Accepts(Head(asked)) THEN {200, 500} ELSE {401} :
          /\ answers' = Append(answers, [to |-> Head(asked).method, status |-> status])
          /\ playing' = (playing \/ (Head(asked).method = "PLAY" /\ status = 200))
    BY <1>1 DEF CameraAnswers
  <2>2. asked \in Seq(AskedType) /\ answers \in Seq(AnswersType) /\ asked # <<>>
    BY <1>1, TypeParts DEF Basic, CameraAnswers
  <2>3. /\ Head(asked) \in AskedType /\ Tail(asked) \in Seq(AskedType)
        /\ Len(Tail(asked)) = Len(asked) - 1 /\ Len(asked) \in Nat
    BY <2>2, Taken
  <2>4. [to |-> Head(asked).method, status |-> status] \in AnswersType
    BY <2>3 DEF AskedType, AnswersType
  <2>5. answers' \in Seq(AnswersType) /\ asked' \in Seq(AskedType)
    BY <1>1, <2>1, <2>2, <2>3, <2>4 DEF CameraAnswers
  <2>6. Len(asked') <= MaxLate
    BY <1>1, <2>3, TypeParts, RtspAssumption DEF Basic, CameraAnswers
  <2>7. playing' \in BOOLEAN
    BY <2>1
  <2>8. UNCHANGED <<setting, cam, pc, ioMu, socket, auth, session, failures, late>> /\ cam = "up"
    BY <1>1 DEF CameraAnswers, client
  <2>9. RtspTypeOK'
    BY <2>5, <2>6, <2>7, <2>8, TypeParts DEF Basic, RtspTypeOK, AskedType, AnswersType
  <2>10. QED
    BY <2>8, <2>9 DEF Basic, Places, Gone, Holding
<1>2. CASE CameraHangs
  <2>1. RtspTypeOK'
    BY <1>2 DEF CameraHangs, client, Basic, RtspTypeOK
  <2>2. QED
    BY <1>2, <2>1 DEF CameraHangs, client, Basic, Places, Gone, Holding
<1>3. CASE CameraLeaves
  <2>1. RtspTypeOK'
    BY <1>3, RtspAssumption DEF CameraLeaves, client, Basic, RtspTypeOK
  <2>2. QED
    BY <1>3, <2>1 DEF CameraLeaves, client, Basic, Places, Gone, Holding
<1>4. CASE LoopEatsAnswer
  <2>1. answers' \in Seq(AnswersType)
    BY <1>4, TypeParts, Taken DEF LoopEatsAnswer, Basic
  <2>2. RtspTypeOK'
    BY <1>4, <2>1 DEF LoopEatsAnswer, client, Basic, RtspTypeOK, AnswersType
  <2>3. QED
    BY <1>4, <2>2 DEF LoopEatsAnswer, client, Basic, Places, Gone, Holding
<1>5. QED
  BY <1>1, <1>2, <1>3, <1>4 DEF CameraStep

\* A goroutine that moves and changes nothing else but, perhaps, the socket.
LEMMA BasicMove ==
  ASSUME Basic, NEW g \in Goroutines, NEW place \in AllPlaces, GoTo(g, place),
         ioMu # g, Places', socket' \in {"none", "open", "closed"},
         ioMu # "free" => socket' = socket,
         UNCHANGED <<setting, cam, asked, answers, playing, ioMu, auth, session, failures, late>>
  PROVE  Basic'
<1>1. /\ pc' \in [Goroutines -> AllPlaces]
      /\ \A h \in Goroutines : h # g => pc'[h] = pc[h]
  BY Moves DEF Basic
<1>2. RtspTypeOK'
  BY <1>1 DEF Basic, RtspTypeOK, AllPlaces
<1>3. Gone' /\ Holding'
  BY <1>1 DEF Basic, Gone, Holding, RtspTypeOK
<1>4. QED
  BY <1>2, <1>3 DEF Basic

LEMMA BasicMoves ==
  ASSUME Basic, Connect \/ Consumed \/ Tick \/ LoopBreaks \/ ProxyCloses
  PROVE  Basic'
<1>1. CASE Connect \/ Consumed
  <2>1. PICK place \in {"options", "close", "done"} : GoTo("caller", place)
    BY <1>1 DEF Connect, Consumed
  <2>2. ioMu # "caller"
    BY <1>1 DEF Basic, Holding, Connect, Consumed, Requests
  <2>3. place \in AllPlaces /\ "caller" \in Goroutines
    BY PlaceFacts DEF AllPlaces, Requests
  <2>4. Places'
    BY <2>1, <2>3, Moves, PlaceFacts DEF Basic, Places, CallerPlaces, Requests
  <2>5. /\ socket' \in {"none", "open", "closed"}
        /\ ioMu # "free" => socket' = socket
    BY <1>1, TypeParts DEF Connect, Consumed, client, Basic, Holding
  <2>6. UNCHANGED <<setting, cam, asked, answers, playing, ioMu, auth, session, failures, late>>
    BY <1>1 DEF Connect, Consumed, client, camera
  <2>7. QED
    BY <2>1, <2>2, <2>3, <2>4, <2>5, <2>6, BasicMove
<1>2. CASE Tick \/ LoopBreaks
  <2>1. PICK place \in {"keepalive", "done"} : GoTo("loop", place)
    BY <1>2 DEF Tick, LoopBreaks
  <2>2. ioMu # "loop"
    BY <1>2 DEF Basic, Holding, Tick, LoopBreaks, Requests
  <2>3. place \in AllPlaces /\ "loop" \in Goroutines
    BY PlaceFacts DEF AllPlaces, Requests
  <2>4. Places'
    BY <2>1, <2>3, Moves, PlaceFacts DEF Basic, Places, LoopPlaces
  <2>5. UNCHANGED <<setting, cam, asked, answers, playing, ioMu, socket, auth, session, failures, late>>
    BY <1>2 DEF Tick, LoopBreaks, client, camera
  <2>6. QED
    BY <2>1, <2>2, <2>3, <2>4, <2>5, BasicMove, TypeParts DEF Basic
<1>3. CASE ProxyCloses
  <2>1. GoTo("closer", "close") /\ pc["closer"] = "idle"
    BY <1>3 DEF ProxyCloses
  <2>2. ioMu # "closer"
    BY <2>1 DEF Basic, Holding, Requests
  <2>3. "close" \in AllPlaces /\ "closer" \in Goroutines
    BY PlaceFacts DEF AllPlaces
  <2>4. Places'
    BY <2>1, <2>3, Moves, PlaceFacts DEF Basic, Places, CloserPlaces
  <2>5. UNCHANGED <<setting, cam, asked, answers, playing, ioMu, socket, auth, session, failures, late>>
    BY <1>3 DEF ProxyCloses, client, camera
  <2>6. QED
    BY <2>1, <2>2, <2>3, <2>4, <2>5, BasicMove, TypeParts DEF Basic
<1>4. QED
  BY <1>1, <1>2, <1>3

\* A request, or TEARDOWN, takes ioMu on an open socket.
LEMMA BasicTakes ==
  ASSUME Basic, NEW g \in Goroutines, Send(g) \/ Teardown(g)
  PROVE  /\ Basic' /\ ioMu' = g /\ pc'[g] \in Requests
         /\ Write(Method[pc'[g]])
         /\ \A h \in Goroutines : h # g => pc'[h] = pc[h]
<1>1. CASE Send(g)
  <2>1. /\ ioMu = "free" /\ ioMu' = g /\ socket = "open" /\ pc[g] \in Requests
        /\ Write(Method[pc[g]])
        /\ UNCHANGED <<setting, cam, answers, playing, pc, socket, auth, session, failures, late>>
    BY <1>1 DEF Send, client
  <2>2. asked' \in Seq(AskedType) /\ Len(asked') <= MaxLate
    BY <2>1, MethodType, WriteType DEF Basic
  <2>3. RtspTypeOK'
    BY <2>1, <2>2 DEF Basic, RtspTypeOK, AskedType
  <2>4. Places' /\ Gone' /\ Holding'
    BY <2>1 DEF Basic, Places, Gone, Holding, Write
  <2>5. QED
    BY <2>1, <2>3, <2>4 DEF Basic
<1>2. CASE Teardown(g)
  <2>1. /\ ioMu = "free" /\ ioMu' = g /\ socket = "open" /\ pc[g] = "close"
        /\ GoTo(g, "teardown") /\ Write("TEARDOWN")
        /\ UNCHANGED <<setting, cam, answers, playing, socket, auth, session, failures, late>>
    BY <1>2 DEF Teardown, MayClose, client
  <2>2. "teardown" \in Requests /\ Method["teardown"] = "TEARDOWN" /\ "TEARDOWN" \in Methods
    BY DEF Requests, Method, Methods
  <2>3. /\ pc' \in [Goroutines -> AllPlaces] /\ pc'[g] = "teardown"
        /\ \A h \in Goroutines : h # g => pc'[h] = pc[h]
    BY <2>1, <2>2, Moves, PlaceFacts DEF Basic
  <2>4. asked' \in Seq(AskedType) /\ Len(asked') <= MaxLate
    BY <2>1, <2>2, WriteType DEF Basic
  <2>5. RtspTypeOK'
    BY <2>1, <2>3, <2>4 DEF Basic, RtspTypeOK, AskedType, AllPlaces
  <2>6. Places'
    BY <2>1, <2>3, PlaceFacts DEF Basic, Places, CallerPlaces, LoopPlaces, CloserPlaces, Requests
  <2>7. Gone' /\ Holding'
    BY <2>1, <2>2, <2>3 DEF Basic, Gone, Holding, Write
  <2>8. QED
    BY <2>1, <2>2, <2>3, <2>5, <2>6, <2>7 DEF Basic
<1>3. QED
  BY <1>1, <1>2

\* Without a request: no socket to send on, or a socket to close.
LEMMA BasicFree ==
  ASSUME Basic, NEW g \in Goroutines, NoSocket(g) \/ CloseSocket(g)
  PROVE  Basic'
<1>1. CASE NoSocket(g)
  <2>1. pc' \in [Goroutines -> AllPlaces] /\ Places'
    BY <1>1, CallerMoves, LoopMoves DEF NoSocket, Basic
  <2>2. /\ session' \in BOOLEAN /\ failures' \in 0 .. MaxReconnect /\ socket' = socket
    BY <1>1, CallerMoves, LoopMoves, TypeParts DEF NoSocket, Basic
  <2>3. ioMu' = "free" /\ UNCHANGED <<setting, cam, asked, answers, playing, ioMu, auth, late>>
    BY <1>1 DEF NoSocket, camera
  <2>4. RtspTypeOK'
    BY <2>1, <2>2, <2>3 DEF Basic, RtspTypeOK, AllPlaces
  <2>5. QED
    BY <2>1, <2>3, <2>4 DEF Basic, Gone, Holding
<1>2. CASE CloseSocket(g)
  <2>1. /\ ioMu = "free" /\ pc[g] = "close" /\ GoTo(g, "done")
        /\ UNCHANGED <<setting, cam, asked, answers, playing, ioMu, auth, session, failures, late>>
    BY <1>2 DEF CloseSocket, MayClose, camera
  <2>2. socket' \in {"none", "open", "closed"}
    BY <1>2, TypeParts DEF CloseSocket, Basic
  <2>3. /\ pc'[g] = "done" /\ \A h \in Goroutines : h # g => pc'[h] = pc[h]
    BY <2>1, Moves DEF Basic, AllPlaces
  <2>4. Places'
    BY <2>1, <2>3, PlaceFacts DEF Basic, Places, CallerPlaces, LoopPlaces, CloserPlaces
  <2>5. "done" \in AllPlaces /\ ioMu # g
    BY <2>1, PlaceFacts DEF AllPlaces
  <2>6. QED
    BY <2>1, <2>2, <2>4, <2>5, BasicMove
<1>3. QED
  BY <1>1, <1>2

\* A request ends: answered, given up, or with the connection.
LEMMA BasicEnds ==
  ASSUME Basic, NEW g \in Goroutines, Ends(g)
  PROVE  Basic'
<1>1. PICK status, to : RequestEnds(g, status, to)
  BY DEF Ends, Receive, TimesOut, ConnectionLost
<1>2. /\ pc' \in [Goroutines -> AllPlaces] /\ Places' /\ ioMu' = "free"
      /\ socket' \in {"open", "closed"} /\ session' \in BOOLEAN
      /\ failures' \in 0 .. MaxReconnect /\ pc[g] \in Requests
  BY <1>1, RequestMoves DEF Basic
<1>3. UNCHANGED <<setting, cam, asked, playing>> /\ late' \in BOOLEAN
  BY TypeParts DEF Ends, Receive, TimesOut, ConnectionLost, camera, Basic
<1>4. auth' \in Auths
  <2>1. CASE Receive(g)
    BY <1>2, <2>1, LearnType DEF Receive, Basic
  <2>2. CASE TimesOut(g) \/ ConnectionLost(g)
    BY <2>2, TypeParts DEF TimesOut, ConnectionLost, Basic
  <2>3. QED
    BY <2>1, <2>2 DEF Ends
<1>5. answers' \in Seq(AnswersType) /\ (answers = <<>> => answers' = <<>>)
  <2>1. CASE Receive(g)
    BY <2>1, TypeParts, Taken DEF Receive, Basic
  <2>2. CASE TimesOut(g) \/ ConnectionLost(g)
    BY <2>2, TypeParts DEF TimesOut, ConnectionLost, camera, Basic
  <2>3. QED
    BY <2>1, <2>2 DEF Ends
<1>6. RtspTypeOK'
  BY <1>2, <1>3, <1>4, <1>5 DEF Basic, RtspTypeOK, AllPlaces, AnswersType
<1>7. Gone' /\ Holding'
  BY <1>2, <1>3, <1>5 DEF Basic, Gone, Holding
<1>8. QED
  BY <1>2, <1>6, <1>7 DEF Basic

LEMMA BasicStep == Basic /\ [Next]_vars => Basic'
<1> SUFFICES ASSUME Basic, [Next]_vars PROVE Basic'
  OBVIOUS
<1>1. CASE CameraStep \/ LoopEatsAnswer
  BY <1>1, BasicQueues
<1>2. CASE Connect \/ Consumed \/ Tick \/ LoopBreaks \/ ProxyCloses
  BY <1>2, BasicMoves
<1>3. ASSUME NEW g \in Goroutines, Locks(g) \/ Ends(g) PROVE Basic'
  BY <1>3, BasicTakes, BasicFree, BasicEnds DEF Locks
<1>4. CASE UNCHANGED vars
  BY <1>4 DEF vars, camera, client, Basic, RtspTypeOK, Places, Gone, Holding
<1>5. QED
  BY <1>1, <1>2, <1>3, <1>4 DEF Next, LoopStep

-----------------------------------------------------------------------------
(* Answers go to the request that asked.                                   *)

LEMMA LateStays == ASSUME RtspTypeOK, [Next]_vars, ~late' PROVE ~late
BY DEF Next, CameraStep, CameraAnswers, CameraHangs, CameraLeaves, Connect, Consumed, Tick,
       LoopStep, LoopEatsAnswer, LoopBreaks, ProxyCloses, Locks, Send, NoSocket, Teardown,
       CloseSocket, Ends, Receive, TimesOut, ConnectionLost, vars, RtspTypeOK

\* With one request at most, what is taken leaves nothing behind.
LEMMA OneWaits ==
  ASSUME RtspTypeOK, InStep, ~late
  PROVE  /\ asked # <<>> => ioMu # "free" /\ answers = <<>> /\ Tail(asked) = <<>>
         /\ answers # <<>> => ioMu # "free" /\ asked = <<>> /\ Tail(answers) = <<>>
<1>1. asked \in Seq(AskedType) /\ answers \in Seq(AnswersType)
  BY TypeParts
<1>2. /\ Len(asked) \in Nat /\ Len(answers) \in Nat
      /\ asked # <<>> => Len(asked) >= 1
      /\ answers # <<>> => Len(answers) >= 1
  BY <1>1
<1>3. asked # <<>> \/ answers # <<>> => ioMu # "free" /\ Len(asked) + Len(answers) <= 1
  BY DEF InStep
<1>4. /\ asked # <<>> => answers = <<>> /\ Len(asked) <= 1
      /\ answers # <<>> => asked = <<>> /\ Len(answers) <= 1
  BY <1>2, <1>3
<1>5. QED
  BY <1>1, <1>3, <1>4, LastTaken

LEMMA InStepStep ==
  ASSUME Basic, InStep, [Next]_vars
  PROVE  InStep'
<1> SUFFICES ASSUME ~late' PROVE InStep'
  BY DEF InStep
<1>0. ~late /\ RtspTypeOK
  BY LateStays DEF Basic
<1>1. CASE CameraAnswers
  <2>1. /\ ioMu # "free" /\ answers = <<>> /\ Tail(asked) = <<>>
        /\ Head(asked).method = Method[pc[ioMu]] /\ UNCHANGED <<ioMu, pc>>
    BY <1>0, <1>1, OneWaits DEF CameraAnswers, InStep
  <2>2. PICK status \in IF Accepts(Head(asked)) THEN {200, 500} ELSE {401} :
          answers' = Append(answers, [to |-> Head(asked).method, status |-> status])
    BY <1>1 DEF CameraAnswers
  <2>3. asked' = <<>> /\ Len(answers') = 1 /\ Head(answers').to = Method[pc[ioMu]]
    BY <1>1, <2>1, <2>2 DEF CameraAnswers
  <2>4. Len(asked') = 0 /\ Len(asked') + Len(answers') <= 1
    BY <2>3
  <2>5. QED
    BY <2>1, <2>3, <2>4 DEF InStep
<1>2. CASE CameraHangs
  BY <1>0, <1>2 DEF CameraHangs, InStep
<1>3. CASE CameraLeaves
  BY <1>0, <1>3 DEF CameraLeaves, InStep
<1>4. CASE LoopEatsAnswer
  <2>1. /\ ioMu # "free" /\ asked = <<>> /\ Tail(answers) = <<>>
    BY <1>0, <1>4, OneWaits DEF LoopEatsAnswer
  <2>2. asked' = <<>> /\ answers' = <<>> /\ ioMu' # "free"
    BY <1>4, <2>1 DEF LoopEatsAnswer
  <2>3. QED
    BY <2>2 DEF InStep
<1>5. CASE Connect \/ Consumed \/ Tick \/ LoopBreaks \/ ProxyCloses
  <2>1. PICK g \in Goroutines : (\E place : GoTo(g, place)) /\ pc[g] \notin Requests
    BY <1>5, PlaceFacts DEF Connect, Consumed, Tick, LoopBreaks, ProxyCloses, Requests
  <2>2. UNCHANGED <<asked, answers, ioMu>>
    BY <1>5 DEF Connect, Consumed, Tick, LoopBreaks, ProxyCloses, camera
  <2>3. ioMu # "free" => pc'[ioMu] = pc[ioMu]
    BY <1>0, <2>1 DEF GoTo, Basic, Holding, RtspTypeOK
  <2>4. QED
    BY <1>0, <2>2, <2>3 DEF InStep
<1>6. ASSUME NEW g \in Goroutines, Send(g) \/ Teardown(g) PROVE InStep'
  <2>1. asked = <<>> /\ answers = <<>> /\ UNCHANGED answers
    BY <1>0, <1>6 DEF InStep, Send, Teardown, MayClose
  <2>2. /\ ioMu' = g /\ g # "free" /\ Write(Method[pc'[g]])
    BY <1>6, BasicTakes, PlaceFacts
  <2>3. CASE asked' = asked
    BY <2>1, <2>2, <2>3 DEF InStep
  <2>4. CASE asked' = Append(<<>>, [method |-> Method[pc'[g]], auth |-> auth])
    <3>1. Len(asked') = 1 /\ Head(asked').method = Method[pc'[g]] /\ Len(answers') = 0
      BY <2>1, <2>4
    <3>2. Len(asked') + Len(answers') <= 1
      BY <3>1
    <3>3. QED
      BY <2>1, <2>2, <3>1, <3>2 DEF InStep
  <2>5. QED
    BY <2>1, <2>2, <2>3, <2>4 DEF Write
<1>7. ASSUME NEW g \in Goroutines, NoSocket(g) \/ CloseSocket(g) PROVE InStep'
  BY <1>0, <1>7 DEF NoSocket, CloseSocket, MayClose, InStep, camera
<1>8. ASSUME NEW g \in Goroutines, Ends(g) PROVE InStep'
  <2>1. ioMu' = "free"
    BY <1>8 DEF Ends, Receive, TimesOut, ConnectionLost, RequestEnds
  <2>2. asked' = <<>> /\ answers' = <<>>
    <3>1. CASE Receive(g)
      BY <1>0, <3>1, OneWaits DEF Receive
    <3>2. CASE TimesOut(g) \/ ConnectionLost(g)
      BY <3>2 DEF TimesOut, ConnectionLost, camera, Basic, Gone
    <3>3. QED
      BY <1>8, <3>1, <3>2 DEF Ends
  <2>3. QED
    BY <2>1, <2>2 DEF InStep
<1>9. CASE UNCHANGED vars
  BY <1>0, <1>9 DEF vars, camera, InStep
<1>10. QED
  BY <1>1, <1>2, <1>3, <1>4, <1>5, <1>6, <1>7, <1>8, <1>9 DEF Next, CameraStep, LoopStep, Locks

-----------------------------------------------------------------------------
(* The challenge.                                                          *)

LEMMA EarlyStep ==
  ASSUME Basic, Early, [Next]_vars
  PROVE  Early'
<1> SUFFICES ASSUME pc'["caller"] \in {"dial", "options"}
             PROVE  ~session' /\ pc'["loop"] = "idle" /\ pc'["closer"] # "teardown" /\ auth' = Unknown
  BY DEF Early
<1>0. Goroutines = {"caller", "loop", "closer"} /\ RtspTypeOK
  BY PlaceFacts DEF Basic
<1> DEFINE Alone == ~session /\ pc["loop"] = "idle" /\ pc["closer"] # "teardown" /\ auth = Unknown
<1>1. CASE CameraStep \/ LoopEatsAnswer
  BY <1>1 DEF CameraStep, CameraAnswers, CameraHangs, CameraLeaves, LoopEatsAnswer, client, Early
<1>2. CASE Connect \/ Consumed
  <2>1. PICK place \in {"options", "close", "done"} : GoTo("caller", place)
    BY <1>2 DEF Connect, Consumed
  <2>2. pc'["caller"] = place /\ pc'["loop"] = pc["loop"] /\ pc'["closer"] = pc["closer"]
    BY <1>0, <2>1 DEF GoTo, RtspTypeOK
  <2>3. Connect
    BY <1>0, <1>2, <2>2 DEF Consumed, GoTo, RtspTypeOK
  <2>4. Alone /\ UNCHANGED <<session, auth>>
    BY <2>3 DEF Connect, Early
  <2>5. QED
    BY <2>2, <2>4
<1>3. CASE Tick \/ LoopBreaks
  <2>1. pc["loop"] = "read" /\ pc'["caller"] = pc["caller"]
    BY <1>0, <1>3 DEF Tick, LoopBreaks, GoTo, RtspTypeOK
  <2>2. QED
    BY <2>1 DEF Early
<1>4. CASE ProxyCloses
  <2>1. /\ pc'["caller"] = pc["caller"] /\ pc'["loop"] = pc["loop"] /\ pc'["closer"] = "close"
        /\ UNCHANGED <<session, auth>>
    BY <1>0, <1>4 DEF ProxyCloses, client, GoTo, RtspTypeOK
  <2>2. QED
    BY <2>1 DEF Early
<1>5. ASSUME NEW g \in Goroutines, Locks(g)
      PROVE  ~session' /\ pc'["loop"] = "idle" /\ pc'["closer"] # "teardown" /\ auth' = Unknown
  <2>1. CASE Send(g)
    BY <2>1 DEF Send, client, Early
  <2>2. CASE NoSocket(g)
    <3>1. g = "loop" /\ pc[g] = "keepalive" /\ KeepaliveEnds(0)
      BY <2>2, CallerMoves DEF NoSocket, Basic
    <3>2. pc'["caller"] = pc["caller"] /\ pc["loop"] = "keepalive"
      BY <3>1, LoopMoves DEF Basic
    <3>3. QED
      BY <3>2 DEF Early
  <2>3. CASE Teardown(g)
    <3>1. session /\ GoTo(g, "teardown")
      BY <2>3 DEF Teardown
    <3>2. pc'["caller"] = pc["caller"]
      BY <1>0, <3>1 DEF GoTo, RtspTypeOK
    <3>3. QED
      BY <3>1, <3>2 DEF Early
  <2>4. CASE CloseSocket(g)
    <3>1. pc[g] = "close" /\ GoTo(g, "done") /\ UNCHANGED <<session, auth>>
      BY <2>4 DEF CloseSocket, MayClose
    <3>2. /\ pc'[g] = "done" /\ \A h \in Goroutines : h # g => pc'[h] = pc[h]
      BY <1>0, <3>1 DEF GoTo, RtspTypeOK
    <3>3. g = "closer"
      BY <1>0, <3>1, <3>2 DEF Basic, Places, LoopPlaces
    <3>4. pc'["caller"] = pc["caller"] /\ pc'["loop"] = pc["loop"] /\ pc'["closer"] = "done"
      BY <1>0, <3>2, <3>3
    <3>5. QED
      BY <3>1, <3>4 DEF Early
  <2>5. QED
    BY <1>5, <2>1, <2>2, <2>3, <2>4 DEF Locks
<1>6. ASSUME NEW g \in Goroutines, Ends(g) PROVE FALSE
  <2>1. PICK status, to : RequestEnds(g, status, to)
    BY <1>6 DEF Ends, Receive, TimesOut, ConnectionLost
  <2>2. g # "caller" /\ pc'["caller"] = pc["caller"] /\ pc[g] \in Requests
    BY <2>1, RequestMoves DEF Basic
  <2>3. pc["loop"] = "idle" /\ pc["closer"] # "teardown"
    BY <2>2 DEF Early
  <2>4. pc["loop"] \notin Requests /\ pc["closer"] \notin Requests
    BY <2>3 DEF Basic, Places, CloserPlaces, Requests
  <2>5. QED
    BY <1>0, <2>2, <2>4
<1>7. CASE UNCHANGED vars
  BY <1>7 DEF vars, client, Early
<1>8. QED
  BY <1>1, <1>2, <1>3, <1>4, <1>5, <1>6, <1>7 DEF Next, LoopStep

LEMMA VerdictStep ==
  ASSUME Basic, InStep, Verdict, [Next]_vars
  PROVE  Verdict'
<1> SUFFICES ASSUME ~late' PROVE Verdict'
  BY DEF Verdict
<1>0. ~late /\ RtspTypeOK
  BY LateStays DEF Basic
<1>1. CASE CameraAnswers
  <2>1. PICK status \in IF Accepts(Head(asked)) THEN {200, 500} ELSE {401} :
          answers' = Append(answers, [to |-> Head(asked).method, status |-> status])
    BY <1>1 DEF CameraAnswers
  <2>2. answers = <<>> /\ asked' = <<>> /\ UNCHANGED <<setting, auth>> /\ asked # <<>>
    BY <1>0, <1>1, OneWaits DEF CameraAnswers, client
  <2>3. Head(answers') = [to |-> Head(asked).method, status |-> status]
    BY <2>1, <2>2
  <2>4. Head(asked) = [method |-> Head(asked).method, auth |-> auth]
    <3>1. Head(asked) \in AskedType
      BY <1>0, <2>2, TypeParts, Taken
    <3>2. Head(asked).auth = auth
      BY <1>0, <2>2 DEF Verdict
    <3>3. QED
      BY <3>1, <3>2 DEF AskedType
  <2>5. status = 401 <=> ~Accepts([method |-> Head(asked).method, auth |-> auth])
    <3>1. status = 401 <=> ~Accepts(Head(asked))
      BY <2>1
    <3>2. QED
      BY <2>4, <3>1
  <2>6. Head(answers').status = 401
          <=> ~Accepts([method |-> Head(answers').to, auth |-> auth])
    BY <2>3, <2>5
  <2>7. QED
    BY <2>2, <2>6 DEF Verdict, Accepts
<1>2. CASE CameraHangs \/ UNCHANGED vars
  BY <1>0, <1>2 DEF CameraHangs, vars, camera, client, Verdict, Accepts
<1>3. CASE CameraLeaves
  BY <1>3 DEF CameraLeaves, Verdict
<1>4. CASE LoopEatsAnswer
  <2>1. asked = <<>> /\ Tail(answers) = <<>>
    BY <1>0, <1>4, OneWaits DEF LoopEatsAnswer
  <2>2. QED
    BY <1>4, <2>1 DEF LoopEatsAnswer, Verdict
<1>5. CASE Connect \/ Consumed \/ Tick \/ LoopBreaks \/ ProxyCloses
  <2>1. UNCHANGED <<setting, asked, answers, auth>>
    BY <1>5 DEF Connect, Consumed, Tick, LoopBreaks, ProxyCloses, camera, client
  <2>2. QED
    BY <1>0, <2>1 DEF Verdict, Accepts
<1>6. ASSUME NEW g \in Goroutines, Send(g) \/ Teardown(g) PROVE Verdict'
  <2>1. asked = <<>> /\ answers = <<>> /\ UNCHANGED <<answers, auth>>
    BY <1>0, <1>6 DEF InStep, Send, Teardown, MayClose, client
  <2>2. Write(Method[pc'[g]])
    BY <1>6, BasicTakes
  <2>3. asked' # <<>> => Head(asked').auth = auth
    <3>1. CASE asked' = asked
      BY <2>1, <3>1
    <3>2. CASE asked' = Append(asked, [method |-> Method[pc'[g]], auth |-> auth])
      BY <2>1, <3>2
    <3>3. QED
      BY <2>2, <3>1, <3>2 DEF Write
  <2>4. QED
    BY <2>1, <2>3 DEF Verdict
<1>7. ASSUME NEW g \in Goroutines, NoSocket(g) \/ CloseSocket(g) PROVE Verdict'
  <2>1. UNCHANGED <<setting, asked, answers, auth>>
    BY <1>7 DEF NoSocket, CloseSocket, camera
  <2>2. QED
    BY <1>0, <2>1 DEF Verdict, Accepts
<1>8. ASSUME NEW g \in Goroutines, Ends(g) PROVE Verdict'
  <2>1. CASE Receive(g)
    <3>1. asked' = <<>> /\ answers' = <<>>
      BY <1>0, <2>1, OneWaits DEF Receive
    <3>2. QED
      BY <3>1 DEF Verdict
  <2>2. CASE TimesOut(g) \/ ConnectionLost(g)
    <3>1. asked' = <<>> /\ answers' = <<>>
      BY <2>2 DEF TimesOut, ConnectionLost, camera, Basic, Gone
    <3>2. QED
      BY <3>1 DEF Verdict
  <2>3. QED
    BY <1>8, <2>1, <2>2 DEF Ends
<1>9. QED
  BY <1>1, <1>2, <1>3, <1>4, <1>5, <1>6, <1>7, <1>8 DEF Next, CameraStep, LoopStep, Locks

LEMMA KnownStep ==
  ASSUME Basic, InStep, Early, Verdict, Known, [Next]_vars
  PROVE  Known'
<1> SUFFICES ASSUME ~late', setting'.options, setting'.scheme # "open",
                    cam' # "gone", socket' = "open", pc'["caller"] \in {"again", "describe"}
             PROVE  auth'.scheme = setting'.scheme
  BY DEF Known
<1>0. ~late /\ RtspTypeOK /\ Goroutines = {"caller", "loop", "closer"}
  BY LateStays, PlaceFacts DEF Basic
<1>1. CASE CameraStep \/ LoopEatsAnswer
  BY <1>0, <1>1 DEF CameraStep, CameraAnswers, CameraHangs, CameraLeaves, LoopEatsAnswer,
                    client, Known
<1>2. CASE Connect \/ Consumed
  <2>1. PICK place \in {"options", "close", "done"} : GoTo("caller", place)
    BY <1>2 DEF Connect, Consumed
  <2>2. QED
    BY <1>0, <2>1 DEF GoTo, RtspTypeOK
<1>3. CASE Tick \/ LoopBreaks \/ ProxyCloses
  <2>1. pc'["caller"] = pc["caller"] /\ UNCHANGED <<setting, cam, socket, auth>>
    BY <1>0, <1>3 DEF Tick, LoopBreaks, ProxyCloses, GoTo, camera, client, RtspTypeOK
  <2>2. QED
    BY <1>0, <2>1 DEF Known
<1>4. ASSUME NEW g \in Goroutines, Send(g) \/ Teardown(g) PROVE auth'.scheme = setting'.scheme
  <2>1. UNCHANGED <<setting, cam, socket, auth>>
    BY <1>4 DEF Send, Teardown, client
  <2>2. pc'["caller"] = pc["caller"]
    BY <1>0, <1>4 DEF Send, Teardown, GoTo, RtspTypeOK
  <2>3. QED
    BY <1>0, <2>1, <2>2 DEF Known
<1>5. ASSUME NEW g \in Goroutines, NoSocket(g) \/ CloseSocket(g) PROVE FALSE
  <2>1. CASE NoSocket(g)
    BY <2>1, CallerMoves, LoopMoves DEF NoSocket, Basic
  <2>2. CASE CloseSocket(g)
    BY <2>2 DEF CloseSocket
  <2>3. QED
    BY <1>5, <2>1, <2>2
<1>6. ASSUME NEW g \in Goroutines, Ends(g) PROVE auth'.scheme = setting'.scheme
  <2>1. Receive(g)
    BY <1>6 DEF Ends, TimesOut, ConnectionLost, camera
  <2>2. /\ RequestEnds(g, Head(answers).status, Head(answers).to)
        /\ Learn(g, Head(answers).status)
        /\ answers # <<>> /\ UNCHANGED <<setting, cam>>
    BY <2>1 DEF Receive
  <2>3. /\ ioMu = g /\ pc[g] \in Requests /\ socket = "open"
        /\ \/ g = "caller" /\ pc["caller"] \in {"options", "again"}
           \/ g # "caller" /\ pc'["caller"] = pc["caller"]
    BY <2>2, RequestMoves DEF Basic
  <2>4. /\ auth' = auth \/ auth'.scheme = setting.scheme
        /\ auth = Unknown /\ Head(answers).status = 401 => auth'.scheme = setting.scheme
    BY <1>0, <2>2, <2>3, LearnType
  <2>5. CASE pc["caller"] \in {"again", "describe"}
    BY <1>0, <2>2, <2>3, <2>4, <2>5 DEF Known
  <2>6. CASE g = "caller" /\ pc["caller"] = "options"
    <3>1. auth = Unknown
      BY <2>6 DEF Early
    <3>2. Head(answers).to = "OPTIONS"
      <4>1. Head(answers).to = Method["options"]
        BY <1>0, <2>2, <2>3, <2>6, PlaceFacts DEF InStep
      <4>2. QED
        BY <4>1 DEF Method, Requests
    <3>3. ~Accepts([method |-> "OPTIONS", auth |-> Unknown])
      BY <2>2 DEF Accepts, Unknown
    <3>4. Head(answers).status = 401
      BY <1>0, <2>2, <3>1, <3>2, <3>3 DEF Verdict
    <3>5. QED
      BY <2>2, <2>4, <3>1, <3>4
  <2>7. QED
    BY <2>3, <2>5, <2>6
<1>7. CASE UNCHANGED vars
  BY <1>0, <1>7 DEF vars, camera, client, Known
<1>8. QED
  BY <1>1, <1>2, <1>3, <1>4, <1>5, <1>6, <1>7 DEF Next, LoopStep, Locks

-----------------------------------------------------------------------------
(* The theorems.                                                           *)

LEMMA InvInit == Init => RtspInv
<1> SUFFICES ASSUME Init PROVE RtspInv
  OBVIOUS
<1>1. Basic
  BY BasicInit
<1>2. InStep /\ Early /\ Verdict /\ Known
  BY PlaceFacts DEF Init, InStep, Early, Verdict, Known
<1>3. QED
  BY <1>1, <1>2 DEF RtspInv, Basic

\* The inductive invariant of an RtspClient and its camera.
THEOREM RtspInvariant == Spec => []RtspInv
<1>1. RtspInv /\ [Next]_vars => RtspInv'
  BY BasicStep, InStepStep, EarlyStep, VerdictStep, KnownStep DEF RtspInv, Basic
<1>2. QED
  BY InvInit, <1>1, PTL DEF Spec

\* Every variable of the client and of its camera keeps its type, and the
\* failed keepalives stay within maxReconnectAttempts.
THEOREM RtspTypeCorrect == Spec => []RtspTypeOK
<1>1. RtspInv => RtspTypeOK
  BY DEF RtspInv
<1>2. QED
  BY <1>1, RtspInvariant, PTL

\* Until a request is given up, sendRequest reads the answer to its own
\* request, although CSeq is never compared.
THEOREM AnswersAlwaysInStep == Spec => []InStep
<1>1. RtspInv => InStep
  BY DEF RtspInv
<1>2. QED
  BY <1>1, RtspInvariant, PTL

\* describe is refused for its credentials only by a camera that did not
\* challenge OPTIONS, checks the method of a digest, or answered too late.
THEOREM RefusedOnlyIfUnasked == Spec => []RefusedOnlyUnasked
<1>1. RtspInv => RefusedOnlyUnasked
  <2> SUFFICES ASSUME RtspInv, Refused, setting.options, ~setting.strict, ~late PROVE FALSE
    BY DEF RefusedOnlyUnasked
  <2>1. /\ ioMu = "caller" /\ pc["caller"] = "describe" /\ answers # <<>>
        /\ Head(answers).status = 401
    BY DEF Refused
  <2>2. socket = "open" /\ cam # "gone"
    BY <2>1 DEF RtspInv, Holding, Gone
  <2>3. setting.scheme # "open" => auth.scheme = setting.scheme
    BY <2>1, <2>2 DEF RtspInv, Known
  <2>4. Accepts([method |-> Head(answers).to, auth |-> auth])
    BY <2>3 DEF Accepts
  <2>5. QED
    BY <2>1, <2>4 DEF RtspInv, Verdict
<1>2. QED
  BY <1>1, RtspInvariant, PTL
=============================================================================
