------------------------------- MODULE Agent -------------------------------
(***************************************************************************)
(* The session rules of the agent (src/agent.go): `idle` or `busy(sid,     *)
(* viewer)`.  Four kinds of goroutines meet on Agent.sess:                 *)
(*   - the message router, which handles one envelope at a time and is the *)
(*     only one to install a session;                                      *)
(*   - the callbacks of a session's proxy (connected, ice_failed,          *)
(*     source_lost);                                                       *)
(*   - the connect timer of a session;                                     *)
(*   - Shutdown, called by main on a signal.                               *)
(* A critical section of Agent.mu or Session.mu is one step, a call that   *)
(* publishes or closes is a step of its own.  The source verdict, the      *)
(* candidate batching and the retained state are in SourceMonitor,         *)
(* IceBatch and Presence: here an offer may be refused at any time.        *)
(***************************************************************************)
EXTENDS Naturals

CONSTANTS
  Sessions,   \* bound: the Session objects the router may create
  NoSession,  \* sess == nil
  Pairs,      \* the (viewer, sid) pairs offers come with
  NoPair      \* the pair of a Session object not created yet

ASSUME AgentAssumption == NoSession \notin Sessions /\ NoPair \notin Pairs

\* "failed" stands for ice_failed and source_lost, which differ in MarkDown only.
Causes == {"user", "timeout", "failed"}

VARIABLES
  sess,    \* Agent.sess
  pair,    \* Session.sid and Session.viewer
  proxy,   \* the PeerConnection of each session: unborn, open, closed
  link,    \* down; up: connected, onConnected is due; told: onConnected ran
  timer,   \* Session.connectTimer: unset, armed, off
  calls,   \* pending calls of endSession: <<session, reason>>
  ending,  \* where the one endSession that won the session is
  why,     \* its reason, while it runs
  rpc,     \* where the router is
  rs,      \* the session the router's handler holds
  sp,      \* where Shutdown is
  ss,      \* the session Shutdown read
  mail     \* the last word each (viewer, sid) heard: answer, replay (of it),
           \* stale (the error), end (a bye, or any other error), or none

session == <<pair, proxy, link, timer>>
ender   == <<calls, ending, why>>
router  == <<rpc, rs>>
closing == <<sp, ss>>
vars    == <<sess, session, ender, router, closing, mail>>

AgentTypeOK ==
  /\ sess   \in Sessions \cup {NoSession}
  /\ pair   \in [Sessions -> Pairs \cup {NoPair}]
  /\ proxy  \in [Sessions -> {"unborn", "open", "closed"}]
  /\ link   \in [Sessions -> {"down", "up", "told"}]
  /\ timer  \in [Sessions -> {"unset", "armed", "off"}]
  /\ calls  \subseteq Sessions \X Causes
  /\ ending \in [Sessions -> {"none", "timer", "close", "bye", "done"}]
  /\ why    \in [Sessions -> Causes \cup {"none"}]
  /\ rpc    \in {"idle", "replay", "commit", "answer", "arm", "bye"}
  /\ rs     \in Sessions \cup {NoSession}
  /\ sp     \in {"up", "clear", "close", "bye", "mqtt", "gone"}
  /\ ss     \in Sessions \cup {NoSession}
  /\ mail   \in [Pairs -> {"none", "answer", "replay", "stale", "end"}]
  /\ rpc # "idle" <=> rs # NoSession

Up == sp # "gone"

Init ==
  /\ sess = NoSession
  /\ pair = [s \in Sessions |-> NoPair]
  /\ proxy = [s \in Sessions |-> "unborn"]
  /\ link = [s \in Sessions |-> "down"]
  /\ timer = [s \in Sessions |-> "unset"]
  /\ calls = {}
  /\ ending = [s \in Sessions |-> "none"]
  /\ why = [s \in Sessions |-> "none"]
  /\ rpc = "idle" /\ rs = NoSession
  /\ sp = "up" /\ ss = NoSession
  /\ mail = [p \in Pairs |-> "none"]

Tell(p, word)  == mail' = [mail EXCEPT ![p] = word]
RouterTo(s, w) == rpc' = w /\ rs' = s
RouterIdleKeepingSession == rpc' = "idle" /\ UNCHANGED rs
RouterIdle               == RouterTo(NoSession, "idle")

----------------------------------------------------------------------------
(* The router: handleEnvelope, handleOffer, handleBye.                     *)

\* An offer whose ts is outside the tolerance, whatever its sid.
RecvStaleOffer(p) ==
  /\ Up /\ rpc = "idle"
  /\ Tell(p, "stale")
  /\ UNCHANGED <<sess, session, ender, router, closing>>

\* cur.sid == env.SID && cur.viewer == from
HoldsIgnoringDuplicates(p) == FALSE
Holds(p) == sess # NoSession /\ pair[sess] = p

\* Busy with another pair, or any refusal while idle: bad request, camera
\* unreachable, no codec, HandleOffer failed and closed its proxy.
RefuseOffer(p) ==
  /\ Up /\ rpc = "idle"
  /\ ~Holds(p)
  /\ Tell(p, "end")
  /\ UNCHANGED <<sess, session, ender, router, closing>>

\* A duplicate of the active offer: the handler goes on to replay its answer.
RecvDuplicate(p) ==
  /\ Up /\ rpc = "idle"
  /\ Holds(p)
  /\ RouterTo(sess, "replay")
  /\ UNCHANGED <<sess, session, ender, closing, mail>>

ReplayAnswer ==
  /\ Up /\ rpc = "replay"
  /\ Tell(pair[rs], "replay")
  /\ RouterIdle
  /\ UNCHANGED <<sess, session, ender, closing>>

AlwaysFree == TRUE
Free       == sess = NoSession

\* An offer while idle, accepted: the PeerConnection is created and answers.
AcceptOffer(p, s) ==
  /\ Up /\ rpc = "idle"
  /\ Free
  /\ pair[s] = NoPair
  /\ pair'  = [pair EXCEPT ![s] = p]
  /\ proxy' = [proxy EXCEPT ![s] = "open"]
  /\ RouterTo(s, "commit")
  /\ UNCHANGED <<sess, link, timer, ender, closing, mail>>

\* The answer cannot be encoded.
EncodeFailsLeavingProxy ==
  /\ Up /\ rpc = "commit"
  /\ Tell(pair[rs], "end")
  /\ RouterIdle
  /\ UNCHANGED <<sess, session, ender, closing>>

EncodeFails ==
  /\ Up /\ rpc = "commit"
  /\ proxy' = [proxy EXCEPT ![rs] = "closed"]
  /\ Tell(pair[rs], "end")
  /\ RouterIdle
  /\ UNCHANGED <<sess, pair, link, timer, ender, closing>>

\* a.sess = s
Commit ==
  /\ Up /\ rpc = "commit"
  /\ sess' = rs
  /\ RouterTo(rs, "answer")
  /\ UNCHANGED <<session, ender, closing, mail>>

\* The answer is published, then the state; startICE lets the candidates go.
SendAnswer ==
  /\ Up /\ rpc = "answer"
  /\ Tell(pair[rs], "answer")
  /\ RouterTo(rs, "arm")
  /\ UNCHANGED <<sess, session, ender, closing>>

\* s.connectTimer = time.AfterFunc(connectTimeout, ...)
TimerLeftUnset == UNCHANGED timer
SetTimer       == timer' = [timer EXCEPT ![rs] = "armed"]

ArmTimer ==
  /\ Up /\ rpc = "arm"
  /\ SetTimer
  /\ RouterIdle
  /\ UNCHANGED <<sess, pair, proxy, link, ender, closing, mail>>

\* handleBye: the sender ended the session and waits for no word.
RecvBye(p) ==
  /\ Up /\ rpc = "idle"
  /\ Holds(p)
  /\ calls' = calls \cup {<<sess, "user">>}
  /\ Tell(p, "none")
  /\ RouterTo(sess, "bye")
  /\ UNCHANGED <<sess, session, ending, why, closing>>

\* endSession returned to handleBye.
ByeHandled ==
  /\ Up /\ rpc = "bye"
  /\ <<rs, "user">> \notin calls
  /\ why[rs] # "user"
  /\ RouterIdle
  /\ UNCHANGED <<sess, session, ender, closing, mail>>

----------------------------------------------------------------------------
(* The proxy's callbacks and the connect timer.                            *)

Unanswered(s) == rs = s /\ rpc \in {"commit", "answer"}
Answered(s)   == proxy[s] # "unborn" /\ ~Unanswered(s)

\* handleConnectionState(connected), first time: the viewer has the answer.
Connect(s) ==
  /\ Up /\ Answered(s)
  /\ proxy[s] = "open" /\ link[s] = "down"
  /\ link' = [link EXCEPT ![s] = "up"]
  /\ UNCHANGED <<sess, pair, proxy, timer, ender, router, closing, mail>>

\* Stop the timer if there is one and forget it.
StopTimer(s) ==
  timer' = IF timer[s] = "armed" THEN [timer EXCEPT ![s] = "off"] ELSE timer

OnConnected(s) ==
  /\ Up /\ link[s] = "up"
  /\ link' = [link EXCEPT ![s] = "told"]
  /\ StopTimer(s)
  /\ UNCHANGED <<sess, pair, proxy, ender, router, closing, mail>>

\* WebRTCProxy.end: nothing once the proxy is closed.
RaiseEnd(s) ==
  /\ Up /\ Answered(s) /\ proxy[s] = "open"
  /\ calls' = calls \cup {<<s, "failed">>}
  /\ UNCHANGED <<sess, session, ending, why, router, closing, mail>>

TimerFires(s) ==
  /\ Up /\ timer[s] = "armed"
  /\ timer' = [timer EXCEPT ![s] = "off"]
  /\ calls' = calls \cup {<<s, "timeout">>}
  /\ UNCHANGED <<sess, pair, proxy, link, ending, why, router, closing, mail>>

----------------------------------------------------------------------------
(* endSession: the test and the reset of a.sess are one critical section.  *)

StillActive(s) == sess = s

EndLoses(s, cause) ==
  /\ Up /\ <<s, cause>> \in calls
  /\ ~StillActive(s)
  /\ calls' = calls \ {<<s, cause>>}
  /\ UNCHANGED <<sess, session, ending, why, router, closing, mail>>

EndWins(s, cause) ==
  /\ Up /\ <<s, cause>> \in calls
  /\ StillActive(s)
  /\ sess' = NoSession
  /\ calls'  = calls \ {<<s, cause>>}
  /\ ending' = [ending EXCEPT ![s] = "timer"]
  /\ why'    = [why EXCEPT ![s] = cause]
  /\ UNCHANGED <<session, router, closing, mail>>

EndStopsTimer(s) ==
  /\ Up /\ ending[s] = "timer"
  /\ StopTimer(s)
  /\ ending' = [ending EXCEPT ![s] = "close"]
  /\ UNCHANGED <<sess, pair, proxy, link, calls, why, router, closing, mail>>

\* stopICE, then proxy.Close.
EndCloses(s) ==
  /\ Up /\ ending[s] = "close"
  /\ proxy'  = [proxy EXCEPT ![s] = "closed"]
  /\ ending' = [ending EXCEPT ![s] = "bye"]
  /\ UNCHANGED <<sess, pair, link, timer, calls, why, router, closing, mail>>

\* MarkDown after source_lost, the bye unless the viewer sent one, the state.
SendByeOnTimeout(cause) == cause = "timeout"
SendBye(cause)          == cause # "user"

EndSays(s) ==
  /\ Up /\ ending[s] = "bye"
  /\ IF SendBye(why[s]) THEN Tell(pair[s], "end") ELSE UNCHANGED mail
  /\ ending' = [ending EXCEPT ![s] = "done"]
  /\ why'    = [why EXCEPT ![s] = "none"]
  /\ UNCHANGED <<sess, session, calls, router, closing>>

----------------------------------------------------------------------------
(* Shutdown.                                                               *)

\* source.Stop(), then current().
ShutdownReads ==
  /\ sp = "up"
  /\ ss' = sess
  /\ sp' = IF sess = NoSession THEN "mqtt" ELSE "clear"
  /\ UNCHANGED <<sess, session, ender, router, mail>>

\* a.sess = nil, whatever it holds now.
ShutdownClears ==
  /\ sp = "clear"
  /\ sess' = NoSession
  /\ sp' = "close"
  /\ UNCHANGED <<session, ender, router, ss, mail>>

ShutdownCloses ==
  /\ sp = "close"
  /\ proxy' = [proxy EXCEPT ![ss] = "closed"]
  /\ sp' = "bye"
  /\ UNCHANGED <<sess, pair, link, timer, ender, router, ss, mail>>

ShutdownSays ==
  /\ sp = "bye"
  /\ Tell(pair[ss], "end")
  /\ sp' = "mqtt"
  /\ UNCHANGED <<sess, session, ender, router, ss>>

\* The client disconnects and main returns: no goroutine runs any more.
MqttClose ==
  /\ sp = "mqtt"
  /\ sp' = "gone"
  /\ UNCHANGED <<sess, session, ender, router, ss, mail>>

----------------------------------------------------------------------------
Handle(p) ==
  \/ RecvStaleOffer(p) \/ RefuseOffer(p) \/ RecvDuplicate(p) \/ RecvBye(p)
  \/ \E s \in Sessions : AcceptOffer(p, s)

RouterStep == ReplayAnswer \/ EncodeFails \/ Commit \/ SendAnswer \/ ArmTimer \/ ByeHandled

EndCall(s, cause) == EndLoses(s, cause) \/ EndWins(s, cause)
EndStep(s)        == EndStopsTimer(s) \/ EndCloses(s) \/ EndSays(s)

Callback(s) ==
  \/ Connect(s) \/ OnConnected(s) \/ TimerFires(s) \/ RaiseEnd(s)
  \/ \E cause \in Causes : EndCall(s, cause)

Shutdown == ShutdownReads \/ ShutdownClears \/ ShutdownCloses \/ ShutdownSays \/ MqttClose

Next ==
  \/ \E p \in Pairs : Handle(p)
  \/ RouterStep
  \/ \E s \in Sessions : Callback(s) \/ EndStep(s)
  \/ Shutdown

\* Goroutines that can step do, timers fire; messages, connections, failures
\* and the signal come or not.
Fairness ==
  /\ WF_vars(RouterStep)
  /\ \A s \in Sessions :
       /\ WF_vars(OnConnected(s)) /\ WF_vars(TimerFires(s)) /\ WF_vars(EndStep(s))
       /\ \A cause \in Causes : WF_vars(EndCall(s, cause))

Spec     == Init /\ [][Next]_vars
FairSpec == Spec /\ Fairness

----------------------------------------------------------------------------
(* Properties.                                                             *)

SettingUp(s)  == rs = s /\ rpc \in {"commit", "answer", "arm"}
ShuttingDown  == sp # "up"

\* No PeerConnection is left behind: as long as the agent is not shutting
\* down, an open proxy belongs to the offer being handled, to the active
\* session or to a session whose endSession has yet to close it; and the
\* active session is live, nobody having begun to end it.
NoOrphan ==
  ~ShuttingDown => \A s \in Sessions :
    /\ proxy[s] = "open" => \/ rs = s /\ rpc = "commit"
                            \/ sess = s
                            \/ ending[s] \in {"timer", "close"}
    /\ sess = s => proxy[s] = "open" /\ ending[s] = "none"

\* A session cannot stay active unconnected and unwatched: once handleOffer is
\* over, its timer is armed, its timeout is on the way, or onConnected ran.
Guarded ==
  \A s \in Sessions : sess = s /\ ~SettingUp(s) =>
    timer[s] = "armed" \/ <<s, "timeout">> \in calls \/ link[s] = "told"

\* A viewer whose last word is an answer has an active session, or a bye is on
\* its way to it: it never waits on a session the agent dropped in silence.
ByeOnItsWay(s) == ending[s] \in {"timer", "close", "bye"} /\ why[s] # "user"

AnsweredIsServed ==
  ~ShuttingDown => \A p \in Pairs : mail[p] = "answer" =>
    \E s \in Sessions : pair[s] = p /\ (sess = s \/ ByeOnItsWay(s))

\* The viewer of the active session is not dismissed: unless the same pair
\* came with two sessions, neither a bye nor a refusal was sent to it.
SoleSessionOf(s) == \A t \in Sessions \ {s} : pair[t] # pair[s]

ActiveNotDismissed ==
  ~ShuttingDown => \A s \in Sessions :
    sess = s /\ ~Unanswered(s) /\ SoleSessionOf(s) => mail[pair[s]] # "end"

\* An active session connects, or ends and is closed, whoever ends it.
Settles ==
  \A s \in Sessions :
    sess = s ~> (link[s] = "told" \/ proxy[s] = "closed" \/ ShuttingDown)

\* The agent implements the abstract rule of one session at a time, with every
\* overlap of handleOffer, endSession and Shutdown.
Spent    == {s \in Sessions : pair[s] # NoPair /\ ~(rs = s /\ rpc = "commit")}
Abstract == INSTANCE OneSession WITH Nobody <- NoSession, holder <- sess, spent <- Spent

OneSessionAtATime == Abstract!Spec

\* README.md:102 - "No WebRTC connection 30 s after the answer" is what ends a
\* session with `timeout`: the timer of a connected session does not fire.
TimeoutOnlyUnconnected ==
  [][\A s \in Sessions : TimerFires(s) => link[s] # "told"]_vars
============================================================================
