------------------------------ MODULE Presence ------------------------------
(***************************************************************************)
(* The retained state of the camera (src/agent.go state(), src/mqtt.go     *)
(* PublishState, onConnect, Close).  A publication reads the reachability, *)
(* then the session, each under its own lock, and hands the result to the  *)
(* MQTT client: three steps, in whatever goroutine changed something.  The *)
(* broker keeps the last one, or the Last Will after a connection loss.    *)
(***************************************************************************)
EXTENDS Naturals

CONSTANTS
  Viewers,  \* viewers a session may be with
  NoViewer, \* sess == nil
  Enders,   \* goroutines that may be ending a session
  Nothing   \* no publication is waiting in the MQTT client

ASSUME PresenceAssumption ==
  /\ NoViewer \notin Viewers
  /\ Nothing \notin [online : BOOLEAN, viewer : Viewers \cup {NoViewer}]
  /\ Enders \cap {"router", "monitor", "conn"} = {}

Publishers == Enders \cup {"router", "monitor", "conn"}

VARIABLES
  online,     \* SourceMonitor.online
  viewer,     \* the viewer of Agent.sess
  booted,     \* the first connection is made: router and monitor run
  connected,  \* the connection to the broker
  sp,         \* Shutdown: up, closing (the session is cleared), closed, gone
  at,         \* where the publication of each goroutine is
  read,       \* the State each publication built so far
  again,      \* enders: a second publication follows this one
  stored,     \* the last publication made while disconnected
  retained,   \* the state the broker keeps
  seen,       \* history: the session the latest publication read
  overlapped  \* history: two publications met since all were last idle

source == <<online, viewer>>
client == <<booted, connected, stored>>
pub    == <<at, read, again>>
vars   == <<source, client, sp, pub, retained, seen, overlapped>>

State   == [online : BOOLEAN, viewer : Viewers \cup {NoViewer}]
Offline == [online |-> FALSE, viewer |-> NoViewer]  \* the Last Will, and Close
Truth   == [online |-> online, viewer |-> viewer]

PresenceTypeOK ==
  /\ online \in BOOLEAN /\ booted \in BOOLEAN /\ connected \in BOOLEAN
  /\ overlapped \in BOOLEAN
  /\ {viewer, seen} \subseteq Viewers \cup {NoViewer}
  /\ sp \in {"up", "closing", "closed", "gone"}
  /\ at \in [Publishers -> {"idle", "ended", "readOnline", "readSess", "send"}]
  /\ read \in [Publishers -> State]
  /\ again \in [Publishers -> BOOLEAN]
  /\ stored \in State \cup {Nothing}
  /\ retained \in State

Init ==
  /\ online \in BOOLEAN /\ viewer = NoViewer
  /\ booted = FALSE /\ connected = FALSE /\ stored = Nothing
  /\ sp = "up"
  /\ at = [g \in Publishers |-> "idle"]
  /\ read = [g \in Publishers |-> Offline]
  /\ again = [g \in Publishers |-> FALSE]
  /\ retained = Offline
  /\ seen = NoViewer
  /\ overlapped = FALSE

Running == sp # "gone"
Quiet   == \A g \in Publishers : at[g] = "idle"
Goto(g, place) == at' = [at EXCEPT ![g] = place]

\* A goroutine starts what ends in a publication: alone, or meeting another.
Begin(g, place) ==
  /\ Goto(g, place)
  /\ overlapped' = (~Quiet \/ sp = "closed")

----------------------------------------------------------------------------
(* What changes the state, and starts a publication.                       *)

ResendAlways == retained' = stored
ResendStored == retained' = IF stored = Nothing THEN retained ELSE stored

\* The broker accepts the connection: onConnect publishes; what was stored
\* while disconnected goes out first.
Connect ==
  /\ Running /\ ~connected /\ at["conn"] = "idle"
  /\ connected' = TRUE /\ booted' = TRUE
  /\ ResendStored
  /\ stored' = Nothing
  /\ Begin("conn", "readOnline")
  /\ UNCHANGED <<source, sp, read, again, seen>>

\* The connection breaks; the broker publishes the Last Will.
ConnectionLost ==
  /\ Running /\ connected
  /\ connected' = FALSE
  /\ retained' = Offline
  /\ UNCHANGED <<source, booted, stored, sp, pub, seen, overlapped>>

\* The monitor's verdict changes: onChange.
VerdictChanges ==
  /\ Running /\ booted /\ at["monitor"] = "idle"
  /\ online' = ~online
  /\ Begin("monitor", "readOnline")
  /\ UNCHANGED <<viewer, client, sp, read, again, retained, seen>>

\* handleOffer installs a session, then publishes.
PublicationForgotten == Begin("router", "idle")
PublicationDue       == Begin("router", "readOnline")

SessionStarts(v) ==
  /\ Running /\ booted /\ at["router"] = "idle"
  /\ viewer = NoViewer
  /\ viewer' = v
  /\ PublicationDue
  /\ UNCHANGED <<online, client, sp, read, again, retained, seen>>

\* endSession: the session is cleared first, the publication comes last.
SessionEnds(e) ==
  /\ Running /\ at[e] = "idle"
  /\ viewer # NoViewer
  /\ viewer' = NoViewer
  /\ Begin(e, "ended")
  /\ UNCHANGED <<online, client, sp, read, again, retained, seen>>

EndPublishes(e) ==
  /\ Running /\ at[e] = "ended"
  /\ Goto(e, "readOnline")
  /\ UNCHANGED <<source, client, sp, read, again, retained, seen, overlapped>>

\* source_lost: MarkDown publishes through onChange, then endSession does.
EndMarksDown(e) ==
  /\ Running /\ at[e] = "ended"
  /\ online' = FALSE
  /\ Goto(e, "readOnline")
  /\ again' = [again EXCEPT ![e] = online]
  /\ UNCHANGED <<viewer, client, sp, read, retained, seen, overlapped>>

----------------------------------------------------------------------------
(* PublishState(true).                                                     *)

\* Both reads are of the present state, none of a copy.
ReadOnline(g) ==
  /\ Running /\ at[g] = "readOnline"
  /\ read' = [read EXCEPT ![g].online = online]
  /\ Goto(g, "readSess")
  /\ UNCHANGED <<source, client, sp, again, retained, seen, overlapped>>

ReadSess(g) ==
  /\ Running /\ at[g] = "readSess"
  /\ read' = [read EXCEPT ![g].viewer = viewer]
  /\ seen' = viewer
  /\ Goto(g, "send")
  /\ UNCHANGED <<source, client, sp, again, retained, overlapped>>

\* Published at QoS 1: at once, or from the store at the next connection; the
\* goroutine forgets what it read.
Deliver(st) ==
  /\ retained' = IF connected THEN st ELSE retained
  /\ stored'   = IF connected THEN stored ELSE st

Publish(g) ==
  /\ Running /\ at[g] = "send"
  /\ Deliver(read[g])
  /\ Goto(g, IF again[g] THEN "readOnline" ELSE "idle")
  /\ read'  = [read EXCEPT ![g] = Offline]
  /\ again' = [again EXCEPT ![g] = FALSE]
  /\ UNCHANGED <<source, booted, connected, sp, seen, overlapped>>

----------------------------------------------------------------------------
(* Shutdown.                                                               *)

ShutdownClears ==
  /\ sp = "up" /\ booted
  /\ viewer' = NoViewer
  /\ sp' = "closing"
  /\ UNCHANGED <<online, client, pub, retained, seen, overlapped>>

\* MqttClient.Close: the offline state, if the connection is open.
PublishOfflineKeepingBusy == retained' = [online |-> FALSE, viewer |-> seen]
PublishOffline            == retained' = Offline

CloseOffline ==
  /\ sp = "closing"
  /\ IF connected THEN PublishOffline ELSE UNCHANGED retained
  /\ sp' = "closed"
  /\ overlapped' = ~Quiet
  /\ UNCHANGED <<source, client, pub, seen>>

Disconnect ==
  /\ sp = "closed"
  /\ sp' = "gone"
  /\ UNCHANGED <<source, client, pub, retained, seen, overlapped>>

Next ==
  \/ Connect \/ ConnectionLost \/ VerdictChanges
  \/ \E v \in Viewers : SessionStarts(v)
  \/ \E e \in Enders : SessionEnds(e) \/ EndPublishes(e) \/ EndMarksDown(e)
  \/ \E g \in Publishers : ReadOnline(g) \/ ReadSess(g) \/ Publish(g)
  \/ ShutdownClears \/ CloseOffline \/ Disconnect

Spec == Init /\ [][Next]_vars

----------------------------------------------------------------------------
(* Properties.                                                             *)

\* When every publication ran to its end without meeting another, viewers see
\* the exact state: what is retained is the present verdict and session, or
\* the offline state once the agent closed (PublishState, Close).
Settled == booted /\ Quiet /\ connected

AloneIsExact ==
  Settled /\ ~overlapped =>
    /\ sp = "up" => retained = Truth
    /\ sp \in {"closed", "gone"} => retained = Offline

\* Every change of the session is read again: when the latest publication saw
\* another session, a goroutine is about to read it (handleOffer, endSession).
SessionAnnounced ==
  sp = "up" /\ seen # viewer =>
    \E g \in Publishers : at[g] \in {"ended", "readOnline", "readSess"}

\* README.md:78 - "`state` is published (retained) on every (re)connection and
\* on every change": when nothing is in progress, it is the present state.
SettledIsExact == Settled /\ sp = "up" => retained = Truth
============================================================================
