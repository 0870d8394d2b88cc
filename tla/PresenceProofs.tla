--------------------------- MODULE PresenceProofs ---------------------------
(***************************************************************************)
(* The retained state for any set of viewers and of goroutines that end    *)
(* sessions.  SessionAnnounced is inductive beside the types.              *)
(* AloneIsExact needs AloneInv: while no publication met another, at most  *)
(* one is in progress, what it read is still true, and with none in        *)
(* progress the broker has the truth unless the connection is down.        *)
(***************************************************************************)
EXTENDS Presence, TLAPS

\* At most one goroutine publishes.
OneAtATime == \A g, h \in Publishers : at[g] # "idle" /\ at[h] # "idle" => g = h

\* What a publication read is still so.
ReadsHold ==
  \A g \in Publishers :
    /\ at[g] = "readSess" => read[g].online = online
    /\ at[g] = "send" => read[g].online = online /\ read[g].viewer = viewer

Exact == Quiet /\ connected => retained = Truth

AloneInv ==
  /\ sp = "up" /\ ~overlapped => OneAtATime /\ ReadsHold /\ Exact
  /\ sp \in {"closed", "gone"} /\ ~overlapped => Quiet /\ (connected => retained = Offline)

PresenceInv == PresenceTypeOK /\ SessionAnnounced /\ AloneInv

-----------------------------------------------------------------------------
(* Types.                                                                  *)

LEMMA GotoType ==
  ASSUME PresenceTypeOK, NEW g \in Publishers,
         NEW place \in {"idle", "ended", "readOnline", "readSess", "send"}, Goto(g, place)
  PROVE  at' \in [Publishers -> {"idle", "ended", "readOnline", "readSess", "send"}]
BY DEF PresenceTypeOK, Goto

LEMMA BeginType ==
  ASSUME PresenceTypeOK, NEW g \in Publishers,
         NEW place \in {"idle", "ended", "readOnline", "readSess", "send"}, Begin(g, place)
  PROVE  /\ at' \in [Publishers -> {"idle", "ended", "readOnline", "readSess", "send"}]
         /\ overlapped' \in BOOLEAN
BY GotoType DEF Begin

LEMMA TypeInit == Init => PresenceTypeOK
<1> SUFFICES ASSUME Init PROVE PresenceTypeOK
  OBVIOUS
<1>1. Offline \in State
  BY DEF Offline, State
<1>2. /\ at \in [Publishers -> {"idle", "ended", "readOnline", "readSess", "send"}]
      /\ read \in [Publishers -> State]
      /\ again \in [Publishers -> BOOLEAN]
  BY <1>1 DEF Init
<1>3. retained \in State /\ stored \in State \cup {Nothing}
  BY <1>1 DEF Init
<1>4. QED
  BY <1>2, <1>3 DEF Init, PresenceTypeOK

LEMMA TypeStep == PresenceTypeOK /\ [Next]_vars => PresenceTypeOK'
<1> SUFFICES ASSUME PresenceTypeOK, [Next]_vars PROVE PresenceTypeOK'
  OBVIOUS
<1>0. /\ {"router", "monitor", "conn"} \subseteq Publishers
      /\ Enders \subseteq Publishers
  BY DEF Publishers
<1>1. CASE Connect
  <2>1. Begin("conn", "readOnline") /\ UNCHANGED <<source, sp, read, again, seen>>
    BY <1>1 DEF Connect
  <2>2. connected' = TRUE /\ booted' = TRUE /\ stored' = Nothing /\ retained' \in State
    BY <1>1 DEF Connect, ResendStored, PresenceTypeOK
  <2>3. QED
    BY <1>0, <2>1, <2>2, BeginType DEF PresenceTypeOK, source
<1>2. CASE ConnectionLost
  <2>1. retained' \in State
    BY <1>2 DEF ConnectionLost, Offline, State
  <2>2. QED
    BY <1>2, <2>1 DEF ConnectionLost, PresenceTypeOK, source, pub
<1>3. CASE VerdictChanges
  <2>1. Begin("monitor", "readOnline") /\ online' \in BOOLEAN
    BY <1>3 DEF VerdictChanges
  <2>2. QED
    BY <1>0, <1>3, <2>1, BeginType DEF VerdictChanges, PresenceTypeOK, client
<1>4. ASSUME NEW v \in Viewers, SessionStarts(v) PROVE PresenceTypeOK'
  <2>1. Begin("router", "readOnline") /\ viewer' = v
    BY <1>4 DEF SessionStarts, PublicationDue
  <2>2. QED
    BY <1>0, <1>4, <2>1, BeginType DEF SessionStarts, PresenceTypeOK, client
<1>5. ASSUME NEW e \in Enders, SessionEnds(e) \/ EndPublishes(e) \/ EndMarksDown(e)
      PROVE  PresenceTypeOK'
  <2>1. CASE SessionEnds(e)
    BY <1>0, <2>1, BeginType DEF SessionEnds, PresenceTypeOK, client
  <2>2. CASE EndPublishes(e)
    BY <1>0, <2>2, GotoType DEF EndPublishes, PresenceTypeOK, client, source
  <2>3. CASE EndMarksDown(e)
    <3>1. again' \in [Publishers -> BOOLEAN]
      BY <2>3, <1>0 DEF EndMarksDown, PresenceTypeOK
    <3>2. QED
      BY <1>0, <2>3, <3>1, GotoType DEF EndMarksDown, PresenceTypeOK, client
  <2>4. QED
    BY <1>5, <2>1, <2>2, <2>3
<1>6. ASSUME NEW g \in Publishers, ReadOnline(g) \/ ReadSess(g) \/ Publish(g)
      PROVE  PresenceTypeOK'
  <2>1. CASE ReadOnline(g)
    <3>1. read' \in [Publishers -> State]
      BY <2>1 DEF ReadOnline, PresenceTypeOK, State
    <3>2. QED
      BY <2>1, <3>1, GotoType DEF ReadOnline, PresenceTypeOK, client, source
  <2>2. CASE ReadSess(g)
    <3>1. read' \in [Publishers -> State]
      BY <2>2 DEF ReadSess, PresenceTypeOK, State
    <3>2. QED
      BY <2>2, <3>1, GotoType DEF ReadSess, PresenceTypeOK, client, source
  <2>3. CASE Publish(g)
    <3>1. read' \in [Publishers -> State] /\ again' \in [Publishers -> BOOLEAN]
      BY <2>3 DEF Publish, PresenceTypeOK, State, Offline
    <3>2. retained' \in State /\ stored' \in State \cup {Nothing}
      BY <2>3 DEF Publish, Deliver, PresenceTypeOK
    <3>3. at' \in [Publishers -> {"idle", "ended", "readOnline", "readSess", "send"}]
      BY <2>3, GotoType DEF Publish
    <3>4. QED
      BY <2>3, <3>1, <3>2, <3>3 DEF Publish, PresenceTypeOK, source
  <2>4. QED
    BY <1>6, <2>1, <2>2, <2>3
<1>7. CASE ShutdownClears
  BY <1>7 DEF ShutdownClears, PresenceTypeOK, client, pub
<1>8. CASE CloseOffline
  <2>1. Offline \in State
    BY DEF Offline, State
  <2>2. retained' \in State
    BY <1>8, <2>1 DEF CloseOffline, PublishOffline, PresenceTypeOK
  <2>3. QED
    BY <1>8, <2>2 DEF CloseOffline, Quiet, PresenceTypeOK, client, pub, source
<1>9. CASE Disconnect
  BY <1>9 DEF Disconnect, PresenceTypeOK, client, pub, source
<1>10. CASE UNCHANGED vars
  BY <1>10 DEF vars, PresenceTypeOK, client, pub, source
<1>11. QED
  BY <1>1, <1>2, <1>3, <1>4, <1>5, <1>6, <1>7, <1>8, <1>9, <1>10 DEF Next

-----------------------------------------------------------------------------
(* A change of the session is read again.                                  *)

\* A step that moves one goroutine, neither from nor to a place where it does
\* not read the session any more, keeps the announcement due.
LEMMA StillDue ==
  ASSUME PresenceTypeOK, SessionAnnounced, NEW g \in Publishers,
         NEW place \in {"ended", "readOnline", "readSess"}, Goto(g, place), sp' = sp
  PROVE  SessionAnnounced'
BY DEF PresenceTypeOK, SessionAnnounced, Goto

LEMMA AnnouncedStep ==
  ASSUME PresenceTypeOK, SessionAnnounced, [Next]_vars
  PROVE  SessionAnnounced'
<1>0. /\ {"router", "monitor", "conn"} \subseteq Publishers
      /\ Enders \subseteq Publishers
  BY DEF Publishers
<1>1. CASE Connect
  BY <1>0, <1>1, StillDue DEF Connect, Begin
<1>2. CASE ConnectionLost
  BY <1>2 DEF ConnectionLost, SessionAnnounced, source, pub
<1>3. CASE VerdictChanges
  BY <1>0, <1>3, StillDue DEF VerdictChanges, Begin
<1>4. ASSUME NEW v \in Viewers, SessionStarts(v) PROVE SessionAnnounced'
  BY <1>0, <1>4, StillDue DEF SessionStarts, PublicationDue, Begin
<1>5. ASSUME NEW e \in Enders, SessionEnds(e) \/ EndPublishes(e) \/ EndMarksDown(e)
      PROVE  SessionAnnounced'
  BY <1>0, <1>5, StillDue DEF SessionEnds, EndPublishes, EndMarksDown, Begin
<1>6. ASSUME NEW g \in Publishers, ReadOnline(g) \/ ReadSess(g) \/ Publish(g)
      PROVE  SessionAnnounced'
  <2>1. CASE ReadOnline(g)
    BY <2>1, StillDue DEF ReadOnline
  <2>2. CASE ReadSess(g)
    BY <2>2 DEF ReadSess, SessionAnnounced, source
  <2>3. CASE Publish(g)
    <3>1. SUFFICES ASSUME sp = "up", seen # viewer
                   PROVE  \E h \in Publishers : at'[h] \in {"ended", "readOnline", "readSess"}
      BY <2>3 DEF Publish, SessionAnnounced, source
    <3>2. PICK h \in Publishers : at[h] \in {"ended", "readOnline", "readSess"}
      BY <3>1 DEF SessionAnnounced
    <3>3. h # g /\ at'[h] = at[h]
      BY <2>3, <3>2 DEF Publish, Goto, PresenceTypeOK
    <3>4. QED
      BY <3>2, <3>3
  <2>4. QED
    BY <1>6, <2>1, <2>2, <2>3
<1>7. CASE ShutdownClears \/ CloseOffline \/ Disconnect
  BY <1>7 DEF ShutdownClears, CloseOffline, Disconnect, SessionAnnounced
<1>8. CASE UNCHANGED vars
  BY <1>8 DEF vars, SessionAnnounced, source, pub
<1>9. QED
  BY <1>1, <1>2, <1>3, <1>4, <1>5, <1>6, <1>7, <1>8 DEF Next

-----------------------------------------------------------------------------
(* Publications that do not meet.                                          *)

\* A goroutine that begins either finds all others idle, or overlaps.
LEMMA BeginsAlone ==
  ASSUME PresenceTypeOK, NEW g \in Publishers, NEW place \in {"ended", "readOnline"},
         Begin(g, place), sp # "gone", sp' = sp
  PROVE  AloneInv'
<1> SUFFICES ASSUME ~overlapped' PROVE AloneInv'
  BY DEF AloneInv
<1>1. Quiet /\ sp \notin {"closed", "gone"}
  BY DEF Begin
<1>2. at'[g] = place /\ \A h \in Publishers : h # g => at'[h] = "idle"
  BY <1>1 DEF Begin, Goto, Quiet, PresenceTypeOK
<1>3. OneAtATime' /\ ReadsHold' /\ ~Quiet'
  BY <1>2 DEF OneAtATime, ReadsHold, Quiet
<1>4. QED
  BY <1>1, <1>3 DEF AloneInv, Exact

\* A goroutine that goes on alone is still alone.
LEMMA GoesOnAlone ==
  ASSUME PresenceTypeOK, AloneInv, ~overlapped, NEW g \in Publishers, at[g] # "idle",
         NEW place, Goto(g, place)
  PROVE  /\ sp \notin {"closed", "gone"}
         /\ at'[g] = place
         /\ sp = "up" => OneAtATime' /\ \A h \in Publishers : h # g => at'[h] = "idle"
<1>1. sp \notin {"closed", "gone"}
  BY DEF AloneInv, Quiet
<1>2. at'[g] = place /\ \A h \in Publishers : h # g => at'[h] = at[h]
  BY DEF Goto, PresenceTypeOK
<1>3. ASSUME sp = "up" PROVE \A h \in Publishers : h # g => at'[h] = "idle"
  BY <1>2, <1>3 DEF AloneInv, OneAtATime
<1>4. ASSUME sp = "up" PROVE OneAtATime'
  BY <1>2, <1>3, <1>4 DEF OneAtATime
<1>5. QED
  BY <1>1, <1>2, <1>3, <1>4

LEMMA AloneStep ==
  ASSUME PresenceTypeOK, AloneInv, [Next]_vars
  PROVE  AloneInv'
<1>0. /\ {"router", "monitor", "conn"} \subseteq Publishers
      /\ Enders \subseteq Publishers
  BY DEF Publishers
<1>1. CASE Connect
  BY <1>0, <1>1, BeginsAlone DEF Connect, Running
<1>2. CASE ConnectionLost
  <2>1. UNCHANGED <<source, sp, pub, overlapped>> /\ ~connected' /\ retained' = Offline
    BY <1>2 DEF ConnectionLost
  <2>2. (OneAtATime => OneAtATime') /\ (ReadsHold => ReadsHold') /\ (Quiet => Quiet')
    BY <2>1 DEF OneAtATime, ReadsHold, Quiet, source, pub
  <2>3. Offline' = Offline
    BY DEF Offline
  <2>4. QED
    BY <2>1, <2>2, <2>3 DEF AloneInv, Exact
<1>3. CASE VerdictChanges
  BY <1>0, <1>3, BeginsAlone DEF VerdictChanges, Running
<1>4. ASSUME NEW v \in Viewers, SessionStarts(v) PROVE AloneInv'
  BY <1>0, <1>4, BeginsAlone DEF SessionStarts, PublicationDue, Running
<1>5. ASSUME NEW e \in Enders, SessionEnds(e) \/ EndPublishes(e) \/ EndMarksDown(e)
      PROVE  AloneInv'
  <2>1. CASE SessionEnds(e)
    BY <1>0, <2>1, BeginsAlone DEF SessionEnds, Running
  <2>2. CASE EndPublishes(e) \/ EndMarksDown(e)
    <3>1. SUFFICES ASSUME ~overlapped PROVE AloneInv'
      BY <2>2 DEF AloneInv, EndPublishes, EndMarksDown
    <3>2. e \in Publishers /\ at[e] # "idle" /\ Goto(e, "readOnline") /\ sp' = sp
      BY <1>0, <2>2 DEF EndPublishes, EndMarksDown
    <3>3. /\ sp \notin {"closed", "gone"}
          /\ at'[e] = "readOnline"
          /\ sp = "up" => OneAtATime' /\ \A h \in Publishers : h # e => at'[h] = "idle"
      BY <3>1, <3>2, GoesOnAlone
    <3>4. sp = "up" => ReadsHold' /\ ~Quiet'
      BY <3>2, <3>3 DEF ReadsHold, Quiet
    <3>5. QED
      BY <3>2, <3>3, <3>4 DEF AloneInv, Exact
  <2>3. QED
    BY <1>5, <2>1, <2>2
<1>6. ASSUME NEW g \in Publishers, ReadOnline(g) \/ ReadSess(g) \/ Publish(g)
      PROVE  AloneInv'
  <2>1. SUFFICES ASSUME ~overlapped PROVE AloneInv'
    BY <1>6 DEF AloneInv, ReadOnline, ReadSess, Publish
  <2>2. UNCHANGED <<online, viewer, sp, connected>>
    BY <1>6 DEF ReadOnline, ReadSess, Publish, source, client
  <2>3. CASE ReadOnline(g)
    <3>1. at[g] # "idle" /\ Goto(g, "readSess")
      BY <2>3 DEF ReadOnline
    <3>2. /\ sp \notin {"closed", "gone"}
          /\ at'[g] = "readSess"
          /\ sp = "up" => OneAtATime' /\ \A h \in Publishers : h # g => at'[h] = "idle"
      BY <2>1, <3>1, GoesOnAlone
    <3>3. read'[g].online = online
      BY <2>3 DEF ReadOnline, PresenceTypeOK, State
    <3>4. sp = "up" => ReadsHold' /\ ~Quiet'
      BY <2>2, <3>2, <3>3 DEF ReadsHold, Quiet
    <3>5. QED
      BY <2>2, <3>2, <3>4 DEF AloneInv, Exact
  <2>4. CASE ReadSess(g)
    <3>1. at[g] # "idle" /\ Goto(g, "send")
      BY <2>4 DEF ReadSess
    <3>2. /\ sp \notin {"closed", "gone"}
          /\ at'[g] = "send"
          /\ sp = "up" => OneAtATime' /\ \A h \in Publishers : h # g => at'[h] = "idle"
      BY <2>1, <3>1, GoesOnAlone
    <3>3. read'[g].viewer = viewer /\ read'[g].online = read[g].online
      BY <2>4 DEF ReadSess, PresenceTypeOK, State
    <3>4. sp = "up" => read[g].online = online
      BY <2>1, <2>4 DEF AloneInv, ReadsHold, ReadSess
    <3>5. sp = "up" => ReadsHold' /\ ~Quiet'
      BY <2>2, <3>2, <3>3, <3>4 DEF ReadsHold, Quiet
    <3>6. QED
      BY <2>2, <3>2, <3>5 DEF AloneInv, Exact
  <2>5. CASE Publish(g)
    <3> DEFINE place == IF again[g] THEN "readOnline" ELSE "idle"
    <3>1. at[g] = "send" /\ Goto(g, place)
      BY <2>5 DEF Publish
    <3>2. /\ sp \notin {"closed", "gone"}
          /\ at'[g] \in {"readOnline", "idle"}
          /\ sp = "up" => OneAtATime' /\ \A h \in Publishers : h # g => at'[h] = "idle"
      BY <2>1, <3>1, GoesOnAlone
    <3>3. sp = "up" => ReadsHold'
      BY <3>2 DEF ReadsHold
    <3>4. sp = "up" => read[g] = Truth
      <4>1. sp = "up" => read[g].online = online /\ read[g].viewer = viewer
        BY <2>1, <3>1 DEF AloneInv, ReadsHold
      <4>2. read[g] \in State
        BY DEF PresenceTypeOK
      <4>3. QED
        BY <4>1, <4>2 DEF State, Truth
    <3>5. connected => retained' = read[g]
      BY <2>5 DEF Publish, Deliver
    <3>6. Truth' = Truth
      BY <2>2 DEF Truth
    <3>7. QED
      BY <2>2, <3>2, <3>3, <3>4, <3>5, <3>6 DEF AloneInv, Exact
  <2>6. QED
    BY <1>6, <2>3, <2>4, <2>5
<1>7. CASE ShutdownClears
  BY <1>7 DEF ShutdownClears, AloneInv
<1>8. CASE CloseOffline
  <2>1. sp' = "closed" /\ overlapped' = ~Quiet /\ UNCHANGED <<at, connected>>
    BY <1>8 DEF CloseOffline, client, pub
  <2>2. connected => retained' = Offline
    BY <1>8 DEF CloseOffline, PublishOffline
  <2>3. Quiet' = Quiet /\ Offline' = Offline
    BY <2>1 DEF Quiet, Offline
  <2>4. QED
    BY <2>1, <2>2, <2>3 DEF AloneInv
<1>9. CASE Disconnect
  <2>1. sp = "closed" /\ sp' = "gone" /\ UNCHANGED <<at, connected, retained, overlapped>>
    BY <1>9 DEF Disconnect, client, pub
  <2>2. Quiet' = Quiet /\ Offline' = Offline
    BY <2>1 DEF Quiet, Offline
  <2>3. QED
    BY <2>1, <2>2 DEF AloneInv
<1>10. CASE UNCHANGED vars
  <2>1. UNCHANGED <<online, viewer, sp, at, read, connected, retained, overlapped>>
    BY <1>10 DEF vars, source, client, pub
  <2>2. /\ OneAtATime' = OneAtATime /\ ReadsHold' = ReadsHold /\ Quiet' = Quiet
        /\ Truth' = Truth /\ Offline' = Offline
    BY <2>1 DEF OneAtATime, ReadsHold, Quiet, Truth, Offline
  <2>3. QED
    BY <2>1, <2>2 DEF AloneInv, Exact
<1>11. QED
  BY <1>1, <1>2, <1>3, <1>4, <1>5, <1>6, <1>7, <1>8, <1>9, <1>10 DEF Next

-----------------------------------------------------------------------------
(* The theorems.                                                           *)

LEMMA InvInit == Init => PresenceInv
<1> SUFFICES ASSUME Init PROVE PresenceInv
  OBVIOUS
<1>1. OneAtATime /\ ReadsHold /\ Exact
  BY DEF Init, OneAtATime, ReadsHold, Exact
<1>2. SessionAnnounced /\ AloneInv
  BY <1>1 DEF Init, SessionAnnounced, AloneInv
<1>3. QED
  BY <1>2, TypeInit DEF PresenceInv

\* The inductive invariant of the publications (PublishState, Close).
THEOREM PresenceInvariant == Spec => []PresenceInv
<1>1. PresenceInv /\ [Next]_vars => PresenceInv'
  BY TypeStep, AnnouncedStep, AloneStep DEF PresenceInv
<1>2. QED
  BY InvInit, <1>1, PTL DEF Spec

\* Every variable of the publications keeps its type, for any viewers and any
\* goroutines that end sessions.
THEOREM PresenceTypeCorrect == Spec => []PresenceTypeOK
<1>1. PresenceInv => PresenceTypeOK
  BY DEF PresenceInv
<1>2. QED
  BY <1>1, PresenceInvariant, PTL

\* A change of the session is always read by a publication still to come
\* (handleOffer and endSession call PublishState after it).
THEOREM SessionAlwaysAnnounced == Spec => []SessionAnnounced
<1>1. PresenceInv => SessionAnnounced
  BY DEF PresenceInv
<1>2. QED
  BY <1>1, PresenceInvariant, PTL

\* Publications that met no other leave the exact state retained at the broker
\* (PublishState, onConnect, MqttClient.Close).
THEOREM AloneAlwaysExact == Spec => []AloneIsExact
<1>1. PresenceInv => AloneIsExact
  BY DEF PresenceInv, AloneInv, AloneIsExact, Settled, Exact
<1>2. QED
  BY <1>1, PresenceInvariant, PTL
=============================================================================
