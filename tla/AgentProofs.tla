---------------------------- MODULE AgentProofs ----------------------------
(***************************************************************************)
(* The session rules of Agent for any number of Session objects and pairs. *)
(* The safety properties are not inductive by themselves: they rest on     *)
(* what is known of a session before it is created (Fresh), while the      *)
(* router sets it up (SetUp), once its end was won (Over) and while its    *)
(* viewer's bye is handled (ByePending).                                   *)
(***************************************************************************)
EXTENDS Agent, TLAPS

\* Nothing refers to a Session object the router has not created.
Fresh ==
  \A s \in Sessions : pair[s] = NoPair =>
    /\ proxy[s] = "unborn" /\ ending[s] = "none" /\ timer[s] = "unset"
    /\ \A cause \in Causes : <<s, cause>> \notin calls
    /\ sess # s /\ rs # s /\ ss # s

\* Until the answer is out nothing can end the session being set up, and only
\* the router installs a session: the busy test of handleOffer still holds
\* when the session is installed.
SetUp ==
  /\ rpc \in {"commit", "answer"} =>
       timer[rs] = "unset" /\ \A cause \in Causes : <<rs, cause>> \notin calls
  /\ rpc = "commit" => /\ sess = NoSession /\ ending[rs] = "none"
                       /\ sp = "up" => proxy[rs] = "open"
  /\ rpc = "answer" => ending[rs] = "none" /\ (sp = "up" => sess = rs)

\* A session whose end was won is no longer the active one.
Over == \A s \in Sessions : ending[s] # "none" => sess # s

\* While handleBye's endSession is pending, the viewer waits for no word.
ByePending ==
  \A s \in Sessions : <<s, "user">> \in calls =>
    rpc = "bye" /\ rs = s /\ mail[pair[s]] # "answer"

AgentInv == AgentTypeOK /\ Fresh /\ SetUp /\ Over /\ ByePending

----------------------------------------------------------------------------
\* Every variable keeps its type (src/agent.go).
LEMMA TypeStep == AgentTypeOK /\ [Next]_vars => AgentTypeOK'
<1> SUFFICES ASSUME AgentTypeOK, [Next]_vars PROVE AgentTypeOK'
  OBVIOUS
<1> USE AgentAssumption DEF AgentTypeOK, Tell, RouterTo, RouterIdle, session, ender,
        router, closing, Causes
<1>1. ASSUME NEW p \in Pairs, RecvStaleOffer(p) PROVE AgentTypeOK'
  BY <1>1 DEF RecvStaleOffer
<1>2. ASSUME NEW p \in Pairs, RefuseOffer(p) PROVE AgentTypeOK'
  BY <1>2 DEF RefuseOffer, Holds
<1>3. ASSUME NEW p \in Pairs, RecvDuplicate(p) PROVE AgentTypeOK'
  BY <1>3 DEF RecvDuplicate, Holds
<1>4. ASSUME NEW p \in Pairs, RecvBye(p) PROVE AgentTypeOK'
  BY <1>4 DEF RecvBye, Holds
<1>5. ASSUME NEW p \in Pairs, NEW s \in Sessions, AcceptOffer(p, s) PROVE AgentTypeOK'
  BY <1>5 DEF AcceptOffer, Free
<1>6. CASE ReplayAnswer
  BY <1>6 DEF ReplayAnswer
<1>7. CASE EncodeFails
  BY <1>7 DEF EncodeFails
<1>8. CASE Commit
  BY <1>8 DEF Commit
<1>9. CASE SendAnswer
  BY <1>9 DEF SendAnswer
<1>10. CASE ArmTimer
  BY <1>10 DEF ArmTimer, SetTimer
<1>11. CASE ByeHandled
  BY <1>11 DEF ByeHandled
<1>12. ASSUME NEW s \in Sessions, Connect(s) PROVE AgentTypeOK'
  BY <1>12 DEF Connect, Answered, Unanswered
<1>13. ASSUME NEW s \in Sessions, OnConnected(s) PROVE AgentTypeOK'
  BY <1>13 DEF OnConnected, StopTimer
<1>14. ASSUME NEW s \in Sessions, TimerFires(s) PROVE AgentTypeOK'
  BY <1>14 DEF TimerFires
<1>15. ASSUME NEW s \in Sessions, RaiseEnd(s) PROVE AgentTypeOK'
  BY <1>15 DEF RaiseEnd, Answered, Unanswered
<1>16. ASSUME NEW s \in Sessions, NEW cause \in Causes, EndLoses(s, cause) PROVE AgentTypeOK'
  BY <1>16 DEF EndLoses, StillActive
<1>17. ASSUME NEW s \in Sessions, NEW cause \in Causes, EndWins(s, cause) PROVE AgentTypeOK'
  BY <1>17 DEF EndWins, StillActive
<1>18. ASSUME NEW s \in Sessions, EndStopsTimer(s) PROVE AgentTypeOK'
  BY <1>18 DEF EndStopsTimer, StopTimer
<1>19. ASSUME NEW s \in Sessions, EndCloses(s) PROVE AgentTypeOK'
  BY <1>19 DEF EndCloses
<1>20. ASSUME NEW s \in Sessions, EndSays(s) PROVE AgentTypeOK'
  BY <1>20 DEF EndSays, SendBye
<1>21. CASE ShutdownReads
  BY <1>21 DEF ShutdownReads
<1>22. CASE ShutdownClears
  BY <1>22 DEF ShutdownClears
<1>23. CASE ShutdownCloses
  BY <1>23 DEF ShutdownCloses
<1>24. CASE ShutdownSays
  BY <1>24 DEF ShutdownSays
<1>25. CASE MqttClose
  BY <1>25 DEF MqttClose
<1>26. CASE UNCHANGED vars
  BY <1>26 DEF vars
<1>27. QED
  BY <1>1, <1>2, <1>3, <1>4, <1>5, <1>6, <1>7, <1>8, <1>9, <1>10, <1>11, <1>12, <1>13, <1>14, <1>15, <1>16, <1>17, <1>18, <1>19, <1>20, <1>21, <1>22, <1>23, <1>24, <1>25, <1>26
     DEF Next, Handle, RouterStep, Callback, EndCall, EndStep, Shutdown

\* A Session object is untouched until the router creates it.
LEMMA FreshStep == AgentTypeOK /\ Fresh /\ [Next]_vars => Fresh'
<1> SUFFICES ASSUME AgentTypeOK, Fresh, [Next]_vars PROVE Fresh'
  OBVIOUS
<1> USE AgentAssumption DEF AgentTypeOK, Fresh, Tell, RouterTo, RouterIdle, session,
        ender, router, closing, Causes
<1>1. ASSUME NEW p \in Pairs, RecvStaleOffer(p) PROVE Fresh'
  BY <1>1 DEF RecvStaleOffer
<1>2. ASSUME NEW p \in Pairs, RefuseOffer(p) PROVE Fresh'
  BY <1>2 DEF RefuseOffer, Holds
<1>3. ASSUME NEW p \in Pairs, RecvDuplicate(p) PROVE Fresh'
  BY <1>3 DEF RecvDuplicate, Holds
<1>4. ASSUME NEW p \in Pairs, RecvBye(p) PROVE Fresh'
  BY <1>4 DEF RecvBye, Holds
<1>5. ASSUME NEW p \in Pairs, NEW s \in Sessions, AcceptOffer(p, s) PROVE Fresh'
  BY <1>5 DEF AcceptOffer, Free
<1>6. CASE ReplayAnswer
  BY <1>6 DEF ReplayAnswer
<1>7. CASE EncodeFails
  BY <1>7 DEF EncodeFails
<1>8. CASE Commit
  BY <1>8 DEF Commit
<1>9. CASE SendAnswer
  BY <1>9 DEF SendAnswer
<1>10. CASE ArmTimer
  BY <1>10 DEF ArmTimer, SetTimer
<1>11. CASE ByeHandled
  BY <1>11 DEF ByeHandled
<1>12. ASSUME NEW s \in Sessions, Connect(s) PROVE Fresh'
  BY <1>12 DEF Connect, Answered, Unanswered
<1>13. ASSUME NEW s \in Sessions, OnConnected(s) PROVE Fresh'
  BY <1>13 DEF OnConnected, StopTimer
<1>14. ASSUME NEW s \in Sessions, TimerFires(s) PROVE Fresh'
  BY <1>14 DEF TimerFires
<1>15. ASSUME NEW s \in Sessions, RaiseEnd(s) PROVE Fresh'
  BY <1>15 DEF RaiseEnd, Answered, Unanswered
<1>16. ASSUME NEW s \in Sessions, NEW cause \in Causes, EndLoses(s, cause) PROVE Fresh'
  BY <1>16 DEF EndLoses, StillActive
<1>17. ASSUME NEW s \in Sessions, NEW cause \in Causes, EndWins(s, cause) PROVE Fresh'
  BY <1>17 DEF EndWins, StillActive
<1>18. ASSUME NEW s \in Sessions, EndStopsTimer(s) PROVE Fresh'
  BY <1>18 DEF EndStopsTimer, StopTimer
<1>19. ASSUME NEW s \in Sessions, EndCloses(s) PROVE Fresh'
  BY <1>19 DEF EndCloses
<1>20. ASSUME NEW s \in Sessions, EndSays(s) PROVE Fresh'
  BY <1>20 DEF EndSays, SendBye
<1>21. CASE ShutdownReads
  BY <1>21 DEF ShutdownReads
<1>22. CASE ShutdownClears
  BY <1>22 DEF ShutdownClears
<1>23. CASE ShutdownCloses
  BY <1>23 DEF ShutdownCloses
<1>24. CASE ShutdownSays
  BY <1>24 DEF ShutdownSays
<1>25. CASE MqttClose
  BY <1>25 DEF MqttClose
<1>26. CASE UNCHANGED vars
  BY <1>26 DEF vars
<1>27. QED
  BY <1>1, <1>2, <1>3, <1>4, <1>5, <1>6, <1>7, <1>8, <1>9, <1>10, <1>11, <1>12, <1>13, <1>14, <1>15, <1>16, <1>17, <1>18, <1>19, <1>20, <1>21, <1>22, <1>23, <1>24, <1>25, <1>26
     DEF Next, Handle, RouterStep, Callback, EndCall, EndStep, Shutdown

\* Nothing ends or replaces the session being set up before its answer is out.
LEMMA SetUpStep == AgentTypeOK /\ Fresh /\ SetUp /\ Over /\ [Next]_vars => SetUp'
<1> SUFFICES ASSUME AgentTypeOK, Fresh, SetUp, Over, [Next]_vars PROVE SetUp'
  OBVIOUS
<1> USE AgentAssumption DEF AgentTypeOK, SetUp, Tell, RouterTo, RouterIdle, session,
        ender, router, closing, Causes
<1>1. ASSUME NEW p \in Pairs, RecvStaleOffer(p) PROVE SetUp'
  BY <1>1 DEF RecvStaleOffer
<1>2. ASSUME NEW p \in Pairs, RefuseOffer(p) PROVE SetUp'
  BY <1>2 DEF RefuseOffer, Holds
<1>3. ASSUME NEW p \in Pairs, RecvDuplicate(p) PROVE SetUp'
  BY <1>3 DEF RecvDuplicate, Holds
<1>4. ASSUME NEW p \in Pairs, RecvBye(p) PROVE SetUp'
  BY <1>4 DEF RecvBye, Holds
<1>5. ASSUME NEW p \in Pairs, NEW s \in Sessions, AcceptOffer(p, s) PROVE SetUp'
  <2>1. s \in Sessions /\ rpc' = "commit" /\ rs' = s /\ sess' = NoSession
    BY <1>5 DEF AcceptOffer, Free
  <2>2. ending[s] = "none" /\ timer[s] = "unset" /\ \A cause \in Causes : <<s, cause>> \notin calls
    BY <1>5 DEF AcceptOffer, Fresh
  <2>3. proxy'[s] = "open" /\ UNCHANGED <<ending, timer, calls>>
    BY <1>5 DEF AcceptOffer
  <2>4. QED
    BY <2>1, <2>2, <2>3
<1>6. CASE ReplayAnswer
  BY <1>6 DEF ReplayAnswer
<1>7. CASE EncodeFails
  BY <1>7 DEF EncodeFails
<1>8. CASE Commit
  BY <1>8 DEF Commit
<1>9. CASE SendAnswer
  BY <1>9 DEF SendAnswer
<1>10. CASE ArmTimer
  BY <1>10 DEF ArmTimer, SetTimer
<1>11. CASE ByeHandled
  BY <1>11 DEF ByeHandled
<1>12. ASSUME NEW s \in Sessions, Connect(s) PROVE SetUp'
  BY <1>12 DEF Connect, Answered, Unanswered
<1>13. ASSUME NEW s \in Sessions, OnConnected(s) PROVE SetUp'
  BY <1>13 DEF OnConnected, StopTimer
<1>14. ASSUME NEW s \in Sessions, TimerFires(s) PROVE SetUp'
  BY <1>14 DEF TimerFires
<1>15. ASSUME NEW s \in Sessions, RaiseEnd(s) PROVE SetUp'
  BY <1>15 DEF RaiseEnd, Answered, Unanswered
<1>16. ASSUME NEW s \in Sessions, NEW cause \in Causes, EndLoses(s, cause) PROVE SetUp'
  BY <1>16 DEF EndLoses, StillActive
<1>17. ASSUME NEW s \in Sessions, NEW cause \in Causes, EndWins(s, cause) PROVE SetUp'
  BY <1>17 DEF EndWins, StillActive
<1>18. ASSUME NEW s \in Sessions, EndStopsTimer(s) PROVE SetUp'
  BY <1>18 DEF EndStopsTimer, StopTimer
<1>19. ASSUME NEW s \in Sessions, EndCloses(s) PROVE SetUp'
  BY <1>19 DEF EndCloses
<1>20. ASSUME NEW s \in Sessions, EndSays(s) PROVE SetUp'
  BY <1>20 DEF EndSays, SendBye
<1>21. CASE ShutdownReads
  BY <1>21 DEF ShutdownReads
<1>22. CASE ShutdownClears
  BY <1>22 DEF ShutdownClears
<1>23. CASE ShutdownCloses
  BY <1>23 DEF ShutdownCloses
<1>24. CASE ShutdownSays
  BY <1>24 DEF ShutdownSays
<1>25. CASE MqttClose
  BY <1>25 DEF MqttClose
<1>26. CASE UNCHANGED vars
  BY <1>26 DEF vars
<1>27. QED
  BY <1>1, <1>2, <1>3, <1>4, <1>5, <1>6, <1>7, <1>8, <1>9, <1>10, <1>11, <1>12, <1>13, <1>14, <1>15, <1>16, <1>17, <1>18, <1>19, <1>20, <1>21, <1>22, <1>23, <1>24, <1>25, <1>26
     DEF Next, Handle, RouterStep, Callback, EndCall, EndStep, Shutdown

\* A session once won by an endSession is never active again.
LEMMA OverStep == AgentTypeOK /\ SetUp /\ Over /\ [Next]_vars => Over'
<1> SUFFICES ASSUME AgentTypeOK, SetUp, Over, [Next]_vars PROVE Over'
  OBVIOUS
<1> USE AgentAssumption DEF AgentTypeOK, Over, Tell, RouterTo, RouterIdle, session,
        ender, router, closing, Causes
<1>1. ASSUME NEW p \in Pairs, RecvStaleOffer(p) PROVE Over'
  BY <1>1 DEF RecvStaleOffer
<1>2. ASSUME NEW p \in Pairs, RefuseOffer(p) PROVE Over'
  BY <1>2 DEF RefuseOffer, Holds
<1>3. ASSUME NEW p \in Pairs, RecvDuplicate(p) PROVE Over'
  BY <1>3 DEF RecvDuplicate, Holds
<1>4. ASSUME NEW p \in Pairs, RecvBye(p) PROVE Over'
  BY <1>4 DEF RecvBye, Holds
<1>5. ASSUME NEW p \in Pairs, NEW s \in Sessions, AcceptOffer(p, s) PROVE Over'
  BY <1>5 DEF AcceptOffer, Free
<1>6. CASE ReplayAnswer
  BY <1>6 DEF ReplayAnswer
<1>7. CASE EncodeFails
  BY <1>7 DEF EncodeFails
<1>8. CASE Commit
  BY <1>8 DEF Commit, SetUp
<1>9. CASE SendAnswer
  BY <1>9 DEF SendAnswer
<1>10. CASE ArmTimer
  BY <1>10 DEF ArmTimer, SetTimer
<1>11. CASE ByeHandled
  BY <1>11 DEF ByeHandled
<1>12. ASSUME NEW s \in Sessions, Connect(s) PROVE Over'
  BY <1>12 DEF Connect, Answered, Unanswered
<1>13. ASSUME NEW s \in Sessions, OnConnected(s) PROVE Over'
  BY <1>13 DEF OnConnected, StopTimer
<1>14. ASSUME NEW s \in Sessions, TimerFires(s) PROVE Over'
  BY <1>14 DEF TimerFires
<1>15. ASSUME NEW s \in Sessions, RaiseEnd(s) PROVE Over'
  BY <1>15 DEF RaiseEnd, Answered, Unanswered
<1>16. ASSUME NEW s \in Sessions, NEW cause \in Causes, EndLoses(s, cause) PROVE Over'
  BY <1>16 DEF EndLoses, StillActive
<1>17. ASSUME NEW s \in Sessions, NEW cause \in Causes, EndWins(s, cause) PROVE Over'
  BY <1>17 DEF EndWins, StillActive
<1>18. ASSUME NEW s \in Sessions, EndStopsTimer(s) PROVE Over'
  BY <1>18 DEF EndStopsTimer, StopTimer
<1>19. ASSUME NEW s \in Sessions, EndCloses(s) PROVE Over'
  BY <1>19 DEF EndCloses
<1>20. ASSUME NEW s \in Sessions, EndSays(s) PROVE Over'
  BY <1>20 DEF EndSays, SendBye
<1>21. CASE ShutdownReads
  BY <1>21 DEF ShutdownReads
<1>22. CASE ShutdownClears
  BY <1>22 DEF ShutdownClears
<1>23. CASE ShutdownCloses
  BY <1>23 DEF ShutdownCloses
<1>24. CASE ShutdownSays
  BY <1>24 DEF ShutdownSays
<1>25. CASE MqttClose
  BY <1>25 DEF MqttClose
<1>26. CASE UNCHANGED vars
  BY <1>26 DEF vars
<1>27. QED
  BY <1>1, <1>2, <1>3, <1>4, <1>5, <1>6, <1>7, <1>8, <1>9, <1>10, <1>11, <1>12, <1>13, <1>14, <1>15, <1>16, <1>17, <1>18, <1>19, <1>20, <1>21, <1>22, <1>23, <1>24, <1>25, <1>26
     DEF Next, Handle, RouterStep, Callback, EndCall, EndStep, Shutdown

\* The router waits for the endSession of the bye it handles.
LEMMA ByeStep == AgentTypeOK /\ Fresh /\ SetUp /\ ByePending /\ [Next]_vars => ByePending'
<1> SUFFICES ASSUME AgentTypeOK, Fresh, SetUp, ByePending, [Next]_vars PROVE ByePending'
  OBVIOUS
<1> USE AgentAssumption DEF AgentTypeOK, ByePending, Tell, RouterTo, RouterIdle, session,
        ender, router, closing, Causes
<1>1. ASSUME NEW p \in Pairs, RecvStaleOffer(p) PROVE ByePending'
  BY <1>1 DEF RecvStaleOffer
<1>2. ASSUME NEW p \in Pairs, RefuseOffer(p) PROVE ByePending'
  BY <1>2 DEF RefuseOffer, Holds
<1>3. ASSUME NEW p \in Pairs, RecvDuplicate(p) PROVE ByePending'
  BY <1>3 DEF RecvDuplicate, Holds
<1>4. ASSUME NEW p \in Pairs, RecvBye(p) PROVE ByePending'
  BY <1>4 DEF RecvBye, Holds
<1>5. ASSUME NEW p \in Pairs, NEW s \in Sessions, AcceptOffer(p, s) PROVE ByePending'
  BY <1>5 DEF AcceptOffer, Free
<1>6. CASE ReplayAnswer
  BY <1>6 DEF ReplayAnswer
<1>7. CASE EncodeFails
  BY <1>7 DEF EncodeFails
<1>8. CASE Commit
  BY <1>8 DEF Commit
<1>9. CASE SendAnswer
  BY <1>9 DEF SendAnswer
<1>10. CASE ArmTimer
  BY <1>10 DEF ArmTimer, SetTimer
<1>11. CASE ByeHandled
  BY <1>11 DEF ByeHandled
<1>12. ASSUME NEW s \in Sessions, Connect(s) PROVE ByePending'
  BY <1>12 DEF Connect, Answered, Unanswered
<1>13. ASSUME NEW s \in Sessions, OnConnected(s) PROVE ByePending'
  BY <1>13 DEF OnConnected, StopTimer
<1>14. ASSUME NEW s \in Sessions, TimerFires(s) PROVE ByePending'
  BY <1>14 DEF TimerFires
<1>15. ASSUME NEW s \in Sessions, RaiseEnd(s) PROVE ByePending'
  BY <1>15 DEF RaiseEnd, Answered, Unanswered
<1>16. ASSUME NEW s \in Sessions, NEW cause \in Causes, EndLoses(s, cause) PROVE ByePending'
  BY <1>16 DEF EndLoses, StillActive
<1>17. ASSUME NEW s \in Sessions, NEW cause \in Causes, EndWins(s, cause) PROVE ByePending'
  BY <1>17 DEF EndWins, StillActive
<1>18. ASSUME NEW s \in Sessions, EndStopsTimer(s) PROVE ByePending'
  BY <1>18 DEF EndStopsTimer, StopTimer
<1>19. ASSUME NEW s \in Sessions, EndCloses(s) PROVE ByePending'
  BY <1>19 DEF EndCloses
<1>20. ASSUME NEW s \in Sessions, EndSays(s) PROVE ByePending'
  <2>1. \A q \in Pairs : mail'[q] = mail[q] \/ mail'[q] = "end"
    BY <1>20 DEF EndSays
  <2>2. UNCHANGED <<calls, pair, rpc, rs>> /\ DOMAIN mail' = DOMAIN mail
    BY <1>20 DEF EndSays
  <2>3. ASSUME NEW x \in Sessions, <<x, "user">> \in calls PROVE pair[x] \in Pairs
    <3>1. "user" \in Causes /\ pair[x] \in Pairs \cup {NoPair}
      OBVIOUS
    <3>2. pair[x] # NoPair
      BY <2>3, <3>1 DEF Fresh
    <3>3. QED
      BY <3>1, <3>2
  <2>4. QED
    BY <2>1, <2>2, <2>3
<1>21. CASE ShutdownReads
  BY <1>21 DEF ShutdownReads
<1>22. CASE ShutdownClears
  BY <1>22 DEF ShutdownClears
<1>23. CASE ShutdownCloses
  BY <1>23 DEF ShutdownCloses
<1>24. CASE ShutdownSays
  BY <1>24 DEF ShutdownSays
<1>25. CASE MqttClose
  BY <1>25 DEF MqttClose
<1>26. CASE UNCHANGED vars
  BY <1>26 DEF vars
<1>27. QED
  BY <1>1, <1>2, <1>3, <1>4, <1>5, <1>6, <1>7, <1>8, <1>9, <1>10, <1>11, <1>12, <1>13, <1>14, <1>15, <1>16, <1>17, <1>18, <1>19, <1>20, <1>21, <1>22, <1>23, <1>24, <1>25, <1>26
     DEF Next, Handle, RouterStep, Callback, EndCall, EndStep, Shutdown

\* An open proxy keeps an owner (handleOffer, endSession).
LEMMA NoOrphanStep == AgentTypeOK /\ Fresh /\ SetUp /\ Over /\ NoOrphan /\ [Next]_vars => NoOrphan'
<1> SUFFICES ASSUME AgentTypeOK, Fresh, SetUp, Over, NoOrphan, [Next]_vars PROVE NoOrphan'
  OBVIOUS
<1> USE AgentAssumption DEF AgentTypeOK, Tell, RouterTo, RouterIdle, session, ender,
        router, closing, Causes, ShuttingDown, NoOrphan, Over
<1>1. ASSUME NEW p \in Pairs, RecvStaleOffer(p) PROVE NoOrphan'
  BY <1>1 DEF RecvStaleOffer
<1>2. ASSUME NEW p \in Pairs, RefuseOffer(p) PROVE NoOrphan'
  BY <1>2 DEF RefuseOffer, Holds
<1>3. ASSUME NEW p \in Pairs, RecvDuplicate(p) PROVE NoOrphan'
  BY <1>3 DEF RecvDuplicate, Holds
<1>4. ASSUME NEW p \in Pairs, RecvBye(p) PROVE NoOrphan'
  BY <1>4 DEF RecvBye, Holds
<1>5. ASSUME NEW p \in Pairs, NEW s \in Sessions, AcceptOffer(p, s) PROVE NoOrphan'
  BY <1>5 DEF AcceptOffer, Free
<1>6. CASE ReplayAnswer
  BY <1>6 DEF ReplayAnswer
<1>7. CASE EncodeFails
  BY <1>7 DEF EncodeFails, SetUp
<1>8. CASE Commit
  BY <1>8 DEF Commit, SetUp
<1>9. CASE SendAnswer
  BY <1>9 DEF SendAnswer
<1>10. CASE ArmTimer
  BY <1>10 DEF ArmTimer, SetTimer
<1>11. CASE ByeHandled
  BY <1>11 DEF ByeHandled
<1>12. ASSUME NEW s \in Sessions, Connect(s) PROVE NoOrphan'
  BY <1>12 DEF Connect, Answered, Unanswered
<1>13. ASSUME NEW s \in Sessions, OnConnected(s) PROVE NoOrphan'
  BY <1>13 DEF OnConnected, StopTimer
<1>14. ASSUME NEW s \in Sessions, TimerFires(s) PROVE NoOrphan'
  BY <1>14 DEF TimerFires
<1>15. ASSUME NEW s \in Sessions, RaiseEnd(s) PROVE NoOrphan'
  BY <1>15 DEF RaiseEnd, Answered, Unanswered
<1>16. ASSUME NEW s \in Sessions, NEW cause \in Causes, EndLoses(s, cause) PROVE NoOrphan'
  BY <1>16 DEF EndLoses, StillActive
<1>17. ASSUME NEW s \in Sessions, NEW cause \in Causes, EndWins(s, cause) PROVE NoOrphan'
  BY <1>17 DEF EndWins, StillActive
<1>18. ASSUME NEW s \in Sessions, EndStopsTimer(s) PROVE NoOrphan'
  BY <1>18 DEF EndStopsTimer, StopTimer
<1>19. ASSUME NEW s \in Sessions, EndCloses(s) PROVE NoOrphan'
  BY <1>19 DEF EndCloses
<1>20. ASSUME NEW s \in Sessions, EndSays(s) PROVE NoOrphan'
  BY <1>20 DEF EndSays, SendBye
<1>21. CASE ShutdownReads
  BY <1>21 DEF ShutdownReads
<1>22. CASE ShutdownClears
  BY <1>22 DEF ShutdownClears
<1>23. CASE ShutdownCloses
  BY <1>23 DEF ShutdownCloses
<1>24. CASE ShutdownSays
  BY <1>24 DEF ShutdownSays
<1>25. CASE MqttClose
  BY <1>25 DEF MqttClose
<1>26. CASE UNCHANGED vars
  BY <1>26 DEF vars
<1>27. QED
  BY <1>1, <1>2, <1>3, <1>4, <1>5, <1>6, <1>7, <1>8, <1>9, <1>10, <1>11, <1>12, <1>13, <1>14, <1>15, <1>16, <1>17, <1>18, <1>19, <1>20, <1>21, <1>22, <1>23, <1>24, <1>25, <1>26
     DEF Next, Handle, RouterStep, Callback, EndCall, EndStep, Shutdown

\* The watch on an unconnected session passes from the timer to its timeout or
\* to onConnected.
LEMMA GuardedStep == AgentTypeOK /\ Fresh /\ SetUp /\ Over /\ Guarded /\ [Next]_vars => Guarded'
<1> SUFFICES ASSUME AgentTypeOK, Fresh, SetUp, Over, Guarded, [Next]_vars PROVE Guarded'
  OBVIOUS
<1> USE AgentAssumption DEF AgentTypeOK, Tell, RouterTo, RouterIdle, session, ender,
        router, closing, Causes, ShuttingDown, Guarded, SettingUp, Over
<1>1. ASSUME NEW p \in Pairs, RecvStaleOffer(p) PROVE Guarded'
  BY <1>1 DEF RecvStaleOffer
<1>2. ASSUME NEW p \in Pairs, RefuseOffer(p) PROVE Guarded'
  BY <1>2 DEF RefuseOffer, Holds
<1>3. ASSUME NEW p \in Pairs, RecvDuplicate(p) PROVE Guarded'
  BY <1>3 DEF RecvDuplicate, Holds
<1>4. ASSUME NEW p \in Pairs, RecvBye(p) PROVE Guarded'
  BY <1>4 DEF RecvBye, Holds
<1>5. ASSUME NEW p \in Pairs, NEW s \in Sessions, AcceptOffer(p, s) PROVE Guarded'
  BY <1>5 DEF AcceptOffer, Free
<1>6. CASE ReplayAnswer
  BY <1>6 DEF ReplayAnswer
<1>7. CASE EncodeFails
  BY <1>7 DEF EncodeFails, SetUp
<1>8. CASE Commit
  BY <1>8 DEF Commit
<1>9. CASE SendAnswer
  BY <1>9 DEF SendAnswer
<1>10. CASE ArmTimer
  BY <1>10 DEF ArmTimer, SetTimer
<1>11. CASE ByeHandled
  BY <1>11 DEF ByeHandled
<1>12. ASSUME NEW s \in Sessions, Connect(s) PROVE Guarded'
  BY <1>12 DEF Connect, Answered, Unanswered
<1>13. ASSUME NEW s \in Sessions, OnConnected(s) PROVE Guarded'
  BY <1>13 DEF OnConnected, StopTimer
<1>14. ASSUME NEW s \in Sessions, TimerFires(s) PROVE Guarded'
  BY <1>14 DEF TimerFires
<1>15. ASSUME NEW s \in Sessions, RaiseEnd(s) PROVE Guarded'
  BY <1>15 DEF RaiseEnd, Answered, Unanswered
<1>16. ASSUME NEW s \in Sessions, NEW cause \in Causes, EndLoses(s, cause) PROVE Guarded'
  BY <1>16 DEF EndLoses, StillActive
<1>17. ASSUME NEW s \in Sessions, NEW cause \in Causes, EndWins(s, cause) PROVE Guarded'
  BY <1>17 DEF EndWins, StillActive
<1>18. ASSUME NEW s \in Sessions, EndStopsTimer(s) PROVE Guarded'
  BY <1>18 DEF EndStopsTimer, StopTimer
<1>19. ASSUME NEW s \in Sessions, EndCloses(s) PROVE Guarded'
  BY <1>19 DEF EndCloses
<1>20. ASSUME NEW s \in Sessions, EndSays(s) PROVE Guarded'
  BY <1>20 DEF EndSays, SendBye
<1>21. CASE ShutdownReads
  BY <1>21 DEF ShutdownReads
<1>22. CASE ShutdownClears
  BY <1>22 DEF ShutdownClears
<1>23. CASE ShutdownCloses
  BY <1>23 DEF ShutdownCloses
<1>24. CASE ShutdownSays
  BY <1>24 DEF ShutdownSays
<1>25. CASE MqttClose
  BY <1>25 DEF MqttClose
<1>26. CASE UNCHANGED vars
  BY <1>26 DEF vars
<1>27. QED
  BY <1>1, <1>2, <1>3, <1>4, <1>5, <1>6, <1>7, <1>8, <1>9, <1>10, <1>11, <1>12, <1>13, <1>14, <1>15, <1>16, <1>17, <1>18, <1>19, <1>20, <1>21, <1>22, <1>23, <1>24, <1>25, <1>26
     DEF Next, Handle, RouterStep, Callback, EndCall, EndStep, Shutdown

\* An answered viewer keeps its session, or the promise of a bye.
LEMMA ServedStep == AgentTypeOK /\ Fresh /\ SetUp /\ Over /\ ByePending /\ AnsweredIsServed /\ [Next]_vars => AnsweredIsServed'
<1> SUFFICES ASSUME AgentTypeOK, Fresh, SetUp, Over, ByePending, AnsweredIsServed, [Next]_vars PROVE AnsweredIsServed'
  OBVIOUS
<1> USE AgentAssumption DEF AgentTypeOK, Tell, RouterTo, RouterIdle, session, ender,
        router, closing, Causes, ShuttingDown, AnsweredIsServed, ByeOnItsWay
<1>1. ASSUME NEW p \in Pairs, RecvStaleOffer(p) PROVE AnsweredIsServed'
  BY <1>1 DEF RecvStaleOffer
<1>2. ASSUME NEW p \in Pairs, RefuseOffer(p) PROVE AnsweredIsServed'
  BY <1>2 DEF RefuseOffer, Holds
<1>3. ASSUME NEW p \in Pairs, RecvDuplicate(p) PROVE AnsweredIsServed'
  BY <1>3 DEF RecvDuplicate, Holds
<1>4. ASSUME NEW p \in Pairs, RecvBye(p) PROVE AnsweredIsServed'
  BY <1>4 DEF RecvBye, Holds
<1>5. ASSUME NEW p \in Pairs, NEW s \in Sessions, AcceptOffer(p, s) PROVE AnsweredIsServed'
  BY <1>5 DEF AcceptOffer, Free
<1>6. CASE ReplayAnswer
  BY <1>6 DEF ReplayAnswer
<1>7. CASE EncodeFails
  BY <1>7 DEF EncodeFails
<1>8. CASE Commit
  <2>1. \A s \in Sessions : sess # s
    BY <1>8 DEF Commit, SetUp
  <2>2. UNCHANGED <<mail, pair, ending, why, sp>>
    BY <1>8 DEF Commit
  <2>3. QED
    BY <2>1, <2>2
<1>9. CASE SendAnswer
  <2>1. rs \in Sessions /\ (sp = "up" => sess = rs)
    BY <1>9 DEF SendAnswer, SetUp
  <2>2. UNCHANGED <<sess, pair, ending, why, sp>>
    BY <1>9 DEF SendAnswer
  <2>3. \A q \in Pairs : q # pair[rs] => mail'[q] = mail[q]
    BY <1>9 DEF SendAnswer
  <2>4. QED
    BY <2>1, <2>2, <2>3
<1>10. CASE ArmTimer
  BY <1>10 DEF ArmTimer, SetTimer
<1>11. CASE ByeHandled
  BY <1>11 DEF ByeHandled
<1>12. ASSUME NEW s \in Sessions, Connect(s) PROVE AnsweredIsServed'
  BY <1>12 DEF Connect, Answered, Unanswered
<1>13. ASSUME NEW s \in Sessions, OnConnected(s) PROVE AnsweredIsServed'
  BY <1>13 DEF OnConnected, StopTimer
<1>14. ASSUME NEW s \in Sessions, TimerFires(s) PROVE AnsweredIsServed'
  BY <1>14 DEF TimerFires
<1>15. ASSUME NEW s \in Sessions, RaiseEnd(s) PROVE AnsweredIsServed'
  BY <1>15 DEF RaiseEnd, Answered, Unanswered
<1>16. ASSUME NEW s \in Sessions, NEW cause \in Causes, EndLoses(s, cause) PROVE AnsweredIsServed'
  BY <1>16 DEF EndLoses, StillActive
<1>17. ASSUME NEW s \in Sessions, NEW cause \in Causes, EndWins(s, cause) PROVE AnsweredIsServed'
  <2>1. sess = s /\ ending' = [ending EXCEPT ![s] = "timer"] /\ why' = [why EXCEPT ![s] = cause]
    BY <1>17 DEF EndWins, StillActive
  <2>2. UNCHANGED <<mail, pair, sp>>
    BY <1>17 DEF EndWins
  <2>3. CASE cause = "user"
    <3>1. mail[pair[s]] # "answer"
      BY <1>17, <2>3 DEF EndWins, ByePending
    <3>2. ASSUME NEW q \in Pairs, mail[q] = "answer", sp = "up",
                 NEW t \in Sessions, pair[t] = q, sess = t \/ ByeOnItsWay(t)
          PROVE  t # s /\ ByeOnItsWay(t)'
      <4>1. t # s
        BY <3>1, <3>2
      <4>2. QED
        BY <4>1, <2>1, <3>2
    <3>3. QED
      BY <2>2, <3>2
  <2>4. CASE cause # "user"
    <3>1. ASSUME NEW t \in Sessions, sess = t \/ ByeOnItsWay(t)
          PROVE  ByeOnItsWay(t)'
      BY <2>1, <2>4, <3>1
    <3>2. QED
      BY <2>2, <3>1
  <2>5. QED
    BY <2>3, <2>4
<1>18. ASSUME NEW s \in Sessions, EndStopsTimer(s) PROVE AnsweredIsServed'
  BY <1>18 DEF EndStopsTimer, StopTimer
<1>19. ASSUME NEW s \in Sessions, EndCloses(s) PROVE AnsweredIsServed'
  BY <1>19 DEF EndCloses
<1>20. ASSUME NEW s \in Sessions, EndSays(s) PROVE AnsweredIsServed'
  BY <1>20 DEF EndSays, SendBye
<1>21. CASE ShutdownReads
  BY <1>21 DEF ShutdownReads
<1>22. CASE ShutdownClears
  BY <1>22 DEF ShutdownClears
<1>23. CASE ShutdownCloses
  BY <1>23 DEF ShutdownCloses
<1>24. CASE ShutdownSays
  BY <1>24 DEF ShutdownSays
<1>25. CASE MqttClose
  BY <1>25 DEF MqttClose
<1>26. CASE UNCHANGED vars
  BY <1>26 DEF vars
<1>27. QED
  BY <1>1, <1>2, <1>3, <1>4, <1>5, <1>6, <1>7, <1>8, <1>9, <1>10, <1>11, <1>12, <1>13, <1>14, <1>15, <1>16, <1>17, <1>18, <1>19, <1>20, <1>21, <1>22, <1>23, <1>24, <1>25, <1>26
     DEF Next, Handle, RouterStep, Callback, EndCall, EndStep, Shutdown

\* Nobody dismisses the viewer of the active session.
LEMMA NotDismissedStep == AgentTypeOK /\ Fresh /\ SetUp /\ Over /\ ActiveNotDismissed /\ [Next]_vars => ActiveNotDismissed'
<1> SUFFICES ASSUME AgentTypeOK, Fresh, SetUp, Over, ActiveNotDismissed, [Next]_vars PROVE ActiveNotDismissed'
  OBVIOUS
<1> USE AgentAssumption DEF AgentTypeOK, Tell, RouterTo, RouterIdle, session, ender,
        router, closing, Causes, ShuttingDown, ActiveNotDismissed, SoleSessionOf, Unanswered, Over
<1>1. ASSUME NEW p \in Pairs, RecvStaleOffer(p) PROVE ActiveNotDismissed'
  BY <1>1 DEF RecvStaleOffer
<1>2. ASSUME NEW p \in Pairs, RefuseOffer(p) PROVE ActiveNotDismissed'
  BY <1>2 DEF RefuseOffer, Holds
<1>3. ASSUME NEW p \in Pairs, RecvDuplicate(p) PROVE ActiveNotDismissed'
  BY <1>3 DEF RecvDuplicate, Holds
<1>4. ASSUME NEW p \in Pairs, RecvBye(p) PROVE ActiveNotDismissed'
  BY <1>4 DEF RecvBye, Holds
<1>5. ASSUME NEW p \in Pairs, NEW s \in Sessions, AcceptOffer(p, s) PROVE ActiveNotDismissed'
  BY <1>5 DEF AcceptOffer, Free
<1>6. CASE ReplayAnswer
  BY <1>6 DEF ReplayAnswer
<1>7. CASE EncodeFails
  BY <1>7 DEF EncodeFails, SetUp
<1>8. CASE Commit
  BY <1>8 DEF Commit
<1>9. CASE SendAnswer
  <2>1. rs \in Sessions /\ pair[rs] # NoPair
    BY <1>9 DEF SendAnswer, Fresh
  <2>2. mail' = [mail EXCEPT ![pair[rs]] = "answer"] /\ UNCHANGED <<sess, pair, sp>>
    BY <1>9 DEF SendAnswer
  <2>3. sp = "up" => sess = rs
    BY <1>9 DEF SendAnswer, SetUp
  <2>4. mail'[pair[rs]] = "answer"
    BY <2>1, <2>2
  <2>5. QED
    BY <2>2, <2>3, <2>4
<1>10. CASE ArmTimer
  BY <1>10 DEF ArmTimer, SetTimer
<1>11. CASE ByeHandled
  BY <1>11 DEF ByeHandled
<1>12. ASSUME NEW s \in Sessions, Connect(s) PROVE ActiveNotDismissed'
  BY <1>12 DEF Connect, Answered, Unanswered
<1>13. ASSUME NEW s \in Sessions, OnConnected(s) PROVE ActiveNotDismissed'
  BY <1>13 DEF OnConnected, StopTimer
<1>14. ASSUME NEW s \in Sessions, TimerFires(s) PROVE ActiveNotDismissed'
  BY <1>14 DEF TimerFires
<1>15. ASSUME NEW s \in Sessions, RaiseEnd(s) PROVE ActiveNotDismissed'
  BY <1>15 DEF RaiseEnd, Answered, Unanswered
<1>16. ASSUME NEW s \in Sessions, NEW cause \in Causes, EndLoses(s, cause) PROVE ActiveNotDismissed'
  BY <1>16 DEF EndLoses, StillActive
<1>17. ASSUME NEW s \in Sessions, NEW cause \in Causes, EndWins(s, cause) PROVE ActiveNotDismissed'
  BY <1>17 DEF EndWins, StillActive
<1>18. ASSUME NEW s \in Sessions, EndStopsTimer(s) PROVE ActiveNotDismissed'
  BY <1>18 DEF EndStopsTimer, StopTimer
<1>19. ASSUME NEW s \in Sessions, EndCloses(s) PROVE ActiveNotDismissed'
  BY <1>19 DEF EndCloses
<1>20. ASSUME NEW s \in Sessions, EndSays(s) PROVE ActiveNotDismissed'
  <2>1. sess # s
    BY <1>20 DEF EndSays
  <2>2. UNCHANGED <<sess, pair, rpc, rs, sp>>
    BY <1>20 DEF EndSays
  <2>3. \A q \in Pairs : q # pair[s] => mail'[q] = mail[q]
    BY <1>20 DEF EndSays
  <2>4. ASSUME sess \in Sessions PROVE pair[sess] \in Pairs
    <3>1. pair[sess] \in Pairs \cup {NoPair}
      BY <2>4
    <3>2. pair[sess] # NoPair
      BY <2>4 DEF Fresh
    <3>3. QED
      BY <3>1, <3>2
  <2>5. QED
    BY <2>1, <2>2, <2>3, <2>4
<1>21. CASE ShutdownReads
  BY <1>21 DEF ShutdownReads
<1>22. CASE ShutdownClears
  BY <1>22 DEF ShutdownClears
<1>23. CASE ShutdownCloses
  BY <1>23 DEF ShutdownCloses
<1>24. CASE ShutdownSays
  BY <1>24 DEF ShutdownSays
<1>25. CASE MqttClose
  BY <1>25 DEF MqttClose
<1>26. CASE UNCHANGED vars
  BY <1>26 DEF vars
<1>27. QED
  BY <1>1, <1>2, <1>3, <1>4, <1>5, <1>6, <1>7, <1>8, <1>9, <1>10, <1>11, <1>12, <1>13, <1>14, <1>15, <1>16, <1>17, <1>18, <1>19, <1>20, <1>21, <1>22, <1>23, <1>24, <1>25, <1>26
     DEF Next, Handle, RouterStep, Callback, EndCall, EndStep, Shutdown

----------------------------------------------------------------------------
\* The invariant, and the properties it was made for.
AgentSafety == NoOrphan /\ Guarded /\ AnsweredIsServed /\ ActiveNotDismissed

LEMMA AgentInvInit == Init => AgentInv /\ AgentSafety
<1> SUFFICES ASSUME Init PROVE AgentInv /\ AgentSafety
  OBVIOUS
<1>1. AgentTypeOK /\ Fresh /\ SetUp /\ Over /\ ByePending
  BY AgentAssumption DEF Init, AgentTypeOK, Fresh, SetUp, Over, ByePending, Causes
<1>2. NoOrphan /\ Guarded /\ AnsweredIsServed /\ ActiveNotDismissed
  BY AgentAssumption DEF Init, NoOrphan, Guarded, AnsweredIsServed, ActiveNotDismissed
<1>3. QED
  BY <1>1, <1>2 DEF AgentInv, AgentSafety

LEMMA AgentInvStep == AgentInv /\ AgentSafety /\ [Next]_vars => AgentInv' /\ AgentSafety'
<1>1. AgentInv /\ [Next]_vars => AgentInv'
  BY TypeStep, FreshStep, SetUpStep, OverStep, ByeStep DEF AgentInv
<1>2. AgentInv /\ AgentSafety /\ [Next]_vars => AgentSafety'
  BY NoOrphanStep, GuardedStep, ServedStep, NotDismissedStep DEF AgentInv, AgentSafety
<1>3. QED
  BY <1>1, <1>2

THEOREM AgentInvariant == Spec => [](AgentInv /\ AgentSafety)
BY AgentInvInit, AgentInvStep, PTL DEF Spec

\* Every variable of the agent keeps its type (src/agent.go).
THEOREM AgentTypeCorrect == Spec => []AgentTypeOK
<1>1. AgentInv => AgentTypeOK
  BY DEF AgentInv
<1>2. QED
  BY <1>1, AgentInvariant, PTL

\* No PeerConnection outlives its session while the agent runs (endSession).
THEOREM NoProxyOrphaned == Spec => []NoOrphan
<1>1. AgentSafety => NoOrphan
  BY DEF AgentSafety
<1>2. QED
  BY <1>1, AgentInvariant, PTL

\* An unconnected session is always watched by its connect timer (handleOffer,
\* onConnected).
THEOREM AlwaysGuarded == Spec => []Guarded
<1>1. AgentSafety => Guarded
  BY DEF AgentSafety
<1>2. QED
  BY <1>1, AgentInvariant, PTL

\* A viewer is never left with an answer and no session (endSession's bye).
THEOREM AnsweredAlwaysServed == Spec => []AnsweredIsServed
<1>1. AgentSafety => AnsweredIsServed
  BY DEF AgentSafety
<1>2. QED
  BY <1>1, AgentInvariant, PTL

\* The viewer of the active session never hears a bye or a refusal meant for
\* somebody else (handleOffer, endSession).
THEOREM ActiveNeverDismissed == Spec => []ActiveNotDismissed
<1>1. AgentSafety => ActiveNotDismissed
  BY DEF AgentSafety
<1>2. QED
  BY <1>1, AgentInvariant, PTL

----------------------------------------------------------------------------
(* The agent implements OneSession. *)

\* Installing a session is a Grant, a failed answer a TurnDown, clearing Agent.sess
\* a Release; everything else leaves the abstract state alone.
LEMMA StepRefines ==
  ASSUME AgentInv, [Next]_vars
  PROVE  [Abstract!Next]_(Abstract!vars)
<1> USE AgentAssumption DEF AgentInv, AgentTypeOK, RouterTo, RouterIdle, session, ender, router, closing
<1>1. CASE Commit
  <2>1. sess = NoSession /\ sess' = rs /\ rs \in Sessions /\ pair[rs] # NoPair
    BY <1>1 DEF Commit, SetUp, Fresh
  <2>2. rs \notin Spent /\ Spent' = Spent \cup {rs}
    BY <1>1, <2>1 DEF Commit, Spent
  <2>3. Abstract!Grant(rs)
    BY <2>1, <2>2 DEF Abstract!Grant
  <2>4. QED
    BY <2>1, <2>3 DEF Abstract!Next
<1>2. CASE EncodeFails
  <2>1. rs \in Sessions /\ pair[rs] # NoPair /\ sess' = sess
    BY <1>2 DEF EncodeFails, Fresh
  <2>2. rs \notin Spent /\ Spent' = Spent \cup {rs}
    BY <1>2, <2>1 DEF EncodeFails, Spent
  <2>3. Abstract!TurnDown(rs)
    BY <2>1, <2>2 DEF Abstract!TurnDown
  <2>4. QED
    BY <2>1, <2>3 DEF Abstract!Next
<1>3. ASSUME NEW p \in Pairs, NEW s \in Sessions, AcceptOffer(p, s)
      PROVE  UNCHANGED Abstract!vars
  <2>1. sess' = sess /\ rs' = s /\ rpc' = "commit" /\ rpc # "commit"
    BY <1>3 DEF AcceptOffer
  <2>2. \A t \in Sessions \ {s} : pair'[t] = pair[t]
    BY <1>3 DEF AcceptOffer
  <2>3. pair[s] = NoPair
    BY <1>3 DEF AcceptOffer
  <2>4. Spent' = Spent
    BY <2>1, <2>2, <2>3 DEF Spent
  <2>5. QED
    BY <2>1, <2>4 DEF Abstract!vars
<1>4. ASSUME sess # NoSession, sess' = NoSession, Spent' = Spent PROVE Abstract!Next
  BY <1>4 DEF Abstract!Next, Abstract!Release
<1>5. ASSUME NEW s \in Sessions, NEW cause \in Causes, EndWins(s, cause) PROVE Abstract!Next
  <2>1. Spent' = Spent
    BY <1>5 DEF EndWins, Spent
  <2>2. sess # NoSession /\ sess' = NoSession
    BY <1>5 DEF EndWins, StillActive
  <2>3. QED
    BY <1>4, <2>1, <2>2
<1>6. CASE ShutdownClears
  <2>1. Spent' = Spent /\ sess' = NoSession
    BY <1>6 DEF ShutdownClears, Spent
  <2>2. CASE sess = NoSession
    BY <2>1, <2>2 DEF Abstract!vars
  <2>3. CASE sess # NoSession
    BY <1>4, <2>1, <2>3
  <2>4. QED
    BY <2>2, <2>3
<1>7. ASSUME UNCHANGED <<sess, pair>>, UNCHANGED <<rpc, rs>> \/ (rpc # "commit" /\ rpc' # "commit")
      PROVE  UNCHANGED Abstract!vars
  BY <1>7 DEF Spent, Abstract!vars
<1>8. CASE \E p \in Pairs : RecvStaleOffer(p) \/ RefuseOffer(p) \/ RecvDuplicate(p) \/ RecvBye(p)
  BY <1>8, <1>7 DEF RecvStaleOffer, RefuseOffer, RecvDuplicate, RecvBye
<1>9. CASE ReplayAnswer \/ SendAnswer \/ ArmTimer \/ ByeHandled
  BY <1>9, <1>7 DEF ReplayAnswer, SendAnswer, ArmTimer, ByeHandled
<1>10. CASE \E s \in Sessions : Connect(s) \/ OnConnected(s) \/ TimerFires(s) \/ RaiseEnd(s)
  BY <1>10, <1>7 DEF Connect, OnConnected, TimerFires, RaiseEnd
<1>11. CASE \E s \in Sessions : EndStep(s) \/ \E cause \in Causes : EndLoses(s, cause)
  BY <1>11, <1>7 DEF EndStep, EndStopsTimer, EndCloses, EndSays, EndLoses
<1>12. CASE ShutdownReads \/ ShutdownCloses \/ ShutdownSays \/ MqttClose
  BY <1>12, <1>7 DEF ShutdownReads, ShutdownCloses, ShutdownSays, MqttClose
<1>13. CASE UNCHANGED vars
  BY <1>13, <1>7 DEF vars
<1>14. QED
  BY <1>1, <1>2, <1>3, <1>5, <1>6, <1>8, <1>9, <1>10, <1>11, <1>12, <1>13
     DEF Next, Handle, RouterStep, Callback, EndCall, Shutdown

\* handleOffer, endSession and Shutdown, however they overlap, grant the camera
\* to one session at a time and to each session once.
THEOREM AgentImplementsOneSession == Spec => OneSessionAtATime
<1>1. Init => Abstract!Init
  BY DEF Init, Abstract!Init, Spent
<1>2. AgentInv /\ [Next]_vars => [Abstract!Next]_(Abstract!vars)
  BY StepRefines
<1>3. QED
  BY <1>1, <1>2, AgentInvariant, PTL DEF Spec, OneSessionAtATime, Abstract!Spec
============================================================================
