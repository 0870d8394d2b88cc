------------------------ MODULE SourceMonitorProofs ------------------------
(***************************************************************************)
(* What SourceMonitor does for every threshold, every set of announcements *)
(* and every number of goroutines ending sessions.                         *)
(***************************************************************************)
EXTENDS SourceMonitor, TLAPS

\* A failed probe counts one more, up to the bound, and never fewer.
LEMMA BumpBounded ==
  ASSUME NEW n \in 0 .. MaxFailures
  PROVE  Bump(n) \in 0 .. MaxFailures /\ Bump(n) >= n
BY SourceAssumption, SMT DEF Bump

\* The counter may hold the threshold, and zero.
LEMMA ThresholdInRange ==
  /\ ProbeFailThreshold \in 0 .. MaxFailures
  /\ 0 \in 0 .. MaxFailures
BY SourceAssumption, SMT

\* Every variable keeps its type, whatever goroutine steps (src/source.go).
LEMMA TypeStep == SourceTypeOK /\ [Next]_vars => SourceTypeOK'
<1> SUFFICES ASSUME SourceTypeOK, [Next]_vars PROVE SourceTypeOK'
  OBVIOUS
<1> USE SourceAssumption DEF SourceTypeOK, Goto, Places, Probers, Goroutines, Resume,
        monitor, history
<1>1. CASE Boot
  <2>1. failures' \in 0 .. MaxFailures /\ streak' \in 0 .. MaxFailures
    BY <1>1, BumpBounded, ThresholdInRange DEF Boot, ApplyFailure, ApplySuccess
  <2>2. online' \in BOOLEAN /\ info' \in Announcements \cup {NoInfo}
    BY <1>1 DEF Boot, ApplyFailure, ApplySuccess
  <2>3. QED
    BY <1>1, <2>1, <2>2 DEF Boot
<1>2. CASE Reconnect
  BY <1>2 DEF Reconnect
<1>3. CASE RunTick
  BY <1>3 DEF RunTick
<1>4. CASE OfferArrives
  BY <1>4 DEF OfferArrives
<1>5. ASSUME NEW p \in Probers, Observe(p) PROVE SourceTypeOK'
  BY <1>5 DEF Observe
<1>6. ASSUME NEW p \in Probers, LandSuccess(p) PROVE SourceTypeOK'
  BY <1>6 DEF LandSuccess, ApplySuccess, Succeeded, CountLate
<1>7. ASSUME NEW p \in Probers, LandFailure(p) PROVE SourceTypeOK'
  BY <1>7, BumpBounded DEF LandFailure, ApplyFailure, CountLate
<1>8. ASSUME NEW g \in Goroutines, ReadOnline(g) PROVE SourceTypeOK'
  BY <1>8 DEF ReadOnline
<1>9. ASSUME NEW g \in Goroutines, ReadInfo(g) PROVE SourceTypeOK'
  BY <1>9 DEF ReadInfo
<1>10. CASE SessionStarts
  BY <1>10 DEF SessionStarts
<1>11. CASE OfferRefused
  BY <1>11 DEF OfferRefused
<1>12. ASSUME NEW e \in Enders, SessionEnds(e) PROVE SourceTypeOK'
  BY <1>12 DEF SessionEnds
<1>13. ASSUME NEW e \in Enders, MarkDown(e) PROVE SourceTypeOK'
  BY <1>13, ThresholdInRange DEF MarkDown, ApplyMarkDown
<1>14. CASE Stop
  BY <1>14 DEF Stop
<1>15. CASE CameraChanges
  BY <1>15 DEF CameraChanges
<1>16. CASE UNCHANGED vars
  BY <1>16 DEF vars
<1>17. QED
  BY <1>1, <1>2, <1>3, <1>4, <1>5, <1>6, <1>7, <1>8, <1>9, <1>10, <1>11, <1>12,
     <1>13, <1>14, <1>15, <1>16 DEF Next

\* The three critical sections are the only ways the verdict moves (ProbeNow,
\* MarkDown), and the history counts the probes they apply.
LEMMA MonitorMoves ==
  ASSUME SourceTypeOK, [Next]_vars
  PROVE  \/ UNCHANGED <<online, failures, info, streak>>
         \/ \E a \in Announcements : ApplySuccess(a) /\ streak' = 0
         \/ ApplyFailure /\ streak' = Bump(streak)
         \/ ApplyMarkDown /\ streak' = streak /\ \E e \in Enders : Marking(e)
<1>1. CASE Boot
  BY <1>1 DEF Boot, SourceTypeOK
<1>2. ASSUME NEW p \in Probers, LandSuccess(p) PROVE \E a \in Announcements : ApplySuccess(a) /\ streak' = 0
  BY <1>2 DEF LandSuccess, Succeeded, SourceTypeOK
<1>3. ASSUME NEW p \in Probers, LandFailure(p) PROVE ApplyFailure /\ streak' = Bump(streak)
  BY <1>3 DEF LandFailure
<1>4. ASSUME NEW e \in Enders, MarkDown(e)
      PROVE  ApplyMarkDown /\ streak' = streak /\ \E x \in Enders : Marking(x)
  <2>1. at[e] = "mark" /\ at'[e] # "mark"
    BY <1>4 DEF MarkDown, Goto, SourceTypeOK, Goroutines
  <2>2. QED
    BY <1>4, <2>1 DEF MarkDown, Marking, history
<1>5. CASE ~(Boot \/ \E p \in Probers : LandSuccess(p) \/ LandFailure(p)) /\ ~\E e \in Enders : MarkDown(e)
  BY <1>5 DEF Next, Reconnect, RunTick, OfferArrives, Observe, ReadOnline, ReadInfo,
     SessionStarts, OfferRefused, SessionEnds, Stop, CameraChanges, vars, monitor, history
<1>6. QED
  BY <1>1, <1>2, <1>3, <1>4, <1>5

\* A verdict that follows from the counter and the codecs still does after a step.
LEMMA VerdictStep == SourceTypeOK /\ VerdictSound /\ [Next]_vars => VerdictSound'
<1> SUFFICES ASSUME SourceTypeOK, VerdictSound, [Next]_vars PROVE VerdictSound'
  OBVIOUS
<1> USE SourceAssumption DEF VerdictSound, SourceTypeOK
<1>1. CASE UNCHANGED <<online, failures, info, streak>>
  BY <1>1
<1>2. CASE \E a \in Announcements : ApplySuccess(a) /\ streak' = 0
  BY <1>2 DEF ApplySuccess
<1>3. CASE ApplyFailure
  <2>1. Bump(failures) \in 0 .. MaxFailures /\ Bump(failures) >= failures
    BY BumpBounded
  <2>2. CASE online /\ info # NoInfo /\ Bump(failures) < ProbeFailThreshold
    <3>1. failures' = Bump(failures) /\ info' = info
      BY <1>3 DEF ApplyFailure
    <3>2. failures' < ProbeFailThreshold /\ info' # NoInfo /\ online'
      BY <1>3, <2>2, <3>1, Zenon DEF ApplyFailure
    <3>3. QED
      BY <3>2, Zenon
  <2>3. CASE online /\ ~(info # NoInfo /\ Bump(failures) < ProbeFailThreshold)
    <3>1. ~online' /\ failures' = Bump(failures) /\ info' = info
      BY <1>3, <2>3, Zenon DEF ApplyFailure
    <3>2. info = NoInfo \/ Bump(failures) >= ProbeFailThreshold
      BY <2>1, <2>3
    <3>3. QED
      BY <3>1, <3>2, Zenon
  <2>4. CASE ~online
    <3>1. ~online' /\ failures' = Bump(failures) /\ info' = info
      BY <1>3, <2>4, Zenon DEF ApplyFailure
    <3>2. info = NoInfo \/ Bump(failures) >= ProbeFailThreshold
      BY <2>1, <2>4
    <3>3. QED
      BY <3>1, <3>2, Zenon
  <2>5. QED
    BY <2>2, <2>3, <2>4
<1>4. CASE ApplyMarkDown
  BY <1>4 DEF ApplyMarkDown
<1>5. QED
  BY <1>1, <1>2, <1>3, <1>4, MonitorMoves

\* While a camera is online, the counter counts exactly the failed probes since
\* the last success: probes of different goroutines share it without loss.
CounterExact == online => failures = streak

LEMMA CounterStep == SourceTypeOK /\ CounterExact /\ [Next]_vars => CounterExact'
<1> SUFFICES ASSUME SourceTypeOK, CounterExact, [Next]_vars PROVE CounterExact'
  OBVIOUS
<1> USE DEF CounterExact
<1>1. CASE UNCHANGED <<online, failures, info, streak>>
  BY <1>1
<1>2. CASE \E a \in Announcements : ApplySuccess(a) /\ streak' = 0
  BY <1>2 DEF ApplySuccess
<1>3. CASE ApplyFailure /\ streak' = Bump(streak)
  BY <1>3 DEF ApplyFailure
<1>4. CASE ApplyMarkDown
  BY <1>4 DEF ApplyMarkDown
<1>5. QED
  BY <1>1, <1>2, <1>3, <1>4, MonitorMoves

MonitorInv == SourceTypeOK /\ VerdictSound /\ CounterExact

LEMMA MonitorInvInit == Init => MonitorInv
<1> SUFFICES ASSUME Init PROVE MonitorInv
  OBVIOUS
<1>1. SourceTypeOK
  BY ThresholdInRange DEF Init, SourceTypeOK, Goroutines, Probers, Places
<1>2. VerdictSound /\ CounterExact
  BY DEF Init, VerdictSound, CounterExact
<1>3. QED
  BY <1>1, <1>2 DEF MonitorInv

LEMMA MonitorInvStep == MonitorInv /\ [Next]_vars => MonitorInv'
BY TypeStep, VerdictStep, CounterStep DEF MonitorInv

THEOREM MonitorInvariant == Spec => []MonitorInv
BY MonitorInvInit, MonitorInvStep, PTL DEF Spec

\* Every variable of the monitor keeps its type (src/source.go).
THEOREM SourceTypeCorrect == Spec => []SourceTypeOK
<1>1. MonitorInv => SourceTypeOK
  BY DEF MonitorInv
<1>2. QED
  BY <1>1, MonitorInvariant, PTL

\* The verdict is always what the counter and the last announcement say it is,
\* in every interleaving of ProbeNow and MarkDown.
THEOREM VerdictAlwaysSound == Spec => []VerdictSound
<1>1. MonitorInv => VerdictSound
  BY DEF MonitorInv
<1>2. QED
  BY <1>1, MonitorInvariant, PTL

\* An online camera goes offline only through MarkDown or through
\* probeFailThreshold failed probes with no success between them.
THEOREM OfflineNeedsThreshold == Spec => OfflineOnlyAfterThreshold
<1>1. MonitorInv /\ [Next]_vars =>
        [online /\ ~online' => \/ \E e \in Enders : Marking(e)
                              \/ streak' >= ProbeFailThreshold]_vars
  <2> SUFFICES ASSUME MonitorInv, [Next]_vars, online, ~online',
                      ~\E e \in Enders : Marking(e)
               PROVE  streak' >= ProbeFailThreshold
    OBVIOUS
  <2>1. ApplyFailure /\ streak' = Bump(streak)
    BY MonitorMoves DEF MonitorInv, ApplySuccess
  <2>2. info # NoInfo /\ failures = streak /\ failures \in 0 .. MaxFailures
    BY DEF MonitorInv, VerdictSound, CounterExact, SourceTypeOK
  <2>3. ~(Bump(streak) < ProbeFailThreshold)
    BY <2>1, <2>2 DEF ApplyFailure
  <2>4. QED
    BY <2>1, <2>2, <2>3, BumpBounded, SourceAssumption
<1>2. QED
  BY <1>1, MonitorInvariant, PTL DEF Spec, OfflineOnlyAfterThreshold

----------------------------------------------------------------------------
\* A goroutine that has yet to read the reachability, or the codecs.
Reading(g) == at[g] \in {"readOnline", "readInfo"}

\* Moving one goroutine leaves the readers among the others where they are.
LEMMA OthersStay ==
  ASSUME NEW g \in Goroutines, NEW place, Goto(g, place), SourceTypeOK
  PROVE  /\ at' [g] = place
         /\ \A h \in Goroutines \ {g} : at'[h] = at[h]
BY DEF Goto, SourceTypeOK

\* Whenever the latest publication read something that is no longer true, a
\* goroutine is about to read it: onChange is due at every change (ProbeNow,
\* MarkDown), and nobody reads before its own change is made.
LEMMA ReadersStep == SourceTypeOK /\ NoSilentChange /\ [Next]_vars => NoSilentChange'
<1> SUFFICES ASSUME SourceTypeOK, NoSilentChange, [Next]_vars PROVE NoSilentChange'
  OBVIOUS
<1> USE DEF NoSilentChange
<1>0. Probers \subseteq Goroutines /\ Enders \subseteq Goroutines /\ {"run", "offer", "conn"} \subseteq Goroutines
  BY DEF Goroutines, Probers
\* A goroutine about to read the reachability reads everything.
<1>a. ASSUME NEW g \in Goroutines, Goto(g, "readOnline") PROVE NoSilentChange'
  BY <1>a, OthersStay
\* Nothing published or monitored moves, and no reader is disturbed.
<1>b. ASSUME NEW g \in Goroutines, NEW place, Goto(g, place), ~Reading(g),
             UNCHANGED <<online, info, pubOnline, pubInfo>>
      PROVE  NoSilentChange'
  <2>1. \A h \in Goroutines : Reading(h) => at'[h] = at[h]
    BY <1>b, OthersStay
  <2>2. QED
    BY <1>b, <2>1 DEF Reading
<1>c. ASSUME UNCHANGED <<at, online, info, pubOnline, pubInfo>> PROVE NoSilentChange'
  BY <1>c
<1>1. CASE Boot \/ Reconnect
  BY <1>1, <1>0, <1>a DEF Boot, Reconnect
<1>2. CASE RunTick
  BY <1>2, <1>0, <1>b DEF RunTick, Reading, monitor
<1>3. CASE OfferArrives
  BY <1>3, <1>0, <1>b DEF OfferArrives, Reading, monitor
<1>4. ASSUME NEW p \in Probers, Observe(p) PROVE NoSilentChange'
  BY <1>4, <1>0, <1>b DEF Observe, Reading, monitor
<1>5. ASSUME NEW p \in Probers, LandSuccess(p) PROVE NoSilentChange'
  <2>1. CASE SuccessChanges(outcome[p])
    BY <1>5, <2>1, <1>0, <1>a DEF LandSuccess
  <2>2. CASE ~SuccessChanges(outcome[p])
    <3>1. online' = online /\ info' = info
      BY <1>5, <2>2 DEF LandSuccess, ApplySuccess, SuccessChanges, SourceTypeOK
    <3>2. QED
      BY <1>5, <2>2, <3>1, <1>0, <1>b DEF LandSuccess, Reading
  <2>3. QED
    BY <2>1, <2>2
<1>6. ASSUME NEW p \in Probers, LandFailure(p) PROVE NoSilentChange'
  <2>1. CASE FailureChanges
    BY <1>6, <2>1, <1>0, <1>a DEF LandFailure
  <2>2. CASE ~FailureChanges
    <3>1. online' = online /\ info' = info
      BY <1>6, <2>2, Zenon DEF LandFailure, ApplyFailure, FailureChanges, SourceTypeOK
    <3>2. QED
      BY <1>6, <2>2, <3>1, <1>0, <1>b DEF LandFailure, Reading
  <2>3. QED
    BY <2>1, <2>2
<1>7. ASSUME NEW g \in Goroutines, ReadOnline(g) PROVE NoSilentChange'
  <2>1. at'[g] = "readInfo" /\ pubOnline' = online'
    BY <1>7, OthersStay DEF ReadOnline, monitor
  <2>2. QED
    BY <1>7, <2>1
<1>8. ASSUME NEW g \in Goroutines, ReadInfo(g) PROVE NoSilentChange'
  <2>1. \A h \in Goroutines : at[h] = "readOnline" => at'[h] = "readOnline"
    BY <1>8, OthersStay DEF ReadInfo
  <2>2. pubInfo' = info' /\ pubOnline' = pubOnline /\ online' = online
    BY <1>8 DEF ReadInfo, monitor
  <2>3. QED
    BY <2>1, <2>2
<1>9. CASE SessionStarts \/ OfferRefused
  BY <1>9, <1>0, <1>b DEF SessionStarts, OfferRefused, Reading, monitor
<1>10. ASSUME NEW e \in Enders, SessionEnds(e) PROVE NoSilentChange'
  BY <1>10, <1>0, <1>b DEF SessionEnds, Reading, monitor
<1>11. ASSUME NEW e \in Enders, MarkDown(e) PROVE NoSilentChange'
  <2>1. CASE online
    BY <1>11, <2>1, <1>0, <1>a DEF MarkDown
  <2>2. CASE ~online
    <3>1. online' = online /\ info' = info
      BY <1>11, <2>2, Zenon DEF MarkDown, ApplyMarkDown, SourceTypeOK
    <3>2. QED
      BY <1>11, <2>2, <3>1, <1>0, <1>b DEF MarkDown, Reading
  <2>3. QED
    BY <2>1, <2>2
<1>12. CASE Stop \/ CameraChanges \/ UNCHANGED vars
  BY <1>12, <1>c DEF Stop, CameraChanges, vars, monitor
<1>13. QED
  BY <1>1, <1>2, <1>3, <1>4, <1>5, <1>6, <1>7, <1>8, <1>9, <1>10, <1>11, <1>12 DEF Next

\* onChange is never lost, for any number of goroutines that publish.
THEOREM ChangesAlwaysRead == Spec => []NoSilentChange
<1>1. Init => NoSilentChange
  BY DEF Init, NoSilentChange
<1>2. QED
  BY <1>1, ReadersStep, SourceTypeCorrect, PTL DEF Spec

----------------------------------------------------------------------------
\* A probe that was under way when the session started has landed: Run is not
\* in another one, because it asked paused() before each of them.
LateOnce ==
  /\ late <= 1
  /\ session /\ late = 1 => at["run"] \notin {"probing", "observed"}

\* Only a tick starts a probe of Run, and only a landing in a session counts.
LEMMA LateStep == SourceTypeOK /\ LateOnce /\ [Next]_vars => LateOnce'
<1> SUFFICES ASSUME SourceTypeOK, LateOnce, [Next]_vars PROVE LateOnce'
  OBVIOUS
<1> USE DEF LateOnce, history
<1>0. "run" \in Probers /\ Probers \subseteq Goroutines /\ Enders \subseteq Goroutines
      /\ {"run", "offer", "conn"} \subseteq Goroutines
  BY DEF Goroutines, Probers
\* Some goroutine moves, but Run does not start or go on probing.
<1>a. ASSUME NEW g \in Goroutines, NEW place, Goto(g, place), late' = late,
             session' => session,
             g = "run" => place \notin {"probing", "observed"}
      PROVE  LateOnce'
  BY <1>a, <1>0, OthersStay
<1>1. CASE Boot \/ Reconnect
  BY <1>1, <1>0, <1>a DEF Boot, Reconnect
<1>2. CASE RunTick
  BY <1>2 DEF RunTick, Paused
<1>3. CASE OfferArrives
  BY <1>3, <1>0, <1>a DEF OfferArrives
<1>4. ASSUME NEW p \in Probers, Observe(p) PROVE LateOnce'
  <2>1. at["run"] \notin {"probing", "observed"} => at'["run"] = at["run"]
    BY <1>4, <1>0, OthersStay DEF Observe
  <2>2. QED
    BY <1>4, <2>1 DEF Observe
<1>5. ASSUME NEW p \in Probers, LandSuccess(p) \/ LandFailure(p) PROVE LateOnce'
  <2>1. at[p] = "observed" /\ session' = session /\ CountLate(p)
    BY <1>5 DEF LandSuccess, LandFailure
  <2>2. PICK place \in {"readOnline", "admitted", "idle"} : Goto(p, place)
    BY <1>5 DEF LandSuccess, LandFailure, Resume
  <2>3. CASE p = "run"
    <3>1. at'["run"] \notin {"probing", "observed"}
      BY <2>2, <2>3, <1>0, OthersStay
    <3>2. late' <= 1
      BY <2>1, <2>3 DEF CountLate, SourceTypeOK
    <3>3. QED
      BY <3>1, <3>2
  <2>4. CASE p # "run"
    BY <2>1, <2>2, <2>4, <1>0, <1>a DEF CountLate
  <2>5. QED
    BY <2>3, <2>4
<1>6. ASSUME NEW g \in Goroutines, ReadOnline(g) PROVE LateOnce'
  BY <1>6, <1>a DEF ReadOnline
<1>7. ASSUME NEW g \in Goroutines, ReadInfo(g) PROVE LateOnce'
  <2>1. PICK place \in {"admitted", "idle"} : Goto(g, place)
    BY <1>7 DEF ReadInfo, Resume
  <2>2. QED
    BY <1>7, <2>1, <1>a DEF ReadInfo
<1>8. CASE SessionStarts
  BY <1>8 DEF SessionStarts
<1>9. CASE OfferRefused
  BY <1>9, <1>0, <1>a DEF OfferRefused
<1>10. ASSUME NEW e \in Enders, SessionEnds(e) PROVE LateOnce'
  BY <1>10 DEF SessionEnds
<1>11. ASSUME NEW e \in Enders, MarkDown(e) PROVE LateOnce'
  <2>1. PICK place \in {"readOnline", "idle"} : Goto(e, place)
    BY <1>11 DEF MarkDown
  <2>2. QED
    BY <1>11, <2>1, <1>0, <1>a DEF MarkDown
<1>12. CASE Stop \/ CameraChanges \/ UNCHANGED vars
  BY <1>12 DEF Stop, CameraChanges, vars
<1>13. QED
  BY <1>1, <1>2, <1>3, <1>4, <1>5, <1>6, <1>7, <1>8, <1>9, <1>10, <1>11, <1>12 DEF Next

\* At most one periodic probe lands in a session, however often sessions start
\* and end around it (Run asks paused() before each probe).
THEOREM LateProbesBounded == Spec => []OneLateProbe
<1>1. Init => LateOnce
  BY DEF Init, LateOnce
<1>2. LateOnce => OneLateProbe
  BY DEF LateOnce, OneLateProbe
<1>3. QED
  BY <1>1, <1>2, LateStep, SourceTypeCorrect, PTL DEF Spec
============================================================================
