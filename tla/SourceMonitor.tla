--------------------------- MODULE SourceMonitor ---------------------------
(***************************************************************************)
(* The reachability monitor of the RTSP source (src/source.go), with the   *)
(* goroutines that call into it: the periodic prober (Run), the message    *)
(* router probing for an offer (handleOffer), the goroutines that end a    *)
(* session whose stream was lost (MarkDown), and the publications that     *)
(* read the verdict back (state(), through onChange or on a reconnection). *)
(*                                                                         *)
(* One action is one critical section of SourceMonitor.mu, or one step     *)
(* outside it; a probe is a start, the moment at which the camera is       *)
(* observed, and the moment at which the result is applied.                *)
(***************************************************************************)
EXTENDS Naturals

CONSTANTS
  Announcements,       \* the SourceInfo values a reachable camera announces
  NoInfo,              \* info == nil: no probe ever succeeded
  Unreachable,         \* outcome of a probe that failed
  Enders,              \* goroutines that may be ending a session
  ProbeFailThreshold,  \* probeFailThreshold
  MaxFailures          \* bound: the failure counters stop growing here

ASSUME SourceAssumption ==
  /\ ProbeFailThreshold \in Nat \ {0}
  /\ MaxFailures \in Nat
  /\ MaxFailures >= ProbeFailThreshold
  /\ NoInfo \notin Announcements
  /\ Unreachable \notin Announcements
  /\ Enders \cap {"run", "offer", "conn"} = {}

Probers    == {"run", "offer"}
Goroutines == Probers \cup Enders \cup {"conn"}

VARIABLES
  camera,     \* what the camera is now: an announcement, or Unreachable
  online,     \* SourceMonitor.online
  failures,   \* SourceMonitor.failures
  info,       \* SourceMonitor.info
  stopped,    \* the stop channel is closed
  session,    \* Agent.current() != nil
  booted,     \* Run's first ProbeNow is over
  at,         \* where each goroutine is
  outcome,    \* what the probe of each prober observed
  pubOnline,  \* the reachability the latest publication read
  pubInfo,    \* the codecs the latest publication read
  streak,     \* history: failed probes applied since the last success
  late        \* history: periodic probes applied in the current session

monitor == <<online, failures, info>>
history == <<streak, late>>
vars == <<camera, monitor, stopped, session, booted, at, outcome,
          pubOnline, pubInfo, history>>

Places == {"idle", "probing", "observed", "admitted", "mark",
           "readOnline", "readInfo"}

SourceTypeOK ==
  /\ camera    \in Announcements \cup {Unreachable}
  /\ online    \in BOOLEAN
  /\ failures  \in 0 .. MaxFailures
  /\ info      \in Announcements \cup {NoInfo}
  /\ stopped   \in BOOLEAN
  /\ session   \in BOOLEAN
  /\ booted    \in BOOLEAN
  /\ at        \in [Goroutines -> Places]
  /\ outcome   \in [Probers -> Announcements \cup {Unreachable}]
  /\ pubOnline \in BOOLEAN
  /\ pubInfo   \in Announcements \cup {NoInfo}
  /\ streak    \in 0 .. MaxFailures
  /\ late      \in Nat

----------------------------------------------------------------------------
(* The two critical sections of ProbeNow and the one of MarkDown.          *)

Bump(n) == IF n < MaxFailures THEN n + 1 ELSE n

\* m.failures = 0; m.online = true; m.info = info
ApplySuccessKeepingFailures(a) ==
  /\ online'   = TRUE
  /\ info'     = a
  /\ UNCHANGED failures

ApplySuccess(a) ==
  /\ failures' = 0
  /\ online'   = TRUE
  /\ info'     = a

\* onChange is due: the codecs or the verdict changed.
SuccessChangesVerdict(a) == ~online
SuccessChanges(a)        == info # a \/ ~online

\* Below the threshold the verdict stands, unless nothing was ever known.
ApplyFailureNotCounting ==
  /\ online' = (online /\ info # NoInfo /\ failures < ProbeFailThreshold)
  /\ UNCHANGED <<failures, info>>

ApplyFailure ==
  /\ failures' = Bump(failures)
  /\ online'   = (online /\ info # NoInfo /\ Bump(failures) < ProbeFailThreshold)
  /\ UNCHANGED info

FailureChanges == online /\ ~(info # NoInfo /\ Bump(failures) < ProbeFailThreshold)

\* The counter jumps to the threshold: one more failure cannot bring it back.
ApplyMarkDownKeepingFailures ==
  /\ online' = FALSE
  /\ UNCHANGED <<failures, info>>

ApplyMarkDown ==
  /\ online'   = FALSE
  /\ failures' = ProbeFailThreshold
  /\ UNCHANGED info

Goto(g, place) == at' = [at EXCEPT ![g] = place]

\* Where ProbeNow returns to: handleOffer goes on if the verdict was online.
Resume(g, verdict) == IF g = "offer" /\ verdict THEN "admitted" ELSE "idle"

----------------------------------------------------------------------------
Init ==
  /\ camera \in Announcements \cup {Unreachable}
  /\ online = FALSE /\ failures = 0 /\ info = NoInfo
  /\ stopped = FALSE /\ session = FALSE /\ booted = FALSE
  /\ at = [g \in Goroutines |-> "idle"]
  /\ outcome = [p \in Probers |-> Unreachable]
  /\ pubOnline = FALSE /\ pubInfo = NoInfo
  /\ streak = 0 /\ late = 0

\* Agent.Run: the first probe has no onChange yet; Connect then publishes.
Boot ==
  /\ ~booted
  /\ booted' = TRUE
  /\ IF camera = Unreachable
     THEN ApplyFailure /\ streak' = Bump(streak)
     ELSE ApplySuccess(camera) /\ streak' = 0
  /\ Goto("conn", "readOnline")
  /\ UNCHANGED <<camera, stopped, session, outcome, pubOnline, pubInfo, late>>

\* onConnect after a reconnection republishes the state.
Reconnect ==
  /\ booted
  /\ at["conn"] = "idle"
  /\ Goto("conn", "readOnline")
  /\ UNCHANGED <<camera, monitor, stopped, session, booted, outcome,
                 pubOnline, pubInfo, history>>

\* paused(): asked once per tick, before the probe starts.
NeverPaused  == FALSE
AlwaysPaused == TRUE
Paused       == session

\* A tick of Run that is not skipped.
RunTick ==
  /\ booted
  /\ at["run"] = "idle"
  /\ ~stopped
  /\ ~Paused
  /\ Goto("run", "probing")
  /\ UNCHANGED <<camera, monitor, stopped, session, booted, outcome,
                 pubOnline, pubInfo, history>>

\* handleOffer while idle: an offline camera is probed before refusing.
OfferArrives ==
  /\ booted
  /\ at["offer"] = "idle"
  /\ ~session
  /\ Goto("offer", IF online THEN "admitted" ELSE "probing")
  /\ UNCHANGED <<camera, monitor, stopped, session, booted, outcome,
                 pubOnline, pubInfo, history>>

\* The probe's exchange with the camera takes place.
Observe(p) ==
  /\ at[p] = "probing"
  /\ outcome' = [outcome EXCEPT ![p] = camera]
  /\ Goto(p, "observed")
  /\ UNCHANGED <<camera, monitor, stopped, session, booted,
                 pubOnline, pubInfo, history>>

\* err == nil
AssumedSuccess(p) == TRUE
Succeeded(p)      == outcome[p] # Unreachable

CountLate(p) == late' = IF p = "run" /\ session THEN late + 1 ELSE late

\* Second half of ProbeNow after a success.
LandSuccess(p) ==
  /\ at[p] = "observed"
  /\ Succeeded(p)
  /\ ApplySuccess(outcome[p])
  /\ Goto(p, IF SuccessChanges(outcome[p]) THEN "readOnline" ELSE Resume(p, TRUE))
  /\ streak' = 0
  /\ CountLate(p)
  /\ UNCHANGED <<camera, stopped, session, booted, outcome, pubOnline, pubInfo>>

\* Second half of ProbeNow after a failure.
LandFailure(p) ==
  /\ at[p] = "observed"
  /\ ~Succeeded(p)
  /\ ApplyFailure
  /\ Goto(p, IF FailureChanges THEN "readOnline" ELSE Resume(p, online'))
  /\ streak' = Bump(streak)
  /\ CountLate(p)
  /\ UNCHANGED <<camera, stopped, session, booted, outcome, pubOnline, pubInfo>>

\* onChange -> PublishState -> state(): Online() and Info() each take the lock.
ReadOnline(g) ==
  /\ at[g] = "readOnline"
  /\ pubOnline' = online
  /\ Goto(g, "readInfo")
  /\ UNCHANGED <<camera, monitor, stopped, session, booted, outcome, pubInfo, history>>

ReadInfo(g) ==
  /\ at[g] = "readInfo"
  /\ pubInfo' = info
  /\ Goto(g, Resume(g, g = "offer" /\ Succeeded("offer")))
  /\ UNCHANGED <<camera, monitor, stopped, session, booted, outcome, pubOnline, history>>

\* The rest of handleOffer: the session starts, or the offer is refused.
SessionStarts ==
  /\ at["offer"] = "admitted"
  /\ Goto("offer", "idle")
  /\ session' = TRUE
  /\ late' = 0
  /\ UNCHANGED <<camera, monitor, stopped, booted, outcome, pubOnline, pubInfo, streak>>

OfferRefused ==
  /\ at["offer"] = "admitted"
  /\ Goto("offer", "idle")
  /\ UNCHANGED <<camera, monitor, stopped, session, booted, outcome,
                 pubOnline, pubInfo, history>>

\* endSession clears Agent.sess; a lost stream is reported some steps later.
SessionEnds(e) ==
  /\ session
  /\ at[e] = "idle"
  /\ session' = FALSE
  /\ \E lost \in BOOLEAN : Goto(e, IF lost THEN "mark" ELSE "idle")
  /\ UNCHANGED <<camera, monitor, stopped, booted, outcome, pubOnline, pubInfo, history>>

MarkDown(e) ==
  /\ at[e] = "mark"
  /\ ApplyMarkDown
  /\ Goto(e, IF online THEN "readOnline" ELSE "idle")
  /\ UNCHANGED <<camera, stopped, session, booted, outcome, pubOnline, pubInfo, history>>

Stop ==
  /\ booted
  /\ ~stopped
  /\ stopped' = TRUE
  /\ UNCHANGED <<camera, monitor, session, booted, at, outcome,
                 pubOnline, pubInfo, history>>

\* The world: the camera goes away, comes back, or changes its codecs.
CameraChanges ==
  /\ camera' \in (Announcements \cup {Unreachable}) \ {camera}
  /\ UNCHANGED <<monitor, stopped, session, booted, at, outcome,
                 pubOnline, pubInfo, history>>

Next ==
  \/ Boot \/ Reconnect \/ RunTick \/ OfferArrives
  \/ \E p \in Probers : Observe(p) \/ LandSuccess(p) \/ LandFailure(p)
  \/ \E g \in Goroutines : ReadOnline(g) \/ ReadInfo(g)
  \/ SessionStarts \/ OfferRefused
  \/ \E e \in Enders : SessionEnds(e) \/ MarkDown(e)
  \/ Stop \/ CameraChanges

\* The ticker fires again and again; a goroutine that can step does.
Fairness ==
  /\ WF_vars(Boot) /\ WF_vars(RunTick)
  /\ \A p \in Probers : WF_vars(Observe(p)) /\ WF_vars(LandSuccess(p) \/ LandFailure(p))
  /\ \A g \in Goroutines : WF_vars(ReadOnline(g) \/ ReadInfo(g))
  /\ \A e \in Enders : WF_vars(MarkDown(e))
  /\ WF_vars(SessionStarts \/ OfferRefused)

Spec     == Init /\ [][Next]_vars
FairSpec == Spec /\ Fairness

----------------------------------------------------------------------------
(* Properties.                                                             *)

\* The verdict is what the counter and the last announcement say it is, in
\* every interleaving of two probes and a MarkDown: a camera is online only
\* with known codecs and a counter below the threshold, and offline only when
\* nothing was ever announced or the counter reached it (ProbeNow, MarkDown).
VerdictSound ==
  /\ online  => info # NoInfo /\ failures < ProbeFailThreshold
  /\ ~online => info = NoInfo \/ failures >= ProbeFailThreshold

\* onChange is never lost: whenever the latest publication read a reachability
\* or codecs that are no longer true, a goroutine is about to read them again.
NoSilentChange ==
  /\ pubOnline # online => \E g \in Goroutines : at[g] = "readOnline"
  /\ pubInfo # info =>
       \E g \in Goroutines : at[g] \in {"readOnline", "readInfo"}

\* A tick that found no session may still land in the session that started
\* meanwhile, but one only: Run probes one at a time and asks paused() first.
OneLateProbe == late <= 1

Marking(e) == at[e] = "mark" /\ at'[e] # "mark"

\* A camera that was online goes offline only through MarkDown or through
\* probeFailThreshold failures with no success between them, whichever
\* goroutines those probes ran in.
OfflineOnlyAfterThreshold ==
  [][online /\ ~online' => \/ \E e \in Enders : Marking(e)
                          \/ streak' >= ProbeFailThreshold]_vars

Idle == ~session /\ ~stopped

\* A camera that stays up and unused is eventually, and from then on, online
\* and published with what it announces, also after a MarkDown (Run).
ComesBack ==
  \A a \in Announcements :
    <>[](camera = a /\ Idle)
      => <>[](online /\ info = a /\ pubOnline /\ pubInfo = a)

\* A camera that stays down and unused is eventually, and from then on,
\* offline, and published so.
GoesOffline ==
  <>[](camera = Unreachable /\ Idle) => <>[](~online /\ ~pubOnline)
============================================================================
