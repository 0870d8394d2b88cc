------------------------------ MODULE IceBatch ------------------------------
(***************************************************************************)
(* The batching of local ICE candidates of one session (src/agent.go,      *)
(* startICE, queueICE, flushICE, stopICE).  Pion reports the candidates    *)
(* one at a time and then nil; the router allows them to be sent once the  *)
(* answer is out; AfterFunc timers flush what was collected; whoever ends  *)
(* the session stops the batching.  A critical section of iceMu is one     *)
(* step.  flushICE publishes after it unlocked: a step of its own.         *)
(***************************************************************************)
EXTENDS Naturals, FiniteSets

CONSTANTS
  Candidates,  \* the local candidates pion gathers
  Timers,      \* AfterFunc timers, with the goroutine each runs when it fires
  NoTimer      \* iceTimer == nil

ASSUME IceAssumption ==
  /\ NoTimer \notin Timers
  /\ {"router", "gatherer"} \cap Timers = {}
  /\ IsFiniteSet(Candidates)

Goroutines == {"router", "gatherer"} \cup Timers

VARIABLES
  iceBuf,      \* Session.iceBuf
  iceEnd,      \* Session.iceEnd
  iceTimer,    \* Session.iceTimer
  iceReady,    \* Session.iceReady
  iceStopped,  \* Session.iceStopped
  at,          \* where each goroutine is
  batch,       \* the local `batch` of each goroutine in flushICE
  last,        \* the local `end` of each goroutine in flushICE
  gathered,    \* candidates queued so far
  gatherDone,  \* pion reported nil
  sent,        \* candidates published
  endSent      \* a message with end: true was published

buffer == <<iceBuf, iceEnd, iceTimer>>
flags  == <<iceReady, iceStopped>>
flight == <<batch, last>>
world  == <<gathered, gatherDone>>
outbox == <<sent, endSent>>
vars   == <<buffer, flags, at, flight, world, outbox>>

IceTypeOK ==
  /\ iceBuf   \subseteq Candidates
  /\ iceTimer \in Timers \cup {NoTimer}
  /\ iceEnd \in BOOLEAN /\ iceReady \in BOOLEAN /\ iceStopped \in BOOLEAN
  /\ at       \in [Goroutines -> {"idle", "armed", "flush", "send"}]
  /\ batch    \in [Goroutines -> SUBSET Candidates]
  /\ last     \in [Goroutines -> BOOLEAN]
  /\ gathered \subseteq Candidates
  /\ sent     \subseteq Candidates
  /\ gatherDone \in BOOLEAN /\ endSent \in BOOLEAN
  /\ \A g \in Goroutines : at[g] = "armed" => g \in Timers
  /\ iceTimer # NoTimer => at[iceTimer] # "idle"

----------------------------------------------------------------------------
Init ==
  /\ iceBuf = {} /\ iceEnd = FALSE /\ iceTimer = NoTimer
  /\ iceReady = FALSE /\ iceStopped = FALSE
  /\ at = [g \in Goroutines |-> "idle"]
  /\ batch = [g \in Goroutines |-> {}]
  /\ last = [g \in Goroutines |-> FALSE]
  /\ gathered = {} /\ gatherDone = FALSE
  /\ sent = {} /\ endSent = FALSE

Goto(g, place) == at' = [at EXCEPT ![g] = place]

\* len(s.iceBuf) > 0 || s.iceEnd
PendingIgnoringEnd == iceBuf # {}
Pending            == iceBuf # {} \/ iceEnd

\* startICE, by the router, after the answer.
StartICE ==
  /\ ~iceReady
  /\ iceReady' = TRUE
  /\ Goto("router", IF Pending THEN "flush" ELSE "idle")
  /\ UNCHANGED <<buffer, iceStopped, flight, world, outbox>>

\* Arm the batching timer unless one is set; before the answer, only collect.
ArmTimerIgnoringReady ==
  \/ /\ iceTimer # NoTimer
     /\ UNCHANGED <<iceTimer, at>>
  \/ /\ iceTimer = NoTimer
     /\ \E t \in Timers : at[t] = "idle" /\ iceTimer' = t /\ Goto(t, "armed")

ArmTimer ==
  \/ /\ ~iceReady \/ iceTimer # NoTimer
     /\ UNCHANGED <<iceTimer, at>>
  \/ /\ iceReady /\ iceTimer = NoTimer
     /\ \E t \in Timers : at[t] = "idle" /\ iceTimer' = t /\ Goto(t, "armed")

\* queueICE with a candidate.
QueueCandidate(c) ==
  /\ at["gatherer"] = "idle"
  /\ ~gatherDone /\ ~iceStopped
  /\ c \notin gathered
  /\ iceBuf'   = iceBuf \cup {c}
  /\ gathered' = gathered \cup {c}
  /\ ArmTimer
  /\ UNCHANGED <<iceEnd, flags, flight, gatherDone, outbox>>

\* queueICE(nil): flush at once when the answer is out, else leave it to startICE.
QueueEnd ==
  /\ at["gatherer"] = "idle"
  /\ ~gatherDone /\ ~iceStopped
  /\ gatherDone' = TRUE
  /\ iceEnd' = TRUE
  /\ Goto("gatherer", IF iceReady THEN "flush" ELSE "idle")
  /\ UNCHANGED <<iceBuf, iceTimer, flags, flight, gathered, outbox>>

\* The 100 ms are over: the timer's goroutine is on its way to flushICE.
TimerFires(t) ==
  /\ at[t] = "armed"
  /\ Goto(t, "flush")
  /\ UNCHANGED <<buffer, flags, flight, world, outbox>>

\* iceTimer.Stop(): without effect on a timer that fired.
Disarm == {t \in Timers : t = iceTimer /\ at[t] = "armed"}
Park(gs) == [g \in Goroutines |-> IF g \in gs THEN "idle" ELSE at[g]]

\* flushICE, locked: nothing to do.
NothingToFlushIgnoringStop == ~Pending
NothingToFlush             == iceStopped \/ ~Pending

FlushReturns(g) ==
  /\ at[g] = "flush"
  /\ NothingToFlush
  /\ Goto(g, "idle")
  /\ UNCHANGED <<buffer, flags, flight, world, outbox>>

\* s.iceBuf = nil; s.iceEnd = false; the timer is stopped and forgotten.
TakeBatchKeepingBuffer ==
  /\ iceEnd' = FALSE
  /\ iceTimer' = NoTimer
  /\ UNCHANGED iceBuf

TakeBatchKeepingTimer ==
  /\ iceBuf' = {} /\ iceEnd' = FALSE
  /\ UNCHANGED iceTimer

TakeBatch ==
  /\ iceBuf' = {} /\ iceEnd' = FALSE
  /\ iceTimer' = NoTimer

\* flushICE, locked: the batch moves from the session to the goroutine.
FlushTakes(g) ==
  /\ at[g] = "flush"
  /\ ~NothingToFlush
  /\ batch' = [batch EXCEPT ![g] = iceBuf]
  /\ last'  = [last EXCEPT ![g] = iceEnd]
  /\ TakeBatch
  /\ at' = [Park(Disarm) EXCEPT ![g] = "send"]
  /\ UNCHANGED <<flags, world, outbox>>

\* flushICE, unlocked: mqtt.Send.
FlushSends(g) ==
  /\ at[g] = "send"
  /\ sent'    = sent \cup batch[g]
  /\ endSent' = (endSent \/ last[g])
  /\ batch'   = [batch EXCEPT ![g] = {}]
  /\ last'    = [last EXCEPT ![g] = FALSE]
  /\ Goto(g, "idle")
  /\ UNCHANGED <<buffer, flags, world>>

\* stopICE, by endSession or Shutdown.
StopICE ==
  /\ ~iceStopped
  /\ iceStopped' = TRUE
  /\ iceTimer' = NoTimer
  /\ at' = Park(Disarm)
  /\ UNCHANGED <<iceBuf, iceEnd, iceReady, flight, world, outbox>>

Flush(g) == FlushReturns(g) \/ FlushTakes(g) \/ FlushSends(g)

Next ==
  \/ StartICE \/ QueueEnd \/ StopICE
  \/ \E c \in Candidates : QueueCandidate(c)
  \/ \E t \in Timers : TimerFires(t)
  \/ \E g \in Goroutines : Flush(g)

\* Timers fire and goroutines run; nothing forces pion or the end of a session.
Fairness ==
  /\ \A t \in Timers : WF_vars(TimerFires(t))
  /\ \A g \in Goroutines : WF_vars(Flush(g))

Spec     == Init /\ [][Next]_vars
FairSpec == Spec /\ Fairness

----------------------------------------------------------------------------
(* Properties.                                                             *)

InFlight == UNION {batch[g] : g \in Goroutines}

\* Nothing is forgotten in the buffer: once the answer is out, and until the
\* session stops, whatever waits there has a flush coming, an armed timer or a
\* goroutine on its way, however startICE, timers and pion interleave.
FlushComing ==
  \/ \E g \in Goroutines : at[g] = "flush"
  \/ iceTimer # NoTimer /\ at[iceTimer] = "armed"

NoStranded ==
  iceReady /\ ~iceStopped /\ (iceBuf # {} \/ iceEnd) => FlushComing

\* Every candidate queued is in exactly one place, the buffer, one goroutine's
\* batch or the wire: concurrent flushes neither lose nor repeat one.
ExactlyOnce ==
  /\ gathered = iceBuf \cup InFlight \cup sent
  /\ iceBuf \cap (InFlight \cup sent) = {}
  /\ InFlight \cap sent = {}
  /\ \A g, h \in Goroutines : g # h => batch[g] \cap batch[h] = {}

\* What a viewer may rely on: nothing leaves before the answer (iceReady), and
\* once `end: true` is out nothing waits in the buffer.  What may still follow
\* the end is a batch another goroutine took before: flushICE publishes after
\* it unlocked.
WireOrder ==
  /\ ~iceReady => InFlight \cup sent = {} /\ ~endSent
  /\ endSent => iceBuf = {} /\ gathered = InFlight \cup sent

\* After stopICE no goroutine takes a batch: only the batches taken before it
\* are still published.
QuietAfterStop ==
  [][iceStopped => iceBuf' = iceBuf /\ InFlight' \subseteq InFlight]_vars

\* Every candidate, and the end marker, is published or the session stops.
AllSent ==
  /\ \A c \in Candidates : (iceReady /\ c \in gathered) ~> (c \in sent \/ iceStopped)
  /\ (iceReady /\ gatherDone) ~> (endSent \/ iceStopped)
============================================================================
