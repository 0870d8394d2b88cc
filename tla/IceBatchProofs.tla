--------------------------- MODULE IceBatchProofs ---------------------------
(***************************************************************************)
(* The candidate batching of IceBatch for any set of candidates and any    *)
(* number of timers.  The safety properties rest on two facts: a timer     *)
(* that is set has something to flush and is on its way (TimerSet), and a  *)
(* goroutine holds a batch only between taking and sending it (Held).      *)
(***************************************************************************)
EXTENDS IceBatch, TLAPS

\* iceTimer is set only while there is something to flush, and its timer has
\* not run to its end: nobody finds the field set and its timer gone.
TimerSet ==
  iceTimer # NoTimer =>
    /\ at[iceTimer] \in {"armed", "flush"}
    /\ iceBuf # {} /\ iceReady /\ ~iceStopped

\* A batch is in the hands of a goroutine between taking and sending it.
Held == \A g \in Goroutines : at[g] # "send" => batch[g] = {} /\ ~last[g]

\* Before the answer nothing flushes, or will.
Waiting == ~iceReady => \A g \in Goroutines : at[g] = "idle"

IceInv == IceTypeOK /\ TimerSet /\ Held /\ Waiting

\* The router and pion's goroutine are no timers.
LEMMA Distinct ==
  /\ "router" \in Goroutines /\ "gatherer" \in Goroutines /\ Timers \subseteq Goroutines
  /\ "router" \notin Timers /\ "gatherer" \notin Timers /\ NoTimer \notin Timers
BY IceAssumption DEF Goroutines

\* What Stop leaves: timers that had not fired are idle, nobody else moved.
LEMMA ParkKeeps ==
  ASSUME IceTypeOK
  PROVE  /\ Park(Disarm) \in [Goroutines -> {"idle", "armed", "flush", "send"}]
         /\ \A g \in Goroutines : \/ Park(Disarm)[g] = at[g] /\ ~(g = iceTimer /\ at[g] = "armed")
                                  \/ g = iceTimer /\ at[g] = "armed" /\ Park(Disarm)[g] = "idle"
BY Distinct DEF Park, Disarm, IceTypeOK

\* Every variable keeps its type, a set timer stays on its way, a batch stays
\* with the goroutine that took it (startICE, queueICE, flushICE, stopICE).
LEMMA IceInvStep == IceInv /\ [Next]_vars => IceInv'
<1> SUFFICES ASSUME IceInv, [Next]_vars PROVE IceInv'
  OBVIOUS
<1> USE Distinct DEF IceInv, IceTypeOK, TimerSet, Held, Waiting, Goto, buffer, flags, flight,
        world, outbox
<1>1. CASE StartICE
  BY <1>1 DEF StartICE
<1>2. ASSUME NEW c \in Candidates, QueueCandidate(c) PROVE IceInv'
  <2>1. CASE ~iceReady \/ iceTimer # NoTimer
    <3>1. UNCHANGED <<iceTimer, at>>
      BY <1>2, <2>1 DEF QueueCandidate, ArmTimer
    <3>2. QED
      BY <1>2, <3>1 DEF QueueCandidate
  <2>2. CASE iceReady /\ iceTimer = NoTimer
    <3>1. PICK t \in Timers : at[t] = "idle" /\ iceTimer' = t /\ at' = [at EXCEPT ![t] = "armed"]
      BY <1>2, <2>2 DEF QueueCandidate, ArmTimer
    <3>2. QED
      BY <1>2, <2>2, <3>1 DEF QueueCandidate
  <2>3. QED
    BY <2>1, <2>2
<1>3. CASE QueueEnd
  BY <1>3 DEF QueueEnd
<1>4. ASSUME NEW t \in Timers, TimerFires(t) PROVE IceInv'
  BY <1>4 DEF TimerFires
<1>5. ASSUME NEW g \in Goroutines, FlushReturns(g) PROVE IceInv'
  BY <1>5 DEF FlushReturns, NothingToFlush, Pending
<1>6. ASSUME NEW g \in Goroutines, FlushTakes(g) PROVE IceInv'
  <2>1. iceTimer' = NoTimer /\ iceReady
    BY <1>6 DEF FlushTakes, TakeBatch
  <2>2. \A h \in Goroutines \ {g} : at'[h] = at[h] \/ (at[h] = "armed" /\ at'[h] = "idle")
    BY <1>6, ParkKeeps DEF FlushTakes
  <2>3. at' \in [Goroutines -> {"idle", "armed", "flush", "send"}] /\ at'[g] = "send"
    BY <1>6, ParkKeeps DEF FlushTakes
  <2>4. QED
    BY <1>6, <2>1, <2>2, <2>3 DEF FlushTakes, TakeBatch
<1>7. ASSUME NEW g \in Goroutines, FlushSends(g) PROVE IceInv'
  BY <1>7 DEF FlushSends
<1>8. CASE StopICE
  BY <1>8, ParkKeeps DEF StopICE
<1>9. CASE UNCHANGED vars
  BY <1>9 DEF vars
<1>10. QED
  BY <1>1, <1>2, <1>3, <1>4, <1>5, <1>6, <1>7, <1>8, <1>9 DEF Next, Flush

LEMMA IceInvInit == Init => IceInv
BY Distinct DEF Init, IceInv, IceTypeOK, TimerSet, Held, Waiting

THEOREM IceInvariant == Spec => []IceInv
BY IceInvInit, IceInvStep, PTL DEF Spec

\* Every variable of the batching keeps its type.
THEOREM IceTypeCorrect == Spec => []IceTypeOK
<1>1. IceInv => IceTypeOK
  BY DEF IceInv
<1>2. QED
  BY <1>1, IceInvariant, PTL

----------------------------------------------------------------------------
\* Whatever waits has a flush coming.
LEMMA StrandedStep == IceInv /\ NoStranded /\ [Next]_vars => NoStranded'
<1> SUFFICES ASSUME IceInv, NoStranded, [Next]_vars PROVE NoStranded'
  OBVIOUS
<1> USE Distinct DEF IceInv, IceTypeOK, TimerSet, NoStranded, FlushComing, Goto, buffer,
        flags, flight, world, outbox
<1>1. CASE StartICE
  BY <1>1 DEF StartICE, Pending
<1>2. ASSUME NEW c \in Candidates, QueueCandidate(c) PROVE NoStranded'
  <2>1. CASE ~iceReady
    BY <1>2, <2>1 DEF QueueCandidate
  <2>2. CASE iceTimer # NoTimer
    BY <1>2, <2>2 DEF QueueCandidate, ArmTimer
  <2>3. CASE iceReady /\ iceTimer = NoTimer
    BY <1>2, <2>3 DEF QueueCandidate, ArmTimer
  <2>4. QED
    BY <2>1, <2>2, <2>3
<1>3. CASE QueueEnd
  BY <1>3 DEF QueueEnd
<1>4. ASSUME NEW t \in Timers, TimerFires(t) PROVE NoStranded'
  BY <1>4 DEF TimerFires
<1>5. ASSUME NEW g \in Goroutines, FlushReturns(g) PROVE NoStranded'
  BY <1>5 DEF FlushReturns, NothingToFlush, Pending
<1>6. ASSUME NEW g \in Goroutines, FlushTakes(g) PROVE NoStranded'
  BY <1>6 DEF FlushTakes, TakeBatch
<1>7. ASSUME NEW g \in Goroutines, FlushSends(g) PROVE NoStranded'
  <2>1. \A h \in Goroutines : at[h] \in {"flush", "armed"} => at'[h] = at[h]
    BY <1>7 DEF FlushSends
  <2>2. UNCHANGED <<iceBuf, iceEnd, iceTimer, iceReady, iceStopped>>
    BY <1>7 DEF FlushSends
  <2>3. QED
    BY <2>1, <2>2
<1>8. CASE StopICE
  BY <1>8 DEF StopICE
<1>9. CASE UNCHANGED vars
  BY <1>9 DEF vars
<1>10. QED
  BY <1>1, <1>2, <1>3, <1>4, <1>5, <1>6, <1>7, <1>8, <1>9 DEF Next, Flush

\* No candidate, and no end marker, is forgotten in the buffer, for any number
\* of timers (startICE, queueICE, flushICE).
THEOREM NeverStranded == Spec => []NoStranded
<1>1. Init => NoStranded
  BY DEF Init, NoStranded
<1>2. QED
  BY <1>1, StrandedStep, IceInvariant, PTL DEF Spec

----------------------------------------------------------------------------
\* What is in flight, without the union.
LEMMA InFlightMembers == \A c : c \in InFlight <=> \E g \in Goroutines : c \in batch[g]
BY DEF InFlight

\* A candidate moves from the buffer to one batch, and from there to the wire.
LEMMA OnceStep == IceInv /\ ExactlyOnce /\ [Next]_vars => ExactlyOnce'
<1> SUFFICES ASSUME IceInv, ExactlyOnce, [Next]_vars PROVE ExactlyOnce'
  OBVIOUS
<1> USE DEF IceInv, IceTypeOK, ExactlyOnce, buffer, flags, flight, world, outbox
\* Most steps leave the batches alone.
<1>0. ASSUME batch' = batch PROVE InFlight' = InFlight
  BY <1>0 DEF InFlight
<1>1. ASSUME UNCHANGED <<iceBuf, batch, gathered, sent>> PROVE ExactlyOnce'
  BY <1>0, <1>1
<1>2. ASSUME NEW c \in Candidates, QueueCandidate(c) PROVE ExactlyOnce'
  BY <1>0, <1>2 DEF QueueCandidate
<1>3. ASSUME NEW g \in Goroutines, FlushTakes(g) PROVE ExactlyOnce'
  <2>1. batch[g] = {}
    BY <1>3 DEF FlushTakes, Held
  <2>2. /\ batch'[g] = iceBuf /\ \A h \in Goroutines \ {g} : batch'[h] = batch[h]
        /\ iceBuf' = {} /\ UNCHANGED <<gathered, sent>>
    BY <1>3 DEF FlushTakes, TakeBatch
  <2>3. \A c : c \in InFlight' <=> \E h \in Goroutines : c \in batch'[h]
    BY DEF InFlight
  <2>4. InFlight' = InFlight \cup iceBuf
    BY <2>1, <2>2, <2>3, InFlightMembers
  <2>5. \A h \in Goroutines : iceBuf \cap batch[h] = {}
    BY InFlightMembers
  <2>6. QED
    BY <2>2, <2>4, <2>5
<1>4. ASSUME NEW g \in Goroutines, FlushSends(g) PROVE ExactlyOnce'
  <2>1. /\ batch'[g] = {} /\ \A h \in Goroutines \ {g} : batch'[h] = batch[h]
        /\ sent' = sent \cup batch[g] /\ UNCHANGED <<gathered, iceBuf>>
    BY <1>4 DEF FlushSends
  <2>2. \A c : c \in InFlight' <=> \E h \in Goroutines : c \in batch'[h]
    BY DEF InFlight
  <2>3. InFlight' = InFlight \ batch[g]
    BY <2>1, <2>2, InFlightMembers
  <2>4. batch[g] \subseteq InFlight
    BY InFlightMembers
  <2>5. QED
    BY <2>1, <2>3, <2>4
<1>5. CASE StartICE \/ QueueEnd \/ StopICE \/ UNCHANGED vars
  BY <1>5, <1>1 DEF StartICE, QueueEnd, StopICE, vars
<1>6. ASSUME NEW t \in Timers, TimerFires(t) PROVE ExactlyOnce'
  BY <1>6, <1>1 DEF TimerFires
<1>7. ASSUME NEW g \in Goroutines, FlushReturns(g) PROVE ExactlyOnce'
  BY <1>7, <1>1 DEF FlushReturns
<1>8. QED
  BY <1>2, <1>3, <1>4, <1>5, <1>6, <1>7 DEF Next, Flush

\* Concurrent flushes neither lose a candidate nor send one twice.
THEOREM EachExactlyOnce == Spec => []ExactlyOnce
<1>1. Init => ExactlyOnce
  BY DEF Init, ExactlyOnce, InFlight
<1>2. QED
  BY <1>1, OnceStep, IceInvariant, PTL DEF Spec

\* Once stopICE ran, no goroutine takes a batch (flushICE tests iceStopped).
THEOREM QuietOnceStopped == Spec => QuietAfterStop
<1>1. IceInv /\ [Next]_vars =>
        [iceStopped => iceBuf' = iceBuf /\ InFlight' \subseteq InFlight]_vars
  <2> SUFFICES ASSUME IceInv, [Next]_vars, iceStopped
               PROVE  iceBuf' = iceBuf /\ InFlight' \subseteq InFlight
    OBVIOUS
  <2> USE DEF buffer, flags, flight, world, outbox
  <2>1. ASSUME UNCHANGED <<iceBuf, batch>>
        PROVE  iceBuf' = iceBuf /\ InFlight' \subseteq InFlight
    BY <2>1 DEF InFlight
  <2>2. ASSUME NEW g \in Goroutines, FlushSends(g)
        PROVE  iceBuf' = iceBuf /\ InFlight' \subseteq InFlight
    <3>1. \A h \in Goroutines : batch'[h] \subseteq batch[h]
      BY <2>2 DEF FlushSends, IceInv, IceTypeOK
    <3>2. QED
      BY <2>2, <3>1 DEF FlushSends, InFlight
  <2>3. ~\E g \in Goroutines : FlushTakes(g)
    BY DEF FlushTakes, NothingToFlush
  <2>4. ~\E c \in Candidates : QueueCandidate(c)
    BY DEF QueueCandidate
  <2>5. QED
    BY <2>1, <2>2, <2>3, <2>4 DEF Next, Flush, StartICE, QueueEnd, StopICE, TimerFires,
       FlushReturns, vars
<1>2. QED
  BY <1>1, IceInvariant, PTL DEF Spec, QuietAfterStop

\* The end marker is made once pion is done, and taken with the whole buffer.
EndKnown ==
  /\ iceEnd => gatherDone
  /\ endSent \/ (\E g \in Goroutines : last[g]) => gatherDone /\ iceBuf = {}

LEMMA EndStep == IceInv /\ EndKnown /\ [Next]_vars => EndKnown'
<1> SUFFICES ASSUME IceInv, EndKnown, [Next]_vars PROVE EndKnown'
  OBVIOUS
<1> USE DEF IceInv, IceTypeOK, EndKnown, buffer, flags, flight, world, outbox
<1>1. ASSUME NEW c \in Candidates, QueueCandidate(c) PROVE EndKnown'
  BY <1>1 DEF QueueCandidate
<1>2. ASSUME NEW g \in Goroutines, FlushTakes(g) PROVE EndKnown'
  BY <1>2 DEF FlushTakes, TakeBatch
<1>3. ASSUME NEW g \in Goroutines, FlushSends(g) PROVE EndKnown'
  BY <1>3 DEF FlushSends
<1>4. CASE StartICE \/ QueueEnd \/ StopICE \/ UNCHANGED vars
  BY <1>4 DEF StartICE, QueueEnd, StopICE, vars
<1>5. CASE (\E t \in Timers : TimerFires(t)) \/ (\E g \in Goroutines : FlushReturns(g))
  BY <1>5 DEF TimerFires, FlushReturns
<1>6. QED
  BY <1>1, <1>2, <1>3, <1>4, <1>5 DEF Next, Flush

\* Nothing is in flight, or sent, before the answer: no goroutine can be on
\* its way to a flush until startICE ran.
LEMMA AnswerStep ==
  IceInv /\ IceInv' /\ WireOrder /\ [Next]_vars
    => (~iceReady => InFlight \cup sent = {} /\ ~endSent)'
<1> SUFFICES ASSUME IceInv, WireOrder, IceInv', [Next]_vars, ~iceReady'
             PROVE  InFlight' \cup sent' = {} /\ ~endSent'
  OBVIOUS
<1>1. ~iceReady
  BY DEF Next, StartICE, QueueEnd, StopICE, QueueCandidate, TimerFires, Flush, FlushReturns,
     FlushTakes, FlushSends, vars, flags
<1>2. InFlight' = {}
  BY DEF IceInv, Held, Waiting, InFlight
<1>3. UNCHANGED <<sent, endSent>>
  BY <1>1 DEF Next, StartICE, QueueEnd, StopICE, QueueCandidate, TimerFires, Flush,
     FlushReturns, FlushTakes, FlushSends, vars, outbox, IceInv, Waiting
<1>4. QED
  BY <1>1, <1>2, <1>3 DEF WireOrder

\* The answer, then the candidates, then the end marker, but for the batches
\* other goroutines took before it.
THEOREM WireAlwaysInOrder == Spec => []WireOrder
<1>1. Init => EndKnown /\ ExactlyOnce /\ WireOrder
  BY DEF Init, EndKnown, ExactlyOnce, WireOrder, InFlight
<1>2. IceInv /\ IceInv' /\ EndKnown /\ ExactlyOnce /\ WireOrder /\ [Next]_vars
        => EndKnown' /\ ExactlyOnce' /\ WireOrder'
  <2> SUFFICES ASSUME IceInv, IceInv', EndKnown, ExactlyOnce, WireOrder, [Next]_vars
               PROVE  EndKnown' /\ ExactlyOnce' /\ WireOrder'
    OBVIOUS
  <2>1. EndKnown' /\ ExactlyOnce'
    BY EndStep, OnceStep
  <2>2. (endSent => iceBuf = {} /\ gathered = InFlight \cup sent)'
    BY <2>1 DEF EndKnown, ExactlyOnce
  <2>3. QED
    BY <2>1, <2>2, AnswerStep DEF WireOrder
<1>3. QED
  BY <1>1, <1>2, IceInvariant, PTL DEF Spec
============================================================================
