------------------------------- MODULE Inbox -------------------------------
(***************************************************************************)
(* What becomes of a message of a viewer, by its sender, its version and   *)
(* its timestamp: handleMessage (src/mqtt.go), tsAcceptable                *)
(* (src/protocol.go), handleEnvelope (src/agent.go).  Seconds and          *)
(* Durations are signed integers that wrap, of scaled widths, and a second *)
(* is one unit of a Duration; time.Unix and Time.Sub are Go's.             *)
(***************************************************************************)
EXTENDS Integers

CONSTANTS
  SecondsHalf,   \* half the range of a Unix time (2^63)
  DurationHalf,  \* half the range of a Duration, counted in seconds (2^33)
  UnixToInternal,\* seconds from year 1 to 1970
  Year2024,      \* the Unix time from which the clock counts as synchronized
  maxClockSkew

ASSUME InboxAssumption ==
  /\ DurationHalf \in Nat \ {0} /\ SecondsHalf \in Nat /\ DurationHalf < SecondsHalf
  /\ UnixToInternal \in Nat /\ Year2024 \in Nat
  /\ maxClockSkew \in Nat /\ maxClockSkew < DurationHalf - 1

Signed(half)  == -half .. half - 1
Wrap(x, half) == ((x + half) % (2 * half)) - half

maxDuration == DurationHalf - 1
minDuration == -DurationHalf

\* time.Unix counts from year 1: the sum wraps.
Unix(ts) == Wrap(ts + UnixToInternal, SecondsHalf)

\* Time.Sub saturates.
SubWrapping(t, u) == Wrap(t - u, DurationHalf)
Sub(t, u) ==
  CASE t - u > maxDuration -> maxDuration
    [] t - u < minDuration -> minDuration
    [] OTHER -> t - u

clockSynced(now) == now >= Year2024

tsAcceptable(ts, now) ==
  \/ ~clockSynced(now)
  \/ LET d == Sub(Unix(now), Unix(ts))
     IN  (IF d < 0 THEN Wrap(-d, DurationHalf) ELSE d) <= maxClockSkew

\* A message: sender says whether the topic names one valid identifier,
\* version whether the payload is JSON of a version up to ours.
Types == {"offer", "ice", "bye", "cmd"}

Receive(msg, now) ==
  IF ~msg.sender \/ ~msg.version THEN "ignored"
  ELSE IF ~tsAcceptable(msg.ts, now)
       THEN IF msg.type = "offer" THEN "error stale" ELSE "ignored"
  ELSE IF msg.type \in Types THEN msg.type ELSE "ignored"

----------------------------------------------------------------------------
\* "messages whose `ts` is more than 30 s away from the local clock are
\* dropped (an `offer` gets `error stale`)" (README.md:61) holds but for one
\* range: the age of a message from 292 years ahead saturates at the minimum
\* Duration, which is its own opposite and below any tolerance.
TooFarAhead(ts, now) ==
  /\ ts - now > maxDuration
  /\ ts + UnixToInternal \in Signed(SecondsHalf)

HandledIffTimely(msg, now) ==
  LET genuine == msg.sender /\ msg.version
      timely  == \/ ~clockSynced(now) \/ TooFarAhead(msg.ts, now)
                 \/ msg.ts \in now - maxClockSkew .. now + maxClockSkew
  IN  Receive(msg, now) =
        CASE genuine /\ timely /\ msg.type \in Types   -> msg.type
          [] genuine /\ ~timely /\ msg.type = "offer"  -> "error stale"
          [] OTHER                                     -> "ignored"
=============================================================================
