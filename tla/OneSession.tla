----------------------------- MODULE OneSession -----------------------------
(***************************************************************************)
(* What the agent promises about its camera (src/README.md, "Sessions"):   *)
(* one session at a time.  A session may be granted the camera only while  *)
(* nobody holds it, at most once, and gives it back before the next one.   *)
(***************************************************************************)
CONSTANTS Sessions, Nobody

VARIABLES
  holder,  \* the session that holds the camera, or Nobody
  spent    \* the sessions that were granted it or turned down

vars == <<holder, spent>>

Init == holder = Nobody /\ spent = {}

Grant(s) ==
  /\ holder = Nobody
  /\ s \notin spent
  /\ holder' = s
  /\ spent' = spent \cup {s}

TurnDown(s) ==
  /\ s \notin spent
  /\ spent' = spent \cup {s}
  /\ UNCHANGED holder

Release ==
  /\ holder # Nobody
  /\ holder' = Nobody
  /\ UNCHANGED spent

Next == Release \/ \E s \in Sessions : Grant(s) \/ TurnDown(s)

Spec == Init /\ [][Next]_vars
============================================================================
