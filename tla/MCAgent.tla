------------------------------ MODULE MCAgent ------------------------------
(* Agent for TLC: the Session objects and the pairs are interchangeable,    *)
(* and a shutdown is followed until it has cleared the session it read.     *)
EXTENDS Agent, TLC

Symmetry == Permutations(Sessions) \cup Permutations(Pairs)

UntilCleared == sp \in {"up", "clear"}
============================================================================
