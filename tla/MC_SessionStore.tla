--------------------------- MODULE MC_SessionStore ---------------------------
(* Model-checking instance of SessionStore: two concurrent callers, three  *)
(* state tokens, the 300-second TTL scaled to 2 ticks, and a clock that    *)
(* runs far enough past it for sessions to expire while callers are        *)
(* between GetSession and DeleteSession.                                   *)
EXTENDS SessionStore, TLC

CONSTANTS c1, c2, s1, s2, s3

MCCallers == {c1, c2}
MCStates == {s1, s2, s3}

\* Callers and state tokens are interchangeable: safety runs only.
MCSymmetry == Permutations(MCCallers) \cup Permutations(MCStates)
=============================================================================
