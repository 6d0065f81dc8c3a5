-------------------------- MODULE MC_AuthHandshake --------------------------
(* Model-checking instance of AuthHandshake: two handler goroutines, three *)
(* state tokens, the 300 s TTL as 2 ticks and the 3 s client timeout as 1, *)
(* so that the timeout is shorter than the TTL as in the code, and a       *)
(* clock long enough for a session to expire during a callback.            *)
EXTENDS AuthHandshake, TLC

CONSTANTS c1, c2, s1, s2, s3

MCCallers == {c1, c2}
MCStates == {s1, s2, s3}

MCSymmetry == Permutations(MCCallers) \cup Permutations(MCStates)
=============================================================================
