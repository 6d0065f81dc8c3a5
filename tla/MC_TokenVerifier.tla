--------------------------- MODULE MC_TokenVerifier ---------------------------
(***************************************************************************)
(* Small instances of TokenVerifier: two provider keys, and a handful of   *)
(* tokens chosen so that every check of ValidateToken decides a case: a    *)
(* token of each key, one expiring inside the run, an HS256 token and one  *)
(* without an exp claim.                                                   *)
(***************************************************************************)
EXTENDS TokenVerifier, TLC

CONSTANTS c1, c2, k1, k2

MCCallers == {c1, c2}
MCKeys == {k1, k2}

MCTokens ==
    { [alg |-> "RS256", signer |-> k1, hasExp |-> TRUE,  exp |-> 2],
      [alg |-> "RS256", signer |-> k2, hasExp |-> TRUE,  exp |-> 3],
      [alg |-> "HS256", signer |-> k1, hasExp |-> TRUE,  exp |-> 3],
      [alg |-> "RS256", signer |-> k1, hasExp |-> FALSE, exp |-> 0] }

MCSymmetry == Permutations(MCCallers)
=============================================================================
