------------------------ MODULE TokenVerifier_proofs ------------------------
(***************************************************************************)
(* Proofs, for every value of the constants, that the token verifier stays *)
(* well typed and verifies only against a loaded key, however many callers *)
(* race on the key cache and however often the provider rotates its key.   *)
(*                                                                         *)
(* Neither invariant is inductive alone.  VerifyAccept records the key it  *)
(* reads from t.publicKey, and the type invariant needs that key to be a   *)
(* real key: this holds because a caller reaches the verify step only      *)
(* after a key was cached (LoadCached) or stored (StorePublicKey), and     *)
(* nothing ever resets the cache to nil (VerifyWithLoadedKey); and that    *)
(* needs a stored key to be real (the type invariant).                     *)
(***************************************************************************)
EXTENDS TokenVerifier, TLAPS

IInv == VerifierTypeOK /\ VerifyWithLoadedKey

\* What ExtractTokenFromHeader returns for a header of the model.
LEMMA ExtractType ==
    ASSUME NEW h \in Headers
    PROVE  ExtractTokenFromHeader(h) \in Tokens \cup {NoToken}
<1>1. CASE h = [scheme |-> "", tok |-> NoToken]
  BY <1>1 DEF ExtractTokenFromHeader
<1>2. CASE h \in [scheme : {"Bearer", "Basic"}, tok : Tokens \cup {NoToken}]
  BY <1>2 DEF ExtractTokenFromHeader
<1>3. QED
  BY <1>1, <1>2 DEF Headers

\* The fields of a caller's state, by its step.
LEMMA VPCFields ==
    ASSUME NEW v \in VPCState
    PROVE  /\ v.pc \in {"fetch", "verify", "store"} => v.tok \in Tokens
           /\ v.pc = "store" => v.key \in Keys
           /\ v.pc \notin {"fetch", "verify", "store"} => v = Idle
BY DEF VPCState, Idle

-----------------------------------------------------------------------------
\* IInv holds in every initial state.
LEMMA IInvInit == VerifierInit => IInv
BY VerifierAssumption DEF VerifierInit, IInv, VerifierTypeOK, VerifyWithLoadedKey,
   VPCState, Idle, Time

\* Every step preserves IInv.
LEMMA IInvStep == IInv /\ [VerifierNext]_vars => IInv'
<1> SUFFICES ASSUME IInv, [VerifierNext]_vars
             PROVE  IInv'
  OBVIOUS
<1> USE DEF IInv, VerifierTypeOK
<1>1. ASSUME NEW c \in Callers, NEW h \in Headers,
             ExtractTokenFromHeader(h) # NoToken,
             LoadCached(c, ExtractTokenFromHeader(h))
             \/ LoadStart(c, ExtractTokenFromHeader(h))
      PROVE  IInv'
  <2>1. ExtractTokenFromHeader(h) \in Tokens
    BY <1>1, ExtractType
  <2>2. CASE LoadCached(c, ExtractTokenFromHeader(h))
    BY <2>1, <2>2 DEF LoadCached, VPCState, VerifyWithLoadedKey
  <2>3. CASE LoadStart(c, ExtractTokenFromHeader(h))
    BY <2>1, <2>3 DEF LoadStart, VPCState, VerifyWithLoadedKey
  <2>4. QED
    BY <1>1, <2>2, <2>3
<1>2. ASSUME NEW c \in Callers, FetchReceive(c)
      PROVE  IInv'
  <2>1. vpc[c].tok \in Tokens
    BY <1>2, VPCFields DEF FetchReceive
  <2>2. QED
    BY <1>2, <2>1 DEF FetchReceive, VPCState, VerifyWithLoadedKey
<1>3. ASSUME NEW c \in Callers, FetchFail(c)
      PROVE  IInv'
  BY <1>3 DEF FetchFail, VPCState, VerifyWithLoadedKey, Idle
<1>4. ASSUME NEW c \in Callers, StorePublicKey(c)
      PROVE  IInv'
  <2>1. vpc[c].tok \in Tokens /\ vpc[c].key \in Keys
    BY <1>4, VPCFields DEF StorePublicKey
  <2>2. QED
    BY <1>4, <2>1 DEF StorePublicKey, VPCState, VerifyWithLoadedKey
<1>5. ASSUME NEW c \in Callers, VerifyAccept(c)
      PROVE  IInv'
  <2>1. vpc[c].tok \in Tokens /\ publicKey \in Keys
    BY <1>5, VPCFields DEF VerifyAccept, VerifyWithLoadedKey
  <2>2. VerifierTypeOK'
    BY <1>5, <2>1 DEF VerifyAccept, VPCState
  <2>3. VerifyWithLoadedKey'
    BY <1>5 DEF VerifyAccept, VerifyWithLoadedKey, Idle
  <2>4. QED
    BY <2>2, <2>3
<1>6. ASSUME NEW c \in Callers, VerifyReject(c)
      PROVE  IInv'
  BY <1>6 DEF VerifyReject, VPCState, VerifyWithLoadedKey, Idle
<1>7. ASSUME NEW k \in Keys \cup {NoKey}, Rotate(k)
      PROVE  IInv'
  BY <1>7 DEF Rotate, VerifyWithLoadedKey
<1>8. CASE Tick
  BY <1>8, VerifierAssumption DEF Tick, Time, VerifyWithLoadedKey
<1>9. CASE TimeBoundReached \/ UNCHANGED vars
  BY <1>9 DEF TimeBoundReached, vars, VerifyWithLoadedKey
<1>10. QED
  BY <1>1, <1>2, <1>3, <1>4, <1>5, <1>6, <1>7, <1>8, <1>9 DEF VerifierNext

-----------------------------------------------------------------------------
\* Every reachable state is well typed: in particular, every accepted token
\* was checked against a real key, never against the nil cache.
THEOREM VerifierTypeCorrect == VerifierSpec => []VerifierTypeOK
<1>1. IInv => VerifierTypeOK
  BY DEF IInv
<1>2. QED
  BY <1>1, IInvInit, IInvStep, PTL DEF VerifierSpec

\* Whatever the interleaving of callers loading, storing and re-reading
\* t.publicKey, a caller past loadPublicKey verifies with a real key.
THEOREM VerifyWithLoadedKeyHolds == VerifierSpec => []VerifyWithLoadedKey
<1>1. IInv => VerifyWithLoadedKey
  BY DEF IInv
<1>2. QED
  BY <1>1, IInvInit, IInvStep, PTL DEF VerifierSpec

=============================================================================
