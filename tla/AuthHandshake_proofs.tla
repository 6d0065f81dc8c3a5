------------------------- MODULE AuthHandshake_proofs -------------------------
(***************************************************************************)
(* Proofs, for every number of handler goroutines and states and every TTL *)
(* and timeout, that the login and callback handlers stay well typed,      *)
(* grant tokens only for logins this server issued (CSRF), and store every *)
(* issued session unexpired when the client timeout is below the TTL.     *)
(*                                                                         *)
(* TokensOnlyForIssuedLogins is not inductive: a callback grants tokens at *)
(* its validate step for the state it consumed two steps earlier, and      *)
(* nothing in the property says that state was issued.  CallbackChain      *)
(* follows the state along the callback: a stored session was issued with  *)
(* its URL (the session is stored by the step that issues it); a handler   *)
(* at the consume step holds the state its GetSession validated; a handler *)
(* past the delete holds an issued state.                                  *)
(***************************************************************************)
EXTENDS AuthHandshake, SessionStore_proofs

CallbackChain ==
    /\ DOMAIN sessions \subseteq issued
    /\ \A c \in Callers :
          /\ hpc[c].pc = "consume" =>
                vc[c].pc = "delete" /\ vc[c].st = hpc[c].st
          /\ hpc[c].pc \in {"exchange", "validate"} => hpc[c].st \in issued

HInv == HandshakeTypeOK /\ CallbackChain /\ TokensOnlyForIssuedLogins


\* The store's own steps, taken by a handler or by the sweep and the clock.
LEMMA StoreSteps ==
    ASSUME StoreTypeOK,
           \/ \E c \in Callers, st \in States : ConsumeGet(c, st)
           \/ \E c \in Callers : ConsumeDelete(c) \/ ConsumeDeleteNotFound(c)
           \/ CleanupExpiredSessions \/ Tick \/ TimeBoundReached
    PROVE  StoreTypeOK'
BY StoreTypeStep DEF StoreNext

\* The sweep only removes sessions.
LEMMA SweepShrinks ==
    ASSUME StoreTypeOK, CleanupExpiredSessions
    PROVE  DOMAIN sessions' \subseteq DOMAIN sessions
BY RestrictType DEF CleanupExpiredSessions, StoreTypeOK

LEMMA HInvInit == Init => HInv
BY StoreAssumption, HandshakeAssumption
   DEF Init, StoreInit, HInv, HandshakeTypeOK, StoreTypeOK, CallbackChain,
       TokensOnlyForIssuedLogins, HPCState, VCState, Free, Idle, Time

LEMMA HInvStep == HInv /\ [Next]_vars => HInv'
<1> SUFFICES ASSUME HInv, [Next]_vars
             PROVE  HInv'
  OBVIOUS
<1> USE DEF HInv, HandshakeTypeOK, CallbackChain, TokensOnlyForIssuedLogins,
           StoreTypeOK
<1>1. ASSUME NEW c \in Callers, NEW st \in States, NEW req \in Requests,
             LoginStart(c, st, req)
      PROVE  HInv'
  <2>1. now \in Time
    BY DEF StoreTypeOK
  <2>2. RedirectFor(req) \in URIs
    BY DEF RedirectFor, URIs, NoRedirect
  <2>3. StoreTypeOK'
    BY <1>1 DEF LoginStart, StoreTypeOK
  <2>4. QED
    BY <1>1, <2>1, <2>2, <2>3 DEF LoginStart, HPCState, Free
<1>2. ASSUME NEW c \in Callers, LoginDiscoveryOK(c)
      PROVE  HInv'
  <2>1. hpc[c].st \in States /\ hpc[c].ts \in Time
    BY <1>2 DEF LoginDiscoveryOK, HPCState, Free
  <2>2. StoreTypeOK'
    BY <1>2, <2>1 DEF LoginDiscoveryOK, StoreSession, StoreTypeOK
  <2>3. DOMAIN sessions' = DOMAIN sessions \cup {hpc[c].st}
        /\ issued' = issued \cup {hpc[c].st}
    BY <1>2 DEF LoginDiscoveryOK, StoreSession
  <2>4. QED
    BY <1>2, <2>1, <2>2, <2>3 DEF LoginDiscoveryOK, HPCState, Free
<1>3. ASSUME NEW c \in Callers, LoginDiscoveryFail(c)
      PROVE  HInv'
  BY <1>3 DEF LoginDiscoveryFail, HPCState, Free, storeVars
<1>4. ASSUME NEW c \in Callers, NEW st \in States, CallbackGet(c, st)
      PROVE  HInv'
  <2>1. StoreTypeOK'
    BY <1>4, StoreSteps DEF CallbackGet
  <2>2. vc'[c] = Validated(st, sessions[st]) /\ hpc'[c] = [pc |-> "consume", st |-> st]
    BY <1>4 DEF CallbackGet, ConsumeGet, StoreTypeOK
  <2>3. \A u \in Callers \ {c} : vc'[u] = vc[u] /\ hpc'[u] = hpc[u]
    BY <1>4 DEF CallbackGet, ConsumeGet
  <2>4. UNCHANGED <<sessions, logins, issued, granted>>
    BY <1>4 DEF CallbackGet, ConsumeGet
  <2>a. hpc' \in [Callers -> HPCState]
    BY <1>4 DEF CallbackGet, HPCState, Free
  <2>b. ASSUME NEW u \in Callers
        PROVE  /\ hpc'[u].pc = "consume" =>
                     vc'[u].pc = "delete" /\ vc'[u].st = hpc'[u].st
               /\ hpc'[u].pc \in {"exchange", "validate"} => hpc'[u].st \in issued'
    <3>1. CASE u = c
      BY <3>1, <2>2, <2>3, <2>4 DEF Validated
    <3>2. CASE u # c
      BY <3>2, <2>2, <2>3, <2>4 DEF Validated
    <3>3. QED
      BY <3>1, <3>2
  <2>5. QED
    BY <2>1, <2>4, <2>a, <2>b
<1>5. ASSUME NEW c \in Callers, CallbackDelete(c)
      PROVE  HInv'
  <2>1. StoreTypeOK'
    BY <1>5, StoreSteps DEF CallbackDelete
  <2>2. hpc[c].pc = "consume" /\ vc[c].st = hpc[c].st
        /\ vc[c].st \in DOMAIN sessions
    BY <1>5 DEF CallbackDelete, ConsumeDelete
  <2>3. hpc[c].st \in issued /\ hpc[c].st \in States
    BY <2>2 DEF HPCState, Free
  <2>4. DOMAIN sessions' \subseteq DOMAIN sessions
    BY <1>5, RestrictType DEF CallbackDelete, ConsumeDelete, DeleteSession,
                              StoreTypeOK
  <2>5. /\ hpc'[c] = [pc |-> "exchange", st |-> hpc[c].st]
        /\ \A u \in Callers \ {c} : vc'[u] = vc[u] /\ hpc'[u] = hpc[u]
        /\ UNCHANGED <<logins, issued, granted>>
    BY <1>5 DEF CallbackDelete, ConsumeDelete, StoreTypeOK
  <2>a. hpc' \in [Callers -> HPCState]
    BY <1>5 DEF CallbackDelete, HPCState, Free
  <2>b. ASSUME NEW u \in Callers
        PROVE  /\ hpc'[u].pc = "consume" =>
                     vc'[u].pc = "delete" /\ vc'[u].st = hpc'[u].st
               /\ hpc'[u].pc \in {"exchange", "validate"} => hpc'[u].st \in issued'
    <3>1. CASE u = c
      BY <3>1, <2>3, <2>4, <2>5
    <3>2. CASE u # c
      BY <3>2, <2>3, <2>4, <2>5
    <3>3. QED
      BY <3>1, <3>2
  <2>6. QED
    BY <2>1, <2>3, <2>4, <2>5, <2>a, <2>b
<1>6. ASSUME NEW c \in Callers, CallbackDeleteNotFound(c)
      PROVE  HInv'
  <2>1. StoreTypeOK'
    BY <1>6, StoreSteps DEF CallbackDeleteNotFound
  <2>2. /\ hpc'[c] = Free
        /\ \A u \in Callers \ {c} : vc'[u] = vc[u] /\ hpc'[u] = hpc[u]
        /\ UNCHANGED <<sessions, logins, issued, granted>>
    BY <1>6 DEF CallbackDeleteNotFound, ConsumeDeleteNotFound, StoreTypeOK
  <2>a. hpc' \in [Callers -> HPCState]
    BY <1>6 DEF CallbackDeleteNotFound, HPCState, Free
  <2>b. ASSUME NEW u \in Callers
        PROVE  /\ hpc'[u].pc = "consume" =>
                     vc'[u].pc = "delete" /\ vc'[u].st = hpc'[u].st
               /\ hpc'[u].pc \in {"exchange", "validate"} => hpc'[u].st \in issued'
    <3>1. CASE u = c
      BY <3>1, <2>2 DEF Free
    <3>2. CASE u # c
      BY <3>2, <2>2 DEF Free
    <3>3. QED
      BY <3>1, <3>2
  <2>3. QED
    BY <2>1, <2>2, <2>a, <2>b
<1>7. ASSUME NEW c \in Callers,
             CallbackExchangeOK(c) \/ CallbackExchangeFail(c) \/ CallbackValidateFail(c)
      PROVE  HInv'
  BY <1>7 DEF CallbackExchangeOK, CallbackExchangeFail, CallbackValidateFail,
              storeVars, HPCState, Free
<1>8. ASSUME NEW c \in Callers, CallbackValidateOK(c)
      PROVE  HInv'
  <2>1. hpc[c].pc = "validate" /\ hpc[c].st \in issued /\ hpc[c].st \in States
    BY <1>8 DEF CallbackValidateOK, HPCState, Free
  <2>2. granted' = [granted EXCEPT ![hpc[c].st] = @ + 1]
    BY <1>8 DEF CallbackValidateOK
  <2>3. QED
    BY <1>8, <2>1, <2>2 DEF CallbackValidateOK, storeVars, HPCState, Free
<1>9. CASE CleanupExpiredSessions /\ UNCHANGED handshakeVars
  <2>1. StoreTypeOK' /\ DOMAIN sessions' \subseteq DOMAIN sessions
    BY <1>9, StoreSteps, SweepShrinks
  <2>2. QED
    BY <1>9, <2>1 DEF CleanupExpiredSessions, handshakeVars
<1>10. CASE (Tick \/ TimeBoundReached) /\ UNCHANGED handshakeVars
  <2>1. StoreTypeOK'
    BY <1>10, StoreSteps
  <2>2. QED
    BY <1>10, <2>1 DEF Tick, TimeBoundReached, storeVars, handshakeVars
<1>11. CASE UNCHANGED vars
  BY <1>11 DEF vars, storeVars, handshakeVars, StoreTypeOK
<1>12. QED
  BY <1>1, <1>2, <1>3, <1>4, <1>5, <1>6, <1>7, <1>8, <1>9, <1>10, <1>11
     DEF Next

-----------------------------------------------------------------------------
\* Every reachable state of the handlers and the store is well typed.
THEOREM HandshakeTypeCorrect == Spec => []HandshakeTypeOK
<1>1. HInv => HandshakeTypeOK
  BY DEF HInv
<1>2. QED
  BY <1>1, HInvInit, HInvStep, PTL DEF Spec

\* CSRF protection, for any number of handlers and states: a callback
\* answers 200 with tokens only for a state whose auth URL this server
\* returned, whatever states callbacks carry and however they interleave
\* with failing logins, the sweep and one another.
THEOREM TokensOnlyForIssuedLoginsHolds == Spec => []TokensOnlyForIssuedLogins
<1>1. HInv => TokensOnlyForIssuedLogins
  BY DEF HInv
<1>2. QED
  BY <1>1, HInvInit, HInvStep, PTL DEF Spec

\* The step that issues a login URL stores, with the Timestamp taken before
\* the discovery fetch, a session that is not expired, when the client
\* timeout does not exceed the TTL (3 s against 300 s in the code).
LEMMA IssuedAliveStep ==
    ASSUME HTTPTimeout <= TTL, HInv, [Next]_vars
    PROVE  \A st \in States :
              st \in issued' \ issued =>
                 st \in DOMAIN sessions' /\ ~Expired(sessions'[st])
<1> SUFFICES ASSUME NEW st \in States, st \in issued' \ issued
             PROVE  st \in DOMAIN sessions' /\ ~Expired(sessions'[st])
  OBVIOUS
<1>1. PICK c \in Callers : LoginDiscoveryOK(c)
  BY DEF Next, LoginStart, LoginDiscoveryFail, CallbackGet, CallbackDelete,
         CallbackDeleteNotFound, CallbackExchangeOK, CallbackExchangeFail,
         CallbackValidateOK, CallbackValidateFail, handshakeVars, vars
<1>2. st = hpc[c].st /\ hpc[c].ts \in Time /\ now \in Time
  BY <1>1 DEF LoginDiscoveryOK, HInv, HandshakeTypeOK, StoreTypeOK, HPCState, Free
<1>3. st \in DOMAIN sessions' /\ sessions'[st] = hpc[c].ts /\ now' = now
  BY <1>1, <1>2 DEF LoginDiscoveryOK, StoreSession
<1>4. now - hpc[c].ts <= HTTPTimeout
  BY <1>1 DEF LoginDiscoveryOK, WithinTimeout
<1>5. QED
  BY <1>2, <1>3, <1>4, StoreAssumption, HandshakeAssumption DEF Expired, Time

\* Every login URL handed out has a live session behind it: the session
\* InitiateLogin stamps before its blocking discovery fetch is still
\* unexpired when the handler stores it, because the injected client's
\* timeout ends the fetch before the TTL.
THEOREM IssuedSessionAliveHolds ==
    ASSUME HTTPTimeout <= TTL
    PROVE  Spec => IssuedSessionAlive
<1>1. HInv /\ [Next]_vars =>
        [\A st \in States :
            st \in issued' \ issued =>
               st \in DOMAIN sessions' /\ ~Expired(sessions'[st])]_vars
  BY IssuedAliveStep
<1>2. QED
  BY <1>1, HInvInit, HInvStep, PTL DEF Spec, IssuedSessionAlive

=============================================================================
