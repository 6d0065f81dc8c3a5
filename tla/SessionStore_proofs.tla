------------------------- MODULE SessionStore_proofs -------------------------
(***************************************************************************)
(* Proofs, for every value of the constants, of the session store's type   *)
(* invariant and of its single-use guarantee.                              *)
(*                                                                         *)
(* SingleUse is not inductive by itself: a step of ConsumeDelete raises    *)
(* consumed[st], and SingleUse alone does not say that consumed[st] was 0  *)
(* before.  The strengthening records why: a state is consumed only once   *)
(* it was drawn by InitiateLogin, an entry still in the map has not been   *)
(* consumed (DeleteSession removes it in the same step), and a state, once *)
(* drawn, is never drawn again, so a consumed entry cannot come back.      *)
(***************************************************************************)
EXTENDS SessionStore, TLAPS

\* The strengthening of SingleUse.
ConsumeInv ==
    /\ DOMAIN sessions \subseteq used
    /\ \A st \in States \ used : consumed[st] = 0
    /\ \A st \in DOMAIN sessions : consumed[st] = 0
    /\ SingleUse

IInv == StoreTypeOK /\ ConsumeInv

\* A caller between GetSession and DeleteSession holds a state that was
\* drawn, and, while that state is still in the map, the very timestamp
\* stored under it: states are never stored twice.
ReadStillCurrent ==
    \A c \in Callers :
        vc[c].pc = "delete" =>
            /\ vc[c].st \in used
            /\ vc[c].st \in DOMAIN sessions => sessions[vc[c].st] = vc[c].ts

SweepInv ==
    /\ StoreTypeOK
    /\ DOMAIN sessions \subseteq used
    /\ ReadStillCurrent
    /\ ValidatedNotSwept

\* A caller between GetSession and DeleteSession holds a state and a time.
LEMMA ValidatedType ==
    ASSUME NEW v \in VCState, v.pc = "delete"
    PROVE  v.st \in States /\ v.ts \in Time
BY DEF VCState, Idle

\* Restricting the map keeps it a map from states to times.
LEMMA RestrictType ==
    ASSUME NEW f, NEW S, DOMAIN f \subseteq States,
           \A st \in DOMAIN f : f[st] \in Time,
           S \subseteq DOMAIN f
    PROVE  /\ DOMAIN Restrict(f, S) = S
           /\ \A st \in S : Restrict(f, S)[st] = f[st]
BY DEF Restrict

-----------------------------------------------------------------------------
\* Every step keeps the state well typed.
LEMMA StoreTypeStep == StoreTypeOK /\ [StoreNext]_storeVars => StoreTypeOK'
<1> SUFFICES ASSUME StoreTypeOK, [StoreNext]_storeVars
             PROVE  StoreTypeOK'
  OBVIOUS
<1>1. ASSUME NEW st \in States, NEW ts \in Time, Store(st, ts)
      PROVE  StoreTypeOK'
  BY <1>1 DEF Store, StoreSession, StoreTypeOK
<1>2. ASSUME NEW c \in Callers, NEW st \in States, ConsumeGet(c, st)
      PROVE  StoreTypeOK'
  BY <1>2 DEF ConsumeGet, GetSessionFound, Validated, VCState, StoreTypeOK
<1>3. ASSUME NEW c \in Callers, ConsumeDelete(c)
      PROVE  StoreTypeOK'
  <2>1. vc[c].st \in States
    BY <1>3, ValidatedType DEF ConsumeDelete, StoreTypeOK
  <2>2. QED
    BY <1>3, <2>1, RestrictType
       DEF ConsumeDelete, DeleteSession, StoreTypeOK, VCState, Idle
<1>4. ASSUME NEW c \in Callers, ConsumeDeleteNotFound(c)
      PROVE  StoreTypeOK'
  BY <1>4 DEF ConsumeDeleteNotFound, StoreTypeOK, VCState, Idle
<1>5. CASE CleanupExpiredSessions
  BY <1>5, RestrictType DEF CleanupExpiredSessions, StoreTypeOK
<1>6. CASE Tick
  BY <1>6, StoreAssumption DEF Tick, StoreTypeOK, Time
<1>7. CASE TimeBoundReached \/ UNCHANGED storeVars
  BY <1>7 DEF TimeBoundReached, storeVars, StoreTypeOK
<1>8. QED
  BY <1>1, <1>2, <1>3, <1>4, <1>5, <1>6, <1>7 DEF StoreNext

\* Every reachable state is well typed.
THEOREM StoreTypeCorrect == StoreSpec => []StoreTypeOK
<1>1. StoreInit => StoreTypeOK
  BY StoreAssumption DEF StoreInit, StoreTypeOK, VCState, Idle, Time
<1>2. QED
  BY <1>1, StoreTypeStep, PTL DEF StoreSpec

-----------------------------------------------------------------------------
\* IInv holds initially and is preserved by every step.
LEMMA IInvInductive ==
    IInv /\ [StoreNext]_storeVars => IInv'
<1> SUFFICES ASSUME IInv, [StoreNext]_storeVars
             PROVE  IInv'
  OBVIOUS
<1>0. StoreTypeOK'
  BY StoreTypeStep DEF IInv
<1> SUFFICES ConsumeInv'
  BY <1>0 DEF IInv
<1> USE DEF IInv, ConsumeInv, SingleUse
<1>1. ASSUME NEW st \in States, NEW ts \in Time, Store(st, ts)
      PROVE  ConsumeInv'
  BY <1>1 DEF Store, StoreSession, StoreTypeOK
<1>2. ASSUME NEW c \in Callers, NEW st \in States, ConsumeGet(c, st)
      PROVE  ConsumeInv'
  BY <1>2 DEF ConsumeGet
<1>3. ASSUME NEW c \in Callers, ConsumeDelete(c)
      PROVE  ConsumeInv'
  <2> DEFINE s == vc[c].st
  <2>1. s \in States /\ s \in DOMAIN sessions
    BY <1>3, ValidatedType DEF ConsumeDelete, StoreTypeOK
  <2>2. consumed[s] = 0
    BY <2>1
  <2>3. DOMAIN sessions' = DOMAIN sessions \ {s}
    BY <1>3, <2>1, RestrictType DEF ConsumeDelete, DeleteSession, StoreTypeOK
  <2>4. consumed' = [consumed EXCEPT ![s] = 1]
    BY <1>3, <2>2 DEF ConsumeDelete
  <2>5. QED
    BY <1>3, <2>1, <2>3, <2>4 DEF ConsumeDelete, StoreTypeOK
<1>4. ASSUME NEW c \in Callers, ConsumeDeleteNotFound(c)
      PROVE  ConsumeInv'
  BY <1>4 DEF ConsumeDeleteNotFound
<1>5. CASE CleanupExpiredSessions
  <2>1. DOMAIN sessions' \subseteq DOMAIN sessions
    BY <1>5, RestrictType DEF CleanupExpiredSessions, StoreTypeOK
  <2>2. QED
    BY <1>5, <2>1 DEF CleanupExpiredSessions
<1>6. CASE Tick
  BY <1>6 DEF Tick
<1>7. CASE TimeBoundReached \/ UNCHANGED storeVars
  BY <1>7 DEF TimeBoundReached, storeVars
<1>8. QED
  BY <1>1, <1>2, <1>3, <1>4, <1>5, <1>6, <1>7 DEF StoreNext

\* Single use: no session is returned by ValidateAndConsumeSession twice,
\* however the consumers, the sweep and the clock interleave.
THEOREM SingleUseHolds == StoreSpec => []SingleUse
<1>1. StoreInit => IInv
  BY StoreAssumption DEF StoreInit, IInv, ConsumeInv, SingleUse,
                         StoreTypeOK, VCState, Idle, Time
<1>2. IInv /\ [StoreNext]_storeVars => IInv'
  BY IInvInductive
<1>3. IInv => SingleUse
  BY DEF IInv, ConsumeInv
<1>4. QED
  BY <1>1, <1>2, <1>3, PTL DEF StoreSpec

-----------------------------------------------------------------------------
(* The sweep never removes a session that a caller validated and that is   *)
(* still valid: the sweep and GetSession use the same test on the same     *)
(* timestamp, and that test, once true, stays true as time goes on.        *)

\* Once expired, a timestamp stays expired when the clock advances.
LEMMA ExpiredStable ==
    ASSUME NEW ts \in Time, NEW t1 \in Time, NEW t2 \in Time, t2 >= t1,
           t1 - ts > TTL
    PROVE  t2 - ts > TTL
BY StoreAssumption DEF Time

\* What SweepInv says of one caller.
CallerOK(u) ==
    vc[u].pc = "delete" =>
        /\ vc[u].st \in used
        /\ vc[u].st \in DOMAIN sessions => sessions[vc[u].st] = vc[u].ts
        /\ \/ vc[u].st \in DOMAIN sessions
           \/ consumed[vc[u].st] > 0
           \/ Expired(vc[u].ts)

LEMMA SweepInvByCaller ==
    SweepInv <=> /\ StoreTypeOK /\ DOMAIN sessions \subseteq used
                 /\ \A u \in Callers : CallerOK(u)
BY DEF SweepInv, ReadStillCurrent, ValidatedNotSwept, CallerOK

LEMMA SweepInvInit == StoreInit => SweepInv
BY StoreAssumption DEF StoreInit, SweepInv, StoreTypeOK, ReadStillCurrent,
                       ValidatedNotSwept, VCState, Idle, Time

LEMMA SweepInvStep == SweepInv /\ [StoreNext]_storeVars => SweepInv'
<1> SUFFICES ASSUME SweepInv, [StoreNext]_storeVars
             PROVE  SweepInv'
  OBVIOUS
<1>a. StoreTypeOK'
  BY StoreTypeStep DEF SweepInv
<1>b. /\ StoreTypeOK /\ DOMAIN sessions \subseteq used
      /\ \A u \in Callers : CallerOK(u)
  BY SweepInvByCaller
<1> USE <1>b
<1> SUFFICES (DOMAIN sessions \subseteq used)' /\ \A u \in Callers : CallerOK(u)'
  BY <1>a DEF SweepInv, ReadStillCurrent, ValidatedNotSwept, CallerOK
<1>1. ASSUME NEW st \in States, NEW ts \in Time, Store(st, ts)
      PROVE  (DOMAIN sessions \subseteq used)' /\ \A u \in Callers : CallerOK(u)'
  <2>1. /\ DOMAIN sessions' = DOMAIN sessions \cup {st}
        /\ sessions'[st] = ts
        /\ \A x \in DOMAIN sessions : x # st => sessions'[x] = sessions[x]
        /\ used' = used \cup {st} /\ st \notin used
        /\ UNCHANGED <<now, vc, consumed>>
    BY <1>1 DEF Store, StoreSession
  <2>2. ASSUME NEW u \in Callers PROVE CallerOK(u)'
    <3>1. CallerOK(u)
      OBVIOUS
    <3>2. vc[u].pc = "delete" => vc[u].st # st
      BY <3>1, <2>1 DEF CallerOK
    <3>3. QED
      BY <3>1, <3>2, <2>1 DEF CallerOK, Expired
  <2>3. QED
    BY <2>1, <2>2
<1>2. ASSUME NEW c \in Callers, NEW st \in States, ConsumeGet(c, st)
      PROVE  (DOMAIN sessions \subseteq used)' /\ \A u \in Callers : CallerOK(u)'
  <2>1. /\ vc' = [vc EXCEPT ![c] = Validated(st, sessions[st])]
        /\ st \in DOMAIN sessions
        /\ UNCHANGED <<now, sessions, used, consumed>>
    BY <1>2 DEF ConsumeGet, GetSessionFound
  <2>2. CallerOK(c)'
    BY <2>1 DEF CallerOK, Validated, StoreTypeOK
  <2>3. ASSUME NEW u \in Callers \ {c} PROVE CallerOK(u)'
    BY <2>1 DEF CallerOK, StoreTypeOK, Expired
  <2>4. QED
    BY <2>1, <2>2, <2>3
<1>3. ASSUME NEW c \in Callers, ConsumeDelete(c)
      PROVE  (DOMAIN sessions \subseteq used)' /\ \A u \in Callers : CallerOK(u)'
  <2> DEFINE s == vc[c].st
  <2>1. s \in States
    BY <1>3, ValidatedType DEF ConsumeDelete, StoreTypeOK
  <2>2. /\ DOMAIN sessions' = DOMAIN sessions \ {s}
        /\ \A x \in DOMAIN sessions' : sessions'[x] = sessions[x]
    BY <1>3, <2>1, RestrictType DEF ConsumeDelete, DeleteSession, StoreTypeOK
  <2>3. /\ consumed' = [consumed EXCEPT ![s] = @ + 1]
        /\ vc' = [vc EXCEPT ![c] = Idle]
        /\ UNCHANGED <<now, used>>
    BY <1>3 DEF ConsumeDelete
  <2>4. consumed'[s] > 0 /\ \A x \in States \ {s} : consumed'[x] = consumed[x]
    BY <2>1, <2>3 DEF StoreTypeOK
  <2>5. CallerOK(c)'
    BY <2>3 DEF CallerOK, Idle, StoreTypeOK
  <2>6. ASSUME NEW u \in Callers \ {c} PROVE CallerOK(u)'
    <3>1. CallerOK(u) /\ vc'[u] = vc[u]
      BY <2>3 DEF StoreTypeOK
    <3>2. vc[u].pc = "delete" => vc[u].st \in States
      BY ValidatedType DEF StoreTypeOK
    <3>3. QED
      BY <3>1, <3>2, <2>2, <2>3, <2>4 DEF CallerOK, Expired
  <2>7. QED
    BY <2>2, <2>3, <2>5, <2>6
<1>4. ASSUME NEW c \in Callers, ConsumeDeleteNotFound(c)
      PROVE  (DOMAIN sessions \subseteq used)' /\ \A u \in Callers : CallerOK(u)'
  <2>1. /\ vc' = [vc EXCEPT ![c] = Idle]
        /\ UNCHANGED <<now, sessions, used, consumed>>
    BY <1>4 DEF ConsumeDeleteNotFound
  <2>2. CallerOK(c)'
    BY <2>1 DEF CallerOK, Idle, StoreTypeOK
  <2>3. ASSUME NEW u \in Callers \ {c} PROVE CallerOK(u)'
    BY <2>1 DEF CallerOK, StoreTypeOK, Expired
  <2>4. QED
    BY <2>1, <2>2, <2>3
<1>5. CASE CleanupExpiredSessions
  <2> DEFINE keep == {st \in DOMAIN sessions : ~Expired(sessions[st])}
  <2>1. /\ DOMAIN sessions' = keep
        /\ \A x \in keep : sessions'[x] = sessions[x]
    BY <1>5, RestrictType DEF CleanupExpiredSessions, StoreTypeOK
  <2>2. UNCHANGED <<now, vc, used, consumed>>
    BY <1>5 DEF CleanupExpiredSessions
  <2>3. ASSUME NEW u \in Callers PROVE CallerOK(u)'
    <3>1. CallerOK(u)
      OBVIOUS
    <3>2. CASE vc[u].st \in DOMAIN sessions /\ vc[u].st \notin keep
      BY <3>1, <3>2, <2>1, <2>2 DEF CallerOK, Expired
    <3>3. CASE ~(vc[u].st \in DOMAIN sessions /\ vc[u].st \notin keep)
      BY <3>1, <3>3, <2>1, <2>2 DEF CallerOK, Expired
    <3>4. QED
      BY <3>2, <3>3
  <2>4. QED
    BY <2>1, <2>2, <2>3
<1>6. CASE Tick
  <2>1. now' = now + 1 /\ UNCHANGED <<sessions, vc, used, consumed>>
    BY <1>6 DEF Tick
  <2>2. now \in Time /\ now' \in Time
    BY <1>6, StoreAssumption DEF Tick, StoreTypeOK, Time
  <2>3. ASSUME NEW u \in Callers PROVE CallerOK(u)'
    <3>1. CallerOK(u)
      OBVIOUS
    <3>2. vc[u].pc = "delete" => vc[u].ts \in Time
      BY ValidatedType DEF StoreTypeOK
    <3>3. vc[u].pc = "delete" /\ Expired(vc[u].ts) => Expired(vc[u].ts)'
      BY <3>2, <2>1, <2>2, ExpiredStable DEF Expired, Time
    <3>4. QED
      BY <3>1, <3>3, <2>1 DEF CallerOK
  <2>4. QED
    BY <2>1, <2>3
<1>7. CASE TimeBoundReached \/ UNCHANGED storeVars
  BY <1>7 DEF TimeBoundReached, storeVars, CallerOK, Expired
<1>8. QED
  BY <1>1, <1>2, <1>3, <1>4, <1>5, <1>6, <1>7 DEF StoreNext

\* A callback that has validated a session under the read lock and waits
\* for the write lock never finds it swept while it is still valid: the
\* entry is there, was consumed by another callback, or has really expired.
THEOREM ValidatedNotSweptHolds == StoreSpec => []ValidatedNotSwept
<1>1. SweepInv => ValidatedNotSwept
  BY DEF SweepInv
<1>2. QED
  BY <1>1, SweepInvInit, SweepInvStep, PTL DEF StoreSpec

-----------------------------------------------------------------------------
(* Refinement: the store keeps the lifecycle of SessionLifecycle.  The    *)
(* mapping reads a state's place in the lifecycle off the map, the        *)
(* callers and the histories, and is a well-formed lifecycle only under   *)
(* both invariants above: a consumed state has left the map and was drawn *)
(* (ConsumeInv), and a caller between GetSession and DeleteSession holds  *)
(* a drawn state (ReadStillCurrent), so that the state a login draws is   *)
(* fresh, held by nobody, and its entry becomes live or dead on arrival.  *)

RefInv == IInv /\ SweepInv

LEMMA RefInvInit == StoreInit => RefInv
BY SweepInvInit, StoreAssumption DEF RefInv, StoreInit, IInv, ConsumeInv,
                                     SingleUse, StoreTypeOK, VCState, Idle, Time

LEMMA RefInvStep == RefInv /\ [StoreNext]_storeVars => RefInv'
BY IInvInductive, SweepInvStep DEF RefInv

\* A restriction of a function to part of its domain.
LEMMA RestrictIs ==
    ASSUME NEW f, NEW S, S \subseteq DOMAIN f
    PROVE  Restrict(f, S) = [x \in S |-> f[x]]
BY DEF Restrict

\* The three sets of the mapping fit together: the live states are
\* stored, the spent ones are not, and both were drawn.
LEMMA MappingShape ==
    ASSUME RefInv
    PROVE  /\ LiveStates \subseteq DOMAIN sessions
           /\ DOMAIN sessions \subseteq used
           /\ SpentStates \subseteq used
           /\ LiveStates \cap SpentStates = {}
           /\ \A st \in States : Held(st) => st \in used
BY DEF RefInv, IInv, ConsumeInv, SweepInv, ReadStillCurrent, LiveStates,
       SpentStates, Held, StoreTypeOK

\* The abstract fresh states are the states no login has drawn.
LEMMA FreshIsUnused ==
    ASSUME RefInv
    PROVE  Lifecycle!Fresh = States \ used
<1>1. DOMAIN Restrict(sessions, LiveStates) = LiveStates
  BY MappingShape, RestrictIs
<1>2. QED
  BY <1>1, MappingShape DEF Lifecycle!Fresh

\* Every step of the service is a step of the lifecycle or leaves it as
\* it is.
LEMMA LifeStepRefines ==
    RefInv /\ [StoreNext]_storeVars => [Lifecycle!LifeNext]_Lifecycle!lifeVars
<1> SUFFICES ASSUME RefInv, [StoreNext]_storeVars
             PROVE  [Lifecycle!LifeNext]_Lifecycle!lifeVars
  OBVIOUS
<1> DEFINE L == LiveStates
           Sp == SpentStates
<1>0. /\ StoreTypeOK /\ ReadStillCurrent
      /\ L \subseteq DOMAIN sessions /\ DOMAIN sessions \subseteq used
      /\ Sp \subseteq used /\ L \cap Sp = {}
      /\ \A st \in States : Held(st) => st \in used
      /\ \A st \in DOMAIN sessions : consumed[st] = 0
  BY MappingShape DEF RefInv, IInv, SweepInv, ConsumeInv
<1>1. ASSUME NEW st \in States, NEW ts \in Time, Store(st, ts)
      PROVE  Lifecycle!Issue(st, ts)
  <2>1. /\ DOMAIN sessions' = DOMAIN sessions \cup {st}
        /\ sessions'[st] = ts
        /\ \A x \in DOMAIN sessions : sessions'[x] = sessions[x]
        /\ st \notin used /\ used' = used \cup {st} /\ ts <= now
        /\ UNCHANGED <<now, vc, consumed>>
    BY <1>1, <1>0 DEF Store, StoreSession
  <2>2. ~Held(st) /\ Held(st)' = Held(st) /\ st \notin DOMAIN sessions
    BY <2>1, <1>0 DEF Held
  <2>3. \A x \in DOMAIN sessions : (x \in L') <=> (x \in L)
    BY <2>1 DEF LiveStates, Held, Expired
  <2>4. Sp' = Sp
    BY <2>1 DEF SpentStates
  <2>5. st \in Lifecycle!Fresh
    BY <2>1, FreshIsUnused
  <2>6. Restrict(sessions', L') = [x \in L' |-> sessions'[x]]
    <3>1. L' \subseteq DOMAIN sessions'
      BY <2>1 DEF LiveStates
    <3>2. QED
      BY <3>1, RestrictIs
  <2>7. Restrict(sessions, L) = [x \in L |-> sessions[x]]
    BY <1>0, RestrictIs
  <2>8. CASE Expired(ts)
    <3>0. st \notin L'
      BY <2>1, <2>2, <2>8 DEF LiveStates, Expired
    <3>1. L' = L
      BY <3>0, <2>1, <2>3 DEF LiveStates
    <3>2. Restrict(sessions', L') = Restrict(sessions, L)
      BY <3>1, <2>6, <2>7, <2>1, <1>0
    <3>3. used' \ (L' \cup Sp') = (used \ (L \cup Sp)) \cup {st}
      BY <3>1, <2>1, <2>4, <1>0
    <3>4. Lifecycle!TooOld(ts, now)
      BY <2>8 DEF Lifecycle!TooOld, Expired
    <3>5. QED
      BY <2>1, <2>4, <2>5, <3>2, <3>3, <3>4 DEF Lifecycle!Issue
  <2>9. CASE ~Expired(ts)
    <3>0. st \in L'
      BY <2>1, <2>9 DEF LiveStates, Expired
    <3>1. L' = L \cup {st}
      BY <3>0, <2>1, <2>3 DEF LiveStates
    <3>2. DOMAIN Restrict(sessions, L) = L
      BY <2>7
    <3>3. Restrict(sessions', L') =
            [x \in DOMAIN Restrict(sessions, L) \cup {st} |->
               IF x = st THEN ts ELSE Restrict(sessions, L)[x]]
      BY <3>1, <3>2, <2>6, <2>7, <2>1, <1>0
    <3>4. used' \ (L' \cup Sp') = used \ (L \cup Sp)
      BY <3>1, <2>1, <2>4
    <3>5. QED
      BY <2>1, <2>4, <2>5, <2>9, <3>3, <3>4
         DEF Lifecycle!Issue, Lifecycle!TooOld, Expired
  <2>10. QED
    BY <2>8, <2>9
<1>2. ASSUME NEW c \in Callers, NEW st \in States, ConsumeGet(c, st)
      PROVE  UNCHANGED Lifecycle!lifeVars
  <2>1. /\ vc' = [vc EXCEPT ![c] = Validated(st, sessions[st])]
        /\ vc[c] = Idle /\ st \in DOMAIN sessions /\ ~Expired(sessions[st])
        /\ UNCHANGED <<now, sessions, used, consumed>>
    BY <1>2 DEF ConsumeGet, GetSessionFound
  <2>2. \A x \in States : Held(x)' <=> (Held(x) \/ x = st)
    BY <2>1, <1>0 DEF Held, Validated, Idle, StoreTypeOK
  <2>3. L' = L
    BY <2>1, <2>2, <1>0 DEF LiveStates, Expired, StoreTypeOK
  <2>4. QED
    BY <2>1, <2>3 DEF Lifecycle!lifeVars, SpentStates
<1>3. ASSUME NEW c \in Callers, ConsumeDelete(c)
      PROVE  Lifecycle!Consume(vc[c].st)
  <2> DEFINE s == vc[c].st
  <2>1. s \in States /\ s \in DOMAIN sessions
    BY <1>3, <1>0, ValidatedType DEF ConsumeDelete, StoreTypeOK
  <2>2. /\ DOMAIN sessions' = DOMAIN sessions \ {s}
        /\ \A x \in DOMAIN sessions' : sessions'[x] = sessions[x]
    BY <1>3, <2>1, <1>0, RestrictType DEF ConsumeDelete, DeleteSession, StoreTypeOK
  <2>3. /\ consumed' = [consumed EXCEPT ![s] = @ + 1]
        /\ vc' = [vc EXCEPT ![c] = Idle]
        /\ UNCHANGED <<now, used>>
    BY <1>3 DEF ConsumeDelete
  <2>4. s \in L
    BY <1>3, <2>1 DEF LiveStates, Held, ConsumeDelete
  <2>5. \A x \in States \ {s} : Held(x)' <=> Held(x)
    BY <2>3, <1>0 DEF Held, Idle, StoreTypeOK
  <2>6. L' = L \ {s}
    BY <2>2, <2>3, <2>5, <1>0 DEF LiveStates, Expired, StoreTypeOK
  <2>7. Sp' = Sp \cup {s}
    BY <2>1, <2>3, <1>0 DEF SpentStates, StoreTypeOK
  <2>8. Restrict(sessions', L') = Restrict(Restrict(sessions, L), L \ {s})
    <3>1. Restrict(sessions, L) = [x \in L |-> sessions[x]]
      BY <1>0, RestrictIs
    <3>2. QED
      BY <3>1, <2>2, <2>6, <1>0, RestrictIs
  <2>9. DOMAIN Restrict(sessions, L) = L
    BY <1>0, RestrictIs
  <2>10. used' \ (L' \cup Sp') = used \ (L \cup Sp)
    BY <2>3, <2>4, <2>6, <2>7
  <2>11. QED
    BY <2>3, <2>4, <2>7, <2>8, <2>9, <2>10
       DEF Lifecycle!Consume, Lifecycle!Restrict, Restrict
<1>4. ASSUME NEW c \in Callers, ConsumeDeleteNotFound(c)
      PROVE  UNCHANGED Lifecycle!lifeVars
  <2>1. /\ vc' = [vc EXCEPT ![c] = Idle] /\ vc[c].st \notin DOMAIN sessions
        /\ UNCHANGED <<now, sessions, used, consumed>>
    BY <1>4 DEF ConsumeDeleteNotFound
  <2>2. \A x \in DOMAIN sessions : Held(x)' <=> Held(x)
    BY <2>1, <1>0 DEF Held, Idle, StoreTypeOK
  <2>3. L' = L
    BY <2>1, <2>2 DEF LiveStates, Expired
  <2>4. QED
    BY <2>1, <2>3 DEF Lifecycle!lifeVars, SpentStates
<1>5. ASSUME CleanupExpiredSessions
      PROVE  \E D \in SUBSET States : Lifecycle!Expire(D)
  <2> DEFINE keep == {st \in DOMAIN sessions : ~Expired(sessions[st])}
             D == L \ keep
  <2>1. /\ DOMAIN sessions' = keep
        /\ \A x \in keep : sessions'[x] = sessions[x]
        /\ UNCHANGED <<now, vc, used, consumed>>
    BY <1>5, <1>0, RestrictType DEF CleanupExpiredSessions, StoreTypeOK
  <2>2. L' = keep /\ keep \subseteq L
    BY <2>1 DEF LiveStates, Held, Expired
  <2>3. D \in SUBSET States
    BY <1>0 DEF StoreTypeOK
  <2>4. D \subseteq Lifecycle!Dying(now)
    <3>1. Restrict(sessions, L) = [x \in L |-> sessions[x]]
      BY <1>0, RestrictIs
    <3>2. QED
      BY <3>1, <1>0 DEF Lifecycle!Dying, Lifecycle!TooOld, Expired, LiveStates
  <2>5. Restrict(sessions', L') = Restrict(Restrict(sessions, L), L \ D)
    <3>1. Restrict(sessions, L) = [x \in L |-> sessions[x]]
      BY <1>0, RestrictIs
    <3>2. L \ D = keep
      BY <2>2
    <3>3. QED
      BY <3>1, <3>2, <2>1, <2>2, RestrictIs
  <2>6. used' \ (L' \cup Sp') = (used \ (L \cup Sp)) \cup D
    BY <2>1, <2>2, <1>0 DEF SpentStates
  <2>7. DOMAIN Restrict(sessions, L) = L
    BY <1>0, RestrictIs
  <2>8. Lifecycle!Expire(D)
    BY <2>1, <2>4, <2>5, <2>6, <2>7 DEF Lifecycle!Expire, Lifecycle!Restrict, Restrict, SpentStates
  <2>9. QED
    BY <2>3, <2>8
<1>6. ASSUME Tick
      PROVE  Lifecycle!Advance
  <2> DEFINE gone == L \ L'
  <2>1. now' = now + 1 /\ now < MaxTime /\ UNCHANGED <<sessions, vc, used, consumed>>
    BY <1>6 DEF Tick
  <2>2. now \in Time /\ now' \in Time
    BY <2>1, <1>0, StoreAssumption DEF StoreTypeOK, Time
  <2>3. L' \subseteq L
    <3>1. \A x \in DOMAIN sessions : Expired(sessions[x]) => Expired(sessions[x])'
      BY <2>1, <2>2, <1>0, ExpiredStable DEF StoreTypeOK, Expired, Time
    <3>2. QED
      BY <3>1, <2>1 DEF LiveStates, Held
  <2>4. Restrict(sessions, L) = [x \in L |-> sessions[x]]
    BY <1>0, RestrictIs
  <2>5. gone \in SUBSET Lifecycle!Dying(now + 1)
    <3>1. \A x \in gone : x \in L /\ (now + 1) - sessions[x] > TTL
      <4> SUFFICES ASSUME NEW x \in gone
                   PROVE  x \in L /\ (now + 1) - sessions[x] > TTL
        OBVIOUS
      <4>1. x \in L /\ x \notin L'
        OBVIOUS
      <4>2. x \in DOMAIN sessions /\ (Held(x)' <=> Held(x))
        BY <4>1, <2>1, <1>0 DEF LiveStates, Held
      <4>3. x \in DOMAIN sessions'
        BY <4>2, <2>1
      <4>4. Expired(sessions[x])' /\ ~Held(x)'
        BY <4>1, <4>3 DEF LiveStates
      <4>5. now' - sessions'[x] > TTL
        BY <4>4 DEF Expired
      <4>6. QED
        BY <4>1, <4>2, <4>5, <2>1, <1>0, StoreAssumption DEF StoreTypeOK, Time
    <3>2. \A x \in gone : /\ x \in DOMAIN Restrict(sessions, L)
                          /\ (now + 1) - Restrict(sessions, L)[x] > TTL
      BY <3>1, <2>4
    <3>3. ASSUME NEW x \in gone
          PROVE  x \in Lifecycle!Dying(now + 1)
      <4>1. x \in DOMAIN Restrict(sessions, L)
            /\ Lifecycle!TooOld(Restrict(sessions, L)[x], now + 1)
        BY <3>2 DEF Lifecycle!TooOld
      <4>2. QED
        BY <4>1 DEF Lifecycle!Dying
    <3>4. QED
      BY <3>3
  <2>6. Restrict(sessions', L') = Restrict(Restrict(sessions, L), L \ gone)
    BY <2>1, <2>3, <2>4, <1>0, RestrictIs
  <2>7. DOMAIN Restrict(sessions, L) = L
    BY <2>4
  <2>8. used' \ (L' \cup Sp') = (used \ (L \cup Sp)) \cup gone
    BY <2>1, <2>3, <1>0 DEF SpentStates
  <2>9. \E DD \in SUBSET Lifecycle!Dying(now + 1) :
          /\ Restrict(sessions, L)' =
                Lifecycle!Restrict(Restrict(sessions, L),
                                   DOMAIN Restrict(sessions, L) \ DD)
          /\ (used \ (L \cup Sp))' = (used \ (L \cup Sp)) \cup DD
    <3>1. Restrict(sessions, L)' =
            Lifecycle!Restrict(Restrict(sessions, L),
                               DOMAIN Restrict(sessions, L) \ gone)
      BY <2>6, <2>7 DEF Lifecycle!Restrict, Restrict
    <3>2. (used \ (L \cup Sp))' = (used \ (L \cup Sp)) \cup gone
      BY <2>8
    <3>3. QED
      BY <2>5, <3>1, <3>2, Zenon
  <2>10. Sp' = Sp
    BY <2>1 DEF SpentStates
  <2>11. QED
    BY <2>1, <2>9, <2>10, Zenon DEF Lifecycle!Advance
<1>7. CASE TimeBoundReached \/ UNCHANGED storeVars
  <2>1. UNCHANGED <<now, sessions, vc, used, consumed>>
    BY <1>7 DEF TimeBoundReached, storeVars
  <2>2. UNCHANGED <<L, Sp>>
    BY <2>1 DEF LiveStates, SpentStates, Held, Expired
  <2>3. QED
    BY <2>1, <2>2 DEF Lifecycle!lifeVars
<1>8. QED
  <2>1. CASE \E st \in States, ts \in Time : Store(st, ts)
    BY <2>1, <1>1 DEF Lifecycle!LifeNext, Time
  <2>2. CASE \E c \in Callers, st \in States : ConsumeGet(c, st)
    BY <2>2, <1>2
  <2>3. CASE \E c \in Callers : ConsumeDelete(c)
    <3>1. PICK c \in Callers : ConsumeDelete(c)
      BY <2>3
    <3>2. vc[c].st \in States
      BY <3>1, <1>0, ValidatedType DEF ConsumeDelete, StoreTypeOK
    <3>3. QED
      BY <3>1, <3>2, <1>3 DEF Lifecycle!LifeNext
  <2>4. CASE \E c \in Callers : ConsumeDeleteNotFound(c)
    BY <2>4, <1>4
  <2>5. CASE CleanupExpiredSessions
    BY <2>5, <1>5 DEF Lifecycle!LifeNext
  <2>6. CASE Tick
    BY <2>6, <1>6 DEF Lifecycle!LifeNext
  <2>7. QED
    BY <2>1, <2>2, <2>3, <2>4, <2>5, <2>6, <1>7 DEF StoreNext

\* The service keeps the promised lifecycle: whatever the interleaving of
\* callers inside ValidateAndConsumeSession, the sweep and the clock, a
\* session is handed out only while it is live and at most once, a drawn
\* state is never fresh again, and no session is lost before its TTL.
THEOREM StoreRefinesLifecycle == StoreSpec => LifecycleRefinement
<1>1. StoreInit => Lifecycle!LifeInit
  <2> SUFFICES ASSUME StoreInit PROVE Lifecycle!LifeInit
    OBVIOUS
  <2>1. LiveStates = {} /\ SpentStates = {}
    BY DEF StoreInit, LiveStates, SpentStates
  <2>2. Restrict(sessions, LiveStates) = [st \in {} |-> 0]
    BY <2>1 DEF Restrict
  <2>3. QED
    BY <2>1, <2>2 DEF StoreInit, Lifecycle!LifeInit
<1>2. QED
  BY <1>1, RefInvInit, RefInvStep, LifeStepRefines, PTL
     DEF StoreSpec, LifecycleRefinement, Lifecycle!LifeSpec

=============================================================================
