---------------------------- MODULE SessionStore ----------------------------
(***************************************************************************)
(* The in-memory session service of infrastructure/services/session.go    *)
(* (SessionServiceImpl): a map from the OAuth2 `state` to the AuthSession *)
(* made by InitiateLogin, guarded by one sync.RWMutex, with a 5-minute     *)
(* expiry and a background goroutine that sweeps expired entries.          *)
(*                                                                         *)
(* A critical section under the mutex has no I/O and no other lock, so     *)
(* each one is a single atomic step here.  ValidateAndConsumeSession is    *)
(* NOT one critical section: it calls GetSession (read lock) and then      *)
(* DeleteSession (write lock), and other callers, the sweep and the clock  *)
(* may all run between the two.  It is therefore two steps, and vc[c]      *)
(* records where caller c is between them.                                 *)
(*                                                                         *)
(* Data is abstracted to what the properties tell apart: a session is      *)
(* represented by its key (the state) and its Timestamp; its verifier,     *)
(* challenge and redirect URI are carried unchanged and play no role in    *)
(* the store.                                                              *)
(***************************************************************************)
EXTENDS Naturals, Functions

CONSTANTS
    Callers,    \* request-handling goroutines that call the service
    States,     \* state tokens InitiateLogin can draw (32 random bytes)
    TTL,        \* the 300-second expiry, in the model's time unit
    MaxTime     \* bound on the wall clock, so that runs are finite

ASSUME StoreAssumption ==
    /\ TTL \in Nat \ {0}
    /\ MaxTime \in Nat

VARIABLES
    now,        \* time.Now().Unix()
    sessions,   \* s.sessions: a function from the stored states to Timestamp
    vc,         \* vc[c]: caller c's position inside ValidateAndConsumeSession
    used,       \* states already drawn by InitiateLogin (history)
    consumed    \* consumed[st]: successful ValidateAndConsumeSession(st) (history)

storeVars == <<now, sessions, vc, used, consumed>>

Time == 0..MaxTime

\* A caller outside ValidateAndConsumeSession, and one that has passed
\* GetSession with the session of state st stamped at ts.
Idle == [pc |-> "idle"]
Validated(st, ts) == [pc |-> "delete", st |-> st, ts |-> ts]

VCState == {Idle} \cup [pc : {"delete"}, st : States, ts : Time]

-----------------------------------------------------------------------------
(* Helpers: the expiry test and the three map operations.                  *)

\* `now - session.Timestamp > 300`, shared by GetSession and the sweep.
Expired(ts) == now - ts > TTL

\* GetSession returns the session: it exists and has not expired.
GetSessionFound(st) == st \in DOMAIN sessions /\ ~Expired(sessions[st])

\* Mutant: the entry keeps an expiry instant instead of the creation time.
StoreSessionExpiryStamp(st, ts) ==
    sessions' = [x \in DOMAIN sessions \cup {st} |->
                    IF x = st THEN ts + TTL ELSE sessions[x]]

\* s.sessions[session.State] = session
StoreSession(st, ts) ==
    sessions' = [x \in DOMAIN sessions \cup {st} |->
                    IF x = st THEN ts ELSE sessions[x]]

\* delete(s.sessions, state); the caller has checked that it exists.
DeleteSession(st) == sessions' = Restrict(sessions, DOMAIN sessions \ {st})

-----------------------------------------------------------------------------
(* Operations, as the service's callers use them.                          *)

\* The login handler stores the session InitiateLogin made: its state is
\* fresh (32 random bytes) and its Timestamp was taken before the discovery
\* fetch, so it may be any time up to now.
Store(st, ts) ==
    /\ st \notin used
    /\ ts <= now
    /\ StoreSession(st, ts)
    /\ used' = used \cup {st}
    /\ UNCHANGED <<now, vc, consumed>>

\* Mutant: GetSession without its age check.
ConsumeGetNoExpiry(c, st) ==
    /\ vc[c] = Idle
    /\ st \in DOMAIN sessions
    /\ vc' = [vc EXCEPT ![c] = Validated(st, sessions[st])]
    /\ UNCHANGED <<now, sessions, used, consumed>>

\* ValidateAndConsumeSession, first half: GetSession succeeds under the
\* read lock.  (When it fails the call returns an error and nothing changes.)
ConsumeGet(c, st) ==
    /\ vc[c] = Idle
    /\ GetSessionFound(st)
    /\ vc' = [vc EXCEPT ![c] = Validated(st, sessions[st])]
    /\ UNCHANGED <<now, sessions, used, consumed>>

\* Mutant: DeleteSession without its existence check (Go's delete of a
\* missing key is a no-op, so the call would report success).
ConsumeDeleteNoCheck(c) ==
    /\ vc[c].pc = "delete"
    /\ DeleteSession(vc[c].st)
    /\ consumed' = [consumed EXCEPT ![vc[c].st] = @ + 1]
    /\ vc' = [vc EXCEPT ![c] = Idle]
    /\ UNCHANGED <<now, used>>

\* Second half: DeleteSession under the write lock finds the entry, deletes
\* it, and the session read by GetSession is returned.
ConsumeDelete(c) ==
    /\ vc[c].pc = "delete"
    /\ vc[c].st \in DOMAIN sessions
    /\ DeleteSession(vc[c].st)
    /\ consumed' = [consumed EXCEPT ![vc[c].st] = @ + 1]
    /\ vc' = [vc EXCEPT ![c] = Idle]
    /\ UNCHANGED <<now, used>>

\* Second half: the entry is gone (another consumer or the sweep removed
\* it since GetSession); DeleteSession fails and so does the call.
ConsumeDeleteNotFound(c) ==
    /\ vc[c].pc = "delete"
    /\ vc[c].st \notin DOMAIN sessions
    /\ vc' = [vc EXCEPT ![c] = Idle]
    /\ UNCHANGED <<now, sessions, used, consumed>>

\* Mutant: the sweep compares with >= where GetSession uses >.
CleanupOffByOne ==
    /\ \E st \in DOMAIN sessions : now - sessions[st] >= TTL
    /\ sessions' = Restrict(sessions,
                            {st \in DOMAIN sessions : now - sessions[st] < TTL})
    /\ UNCHANGED <<now, vc, used, consumed>>

\* Mutant: the sweep subtracts the wrong way round and never finds an
\* expired session.
CleanupSwapped ==
    /\ \E st \in DOMAIN sessions : sessions[st] - now > TTL
    /\ sessions' = Restrict(sessions,
                            {st \in DOMAIN sessions : ~(sessions[st] - now > TTL)})
    /\ UNCHANGED <<now, vc, used, consumed>>

\* One tick of cleanupExpiredSessions: under the write lock, delete every
\* session older than the TTL.  The ticker fires every minute; the model
\* lets it fire at any time at which it has something to delete.
CleanupExpiredSessions ==
    /\ \E st \in DOMAIN sessions : Expired(sessions[st])
    /\ sessions' = Restrict(sessions,
                            {st \in DOMAIN sessions : ~Expired(sessions[st])})
    /\ UNCHANGED <<now, vc, used, consumed>>

\* The wall clock advances by one unit.
Tick ==
    /\ now < MaxTime
    /\ now' = now + 1
    /\ UNCHANGED <<sessions, vc, used, consumed>>

\* The clock has reached the model's bound: the run may stop here.
TimeBoundReached ==
    /\ now = MaxTime
    /\ UNCHANGED storeVars

-----------------------------------------------------------------------------
StoreInit ==
    /\ now = 0
    /\ sessions = [st \in {} |-> 0]
    /\ vc = [c \in Callers |-> Idle]
    /\ used = {}
    /\ consumed = [st \in States |-> 0]

StoreNext ==
    \/ \E st \in States, ts \in Time : Store(st, ts)
    \/ \E c \in Callers, st \in States : ConsumeGet(c, st)
    \/ \E c \in Callers : ConsumeDelete(c) \/ ConsumeDeleteNotFound(c)
    \/ CleanupExpiredSessions
    \/ Tick
    \/ TimeBoundReached

\* The sweep goroutine runs for the life of the process.
StoreSpec ==
    StoreInit /\ [][StoreNext]_storeVars /\ WF_storeVars(CleanupExpiredSessions)

-----------------------------------------------------------------------------
(* Properties.                                                             *)

StoreTypeOK ==
    /\ now \in Time
    /\ DOMAIN sessions \subseteq States
    /\ \A st \in DOMAIN sessions : sessions[st] \in Time
    /\ vc \in [Callers -> VCState]
    /\ used \subseteq States
    /\ consumed \in [States -> Nat]

\* Single use (spec section 8): ValidateAndConsumeSession returns a given
\* session at most once, even when two callbacks carrying the same state
\* race through GetSession before either reaches DeleteSession.
SingleUse == \A st \in States : consumed[st] <= 1

\* A caller that passed GetSession is never robbed by the sweep of a session
\* that was still valid: between its GetSession and its DeleteSession the
\* entry is either still there, or was consumed by another caller, or has
\* really expired since.  Relates the caller's view to the shared map and
\* to the clock; it is what breaks if the sweep and GetSession disagree on
\* the TTL boundary.
ValidatedNotSwept ==
    \A c \in Callers :
        vc[c].pc = "delete" =>
            \/ vc[c].st \in DOMAIN sessions
            \/ consumed[vc[c].st] > 0
            \/ Expired(vc[c].ts)

\* Abandoned logins do not pile up: every session that has expired is
\* eventually removed from the map (by the sweep or by a consumer).
ExpiredEventuallyRemoved ==
    \A st \in States :
        (st \in DOMAIN sessions /\ Expired(sessions[st]))
            ~> (st \notin DOMAIN sessions)

\* Spec section 3: a session is valid for at most the TTL from creation.
\* Checked as: whenever ValidateAndConsumeSession succeeds, the session it
\* deletes and returns is not older than the TTL at that moment.
ConsumeWithinTTL ==
    [][\A st \in States :
          consumed'[st] > consumed[st] => ~Expired(sessions[st])]_storeVars

-----------------------------------------------------------------------------
(* Refinement.  The lifecycle of SessionLifecycle, seen through the map,  *)
(* the callers and the histories: a state nobody drew is fresh; a state   *)
(* consumed is spent; a stored state is live while its session is within  *)
(* the TTL or a caller holds it between GetSession and DeleteSession (that *)
(* caller may still consume it); every other drawn state is dead.         *)

\* Some caller has passed GetSession for st and not yet called DeleteSession.
Held(st) == \E c \in Callers : vc[c].pc = "delete" /\ vc[c].st = st

LiveStates ==
    {st \in DOMAIN sessions : ~Expired(sessions[st]) \/ Held(st)}

SpentStates == {st \in States : consumed[st] > 0}

Lifecycle == INSTANCE SessionLifecycle
                 WITH live <- Restrict(sessions, LiveStates),
                      spent <- SpentStates,
                      dead <- used \ (LiveStates \cup SpentStates)

\* The two-lock ValidateAndConsumeSession, the sweep and the clock keep the
\* promised lifecycle: a session is handed out only while live and at most
\* once, a drawn state never becomes fresh again, and no session is lost
\* before its TTL, whatever the interleaving of callers, sweep and clock.
LifecycleRefinement == Lifecycle!LifeSpec

=============================================================================
