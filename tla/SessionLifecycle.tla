--------------------------- MODULE SessionLifecycle ---------------------------
(***************************************************************************)
(* What the session store promises its callers (spec 4.1 and 8), stated   *)
(* without a map, locks or callers: every state goes through a one-way    *)
(* lifecycle                                                               *)
(*                                                                         *)
(*      fresh --Issue--> live --Consume--> spent                           *)
(*                         \--Expire---> dead                              *)
(*                                                                         *)
(* A state is issued once, with the time its session was stamped; a live   *)
(* session is consumed at most once; and a session dies only when it is    *)
(* older than the TTL.  Nothing here says that a consume happens before    *)
(* the TTL: the code does not keep that promise (ConsumeWithinTTL of       *)
(* SessionStore), so this specification leaves it out and holds the rest. *)
(***************************************************************************)
EXTENDS Naturals, Functions

CONSTANTS States, TTL, MaxTime

VARIABLES
    now,        \* the wall clock
    live,       \* the live states, each with the time its session was stamped
    spent,      \* states whose session was consumed
    dead        \* states whose session expired unconsumed

lifeVars == <<now, live, spent, dead>>

Fresh == States \ (DOMAIN live \cup spent \cup dead)

\* Older than the TTL at time t.
TooOld(ts, t) == t - ts > TTL

\* A new session for a fresh state, stamped at or before now.  A session
\* stamped more than the TTL ago is dead on arrival.
Issue(st, ts) ==
    /\ st \in Fresh
    /\ ts <= now
    /\ IF TooOld(ts, now)
         THEN dead' = dead \cup {st} /\ UNCHANGED live
         ELSE live' = [x \in DOMAIN live \cup {st} |->
                             IF x = st THEN ts ELSE live[x]]
              /\ UNCHANGED dead
    /\ UNCHANGED <<now, spent>>

\* The session of a live state is handed out, once.
Consume(st) ==
    /\ st \in DOMAIN live
    /\ live' = Restrict(live, DOMAIN live \ {st})
    /\ spent' = spent \cup {st}
    /\ UNCHANGED <<now, dead>>

\* Live sessions older than the TTL may die (each one at any moment after
\* its TTL, not necessarily at once).
Dying(t) == {st \in DOMAIN live : TooOld(live[st], t)}

Expire(D) ==
    /\ D \subseteq Dying(now)
    /\ live' = Restrict(live, DOMAIN live \ D)
    /\ dead' = dead \cup D
    /\ UNCHANGED <<now, spent>>

\* The clock advances; sessions that have just passed their TTL may die
\* in the same instant.
Advance ==
    /\ now < MaxTime
    /\ now' = now + 1
    /\ \E D \in SUBSET Dying(now + 1) :
          /\ live' = Restrict(live, DOMAIN live \ D)
          /\ dead' = dead \cup D
    /\ UNCHANGED spent

LifeInit ==
    /\ now = 0
    /\ live = [st \in {} |-> 0]
    /\ spent = {}
    /\ dead = {}

LifeNext ==
    \/ \E st \in States, ts \in 0..MaxTime : Issue(st, ts)
    \/ \E st \in States : Consume(st)
    \/ \E D \in SUBSET States : Expire(D)
    \/ Advance

LifeSpec == LifeInit /\ [][LifeNext]_lifeVars

=============================================================================
