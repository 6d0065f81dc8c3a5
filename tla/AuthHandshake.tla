---------------------------- MODULE AuthHandshake ----------------------------
(***************************************************************************)
(* The OAuth2 authorization-code + PKCE handshake as the HTTP handlers run *)
(* it: AuthController.InitiateLogin (api/http/controllers/auth_controller  *)
(* .go) calls auth.Service.InitiateLogin (infrastructure/auth/auth.go),    *)
(* which stamps a new session and fetches the discovery document, and then *)
(* stores the session; AuthController.HandleCallback consumes the session  *)
(* of the returned state, exchanges the code at the token endpoint and     *)
(* validates the access token.  The session store is SessionStore, whose   *)
(* variables and operations this module shares; hpc[c] is where handler    *)
(* goroutine c is, and a step is taken at each lock or network boundary.   *)
(*                                                                         *)
(* Network calls go through the injected HTTP client, whose Timeout (3 s)  *)
(* bounds the whole exchange: a call may fail at any time and cannot       *)
(* succeed once the timeout has passed.  The identity provider, the user's *)
(* browser and an attacker are the environment: a callback may carry any   *)
(* state, once, twice, or concurrently.                                    *)
(***************************************************************************)
EXTENDS SessionStore

CONSTANTS
    HTTPTimeout     \* http.Client.Timeout of the injected client, in ticks

ASSUME HandshakeAssumption == HTTPTimeout \in Nat

\* The redirect_uri query parameter of /auth/login: absent, or a URI the
\* client asks for; a redirect bound to a login is the configured default,
\* the service's own callback or a URI a client asked for.
NoRedirect == ""
Requests == {NoRedirect, "client"}
URIs == {"default", "base_callback"} \cup (Requests \ {NoRedirect})

VARIABLES
    hpc,        \* hpc[c]: the handler goroutine c is running and its locals
    logins,     \* logins[st]: redirect requested and bound for the login of st
    issued,     \* states whose auth URL was returned to the client
    granted     \* granted[st]: callbacks of st answered 200 with tokens

handshakeVars == <<hpc, logins, issued, granted>>
vars == <<storeVars, handshakeVars>>

Free == [pc |-> "idle"]

HPCState ==
    {Free}
    \cup [pc : {"discovery"}, st : States, ts : Time]
    \cup [pc : {"consume", "exchange", "validate"}, st : States]

-----------------------------------------------------------------------------
(* Helpers translated from auth.go and the HTTP client.                    *)

\* auth.go 69-74: an empty redirect_uri selects the configured default; any
\* other value is replaced by BaseURL + "/auth/callback".
RedirectFor(req) == IF req = NoRedirect THEN "default" ELSE "base_callback"

\* Mutant: the HTTP client has no timeout (Go's zero http.Client).
NoTimeout(start) == TRUE

\* A call started at `start` can still complete: http.Client.Timeout.
WithinTimeout(start) == now - start <= HTTPTimeout

-----------------------------------------------------------------------------
(* GET /auth/login                                                         *)

\* Mutant: the handler stores the session before the discovery fetch.
LoginStartStoreEarly(c, st, req) ==
    /\ hpc[c] = Free /\ vc[c] = Idle
    /\ st \notin used
    /\ StoreSession(st, now)
    /\ used' = used \cup {st}
    /\ logins' = [x \in DOMAIN logins \cup {st} |->
                    IF x = st THEN [req |-> req, uri |-> RedirectFor(req)]
                    ELSE logins[x]]
    /\ hpc' = [hpc EXCEPT ![c] = [pc |-> "discovery", st |-> st, ts |-> now]]
    /\ UNCHANGED <<now, vc, consumed, issued, granted>>

\* Mutant: the handler keeps the session's expiry instant (Timestamp plus
\* the TTL, the value the store holds) instead of its Timestamp.
LoginStartExpiryStamp(c, st, req) ==
    /\ hpc[c] = Free /\ vc[c] = Idle
    /\ st \notin used
    /\ used' = used \cup {st}
    /\ logins' = [x \in DOMAIN logins \cup {st} |->
                    IF x = st THEN [req |-> req, uri |-> RedirectFor(req)]
                    ELSE logins[x]]
    /\ hpc' = [hpc EXCEPT ![c] = [pc |-> "discovery", st |-> st, ts |-> now + TTL]]
    /\ UNCHANGED <<now, sessions, vc, consumed, issued, granted>>

\* InitiateLogin up to the discovery fetch: draw a fresh state and verifier
\* (never failing), pick the redirect, stamp the session with now.
LoginStart(c, st, req) ==
    /\ hpc[c] = Free /\ vc[c] = Idle
    /\ st \notin used
    /\ used' = used \cup {st}
    /\ logins' = [x \in DOMAIN logins \cup {st} |->
                    IF x = st THEN [req |-> req, uri |-> RedirectFor(req)]
                    ELSE logins[x]]
    /\ hpc' = [hpc EXCEPT ![c] = [pc |-> "discovery", st |-> st, ts |-> now]]
    /\ UNCHANGED <<now, sessions, vc, consumed, issued, granted>>

\* The discovery document arrives in time; the handler stores the session
\* (StoreSession, write lock) and returns the auth URL and the state.
LoginDiscoveryOK(c) ==
    /\ hpc[c].pc = "discovery"
    /\ WithinTimeout(hpc[c].ts)
    /\ StoreSession(hpc[c].st, hpc[c].ts)
    /\ issued' = issued \cup {hpc[c].st}
    /\ hpc' = [hpc EXCEPT ![c] = Free]
    /\ UNCHANGED <<now, vc, used, consumed, logins, granted>>

\* The discovery fetch (or its decoding, or parsing the endpoint) fails:
\* 500, nothing is stored.
LoginDiscoveryFail(c) ==
    /\ hpc[c].pc = "discovery"
    /\ hpc' = [hpc EXCEPT ![c] = Free]
    /\ UNCHANGED <<storeVars, logins, issued, granted>>

-----------------------------------------------------------------------------
(* GET /auth/callback?code=..&state=..                                     *)
(* A callback carrying `error`, or missing code or state, answers 400      *)
(* before touching any state: a stutter here.                              *)

\* ValidateAndConsumeSession(state): GetSession finds a live session.
\* (When it does not, the handler answers 400 "Invalid session".)
CallbackGet(c, st) ==
    /\ hpc[c] = Free
    /\ ConsumeGet(c, st)
    /\ hpc' = [hpc EXCEPT ![c] = [pc |-> "consume", st |-> st]]
    /\ UNCHANGED <<logins, issued, granted>>

\* ... DeleteSession succeeds: the session is consumed.
CallbackDelete(c) ==
    /\ hpc[c].pc = "consume"
    /\ ConsumeDelete(c)
    /\ hpc' = [hpc EXCEPT ![c] = [pc |-> "exchange", st |-> hpc[c].st]]
    /\ UNCHANGED <<logins, issued, granted>>

\* ... DeleteSession finds nothing: 400 "Invalid session".
CallbackDeleteNotFound(c) ==
    /\ hpc[c].pc = "consume"
    /\ ConsumeDeleteNotFound(c)
    /\ hpc' = [hpc EXCEPT ![c] = Free]
    /\ UNCHANGED <<logins, issued, granted>>

\* ExchangeCodeForTokens: discovery and the token POST with the session's
\* verifier and redirect URI return 200 and a decodable TokenResponse.
CallbackExchangeOK(c) ==
    /\ hpc[c].pc = "exchange"
    /\ hpc' = [hpc EXCEPT ![c] = [pc |-> "validate", st |-> hpc[c].st]]
    /\ UNCHANGED <<storeVars, logins, issued, granted>>

\* ... or any of them fails (transport, non-200, decoding): 500.  The
\* session is already gone, so the login cannot be retried.
CallbackExchangeFail(c) ==
    /\ hpc[c].pc = "exchange"
    /\ hpc' = [hpc EXCEPT ![c] = Free]
    /\ UNCHANGED <<storeVars, logins, issued, granted>>

\* ValidateToken accepts the access token: 200 with the tokens and user.
CallbackValidateOK(c) ==
    /\ hpc[c].pc = "validate"
    /\ granted' = [granted EXCEPT ![hpc[c].st] = @ + 1]
    /\ hpc' = [hpc EXCEPT ![c] = Free]
    /\ UNCHANGED <<storeVars, logins, issued>>

\* ... or rejects it: 401, although the provider has issued the tokens.
CallbackValidateFail(c) ==
    /\ hpc[c].pc = "validate"
    /\ hpc' = [hpc EXCEPT ![c] = Free]
    /\ UNCHANGED <<storeVars, logins, issued, granted>>

-----------------------------------------------------------------------------
Init ==
    /\ StoreInit
    /\ hpc = [c \in Callers |-> Free]
    /\ logins = [st \in {} |-> [req |-> NoRedirect, uri |-> "default"]]
    /\ issued = {}
    /\ granted = [st \in States |-> 0]

Next ==
    \/ \E c \in Callers, st \in States, req \in Requests : LoginStart(c, st, req)
    \/ \E c \in Callers : LoginDiscoveryOK(c) \/ LoginDiscoveryFail(c)
    \/ \E c \in Callers, st \in States : CallbackGet(c, st)
    \/ \E c \in Callers :
          \/ CallbackDelete(c) \/ CallbackDeleteNotFound(c)
          \/ CallbackExchangeOK(c) \/ CallbackExchangeFail(c)
          \/ CallbackValidateOK(c) \/ CallbackValidateFail(c)
    \/ CleanupExpiredSessions /\ UNCHANGED handshakeVars
    \/ Tick /\ UNCHANGED handshakeVars
    \/ TimeBoundReached /\ UNCHANGED handshakeVars

Spec == Init /\ [][Next]_vars /\ WF_vars(CleanupExpiredSessions)

-----------------------------------------------------------------------------
(* Properties.                                                             *)

HandshakeTypeOK ==
    /\ StoreTypeOK
    /\ hpc \in [Callers -> HPCState]
    /\ DOMAIN logins \subseteq States
    /\ \A st \in DOMAIN logins : logins[st] \in [req : Requests, uri : URIs]
    /\ issued \subseteq States
    /\ granted \in [States -> Nat]

\* CSRF protection: a callback answers with tokens only for a state whose
\* auth URL this server returned to a client, however callbacks with made
\* up, replayed or concurrent states interleave with logins whose
\* discovery fetch fails.
TokensOnlyForIssuedLogins == \A st \in States : granted[st] > 0 => st \in issued

\* A login URL is handed out only with a live session behind it: the
\* Timestamp InitiateLogin takes before its discovery fetch is not older
\* than the TTL when the session is stored and the URL returned.
IssuedSessionAlive ==
    [][\A st \in States :
          st \in issued' \ issued =>
             st \in DOMAIN sessions' /\ ~Expired(sessions'[st])]_vars

\* Spec 4.3/6: InitiateLogin(redirectURI) binds the handshake to the
\* redirect URI the client gave.  The code replaces any given URI.
RedirectHonoured ==
    \A st \in DOMAIN logins :
        logins[st].req # NoRedirect => logins[st].uri = logins[st].req

=============================================================================
