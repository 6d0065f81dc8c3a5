---------------------------- MODULE TokenVerifier ----------------------------
(***************************************************************************)
(* Bearer-token verification of infrastructure/services/token.go          *)
(* (TokenServiceImpl.ValidateToken) as the AuthRequired middleware of      *)
(* api/http/middlewares/keycloak.go and AuthController.HandleCallback      *)
(* call it from concurrent request goroutines.                             *)
(*                                                                         *)
(* The signing key is cached in t.publicKey, loaded lazily by              *)
(* loadPublicKey and never invalidated.  Nothing guards the field: a       *)
(* caller checks it for nil (line 123), fetches the provider's JWKS with   *)
(* http.Get (line 129), and writes the first key (line 157); the key       *)
(* function handed to jwt.ParseWithClaims reads the field again (line 47). *)
(* Each of these is a step of its own; a pointer load or store is atomic   *)
(* on the platforms Go supports, so a racy read returns the old or the new *)
(* key.  The identity provider is the environment: it may rotate the first *)
(* key of its JWKS at any time, and a fetch may fail or never answer.      *)
(*                                                                         *)
(* A token is abstracted to what the checks look at: its algorithm, the    *)
(* key that signed it, and its exp claim (present or not).                 *)
(***************************************************************************)
EXTENDS Naturals

CONSTANTS
    Callers,    \* goroutines calling ValidateToken
    Keys,       \* RSA keys the provider may publish first in its JWKS
    NoKey,      \* t.publicKey == nil; also a JWKS without keys
    Tokens,     \* bearer tokens clients present
    NoToken,    \* the "" returned by ExtractTokenFromHeader
    MaxTime     \* bound on the wall clock

ASSUME VerifierAssumption ==
    /\ NoKey \notin Keys
    /\ NoToken \notin Tokens
    /\ MaxTime \in Nat

\* An Authorization header: empty, "Bearer <tok>", or another scheme.
Headers ==
    {[scheme |-> "", tok |-> NoToken]}
    \cup [scheme : {"Bearer", "Basic"}, tok : Tokens \cup {NoToken}]

VARIABLES
    now,        \* time.Now().Unix()
    publicKey,  \* t.publicKey
    jwksKey,    \* the first key of the JWKS the provider serves now
    vpc,        \* vpc[c]: where caller c is inside ValidateToken
    granted     \* history: [tok, key, at] of every token accepted

vars == <<now, publicKey, jwksKey, vpc, granted>>

Time == 0..MaxTime

Idle == [pc |-> "idle"]

VPCState ==
    {Idle}
    \cup [pc : {"fetch", "verify"}, tok : Tokens]
    \cup [pc : {"store"}, tok : Tokens, key : Keys]

-----------------------------------------------------------------------------
(* Helpers translated from token.go and the jwt library's checks.         *)

\* token.go 71-82: the text after a case-sensitive "Bearer " prefix, or ""
\* when the header is empty, has another scheme, or nothing follows.
ExtractTokenFromHeader(h) == IF h.scheme = "Bearer" THEN h.tok ELSE NoToken

\* jwt.ParseWithClaims validates exp when present (now strictly before
\* exp); then line 63 rejects `now > exp`.
ExpiryAccepted(tok) == tok.hasExp => (now < tok.exp /\ ~(now > tok.exp))

\* The key function (lines 43-48) accepts only RSA, and returns the key it
\* reads from t.publicKey; the signature must verify under that key.
SignatureAccepted(tok, key) == tok.alg = "RS256" /\ tok.signer = key

-----------------------------------------------------------------------------
(* ValidateToken, step by step.                                            *)

\* AuthRequired extracts a token and calls ValidateToken; loadPublicKey
\* finds a cached key and returns at once.  (A request without a token is
\* answered 401 without touching any state.)
LoadCached(c, tok) ==
    /\ vpc[c] = Idle
    /\ publicKey # NoKey
    /\ vpc' = [vpc EXCEPT ![c] = [pc |-> "verify", tok |-> tok]]
    /\ UNCHANGED <<now, publicKey, jwksKey, granted>>

\* Mutant: loadPublicKey without its nil check: every call fetches.
LoadStartAlways(c, tok) ==
    /\ vpc[c] = Idle
    /\ vpc' = [vpc EXCEPT ![c] = [pc |-> "fetch", tok |-> tok]]
    /\ UNCHANGED <<now, publicKey, jwksKey, granted>>

\* ... or finds nil and starts the JWKS fetch.
LoadStart(c, tok) ==
    /\ vpc[c] = Idle
    /\ publicKey = NoKey
    /\ vpc' = [vpc EXCEPT ![c] = [pc |-> "fetch", tok |-> tok]]
    /\ UNCHANGED <<now, publicKey, jwksKey, granted>>

\* Mutant: the error of jwkToRSAPublicKey is dropped (`publicKey, _ :=`):
\* a key that does not convert is stored as a nil *rsa.PublicKey.
FetchReceiveIgnoreConvErr(c) ==
    /\ vpc[c].pc = "fetch"
    /\ jwksKey # NoKey
    /\ \E k \in {jwksKey, NoKey} :
          vpc' = [vpc EXCEPT ![c] = [pc |-> "store", tok |-> vpc[c].tok,
                                     key |-> k]]
    /\ UNCHANGED <<now, publicKey, jwksKey, granted>>

\* The JWKS arrives, decodes, has keys, and its first key converts.
FetchReceive(c) ==
    /\ vpc[c].pc = "fetch"
    /\ jwksKey # NoKey
    /\ vpc' = [vpc EXCEPT ![c] = [pc |-> "store", tok |-> vpc[c].tok,
                                  key |-> jwksKey]]
    /\ UNCHANGED <<now, publicKey, jwksKey, granted>>

\* Mutant: ValidateToken ignores the error loadPublicKey returns and goes
\* on to parse the token.
FetchFailSwallowed(c) ==
    /\ vpc[c].pc = "fetch"
    /\ vpc' = [vpc EXCEPT ![c] = [pc |-> "verify", tok |-> vpc[c].tok]]
    /\ UNCHANGED <<now, publicKey, jwksKey, granted>>

\* The fetch, the decoding or the conversion fails, or the set is empty:
\* ValidateToken returns the error (401 to the client).
FetchFail(c) ==
    /\ vpc[c].pc = "fetch"
    /\ vpc' = [vpc EXCEPT ![c] = Idle]
    /\ UNCHANGED <<now, publicKey, jwksKey, granted>>

\* t.publicKey = publicKey (line 157), overwriting whatever another caller
\* stored in the meantime.
StorePublicKey(c) ==
    /\ vpc[c].pc = "store"
    /\ publicKey' = vpc[c].key
    /\ vpc' = [vpc EXCEPT ![c] = [pc |-> "verify", tok |-> vpc[c].tok]]
    /\ UNCHANGED <<now, jwksKey, granted>>

\* Parse and verify with the key the key function reads now; the claims
\* are returned and the protected handler runs.
VerifyAccept(c) ==
    LET tok == vpc[c].tok IN
    /\ vpc[c].pc = "verify"
    /\ SignatureAccepted(tok, publicKey)
    /\ tok.hasExp
    /\ ExpiryAccepted(tok)
    /\ granted' = granted \cup {[tok |-> tok, key |-> publicKey, at |-> now]}
    /\ vpc' = [vpc EXCEPT ![c] = Idle]
    /\ UNCHANGED <<now, publicKey, jwksKey>>

\* ... the algorithm, the signature or the expiry is rejected: 401.  A
\* token without exp passes the library and dereferences the nil
\* ExpiresAt at line 63: the goroutine panics and the handler never runs.
VerifyReject(c) ==
    LET tok == vpc[c].tok IN
    /\ vpc[c].pc = "verify"
    /\ ~(SignatureAccepted(tok, publicKey) /\ tok.hasExp /\ ExpiryAccepted(tok))
    /\ vpc' = [vpc EXCEPT ![c] = Idle]
    /\ UNCHANGED <<now, publicKey, jwksKey, granted>>

\* The provider rotates the first key of its JWKS.
Rotate(k) ==
    /\ k # jwksKey
    /\ jwksKey' = k
    /\ UNCHANGED <<now, publicKey, vpc, granted>>

Tick ==
    /\ now < MaxTime
    /\ now' = now + 1
    /\ UNCHANGED <<publicKey, jwksKey, vpc, granted>>

TimeBoundReached ==
    /\ now = MaxTime
    /\ UNCHANGED vars

-----------------------------------------------------------------------------
VerifierInit ==
    /\ now = 0
    /\ publicKey = NoKey
    /\ jwksKey \in Keys
    /\ vpc = [c \in Callers |-> Idle]
    /\ granted = {}

VerifierNext ==
    \/ \E c \in Callers, h \in Headers :
          LET tok == ExtractTokenFromHeader(h) IN
          /\ tok # NoToken
          /\ LoadCached(c, tok) \/ LoadStart(c, tok)
    \/ \E c \in Callers :
          \/ FetchReceive(c) \/ FetchFail(c) \/ StorePublicKey(c)
          \/ VerifyAccept(c) \/ VerifyReject(c)
    \/ \E k \in Keys \cup {NoKey} : Rotate(k)
    \/ Tick
    \/ TimeBoundReached

\* Only the steps a goroutine takes without waiting on the network are
\* fair.  The JWKS fetch uses http.Get, the default client without a
\* timeout: nothing makes it answer or fail.
VerifierSpec ==
    /\ VerifierInit /\ [][VerifierNext]_vars
    /\ \A c \in Callers :
          /\ WF_vars(StorePublicKey(c))
          /\ WF_vars(VerifyAccept(c) \/ VerifyReject(c))

-----------------------------------------------------------------------------
(* Properties.                                                             *)

VerifierTypeOK ==
    /\ now \in Time
    /\ publicKey \in Keys \cup {NoKey}
    /\ jwksKey \in Keys \cup {NoKey}
    /\ vpc \in [Callers -> VPCState]
    /\ granted \subseteq [tok : Tokens, key : Keys, at : Time]

\* The key function of ParseWithClaims reads t.publicKey again (line 47),
\* after loadPublicKey has returned and other callers may have run their
\* fetches and stores: whatever they did, a caller that gets past
\* loadPublicKey verifies against a real key, never against the nil cache.
VerifyWithLoadedKey ==
    \A c \in Callers : vpc[c].pc = "verify" => publicKey \in Keys

\* Spec 3 and 4.2: the signing key, once loaded, is reused for every later
\* verification until the process restarts.
KeyStable == [][publicKey # NoKey => publicKey' = publicKey]_vars

\* Spec 5: every network call is bounded by a caller-supplied timeout, so
\* a ValidateToken call eventually returns.
ValidateEventuallyReturns ==
    \A c \in Callers : (vpc[c] # Idle) ~> (vpc[c] = Idle)

=============================================================================
