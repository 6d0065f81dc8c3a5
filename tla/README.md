# Formal models of the aurora-cms API: authentication core and content writes

TLA+ models of the Go sources under `src/`, TLC configurations that check them
on small instances, and TLAPS proofs of the most important invariants for every
value of the constants.

## 1. Inventory

### Components

| Component | Source | State it keeps | Operations |
|---|---|---|---|
| Session store | `infrastructure/services/session.go` | `sessions map[string]*AuthSession` under one `sync.RWMutex`; a ticker goroutine | `StoreSession`, `GetSession` (RLock), `DeleteSession` (Lock), `ValidateAndConsumeSession` (= GetSession then DeleteSession, two lock acquisitions), `cleanupExpiredSessions` (every minute, Lock, deletes age > 300 s), `Serialize/DeserializeSession` (pure JSON) |
| Auth orchestrator | `infrastructure/auth/auth.go`, `application/use_cases/auth.go` | none (configuration only) | `GetOIDCDiscovery`, `InitiateLogin`, `ExchangeCodeForTokens`, `RefreshToken`, `Logout`, `GetAuthConfig`, `GetDiscoveryConfig` |
| Auth HTTP handlers | `api/http/controllers/auth_controller.go` | none; they drive the two services above | `InitiateLogin` (service call, then `StoreSession`), `HandleCallback` (consume, exchange, `ValidateToken`), `RefreshToken`, `Logout`, `GetUserInfo` |
| Token verifier | `infrastructure/services/token.go`, `api/http/middlewares/keycloak.go` | `publicKey *rsa.PublicKey`, loaded lazily, never refreshed, no lock | `ValidateToken` (load key, parse+verify RSA, expiry), `ExtractTokenFromHeader`, `GetUserInfo`, `HasRole`, `HasAnyRole`; middleware `AuthRequired`, `RequireRoles` |
| HTTP client | `infrastructure/http_client/*.go` | none | `Get`, `Post`, `Do` with `Timeout = 3 s` |
| Transaction middleware | `api/http/middlewares/db_trx.go` | one DB transaction per request | begin; commit on 200/201/204, else rollback; rollback on panic |
| Content CRUD | `application/use_cases/{tenant,site}.go`, `infrastructure/persistence/**`, `domain/entities/**` | MySQL tables | create/read/update/delete of tenants, sites, pages, versions, blocks, templates, users |
| Value objects, health, logging, config, bootstrap | `domain/value_objects`, `infrastructure/{health,logging,config}`, `api/bootstrap` | none shared | validation, probes, wiring |

### How they interact

`GET /auth/login` → `AuthController.InitiateLogin` → `Service.InitiateLogin`
draws a 32-byte state and a 64-byte verifier, **stamps the session with
`time.Now()`**, then fetches the discovery document (blocking I/O, 3 s client
timeout) and builds the authorization URL; the controller then calls
`StoreSession` and returns URL and state. The identity provider later
redirects the browser to `GET /auth/callback?code&state` →
`ValidateAndConsumeSession(state)` (read lock for the get, **separate** write
lock for the delete) → `ExchangeCodeForTokens` (discovery + token POST with the
session's verifier and redirect URI) → `TokenService.ValidateToken` (lazy JWKS
fetch with `http.Get`, no timeout, unsynchronised cache) → 200 with tokens.
Meanwhile the sweep goroutine deletes expired sessions every minute. Shared
mutable state: the session map (locked) and the verifier's key pointer (not
locked).

### What is hard

* Concurrency: many handler goroutines, the sweep goroutine; the consume is two
  critical sections; the key cache is written without a lock.
* Time: a 300 s TTL checked at `GetSession` but not at `DeleteSession`; a
  timestamp taken before blocking I/O; the sweep's own boundary.
* Failure: discovery, exchange, validation and revocation can fail; the session
  is consumed before the exchange, so a failure after it is final.
* Ordering and replay: callbacks can be replayed, duplicated, concurrent, or
  carry a state the server never issued.

### Properties that make each component correct

* Session store: a session is consumed at most once; a session validated by a
  caller is not swept from under it while still valid; expired sessions are
  eventually removed; a consume never succeeds on an expired session (spec).
* Handshake: tokens only for states this server issued (CSRF); an issued login
  URL has a live session behind it; the handshake is bound to the client's
  redirect URI (spec); handlers always answer (timeouts).
* Token verifier: fail closed (accepted ⇒ signed with the cached key and not
  expired); the cached key never changes once loaded (spec §3); the first
  validation eventually returns.
* Transaction middleware: a request's writes are committed iff the response is
  2xx and the commit succeeds.

## 2. Modules

| Module | Models | Kind |
|---|---|---|
| `SessionStore` | `services/session.go` | component |
| `SessionLifecycle` | what the store promises of one session: issued, then consumed once or dead | abstract spec |
| `AuthHandshake` | login and callback handlers over the store | composition (EXTENDS `SessionStore`) |
| `TokenVerifier` | `services/token.go` `ValidateToken`, `ExtractTokenFromHeader`; `middlewares/keycloak.go` `AuthRequired` | component |
| `DbTrx` | `middlewares/db_trx.go` | component |
| `ContentCatalog` | tenant and site use cases, repositories, mappers, entities, run inside `DbTrx` | composition (EXTENDS `DbTrx`) |
| `MC_*` | model values and small sets for TLC | instantiation |
| `*_proofs` | TLAPS theorems | proofs |

## 3. The models

### SessionStore (`SessionStore.tla`)

State: `now` (`time.Now().Unix()`), `sessions` (the map, as a TLA+ function
from stored states to their `Timestamp`), `vc[c]` (caller `c` between the two
halves of `ValidateAndConsumeSession`, with the state and timestamp it read),
and two history variables: `used` (states already drawn) and `consumed[st]`
(successful consumes).

Each critical section is one atomic step (no I/O or other lock inside it):
`StoreSession`, the get (`ConsumeGet`), the delete (`ConsumeDelete` /
`ConsumeDeleteNotFound`), and the whole sweep (`CleanupExpiredSessions`).
`Store` is the controller storing a session made by `InitiateLogin`: the state
is fresh (32 random bytes: collisions are not modelled) and the timestamp is
at most `now`. `Tick` advances the clock up to `MaxTime`; `TimeBoundReached`
lets a run stop there. Data is abstracted: a session is its key and its
timestamp.

Fairness: weak fairness of the sweep only. The sweep goroutine is started in
`NewSessionService` and loops forever on a one-minute ticker; callers and the
clock are the environment and are not assumed to act.

### SessionLifecycle and the refinement

`SessionLifecycle` states the store's promise over sets of states, not over
the map: a fresh state is `Issue`d (born `live` with its timestamp, or
already `dead` when the timestamp is older than the TTL), a `live` state is
`Consume`d once and becomes `spent`, live states older than the TTL may
`Expire`. The promise does not say when the sweep runs, so `Expire` takes
any subset of the dying states, and `Advance` moves the clock and may let
some of the states it makes dying go at once.
Nothing leaves `spent` or `dead`.

`SessionStore` maps onto it (`LifecycleRefinement == Lifecycle!LifeSpec`)
with `live` = the stored sessions that are unexpired or held by a caller
between its get and its delete (`Held`), `spent` = the consumed states, and
`dead` = every other drawn state. `ConsumeGet` and a failed delete are
stutters, `ConsumeDelete` is `Consume`, the sweep is `Expire` of what it
removes from the live set, `Tick` is `Advance`. A consume is thus allowed
only of a state that was live when its caller read it, which is the
"validated" reading of the spec; the stricter "unexpired at the delete" is
`ConsumeWithinTTL`, which the code breaks (finding 1).

### AuthHandshake (`AuthHandshake.tla`)

EXTENDS `SessionStore` and shares its variables. `hpc[c]` is the handler
goroutine's position: `discovery` (InitiateLogin has stamped the session and
waits for the discovery document), `consume`, `exchange`, `validate`.
`logins[st]` keeps the redirect requested and the one bound; `issued` the
states returned to a client; `granted[st]` the 200 answers with tokens.
Network calls succeed or fail nondeterministically; success is possible only
within `HTTPTimeout` of the start (the injected client's 3 s `Timeout`
covers the whole exchange). Callbacks carry any state, so replays, duplicates,
concurrent callbacks and made-up states are all explored. A callback with an
`error` parameter, or without code or state, answers 400 without touching any
state and is a stutter.

### TokenVerifier (`TokenVerifier.tla`)

State: `publicKey` (the cache, `NoKey` for nil), `jwksKey` (the key the
provider currently publishes), `vpc[c]` (caller `c` inside `ValidateToken`:
`fetch`, `store`, `verify`, with its token and the fetched key), `now`, and the
history `granted` (tokens accepted, with the key and time of the check).
A request header is one of a small set; `ExtractTokenFromHeader` is translated
as written (prefix `Bearer `). `LoadCached` / `LoadStart` are the nil check of
`loadPublicKey` (no lock); `FetchReceive` / `FetchFail` the `http.Get` of the
JWKS; `StorePublicKey` the unsynchronised write; `VerifyAccept` /
`VerifyReject` the parse (algorithm, signature against the key read again by
the key function, `exp` present and in the future). `Rotate` is the provider
changing its key. A token is a record of algorithm, signer, expiry.

Fairness: weak fairness of the steps a goroutine takes without waiting on the
network (the store and the verification). The fetch is not fair: `http.Get`
uses the default client, which has no timeout.

### DbTrx and ContentCatalog

`DbTrx` is the middleware's per-request transaction: `TrxBegin` (a failed
`Begin` answers 500 and changes nothing, so it is not an action) and `TrxEnd`
(commit on 200/201/204, rollback otherwise; either way the transaction ends).

`ContentCatalog` EXTENDS `DbTrx`. Workers are request goroutines; `wpc[w]` is
the use case, its step and the entity it holds. The repositories run every
statement on the plain `common.Database` (autocommit), not on the request's
transaction, so each `SELECT`/`INSERT`/`UPDATE`/`DELETE` is one atomic step
and the steps of two requests interleave; any statement can fail
(`StatementFails`, 500). Tables are functions from ids to rows with only the
columns the SQL writes: the site `INSERT` leaves `template_id` and
`description` to their defaults, the tenant `INSERT` its description; an
`UPDATE` of a missing row writes nothing and succeeds; ids come from an
`AUTO_INCREMENT` that is never reused. Operations: `CreateSite` (tenant
lookup, `ExistsByDomain`, insert), `UpdateSite` (find, `FindByDomain` when
the domain changes, save), `DeleteSite`, `EnableSite`/`DisableSite` (find,
save), `CreateTenant`, `UpdateTenant`, `DeleteTenant`. `Dispatch` begins the
transaction and `Complete` ends it with the status the use case returned.
`returned[w]` and `deletedSites` are history variables.

No fairness is assumed: request arrival is the environment, and the
properties checked are safety properties.

## 4. Runs

| Run | Checks | Shows |
|---|---|---|
| `session_store_safety` | `StoreTypeOK`, `SingleUse`, `ValidatedNotSwept` | two consumers of the same state, the sweep and the clock interleaved in every order: single use holds only thanks to `DeleteSession`'s existence check, and the sweep and `GetSession` agree on the boundary |
| `session_store_gc` | `ExpiredEventuallyRemoved`, `LifecycleRefinement` | under the sweep's fairness expired sessions leave the map, and the two-lock store implements the session lifecycle |
| `session_ttl_at_consume` | `ConsumeWithinTTL` (violation) | see finding 1 |
| `handshake` | `HandshakeTypeOK`, `TokensOnlyForIssuedLogins`, `IssuedSessionAlive` | login handlers whose discovery fails or is slow, interleaved with arbitrary callbacks, never complete a login that was not issued; the 3 s timeout keeps the stale timestamp harmless |
| `handshake_redirect` | `RedirectHonoured` (violation) | see finding 2 |
| `verifier_safety` | `VerifierTypeOK`, `VerifyWithLoadedKey` | two callers racing to load the key while the provider rotates it: every key cached, stored or recorded is a real one, and the key function, which reads the cache again after `loadPublicKey`, never finds it nil |
| `verifier_key_race` | `KeyStable` (violation) | see finding 3 |
| `verifier_fetch_liveness` | `ValidateEventuallyReturns` (violation) | see finding 4 |
| `catalog_sequential` | `CatalogTypeOK`, `DomainsUnique` | one request at a time, any statement failing: domains stay unique |
| `catalog_concurrent` | `DeletedSitesStayDeleted` | two requests: a stale update, enable or disable never resurrects a deleted site |
| `catalog_domain_race` | `DomainsUnique` (violation) | see finding 5 |
| `catalog_read_back` | `WriteReadBack` (violation) | see finding 6 |

Bounds. Session store and handshake: 2 callers (enough for a race of two
consumers on one state), 3 states, `TTL = 2`, `MaxTime = 4`,
`HTTPTimeout = 1`; the TTL is scaled from 300 s and the timeout from 3 s,
and what matters is `HTTPTimeout < TTL < MaxTime`, so that a session can
expire while a caller sits between its get and its delete. Verifier: 2
callers, 2 keys (so a rotation changes the key), `MaxTime = 3` (tokens
expiring before, at and after a check). Catalog: 2 domains (a clash and a
non-clash), 1 template, 1 description plus `Nil`; sequentially 3 site ids and
2 tenant ids; concurrently 2 workers, 2 site ids, 1 tenant id (1.1 M states in
about 35 s). Model values are symmetric in the safety runs, and in `handshake`, whose
action property `IssuedSessionAlive` quantifies over all states and is
unchanged by a permutation of callers or states; symmetry is never used
with liveness properties or with the refinement.

Each property of a passing run has a mutant (PROJECT.json), a plausible bug
of the mapped code that TLC must find violating it: for instance
`DeleteSession` without its existence check breaks `SingleUse`; a get
that skips the expiry test breaks the refinement; stamping a login with its
expiry instant breaks `HandshakeTypeOK`; ignoring the key conversion error
breaks `VerifierTypeOK`, and ignoring `loadPublicKey`'s error breaks
`VerifyWithLoadedKey`; a sweep with `>=` breaks `ValidatedNotSwept`; storing the session
before the discovery fetch breaks `TokensOnlyForIssuedLogins`; dropping the
`ExistsByDomain` check breaks `DomainsUnique`; an upserting save breaks
`DeletedSitesStayDeleted`.

### Findings

1. **The consume is not one critical section** (`session.go:83-89`). The spec
   (§4.1) requires the writer lock over the whole get+delete and a session
   valid for at most 300 s. The code validates under the read lock and deletes
   under a new write lock without re-checking the age: a session validated at
   age 300 s is returned at 301 s. Single use still holds (the delete's
   existence check), so the effect is a TTL overrun bounded by the wait for the
   write lock.
2. **The client's redirect URI is discarded** (`auth.go:70-74`): an empty
   `redirect_uri` selects the configured default, any other value is replaced
   by `BaseURL/auth/callback`. The spec has `InitiateLogin(redirectURI)` bind
   the given URI.
3. **The key cache is not once-guarded** (`token.go:123-158`): two first
   callers both find `publicKey` nil and fetch; if the provider rotates in
   between, the later store replaces the key the earlier caller verified with.
   The spec (§3, §4.2) says the key is loaded once and reused.
4. **The JWKS fetch has no timeout** (`token.go:129`): `http.Get` uses the
   default client, so a provider that never answers blocks every first
   `ValidateToken` forever; the spec (§5) requires a timeout on every call.
   Because `DbTrx` is mounted globally, each such request also holds a DB
   connection (hazard `db_trx.go:37`).
5. **Site domains are not unique under concurrency**
   (`use_cases/site.go:49`): `ExistsByDomain` and the insert are two
   autocommitted statements, so two concurrent creates of one domain both
   insert.
6. **Writes do not store what they return** (`repositories/tenant.go:36`,
   `repositories/site.go:40`): the `INSERT`s omit description and template,
   and the `UPDATE` omits them too, while the use cases return the entity
   with the caller's values.

Findings 5 and 6 are latent: the content use cases are wired by dependency
injection, but `NewRoutes` (`api/http/routes/module.go:21`) mounts only the
health and auth routes.

## 5. Proofs

All theorems are checked by `tlapm` for every value of the constants, under
the named assumptions of the modules that declare them.

`SessionStore_proofs.tla` (`TTL ∈ Nat \ {0}`, `MaxTime ∈ Nat`):

* `StoreTypeCorrect`: `StoreSpec => []StoreTypeOK`.
* `SingleUseHolds`: `StoreSpec => []SingleUse`. `SingleUse` alone is not
  inductive (nothing says `consumed[st]` was 0 before a delete), so the proof
  uses `IInv == StoreTypeOK /\ ConsumeInv`: stored states were drawn; undrawn
  states are unconsumed; an entry still in the map is unconsumed.
* `ValidatedNotSweptHolds`: `StoreSpec => []ValidatedNotSwept`, from
  `SweepInv`, which adds `ReadStillCurrent`: a caller between the get and
  the delete holds a drawn state and, while that state is in the map, the
  very timestamp stored under it (states are never stored twice). The sweep
  removes an entry only when `Expired` holds of that timestamp, and `Expired`
  stays true as the clock advances (lemma `ExpiredStable`).

* `StoreRefinesLifecycle`: `StoreSpec => LifecycleRefinement`. Initial
  states map to `LifeInit` (nothing live, spent or dead). The lemma
  `LifeStepRefines` shows, one case per action, that every step is `Issue`,
  `Consume`, `Expire`, `Advance` or a stutter of the mapped variables. It
  rests on `RefInv == IInv /\ SweepInv`: a consumed state is out of the map
  and was drawn, so `spent` is disjoint from `live` and the fresh states of
  the lifecycle are exactly the undrawn ones; a caller at the delete holds
  the very timestamp stored, so its state stays live until it deletes it.
  The lifecycle has no fairness, so the whole of `LifeSpec` is proved.

`TokenVerifier_proofs.tla` (`MaxTime ∈ Nat`):

* `VerifierTypeCorrect` and `VerifyWithLoadedKeyHolds`: `VerifierSpec =>
  []VerifierTypeOK` and `=> []VerifyWithLoadedKey`, from `IInv ==
  VerifierTypeOK /\ VerifyWithLoadedKey`. Each needs the other: an accepted
  token is recorded with the key the cache holds, which is real only because
  a caller at the verify step finds a key in the cache; and that holds
  because the cache is only ever set to a stored key, which the type says is
  real, and never reset.

`ContentCatalog_proofs.tla`:

* `DeletedSitesStayDeletedHolds`: strengthened by `IdsIssued` (every id in
  the table or in the deleted history lies below `nextSite`), so an insert,
  which takes `nextSite`, can never reuse a deleted id, and an update, which
  never adds a row, cannot bring one back.
* `CatalogTypeCorrect`: `CatalogSpec => []CatalogTypeOK`. `CatalogTypeOK`
  lets a busy goroutine hold any request and entity and is not inductive
  (`UsSave` returns its entity, whose id must be a real one). `TypeInv` says,
  with `WorkerShape`, what each step of each use case holds: the request of
  that use case, no entity before the first lookup, a loaded entity with a
  real id before a save. The tables are typed as functions on their own
  domains.
* `DomainsUniqueSequential`: with `Workers = {w0}`, `CatalogSpec =>
  []DomainsUnique`. The strengthening `DomainChecked` says a goroutine at the
  insert holds a domain no row has, and one about to save an update or an
  enable/disable holds a domain only its own row has; with `IdsIssued` the
  inserted id is new. The hypothesis is essential: with two goroutines the
  property is false (finding 5): another goroutine's insert of the same
  domain breaks `DomainChecked` for a goroutine already past its check.

`AuthHandshake_proofs.tla` (EXTENDS `AuthHandshake` and
`SessionStore_proofs`, whose lemmas on the store it reuses):

* `HandshakeTypeCorrect` and `TokensOnlyForIssuedLoginsHolds`, from
  `HInv == HandshakeTypeOK /\ CallbackChain /\ TokensOnlyForIssuedLogins`.
  `CallbackChain` follows a state along the callback: every stored session
  was issued (the step that stores it issues its URL); a handler at the
  consume step holds the state its `GetSession` validated; a handler at the
  exchange or validate step holds an issued state.
* `IssuedSessionAliveHolds`: under the hypothesis `HTTPTimeout <= TTL` (the
  code's 3 s client timeout against the 300 s TTL), `Spec =>
  IssuedSessionAlive`. Only `LoginDiscoveryOK` issues a URL, and it is
  enabled only within the timeout of the timestamp it stores.

Each inductive invariant was first checked by TLC as an invariant of a run.
Left to TLC: the liveness properties (`ExpiredEventuallyRemoved`,
`ValidateEventuallyReturns`), which need ENABLED and fairness reasoning
that the prover does not do,
and `DomainsUnique` with concurrent requests, which is false.

## 6. Not modelled

* Serialisation of sessions (pure JSON), random generation and SHA-256 (the
  model draws fresh states), URL and form encoding, logging, configuration,
  routing, dependency injection and the health probes.
* `RefreshToken` and `Logout`: they change no state of this server; their
  only effects are calls to the provider, whose failure the spec (§4.3)
  allows Logout to ignore. Logout's unclosed response body is a hazard.
* `HasRole`/`HasAnyRole` and the `RequireRoles` middleware: no route mounts
  them.
* Pages, versions, blocks, templates and users: their use cases are plain
  CRUD of the same shape as tenants and sites and no route reaches them;
  read-only queries change no state.
* The panic path of `DbTrx` (a handler panicking and the deferred rollback):
  the model has no panics, so on its paths `TrxEnd` always ends the
  transaction and no property about an open transaction could fail; the
  hazard is listed without a property.
* The connection pool shared by `DbTrx` and a hanging JWKS fetch: a
  composition with pool size would only restate finding 4.
