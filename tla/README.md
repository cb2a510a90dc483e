# Verification of The Black Hole (MCP gateway)

TLA+ specifications of the gateway, model-checked with TLC and, where it pays,
proved with TLAPS for every value of the constants. Paths below are relative to
the repository (`src/`).

## 1. The system

The gateway lets MCP clients (language models and their hosts) call REST APIs as
*tools*. Administrators describe APIs as *connections* with *endpoints* in a
portal; every endpoint is a tool. A `tools/call` request is authorised, its
definition is checked against the hash it was approved under, its arguments are
redacted, a credential is fetched from a vault, the API is called, the result is
redacted and the call is audited.

| Component | State | Operations | Hard behaviour | What makes it correct | Module |
|---|---|---|---|---|---|
| Topology store (`pkg/storage/db.go`, `pkg/toolintegrity`) | `api_connections`, `api_endpoints` with definition hash and version | SaveConnection, DeleteConnection, SaveEndpoint (SELECT, then upsert), DeleteEndpoint | two savers of one row; deletes between the two statements; foreign keys on or off | the stored hash is the hash of the stored definition; no orphan tools; versions count changes | `Topology` |
| OpenAPI import (`pkg/openapiimport`, `handleOpenAPIImport`) | request-local; writes the topology | Parse, SaveConnection, one SaveEndpoint per operation | no transaction; stops half way; names that collide | success means every tool was saved; what a stopped import leaves is known; a refusal can be explained | `OpenAPIImport` (extends `Topology`) |
| Config caches (`pkg/cache`, `DB.connCache`, `DB.epCache`) | one TTL cache per table and process | Get/SELECT/Set, purge on write, janitor | fill racing purge; other replicas never purge | staleness is bounded | `TopologyCache` |
| Tool-call pipeline (`pkg/mcp/server.go`) | request-local, `activeQueries`, database rows | handleRequest, toolDefinitionChanged, findEndpoint, callTool, handleAdminTool | four reads of two tables per call, racing edits; error paths; shutdown | pinning refuses tampered tools, and others only for a known cause; gauge exact; payloads redacted; every call and record accounted for | `ToolCalls` (uses `AuditTrail`) |
| Audit trail (`logAuditAsync`, `auditWorker`, `LogAudit`) | bounded channel, worker, `audit_logs` | enqueue or drop, insert, fail | full queue, failing insert, process end | each record settles exactly once and in order | `AuditTrail` |
| Local vault (`pkg/vault/vault.go`) | map in memory, encrypted file | open/migrate, SetSecret, DeleteSecret, save | truncate-then-write, crash, second process | acknowledged secrets survive; a vault loads whole or not at all | `LocalVault` |
| Gateway client (`pkg/gateway/client.go`) | secret cache, response cache | ExecuteCall, getSecret, doWithRetry | retries, cancellation, rotation during a fetch | non-idempotent requests go out once; old credentials die; calls end | `GatewayClient` |
| Rate limiter (`main.go`) | bucket per address | allow, eviction sweep | cutoff taken before the lock; eviction and re-creation | it is a token bucket | `RateLimiter`, `TokenBucket` |
| HTTP transports (`ServeSSE`, `ServeMessages`, `ServeStreamable`) and shutdown | session map, open streams, client tokens | open, register, post, answer, token edits, Shutdown | session limit, stream ending under a post, shutdown without deadline | no leak, no overshoot, a role that was taken away is used no longer | `Sessions` |
| OAuth validator (`pkg/oauth/validator.go`) | JWKS cache per issuer | ValidateToken, fetchJWKS | slow fetch overwrites a newer document; key rotation | withdrawn keys die and new keys work within a bound | `TokenValidator` |
| Portal page (`pkg/portal/static/app.js`) | `STATE.connections`, `STATE.endpoints`, the views, two forms with hidden ids, requests under way | start, router, eight load functions, forms, deletes | every load and write is asynchronous: answers overlap, fail and overtake one another; other administrators edit the same tables | a save reaches the row that was opened; what was saved is shown; nothing stays at its placeholder | `PortalPage` |
| Settings badges (`LoadTLSConfig`, `handleSettings`, `renderTlsStatusBadge`, `renderMtlsStatusBadge`) | TLS settings | derive the state of encryption, three times | the derivations can disagree | the page says what the gateway does | `PortalBadges` (in `PortalPage`) |
| Portal sign-in (`app.js`, `handleLogin`, `handleSSOLogin`, `handleSSOCallback`, `pkg/auth`) | `localStorage`, `STATE.token` per tab, the `oidc_state` cookie; the gateway keeps no session | login, SSO, fetch and its interceptor, reload, logout | tabs share one token and one cookie; late refusals; `/metrics` with a token of its own | nobody is signed out without a cause; a refused token is given up | `PortalSession` |
| Telemetry view (`GetAuditLogs`, `loadTelemetry` and its charts) | the page of rows last loaded | load, figures, charts | timestamps of whole seconds, a LIMIT, rounding | charts and figures fit the audit trail | `PortalTelemetry` (extends `AuditTrail`) |

How they interact: the pipeline reads the topology (through the caches), calls the
gateway client, which reads the vault, and hands records to the audit worker; the
portal and the admin tools write topology, vault and tokens; the transports call
the pipeline; validator and limiter stand before the transports; `main` starts and
stops all of them. The page is a client of the portal's handlers, and its telemetry
view of the audit trail.

Not modelled: the read-only JSON-RPC methods and portal handlers (operational-stats,
the OpenAPI document); the stdio loop (sequential); `PostgresVault` (one SQL statement
per operation, nothing in memory); the verification of the ID token at an SSO login,
which succeeds or fails (its JWKS cache is a copy of the validator's with a single
issuer); the set-up of telemetry; configuration parsing (its values are the
constants); `mcp-cli` and `sbom-gen` (one request or one file per run); manifests. Of
the page: toasts, the text of the namespace-conflict toast, copy and download of the
OpenAPI document, the search in the docs, the theme, `escapeHtml`, the browser's
back button, and the second `hashchange` listener that a doubled login registers
(`app.js:138`): it makes a later route change start its loads twice, which is what
overlapping loads are in `PortalPage` anyway. The page's third fallback for the badges,
on `tls_cert_path` and `client_ca_path` (`app.js:491`, `522`), is never reached, because
`handleSettings` always sends the fields of the first two. The detectors of the redactor
are regular expressions and stay data: a payload is `clean`, `raw` (a string they match), `rawKey` (the
same as an object key or a number), `rawBody` (in a body of the upstream API) or `mask`. So do body templates, whose placeholders
`client.go:246` substitutes in the order of a Go map. What a late write to the
finished `ResponseWriter` of a closed stream does (`server.go:571`) is net/http's.

## 2. Modules and how they correspond to the code

`PROJECT.json` maps every definition to its lines. The conventions are the same
everywhere: one SQL statement, one lock region, one file-system call or one network
answer is one atomic step; a goroutine is a member of a set of processes with a
program counter `pc` and its locals in a record; error returns are actions of their
own; variables called *history* in a module's header are read by no guard. Operators
with a `Mutation:` comment are deliberately wrong variants of the operator that
follows them; they are used to make sure that each property can fail.

* **Topology.** A row is a record or `NoRow`. SaveEndpoint is
  `SaveEndpointLookup` (SELECT, hash, next version) and `SaveEndpointUpsert`. The
  behaviour-relevant fields of a tool are one member of `Defs`, and `Canon` is what
  `canonicalizeSchema` identifies. SHA-256 is taken to be injective.
  `ForeignKeys` says whether the database enforces the clause: PostgreSQL does,
  SQLite as the code opens it does not. Rows from before the hash column start with
  no hash and version 1.
* **OpenAPIImport** extends Topology with importers. A tool name is a sequence, so
  that `a_2` written in the document and the second `a` of a document are one name.
  `Parse` is the naming of operations; everything after it is `handleOpenAPIImport`.
  `disturbed` is history: others changed the import's connection or its tools.
* **TopologyCache.** A table is its revision number. Readers are miss, SELECT, Set;
  writers commit and then purge the two caches one after the other. `took` and
  `overtaken` are history; `running` fixes the goroutines of a behaviour.
* **AuditTrail** is the channel, the single worker and the table; **ToolCalls**
  instantiates it and takes its steps. A handler's `pc` follows `handleRequest` line
  by line: pin check (two reads), redaction of the arguments, `callTool` (two reads
  again), execution, gauge, redaction of the result, audit record, response. One
  endpoint-backed tool is followed; admin tools and out-of-scope calls are further
  requests. `RedactMap`, which the arguments go through, leaves object keys and numbers as
  they are; `RedactBytes` covers the whole text of a result. It reads with `CONFIG_CACHE_TTL` 0; what caches add is TopologyCache's
  subject. `Tamper` is an out-of-band UPDATE, the case strict pinning exists for.
  `scope` fixes the requests, calls and edits of a behaviour.
* **LocalVault.** The file is absent, empty, legacy plaintext, sealed under a key, or
  garbage. `os.WriteFile` is `Truncate` and `Write`; a crash or an error may come
  between them and leave all, a part or nothing of the write.
* **GatewayClient.** ExecuteCall with its caches, retries and cancellation; a secret
  is a version number, the request's body is whole or spent.
* **RateLimiter** scales tokens to integers (`Token` units make one request);
  **TokenBucket** is the abstract specification, with a bucket that is always there
  and refilled at every tick.
* **Sessions.** A stream is one call of ServeSSE; a post is one of ServeMessages or
  ServeStreamable; `server.Shutdown` waits until none is active. Streams and posts
  remember after which edit of `client_tokens` they were resolved (`at`), and `changed`
  when a token was last edited: both are history.
* **PortalPage.** A *task* is one call of an asynchronous function of the page between
  two of its awaits: its request is answered by the gateway in one step (`AnswerLoad`,
  `AnswerWrite`, `AnswerFails`) and the answer reaches the page in a later one
  (`Arrive...`), which is the function's code up to its next await. Rows are their
  ids; a table's `version` counts its changes, and a list remembers the version it was
  read at, so that an older list is told from a newer one. `forms` are the two modals
  with a hidden id, which `form.reset()` leaves alone. loadDashboardStats replaces the
  two lists of `STATE` in two steps, because it awaits `json()` in between. `lasting` is
  history: the rows that have been there since the page was opened. `scope` fixes, for a behaviour,
  the parts of the page it follows and its bounds. After a 401 the document is
  `unloading`: it goes on until the reload replaces it. **PortalBadges** holds the
  pure functions behind the settings page.
* **PortalSession.** The tabs of one browser, `localStorage` and the cookie, and the
  gateway's handlers. A token is its number in the order of issue; `valid` is what
  `ValidateJWT` would accept now. bootstrapApp's loads are one request, since they
  carry the same token and are refused alike; `/metrics` is another. `scope` fixes the tabs
  of a behaviour (the others are closed), its requests and logins.
* **PortalTelemetry** extends AuditTrail with the timestamps of rows, the answers
  `GetAuditLogs` may give (any order within a second) and the view made of one. The
  figures are integer arithmetic; where the browser's floating point rounds
  differently, `SuccessRate` follows the browser. The bars of the frequency chart are
  the set of the busiest tools, ties going to the tool named first, as the browser's
  stable sort leaves them (`Busier`).
* **TokenValidator.** A document is a function from kids to keys. A fetch is
  discovery, request, answer and store; `Timeout` is the HTTP client's, which covers
  reading the body.

Proofs are in `*Proofs` modules; `MC*` modules define model values' data for TLC.

## 3. Runs

| Run | Instance | Shows |
|---|---|---|
| `topology` | 2 connections, 2 endpoints, 2 names, a saver and an importer, 3 documents | hashes match definitions, versions follow hashes, no orphans, imports whole or a known prefix, collisions explained |
| `topology_cache` | 2 replicas; two goroutines of one of them, or one on each; TTL 1, 1 write per table, clock 2 | staleness at most TTL plus the time the fill took; own writes visible unless a fill overlapped the purge |
| `audit_trail` | capacity 2, 4 records, pages of 3 rows, clock 2, with fairness | each record once, in order, and settled in the end; the telemetry view's chart and figures fit the table |
| `tool_calls` | 2 handlers, 6 kinds of request, 2 definitions, 1 or 2 calls with up to 2 edits, every fault, no prefix, with fairness | pinning, gauge, accounting of calls and records, redaction; every handler ends, so that shutdown completes |
| `tool_calls_prefixed` (violation) | one kind of request, `Prefixed = TRUE`, no faults | a tool that was saved and not tampered with is refused |
| `local_vault` | 2 processes, 2 keys, 2 values, 2 encryption keys, 3 changes | acknowledged changes are durable; vaults load whole |
| `rate_limiter` | 2 addresses, burst 3 half-tokens of 2, clock 8 | refines TokenBucket; bounded rate in every window |
| `sessions` | 2 streams, limit 1, 1 post, 2 tokens, 2 edits, with fairness | bounded and leak-free map, roles current but for named exceptions, revocation takes effect, shutdown waits for streams only |
| `gateway_client` | 2 callers, GET, DELETE and HEAD, 1 retry, TTL 1, 1 rotation, with fairness | sends bounded, rotation takes effect, calls end |
| `token_validator` | 2 requests, 2 issuers, 2 kids, 2 keys, 1 rotation, TTL 1, timeout 1 | withdrawn keys expire, published keys arrive |
| `portal_page` | nine sets of parts, 1 or 2 ids, 2 to 5 actions of the administrator, up to 1 edit by another one and 2 faults, with fairness | own writes shown, saves reach their row, names resolved, badges true, no view stuck |
| `portal_session` | 2 tabs, or 1 tab with 2 requests under way; 2 tokens, up to 2 SSO logins, `/metrics` open and protected, with fairness | sign-out and loss of the token have causes; refused tokens are given up; also when the login form is submitted twice |

Bounds. Two of each kind of actor are what the races need (a third repeats one of
them); two connections, names, keys or documents are what a collision needs; a
TTL of 1 with a clock of 2 or 3 lets an entry be filled, become stale, be served
stale and expire; `MaxVersion`, `MaxEdits`, `MaxOps`, `MaxRotations` and `MaxCalls`
are at least what the violating behaviours of the mutated models need.
`portal_page` follows together the parts of the page that share state (connections,
endpoints and the dashboard share `STATE`; vault, tokens, settings, logs and docs share
nothing but the router) and starts each set from every content of its tables; a
cascading delete with a late list, two forms opened one after the other, and a fault
or a refusal during a load happen within the bounds of one set each. `portal_session`
separates SSO and password logins for the same reason, and gives a single tab the second
request a doubled submission needs. `topology_cache` lets two goroutines run in a
behaviour: of one replica, so that a fill can overlap a purge, or of two, one of which
never purges. `tool_calls` follows one call with two edits (tampered with and then
enabled, or saved twice, between its reads), two calls with one edit, one call with a
sensitive key, and calls of all other kinds without edits: calls only read the rows, so
a second call changes nothing in what a first one finds there, and edits bear on no
call but one of the API's tool; the two meet only in the gauge, the counters and the
audit channel. `FiguresFit` checks the rounding
for every page of 1 to 100 rows, the LIMIT of the code, besides the pages that occur.
The proofs of section 5 have no such bounds. Symmetry is used in
`token_validator` only, over requests; that run checks no liveness.

Deadlock is not checked where the bounds make the model stop (`audit_trail`, the two
`tool_calls` runs, `local_vault`, `gateway_client`, `token_validator`, `portal_page` and
`portal_session`); it is checked in the others.

Fairness. Weak fairness of a handler's, a worker's or a stream's own steps: the Go
scheduler runs every runnable goroutine, each SQL statement and each HTTP exchange
ends by its timeout (`http.Client.Timeout`, the request's context), and
`server.Shutdown` polls until it finds no active connection. Nothing is assumed of
clients: they need not disconnect, and no edit, fault, crash or signal has to happen.
In the browser every fetch ends with an answer or an error and its continuation runs,
however many others the document has under way (fairness is per request), and a document that called `location.reload()` is replaced; nothing is assumed of what
the user does.

## 4. Where the code and its documents disagree

The following statements are defined in the modules and violated by what the code
does. One has a run of its own, `tool_calls_prefixed`, which finds the behaviour. To see
one of the others, replace the properties of the named configuration by the definition:

| Statement | Definition | Configuration |
|---|---|---|
| "monotonically increasing version" (`pkg/storage/db.go:397`) | `VersionNeverDecreases` | `topology`, `Writers = {"w1", "w2"}`, `Importers = {}` (two savers of one row) |
| "Deletes a connection and all its endpoints" (`pkg/portal/api.go:1128`) | `DeleteTakesEndpoints` | `topology`, `ForeignKeys = FALSE` (SQLite) |
| "Collisions within a single spec are disambiguated" (`pkg/openapiimport/types.go:12`) | `NamesDistinct` | `topology` (operations a, a, a_2) |
| "worst case is ≤ TTL seconds of staleness" (`SCALING_AND_CACHING.md:91`) | `StaleAtMostTTL` | `topology_cache` |
| "refuses to execute a tool whose live definition no longer matches" (`doc/governance_pinning_redaction.md:48`) | `ExecutesOnlyApproved` | `tool_calls` (row changed between the two reads) |
| "without the raw values ever being written to logs or the audit trail" (same, line 111) | `AuditHasNoRaw` | `tool_calls` (error text of a failed call) |
| "insert secure private credentials directly into the integrated Vault" (`pkg/mcp/server.go:777`) | `SecretStoredAsSent` | `tool_calls` (the argument is redacted first) |
| "A complete compliance audit trail records all tool executions" (`README.md:85`) | `EveryCallAudited` | `tool_calls`, `Faults <- NoFaults` (full channel) |
| "Graceful shutdown … drains in-flight requests on scale-in" (`SCALING_AND_CACHING.md:94`) | `ShutdownCompletes` | `sessions` (a connected SSE client) |
| "Rotate the secret in the vault and every tool using it updates instantly" (`README.md:491`) | `RotationIsInstant` | `gateway_client` |
| "retrying idempotent methods" (`pkg/gateway/client.go:354`) | `AttemptsAreWhole` | `gateway_client` (a retried HEAD has lost its body) |
| "An administrator re-approving a legitimately changed tool re-establishes the baseline (a new hash + bumped version) and calls resume." (`doc/governance_pinning_redaction.md:66`) | `RefusedOnlyIfTampered` | run `tool_calls_prefixed`: for a connection with a `tool_prefix` the hash is computed over the stored name (`db.go:403`) and checked over the prefixed one (`server.go:849`), so tools nobody changed are refused |
| "A value lifted from the model's context can't be smuggled out through a downstream API call." (same, line 88) | `NothingRawSent` | `tool_calls`: `redactValue` copies object keys and leaves that are not strings (`redaction.go:124`), and they are sent |
| "DeleteClientTokenByName revokes a token" (`pkg/storage/db.go:540`) | `RevokedIsRefused` | `sessions`: `ServeMessages` compares the token with the session's and takes the session's role (`server.go:561`) |
| "a one-time, transparent migration that never loses secrets" (`pkg/vault/vault.go:48`) | `MigrationKeepsSecrets` | `local_vault`, `InitialFiles <- Legacy`: a save cut short after the truncation (`vault.go:158`) makes the next start open an empty vault |
| "handle expired sessions (e.g. on server restart)" (`app.js:3`) | `OnlyExpiredSessionsEnd` | `portal_session`: with `METRICS_TOKEN` set, the telemetry view's request for `/metrics` signs the administrator out, after every login if the page is opened at `#telemetry` |
| "Ensure connections are loaded first so tool names have correct prefixes" (`app.js:279`) | `NamesHaveTheirPrefix` | `portal_page`: after a connection's prefix was saved, `loadEndpoints` may resolve its rows before the new connections are there |
| "Edit API Connection" saves the row it was opened for (`app.js:597`) | `SaveAlwaysTargets` | `portal_page`: the row is in the view but no longer in `STATE`, so the hidden id is that of the form opened before |
| "API Connection saved successfully" (`app.js:748`), and the lists loaded again show it | `OwnWritesAlwaysShown` | `portal_page`: two loads of a view overlap and the older answer comes last |
| "Are you sure you want to delete this Client Token?" (`app.js:866`) | `DeleteReachesItsRow` | `portal_page`: `GetClientTokens` blanks the tokens, so the request names none and is refused |

The passing runs state what does hold in each case: `VersionFollowsHash`, `NoOrphans`,
`BoundedStaleness`, `ChangedIsRefused`, `RefusedForCause`, `PayloadsRedacted`,
`CallsAccounted`, `RolesAreCurrent`, `RevocationTakesEffect`, `ShutdownWaitsForStreamsOnly`, `RotationTakesEffect`, `SentAtMost`,
`CollisionHasACause`, `SignedOutForCause`, `NamesResolved`, `SaveTargets`,
`OwnWritesShown`.

For several of the statements a theorem says exactly when they hold:

| Definition | Holds | Theorem |
|---|---|---|
| `VersionNeverDecreases` | unless the row changed between a save's SELECT and its upsert | `VersionCountsChanges` |
| `DeleteTakesEndpoints` | where foreign keys are enforced | `NoOrphanEndpoints` |
| `NamesDistinct` | unless an operation is named like the suffixed name of another | `DistinctUnlessAmbiguous` |
| `RefusedOnlyIfTampered` | for tools without a pin or a `tool_prefix` | `RefusalsHaveACause` |
| `AuditHasNoRaw` | but for the error text of a call that failed upstream | `AuditQuotesOnlyFailures` |
| `SecretStoredAsSent` | with redaction off; with it on, what is stored is what the redactor left | `SecretsAreStoredAsSent`, `SecretsAreStoredRedacted` |
| `AttemptsAreWhole` | with retries off, or without HEAD and OPTIONS endpoints | `AttemptsWholeWithoutBodies` |
| `MigrationKeepsSecrets` | unless a process is started over a truncated file | `MigrationsLoseOnlyToTruncation` |
| `OnlyExpiredSessionsEnd` | where `METRICS_TOKEN` is not set | `OnlyMetricsSignOutTheValid` |

Two smaller disagreements of the settings page: it reads `oidc_issuer`
(`app.js:556`), which `handleSettings` does not send (`oidc_configured`, `api.go`), so
it always says "SSO Disabled"; and for settings `LoadTLSConfig` ignores (a certificate
without a key, a client CA without a certificate) the badges claim encryption the
gateway does not do, which is why `BadgesTellTheTruth` is about consistent settings.

## 5. Proofs

Every theorem rests only on the named `ASSUME`s of the modules it is about, which TLC
evaluates in the runs, and on the hypotheses it states itself. The assumptions give
the constants their types, keep null values apart from values, and say what the
models need to have a step at all: a pipeline serves some request (`Requests # {}`), a
client knows some method (`Methods # {}`), tool names are sequences and include the
names `Parse` gives (`ImportAssumption`, `NamesAssumption`). A proof module may
hold the theorems of several components; a theorem cites the assumptions of its own
component only. Components proved about together name their parts apart (`CacheSpec`,
`ClientSpec`, `SessionsSpec`, as `ImportSpec` and `TelemetrySpec` do).

* **TopologyProofs.** `TypeCorrect`; `HashPinned`: `HashPinsDefinition` is not
  inductive alone, because the hash that will be stored is computed a step earlier,
  so `PendingHashOK` says the same of the row a saver holds; `NoOrphanEndpoints`
  for `ForeignKeys`; `VersionCountsChanges` for any number of concurrent savers, with
  `PendingVersionOK`: the version a saver holds is the one that follows what its SELECT
  found, so that an upsert over a row that is still as it was found counts correctly.
  For imports, a lemma says that every step of an import is a step of the
  store or leaves the tables alone, so that what is proved of the tables holds next to
  imports too (`ImportsKeepTheTables`). `ImportsLeaveTheirPrefix` rests on `PrefixInv`:
  no two imports work on one connection or one new id, the save under way is that of the
  next operation, and a connection only its import touched holds the tools before it. `ImportsAreWhole` and `CollisionsHaveACause` rest
  on `ImportInv`: the names in `createdTools` are those of the operations before the
  next one, and the save under way is the next one's. The second also needs the
  naming lemma (two operations of an unambiguous document never get one name, because
  `uniqueName` numbers the uses of a base) and `NoOrphans`, hence `ForeignKeys`;
  `DistinctUnlessAmbiguous` is the naming lemma as a statement about `Parse`.
  Of the configuration caches, `StalenessIsBounded` and `OwnWritesAreVisible`: the
  invariants relate a snapshot in a reader's hand, and later the cache entry, to the
  moment its revision was superseded and to the purges since.
* **SecretsProofs.** Of the gateway client, `RotationsTakeEffect` by an argument like
  that of the caches (`ReadInTime` for the reader, `StoredInTime` for the entry), and
  `RequestsAreNotRepeated`: `WithinAttempts` ties the requests sent to the attempt the
  retry loop is in. `CallsAreFinite` gives each call a number of steps it has left
  (`StepsLeft`, at most `2 * MaxRetries + 5`), which each of its steps lowers and nothing
  else raises. `AttemptsWholeWithoutBodies`: a body that was read is only sent again by a
  retry.
  Of the local vault, `VaultTypeCorrect`, `LoadsAreWhole` (any number of processes at
  once) and `AcknowledgedSurvives` (processes that run one after the other). Between a
  truncation and the next complete save acknowledged changes live in memory only, so
  the invariant has `MapInv` (the running process's map holds them), `TornInv` (torn
  exactly when the file holds no vault) and `AloneInv` (no second process while
  `overlapped` is false). `MigrationsLoseOnlyToTruncation` is about any number of
  processes again: a file that loads was completely saved, and before any change no
  save has another map to write.
* **AuditTrailProofs.** `TypeCorrect` (the channel within its capacity);
  `AuditLogInOrder`: log, worker and channel concatenated are strictly increasing;
  `EveryRecordOnce`, which needs that order, for a record that moves from the channel
  to the worker or the table must not be in a second place; `ChartShowsTheRecentPast`,
  about PortalTelemetry: timestamps never decrease along the table, so that the rows a
  page leaves out are older than the rows it holds or of the same second.
  `FiguresAreFit`: whatever rows a page (of up to 100) holds, the rate is 100 only without failures and
  0 only without successes, the percentile is the duration of a row, all points and bars
  lie within their chart, and the bars are as many as there are tools or the chart takes,
  with no tool left out that was called more often than one shown.
  The facts this needs about finite sets (a largest element, the first of a strict order,
  a free place in it) are ordinarily proved by induction, whose theorems take an operator
  the provers cannot instantiate; here each is proved from a least counterexample: the
  set of the sizes of the finite sets without a largest element has, if it has any
  element, a least one (`WFMin`), and removing an element of a set of that size gives a
  smaller one. `RecordsComeToTheirTurn` counts the steps the worker takes before a record
  is stored (`TurnsLeft`, at most `2 * Cap + 1`): no later call gets in front of a record
  and each step of the worker lowers the number.
* **ToolCallsProofs.** A lemma, `HandlerEffect`, says once for each action what it does
  to a handler's record and to the counters; the theorems use only that.
  `PipelineTypeCorrect`; `PayloadsAreRedacted` (`RedactionInv`: what is carried from
  the redaction of the arguments to the upstream call, and back in its error, holds no
  string the detectors match, and with `TrailQuotes` neither does the audit trail);
  `GaugeIsExact` and `EveryCallIsAccountedFor` (`CountInv`: gauge and counters equal
  the cardinalities of the sets of handlers, which a step changes by one element, and
  a crash empties; `Covered`: no number of a record is missing from the places records can
  be in); `RefusalsHaveACause`, with and without a prefix (`PinInv`: until somebody
  tampers, the stored row and the rows handlers have read are as SaveEndpoint leaves them);
  `ChangedDefinitionsAreRefused` (`VettedInv`: at each of its reads a strict call that
  nothing raced knows the row is unchanged or hidden). `SecretsAreStoredRedacted`,
  `SecretsAreStoredAsSent` (a handler's arguments are what `RedactMap` makes of its request
  from `CallBegin` on) and `AuditQuotesOnlyFailures` (`TrailQuotes`: a record with raw
  text, in the channel, at the worker or in the table, is that of a failure, and only a
  call the upstream failed brings raw text back). `RequestsAreFinite`: each step of a
  handler lowers the number of steps it has left, at most nine. `ChangedDefinitionsAreRefused`
  assumes `~ Prefixed`: with a `tool_prefix` hash and check use different names, so that
  a changed definition cannot be told from an unchanged one (section 4).
* **TransportProofs.** Of the rate limiter, `LimiterImplementsBucket`: the refinement
  maps a missing bucket to a full one and a stored one to its lazily refilled level;
  eviction is a stutter because a bucket idle for the TTL is full; `RateIsBounded`
  follows from the bucket's level plus what was granted. Of the transports,
  `TableIsBounded` and `RolesAreResolved`: what a stream, or a post of the streamable
  transport, was resolved to is the token's present grant or the token was edited since
  (`GrantInv`), across closing streams, crashes and restarts. `ShutdownWindsDown`:
  after SIGTERM nothing begins, streams and posts only come nearer to their end, and the
  process ends with none left unless it crashes.
* **TokenValidatorProofs.** `RevokedKeysAreRefused` and `PublishedKeysAreUsed`. The
  invariant gives each document, cached or in a request's hands, a time at which the
  issuer published it: for a fetch not before its start, for an entry not more than
  one timeout before `fetchedAt`.
* **PortalSessionProofs.** `TypeCorrect`, `SessionsEndForCause` and
  `TokenLossHasACause`, for any number of tabs, tokens and requests. A refusal is made
  in one step and acted upon in a later one, so the invariant says of every request
  under way that it is `Sound`: an answer of 401 stands for a token that is not valid,
  and as tokens never become valid again the cause is still there when the answer
  arrives; one of `/metrics` stands for a `METRICS_TOKEN`. Where that is not set,
  `OnlyMetricsSignOutTheValid`. `RefusedTokensGo`: a request with a token that is no
  longer valid stays under way, fails, or is refused, and on the refusal the token is
  dropped and the document reloaded, unless it is replaced before.
* **PortalPageProofs.** `SavesReachTheirRow`, `NamesAreResolved`, `BadgesAreTrue` and
  `NoViewIsForgotten` (`LoadingHasALoad`, the safety half of `LoadsSettle`: as long as
  a view shows its placeholder a load of it is under way). The invariant relates each
  task to what it will do when its answer arrives: the version a list was read at is
  positive, a preload's outcome is recorded before the endpoints are asked for, and the settings in an
  answer are what `handleSettings` makes of the settings it was made under. The
  number that tells equal calls apart matters to none of this (`NumberedOK`).
  `SavesReachTheirRow` needs `TargetInv`: whatever a call has read of a table, and so
  `STATE` once a view shows rows, holds the rows that have been there since the page was
  opened, whichever answer came last; hence a form opened for such a row found it and
  holds its id.
  `OwnWritesAreShown` needs a second invariant, `OwnInv`: what a write's answer names
  has been written (`AckInv`), and while no two loads of a view overlap there is at
  most one, started after the newest acknowledged write, so that its answer is not
  older (`FreshView`). This holds although acknowledgements may arrive out of order,
  because each of them starts a load of its own. `CallsComeToTheirEnd`: a lemma says
  once what each step does to the calls under way (`Moves`); as `op`, `what` and `n` tell
  calls apart (`CallsToldApart`, by the pigeonhole principle: among one number more than
  there are calls one is free), a call can be followed through its stages, of which it
  has at most five. `PageTypeCorrect` needs the same fact for the numbers of calls.

Only model-checked: liveness, which the proof system does not reach. The liveness
properties of the runs are the only ones no theorem states; of each, the part that is
not about fairness is proved. It says that what has to end is a bounded number of its
own steps away from its end, and that nothing sets it back:

| Property | What is proved of it |
|---|---|
| `RecordsSettle` | `RecordsComeToTheirTurn` |
| `CallsEnd` | `CallsAreFinite` |
| `ShutdownCompletes` | `RequestsAreFinite` |
| `ShutdownWaitsForStreamsOnly` | `ShutdownWindsDown` |
| `LoadsSettle` | `NoViewIsForgotten`, `CallsComeToTheirEnd` |
| `RefusedTokenDropped` | `RefusedTokensGo` |

What is left to TLC in each is that such a step is enabled as long as the end is not
reached, and that fairness takes it.

## 6. Plan

Done, in this order: Topology, TopologyCache, AuditTrail, ToolCalls, LocalVault,
RateLimiter and TokenBucket, Sessions, GatewayClient, TokenValidator, OpenAPIImport,
PortalPage with PortalBadges, PortalSession, PortalTelemetry; then the theorems of
section 5, component by component.

Next, most important first:

1. ToolCalls on top of the caches: pin check and execution reading through
   TopologyCache, two connections, so that the response cache's key (method and URL
   only) and disabled connections are covered.
2. The ID-token check of SSO as an instance of TokenValidator, and the stdio transport
   as another user of ToolCalls.
