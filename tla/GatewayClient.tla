--------------------------- MODULE GatewayClient ---------------------------
(***************************************************************************)
(* ExecuteCall of pkg/gateway: one outgoing API call with its egress check,  *)
(* response cache, secret cache, and doWithRetry's attempts and backoff, by  *)
(* concurrent callers that share the two caches (pkg/cache) and the vault.   *)
(*                                                                         *)
(* All calls go to one URL with one secret; a secret's value is its version, *)
(* the number of SetSecret calls on it.  Requests with a template or default *)
(* body carry one reader for all attempts.  The clock counts in units in     *)
(* which the TTLs are whole; rotatedAt, took and sent are history.           *)
(***************************************************************************)
EXTENDS Naturals

CONSTANTS
    Callers,
    Methods,            \* methods of the endpoints called, a subset of AllMethods
    SecretTTL, RespTTL, \* SECRET_CACHE_TTL, RESPONSE_CACHE_TTL; 0 disables
    MaxRetries,         \* DOWNSTREAM_RETRIES
    MaxCalls, MaxVer, MaxTime,  \* bounds: calls, secret rotations, clock
    NoEntry

AllMethods == {"GET", "HEAD", "OPTIONS", "POST", "DELETE"}

ASSUME ClientAssumption ==
    /\ Methods \subseteq AllMethods /\ Methods # {}
    /\ SecretTTL \in Nat /\ RespTTL \in Nat /\ MaxRetries \in Nat
    /\ MaxCalls \in Nat /\ MaxVer \in Nat /\ MaxTime \in Nat

VARIABLES
    now,
    vaultVer,           \* version of the secret in the vault
    rotatedAt,          \* per version, when the next one was stored
    secretCache,        \* [ver, took, expires] or NoEntry
    respCache,          \* [status, expires] or NoEntry
    caller,             \* per caller, its program counter and locals
    calls

clientVars == <<now, vaultVer, rotatedAt, secretCache, respCache, caller, calls>>

Vers == 0 .. MaxVer

IdleCaller == [pc |-> "idle", method |-> CHOOSE m \in Methods : TRUE, auth |-> FALSE,
               ver |-> 0, readAt |-> 0, attempt |-> 0, sent |-> 0, spent |-> FALSE]

ClientInit ==
    /\ now = 0
    /\ vaultVer = 0
    /\ rotatedAt = [v \in Vers |-> 0]
    /\ secretCache = NoEntry
    /\ respCache = NoEntry
    /\ caller = [c \in Callers |-> IdleCaller]
    /\ calls = 0

Fresh(entry) == entry # NoEntry /\ now <= entry.expires

Done(c) == caller' = [caller EXCEPT ![c] = IdleCaller]
Goto(c, pc) == caller' = [caller EXCEPT ![c].pc = pc]

-----------------------------------------------------------------------------
\* The path is rendered and the destination checked; a bad URL or a denied
\* destination ends the call.
Begin(c, m, auth) ==
    /\ caller[c].pc = "idle"
    /\ calls < MaxCalls
    /\ calls' = calls + 1
    /\ caller' = [caller EXCEPT ![c] = [IdleCaller EXCEPT !.pc = "rendered",
                                                           !.method = m, !.auth = auth]]
    /\ UNCHANGED <<now, vaultVer, rotatedAt, secretCache, respCache>>

EgressDenied(c) ==
    /\ caller[c].pc = "rendered"
    /\ Done(c)
    /\ UNCHANGED <<now, vaultVer, rotatedAt, secretCache, respCache, calls>>

\* A GET is answered from the response cache.
ServeCached(c) ==
    /\ caller[c].pc = "rendered"
    /\ caller[c].method = "GET"
    /\ Fresh(respCache)
    /\ Done(c)
    /\ UNCHANGED <<now, vaultVer, rotatedAt, secretCache, respCache, calls>>

\* A connection without credentials (auth_type "none" or no secret reference).
NoSecret(c) ==
    /\ caller[c].pc = "rendered"
    /\ ~ caller[c].auth
    /\ caller[c].method = "GET" => ~ Fresh(respCache)
    /\ Goto(c, "sending")
    /\ UNCHANGED <<now, vaultVer, rotatedAt, secretCache, respCache, calls>>

\* getSecret: the cached value ...
SecretHit(c) ==
    /\ caller[c].pc = "rendered"
    /\ caller[c].auth
    /\ caller[c].method = "GET" => ~ Fresh(respCache)
    /\ Fresh(secretCache)
    /\ caller' = [caller EXCEPT ![c].ver = secretCache.ver, ![c].pc = "sending"]
    /\ UNCHANGED <<now, vaultVer, rotatedAt, secretCache, respCache, calls>>

\* ... or the vault's ...
SecretRead(c) ==
    /\ caller[c].pc = "rendered"
    /\ caller[c].auth
    /\ caller[c].method = "GET" => ~ Fresh(respCache)
    /\ ~ Fresh(secretCache)
    /\ caller' = [caller EXCEPT ![c].ver = vaultVer, ![c].readAt = now, ![c].pc = "fetched"]
    /\ UNCHANGED <<now, vaultVer, rotatedAt, secretCache, respCache, calls>>

\* ... which may fail, or not have the form the auth type wants.
SecretFails(c) ==
    /\ caller[c].pc \in {"rendered", "fetched"}
    /\ caller[c].auth
    /\ Done(c)
    /\ UNCHANGED <<now, vaultVer, rotatedAt, secretCache, respCache, calls>>

\* Mutation: the entry lives for two TTLs.
SecretSetLate(c) ==
    /\ caller[c].pc = "fetched"
    /\ secretCache' = IF SecretTTL > 0
                      THEN [ver |-> caller[c].ver, took |-> now - caller[c].readAt,
                            expires |-> now + SecretTTL + SecretTTL]
                      ELSE secretCache
    /\ Goto(c, "sending")
    /\ UNCHANGED <<now, vaultVer, rotatedAt, respCache, calls>>

\* ... and is cached.  Nothing removes it when the vault changes.
SecretSet(c) ==
    /\ caller[c].pc = "fetched"
    /\ secretCache' = IF SecretTTL > 0
                      THEN [ver |-> caller[c].ver, took |-> now - caller[c].readAt,
                            expires |-> now + SecretTTL]
                      ELSE secretCache
    /\ Goto(c, "sending")
    /\ UNCHANGED <<now, vaultVer, rotatedAt, respCache, calls>>

-----------------------------------------------------------------------------
(* doWithRetry.                                                             *)

\* Mutation: a method without a body counts as safe to repeat.
IsIdempotentDelete(method) == method \in {"GET", "HEAD", "OPTIONS", "DELETE"}

IsIdempotent(method) == method \in {"GET", "HEAD", "OPTIONS"}

HasBody(method) == method \notin {"GET", "DELETE"}

Attempts(method) == IF MaxRetries > 0 /\ IsIdempotent(method) THEN MaxRetries + 1 ELSE 1

MayRetry(c) == caller[c].attempt + 1 < Attempts(caller[c].method)

Sent(c, pc) == caller' = [caller EXCEPT ![c].pc = pc, ![c].sent = @ + 1,
                                        ![c].spent = HasBody(caller[c].method)]

\* A request whose body an earlier attempt has read to its end fails in the
\* transport; otherwise the upstream answers with a status.
Respond(c, status) ==
    /\ caller[c].pc = "sending"
    /\ ~ caller[c].spent
    /\ Sent(c, IF status = "5xx" /\ IsIdempotent(caller[c].method) /\ MayRetry(c)
               THEN "failed" ELSE status)
    /\ UNCHANGED <<now, vaultVer, rotatedAt, secretCache, respCache, calls>>

\* The connection fails before or after the request is out, the client's
\* timeout passes, or the body cannot be read to its end.
TransportFails(c) ==
    /\ caller[c].pc = "sending"
    /\ \/ Sent(c, "failed") /\ ~ caller[c].spent
       \/ Goto(c, "failed")
    /\ UNCHANGED <<now, vaultVer, rotatedAt, secretCache, respCache, calls>>

\* The answer is larger than maxResponseBytes: an error, not retried.
TooLarge(c) ==
    /\ caller[c].pc = "sending"
    /\ ~ caller[c].spent
    /\ Done(c)
    /\ UNCHANGED <<now, vaultVer, rotatedAt, secretCache, respCache, calls>>

\* Mutation: every failure starts the attempts afresh.
RetryForever(c) ==
    /\ caller[c].pc = "failed"
    /\ IF IsIdempotent(caller[c].method)
       THEN caller' = [caller EXCEPT ![c].pc = "sending", ![c].sent = 0]
       ELSE Done(c)
    /\ UNCHANGED <<now, vaultVer, rotatedAt, secretCache, respCache, calls>>

\* The next attempt after its backoff, or the last error.
Retry(c) ==
    /\ caller[c].pc = "failed"
    /\ IF MayRetry(c)
       THEN caller' = [caller EXCEPT ![c].pc = "sending", ![c].attempt = @ + 1]
       ELSE Done(c)
    /\ UNCHANGED <<now, vaultVer, rotatedAt, secretCache, respCache, calls>>

\* The client of the gateway goes away during the backoff.
Cancelled(c) ==
    /\ caller[c].pc = "failed"
    /\ MayRetry(c)
    /\ Done(c)
    /\ UNCHANGED <<now, vaultVer, rotatedAt, secretCache, respCache, calls>>

\* A status of 400 or more is an error; a good answer to a GET is cached.
Finish(c) ==
    /\ caller[c].pc \in {"ok", "4xx", "5xx"}
    /\ respCache' = IF caller[c].pc = "ok" /\ caller[c].method = "GET" /\ RespTTL > 0
                    THEN [status |-> caller[c].pc, expires |-> now + RespTTL]
                    ELSE respCache
    /\ Done(c)
    /\ UNCHANGED <<now, vaultVer, rotatedAt, secretCache, calls>>

-----------------------------------------------------------------------------
\* SetSecret on the vault, from the portal, an admin tool or the CLI.
Rotate ==
    /\ vaultVer < MaxVer
    /\ vaultVer' = vaultVer + 1
    /\ rotatedAt' = [rotatedAt EXCEPT ![vaultVer] = now]
    /\ UNCHANGED <<now, secretCache, respCache, caller, calls>>

Tick ==
    /\ now < MaxTime
    /\ now' = now + 1
    /\ UNCHANGED <<vaultVer, rotatedAt, secretCache, respCache, caller, calls>>

CallerStep(c) ==
    \/ EgressDenied(c)
    \/ ServeCached(c)
    \/ NoSecret(c)
    \/ SecretHit(c)
    \/ SecretRead(c)
    \/ SecretFails(c)
    \/ SecretSet(c)
    \/ \E status \in {"ok", "4xx", "5xx"} : Respond(c, status)
    \/ TransportFails(c)
    \/ TooLarge(c)
    \/ Retry(c)
    \/ Cancelled(c)
    \/ Finish(c)

ClientNext ==
    \/ \E c \in Callers, m \in Methods, auth \in BOOLEAN : Begin(c, m, auth)
    \/ \E c \in Callers : CallerStep(c)
    \/ Rotate
    \/ Tick

ClientSpec == ClientInit /\ [][ClientNext]_clientVars

\* Each step of a call ends: an attempt by the client's 30 s timeout, a backoff
\* by its timer.
ClientFairSpec == ClientSpec /\ \A c \in Callers : WF_clientVars(CallerStep(c))

-----------------------------------------------------------------------------
\* "Non-idempotent methods are attempted exactly once", the others at most once
\* more than DOWNSTREAM_RETRIES (doWithRetry).
SentAtMost ==
    \A c \in Callers :
        caller[c].sent <= IF caller[c].method \in {"POST", "DELETE"} THEN 1 ELSE MaxRetries + 1

\* A secret that was replaced in the vault is used for at most SecretTTL, and
\* the time its reader took to cache it, by the calls that find it cached.
RotationTakesEffect ==
    Fresh(secretCache) /\ secretCache.ver < vaultVer =>
        now - rotatedAt[secretCache.ver] <= SecretTTL + secretCache.took

\* Every call comes to an end (doWithRetry's loop, with its backoffs).
CallsEnd == \A c \in Callers : caller[c].pc # "idle" ~> caller[c].pc = "idle"

\* "Rotate the secret in the vault and every tool using it updates instantly"
\* (README.md): a call that resolves its secret gets the vault's value.
RotationIsInstant ==
    [][\A c \in Callers :
          caller[c].auth /\ caller[c].pc = "rendered" /\ caller'[c].pc = "sending"
              => caller'[c].ver = vaultVer]_clientVars

\* "retrying idempotent methods on transport errors and 5xx responses"
\* (doWithRetry): an attempt has the whole request to send.
AttemptsAreWhole ==
    \A c \in Callers : caller[c].pc = "sending" => ~ caller[c].spent
=============================================================================
