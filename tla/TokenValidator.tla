--------------------------- MODULE TokenValidator ---------------------------
(***************************************************************************)
(* pkg/oauth's Validator: access tokens are verified against the signing     *)
(* keys (JWKS) of their issuer, which are discovered, fetched and cached for *)
(* jwksCacheTTL, by concurrent requests (Procs) that share the cache.  The   *)
(* portal's SSO login (fetchJWKS, verifyIDToken of pkg/portal) has a copy of *)
(* the same algorithm with a single issuer.                                  *)
(*                                                                         *)
(* The checks that no other state bears on (RSA algorithm, expiry, audience) *)
(* are one Boolean of the token.  An issuer publishes at most one key under  *)
(* a kid at a time.  withdrawn and publishedAt are history.                  *)
(***************************************************************************)
EXTENDS Naturals, FiniteSets

CONSTANTS
    Procs,
    Issuers,
    Trusted,            \* AuthorizationServers, a subset of Issuers
    Kids, Keys,
    Tokens,             \* the tokens that are presented, a subset of Token
    TTL,                \* jwksCacheTTL (5 minutes)
    Timeout,            \* httpClient.Timeout (10 s), reading the body included
    MaxRotations, MaxTime,   \* bounds: changes of the published keys, clock
    NoKid, NoKey, NoEntry

KeySet == [Kids -> Keys \cup {NoKey}]
Token == [iss : Issuers, kid : Kids \cup {NoKid}, key : Keys, sound : BOOLEAN]
Entry == [keys : KeySet, fetchedAt : Nat]

ASSUME ValidatorAssumption ==
    /\ Trusted \subseteq Issuers /\ Tokens \subseteq Token /\ Tokens # {}
    /\ TTL \in Nat \ {0} /\ Timeout \in Nat /\ MaxRotations \in Nat /\ MaxTime \in Nat
    /\ NoKid \notin Kids /\ NoKey \notin Keys /\ NoEntry \notin Entry

VARIABLES
    now,
    jwks,               \* per trusted issuer, what it publishes
    rotations,
    cache,              \* Validator.jwksCache
    proc,               \* per request: pc, token, fetched keys, start of the fetch
    withdrawn,          \* per issuer, the keys it has withdrawn and when
    publishedAt         \* per issuer and kid, when what is published there was

vars == <<now, jwks, rotations, cache, proc, withdrawn, publishedAt>>

NoKeys == [kid \in Kids |-> NoKey]

IdleProc == [pc |-> "idle", tok |-> CHOOSE t \in Tokens : TRUE, keys |-> NoKeys, startedAt |-> 0]

Init ==
    /\ now = 0
    /\ jwks \in [Trusted -> KeySet]
    /\ rotations = 0
    /\ cache = [i \in Trusted |-> NoEntry]
    /\ proc = [p \in Procs |-> IdleProc]
    /\ withdrawn = [i \in Trusted |-> {}]
    /\ publishedAt = [i \in Trusted |-> [kid \in Kids |-> 0]]

-----------------------------------------------------------------------------
\* A cached document is used while it is younger than the TTL.
Fresh(i) == cache[i] # NoEntry /\ now - cache[i].fetchedAt < TTL

Published(i, k) == \E kid \in Kids : jwks[i][kid] = k

\* Mutation: the kid is not looked at.
SigningKeyWithoutKid(keys, tok) ==
    LET usable == {kid \in Kids : keys[kid] # NoKey}
    IN IF Cardinality(usable) = 1 THEN keys[CHOOSE kid \in usable : TRUE] ELSE NoKey

\* The keyfunc: the key under the token's kid, or the only key there is.
SigningKey(keys, tok) ==
    LET usable == {kid \in Kids : keys[kid] # NoKey}
    IN IF tok.kid # NoKid THEN keys[tok.kid]
       ELSE IF Cardinality(usable) = 1 THEN keys[CHOOSE kid \in usable : TRUE]
       ELSE NoKey

\* jwt.ParseWithClaims and the audience check, against a set of keys.
Verdict(keys, tok) ==
    IF tok.sound /\ SigningKey(keys, tok) = tok.key THEN "accepted" ELSE "refused"

Decide(p, verdict, tok) ==
    proc' = [proc EXCEPT ![p] = [pc |-> verdict, tok |-> tok, keys |-> NoKeys, startedAt |-> 0]]

-----------------------------------------------------------------------------
(* ValidateToken.                                                           *)

\* A token of an issuer that is not on the list fetches nothing.
Untrusted(p, tok) ==
    /\ proc[p].pc = "idle"
    /\ tok.iss \notin Trusted
    /\ Decide(p, "failed", tok)
    /\ UNCHANGED <<now, jwks, rotations, cache, withdrawn, publishedAt>>

\* fetchJWKS finds a fresh document ...
CacheHit(p, tok) ==
    /\ proc[p].pc = "idle"
    /\ tok.iss \in Trusted
    /\ Fresh(tok.iss)
    /\ Decide(p, Verdict(cache[tok.iss].keys, tok), tok)
    /\ UNCHANGED <<now, jwks, rotations, cache, withdrawn, publishedAt>>

\* ... or, the lock released, discovers the jwks_uri ...
CacheMiss(p, tok) ==
    /\ proc[p].pc = "idle"
    /\ tok.iss \in Trusted
    /\ ~ Fresh(tok.iss)
    /\ proc' = [proc EXCEPT ![p].pc = "discovering", ![p].tok = tok]
    /\ UNCHANGED <<now, jwks, rotations, cache, withdrawn, publishedAt>>

\* ... and sends the request for the keys.
Discovered(p) ==
    /\ proc[p].pc = "discovering"
    /\ proc' = [proc EXCEPT ![p].pc = "fetching", ![p].startedAt = now]
    /\ UNCHANGED <<now, jwks, rotations, cache, withdrawn, publishedAt>>

\* The issuer answers; a document without a usable key is an error.
Answered(p) ==
    /\ proc[p].pc = "fetching"
    /\ jwks[proc[p].tok.iss] # NoKeys
    /\ proc' = [proc EXCEPT ![p].pc = "fetched", ![p].keys = jwks[proc[p].tok.iss]]
    /\ UNCHANGED <<now, jwks, rotations, cache, withdrawn, publishedAt>>

\* Mutation: the fetch has no timeout.
StoreAnyTime(p) ==
    LET tok == proc[p].tok IN
    /\ proc[p].pc = "fetched"
    /\ cache' = [cache EXCEPT ![tok.iss] = [keys |-> proc[p].keys, fetchedAt |-> now]]
    /\ Decide(p, Verdict(proc[p].keys, tok), tok)
    /\ UNCHANGED <<now, jwks, rotations, withdrawn, publishedAt>>

\* The document arrived in time: it replaces what is cached, be that newer or
\* not, and the token is verified against it.
Store(p) ==
    LET tok == proc[p].tok IN
    /\ proc[p].pc = "fetched"
    /\ now - proc[p].startedAt <= Timeout
    /\ cache' = [cache EXCEPT ![tok.iss] = [keys |-> proc[p].keys, fetchedAt |-> now]]
    /\ Decide(p, Verdict(proc[p].keys, tok), tok)
    /\ UNCHANGED <<now, jwks, rotations, withdrawn, publishedAt>>

\* Discovery or fetch fails, times out or is cancelled: the token is refused
\* and the cache stays as it is.
FetchFails(p) ==
    /\ proc[p].pc \in {"discovering", "fetching", "fetched"}
    /\ Decide(p, "failed", proc[p].tok)
    /\ UNCHANGED <<now, jwks, rotations, cache, withdrawn, publishedAt>>

\* resolveAuth gets the claims or the error.
Return(p) ==
    /\ proc[p].pc \in {"accepted", "refused", "failed"}
    /\ proc' = [proc EXCEPT ![p] = IdleProc]
    /\ UNCHANGED <<now, jwks, rotations, cache, withdrawn, publishedAt>>

-----------------------------------------------------------------------------
\* The issuer publishes another key under a kid, or none.
Rotate(i, kid, key) ==
    /\ rotations < MaxRotations
    /\ key # jwks[i][kid]
    /\ rotations' = rotations + 1
    /\ jwks' = [jwks EXCEPT ![i][kid] = key]
    /\ publishedAt' = [publishedAt EXCEPT ![i][kid] = now]
    /\ withdrawn' = [withdrawn EXCEPT ![i] =
            IF jwks[i][kid] = NoKey THEN @ ELSE @ \cup {[key |-> jwks[i][kid], at |-> now]}]
    /\ UNCHANGED <<now, cache, proc>>

Tick ==
    /\ now < MaxTime
    /\ now' = now + 1
    /\ UNCHANGED <<jwks, rotations, cache, proc, withdrawn, publishedAt>>

Next ==
    \/ \E p \in Procs, tok \in Tokens : Untrusted(p, tok)
    \/ \E p \in Procs, tok \in Tokens : CacheHit(p, tok)
    \/ \E p \in Procs, tok \in Tokens : CacheMiss(p, tok)
    \/ \E p \in Procs : Discovered(p)
    \/ \E p \in Procs : Answered(p)
    \/ \E p \in Procs : Store(p)
    \/ \E p \in Procs : FetchFails(p)
    \/ \E p \in Procs : Return(p)
    \/ \E i \in Trusted, kid \in Kids, key \in Keys \cup {NoKey} : Rotate(i, kid, key)
    \/ Tick

Spec == Init /\ [][Next]_vars

-----------------------------------------------------------------------------
\* The clock, the documents and the requests have their types (Validator).
TypeOK ==
    /\ now \in Nat
    /\ jwks \in [Trusted -> KeySet]
    /\ rotations \in Nat
    /\ cache \in [Trusted -> Entry \cup {NoEntry}]
    /\ proc \in [Procs -> [pc : {"idle", "discovering", "fetching", "fetched",
                                 "accepted", "refused", "failed"},
                           tok : Tokens, keys : KeySet, startedAt : Nat]]
    /\ withdrawn \in [Trusted -> SUBSET [key : Keys, at : Nat]]
    /\ publishedAt \in [Trusted -> [Kids -> Nat]]

Decides(p, verdict) == proc[p].pc # verdict /\ proc'[p].pc = verdict

\* ValidateToken accepts a signature by a key that the token's own issuer
\* publishes, or withdrew less than jwksCacheTTL and one HTTP timeout ago, even
\* when slow fetches overwrite newer documents.
RevokedKeysExpire ==
    [][\A p \in Procs : Decides(p, "accepted") =>
          LET i == proc'[p].tok.iss  k == proc'[p].tok.key
          IN \/ Published(i, k)
             \/ \E w \in withdrawn[i] : w.key = k /\ now - w.at < TTL + Timeout]_vars

\* A sound token signed with the key its issuer publishes under the token's kid
\* is turned down for its key only within jwksCacheTTL and one HTTP timeout of
\* that key's publication (fetchJWKS does not refetch on an unknown kid).
NewKeysArrive ==
    [][\A p \in Procs : Decides(p, "refused") =>
          LET tok == proc'[p].tok
          IN tok.sound /\ tok.kid # NoKid /\ jwks[tok.iss][tok.kid] = tok.key =>
                now - publishedAt[tok.iss][tok.kid] < TTL + Timeout]_vars
=============================================================================
