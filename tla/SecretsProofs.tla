--------------------------- MODULE SecretsProofs ---------------------------
(***************************************************************************)
(* Secrets: the file of the local vault and the maps processes load from it   *)
(* (LocalVault), and the secret a call of ExecuteCall uses (GatewayClient).    *)
(***************************************************************************)
EXTENDS LocalVault, GatewayClient, Integers, TLAPS

-----------------------------------------------------------------------------
(* The gateway client: attempts of a call, and the secret it uses.           *)

CallerRecord ==
    [pc : {"idle", "rendered", "fetched", "sending", "failed", "ok", "4xx", "5xx"},
     method : Methods, auth : BOOLEAN, ver : Vers, readAt : Nat, attempt : Nat,
     sent : Nat, spent : BOOLEAN]

SecretEntry == [ver : Vers, took : Nat, expires : Nat]

\* A call has sent at most one request per attempt, and has not begun more
\* attempts than doWithRetry allows.
WithinAttempts(a) ==
    /\ a.attempt + 1 <= Attempts(a.method)
    /\ a.pc \in {"idle", "rendered", "fetched"} => a.sent = 0
    /\ a.pc = "sending" => a.sent <= a.attempt
    /\ a.sent <= a.attempt + 1

\* The secret read is the vault's, or was replaced after it was read.
ReadInTime(a) ==
    a.pc = "fetched" => /\ a.readAt <= now /\ a.ver <= vaultVer
                        /\ a.ver < vaultVer => a.readAt <= rotatedAt[a.ver]

\* The cached secret expires a TTL after it was stored, and it was stored no
\* later than its replacement plus the time its reader took.
StoredInTime(e) ==
    /\ e.ver <= vaultVer
    /\ e.expires <= now + SecretTTL
    /\ e.ver < vaultVer => e.expires <= rotatedAt[e.ver] + SecretTTL + e.took

ClientType ==
    /\ now \in Nat /\ vaultVer \in Vers /\ rotatedAt \in [Vers -> Nat]
    /\ secretCache \in SecretEntry \cup {NoEntry}
    /\ caller \in [Callers -> CallerRecord]

ClientInv ==
    /\ ClientType
    /\ \A c \in Callers : WithinAttempts(caller[c]) /\ ReadInTime(caller[c])
    /\ secretCache # NoEntry => StoredInTime(secretCache)

LEMMA IdleCallerType ==
    /\ IdleCaller \in CallerRecord /\ IdleCaller.pc = "idle"
    /\ IdleCaller.sent = 0 /\ IdleCaller.attempt = 0 /\ IdleCaller.spent = FALSE
  <1> DEFINE m == CHOOSE x \in Methods : TRUE
  <1>1. m \in Methods
    BY ClientAssumption
  <1>2. 0 \in Vers
    BY ClientAssumption DEF Vers
  <1>3. IdleCaller = [pc |-> "idle", method |-> m, auth |-> FALSE, ver |-> 0,
                             readAt |-> 0, attempt |-> 0, sent |-> 0, spent |-> FALSE]
    BY DEF IdleCaller
  <1> HIDE DEF m
  <1> QED
    BY <1>1, <1>2, <1>3 DEF CallerRecord

LEMMA AttemptsBound ==
    ASSUME NEW m \in Methods
    PROVE  /\ Attempts(m) \in Nat /\ Attempts(m) >= 1
           /\ Attempts(m) <= MaxRetries + 1
           /\ m \in {"POST", "DELETE"} => Attempts(m) = 1
  BY ClientAssumption DEF Attempts, IsIdempotent

\* What a step of a call does to its record and to the cached secret.
CallEffect(c, a, b) ==
    \/ b = IdleCaller /\ secretCache' = secretCache
    \/ /\ a.pc = "rendered" /\ b.pc = "sending"
       /\ b.method = a.method /\ b.attempt = a.attempt /\ b.sent = a.sent /\ b.spent = a.spent
       /\ secretCache' = secretCache
    \/ /\ a.pc = "rendered" /\ b.pc = "fetched" /\ b.ver = vaultVer /\ b.readAt = now
       /\ b.method = a.method /\ b.attempt = a.attempt /\ b.sent = a.sent /\ b.spent = a.spent
       /\ secretCache' = secretCache
    \/ /\ a.pc = "fetched" /\ b.pc = "sending"
       /\ b.method = a.method /\ b.attempt = a.attempt /\ b.sent = a.sent /\ b.spent = a.spent
       /\ secretCache' \in {secretCache, [ver |-> a.ver, took |-> now - a.readAt,
                                          expires |-> now + SecretTTL]}
    \/ /\ a.pc = "sending" /\ b.pc \in {"failed", "ok", "4xx", "5xx"}
       /\ b.method = a.method /\ b.attempt = a.attempt /\ b.sent \in {a.sent, a.sent + 1}
       /\ b.spent \in {a.spent, HasBody(a.method)}
       /\ secretCache' = secretCache
    \/ /\ a.pc = "failed" /\ b.pc = "sending"
       /\ b.method = a.method /\ b.attempt = a.attempt + 1 /\ b.sent = a.sent /\ b.spent = a.spent
       /\ a.attempt + 1 < Attempts(a.method)
       /\ secretCache' = secretCache

CallMoves(c) ==
    /\ caller' = [caller EXCEPT ![c] = caller'[c]]
    /\ caller'[c] \in CallerRecord
    /\ UNCHANGED <<now, vaultVer, rotatedAt>>

LEMMA CallStep ==
    ASSUME ClientType, NEW c \in Callers, CallerStep(c)
    PROVE  CallMoves(c) /\ CallEffect(c, caller[c], caller'[c])
  <1>0. /\ caller \in [Callers -> CallerRecord] /\ caller[c] \in CallerRecord
        /\ now \in Nat /\ vaultVer \in Vers
    BY DEF ClientType
  <1>a. ASSUME NEW r \in CallerRecord, caller' = [caller EXCEPT ![c] = r],
               UNCHANGED <<now, vaultVer, rotatedAt>>
        PROVE  CallMoves(c) /\ caller'[c] = r
    BY <1>0, <1>a DEF CallMoves
  <1>b. ASSUME Done(c), UNCHANGED <<now, vaultVer, rotatedAt, secretCache>>
        PROVE  CallMoves(c) /\ CallEffect(c, caller[c], caller'[c])
    <2>1. CallMoves(c) /\ caller'[c] = IdleCaller
      BY <1>a, <1>b, IdleCallerType DEF Done
    <2> QED
      BY <1>b, <2>1 DEF CallEffect
  <1>c. ASSUME NEW pc \in {"sending", "failed"}, Goto(c, pc),
               UNCHANGED <<now, vaultVer, rotatedAt>>
        PROVE  /\ CallMoves(c) /\ caller'[c].pc = pc /\ caller'[c].method = caller[c].method
               /\ caller'[c].attempt = caller[c].attempt /\ caller'[c].sent = caller[c].sent
               /\ caller'[c].spent = caller[c].spent
    <2> DEFINE r == [caller[c] EXCEPT !.pc = pc]
    <2>1. r \in CallerRecord /\ r.pc = pc /\ r.method = caller[c].method
          /\ r.attempt = caller[c].attempt /\ r.sent = caller[c].sent
          /\ r.spent = caller[c].spent
      BY <1>0, <1>c DEF CallerRecord
    <2>2. caller' = [caller EXCEPT ![c] = r]
      BY <1>0, <1>c DEF Goto
    <2> HIDE DEF r
    <2> QED
      BY <1>a, <1>c, <2>1, <2>2
  <1>d. ASSUME NEW pc \in {"failed", "ok", "4xx", "5xx"}, Sent(c, pc),
               UNCHANGED <<now, vaultVer, rotatedAt>>
        PROVE  /\ CallMoves(c) /\ caller'[c].pc = pc /\ caller'[c].method = caller[c].method
               /\ caller'[c].attempt = caller[c].attempt /\ caller'[c].sent = caller[c].sent + 1
               /\ caller'[c].spent = HasBody(caller[c].method)
    <2> DEFINE s == HasBody(caller[c].method)
               n == caller[c].sent + 1
               r == [caller[c] EXCEPT !.pc = pc, !.sent = n, !.spent = s]
    <2>0. s \in BOOLEAN /\ n \in Nat
      BY <1>0 DEF HasBody, CallerRecord
    <2>2. caller' = [caller EXCEPT ![c] = r]
      BY <1>0, <1>d DEF Sent
    <2> HIDE DEF s, n
    <2>1. r \in CallerRecord /\ r.pc = pc /\ r.method = caller[c].method
          /\ r.attempt = caller[c].attempt /\ r.sent = n /\ r.spent = s
      BY <1>0, <1>d, <2>0 DEF CallerRecord
    <2> HIDE DEF r
    <2> QED
      BY <1>a, <1>d, <2>1, <2>2 DEF n, s
  <1>1. CASE EgressDenied(c) \/ ServeCached(c) \/ SecretFails(c)
             \/ TooLarge(c) \/ Cancelled(c) \/ Finish(c)
    BY <1>1, <1>b DEF EgressDenied, ServeCached, SecretFails,
         TooLarge, Cancelled, Finish
  <1>2. CASE NoSecret(c)
    BY <1>2, <1>c DEF NoSecret, CallEffect
  <1>3. CASE SecretHit(c)
    <2> DEFINE r == [caller[c] EXCEPT !.ver = secretCache.ver, !.pc = "sending"]
    <2>1. secretCache \in SecretEntry
      BY <1>3 DEF SecretHit, Fresh, ClientType
    <2>2. r \in CallerRecord /\ r.pc = "sending" /\ r.method = caller[c].method
          /\ r.attempt = caller[c].attempt /\ r.sent = caller[c].sent
          /\ r.spent = caller[c].spent
      BY <1>0, <2>1 DEF CallerRecord, SecretEntry
    <2>3. caller' = [caller EXCEPT ![c] = r]
      BY <1>0, <1>3 DEF SecretHit
    <2> HIDE DEF r
    <2>4. CallMoves(c) /\ caller'[c] = r
      BY <1>3, <1>a, <2>2, <2>3 DEF SecretHit
    <2> QED
      BY <1>3, <2>2, <2>4 DEF SecretHit, CallEffect
  <1>4. CASE SecretRead(c)
    <2> DEFINE r == [caller[c] EXCEPT !.ver = vaultVer, !.readAt = now, !.pc = "fetched"]
    <2>2. r \in CallerRecord /\ r.pc = "fetched" /\ r.method = caller[c].method
          /\ r.attempt = caller[c].attempt /\ r.sent = caller[c].sent
          /\ r.spent = caller[c].spent
          /\ r.ver = vaultVer /\ r.readAt = now
      BY <1>0 DEF CallerRecord
    <2>3. caller' = [caller EXCEPT ![c] = r]
      BY <1>0, <1>4 DEF SecretRead
    <2> HIDE DEF r
    <2>4. CallMoves(c) /\ caller'[c] = r
      BY <1>4, <1>a, <2>2, <2>3 DEF SecretRead
    <2> QED
      BY <1>4, <2>2, <2>4 DEF SecretRead, CallEffect
  <1>5. CASE SecretSet(c)
    BY <1>5, <1>c DEF SecretSet, CallEffect
  <1>6. ASSUME NEW status \in {"ok", "4xx", "5xx"}, Respond(c, status)
        PROVE  CallMoves(c) /\ CallEffect(c, caller[c], caller'[c])
    <2>1. PICK pc \in {"failed", "ok", "4xx", "5xx"} : Sent(c, pc)
      BY <1>6 DEF Respond
    <2> QED
      BY <1>6, <1>d, <2>1 DEF Respond, CallEffect
  <1>7. CASE TransportFails(c)
    BY <1>7, <1>c, <1>d DEF TransportFails, CallEffect
  <1>8. CASE Retry(c) /\ MayRetry(c)
    <2> DEFINE n == caller[c].attempt + 1
               r == [caller[c] EXCEPT !.pc = "sending", !.attempt = n]
    <2>1. n \in Nat
      BY <1>0 DEF CallerRecord
    <2>3. caller' = [caller EXCEPT ![c] = r]
      BY <1>0, <1>8 DEF Retry
    <2> HIDE DEF n
    <2>2. r \in CallerRecord /\ r.pc = "sending" /\ r.method = caller[c].method
          /\ r.attempt = n /\ r.sent = caller[c].sent
          /\ r.spent = caller[c].spent
      BY <1>0, <2>1 DEF CallerRecord
    <2> HIDE DEF r
    <2>4. CallMoves(c) /\ caller'[c] = r
      BY <1>8, <1>a, <2>2, <2>3 DEF Retry
    <2> QED
      BY <1>8, <2>2, <2>4 DEF Retry, MayRetry, CallEffect, n
  <1>9. CASE Retry(c) /\ ~ MayRetry(c)
    BY <1>9, <1>b DEF Retry
  <1> QED
    BY <1>1, <1>2, <1>3, <1>4, <1>5, <1>6, <1>7, <1>8, <1>9 DEF CallerStep

LEMMA ClientStep == ClientInv /\ [ClientNext]_clientVars => ClientInv'
  <1> SUFFICES ASSUME ClientInv, [ClientNext]_clientVars PROVE ClientInv'
    OBVIOUS
  <1>0. /\ ClientType /\ now \in Nat /\ vaultVer \in Vers /\ vaultVer \in Nat
        /\ rotatedAt \in [Vers -> Nat] /\ SecretTTL \in Nat
        /\ secretCache \in SecretEntry \cup {NoEntry}
        /\ \A c \in Callers : caller[c] \in CallerRecord
    BY ClientAssumption DEF ClientInv, ClientType, Vers
  <1>v. \A v \in Vers : v \in Nat
    BY DEF Vers
  <1>1. ASSUME NEW c \in Callers, CallMoves(c), WithinAttempts(caller'[c]), ReadInTime(caller'[c]),
               secretCache' \in SecretEntry \cup {NoEntry},
               secretCache' # NoEntry => StoredInTime(secretCache')
        PROVE  ClientInv'
    <2>1. caller' \in [Callers -> CallerRecord] /\ \A g \in Callers : g # c => caller'[g] = caller[g]
      BY <1>0, <1>1 DEF CallMoves, ClientType
    <2>2. UNCHANGED <<now, vaultVer, rotatedAt>>
      BY <1>1 DEF CallMoves
    <2>3. \A g \in Callers : WithinAttempts(caller'[g]) /\ ReadInTime(caller'[g])
      BY <1>1, <2>1 DEF ClientInv
    <2>4. ClientType'
      BY <1>0, <1>1, <2>1, <2>2 DEF ClientType
    <2> QED
      BY <1>1, <2>2, <2>3, <2>4 DEF ClientInv, ReadInTime, StoredInTime, WithinAttempts
  <1>2. ASSUME NEW c \in Callers, CallerStep(c)
        PROVE  ClientInv'
    <2>0. CallMoves(c) /\ CallEffect(c, caller[c], caller'[c])
      BY <1>0, <1>2, CallStep
    <2>1. /\ caller[c] \in CallerRecord /\ caller'[c] \in CallerRecord
          /\ WithinAttempts(caller[c]) /\ ReadInTime(caller[c])
      BY <1>0, <2>0 DEF ClientInv, CallMoves
    <2>2. /\ caller[c].method \in Methods /\ caller[c].attempt \in Nat /\ caller[c].sent \in Nat
          /\ caller[c].ver \in Nat /\ caller[c].ver \in Vers /\ caller[c].readAt \in Nat
          /\ caller[c].pc \in {"idle", "rendered", "fetched", "sending", "failed", "ok", "4xx", "5xx"}
      BY <1>v, <2>1 DEF CallerRecord
    <2>3. Attempts(caller[c].method) \in Nat
      BY <2>2, AttemptsBound
    <2>4. WithinAttempts(IdleCaller)
      <3>1. IdleCaller.method \in Methods
        BY IdleCallerType DEF CallerRecord
      <3> QED
        BY <3>1, IdleCallerType, AttemptsBound DEF WithinAttempts
    <2>5. WithinAttempts(caller'[c])
      BY <2>0, <2>1, <2>2, <2>3, <2>4 DEF CallEffect, WithinAttempts
    <2>6. ReadInTime(caller'[c])
      BY <1>0, <2>0, IdleCallerType DEF CallEffect, ReadInTime
    <2>7. CASE secretCache' = secretCache
      BY <1>0, <1>1, <2>0, <2>5, <2>6, <2>7 DEF ClientInv
    <2>8. CASE /\ caller[c].pc = "fetched"
               /\ secretCache' = [ver |-> caller[c].ver, took |-> now - caller[c].readAt,
                                  expires |-> now + SecretTTL]
      <3>1. /\ caller[c].readAt <= now /\ caller[c].ver <= vaultVer
            /\ caller[c].ver < vaultVer => caller[c].readAt <= rotatedAt[caller[c].ver]
        BY <2>1, <2>8 DEF ReadInTime
      <3> DEFINE t == now - caller[c].readAt
                 e == now + SecretTTL
      <3>2. t \in Nat /\ e \in Nat /\ rotatedAt[caller[c].ver] \in Nat
        BY <1>0, <2>2, <3>1
      <3>3. caller[c].ver < vaultVer => e <= rotatedAt[caller[c].ver] + SecretTTL + t
        BY <1>0, <2>2, <3>1, <3>2
      <3>4. /\ secretCache'.ver = caller[c].ver /\ secretCache'.took = t
            /\ secretCache'.expires = e
        BY <2>8
      <3>5. secretCache' \in SecretEntry
        <4> HIDE DEF t, e
        <4>1. secretCache' = [ver |-> caller[c].ver, took |-> t, expires |-> e]
          BY <2>8 DEF t, e
        <4> QED
          BY <2>2, <3>2, <4>1 DEF SecretEntry
      <3>6. StoredInTime(secretCache')
        BY <1>0, <3>1, <3>3, <3>4 DEF StoredInTime
      <3> QED
        BY <1>1, <2>0, <2>5, <2>6, <3>5, <3>6
    <2> QED
      BY <2>0, <2>7, <2>8 DEF CallEffect
  <1>3. ASSUME NEW c \in Callers, NEW m \in Methods, NEW auth \in BOOLEAN, Begin(c, m, auth)
        PROVE  ClientInv'
    <2> DEFINE r == [IdleCaller EXCEPT !.pc = "rendered", !.method = m, !.auth = auth]
    <2>1. r \in CallerRecord /\ r.pc = "rendered" /\ r.method = m /\ r.sent = 0 /\ r.attempt = 0
      BY <1>3, IdleCallerType DEF CallerRecord
    <2>2. caller' = [caller EXCEPT ![c] = r] /\ secretCache' = secretCache
          /\ UNCHANGED <<now, vaultVer, rotatedAt>>
      BY <1>3 DEF Begin
    <2> HIDE DEF r
    <2>3. CallMoves(c) /\ caller'[c] = r
      BY <1>0, <2>1, <2>2 DEF CallMoves, ClientType
    <2>4. WithinAttempts(caller'[c]) /\ ReadInTime(caller'[c])
      BY <2>1, <2>3, AttemptsBound DEF WithinAttempts, ReadInTime
    <2> QED
      BY <1>0, <1>1, <2>2, <2>3, <2>4 DEF ClientInv
  <1>4. CASE Rotate
    <2>1. /\ vaultVer' = vaultVer + 1 /\ rotatedAt' = [rotatedAt EXCEPT ![vaultVer] = now]
          /\ UNCHANGED <<now, secretCache, caller>> /\ vaultVer < MaxVer
      BY <1>4 DEF Rotate
    <2>2. vaultVer' \in Vers
      BY <1>0, <2>1, ClientAssumption DEF Vers
    <2>3. ClientType'
      BY <1>0, <2>1, <2>2 DEF ClientType
    <2>4. \A c \in Callers : WithinAttempts(caller'[c])
      BY <2>1 DEF ClientInv
    <2>5. ASSUME NEW c \in Callers PROVE ReadInTime(caller[c])'
      <3>1. ReadInTime(caller[c]) /\ caller[c].ver \in Vers /\ caller[c].ver \in Nat
            /\ caller[c].readAt \in Nat
        BY <1>0, <1>v DEF ClientInv, CallerRecord
      <3> QED
        BY <1>0, <2>1, <3>1 DEF ReadInTime
    <2>6. ASSUME secretCache # NoEntry PROVE StoredInTime(secretCache)'
      <3>1. /\ StoredInTime(secretCache) /\ secretCache.ver \in Vers
            /\ secretCache.ver \in Nat /\ secretCache.expires \in Nat /\ secretCache.took \in Nat
        BY <1>0, <1>v, <2>6 DEF ClientInv, SecretEntry
      <3> QED
        BY <1>0, <2>1, <3>1 DEF StoredInTime
    <2> QED
      BY <2>1, <2>3, <2>4, <2>5, <2>6 DEF ClientInv, WithinAttempts
  <1>5. CASE Tick
    <2>1. now' = now + 1 /\ UNCHANGED <<vaultVer, rotatedAt, secretCache, caller>>
      BY <1>5 DEF Tick
    <2>2. ClientType'
      BY <1>0, <2>1 DEF ClientType
    <2>3. ASSUME NEW c \in Callers PROVE ReadInTime(caller[c])'
      <3>1. ReadInTime(caller[c]) /\ caller[c].readAt \in Nat
        BY <1>0 DEF ClientInv, CallerRecord
      <3> QED
        BY <1>0, <2>1, <3>1 DEF ReadInTime
    <2>4. ASSUME secretCache # NoEntry PROVE StoredInTime(secretCache)'
      <3>1. StoredInTime(secretCache) /\ secretCache.expires \in Nat
        BY <1>0, <2>4 DEF ClientInv, SecretEntry
      <3> QED
        BY <1>0, <2>1, <3>1 DEF StoredInTime
    <2> QED
      BY <2>1, <2>2, <2>3, <2>4 DEF ClientInv, WithinAttempts
  <1>6. CASE UNCHANGED clientVars
    BY <1>6 DEF clientVars, ClientInv, ClientType, ReadInTime, StoredInTime, WithinAttempts
  <1> QED
    BY <1>2, <1>3, <1>4, <1>5, <1>6 DEF ClientNext

LEMMA ClientCorrect == ClientSpec => []ClientInv
  <1>1. ClientInit => ClientInv
    <2> SUFFICES ASSUME ClientInit PROVE ClientInv
      OBVIOUS
    <2>1. 0 \in Vers
      BY ClientAssumption DEF Vers
    <2>2. ClientType
      BY <2>1, IdleCallerType DEF ClientInit, ClientType
    <2>3. IdleCaller.method \in Methods
      BY IdleCallerType DEF CallerRecord
    <2>4. WithinAttempts(IdleCaller) /\ ReadInTime(IdleCaller)
      BY <2>3, IdleCallerType, AttemptsBound DEF WithinAttempts, ReadInTime
    <2> QED
      BY <2>2, <2>4 DEF ClientInit, ClientInv
  <1>2. ClientInv /\ [ClientNext]_clientVars => ClientInv'
    BY ClientStep
  <1> QED
    BY <1>1, <1>2, PTL DEF ClientSpec

\* A POST or a DELETE reaches the upstream at most once, every other request at
\* most once more than DOWNSTREAM_RETRIES, whatever fails (doWithRetry).
THEOREM RequestsAreNotRepeated == ClientSpec => []SentAtMost
  <1>1. ClientInv => SentAtMost
    <2> SUFFICES ASSUME ClientInv, NEW c \in Callers
                 PROVE  caller[c].sent <= IF caller[c].method \in {"POST", "DELETE"}
                                          THEN 1 ELSE MaxRetries + 1
      BY DEF SentAtMost
    <2>1. caller[c] \in CallerRecord /\ WithinAttempts(caller[c])
      BY DEF ClientInv, ClientType
    <2>2. caller[c].method \in Methods /\ caller[c].attempt \in Nat /\ caller[c].sent \in Nat
      BY <2>1 DEF CallerRecord
    <2>3. MaxRetries \in Nat
      BY ClientAssumption
    <2> QED
      BY <2>1, <2>2, <2>3, AttemptsBound DEF WithinAttempts
  <1> QED
    BY <1>1, ClientCorrect, PTL

\* How many steps a call has before it at most: the attempts left, with their backoffs,
\* and the way to the first of them.
Phase(pc) ==
    IF pc = "rendered" THEN 3 ELSE IF pc = "fetched" THEN 2 ELSE IF pc = "sending" THEN 1 ELSE 0

StepsLeft(a) ==
    IF a.pc = "idle" THEN 0
    ELSE IF a.pc \in {"ok", "4xx", "5xx"} THEN 1
    ELSE 2 * (Attempts(a.method) - a.attempt) + Phase(a.pc)

\* A call that has begun is never set back ...
CallsAdvance ==
    [][\A c \in Callers : caller[c].pc # "idle" =>
          caller'[c] = caller[c] \/ StepsLeft(caller'[c]) < StepsLeft(caller[c])]_clientVars

\* ... and has a bounded way to go, none only when it has returned.
CallsBounded ==
    \A c \in Callers : /\ StepsLeft(caller[c]) \in 0 .. 2 * MaxRetries + 5
                       /\ StepsLeft(caller[c]) = 0 <=> caller[c].pc = "idle"

LEMMA StepsLeftBound ==
    ASSUME NEW a \in CallerRecord, WithinAttempts(a)
    PROVE  /\ StepsLeft(a) \in 0 .. 2 * MaxRetries + 5
           /\ StepsLeft(a) = 0 <=> a.pc = "idle"
           /\ a.pc \notin {"idle", "ok", "4xx", "5xx"} => StepsLeft(a) > 1
  <1> DEFINE n == Attempts(a.method)
  <1>1. a.method \in Methods /\ a.attempt \in Nat
        /\ a.pc \in {"idle", "rendered", "fetched", "sending", "failed", "ok", "4xx", "5xx"}
    BY DEF CallerRecord
  <1>2. n \in Nat /\ n <= MaxRetries + 1 /\ MaxRetries \in Nat /\ a.attempt + 1 <= n
    BY <1>1, AttemptsBound, ClientAssumption DEF WithinAttempts
  <1> HIDE DEF n
  <1>3. StepsLeft(a) = IF a.pc = "idle" THEN 0
                       ELSE IF a.pc \in {"ok", "4xx", "5xx"} THEN 1
                       ELSE 2 * (n - a.attempt) + Phase(a.pc)
    BY DEF StepsLeft, n
  <1>4. Phase(a.pc) \in 0 .. 3
    BY DEF Phase
  <1> QED
    BY <1>1, <1>2, <1>3, <1>4

\* Every step of a call brings it closer to its end.
LEMMA StepsLeftFall ==
    ASSUME ClientInv, ClientInv', NEW c \in Callers, CallerStep(c)
    PROVE  StepsLeft(caller'[c]) < StepsLeft(caller[c])
  <1>1. PICK a \in CallerRecord : a = caller[c]
    BY DEF ClientInv, ClientType
  <1>2. PICK b : b = caller'[c]
    OBVIOUS
  <1>3. b \in CallerRecord /\ CallEffect(c, a, b)
    BY <1>1, <1>2, CallStep DEF CallMoves, ClientInv
  <1>4. WithinAttempts(a) /\ WithinAttempts(b)
    BY <1>1, <1>2 DEF ClientInv
  <1>5. a.pc # "idle"
    BY <1>1 DEF CallerStep, EgressDenied, ServeCached, NoSecret, SecretHit, SecretRead, SecretFails,
       SecretSet, Respond, TransportFails, TooLarge, Retry, Cancelled, Finish
  <1>6. CASE b = IdleCaller
    <2>1. StepsLeft(b) = 0
      BY <1>6, IdleCallerType DEF StepsLeft
    <2>2. StepsLeft(a) \in 0 .. 2 * MaxRetries + 5 /\ StepsLeft(a) # 0
      BY <1>4, <1>5, StepsLeftBound
    <2> QED
      BY <1>1, <1>2, <2>1, <2>2, ClientAssumption
  <1>7. CASE b.pc \in {"ok", "4xx", "5xx"} /\ b # IdleCaller
    <2>1. StepsLeft(b) = 1
      BY <1>7 DEF StepsLeft
    <2>2. StepsLeft(a) > 1
      BY <1>3, <1>4, <1>7, StepsLeftBound DEF CallEffect
    <2> QED
      BY <1>1, <1>2, <2>1, <2>2
  <1>8. CASE b # IdleCaller /\ b.pc \notin {"ok", "4xx", "5xx"}
    <2> DEFINE n == Attempts(a.method)
    <2>1. n \in Nat /\ a.attempt \in Nat
      BY AttemptsBound DEF CallerRecord
    <2>2. /\ b.method = a.method
          /\ \/ a.pc = "rendered" /\ b.pc \in {"sending", "fetched"} /\ b.attempt = a.attempt
             \/ a.pc = "fetched" /\ b.pc = "sending" /\ b.attempt = a.attempt
             \/ a.pc = "sending" /\ b.pc = "failed" /\ b.attempt = a.attempt
             \/ a.pc = "failed" /\ b.pc = "sending" /\ b.attempt = a.attempt + 1
      BY <1>3, <1>8 DEF CallEffect
    <2>3. /\ StepsLeft(a) = 2 * (n - a.attempt) + Phase(a.pc)
          /\ StepsLeft(b) = 2 * (n - b.attempt) + Phase(b.pc)
      BY <2>2 DEF StepsLeft
    <2> HIDE DEF n
    <2>4. StepsLeft(b) < StepsLeft(a)
      BY <2>1, <2>2, <2>3 DEF Phase
    <2> QED
      BY <1>1, <1>2, <2>4
  <1> QED
    BY <1>6, <1>7, <1>8

\* A call of ExecuteCall takes at most 2 * DOWNSTREAM_RETRIES + 5 steps, and nothing
\* another call, a rotation or the clock does sets it back: with the fairness of
\* ClientFairSpec this is why every call ends (CallsEnd).
THEOREM CallsAreFinite == ClientSpec => []CallsBounded /\ CallsAdvance
  <1>1. ClientInv => CallsBounded
    BY StepsLeftBound DEF CallsBounded, ClientInv, ClientType
  <1>2. ASSUME ClientInv, ClientInv', [ClientNext]_clientVars, NEW c \in Callers, caller[c].pc # "idle"
        PROVE  caller'[c] = caller[c] \/ StepsLeft(caller'[c]) < StepsLeft(caller[c])
    <2>1. CASE CallerStep(c)
      BY <1>2, <2>1, StepsLeftFall
    <2>2. ASSUME NEW d \in Callers, CallerStep(d), d # c PROVE caller'[c] = caller[c]
      BY <1>2, <2>2, CallStep DEF CallMoves, ClientInv, ClientType
    <2>3. ASSUME NEW d \in Callers, NEW m \in Methods, NEW auth \in BOOLEAN, Begin(d, m, auth)
          PROVE caller'[c] = caller[c]
      <3>1. d # c
        BY <1>2, <2>3 DEF Begin
      <3> QED
        BY <1>2, <2>3, <3>1 DEF Begin, ClientInv, ClientType
    <2>4. CASE Rotate \/ Tick \/ UNCHANGED clientVars
      BY <2>4 DEF Rotate, Tick, clientVars
    <2> QED
      BY <1>2, <2>1, <2>2, <2>3, <2>4 DEF ClientNext
  <1>3. ClientInv /\ ClientInv' /\ [ClientNext]_clientVars =>
          [\A c \in Callers : caller[c].pc # "idle" =>
              caller'[c] = caller[c] \/ StepsLeft(caller'[c]) < StepsLeft(caller[c])]_clientVars
    BY <1>2
  <1> QED
    BY <1>1, <1>3, ClientCorrect, PTL DEF ClientSpec, CallsAdvance

\* No request is repeated that carries a body.
BodiesFresh ==
    \A c \in Callers : /\ caller[c].spent => HasBody(caller[c].method)
                       /\ caller[c].pc \in {"idle", "rendered", "fetched", "sending"} => ~ caller[c].spent

\* An attempt has the whole request to send, if no method that is retried has a body:
\* retries are off, or no endpoint uses HEAD or OPTIONS.  For those doWithRetry sends
\* the body's reader again after an earlier attempt has read it.
THEOREM AttemptsWholeWithoutBodies ==
    MaxRetries = 0 \/ Methods \subseteq {"GET", "POST", "DELETE"} => (ClientSpec => []AttemptsAreWhole)
  <1> SUFFICES ASSUME MaxRetries = 0 \/ Methods \subseteq {"GET", "POST", "DELETE"}
               PROVE  ClientSpec => []AttemptsAreWhole
    OBVIOUS
  <1>0. \A m \in Methods : Attempts(m) > 1 => ~ HasBody(m)
    BY ClientAssumption DEF Attempts, IsIdempotent, HasBody
  <1>1. ClientInit => BodiesFresh
    BY IdleCallerType DEF ClientInit, BodiesFresh
  <1>2. ASSUME ClientInv, BodiesFresh, [ClientNext]_clientVars PROVE BodiesFresh'
    <2>0. caller \in [Callers -> CallerRecord]
      BY <1>2 DEF ClientInv, ClientType
    <2>1. ASSUME NEW c \in Callers, CallerStep(c) PROVE BodiesFresh'
      <3>1. caller' = [caller EXCEPT ![c] = caller'[c]] /\ CallEffect(c, caller[c], caller'[c])
        BY <1>2, <2>1, CallStep DEF CallMoves, ClientInv
      <3>2. PICK b : b = caller'[c]
        OBVIOUS
      <3>3. caller' = [caller EXCEPT ![c] = b] /\ CallEffect(c, caller[c], b)
        BY <3>1, <3>2
      <3>4. caller[c].attempt \in Nat /\ caller[c].method \in Methods /\ caller[c] \in CallerRecord
        BY <2>0 DEF CallerRecord
      <3>5. caller[c].spent => HasBody(caller[c].method)
        BY <1>2 DEF BodiesFresh
      <3>6. /\ b.spent => HasBody(b.method)
            /\ b.pc \in {"idle", "rendered", "fetched", "sending"} => ~ b.spent
        <4>1. CASE b = IdleCaller
          BY <4>1, IdleCallerType
        <4>2. CASE caller[c].pc = "failed" /\ b # IdleCaller
          <5>1. caller[c].attempt + 1 < Attempts(caller[c].method) /\ b.spent = caller[c].spent
            BY <3>3, <4>2 DEF CallEffect
          <5>2. Attempts(caller[c].method) > 1
            BY <3>4, <5>1, AttemptsBound
          <5> QED
            BY <1>0, <3>4, <3>5, <5>1, <5>2
        <4>3. CASE caller[c].pc # "failed" /\ b # IdleCaller
          BY <1>2, <3>3, <3>4, <3>5, <4>3 DEF CallEffect, BodiesFresh, HasBody, CallerRecord
        <4> QED
          BY <4>1, <4>2, <4>3
      <3> QED
        BY <1>2, <2>0, <3>3, <3>6 DEF BodiesFresh
    <2>2. ASSUME NEW c \in Callers, NEW m \in Methods, NEW auth \in BOOLEAN, Begin(c, m, auth)
          PROVE BodiesFresh'
      <3>1. PICK b : b = [IdleCaller EXCEPT !.pc = "rendered", !.method = m, !.auth = auth]
        OBVIOUS
      <3>2. ~ b.spent
        BY <3>1, IdleCallerType DEF CallerRecord
      <3>3. caller' = [caller EXCEPT ![c] = b]
        BY <2>2, <3>1 DEF Begin
      <3> QED
        BY <1>2, <2>0, <3>2, <3>3 DEF BodiesFresh
    <2>3. CASE Rotate \/ Tick \/ UNCHANGED clientVars
      BY <1>2, <2>3 DEF Rotate, Tick, clientVars, BodiesFresh
    <2> QED
      BY <1>2, <2>1, <2>2, <2>3 DEF ClientNext
  <1>3. BodiesFresh => AttemptsAreWhole
    BY DEF BodiesFresh, AttemptsAreWhole
  <1> QED
    BY <1>1, <1>2, <1>3, ClientCorrect, PTL DEF ClientSpec

\* A secret replaced in the vault is found in the cache for at most the TTL and
\* the time its reader took to store it, with any number of concurrent readers
\* (getSecret, TTLCache).
THEOREM RotationsTakeEffect == ClientSpec => []RotationTakesEffect
  <1>1. ClientInv => RotationTakesEffect
    <2> SUFFICES ASSUME ClientInv, Fresh(secretCache), secretCache.ver < vaultVer
                 PROVE  now - rotatedAt[secretCache.ver] <= SecretTTL + secretCache.took
      BY DEF RotationTakesEffect
    <2>1. secretCache # NoEntry /\ now <= secretCache.expires
      BY DEF Fresh
    <2>2. secretCache \in SecretEntry /\ StoredInTime(secretCache) /\ now \in Nat
          /\ rotatedAt \in [Vers -> Nat]
      BY <2>1 DEF ClientInv, ClientType
    <2>3. /\ rotatedAt[secretCache.ver] \in Nat /\ secretCache.expires \in Nat
          /\ secretCache.took \in Nat
      BY <2>2 DEF SecretEntry
    <2>4. SecretTTL \in Nat
      BY ClientAssumption
    <2> QED
      BY <2>1, <2>2, <2>3, <2>4 DEF StoredInTime
  <1> QED
    BY <1>1, ClientCorrect, PTL

-----------------------------------------------------------------------------
(* The file vault: type correctness, durability of acknowledged changes while *)
(* processes use the file one after the other, and what a process loads.      *)

LEMMA ClosedType == Closed \in Local /\ Empty \in Secrets
BY VaultAssumption DEF Closed, Local, Empty, Secrets

LEMMA ReturnedType ==
    ASSUME TypeOK, NEW p \in Procs, NEW ok \in BOOLEAN,
           Returned(p, ok)
    PROVE  /\ proc' \in [Procs -> Local]
           /\ last' \in [Keys -> [val : Vals \cup {None}, ok : BOOLEAN]]
<1>1. proc[p] \in Local
  BY DEF TypeOK
<1>2. proc' \in [Procs -> Local]
  <2>1. [proc[p] EXCEPT !.pc = "open", !.key = None] \in Local
    BY <1>1 DEF Local
  <2> QED BY <2>1, ClosedType DEF Returned, TypeOK
<1>3. last' \in [Keys -> [val : Vals \cup {None}, ok : BOOLEAN]]
  BY <1>1 DEF Returned, TypeOK, Local
<1> QED BY <1>2, <1>3

\* Every step of the vault's processes keeps the file, the maps and the history
\* in their types (LocalVault).
THEOREM VaultTypeCorrect == Spec => []TypeOK
<1>1. Init => TypeOK
  <2> SUFFICES ASSUME Init PROVE TypeOK
    OBVIOUS
  <2>1. file \in File
    BY FileAssumption DEF Init, File
  <2>2. proc \in [Procs -> Local]
    BY ClosedType DEF Init
  <2>3. last \in [Keys -> [val : Vals \cup {None}, ok : BOOLEAN]] /\ saved \subseteq Secrets
    BY <2>1 DEF Init, File, Secrets
  <2> QED BY <2>1, <2>2, <2>3 DEF Init, TypeOK
<1>2. TypeOK /\ [Next]_vars => TypeOK'
  <2> SUFFICES ASSUME TypeOK, [Next]_vars PROVE TypeOK'
    OBVIOUS
  <2>0. file \in File
    BY DEF TypeOK
  <2>a. [file EXCEPT !.kind = "garbage", !.secrets = Empty] \in File
    BY <2>0, ClosedType DEF File
  <2>b. ASSUME NEW p \in Procs
        PROVE  [kind |-> "sealed", secrets |-> proc[p].mem, encKey |-> proc[p].encKey] \in File
    BY DEF TypeOK, File, Local
  <2>1. ASSUME NEW p \in Procs, NEW k \in EncKeys, Open(p, k) PROVE TypeOK'
    <3>1. proc' \in [Procs -> Local]
      <4>1. (IF file.kind \in {"plain", "sealed"} THEN file.secrets ELSE Empty) \in Secrets
        BY <2>0, ClosedType DEF File
      <4> QED BY <2>1, <4>1 DEF Open, TypeOK, Local
    <3>2. last' \in [Keys -> [val : Vals \cup {None}, ok : BOOLEAN]]
      BY <2>1 DEF Open, TypeOK
    <3> QED BY <2>1, <3>1, <3>2 DEF Open, TypeOK
  <2>2. ASSUME NEW p \in Procs, NEW k \in Keys, NEW v \in Vals \cup {None}, Change(p, k, v)
        PROVE  TypeOK'
    <3>1. proc[p] \in Local /\ [proc[p].mem EXCEPT ![k] = v] \in Secrets
      BY DEF TypeOK, Local, Secrets
    <3>2. proc' \in [Procs -> Local]
      BY <2>2, <3>1 DEF Change, TypeOK, Local
    <3> QED BY <2>2, <3>2 DEF Change, TypeOK
  <2>3. ASSUME NEW p \in Procs, Truncate(p) PROVE TypeOK'
    <3>1. [file EXCEPT !.kind = "empty", !.secrets = Empty] \in File
      BY <2>0, ClosedType DEF File
    <3>2. proc' \in [Procs -> Local]
      BY <2>3 DEF Truncate, TypeOK, Local
    <3> QED BY <2>3, <3>1, <3>2 DEF Truncate, TypeOK
  <2>4. ASSUME NEW p \in Procs, Write(p) PROVE TypeOK'
    <3>1. /\ proc' \in [Procs -> Local]
          /\ last' \in [Keys -> [val : Vals \cup {None}, ok : BOOLEAN]]
      BY <2>4, ReturnedType DEF Write
    <3>2. proc[p].mem \in Secrets
      BY DEF TypeOK, Local
    <3> QED BY <2>4, <2>a, <2>b, <3>1, <3>2 DEF Write, TypeOK
  <2>5. ASSUME NEW p \in Procs, TruncateFails(p) PROVE TypeOK'
    <3>1. /\ proc' \in [Procs -> Local]
          /\ last' \in [Keys -> [val : Vals \cup {None}, ok : BOOLEAN]]
      BY <2>5, ReturnedType DEF TruncateFails
    <3> QED BY <2>5, <3>1 DEF TruncateFails, TypeOK
  <2>6. ASSUME NEW p \in Procs, WriteFails(p) PROVE TypeOK'
    <3>1. /\ proc' \in [Procs -> Local]
          /\ last' \in [Keys -> [val : Vals \cup {None}, ok : BOOLEAN]]
      BY <2>6, ReturnedType DEF WriteFails
    <3> QED BY <2>6, <2>a, <3>1 DEF WriteFails, TypeOK
  <2>7. ASSUME NEW p \in Procs, Crash(p) PROVE TypeOK'
    <3>1. proc' \in [Procs -> Local]
      BY <2>7, ClosedType DEF Crash, TypeOK
    <3>2. proc[p].mem \in Secrets
      BY DEF TypeOK, Local
    <3>3. file' \in File /\ torn' \in BOOLEAN /\ saved' \subseteq Secrets
      BY <2>7, <2>a, <2>b, <3>2 DEF Crash, TypeOK
    <3> QED BY <2>7, <3>1, <3>3 DEF Crash, TypeOK
  <2>8. CASE UNCHANGED vars
    BY <2>8 DEF vars, TypeOK
  <2> QED BY <2>1, <2>2, <2>3, <2>4, <2>5, <2>6, <2>7, <2>8 DEF Next
<1> QED BY <1>1, <1>2, PTL DEF Spec

-----------------------------------------------------------------------------
(* Durability while the processes follow one another.  The file alone is not  *)
(* inductive: between a truncation and the next complete save what was        *)
(* acknowledged lives in the running process's map only.                      *)

Acked(secrets) == \A k \in Keys : last[k].ok => secrets[k] = last[k].val

\* torn is exactly: the file holds no vault.
TornInv ==
    /\ torn => file.kind \in {"empty", "garbage"}
    /\ ~ torn => file.kind \in {"absent", "plain", "sealed"}
    /\ file.kind = "absent" => file.secrets = Empty

AloneInv ==
    \A p, q \in Procs : proc[p].pc # "closed" /\ proc[q].pc # "closed" => p = q

\* What a running process has in memory and in the file.
MapOK(p) ==
    /\ Acked(proc[p].mem)
    /\ proc[p].key # None => proc[p].mem[proc[p].key] = last[proc[p].key].val
    /\ proc[p].pc = "write" => torn /\ file.kind = "empty"

MapInv == \A p \in Procs : proc[p].pc # "closed" => MapOK(p)

DurableInv == TypeOK /\ (~ overlapped => AckedIsDurable /\ TornInv /\ AloneInv /\ MapInv)

\* A step of p alone: the others stay closed.
LEMMA OthersClosed ==
    ASSUME AloneInv, NEW p \in Procs, proc[p].pc # "closed" \/ ~ Running(p),
           \A q \in Procs \ {p} : proc'[q] = proc[q],
           proc'[p].pc # "closed" => MapOK(p)'
    PROVE  AloneInv' /\ MapInv'
<1>1. \A q \in Procs \ {p} : proc[q].pc = "closed"
  BY DEF AloneInv, Running
<1> QED BY <1>1 DEF AloneInv, MapInv

\* A change that SetSecret or DeleteSecret acknowledged survives failed saves,
\* crashes and restarts, but for a restart over a file that a save left truncated.
THEOREM AcknowledgedSurvives == Spec => []AckedIsDurable
<1> USE VaultAssumption, FileAssumption
<1>1. Init /\ TypeOK => DurableInv
  <2> SUFFICES ASSUME Init, TypeOK PROVE DurableInv
    OBVIOUS
  <2>1. AckedIsDurable
    BY DEF Init, AckedIsDurable
  <2>2. TornInv
    BY DEF Init, TornInv
  <2>3. MapInv /\ AloneInv
    BY DEF Init, MapInv, AloneInv, Closed
  <2> QED BY <2>1, <2>2, <2>3 DEF DurableInv
<1>2. DurableInv /\ TypeOK' /\ [Next]_vars => DurableInv'
  <2> SUFFICES ASSUME DurableInv, TypeOK', [Next]_vars, ~ overlapped'
               PROVE  AckedIsDurable' /\ TornInv' /\ AloneInv' /\ MapInv'
    BY DEF DurableInv
  <2>u. ~ overlapped
    BY DEF Next, Open, Change, Truncate, Write,
         TruncateFails, WriteFails, Crash, vars
  <2>i. TypeOK /\ AckedIsDurable /\ TornInv /\ AloneInv /\ MapInv
    BY <2>u DEF DurableInv
  <2>9. CASE UNCHANGED vars
    BY <2>i, <2>9 DEF vars, AckedIsDurable, TornInv, AloneInv, MapInv, MapOK, Acked
  <2> SUFFICES ASSUME NEW P \in Procs,
                      \/ \E k \in EncKeys : Open(P, k)
                      \/ \E k \in Keys, v \in Vals \cup {None} : Change(P, k, v)
                      \/ Truncate(P) \/ Write(P) \/ TruncateFails(P)
                      \/ WriteFails(P) \/ Crash(P)
               PROVE  AckedIsDurable' /\ TornInv' /\ AloneInv' /\ MapInv'
    BY <2>9 DEF Next
  <2> USE <2>u, <2>i
  <2>0. proc[P] \in Local /\ file \in File /\ proc \in [Procs -> Local]
    BY DEF TypeOK
  <2>m. MapOK(P) \/ proc[P].pc = "closed"
    BY DEF MapInv
  <2>o. ASSUME proc'[P].pc # "closed" => MapOK(P)' PROVE AloneInv' /\ MapInv'
    <3>1. \A q \in Procs \ {P} : proc'[q] = proc[q]
      BY <2>0 DEF Open, Change, Truncate, Write, TruncateFails,
           WriteFails, Crash, Returned
    <3>2. proc[P].pc # "closed" \/ ~ Running(P)
      BY DEF Open, Change, Truncate, Write, TruncateFails,
           WriteFails, Crash
    <3> QED BY <2>o, <3>1, <3>2, OthersClosed
  <2>1. ASSUME NEW k \in EncKeys, Open(P, k) PROVE AckedIsDurable' /\ TornInv' /\ MapOK(P)'
    <3>1. /\ proc'[P].key = None /\ proc'[P].pc # "write"
          /\ proc'[P].mem = IF file.kind \in {"plain", "sealed"} THEN file.secrets ELSE Empty
          /\ file' = file /\ torn' = torn
          /\ last' = IF file.kind = "empty"
                     THEN [n \in Keys |-> [last[n] EXCEPT !.ok = FALSE]] ELSE last
      BY <2>0, <2>1 DEF Open
    <3>2. \A n \in Keys : last'[n].ok => last' = last /\ file.kind # "empty" /\ file.kind # "garbage"
      BY <2>1, <3>1 DEF TypeOK, Open
    <3>3. Acked(proc[P].mem)'
      BY <3>1, <3>2 DEF Acked, AckedIsDurable, TornInv
    <3> QED BY <2>m, <3>1, <3>2, <3>3 DEF AckedIsDurable, TornInv, MapOK
  <2>2. ASSUME NEW k \in Keys, NEW v \in Vals \cup {None}, Change(P, k, v)
        PROVE  AckedIsDurable' /\ TornInv' /\ MapOK(P)'
    <3>1. /\ proc'[P].mem = [proc[P].mem EXCEPT ![k] = v]
          /\ proc'[P].key = k /\ proc'[P].pc = "truncate" /\ proc[P].pc = "open"
          /\ file' = file /\ torn' = torn
          /\ last' = [last EXCEPT ![k] = [val |-> v, ok |-> FALSE]]
      BY <2>0, <2>2 DEF Change, Local
    <3>2. proc[P].mem \in [Keys -> Vals \cup {None}]
      BY <2>0 DEF Local, Secrets
    <3>3. Acked(proc[P].mem)' /\ proc'[P].mem[k] = last'[k].val
      BY <2>m, <3>1, <3>2 DEF Acked, MapOK, TypeOK
    <3>4. AckedIsDurable'
      BY <3>1 DEF AckedIsDurable, TypeOK
    <3> QED BY <2>m, <3>1, <3>3, <3>4 DEF TornInv, MapOK
  <2>3. ASSUME Truncate(P)
        PROVE  AckedIsDurable' /\ TornInv' /\ (proc'[P].pc # "closed" => MapOK(P)')
    <3>1. /\ proc'[P].mem = proc[P].mem /\ proc'[P].key = proc[P].key
          /\ proc'[P].pc = "write"
          /\ proc[P].pc = "truncate" /\ file'.kind = "empty" /\ torn' /\ last' = last
      BY <2>0, <2>3 DEF Truncate, Local, File
    <3> QED BY <2>m, <3>1 DEF AckedIsDurable, TornInv, MapOK, Acked
  <2>4. ASSUME NEW ok \in BOOLEAN, Returned(P, ok), proc[P].pc # "closed"
        PROVE  /\ ok => Acked(proc[P].mem)'
               /\ proc'[P].pc # "closed" => /\ Acked(proc[P].mem)' /\ proc'[P].mem = proc[P].mem
                                            /\ proc'[P].pc = "open" /\ proc'[P].key = None
               /\ ok => proc'[P].mem = proc[P].mem
               /\ ~ ok => last' = last
    <3>1. proc'[P] = IF ~ ok /\ proc[P].key = None THEN Closed
                     ELSE [proc[P] EXCEPT !.pc = "open", !.key = None]
      BY <2>0, <2>4 DEF Returned
    <3>2. /\ Acked(proc[P].mem)
          /\ proc[P].key # None =>
                 proc[P].mem[proc[P].key] = last[proc[P].key].val
      BY <2>m, <2>4 DEF MapOK
    <3>3. proc'[P].pc # "closed" => /\ proc'[P].mem = proc[P].mem
                                         /\ proc'[P].pc = "open" /\ proc'[P].key = None
      BY <2>0, <3>1 DEF Closed, Local
    <3>4. ok => proc'[P].mem = proc[P].mem
      BY <2>0, <3>1 DEF Local
    <3>5. \A k \in Keys : last'[k].val = last[k].val /\
                (last'[k].ok => last[k].ok \/ k = proc[P].key)
      BY <2>0, <2>4 DEF Returned, TypeOK, Local
    <3>6. \A k \in Keys : last'[k].ok => proc[P].mem[k] = last'[k].val
      BY <3>2, <3>5 DEF Acked
    <3> QED BY <2>4, <3>3, <3>4, <3>6 DEF Acked, Returned
  <2>5. ASSUME Write(P)
        PROVE  AckedIsDurable' /\ TornInv' /\ (proc'[P].pc # "closed" => MapOK(P)')
    <3>1. proc[P].pc = "write" /\ Returned(P, TRUE) /\ file.kind = "empty"
      BY <2>m, <2>5 DEF Write, MapOK
    <3>2. /\ file' = [kind |-> "sealed", secrets |-> proc[P].mem, encKey |-> proc[P].encKey]
          /\ torn' = FALSE
      BY <2>5, <3>1 DEF Write
    <3>3. Acked(proc[P].mem)' /\ proc'[P].mem = proc[P].mem
      BY <2>4, <3>1
    <3> QED BY <2>m, <2>4, <3>1, <3>2, <3>3 DEF AckedIsDurable, TornInv, MapOK, Acked
  <2>6. ASSUME TruncateFails(P)
        PROVE  AckedIsDurable' /\ TornInv' /\ (proc'[P].pc # "closed" => MapOK(P)')
    <3>1. proc[P].pc = "truncate" /\ Returned(P, FALSE) /\ file' = file /\ torn' = torn
      BY <2>6 DEF TruncateFails
    <3>2. last' = last
      BY <2>4, <3>1
    <3> QED BY <2>m, <2>4, <3>1, <3>2 DEF AckedIsDurable, TornInv, MapOK
  <2>7. ASSUME WriteFails(P)
        PROVE  AckedIsDurable' /\ TornInv' /\ (proc'[P].pc # "closed" => MapOK(P)')
    <3>1. proc[P].pc = "write" /\ Returned(P, FALSE) /\ file'.kind \in {"empty", "garbage"} /\ torn'
      BY <2>m, <2>0, <2>7 DEF WriteFails, MapOK, File
    <3> QED BY <2>m, <2>4, <3>1 DEF AckedIsDurable, TornInv, MapOK
  <2>8. ASSUME Crash(P)
        PROVE  AckedIsDurable' /\ TornInv' /\ (proc'[P].pc # "closed" => MapOK(P)')
    <3>1. proc'[P] = Closed /\ proc'[P].pc = "closed" /\ last' = last /\ proc[P].pc # "closed"
      BY <2>0, <2>8 DEF Crash, Closed
    <3>2. CASE file' = file /\ torn' = torn
      BY <3>1, <3>2 DEF AckedIsDurable, TornInv
    <3>3. CASE file' = [file EXCEPT !.kind = "garbage", !.secrets = Empty] /\ torn' = TRUE
      <4>1. file'.kind = "garbage"
        BY <2>0, <3>3 DEF File
      <4> QED BY <3>1, <3>3, <4>1 DEF AckedIsDurable, TornInv
    <3>4. CASE /\ file' = [kind |-> "sealed", secrets |-> proc[P].mem, encKey |-> proc[P].encKey]
               /\ torn' = FALSE
      BY <2>m, <3>1, <3>4 DEF AckedIsDurable, TornInv, MapOK, Acked
    <3> QED BY <2>8, <3>2, <3>3, <3>4 DEF Crash
  <2> QED BY <2>1, <2>2, <2>3, <2>5, <2>6, <2>7, <2>8, <2>o
<1>3. DurableInv => AckedIsDurable
  BY DEF DurableInv, AckedIsDurable
<1> QED BY <1>1, <1>2, <1>3, VaultTypeCorrect, PTL DEF Spec

-----------------------------------------------------------------------------
(* What a process loads.                                                     *)

\* A file that loads was completely saved, or was there at first.
WholeFile == file.kind \in {"plain", "sealed"} => file.secrets \in saved

LEMMA WholeFileStep ==
    ASSUME TypeOK, WholeFile, [Next]_vars
    PROVE  WholeFile'
<1>0. file \in File
  BY DEF TypeOK
<1>1. \A kind \in {"empty", "garbage"} :
          [file EXCEPT !.kind = kind, !.secrets = Empty].kind = kind
  BY <1>0 DEF File
<1>2. CASE UNCHANGED <<file, saved>>
  BY <1>2 DEF WholeFile
<1>3. ASSUME NEW kind \in {"empty", "garbage"},
             file' = [file EXCEPT !.kind = kind, !.secrets = Empty]
      PROVE  WholeFile'
  BY <1>1, <1>3 DEF WholeFile
<1>4. ASSUME NEW p \in Procs, saved' = saved \cup {proc[p].mem},
             file' = [kind |-> "sealed", secrets |-> proc[p].mem, encKey |-> proc[p].encKey]
      PROVE  WholeFile'
  BY <1>4 DEF WholeFile
<1>5. ASSUME NEW p \in Procs,
             Truncate(p) \/ Write(p) \/ WriteFails(p) \/ Crash(p)
      PROVE  WholeFile'
  BY <1>2, <1>3, <1>4, <1>5 DEF Truncate, Write, WriteFails, Crash
<1>6. CASE \/ \E p \in Procs, k \in EncKeys : Open(p, k)
           \/ \E p \in Procs, k \in Keys, v \in Vals \cup {None} : Change(p, k, v)
           \/ \E p \in Procs : TruncateFails(p)
           \/ UNCHANGED vars
  BY <1>2, <1>6 DEF Open, Change, TruncateFails, vars
<1> QED BY <1>5, <1>6 DEF Next

\* Only NewLocalVault starts a process.
LEMMA OnlyOpenStarts ==
    ASSUME TypeOK, [Next]_vars, NEW p \in Procs,
           proc[p].pc = "closed", proc'[p].pc # "closed"
    PROVE  \E k \in EncKeys : Open(p, k)
<1>0. proc \in [Procs -> Local]
  BY DEF TypeOK
<1>1. ASSUME NEW q \in Procs, NEW r, proc' = [proc EXCEPT ![q] = r]
      PROVE  q = p
  BY <1>0, <1>1
<1>2. ASSUME NEW q \in Procs, NEW k \in EncKeys, Open(q, k)
      PROVE  q = p
  BY <1>1, <1>2 DEF Open
<1>3. ASSUME NEW q \in Procs, proc[q].pc # "closed",
             \/ \E k \in Keys, v \in Vals \cup {None} : Change(q, k, v)
             \/ Truncate(q) \/ Write(q) \/ TruncateFails(q)
             \/ WriteFails(q) \/ Crash(q)
      PROVE  FALSE
  <2>1. proc'[p] = proc[p]
    BY <1>0, <1>3 DEF Change, Truncate, Write, TruncateFails,
         WriteFails, Crash, Returned
  <2> QED BY <2>1
<1>4. CASE UNCHANGED vars
  BY <1>4 DEF vars
<1>5. ASSUME NEW q \in Procs,
             \/ \E k \in Keys, v \in Vals \cup {None} : Change(q, k, v)
             \/ Truncate(q) \/ Write(q) \/ TruncateFails(q)
             \/ WriteFails(q) \/ Crash(q)
      PROVE  proc[q].pc # "closed"
  BY <1>5 DEF Change, Truncate, Write, TruncateFails,
       WriteFails, Crash
<1> QED BY <1>2, <1>3, <1>4, <1>5 DEF Next

\* However many processes truncate and write the file at once, one that comes up
\* has a map that was completely saved, or an empty one over a missing or a
\* truncated file (load).
THEOREM LoadsAreWhole == Spec => LoadsWholeVault
<1>1. Init => WholeFile
  BY DEF Init, WholeFile
<1>2. TypeOK /\ WholeFile /\ [Next]_vars => WholeFile'
  BY WholeFileStep
<1> DEFINE Whole(p) ==
      proc[p].pc = "closed" /\ proc'[p].pc # "closed" =>
          \/ proc'[p].mem \in saved
          \/ proc'[p].mem = Empty /\ file.kind \in {"absent", "empty"}
<1>3. TypeOK /\ WholeFile /\ [Next]_vars
          => [\A p \in Procs : Whole(p)]_vars
  <2> SUFFICES ASSUME TypeOK, WholeFile, [Next]_vars, NEW p \in Procs,
                      proc[p].pc = "closed", proc'[p].pc # "closed"
               PROVE  \/ proc'[p].mem \in saved
                      \/ proc'[p].mem = Empty /\ file.kind \in {"absent", "empty"}
    OBVIOUS
  <2>1. PICK k \in EncKeys : Open(p, k)
    BY OnlyOpenStarts
  <2>2. proc'[p].mem = IF file.kind \in {"plain", "sealed"} THEN file.secrets ELSE Empty
    BY <2>1 DEF Open, TypeOK
  <2>3. file.kind \in {"absent", "empty", "plain", "sealed"}
    BY <2>1 DEF Open, TypeOK, File
  <2> QED BY <2>2, <2>3 DEF WholeFile
<1>4. Spec => []TypeOK
  BY VaultTypeCorrect
<1> QED BY <1>1, <1>2, <1>3, <1>4, PTL DEF Spec, LoadsWholeVault

-----------------------------------------------------------------------------
(* What a migration may lose.                                                *)

\* No process was started over a truncated file (Open resets ok for every key then).
NeverEmptied == \A k \in Keys : last[k].ok

\* Before any change, a process that runs has a map that was saved, or there at first,
\* unless some process was started over a truncated file.
MigrationKeepsUnlessEmptied ==
    ops = 0 /\ NeverEmptied => \A p \in Procs : proc[p].pc # "closed" => proc[p].mem \in saved

\* The same, with what an absent file stands for and what a save is about.
MigrationInv ==
    /\ saved # {} /\ (file.kind = "absent" => Empty \in saved)
    /\ ops = 0 => \A p \in Procs : proc[p].key = None
    /\ MigrationKeepsUnlessEmptied

LEMMA MigrationStep ==
    ASSUME TypeOK, WholeFile, MigrationInv, [Next]_vars PROVE MigrationInv'
<1>0. file \in File /\ proc \in [Procs -> Local] /\ Closed \in Local /\ Closed.pc = "closed" /\ Closed.key = None
  BY ClosedType DEF TypeOK, Closed
<1>1. saved \subseteq saved' /\ (file'.kind = "absent" => file.kind = "absent")
  <2>1. \A kind \in {"empty", "garbage"} :
            [file EXCEPT !.kind = kind, !.secrets = Empty].kind = kind
    BY <1>0 DEF File
  <2>2. saved \subseteq saved'
    BY DEF Next, Open, Change, Truncate, Write, TruncateFails, WriteFails, Crash, vars
  <2>3. \/ file' = file
        \/ \E kind \in {"empty", "garbage"} : file' = [file EXCEPT !.kind = kind, !.secrets = Empty]
        \/ \E p \in Procs : file' = [kind |-> "sealed", secrets |-> proc[p].mem, encKey |-> proc[p].encKey]
    BY DEF Next, Open, Change, Truncate, Write, TruncateFails, WriteFails, Crash, vars
  <2>4. ASSUME NEW p \in Procs,
               file' = [kind |-> "sealed", secrets |-> proc[p].mem, encKey |-> proc[p].encKey]
        PROVE  file'.kind = "sealed"
    BY <2>4
  <2> QED
    BY <2>1, <2>2, <2>3, <2>4
<1>2. ASSUME NEW p \in Procs, NEW r \in Local, proc' = [proc EXCEPT ![p] = r], ops' = ops,
             ops = 0 => r.key = None, NeverEmptied' => NeverEmptied,
             ops = 0 /\ NeverEmptied' /\ r.pc # "closed" => r.mem \in saved'
      PROVE  MigrationInv'
  <2>1. \A q \in Procs : proc'[q] = IF q = p THEN r ELSE proc[q]
    BY <1>0, <1>2
  <2> QED
    BY <1>1, <1>2, <2>1 DEF MigrationInv, MigrationKeepsUnlessEmptied
<1>3. ASSUME NEW p \in Procs, NEW ok \in BOOLEAN, Returned(p, ok), proc[p].pc # "closed", ops' = ops
      PROVE  MigrationInv'
  <2> DEFINE r == IF ~ ok /\ proc[p].key = None THEN Closed
                  ELSE [proc[p] EXCEPT !.pc = "open", !.key = None]
  <2>1. r \in Local /\ r.key = None /\ (r.pc # "closed" => r.mem = proc[p].mem)
    BY <1>0 DEF Local
  <2>2. proc' = [proc EXCEPT ![p] = r] /\ (ops = 0 => last' = last)
    BY <1>3 DEF Returned, MigrationInv
  <2> HIDE DEF r
  <2>3. CASE ops = 0
    BY <1>1, <1>2, <1>3, <2>1, <2>2, <2>3 DEF MigrationInv, MigrationKeepsUnlessEmptied, NeverEmptied
  <2>4. CASE ops # 0
    BY <1>1, <1>3, <2>4 DEF MigrationInv, MigrationKeepsUnlessEmptied
  <2> QED
    BY <2>3, <2>4
<1>4. ASSUME NEW p \in Procs, NEW k \in EncKeys, Open(p, k) PROVE MigrationInv'
  <2> DEFINE r == [pc |-> IF file.kind \in {"absent", "plain"} THEN "truncate" ELSE "open",
                   mem |-> IF file.kind \in {"plain", "sealed"} THEN file.secrets ELSE Empty,
                   encKey |-> k, key |-> None]
  <2>1. r \in Local /\ r.key = None
    BY <1>0, ClosedType DEF Local, File
  <2>2. NeverEmptied' => NeverEmptied
    BY <1>4 DEF Open, NeverEmptied, TypeOK
  <2>3. CASE file.kind = "empty" /\ Keys # {}
    <3>1. ~ NeverEmptied'
      BY <1>4, <2>3 DEF Open, NeverEmptied, TypeOK
    <3> QED
      BY <1>2, <1>4, <2>1, <2>2, <3>1 DEF Open
  <2>4. CASE ~ (file.kind = "empty" /\ Keys # {})
    <3>1. r.mem \in saved \/ (file.kind = "empty" /\ Keys = {})
      BY <1>0, <1>4, <2>4 DEF Open, WholeFile, MigrationInv, File
    <3>2. Keys = {} => \A m \in Secrets : m = Empty
      BY DEF Secrets, Empty
    <3>3. r.mem \in saved
      <4>1. CASE file.kind = "empty" /\ Keys = {}
        BY <3>2, <4>1 DEF MigrationInv, TypeOK
      <4> QED
        BY <3>1, <4>1
    <3> QED
      BY <1>1, <1>2, <1>4, <2>1, <2>2, <3>3 DEF Open
  <2> QED
    BY <2>3, <2>4
<1>5. ASSUME NEW p \in Procs, NEW k \in Keys, NEW v, Change(p, k, v) PROVE MigrationInv'
  BY <1>1, <1>5 DEF Change, MigrationInv, MigrationKeepsUnlessEmptied, TypeOK
<1>6. ASSUME NEW p \in Procs, Truncate(p) PROVE MigrationInv'
  <2> DEFINE r == [proc[p] EXCEPT !.pc = "write"]
  <2>1. r \in Local /\ r.key = proc[p].key /\ r.mem = proc[p].mem
    BY <1>0 DEF Local
  <2>2. proc' = [proc EXCEPT ![p] = r] /\ ops' = ops /\ last' = last /\ proc[p].pc # "closed"
    BY <1>6 DEF Truncate
  <2> HIDE DEF r
  <2> QED
    BY <1>1, <1>2, <2>1, <2>2 DEF MigrationInv, MigrationKeepsUnlessEmptied, NeverEmptied
<1>7. ASSUME NEW p \in Procs, Crash(p) PROVE MigrationInv'
  <2>1. proc' = [proc EXCEPT ![p] = Closed] /\ ops' = ops /\ last' = last
    BY <1>7 DEF Crash
  <2>2. NeverEmptied' => NeverEmptied
    BY <2>1 DEF NeverEmptied
  <2> QED
    BY <1>0, <1>2, <2>1, <2>2
<1>8. ASSUME NEW p \in Procs, Write(p) \/ TruncateFails(p) \/ WriteFails(p) PROVE MigrationInv'
  BY <1>3, <1>8 DEF Write, TruncateFails, WriteFails
<1>9. CASE UNCHANGED vars
  BY <1>9 DEF vars, MigrationInv, MigrationKeepsUnlessEmptied, NeverEmptied
<1> QED
  BY <1>4, <1>5, <1>6, <1>7, <1>8, <1>9 DEF Next

\* "a one-time, transparent migration that never loses secrets" (NewLocalVault): however
\* many processes migrate at once, fail or crash, it loses none unless a process is started
\* over a file that was truncated and not written since.
THEOREM MigrationsLoseOnlyToTruncation == Spec => []MigrationKeepsUnlessEmptied
<1>1. Init => WholeFile /\ MigrationInv
  <2> SUFFICES ASSUME Init PROVE WholeFile /\ MigrationInv
    OBVIOUS
  <2>1. file.kind = "absent" => file.secrets = Empty
    BY FileAssumption DEF Init
  <2>2. \A p \in Procs : proc[p].key = None /\ proc[p].pc = "closed"
    BY DEF Init, Closed
  <2> QED
    BY <2>1, <2>2 DEF Init, WholeFile, MigrationInv, MigrationKeepsUnlessEmptied
<1>2. TypeOK /\ WholeFile /\ MigrationInv /\ [Next]_vars => WholeFile' /\ MigrationInv'
  BY WholeFileStep, MigrationStep
<1>3. MigrationInv => MigrationKeepsUnlessEmptied
  BY DEF MigrationInv
<1> QED
  BY <1>1, <1>2, <1>3, VaultTypeCorrect, PTL DEF Spec
=============================================================================
