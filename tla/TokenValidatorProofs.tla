------------------------ MODULE TokenValidatorProofs ------------------------
(***************************************************************************)
(* The age of the keys ValidateToken uses, for any number of requests,       *)
(* issuers and keys.                                                         *)
(***************************************************************************)
EXTENDS TokenValidator, FiniteSetTheorems, TLAPS

\* The document keys of issuer i is not older than t: what it holds is still
\* published or was withdrawn at t or later, and what is published and not in
\* it was published at t or later.
Since(i, keys, t) ==
    \A kid \in Kids :
        /\ keys[kid] # NoKey => \/ Published(i, keys[kid])
                                \/ \E w \in withdrawn[i] : w.key = keys[kid] /\ w.at >= t
        /\ keys[kid] # jwks[i][kid] => publishedAt[i][kid] >= t

CacheSince ==
    \A i \in Trusted : cache[i] # NoEntry =>
        /\ cache[i].fetchedAt <= now
        /\ \E t \in Nat : t + Timeout >= cache[i].fetchedAt /\ Since(i, cache[i].keys, t)

ProcSince ==
    \A p \in Procs :
        /\ proc[p].startedAt <= now
        /\ proc[p].pc \in {"discovering", "fetching", "fetched"} => proc[p].tok.iss \in Trusted
        /\ proc[p].pc = "fetched" => Since(proc[p].tok.iss, proc[p].keys, proc[p].startedAt)

IInv == TypeOK /\ CacheSince /\ ProcSince

LEMMA IdleProcType ==
    IdleProc \in [pc : {"idle"}, tok : Tokens, keys : KeySet, startedAt : {0}]
BY ValidatorAssumption DEF IdleProc, NoKeys, KeySet

\* The key that decides is one of the document's.
LEMMA SigningKeyFromDocument ==
    ASSUME NEW keys \in KeySet, NEW tok \in Tokens, SigningKey(keys, tok) # NoKey
    PROVE  \E kid \in Kids : keys[kid] = SigningKey(keys, tok)
<1> DEFINE usable == {kid \in Kids : keys[kid] # NoKey}
<1>1. CASE tok.kid # NoKid
  BY <1>1, ValidatorAssumption DEF SigningKey, Token
<1>2. CASE tok.kid = NoKid
  <2>1. Cardinality(usable) = 1 /\ SigningKey(keys, tok) = keys[CHOOSE kid \in usable : TRUE]
    BY <1>2 DEF SigningKey
  <2>2. usable # {}
    BY <2>1, FS_EmptySet
  <2>3. (CHOOSE kid \in usable : TRUE) \in usable
    BY <2>2
  <2> QED BY <2>1, <2>3
<1> QED BY <1>1, <1>2

\* A verdict against a document not older than t is right up to what changed
\* since t.
LEMMA VerdictSince ==
    ASSUME TypeOK, NEW tok \in Tokens, tok.iss \in Trusted, NEW keys \in KeySet,
           NEW t \in Nat, Since(tok.iss, keys, t), now - t < TTL + Timeout
    PROVE  /\ Verdict(keys, tok) = "accepted" =>
                 \/ Published(tok.iss, tok.key)
                 \/ \E w \in withdrawn[tok.iss] : w.key = tok.key /\ now - w.at < TTL + Timeout
           /\ Verdict(keys, tok) = "refused" =>
                 (tok.sound /\ tok.kid # NoKid /\ jwks[tok.iss][tok.kid] = tok.key =>
                    now - publishedAt[tok.iss][tok.kid] < TTL + Timeout)
<1> USE ValidatorAssumption
<1>0. tok \in Token /\ tok.key \in Keys /\ tok.key # NoKey
  BY DEF Token
<1>1. ASSUME Verdict(keys, tok) = "accepted"
      PROVE  \/ Published(tok.iss, tok.key)
             \/ \E w \in withdrawn[tok.iss] : w.key = tok.key /\ now - w.at < TTL + Timeout
  <2>1. SigningKey(keys, tok) = tok.key
    BY <1>1 DEF Verdict
  <2>2. PICK kid \in Kids : keys[kid] = tok.key
    BY <2>1, <1>0, SigningKeyFromDocument
  <2>3. CASE Published(tok.iss, tok.key)
    BY <2>3
  <2>4. CASE \E w \in withdrawn[tok.iss] : w.key = tok.key /\ w.at >= t
    <3>1. PICK w \in withdrawn[tok.iss] : w.key = tok.key /\ w.at >= t
      BY <2>4
    <3>2. w.at \in Nat /\ now \in Nat
      BY DEF TypeOK
    <3>3. now - w.at < TTL + Timeout
      BY <3>1, <3>2
    <3> QED BY <3>1, <3>3
  <2> QED BY <2>2, <2>3, <2>4, <1>0 DEF Since
<1>2. ASSUME Verdict(keys, tok) = "refused", tok.sound, tok.kid # NoKid,
             jwks[tok.iss][tok.kid] = tok.key
      PROVE  now - publishedAt[tok.iss][tok.kid] < TTL + Timeout
  <2>1. tok.kid \in Kids
    BY <1>0, <1>2 DEF Token
  <2>2. keys[tok.kid] # jwks[tok.iss][tok.kid]
    BY <1>2 DEF Verdict, SigningKey
  <2>3. publishedAt[tok.iss][tok.kid] >= t
    BY <2>1, <2>2 DEF Since
  <2>4. publishedAt[tok.iss][tok.kid] \in Nat /\ now \in Nat
    BY <2>1 DEF TypeOK
  <2> QED BY <2>3, <2>4
<1> QED BY <1>1, <1>2

-----------------------------------------------------------------------------
\* A document stays as old as it is when nothing is published or withdrawn ...
LEMMA SinceUnchanged ==
    ASSUME UNCHANGED <<jwks, withdrawn, publishedAt>>, NEW i, NEW keys, NEW t,
           Since(i, keys, t)
    PROVE  Since(i, keys, t)'
BY DEF Since, Published

\* ... and when a key is replaced now.
LEMMA SinceRotate ==
    ASSUME TypeOK, NEW j \in Trusted, NEW kid \in Kids, NEW key \in Keys \cup {NoKey},
           Rotate(j, kid, key),
           NEW i \in Trusted, NEW keys \in KeySet, NEW t \in Nat, t <= now, Since(i, keys, t)
    PROVE  Since(i, keys, t)'
<1> USE ValidatorAssumption
<1> SUFFICES ASSUME NEW n \in Kids
             PROVE  /\ keys[n] # NoKey =>
                          \/ Published(i, keys[n])'
                          \/ \E w \in withdrawn'[i] : w.key = keys[n] /\ w.at >= t
                    /\ keys[n] # jwks'[i][n] => publishedAt'[i][n] >= t
  BY DEF Since
<1>1. ASSUME keys[n] # NoKey
      PROVE  \/ Published(i, keys[n])'
             \/ \E w \in withdrawn'[i] : w.key = keys[n] /\ w.at >= t
  <2>1. withdrawn[i] \subseteq withdrawn'[i]
    BY DEF Rotate, TypeOK
  <2>2. CASE \E w \in withdrawn[i] : w.key = keys[n] /\ w.at >= t
    BY <2>1, <2>2
  <2>3. CASE Published(i, keys[n])
    <3>1. PICK m \in Kids : jwks[i][m] = keys[n]
      BY <2>3 DEF Published
    <3>2. CASE i = j /\ m = kid
      <4>1. [key |-> keys[n], at |-> now] \in withdrawn'[i]
        BY <1>1, <3>1, <3>2 DEF Rotate, TypeOK
      <4> QED BY <4>1
    <3>3. CASE ~ (i = j /\ m = kid)
      <4>1. jwks'[i][m] = jwks[i][m]
        BY <3>3 DEF Rotate, TypeOK, KeySet
      <4> QED BY <3>1, <4>1 DEF Published
    <3> QED BY <3>2, <3>3
  <2> QED BY <1>1, <2>2, <2>3 DEF Since
<1>2. ASSUME keys[n] # jwks'[i][n]
      PROVE  publishedAt'[i][n] >= t
  <2>1. CASE i = j /\ n = kid
    <3>1. publishedAt'[i][n] = now
      BY <2>1 DEF Rotate, TypeOK
    <3> QED BY <3>1 DEF TypeOK
  <2>2. CASE ~ (i = j /\ n = kid)
    <3>1. jwks'[i][n] = jwks[i][n] /\ publishedAt'[i][n] = publishedAt[i][n]
      BY <2>2 DEF Rotate, TypeOK, KeySet
    <3> QED BY <1>2, <3>1 DEF Since
  <2> QED BY <2>1, <2>2
<1> QED BY <1>1, <1>2

\* What a request has just been answered is as new as its fetch.
LEMMA SinceNow ==
    ASSUME NEW i, NEW t PROVE Since(i, jwks[i], t)
BY DEF Since, Published

-----------------------------------------------------------------------------
LEMMA InitIInv == Init => IInv
<1> SUFFICES ASSUME Init PROVE IInv
  OBVIOUS
<1> USE ValidatorAssumption
<1>1. TypeOK
  <2>1. \A p \in Procs : proc[p] \in [pc : {"idle", "discovering", "fetching", "fetched",
                                             "accepted", "refused", "failed"},
                                      tok : Tokens, keys : KeySet, startedAt : Nat]
    BY IdleProcType DEF Init
  <2> QED BY <2>1 DEF Init, TypeOK
<1>2. CacheSince
  BY DEF Init, CacheSince
<1>3. ProcSince
  BY IdleProcType DEF Init, ProcSince
<1> QED BY <1>1, <1>2, <1>3 DEF IInv

\* The type of a request that has been decided.
LEMMA DecideType ==
    ASSUME TypeOK, NEW p \in Procs, NEW tok \in Tokens,
           NEW v \in {"accepted", "refused", "failed"}, Decide(p, v, tok)
    PROVE  /\ proc' \in [Procs -> [pc : {"idle", "discovering", "fetching", "fetched",
                                         "accepted", "refused", "failed"},
                                   tok : Tokens, keys : KeySet, startedAt : Nat]]
           /\ proc'[p].startedAt = 0 /\ proc'[p].pc = v /\ proc'[p].tok = tok
           /\ \A q \in Procs \ {p} : proc'[q] = proc[q]
BY DEF Decide, TypeOK, NoKeys, KeySet

LEMMA VerdictType ==
    ASSUME NEW keys, NEW tok PROVE Verdict(keys, tok) \in {"accepted", "refused", "failed"}
BY DEF Verdict

LEMMA NextTypeOK == TypeOK /\ ProcSince /\ [Next]_vars => TypeOK'
<1> SUFFICES ASSUME TypeOK, ProcSince, [Next]_vars PROVE TypeOK'
  OBVIOUS
<1> USE ValidatorAssumption
<1>1. ASSUME NEW p \in Procs, NEW tok \in Tokens, Untrusted(p, tok) PROVE TypeOK'
  BY <1>1, DecideType DEF Untrusted, TypeOK
<1>2. ASSUME NEW p \in Procs, NEW tok \in Tokens, CacheHit(p, tok) PROVE TypeOK'
  BY <1>2, DecideType, VerdictType DEF CacheHit, TypeOK
<1>3. ASSUME NEW p \in Procs, NEW tok \in Tokens, CacheMiss(p, tok) PROVE TypeOK'
  BY <1>3 DEF CacheMiss, TypeOK
<1>4. ASSUME NEW p \in Procs, Discovered(p) PROVE TypeOK'
  BY <1>4 DEF Discovered, TypeOK
<1>5. ASSUME NEW p \in Procs, Answered(p) PROVE TypeOK'
  BY <1>5 DEF Answered, TypeOK, ProcSince
<1>6. ASSUME NEW p \in Procs, Store(p) PROVE TypeOK'
  <2> DEFINE tok == proc[p].tok
  <2>1. tok \in Tokens /\ tok.iss \in Trusted /\ proc[p].keys \in KeySet
    BY <1>6 DEF Store, TypeOK, ProcSince
  <2>2. cache' \in [Trusted -> Entry \cup {NoEntry}]
    BY <1>6, <2>1 DEF Store, TypeOK, Entry
  <2> QED BY <1>6, <2>1, <2>2, DecideType, VerdictType DEF Store, TypeOK
<1>7. ASSUME NEW p \in Procs, FetchFails(p) PROVE TypeOK'
  <2>1. proc[p].tok \in Tokens
    BY DEF TypeOK
  <2> QED BY <1>7, <2>1, DecideType DEF FetchFails, TypeOK
<1>8. ASSUME NEW p \in Procs, Return(p) PROVE TypeOK'
  BY <1>8, IdleProcType DEF Return, TypeOK
<1>9. ASSUME NEW i \in Trusted, NEW kid \in Kids, NEW key \in Keys \cup {NoKey},
             Rotate(i, kid, key)
      PROVE TypeOK'
  <2>1. jwks[i][kid] = NoKey \/ [key |-> jwks[i][kid], at |-> now] \in [key : Keys, at : Nat]
    BY DEF TypeOK, KeySet
  <2>2. withdrawn' \in [Trusted -> SUBSET [key : Keys, at : Nat]]
    BY <1>9, <2>1 DEF Rotate, TypeOK
  <2> QED BY <1>9, <2>2 DEF Rotate, TypeOK, KeySet
<1>10. CASE Tick
  BY <1>10 DEF Tick, TypeOK
<1>11. CASE UNCHANGED vars
  BY <1>11 DEF vars, TypeOK
<1> QED BY <1>1, <1>2, <1>3, <1>4, <1>5, <1>6, <1>7, <1>8, <1>9, <1>10, <1>11 DEF Next


\* Nothing is published or withdrawn and no entry changes.
LEMMA CacheSinceUnchanged ==
    ASSUME TypeOK, CacheSince, now' \in Nat, now <= now',
           UNCHANGED <<jwks, withdrawn, publishedAt, cache>>
    PROVE  CacheSince'
<1> SUFFICES ASSUME NEW i \in Trusted, cache'[i] # NoEntry
             PROVE  /\ cache'[i].fetchedAt <= now'
                    /\ \E t \in Nat : t + Timeout >= cache'[i].fetchedAt
                                      /\ Since(i, cache[i].keys, t)'
  BY DEF CacheSince
<1>1. cache[i] \in Entry
  BY DEF TypeOK
<1>2. cache[i].fetchedAt \in Nat /\ cache[i].fetchedAt <= now /\ now \in Nat
  BY <1>1 DEF CacheSince, Entry, TypeOK
<1>3. PICK t \in Nat : t + Timeout >= cache[i].fetchedAt /\ Since(i, cache[i].keys, t)
  BY DEF CacheSince
<1>4. Since(i, cache[i].keys, t)'
  <2> DEFINE keys == cache[i].keys
  <2>1. keys' = keys
    OBVIOUS
  <2>2. Since(i, keys, t)
    BY <1>3
  <2> QED BY <2>1, <2>2 DEF Since, Published
<1> QED BY <1>2, <1>3, <1>4

LEMMA NextCacheSince == IInv /\ [Next]_vars => CacheSince'
<1> SUFFICES ASSUME IInv, [Next]_vars PROVE CacheSince'
  OBVIOUS
<1> USE ValidatorAssumption DEF IInv
<1>1. ASSUME NEW p \in Procs, Store(p) PROVE CacheSince'
  <2>i. PICK i \in Trusted, t \in Nat, keys \in KeySet :
            i = proc[p].tok.iss /\ t = proc[p].startedAt /\ keys = proc[p].keys
    BY <1>1 DEF Store, ProcSince, TypeOK
  <2>1. t <= now /\ now \in Nat /\ now' = now /\ Since(i, keys, t)
    BY <1>1, <2>i DEF Store, ProcSince, TypeOK
  <2>2. now - t <= Timeout
    BY <1>1, <2>i DEF Store
  <2>3. /\ cache'[i] = [keys |-> keys, fetchedAt |-> now]
        /\ \A j \in Trusted \ {i} : cache'[j] = cache[j]
    BY <1>1, <2>i DEF Store, TypeOK
  <2> SUFFICES ASSUME NEW j \in Trusted, cache'[j] # NoEntry
               PROVE  /\ cache'[j].fetchedAt <= now'
                      /\ \E u \in Nat : u + Timeout >= cache'[j].fetchedAt
                                        /\ Since(j, cache[j].keys, u)'
    BY DEF CacheSince
  <2>4. CASE j = i
    <3>1. t + Timeout >= now
      BY <2>1, <2>2
    <3>2. cache'[j].keys = keys /\ cache'[j].fetchedAt = now
      BY <2>3, <2>4
    <3>3. Since(j, cache[j].keys, t)'
      <4>1. UNCHANGED <<jwks, withdrawn, publishedAt>>
        BY <1>1 DEF Store
      <4> QED BY <4>1, <3>2, <2>1, <2>4 DEF Since, Published
    <3> QED BY <2>1, <3>1, <3>2, <3>3
  <2>5. CASE j # i
    <3>1. cache'[j] = cache[j]
      BY <2>3, <2>5
    <3>2. PICK u \in Nat : u + Timeout >= cache[j].fetchedAt /\ Since(j, cache[j].keys, u)
      BY <3>1 DEF CacheSince
    <3>3. Since(j, cache[j].keys, u)'
      BY <1>1, <3>1, <3>2 DEF Store, Since, Published
    <3>4. cache[j].fetchedAt <= now
      BY <3>1 DEF CacheSince
    <3> QED BY <2>1, <3>1, <3>2, <3>3, <3>4
  <2> QED BY <2>4, <2>5
<1>2. ASSUME NEW j \in Trusted, NEW kid \in Kids, NEW key \in Keys \cup {NoKey},
             Rotate(j, kid, key)
      PROVE CacheSince'
  <2> SUFFICES ASSUME NEW i \in Trusted, cache'[i] # NoEntry
               PROVE  /\ cache'[i].fetchedAt <= now'
                      /\ \E u \in Nat : u + Timeout >= cache'[i].fetchedAt
                                        /\ Since(i, cache[i].keys, u)'
    BY DEF CacheSince
  <2>1. cache' = cache /\ now' = now /\ now \in Nat
    BY <1>2 DEF Rotate, TypeOK
  <2>2. cache[i] \in Entry /\ cache[i].fetchedAt \in Nat /\ cache[i].keys \in KeySet
        /\ cache[i].fetchedAt <= now
    BY <2>1 DEF TypeOK, Entry, CacheSince
  <2>3. PICK u \in Nat : u + Timeout >= cache[i].fetchedAt /\ Since(i, cache[i].keys, u)
    BY <2>1 DEF CacheSince
  <2>4. PICK v \in Nat : v <= now /\ v <= u /\ v + Timeout >= cache[i].fetchedAt
    <3>1. CASE u <= now
      BY <3>1, <2>3
    <3>2. CASE u > now
      BY <3>2, <2>1, <2>2
    <3> QED BY <3>1, <3>2, <2>1
  <2>5. Since(i, cache[i].keys, v)
    <3>1. SUFFICES ASSUME NEW n \in Kids
                   PROVE  /\ cache[i].keys[n] # NoKey =>
                                \/ Published(i, cache[i].keys[n])
                                \/ \E w \in withdrawn[i] : w.key = cache[i].keys[n] /\ w.at >= v
                          /\ cache[i].keys[n] # jwks[i][n] => publishedAt[i][n] >= v
      BY DEF Since
    <3>2. \A w \in withdrawn[i] : w.at \in Nat /\ (w.at >= u => w.at >= v)
      BY <2>4 DEF TypeOK
    <3>3. publishedAt[i][n] \in Nat /\ (publishedAt[i][n] >= u => publishedAt[i][n] >= v)
      BY <2>4 DEF TypeOK
    <3> QED BY <2>3, <3>2, <3>3 DEF Since
  <2>6. \A keys \in KeySet : Since(i, keys, v) => Since(i, keys, v)'
    BY <1>2, <2>4, SinceRotate
  <2>7. Since(i, cache[i].keys, v)'
    <3> DEFINE keys == cache[i].keys
    <3>1. keys \in KeySet /\ Since(i, keys, v)
      BY <2>2, <2>5
    <3>2. PICK d \in KeySet : d = keys
      BY <3>1
    <3>3. Since(i, d, v)'
      BY <3>1, <3>2, <2>6
    <3>4. d = keys'
      BY <3>2, <2>1
    <3> QED BY <3>3, <3>4
  <2> QED BY <2>1, <2>2, <2>4, <2>7
<1>3. CASE Tick
  <2>1. now' \in Nat /\ now <= now' /\ UNCHANGED <<jwks, withdrawn, publishedAt, cache>>
    BY <1>3 DEF Tick, TypeOK
  <2> QED BY <2>1, CacheSinceUnchanged
<1>4. ASSUME UNCHANGED <<now, jwks, withdrawn, publishedAt, cache>> PROVE CacheSince'
  <2>1. now' \in Nat /\ now <= now'
    BY <1>4 DEF TypeOK
  <2> QED BY <1>4, <2>1, CacheSinceUnchanged
<1> QED
  BY <1>1, <1>2, <1>3, <1>4
     DEF Next, vars, Untrusted, CacheHit, CacheMiss, Discovered, Answered, FetchFails, Return


LEMMA NextProcSince == IInv /\ [Next]_vars => ProcSince'
<1> SUFFICES ASSUME IInv, [Next]_vars PROVE ProcSince'
  OBVIOUS
<1> USE ValidatorAssumption DEF IInv
<1> SUFFICES ASSUME NEW q \in Procs
             PROVE  /\ proc'[q].startedAt <= now'
                    /\ proc'[q].pc \in {"discovering", "fetching", "fetched"} =>
                          proc'[q].tok.iss \in Trusted
                    /\ proc'[q].pc = "fetched" =>
                          Since(proc[q].tok.iss, proc[q].keys, proc[q].startedAt)'
  BY DEF ProcSince
<1> DEFINE Goal == /\ proc'[q].startedAt <= now'
                   /\ proc'[q].pc \in {"discovering", "fetching", "fetched"} =>
                          proc'[q].tok.iss \in Trusted
                   /\ proc'[q].pc = "fetched" =>
                          Since(proc[q].tok.iss, proc[q].keys, proc[q].startedAt)'
<1>0. proc[q].startedAt \in Nat /\ now \in Nat /\ now' \in Nat /\ now <= now'
  <2>1. proc[q].startedAt \in Nat /\ now \in Nat
    BY DEF TypeOK
  <2>2. CASE Tick
    BY <2>1, <2>2 DEF Tick
  <2>3. CASE UNCHANGED now
    BY <2>1, <2>3
  <2> QED BY <2>1, <2>2, <2>3
             DEF Next, vars, Untrusted, CacheHit, CacheMiss, Discovered, Answered, Store,
                 FetchFails, Return, Rotate
<1>a. ASSUME proc'[q] = proc[q], UNCHANGED <<jwks, withdrawn, publishedAt>> PROVE Goal
  <2>1. proc[q].pc = "fetched" => Since(proc[q].tok.iss, proc[q].keys, proc[q].startedAt)'
    BY <1>a DEF ProcSince, Since, Published
  <2> QED BY <1>0, <1>a, <2>1 DEF ProcSince
<1>b. ASSUME proc'[q].pc \in {"idle", "accepted", "refused", "failed"}, proc'[q].startedAt = 0
      PROVE Goal
  BY <1>0, <1>b
<1>1. ASSUME NEW p \in Procs, NEW tok \in Tokens, Untrusted(p, tok) PROVE Goal
  BY <1>1, <1>a, <1>b, DecideType DEF Untrusted
<1>2. ASSUME NEW p \in Procs, NEW tok \in Tokens, CacheHit(p, tok) PROVE Goal
  BY <1>2, <1>a, <1>b, DecideType, VerdictType DEF CacheHit
<1>3. ASSUME NEW p \in Procs, NEW tok \in Tokens, CacheMiss(p, tok) PROVE Goal
  <2>1. CASE p = q
    BY <1>0, <1>3, <2>1 DEF CacheMiss, TypeOK, ProcSince
  <2>2. CASE p # q
    BY <1>3, <1>a, <2>2 DEF CacheMiss, TypeOK
  <2> QED BY <2>1, <2>2
<1>4. ASSUME NEW p \in Procs, Discovered(p) PROVE Goal
  <2>1. CASE p = q
    BY <1>0, <1>4, <2>1 DEF Discovered, TypeOK, ProcSince
  <2>2. CASE p # q
    BY <1>4, <1>a, <2>2 DEF Discovered, TypeOK
  <2> QED BY <2>1, <2>2
<1>5. ASSUME NEW p \in Procs, Answered(p) PROVE Goal
  <2>1. CASE p = q
    <3>1. /\ proc'[q].startedAt = proc[q].startedAt /\ proc'[q].tok = proc[q].tok
          /\ proc'[q].pc = "fetched" /\ proc'[q].keys = jwks[proc[q].tok.iss]
          /\ proc[q].tok.iss \in Trusted /\ UNCHANGED <<jwks, withdrawn, publishedAt>>
      BY <1>5, <2>1 DEF Answered, TypeOK, ProcSince
    <3>2. Since(proc[q].tok.iss, proc[q].keys, proc[q].startedAt)'
      BY <3>1 DEF Since, Published
    <3> QED BY <1>0, <3>1, <3>2 DEF ProcSince
  <2>2. CASE p # q
    BY <1>5, <1>a, <2>2 DEF Answered, TypeOK
  <2> QED BY <2>1, <2>2
<1>6. ASSUME NEW p \in Procs, Store(p) PROVE Goal
  <2>1. proc[p].tok \in Tokens
    BY DEF TypeOK
  <2> QED BY <1>6, <1>a, <1>b, <2>1, DecideType, VerdictType DEF Store
<1>7. ASSUME NEW p \in Procs, FetchFails(p) PROVE Goal
  <2>1. proc[p].tok \in Tokens
    BY DEF TypeOK
  <2> QED BY <1>7, <1>a, <1>b, <2>1, DecideType DEF FetchFails
<1>8. ASSUME NEW p \in Procs, Return(p) PROVE Goal
  BY <1>8, <1>a, <1>b, IdleProcType DEF Return, TypeOK
<1>9. ASSUME NEW j \in Trusted, NEW kid \in Kids, NEW key \in Keys \cup {NoKey},
             Rotate(j, kid, key)
      PROVE Goal
  <2>1. proc' = proc /\ now' = now
    BY <1>9 DEF Rotate
  <2>2. ASSUME proc[q].pc = "fetched"
        PROVE  Since(proc[q].tok.iss, proc[q].keys, proc[q].startedAt)'
    <3>1. PICK i \in Trusted, t \in Nat, keys \in KeySet :
              /\ i = proc[q].tok.iss /\ t = proc[q].startedAt /\ keys = proc[q].keys
              /\ t <= now /\ Since(i, keys, t)
      BY <2>2 DEF ProcSince, TypeOK
    <3>2. Since(i, keys, t)'
      BY <1>9, <3>1, SinceRotate
    <3>3. i = proc'[q].tok.iss /\ t = proc'[q].startedAt /\ keys = proc'[q].keys
      BY <2>1, <3>1
    <3> QED BY <3>2, <3>3
  <2> QED BY <1>0, <2>1, <2>2 DEF ProcSince
<1>10. CASE Tick
  BY <1>10, <1>a DEF Tick
<1>11. CASE UNCHANGED vars
  BY <1>11, <1>a DEF vars
<1> QED BY <1>1, <1>2, <1>3, <1>4, <1>5, <1>6, <1>7, <1>8, <1>9, <1>10, <1>11 DEF Next

LEMMA InductiveInvariant == Spec => []IInv
<1>1. IInv /\ [Next]_vars => IInv'
  BY NextTypeOK, NextCacheSince, NextProcSince DEF IInv
<1> QED BY InitIInv, <1>1, PTL DEF Spec

-----------------------------------------------------------------------------
\* The two ways to a verdict: a document from the cache, or one just fetched.
LEMMA DecidedSince ==
    ASSUME IInv, [Next]_vars, NEW p \in Procs, NEW v \in {"accepted", "refused"},
           Decides(p, v)
    PROVE  \E keys \in KeySet, t \in Nat :
              /\ proc'[p].tok \in Tokens /\ proc'[p].tok.iss \in Trusted
              /\ Since(proc'[p].tok.iss, keys, t) /\ now - t < TTL + Timeout
              /\ v = Verdict(keys, proc'[p].tok)
<1> USE ValidatorAssumption DEF IInv
<1>1. CASE \E tok \in Tokens : CacheHit(p, tok)
  <2>1. PICK tok \in Tokens : CacheHit(p, tok)
    BY <1>1
  <2>2. /\ tok.iss \in Trusted /\ cache[tok.iss] \in Entry /\ now \in Nat
        /\ now - cache[tok.iss].fetchedAt < TTL
    BY <2>1 DEF CacheHit, Fresh, TypeOK
  <2>3. proc'[p].tok = tok /\ proc'[p].pc = Verdict(cache[tok.iss].keys, tok)
    BY <2>1, DecideType, VerdictType DEF CacheHit
  <2>4. PICK t \in Nat : /\ t + Timeout >= cache[tok.iss].fetchedAt
                         /\ Since(tok.iss, cache[tok.iss].keys, t)
    BY <2>2 DEF CacheSince, Entry
  <2>5. now - t < TTL + Timeout
    BY <2>2, <2>4 DEF Entry
  <2>6. cache[tok.iss].keys \in KeySet
    BY <2>2 DEF Entry
  <2> QED BY <2>2, <2>3, <2>4, <2>5, <2>6 DEF Decides
<1>2. CASE Store(p)
  <2>1. /\ proc[p].tok \in Tokens /\ proc[p].tok.iss \in Trusted /\ proc[p].keys \in KeySet
        /\ proc[p].startedAt \in Nat /\ now \in Nat /\ now - proc[p].startedAt <= Timeout
        /\ Since(proc[p].tok.iss, proc[p].keys, proc[p].startedAt)
    BY <1>2 DEF Store, TypeOK, ProcSince
  <2>2. proc'[p].tok = proc[p].tok /\ proc'[p].pc = Verdict(proc[p].keys, proc[p].tok)
    BY <1>2, <2>1, DecideType, VerdictType DEF Store
  <2>3. now - proc[p].startedAt < TTL + Timeout
    BY <2>1
  <2> QED BY <2>1, <2>2, <2>3 DEF Decides
<1>3. (\E tok \in Tokens : CacheHit(p, tok)) \/ Store(p)
  <2> SUFFICES ASSUME ~ \E tok \in Tokens : CacheHit(p, tok), ~ Store(p)
               PROVE  FALSE
    OBVIOUS
  <2>0. proc'[p].pc = v /\ proc[p].pc # v
    BY DEF Decides
  <2>1. ASSUME NEW q \in Procs, NEW tok \in Tokens, Untrusted(q, tok) PROVE FALSE
    BY <2>0, <2>1, DecideType DEF Untrusted
  <2>2. ASSUME NEW q \in Procs, NEW tok \in Tokens, CacheHit(q, tok) PROVE FALSE
    BY <2>0, <2>2, DecideType, VerdictType DEF CacheHit
  <2>3. ASSUME NEW q \in Procs, NEW tok \in Tokens, CacheMiss(q, tok) PROVE FALSE
    BY <2>0, <2>3 DEF CacheMiss, TypeOK
  <2>4. ASSUME NEW q \in Procs, Discovered(q) PROVE FALSE
    BY <2>0, <2>4 DEF Discovered, TypeOK
  <2>5. ASSUME NEW q \in Procs, Answered(q) PROVE FALSE
    BY <2>0, <2>5 DEF Answered, TypeOK
  <2>6. ASSUME NEW q \in Procs, Store(q) PROVE FALSE
    <3>1. proc[q].tok \in Tokens
      BY DEF TypeOK
    <3>2. q # p
      BY <2>6
    <3>3. proc'[p] = proc[p]
      BY <2>6, <3>1, <3>2, DecideType, VerdictType DEF Store
    <3> QED BY <2>0, <3>3
  <2>7. ASSUME NEW q \in Procs, FetchFails(q) PROVE FALSE
    <3>1. proc[q].tok \in Tokens
      BY DEF TypeOK
    <3> QED BY <2>0, <2>7, <3>1, DecideType DEF FetchFails
  <2>8. ASSUME NEW q \in Procs, Return(q) PROVE FALSE
    BY <2>0, <2>8, IdleProcType DEF Return, TypeOK
  <2>9. CASE UNCHANGED proc
    BY <2>0, <2>9
  <2> QED BY <2>1, <2>2, <2>3, <2>4, <2>5, <2>6, <2>7, <2>8, <2>9 DEF Next, vars, Rotate, Tick
<1> QED BY <1>1, <1>2, <1>3

-----------------------------------------------------------------------------
\* ValidateToken's state keeps its types: the clock, the cached documents and
\* the requests under way (Validator, jwksCacheEntry).
THEOREM TypeCorrect == Spec => []TypeOK
BY InductiveInvariant, PTL DEF IInv

\* A key that its issuer has withdrawn stops being accepted by ValidateToken
\* after jwksCacheTTL and one HTTP timeout, whatever fetches overlap.
THEOREM RevokedKeysAreRefused == Spec => RevokedKeysExpire
<1>1. ASSUME IInv, [Next]_vars, NEW p \in Procs, Decides(p, "accepted")
      PROVE  \/ Published(proc'[p].tok.iss, proc'[p].tok.key)
             \/ \E w \in withdrawn[proc'[p].tok.iss] :
                    w.key = proc'[p].tok.key /\ now - w.at < TTL + Timeout
  BY <1>1, DecidedSince, VerdictSince DEF IInv
<1>2. IInv /\ [Next]_vars =>
        [\A p \in Procs : Decides(p, "accepted") =>
            LET i == proc'[p].tok.iss  k == proc'[p].tok.key
            IN \/ Published(i, k)
               \/ \E w \in withdrawn[i] : w.key = k /\ now - w.at < TTL + Timeout]_vars
  BY <1>1
<1> QED BY InductiveInvariant, <1>2, PTL DEF Spec, RevokedKeysExpire

\* A key that its issuer has published for jwksCacheTTL and one HTTP timeout is
\* known to ValidateToken unless the fetch itself fails.
THEOREM PublishedKeysAreUsed == Spec => NewKeysArrive
<1>1. ASSUME IInv, [Next]_vars, NEW p \in Procs, Decides(p, "refused")
      PROVE  LET tok == proc'[p].tok
             IN tok.sound /\ tok.kid # NoKid /\ jwks[tok.iss][tok.kid] = tok.key =>
                   now - publishedAt[tok.iss][tok.kid] < TTL + Timeout
  BY <1>1, DecidedSince, VerdictSince DEF IInv
<1>2. IInv /\ [Next]_vars =>
        [\A p \in Procs : Decides(p, "refused") =>
            LET tok == proc'[p].tok
            IN tok.sound /\ tok.kid # NoKid /\ jwks[tok.iss][tok.kid] = tok.key =>
                  now - publishedAt[tok.iss][tok.kid] < TTL + Timeout]_vars
  BY <1>1
<1> QED BY InductiveInvariant, <1>2, PTL DEF Spec, NewKeysArrive
=============================================================================
