-------------------------- MODULE TransportProofs --------------------------
(***************************************************************************)
(* What stands before the tools/call pipeline.  The rate limiter implements  *)
(* TokenBucket and bounds the rate, for any addresses, burst and time, as    *)
(* long as a bucket refills within visitorTTL.  The table of sessions stays  *)
(* within its limit and leaks nothing, and a request acts with the rights of *)
(* the session it was sent to, for any streams, posts and tokens.            *)
(***************************************************************************)
EXTENDS RateLimiter, Sessions, FiniteSetTheorems, TLAPS

-----------------------------------------------------------------------------
(* The rate limiter.                                                         *)

\* Buckets are never overfull and never from the future.
BucketsOK ==
    \A ip \in IPs : visitors[ip] # NoBucket =>
        visitors[ip].tokens <= Burst /\ visitors[ip].last <= now

TypeInv ==
    /\ now \in Nat
    /\ visitors \in [IPs -> Bucket \cup {NoBucket}]
    /\ sweep \in Nat \cup {NoSweep}
    /\ sweep # NoSweep => sweep <= now
    /\ verdict \in Verdict
    /\ since \in Nat /\ since <= now
    /\ granted \in [IPs -> Nat]
    /\ BucketsOK

\* The map and the clock keep their types; a sweep's cutoff, a bucket's last
\* use and an observation are never later than now (allow, startEvictionSweeper).
THEOREM TypeCorrect == Spec => []TypeInv
<1> USE LimiterAssumption, NoBucketAssumption
<1>1. Init => TypeInv
  BY DEF Init, TypeInv, BucketsOK, Verdict
<1>2. TypeInv /\ [Next]_vars => TypeInv'
  <2> SUFFICES ASSUME TypeInv, [Next]_vars PROVE TypeInv'
    OBVIOUS
  <2>1. ASSUME NEW ip \in IPs, Allow(ip) PROVE TypeInv'
    <3> DEFINE t == IF visitors[ip] = NoBucket THEN Burst ELSE Refilled(ip)
    <3>1. t \in Nat /\ t <= Burst
      BY DEF TypeInv, BucketsOK, Refilled, Bucket
    <3>2. visitors' = [visitors EXCEPT ![ip] =
                [tokens |-> IF t >= Token THEN t - Token ELSE t, last |-> now]]
      BY <2>1 DEF Allow
    <3>3. visitors' \in [IPs -> Bucket \cup {NoBucket}] /\ BucketsOK'
      <4> HIDE DEF t
      <4>1. [tokens |-> IF t >= Token THEN t - Token ELSE t, last |-> now] \in Bucket
        BY <3>1 DEF TypeInv, Bucket
      <4>2. (IF t >= Token THEN t - Token ELSE t) <= Burst
        BY <3>1
      <4>3. now' = now
        BY <2>1 DEF Allow
      <4> QED BY <3>2, <4>1, <4>2, <4>3 DEF TypeInv, BucketsOK, Bucket
    <3>4. granted' \in [IPs -> Nat]
      BY <2>1 DEF Allow, TypeInv
    <3> QED BY <2>1, <3>3, <3>4 DEF Allow, TypeInv, Verdict
  <2>2. CASE SweepStart
    BY <2>2 DEF SweepStart, TypeInv, BucketsOK
  <2>3. CASE Sweep
    BY <2>3 DEF Sweep, TypeInv, BucketsOK
  <2>4. CASE Tick
    BY <2>4 DEF Tick, TypeInv, BucketsOK, Bucket
  <2>5. CASE Observe
    BY <2>5 DEF Observe, TypeInv, BucketsOK
  <2>6. CASE UNCHANGED vars
    BY <2>6 DEF vars, TypeInv, BucketsOK
  <2> QED BY <2>1, <2>2, <2>3, <2>4, <2>5, <2>6 DEF Next
<1> QED BY <1>1, <1>2, PTL DEF Spec

-----------------------------------------------------------------------------
LEMMA LevelType ==
    ASSUME TypeInv PROVE Level \in [IPs -> Nat] /\ \A ip \in IPs : Level[ip] <= Burst
BY LimiterAssumption DEF TypeInv, BucketsOK, Level, Refilled, Bucket

\* A request changes no other address's level.
LEMMA AllowLevel ==
    ASSUME TypeInv, NEW ip \in IPs, Allow(ip)
    PROVE  /\ Level' = [Level EXCEPT ![ip] = IF @ >= Token THEN @ - Token ELSE @]
           /\ verdict' = [ip |-> ip, ok |-> Level[ip] >= Token]
           /\ granted' = [granted EXCEPT ![ip] = IF Level[ip] >= Token THEN @ + Token ELSE @]
<1> USE LimiterAssumption, NoBucketAssumption
<1>1. Level[ip] = IF visitors[ip] = NoBucket THEN Burst ELSE Refilled(ip)
  BY DEF Level
<1>2. Level[ip] \in Nat /\ Level[ip] <= Burst
  BY LevelType
<1>3. /\ visitors' = [visitors EXCEPT ![ip] =
               [tokens |-> IF Level[ip] >= Token THEN Level[ip] - Token ELSE Level[ip],
                last |-> now]]
      /\ now' = now
      /\ verdict' = [ip |-> ip, ok |-> Level[ip] >= Token]
      /\ granted' = [granted EXCEPT ![ip] = IF Level[ip] >= Token THEN @ + Token ELSE @]
  BY <1>1 DEF Allow
<1>4. Level'[ip] = IF Level[ip] >= Token THEN Level[ip] - Token ELSE Level[ip]
  <2> DEFINE n == IF Level[ip] >= Token THEN Level[ip] - Token ELSE Level[ip]
  <2>1. n \in Nat /\ n <= Burst
    BY <1>2
  <2>2. visitors'[ip] = [tokens |-> n, last |-> now] /\ visitors'[ip] \in Bucket
    BY <1>2, <1>3, <2>1 DEF TypeInv, Bucket
  <2>3. Level'[ip] = IF n + (now - now) > Burst THEN Burst ELSE n + (now - now)
    <3> HIDE DEF n
    <3> QED BY <1>3, <2>2 DEF Level, Refilled
  <2> HIDE DEF n
  <2>4. Level'[ip] = n
    BY <2>1, <2>3 DEF TypeInv
  <2> QED BY <2>4 DEF n
<1>5. ASSUME NEW q \in IPs, q # ip PROVE Level'[q] = Level[q]
  BY <1>3, <1>5 DEF Level, Refilled, TypeInv
<1> QED BY <1>3, <1>4, <1>5 DEF Level

\* What the sweep deletes had refilled.
LEMMA SweepLevel ==
    ASSUME TypeInv, Sweep PROVE Level' = Level
<1> USE LimiterAssumption, NoBucketAssumption
<1> SUFFICES ASSUME NEW ip \in IPs PROVE Level'[ip] = Level[ip]
  BY DEF Level
<1>1. CASE visitors[ip] # NoBucket /\ visitors[ip].last + TTL < sweep
  <2>1. visitors'[ip] = NoBucket
    BY <1>1 DEF Sweep
  <2>2. visitors[ip].tokens \in Nat /\ visitors[ip].last \in Nat
    BY <1>1 DEF TypeInv, Bucket
  <2>3. sweep \in Nat /\ sweep <= now /\ now \in Nat
    BY DEF Sweep, TypeInv
  <2>4. Refilled(ip) = Burst
    BY <1>1, <2>2, <2>3 DEF Refilled
  <2> QED BY <1>1, <2>1, <2>4 DEF Level
<1>2. CASE ~ (visitors[ip] # NoBucket /\ visitors[ip].last + TTL < sweep)
  <2>1. visitors'[ip] = visitors[ip] /\ now' = now
    BY <1>2 DEF Sweep
  <2> QED BY <2>1 DEF Level, Refilled
<1> QED BY <1>1, <1>2

LEMMA TickLevel ==
    ASSUME TypeInv, Tick
    PROVE  Level' = [ip \in IPs |-> IF Level[ip] < Burst THEN Level[ip] + 1 ELSE Burst]
<1> USE LimiterAssumption, NoBucketAssumption
<1> SUFFICES ASSUME NEW ip \in IPs
             PROVE  Level'[ip] = IF Level[ip] < Burst THEN Level[ip] + 1 ELSE Burst
  BY DEF Level
<1>1. CASE visitors[ip] = NoBucket
  BY <1>1 DEF Level, Tick
<1>2. CASE visitors[ip] # NoBucket
  <2>1. /\ visitors[ip].tokens \in Nat /\ visitors[ip].tokens <= Burst
        /\ visitors[ip].last \in Nat /\ visitors[ip].last <= now /\ now \in Nat
    BY <1>2 DEF TypeInv, Bucket, BucketsOK
  <2>2. visitors' = visitors /\ now' = now + 1
    BY DEF Tick
  <2> QED BY <1>2, <2>1, <2>2 DEF Level, Refilled
<1> QED BY <1>1, <1>2

-----------------------------------------------------------------------------
\* The sweep is invisible: allow answers as TokenBucket says, which has no sweep.
THEOREM LimiterImplementsBucket == Spec => ImplementsTokenBucket
<1>1. Init => Abstract!Init
  BY DEF Init, Abstract!Init, Level, Verdict, Abstract!Verdict
<1>2. TypeInv /\ [Next]_vars => [Abstract!Next]_(Abstract!vars)
  <2> SUFFICES ASSUME TypeInv, [Next]_vars PROVE [Abstract!Next]_(Abstract!vars)
    OBVIOUS
  <2>1. ASSUME NEW ip \in IPs, Allow(ip) PROVE Abstract!Next
    <3>0. Level[ip] \in Nat /\ Token \in Nat
      BY LevelType, LimiterAssumption
    <3>1. CASE Level[ip] >= Token
      <4>1. Abstract!Grant(ip)
        BY <2>1, <3>1, AllowLevel DEF Abstract!Grant
      <4> QED BY <4>1 DEF Abstract!Next
    <3>2. CASE ~ (Level[ip] >= Token)
      <4>1. Level' = Level
        <5>1. Level' = [Level EXCEPT ![ip] = Level[ip]]
          BY <2>1, <3>2, AllowLevel
        <5> QED BY <5>1, LevelType
      <4>2. Abstract!Refuse(ip)
        <5>1. Level[ip] < Token
          BY <3>0, <3>2
        <5>2. verdict' = [ip |-> ip, ok |-> FALSE]
          <6>1. (Level[ip] >= Token) = FALSE
            BY <3>0, <3>2
          <6>2. verdict' = [ip |-> ip, ok |-> Level[ip] >= Token]
            BY <2>1, AllowLevel
          <6> QED BY <6>1, <6>2, Zenon
        <5> QED BY <4>1, <5>1, <5>2 DEF Abstract!Refuse
      <4> QED BY <4>2 DEF Abstract!Next
    <3> QED BY <3>1, <3>2
  <2>2. CASE SweepStart
    BY <2>2 DEF SweepStart, Abstract!vars, Level, Refilled
  <2>3. CASE Sweep
    BY <2>3, SweepLevel DEF Sweep, Abstract!vars
  <2>4. CASE Tick
    <3>1. Abstract!Refill
      BY <2>4, TickLevel DEF Tick, Abstract!Refill
    <3> QED BY <3>1 DEF Abstract!Next
  <2>5. CASE Observe
    BY <2>5 DEF Observe, Abstract!vars, Level, Refilled
  <2>6. CASE UNCHANGED vars
    BY <2>6 DEF vars, Abstract!vars, Level, Refilled
  <2> QED BY <2>1, <2>2, <2>3, <2>4, <2>5, <2>6 DEF Next
<1> QED BY <1>1, <1>2, TypeCorrect, PTL DEF Spec, Abstract!Spec, ImplementsTokenBucket

-----------------------------------------------------------------------------
\* What was granted and what is left came from the burst and the refill.
Conserved == \A ip \in IPs : granted[ip] + Level[ip] <= Burst + (now - since)

\* In no stretch of time does allow let more than a burst and the refill through.
THEOREM RateIsBounded == Spec => []BoundedRate
<1> USE LimiterAssumption
<1>1. Init => Conserved
  <2> SUFFICES ASSUME Init, NEW ip \in IPs PROVE granted[ip] + Level[ip] <= Burst + (now - since)
    BY DEF Conserved
  <2>1. granted[ip] = 0 /\ Level[ip] = Burst /\ now = 0 /\ since = 0
    BY DEF Init, Level
  <2> QED BY <2>1
<1>2. TypeInv /\ TypeInv' /\ Conserved /\ [Next]_vars => Conserved'
  <2> SUFFICES ASSUME TypeInv, TypeInv', Conserved, [Next]_vars, NEW q \in IPs
               PROVE  granted'[q] + Level'[q] <= Burst + (now' - since')
    BY DEF Conserved
  <2>0. /\ Level[q] \in Nat /\ Level[q] <= Burst /\ granted[q] \in Nat
        /\ now \in Nat /\ since \in Nat /\ since <= now
        /\ granted[q] + Level[q] <= Burst + (now - since)
    BY LevelType DEF TypeInv, Conserved
  <2>1. ASSUME NEW ip \in IPs, Allow(ip) PROVE granted'[q] + Level'[q] <= Burst + (now' - since')
    <3>1. now' = now /\ since' = since
      BY <2>1 DEF Allow
    <3>2. granted'[q] + Level'[q] = granted[q] + Level[q]
      BY <2>0, <2>1, AllowLevel, LevelType DEF TypeInv
    <3> QED BY <2>0, <3>1, <3>2
  <2>2. CASE SweepStart
    BY <2>0, <2>2 DEF SweepStart, Level, Refilled
  <2>3. CASE Sweep
    BY <2>0, <2>3, SweepLevel DEF Sweep
  <2>4. CASE Tick
    <3>1. Level'[q] <= Level[q] + 1 /\ Level'[q] \in Nat
      BY <2>0, <2>4, TickLevel
    <3> QED BY <2>0, <2>4, <3>1 DEF Tick
  <2>5. CASE Observe
    <3>1. Level' = Level
      BY <2>5 DEF Observe, Level, Refilled
    <3> QED BY <2>0, <2>5, <3>1 DEF Observe
  <2>6. CASE UNCHANGED vars
    BY <2>0, <2>6 DEF vars, Level, Refilled
  <2> QED BY <2>1, <2>2, <2>3, <2>4, <2>5, <2>6 DEF Next
<1>3. TypeInv /\ Conserved => BoundedRate
  <2> SUFFICES ASSUME TypeInv, Conserved, NEW ip \in IPs PROVE granted[ip] <= Burst + (now - since)
    BY DEF BoundedRate
  <2>1. /\ granted[ip] \in Nat /\ Level[ip] \in Nat /\ now \in Nat /\ since \in Nat
        /\ granted[ip] + Level[ip] <= Burst + (now - since)
    BY LevelType DEF TypeInv, Conserved
  <2> QED BY <2>1
<1> QED BY <1>1, <1>2, <1>3, TypeCorrect, PTL DEF Spec

-----------------------------------------------------------------------------
(* Sessions.                                                                 *)

\* The token of a stream that has not been opened is any value.
SomeTokens == Tokens \cup {CHOOSE t \in Tokens : TRUE}

StreamRecord == [pc : {"new", "resolved", "open", "closing", "gone"},
                 token : SomeTokens, role : Grants, at : Nat]
PostRecord == [pc : {"idle", "handling", "answering"}, sid : Streams \cup {NoStream},
               token : SomeTokens, role : Grants, at : Nat]

SessionsType ==
    /\ grants \in [Tokens -> Grants]
    /\ edits \in Nat
    /\ stream \in [Streams -> StreamRecord]
    /\ post \in [Posts -> PostRecord]

\* The map holds the streams that run, no more of them than the limit.
TableInv ==
    /\ IsFiniteSet(sessions) /\ Cardinality(sessions) <= MaxSessions
    /\ sessions = {s \in Streams : stream[s].pc \in {"open", "closing"}}

\* A stream that passed resolveAuth has a role.
RolesInv ==
    \A s \in Streams : stream[s].pc \in {"resolved", "open", "closing"} => stream[s].role # NoGrant

\* The stream a post answers on has been opened, for good, with the post's token.
OwnerInv ==
    \A q \in Posts : post[q].sid # NoStream =>
        /\ stream[post[q].sid].pc # "new"
        /\ post[q].token = stream[post[q].sid].token
        /\ post[q].role = stream[post[q].sid].role
        /\ post[q].role # NoGrant

SessionsInv == SessionsType /\ TableInv /\ RolesInv /\ OwnerInv

LEMMA InitialTypes ==
    /\ NewStream \in StreamRecord /\ NewStream.pc = "new"
    /\ IdlePost \in PostRecord /\ IdlePost.sid = NoStream /\ IdlePost.pc = "idle"
<1> DEFINE t == CHOOSE x \in Tokens : TRUE
<1>1. t \in SomeTokens
  BY DEF SomeTokens
<1>2. /\ NewStream = [pc |-> "new", token |-> t, role |-> NoGrant, at |-> 0]
      /\ IdlePost = [pc |-> "idle", sid |-> NoStream, token |-> t, role |-> NoGrant, at |-> 0]
  BY DEF NewStream, IdlePost
<1> HIDE DEF t
<1> QED BY <1>1, <1>2 DEF StreamRecord, PostRecord, Grants

\* A stream that has been opened keeps its token and its role.
Keeps(s) ==
    stream[s].pc # "new" =>
        /\ stream'[s].pc # "new"
        /\ stream'[s].token = stream[s].token /\ stream'[s].role = stream[s].role

\* A step that moves one stream on, and leaves the posts alone.
LEMMA StreamMoves ==
    ASSUME SessionsInv, NEW s \in Streams, NEW r \in StreamRecord,
           stream' = [stream EXCEPT ![s] = r], UNCHANGED <<grants, edits, post>>,
           stream[s].pc # "new" => r.pc # "new" /\ r.token = stream[s].token
                                   /\ r.role = stream[s].role,
           r.pc \in {"resolved", "open", "closing"} => r.role # NoGrant
    PROVE  SessionsType' /\ RolesInv' /\ OwnerInv'
           /\ \A g \in Streams : stream'[g].pc = IF g = s THEN r.pc ELSE stream[g].pc
<1>1. stream \in [Streams -> StreamRecord]
  BY DEF SessionsInv, SessionsType
<1>2. stream' \in [Streams -> StreamRecord] /\ stream'[s] = r
      /\ \A g \in Streams : g # s => stream'[g] = stream[g]
  BY <1>1
<1>3. \A g \in Streams : Keeps(g)
  BY <1>2 DEF Keeps
<1>4. SessionsType'
  BY <1>2 DEF SessionsInv, SessionsType
<1>5. RolesInv'
  BY <1>2 DEF SessionsInv, RolesInv
<1>6. OwnerInv'
  <2> SUFFICES ASSUME NEW q \in Posts, post[q].sid # NoStream
               PROVE  /\ stream'[post[q].sid].pc # "new"
                      /\ post[q].token = stream'[post[q].sid].token
                      /\ post[q].role = stream'[post[q].sid].role
                      /\ post[q].role # NoGrant
    BY DEF OwnerInv
  <2>1. post[q].sid \in Streams
    BY DEF SessionsInv, SessionsType, PostRecord
  <2> QED BY <1>3, <2>1 DEF SessionsInv, OwnerInv, Keeps
<1> QED BY <1>2, <1>4, <1>5, <1>6

\* A step of one post, which leaves the streams alone.
LEMMA PostMoves ==
    ASSUME SessionsInv, NEW q \in Posts, NEW r \in PostRecord,
           post' = [post EXCEPT ![q] = r], UNCHANGED <<grants, edits, stream, sessions>>,
           r.sid # NoStream => /\ stream[r.sid].pc # "new" /\ r.token = stream[r.sid].token
                               /\ r.role = stream[r.sid].role /\ r.role # NoGrant
    PROVE  SessionsInv'
<1>1. post' \in [Posts -> PostRecord] /\ post'[q] = r
      /\ \A g \in Posts : g # q => post'[g] = post[g]
  BY DEF SessionsInv, SessionsType
<1>2. SessionsType' /\ RolesInv' /\ TableInv'
  BY <1>1 DEF SessionsInv, SessionsType, RolesInv, TableInv
<1>3. OwnerInv'
  BY <1>1 DEF SessionsInv, OwnerInv
<1> QED BY <1>2, <1>3 DEF SessionsInv

LEMMA SessionsStep == SessionsInv /\ [SessionsNext]_sessionsVars => SessionsInv'
<1> SUFFICES ASSUME SessionsInv, [SessionsNext]_sessionsVars PROVE SessionsInv'
  OBVIOUS
<1>0. /\ stream \in [Streams -> StreamRecord] /\ post \in [Posts -> PostRecord]
      /\ grants \in [Tokens -> Grants] /\ edits \in Nat /\ MaxSessions \in Nat
      /\ IsFiniteSet(sessions) /\ Cardinality(sessions) \in Nat
  BY FS_CardinalityType, SessionsAssumption DEF SessionsInv, SessionsType, TableInv
<1>a. ASSUME NEW s \in Streams,
             NEW pc \in {"resolved", "open", "closing", "gone"}, stream[s].pc # "new",
             stream[s].pc \in {"resolved", "open", "closing"},
             stream' = [stream EXCEPT ![s].pc = pc], UNCHANGED <<grants, edits, post>>
      PROVE  SessionsType' /\ RolesInv' /\ OwnerInv'
             /\ \A g \in Streams : stream'[g].pc = IF g = s THEN pc ELSE stream[g].pc
  <2> DEFINE r == [stream[s] EXCEPT !.pc = pc]
  <2>1. r \in StreamRecord /\ r.pc = pc /\ r.token = stream[s].token /\ r.role = stream[s].role
    BY <1>0 DEF StreamRecord
  <2>2. stream' = [stream EXCEPT ![s] = r]
    BY <1>0, <1>a
  <2>3. stream[s].role # NoGrant
    BY <1>a DEF SessionsInv, RolesInv
  <2> HIDE DEF r
  <2>4. /\ stream[s].pc # "new" => r.pc # "new" /\ r.token = stream[s].token
                                   /\ r.role = stream[s].role
        /\ r.pc \in {"resolved", "open", "closing"} => r.role # NoGrant
    BY <1>a, <2>1, <2>3
  <2>5. SessionsType' /\ RolesInv' /\ OwnerInv'
        /\ \A g \in Streams : stream'[g].pc = IF g = s THEN r.pc ELSE stream[g].pc
    BY <1>a, <2>1, <2>2, <2>4, StreamMoves
  <2> QED BY <2>1, <2>5
<1>1. ASSUME NEW s \in Streams, NEW t \in Tokens, OpenStream(s, t) PROVE SessionsInv'
  <2> DEFINE pc == IF grants[t] = NoGrant THEN "gone" ELSE "resolved"
             r == [pc |-> pc, token |-> t, role |-> grants[t], at |-> edits]
  <2>1. /\ stream[s].pc = "new" /\ stream' = [stream EXCEPT ![s] = r]
        /\ UNCHANGED <<grants, edits, post>> /\ sessions' = sessions
    BY <1>1 DEF OpenStream
  <2>2. pc \in {"gone", "resolved"} /\ (pc = "resolved" => grants[t] # NoGrant)
        /\ grants[t] \in Grants /\ t \in SomeTokens
    BY <1>0 DEF SomeTokens
  <2> HIDE DEF pc
  <2>3. r \in StreamRecord /\ r.pc = pc /\ r.role = grants[t]
    BY <1>0, <2>2 DEF StreamRecord
  <2> HIDE DEF r
  <2>4. SessionsType' /\ RolesInv' /\ OwnerInv'
        /\ \A g \in Streams : stream'[g].pc = IF g = s THEN r.pc ELSE stream[g].pc
    BY <2>1, <2>2, <2>3, StreamMoves
  <2>5. TableInv'
    BY <2>1, <2>2, <2>3, <2>4 DEF SessionsInv, TableInv
  <2> QED BY <2>4, <2>5 DEF SessionsInv
<1>2. ASSUME NEW s \in Streams, Register(s) PROVE SessionsInv'
  <2>1. CASE Cardinality(sessions) >= MaxSessions
    <3>1. SessionsType' /\ RolesInv' /\ OwnerInv'
          /\ \A g \in Streams : stream'[g].pc = IF g = s THEN "gone" ELSE stream[g].pc
      BY <1>2, <1>a, <2>1 DEF Register
    <3>2. sessions' = sessions /\ stream[s].pc = "resolved"
      BY <1>2, <2>1 DEF Register
    <3>3. TableInv'
      BY <3>1, <3>2 DEF SessionsInv, TableInv
    <3> QED BY <3>1, <3>3 DEF SessionsInv
  <2>2. CASE ~ Cardinality(sessions) >= MaxSessions
    <3>1. SessionsType' /\ RolesInv' /\ OwnerInv'
          /\ \A g \in Streams : stream'[g].pc = IF g = s THEN "open" ELSE stream[g].pc
      BY <1>2, <1>a, <2>2 DEF Register
    <3>2. sessions' = sessions \cup {s} /\ stream[s].pc = "resolved"
      BY <1>2, <2>2 DEF Register
    <3>3. IsFiniteSet(sessions') /\ Cardinality(sessions') <= Cardinality(sessions) + 1
          /\ Cardinality(sessions') \in Nat
      <4>1. IsFiniteSet(sessions \cup {s})
            /\ Cardinality(sessions \cup {s}) =
                  IF s \in sessions THEN Cardinality(sessions) ELSE Cardinality(sessions) + 1
        BY <1>0, FS_AddElement
      <4> QED BY <1>0, <3>2, <4>1
    <3>4. TableInv'
      BY <1>0, <2>2, <3>1, <3>2, <3>3 DEF SessionsInv, TableInv
    <3> QED BY <3>1, <3>4 DEF SessionsInv
  <2> QED BY <2>1, <2>2
<1>3. ASSUME NEW s \in Streams, Unregister(s) PROVE SessionsInv'
  <2>1. SessionsType' /\ RolesInv' /\ OwnerInv'
        /\ \A g \in Streams : stream'[g].pc = IF g = s THEN "gone" ELSE stream[g].pc
    BY <1>3, <1>a DEF Unregister
  <2>2. sessions' = sessions \ {s}
    BY <1>3 DEF Unregister
  <2>3. IsFiniteSet(sessions') /\ Cardinality(sessions') <= Cardinality(sessions)
        /\ Cardinality(sessions') \in Nat
    BY <1>0, <2>2, FS_Subset, FS_CardinalityType
  <2>4. TableInv'
    BY <1>0, <2>1, <2>2, <2>3 DEF SessionsInv, TableInv
  <2> QED BY <2>1, <2>4 DEF SessionsInv
<1>4. ASSUME NEW s \in Streams, Disconnect(s) PROVE SessionsInv'
  <2>1. SessionsType' /\ RolesInv' /\ OwnerInv'
        /\ \A g \in Streams : stream'[g].pc = IF g = s THEN "closing" ELSE stream[g].pc
    BY <1>4, <1>a DEF Disconnect
  <2>2. TableInv'
    BY <1>4, <2>1 DEF Disconnect, SessionsInv, TableInv
  <2> QED BY <2>1, <2>2 DEF SessionsInv
<1>5. ASSUME NEW q \in Posts, NEW s \in Streams, NEW t \in Tokens, PostMessage(q, s, t)
      PROVE  SessionsInv'
  <2> DEFINE r == [pc |-> "handling", sid |-> s, token |-> t, role |-> stream[s].role,
                at |-> edits]
  <2>1. /\ s \in sessions /\ t = stream[s].token /\ post' = [post EXCEPT ![q] = r]
        /\ UNCHANGED <<grants, edits, stream, sessions>>
    BY <1>5 DEF PostMessage
  <2>2. stream[s].pc \in {"open", "closing"} /\ stream[s].role # NoGrant
    BY <2>1 DEF SessionsInv, TableInv, RolesInv
  <2>3. r \in PostRecord /\ r.sid = s /\ r.token = t /\ r.role = stream[s].role
    BY <1>0 DEF PostRecord, StreamRecord, SomeTokens
  <2> HIDE DEF r
  <2> QED BY <2>1, <2>2, <2>3, PostMoves
<1>6. ASSUME NEW q \in Posts, NEW t \in Tokens, PostStreamable(q, t) PROVE SessionsInv'
  <2> DEFINE r == [pc |-> "handling", sid |-> NoStream, token |-> t, role |-> grants[t],
                at |-> edits]
  <2>1. post' = [post EXCEPT ![q] = r] /\ UNCHANGED <<grants, edits, stream, sessions>>
    BY <1>6 DEF PostStreamable
  <2>2. r \in PostRecord /\ r.sid = NoStream
    BY <1>0 DEF PostRecord, SomeTokens
  <2> HIDE DEF r
  <2> QED BY <2>1, <2>2, PostMoves
<1>7. ASSUME NEW q \in Posts, Handled(q) PROVE SessionsInv'
  <2> DEFINE r == [post[q] EXCEPT !.pc = "answering"]
  <2>1. post' = [post EXCEPT ![q] = r] /\ UNCHANGED <<grants, edits, stream, sessions>>
    BY <1>0, <1>7 DEF Handled
  <2>2. r \in PostRecord /\ r.sid = post[q].sid /\ r.token = post[q].token /\ r.role = post[q].role
    BY <1>0 DEF PostRecord
  <2> HIDE DEF r
  <2>3. r.sid # NoStream => /\ stream[r.sid].pc # "new" /\ r.token = stream[r.sid].token
                            /\ r.role = stream[r.sid].role /\ r.role # NoGrant
    BY <2>2 DEF SessionsInv, OwnerInv
  <2> QED BY <2>1, <2>2, <2>3, PostMoves
<1>8. ASSUME NEW q \in Posts, Answer(q) PROVE SessionsInv'
  <2>1. post' = [post EXCEPT ![q] = IdlePost] /\ UNCHANGED <<grants, edits, stream, sessions>>
    BY <1>8 DEF Answer
  <2> QED BY <2>1, InitialTypes, PostMoves
<1>9. ASSUME NEW t \in Tokens, NEW grant \in Grants, EditToken(t, grant) PROVE SessionsInv'
  <2>1. grants' \in [Tokens -> Grants] /\ edits' \in Nat /\ UNCHANGED <<stream, sessions, post>>
    BY <1>0, <1>9 DEF EditToken
  <2> QED BY <2>1 DEF SessionsInv, SessionsType, TableInv, RolesInv, OwnerInv
<1>10. CASE UNCHANGED <<grants, edits, stream, sessions, post>>
  BY <1>10 DEF SessionsInv, SessionsType, TableInv, RolesInv, OwnerInv
<1>11. ASSUME ProcessGone PROVE SessionsInv'
  <2>1. /\ sessions' = {} /\ grants' = grants /\ edits' = edits /\ post' = [q \in Posts |-> IdlePost]
        /\ stream' = [s \in Streams |-> IF Active(s) THEN [stream[s] EXCEPT !.pc = "gone"]
                                         ELSE stream[s]]
    BY <1>11 DEF ProcessGone
  <2>2. \A s \in Streams : [stream[s] EXCEPT !.pc = "gone"] \in StreamRecord
                           /\ [stream[s] EXCEPT !.pc = "gone"].pc = "gone"
    BY <1>0 DEF StreamRecord
  <2>3. \A s \in Streams : stream'[s] \in StreamRecord /\ stream'[s].pc \in {"new", "gone"}
    BY <1>0, <2>1, <2>2 DEF Active, StreamRecord
  <2>4. SessionsType'
    BY <1>0, <2>1, <2>3, InitialTypes DEF SessionsType
  <2>5. TableInv'
    <3>1. IsFiniteSet({}) /\ Cardinality({}) = 0
      BY FS_EmptySet
    <3>2. sessions' = {s \in Streams : stream'[s].pc \in {"open", "closing"}}
      BY <2>1, <2>3
    <3>3. IsFiniteSet(sessions') /\ Cardinality(sessions') <= MaxSessions
      BY <1>0, <2>1, <3>1
    <3> QED BY <3>2, <3>3 DEF TableInv
  <2>6. RolesInv'
    BY <2>3 DEF RolesInv
  <2>7. OwnerInv'
    BY <2>1, InitialTypes DEF OwnerInv
  <2> QED BY <2>4, <2>5, <2>6, <2>7 DEF SessionsInv
<1>12. CASE Shutdown \/ Restart \/ UNCHANGED sessionsVars
  BY <1>10, <1>12 DEF Shutdown, Restart, sessionsVars
<1>13. CASE Exit \/ Crash
  BY <1>11, <1>13 DEF Exit, Crash
<1> QED BY <1>1, <1>2, <1>3, <1>4, <1>5, <1>6, <1>7, <1>8, <1>9, <1>12, <1>13
       DEF SessionsNext, StreamStep, PostStep

LEMMA SessionsCorrect == SessionsSpec => []SessionsInv
<1>1. SessionsInit => SessionsInv
  <2> SUFFICES ASSUME SessionsInit PROVE SessionsInv
    OBVIOUS
  <2>1. SessionsType
    BY InitialTypes DEF SessionsInit, SessionsType
  <2>2. TableInv
    BY InitialTypes, FS_EmptySet, SessionsAssumption DEF SessionsInit, TableInv
  <2>3. RolesInv /\ OwnerInv
    BY InitialTypes DEF SessionsInit, RolesInv, OwnerInv
  <2> QED BY <2>1, <2>2, <2>3 DEF SessionsInv
<1>2. SessionsInv /\ [SessionsNext]_sessionsVars => SessionsInv'
  BY SessionsStep
<1> QED BY <1>1, <1>2, PTL DEF SessionsSpec

\* The map of sessions never exceeds maxSessions and holds exactly the streams
\* that have registered and not returned, across disconnects, crashes and restarts
\* (ServeSSE).
THEOREM TableIsBounded == SessionsSpec => []SessionsBounded
<1>1. SessionsInv => SessionsBounded
  BY DEF SessionsInv, TableInv, SessionsBounded
<1> QED BY <1>1, SessionsCorrect, PTL

\* What a stream or a post was resolved to is the token's grant, or the token has
\* changed since.
Resolved(r) ==
    /\ r.token \in Tokens /\ r.at <= edits
    /\ r.role = grants[r.token] \/ changed[r.token] > r.at

GrantInv ==
    /\ changed \in [Tokens -> Nat] /\ \A t \in Tokens : changed[t] <= edits
    /\ \A s \in Streams : stream[s].pc # "new" => Resolved(stream[s])
    /\ \A q \in Posts : post[q].pc # "idle" =>
          post[q].token \in Tokens /\ (post[q].sid = NoStream => Resolved(post[q]))

\* No change of client_tokens makes a resolved role look current again.
LEMMA EditKeeps ==
    ASSUME SessionsInv, GrantInv, NEW t \in Tokens, NEW grant \in Grants, EditToken(t, grant),
           NEW r, r.at \in Nat, Resolved(r)
    PROVE  Resolved(r)'
<1>1. /\ edits \in Nat /\ edits' = edits + 1 /\ grants' = [grants EXCEPT ![t] = grant]
      /\ changed' = [changed EXCEPT ![t] = edits + 1]
      /\ grants \in [Tokens -> Grants] /\ changed \in [Tokens -> Nat]
  BY DEF EditToken, SessionsInv, SessionsType, GrantInv
<1>2. CASE r.token = t
  BY <1>1, <1>2 DEF Resolved
<1>3. CASE r.token # t
  BY <1>1, <1>3 DEF Resolved
<1> QED BY <1>2, <1>3

LEMMA GrantStep == SessionsInv /\ GrantInv /\ [SessionsNext]_sessionsVars => GrantInv'
<1> SUFFICES ASSUME SessionsInv, GrantInv, [SessionsNext]_sessionsVars PROVE GrantInv'
  OBVIOUS
<1>0. /\ stream \in [Streams -> StreamRecord] /\ post \in [Posts -> PostRecord]
      /\ grants \in [Tokens -> Grants] /\ edits \in Nat
      /\ \A s \in Streams : stream[s].at \in Nat
      /\ \A q \in Posts : post[q].at \in Nat
  BY DEF SessionsInv, SessionsType, StreamRecord, PostRecord
<1>1. ASSUME NEW t \in Tokens, NEW grant \in Grants, EditToken(t, grant) PROVE GrantInv'
  <2>1. /\ edits' = edits + 1 /\ changed' = [changed EXCEPT ![t] = edits + 1]
        /\ UNCHANGED <<stream, post>>
    BY <1>1 DEF EditToken
  <2>2. changed' \in [Tokens -> Nat] /\ \A g \in Tokens : changed'[g] <= edits'
    BY <1>0, <2>1 DEF GrantInv
  <2>3. ASSUME NEW s \in Streams, stream[s].pc # "new" PROVE Resolved(stream[s])'
    <3>1. PICK r : r = stream[s] /\ r.at \in Nat /\ Resolved(r)
      BY <1>0, <2>3 DEF GrantInv
    <3>2. Resolved(r)'
      BY <1>1, <3>1, EditKeeps
    <3> QED BY <2>1, <3>1, <3>2 DEF Resolved
  <2>4. ASSUME NEW q \in Posts, post[q].pc # "idle", post[q].sid = NoStream
        PROVE  Resolved(post[q])'
    <3>1. PICK r : r = post[q] /\ r.at \in Nat /\ Resolved(r)
      BY <1>0, <2>4 DEF GrantInv
    <3>2. Resolved(r)'
      BY <1>1, <3>1, EditKeeps
    <3> QED BY <2>1, <3>1, <3>2 DEF Resolved
  <2> QED BY <2>1, <2>2, <2>3, <2>4 DEF GrantInv
<1>2. ASSUME UNCHANGED <<grants, edits, changed>>,
             \A s \in Streams : \/ stream'[s].pc = "new"
                                \/ /\ stream[s].pc # "new"
                                   /\ stream'[s].token = stream[s].token
                                   /\ stream'[s].role = stream[s].role /\ stream'[s].at = stream[s].at
                                \/ Resolved(stream'[s]),
             \A q \in Posts : \/ post'[q].pc = "idle"
                              \/ /\ post[q].pc # "idle" /\ post'[q].sid = post[q].sid
                                 /\ post'[q].token = post[q].token
                                 /\ post'[q].role = post[q].role /\ post'[q].at = post[q].at
                              \/ post'[q].token \in Tokens
                                 /\ (post'[q].sid = NoStream => Resolved(post'[q]))
      PROVE  GrantInv'
  BY <1>2 DEF GrantInv, Resolved
<1>3. ASSUME UNCHANGED <<grants, edits, changed, post>>, NEW s \in Streams, NEW pc,
             stream[s].pc # "new", stream' = [stream EXCEPT ![s].pc = pc]
      PROVE  GrantInv'
  <2>1. /\ stream'[s].token = stream[s].token /\ stream'[s].role = stream[s].role
        /\ stream'[s].at = stream[s].at
    BY <1>0, <1>3 DEF StreamRecord
  <2>2. \A g \in Streams : g # s => stream'[g] = stream[g]
    BY <1>0, <1>3
  <2> QED BY <1>2, <1>3, <2>1, <2>2
<1>4. ASSUME NEW s \in Streams, NEW t \in Tokens, OpenStream(s, t) PROVE GrantInv'
  <2>1. /\ stream'[s].token = t /\ stream'[s].role = grants[t] /\ stream'[s].at = edits
        /\ \A g \in Streams : g # s => stream'[g] = stream[g]
        /\ UNCHANGED <<grants, edits, changed, post>>
    BY <1>0, <1>4 DEF OpenStream
  <2>2. Resolved(stream'[s])
    BY <1>0, <2>1 DEF Resolved
  <2> QED BY <1>2, <2>1, <2>2
<1>5. ASSUME NEW s \in Streams, StreamStep(s) \/ Disconnect(s) PROVE GrantInv'
  BY <1>3, <1>5 DEF StreamStep, Register, Unregister, Disconnect
<1>6. ASSUME NEW q \in Posts, NEW s \in Streams, NEW t \in Tokens, PostMessage(q, s, t)
      PROVE  GrantInv'
  <2>1. /\ post'[q].token = t /\ post'[q].sid = s /\ s # NoStream
        /\ \A g \in Posts : g # q => post'[g] = post[g]
        /\ UNCHANGED <<grants, edits, changed, stream>>
    BY <1>0, <1>6, SessionsAssumption DEF PostMessage
  <2> QED BY <1>2, <2>1
<1>7. ASSUME NEW q \in Posts, NEW t \in Tokens, PostStreamable(q, t) PROVE GrantInv'
  <2>1. /\ post'[q].token = t /\ post'[q].role = grants[t] /\ post'[q].at = edits
        /\ \A g \in Posts : g # q => post'[g] = post[g]
        /\ UNCHANGED <<grants, edits, changed, stream>>
    BY <1>0, <1>7 DEF PostStreamable
  <2>2. Resolved(post'[q])
    BY <1>0, <2>1 DEF Resolved
  <2> QED BY <1>2, <2>1, <2>2
<1>8. ASSUME NEW q \in Posts, Handled(q) PROVE GrantInv'
  <2>1. /\ post[q].pc # "idle" /\ post'[q].sid = post[q].sid /\ post'[q].token = post[q].token
        /\ post'[q].role = post[q].role /\ post'[q].at = post[q].at
        /\ \A g \in Posts : g # q => post'[g] = post[g]
        /\ UNCHANGED <<grants, edits, changed, stream>>
    BY <1>0, <1>8 DEF Handled, PostRecord
  <2> QED BY <1>2, <2>1
<1>9. ASSUME NEW q \in Posts, Answer(q) PROVE GrantInv'
  <2>1. /\ post'[q].pc = "idle" /\ \A g \in Posts : g # q => post'[g] = post[g]
        /\ UNCHANGED <<grants, edits, changed, stream>>
    BY <1>0, <1>9, InitialTypes DEF Answer
  <2> QED BY <1>2, <2>1
<1>10. ASSUME ProcessGone PROVE GrantInv'
  <2>1. UNCHANGED <<grants, edits, changed>> /\ \A q \in Posts : post'[q].pc = "idle"
    BY <1>10, InitialTypes DEF ProcessGone
  <2>2. ASSUME NEW s \in Streams
        PROVE  \/ stream'[s] = stream[s]
               \/ /\ stream[s].pc # "new" /\ stream'[s].token = stream[s].token
                  /\ stream'[s].role = stream[s].role /\ stream'[s].at = stream[s].at
    <3>1. CASE Active(s)
      BY <1>0, <1>10, <3>1 DEF ProcessGone, Active, StreamRecord
    <3>2. CASE ~ Active(s)
      BY <1>10, <3>2 DEF ProcessGone
    <3> QED BY <3>1, <3>2
  <2> QED BY <1>2, <2>1, <2>2
<1>11. CASE Shutdown \/ Restart \/ UNCHANGED sessionsVars
  BY <1>11 DEF Shutdown, Restart, sessionsVars, GrantInv, Resolved
<1>12. CASE Exit \/ Crash
  BY <1>10, <1>12 DEF Exit, Crash
<1> QED BY <1>1, <1>4, <1>5, <1>6, <1>7, <1>8, <1>9, <1>11, <1>12 DEF SessionsNext, PostStep

\* A request never runs with a role its token lost before the request began or, on a
\* session, before the stream was opened, for any number of streams, posts, tokens and
\* changes, across crashes and restarts (ServeMessages, ServeStreamable).
THEOREM RolesAreResolved == SessionsSpec => []RolesAreCurrent
<1>1. SessionsInit => GrantInv
  BY InitialTypes DEF SessionsInit, GrantInv
<1>2. SessionsInv /\ GrantInv => RolesAreCurrent
  <2> SUFFICES ASSUME SessionsInv, GrantInv, NEW q \in Posts, post[q].pc = "handling"
               PROVE  \/ post[q].role = grants[post[q].token]
                      \/ changed[post[q].token] >
                            (IF post[q].sid = NoStream THEN post[q].at ELSE stream[post[q].sid].at)
    BY DEF RolesAreCurrent
  <2>1. CASE post[q].sid = NoStream
    BY <2>1 DEF GrantInv, Resolved
  <2>2. CASE post[q].sid # NoStream
    <3>1. post[q].sid \in Streams
      BY <2>2 DEF SessionsInv, SessionsType, PostRecord
    <3>2. Resolved(stream[post[q].sid])
      BY <2>2, <3>1 DEF GrantInv, SessionsInv, OwnerInv
    <3> QED BY <2>2, <3>1, <3>2 DEF Resolved, SessionsInv, OwnerInv
  <2> QED BY <2>1, <2>2
<1>3. SessionsInv /\ GrantInv /\ [SessionsNext]_sessionsVars => GrantInv'
  BY GrantStep
<1>4. SessionsSpec => []GrantInv
  BY <1>1, <1>3, SessionsCorrect, PTL DEF SessionsSpec
<1> QED BY <1>2, <1>4, SessionsCorrect, PTL

\* Steps before a stream or a post is done.
StreamLeft(pc) ==
    IF pc = "resolved" THEN 3 ELSE IF pc = "open" THEN 2 ELSE IF pc = "closing" THEN 1 ELSE 0
PostLeft(pc) == IF pc = "handling" THEN 2 ELSE IF pc = "answering" THEN 1 ELSE 0

\* From SIGTERM on nothing is begun, and what moves comes closer to its end.
DrainAdvances ==
    [][server = "draining" =>
          /\ server' # "up"
          /\ \A s \in Streams : \/ stream'[s].pc = stream[s].pc
                                \/ StreamLeft(stream'[s].pc) < StreamLeft(stream[s].pc)
          /\ \A q \in Posts : \/ post'[q].pc = post[q].pc
                              \/ PostLeft(post'[q].pc) < PostLeft(post[q].pc)]_sessionsVars

\* The process leaves the draining state only when it ends, and then, unless it crashes,
\* with every stream and every post done.
DrainEndsClean ==
    [][server = "draining" /\ server' # "draining" =>
          /\ server' = "down"
          /\ \/ Crash
             \/ /\ \A s \in Streams : StreamLeft(stream[s].pc) = 0
                /\ \A q \in Posts : PostLeft(post[q].pc) = 0]_sessionsVars

LEMMA DrainStep ==
    ASSUME SessionsInv, [SessionsNext]_sessionsVars, server = "draining"
    PROVE  /\ server' # "up"
           /\ \A s \in Streams : \/ stream'[s].pc = stream[s].pc
                                 \/ StreamLeft(stream'[s].pc) < StreamLeft(stream[s].pc)
           /\ \A q \in Posts : \/ post'[q].pc = post[q].pc
                               \/ PostLeft(post'[q].pc) < PostLeft(post[q].pc)
           /\ server' # "draining" =>
                 /\ server' = "down"
                 /\ \/ Crash
                    \/ /\ \A s \in Streams : StreamLeft(stream[s].pc) = 0
                       /\ \A q \in Posts : PostLeft(post[q].pc) = 0
<1>0. stream \in [Streams -> StreamRecord] /\ post \in [Posts -> PostRecord]
  BY DEF SessionsInv, SessionsType
<1>1. ASSUME NEW s \in Streams, StreamStep(s) \/ Disconnect(s)
      PROVE  /\ UNCHANGED <<server, post>>
             /\ \A g \in Streams : \/ stream'[g].pc = stream[g].pc
                                   \/ StreamLeft(stream'[g].pc) < StreamLeft(stream[g].pc)
  <2>1. UNCHANGED <<server, post>>
    BY <1>1 DEF StreamStep, Register, Unregister, Disconnect
  <2>2. PICK pc : /\ stream' = [stream EXCEPT ![s].pc = pc]
                  /\ StreamLeft(pc) < StreamLeft(stream[s].pc)
    <3>1. CASE Register(s)
      BY <3>1 DEF Register, StreamLeft
    <3>2. CASE Unregister(s)
      <4>1. /\ stream' = [stream EXCEPT ![s].pc = "gone"]
            /\ StreamLeft("gone") < StreamLeft(stream[s].pc)
        BY <3>2 DEF Unregister, StreamLeft
      <4> QED BY <4>1
    <3>3. CASE Disconnect(s)
      <4>1. /\ stream' = [stream EXCEPT ![s].pc = "closing"]
            /\ StreamLeft("closing") < StreamLeft(stream[s].pc)
        BY <3>3 DEF Disconnect, StreamLeft
      <4> QED BY <4>1
    <3> QED BY <1>1, <3>1, <3>2, <3>3 DEF StreamStep
  <2>3. stream'[s].pc = pc
    BY <1>0, <2>2 DEF StreamRecord
  <2>4. \A g \in Streams : g # s => stream'[g] = stream[g]
    BY <1>0, <2>2
  <2> QED BY <2>1, <2>2, <2>3, <2>4
<1>2. ASSUME NEW q \in Posts, PostStep(q)
      PROVE  /\ UNCHANGED <<server, stream>>
             /\ \A p \in Posts : \/ post'[p].pc = post[p].pc
                                 \/ PostLeft(post'[p].pc) < PostLeft(post[p].pc)
  <2>1. UNCHANGED <<server, stream>>
    BY <1>2 DEF PostStep, Handled, Answer
  <2>2. PostLeft(post'[q].pc) < PostLeft(post[q].pc)
    <3>1. CASE Handled(q)
      BY <1>0, <3>1 DEF Handled, PostLeft, PostRecord
    <3>2. CASE Answer(q)
      <4>1. post'[q].pc = "idle"
        BY <1>0, <3>2 DEF Answer, IdlePost
      <4> QED BY <3>2, <4>1 DEF Answer, PostLeft
    <3> QED BY <1>2, <3>1, <3>2 DEF PostStep
  <2>3. \A p \in Posts : p # q => post'[p] = post[p]
    BY <1>0, <1>2 DEF PostStep, Handled, Answer
  <2> QED BY <2>1, <2>2, <2>3
<1>3. ASSUME ProcessGone
      PROVE  /\ server' = "down"
             /\ \A s \in Streams : \/ stream'[s].pc = stream[s].pc
                                   \/ StreamLeft(stream'[s].pc) < StreamLeft(stream[s].pc)
             /\ \A q \in Posts : \/ post'[q].pc = post[q].pc
                                 \/ PostLeft(post'[q].pc) < PostLeft(post[q].pc)
  <2>1. ASSUME NEW s \in Streams
        PROVE  \/ stream'[s].pc = stream[s].pc
               \/ StreamLeft(stream'[s].pc) < StreamLeft(stream[s].pc)
    <3>1. CASE Active(s)
      <4>1. stream'[s].pc = "gone"
        BY <1>0, <1>3, <3>1 DEF ProcessGone, StreamRecord
      <4> QED BY <3>1, <4>1 DEF Active, StreamLeft
    <3>2. CASE ~ Active(s)
      BY <1>3, <3>2 DEF ProcessGone
    <3> QED BY <3>1, <3>2
  <2>2. ASSUME NEW q \in Posts
        PROVE  \/ post'[q].pc = post[q].pc
               \/ PostLeft(post'[q].pc) < PostLeft(post[q].pc)
    <3>1. post'[q].pc = "idle"
      BY <1>3 DEF ProcessGone, IdlePost
    <3>2. post[q].pc \in {"idle", "handling", "answering"}
      BY <1>0 DEF PostRecord
    <3> QED BY <3>1, <3>2 DEF PostLeft
  <2> QED BY <1>3, <2>1, <2>2 DEF ProcessGone
<1>4. CASE Exit
  <2>1. /\ \A s \in Streams : StreamLeft(stream[s].pc) = 0
        /\ \A q \in Posts : PostLeft(post[q].pc) = 0
    BY <1>4 DEF Exit, Active, StreamLeft, PostLeft
  <2> QED BY <1>3, <1>4, <2>1 DEF Exit
<1>5. CASE Crash
  BY <1>3, <1>5 DEF Crash
<1>6. CASE (\E t \in Tokens, grant \in Grants : EditToken(t, grant)) \/ UNCHANGED sessionsVars
  BY <1>6 DEF EditToken, sessionsVars
<1>7. ~ \E s \in Streams, t \in Tokens : OpenStream(s, t)
  BY DEF OpenStream
<1>8. ~ \E q \in Posts, s \in Streams, t \in Tokens : PostMessage(q, s, t)
  BY DEF PostMessage
<1>9. ~ (\E q \in Posts, t \in Tokens : PostStreamable(q, t)) /\ ~ Shutdown /\ ~ Restart
  BY DEF PostStreamable, Shutdown, Restart
<1> QED BY <1>1, <1>2, <1>4, <1>5, <1>6, <1>7, <1>8, <1>9 DEF SessionsNext

\* A graceful shutdown only ever winds down: no stream and no post begins, each that is
\* there takes at most three more steps, and the process ends with none left unless it
\* crashes.  Only the step from "open" is the client's to take, which is why with the
\* gateway's fairness the drain waits for open streams and for nothing else
\* (ShutdownWaitsForStreamsOnly).
THEOREM ShutdownWindsDown == SessionsSpec => DrainAdvances /\ DrainEndsClean
<1>1. SessionsInv /\ [SessionsNext]_sessionsVars =>
        [server = "draining" =>
          /\ server' # "up"
          /\ \A s \in Streams : \/ stream'[s].pc = stream[s].pc
                                \/ StreamLeft(stream'[s].pc) < StreamLeft(stream[s].pc)
          /\ \A q \in Posts : \/ post'[q].pc = post[q].pc
                              \/ PostLeft(post'[q].pc) < PostLeft(post[q].pc)]_sessionsVars
  BY DrainStep
<1>2. SessionsInv /\ [SessionsNext]_sessionsVars =>
        [server = "draining" /\ server' # "draining" =>
          /\ server' = "down"
          /\ \/ Crash
             \/ /\ \A s \in Streams : StreamLeft(stream[s].pc) = 0
                /\ \A q \in Posts : PostLeft(post[q].pc) = 0]_sessionsVars
  BY DrainStep
<1> QED BY <1>1, <1>2, SessionsCorrect, PTL DEF SessionsSpec, DrainAdvances, DrainEndsClean
=============================================================================
