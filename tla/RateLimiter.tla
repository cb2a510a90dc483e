---------------------------- MODULE RateLimiter ----------------------------
(***************************************************************************)
(* ipRateLimiter of main.go: a map of token buckets that are created at a    *)
(* client's first request, refilled when it makes another, and deleted by a  *)
(* background sweep when idle for longer than visitorTTL.  The units of time *)
(* and tokens are those of TokenBucket, the specification it implements.     *)
(***************************************************************************)
EXTENDS Naturals

CONSTANTS
    IPs, Token, Burst,
    TTL,                \* visitorTTL (10 minutes, 30000 tokens' worth of time)
    MaxTime,            \* bound: clock
    NoBucket, NoSweep

\* A bucket that may be swept has had the time to refill.
ASSUME LimiterAssumption ==
    /\ Token \in Nat \ {0} /\ Burst \in Nat /\ Burst >= Token
    /\ TTL \in Nat /\ TTL >= Burst /\ MaxTime \in Nat

VARIABLES
    now,
    visitors,           \* per address, its bucket or NoBucket
    sweep,              \* time.Now() of a sweep that waits for the lock, or NoSweep
    verdict,            \* what allow returned last, to whom
    since, granted      \* history: units granted to each address since a moment

vars == <<now, visitors, sweep, verdict, since, granted>>

Bucket == [tokens : Nat, last : Nat]
\* rateLimit asks for the address clientIP derives; ok = FALSE is a 429.
Verdict == [ip : IPs, ok : BOOLEAN]

ASSUME NoBucketAssumption == NoBucket \notin Bucket /\ NoSweep \notin Nat

Init ==
    /\ now = 0
    /\ visitors = [ip \in IPs |-> NoBucket]
    /\ sweep = NoSweep
    /\ verdict \in Verdict
    /\ since = 0
    /\ granted = [ip \in IPs |-> 0]

\* Mutation: the refill is not capped.
RefilledUncapped(ip) == visitors[ip].tokens + (now - visitors[ip].last)

\* What the bucket holds now.
Refilled(ip) ==
    LET t == visitors[ip].tokens + (now - visitors[ip].last)
    IN IF t > Burst THEN Burst ELSE t

\* Mutation: a request that is refused does not move the bucket's time.
AllowKeepsLast(ip) ==
    LET t == IF visitors[ip] = NoBucket THEN Burst ELSE Refilled(ip)
        ok == t >= Token
    IN /\ visitors' = [visitors EXCEPT ![ip] =
               [tokens |-> IF ok THEN t - Token ELSE t,
                last |-> IF ok THEN now ELSE visitors[ip].last]]
       /\ verdict' = [ip |-> ip, ok |-> ok]
       /\ granted' = [granted EXCEPT ![ip] = IF ok THEN @ + Token ELSE @]
       /\ UNCHANGED <<now, sweep, since>>

\* allow, under the lock.
Allow(ip) ==
    LET t == IF visitors[ip] = NoBucket THEN Burst ELSE Refilled(ip)
        ok == t >= Token
    IN /\ visitors' = [visitors EXCEPT ![ip] =
               [tokens |-> IF ok THEN t - Token ELSE t, last |-> now]]
       /\ verdict' = [ip |-> ip, ok |-> ok]
       /\ granted' = [granted EXCEPT ![ip] = IF ok THEN @ + Token ELSE @]
       /\ UNCHANGED <<now, sweep, since>>

\* startEvictionSweeper: the cutoff is taken before the lock ...
SweepStart ==
    /\ sweep = NoSweep
    /\ sweep' = now
    /\ UNCHANGED <<now, visitors, verdict, since, granted>>

\* ... and the buckets last used before it go.
Sweep ==
    /\ sweep # NoSweep
    /\ visitors' = [ip \in IPs |->
            IF visitors[ip] # NoBucket /\ visitors[ip].last + TTL < sweep
            THEN NoBucket ELSE visitors[ip]]
    /\ sweep' = NoSweep
    /\ UNCHANGED <<now, verdict, since, granted>>

Tick ==
    /\ now < MaxTime
    /\ now' = now + 1
    /\ UNCHANGED <<visitors, sweep, verdict, since, granted>>

\* An observer starts to count (history).
Observe ==
    /\ since' = now
    /\ granted' = [ip \in IPs |-> 0]
    /\ UNCHANGED <<now, visitors, sweep, verdict>>

Next ==
    \/ \E ip \in IPs : Allow(ip)
    \/ SweepStart
    \/ Sweep
    \/ Tick
    \/ Observe

Spec == Init /\ [][Next]_vars

-----------------------------------------------------------------------------
\* The bucket an address would have without the sweep.
Level == [ip \in IPs |-> IF visitors[ip] = NoBucket THEN Burst ELSE Refilled(ip)]

Abstract == INSTANCE TokenBucket WITH level <- Level

\* The sweep is invisible: allow answers as if every address had kept its
\* bucket for ever, and no address affects another one's bucket.
ImplementsTokenBucket == Abstract!Spec

\* allow lets at most a burst, plus what refills meanwhile, through in any
\* stretch of time, across sweeps of the bucket.
BoundedRate ==
    \A ip \in IPs : granted[ip] <= Burst + (now - since)
=============================================================================
