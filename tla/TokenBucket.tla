---------------------------- MODULE TokenBucket ----------------------------
(***************************************************************************)
(* What the per-IP rate limiter of main.go promises: every client address    *)
(* has a bucket of its own, full at first, that refills steadily up to Burst *)
(* and pays one token for each request that is let through.                  *)
(*                                                                         *)
(* Time and tokens share one unit: a tick of the clock adds one unit to      *)
(* every bucket and a request costs Token units, so fractions of a token are *)
(* kept (50 tokens a second: a tick is 20 ms / Token).                       *)
(***************************************************************************)
EXTENDS Naturals

CONSTANTS
    IPs,
    Token,              \* units in a token
    Burst               \* units in a full bucket (100 tokens)

VARIABLES
    level,              \* units in each bucket
    verdict             \* the last decision

vars == <<level, verdict>>

Verdict == [ip : IPs, ok : BOOLEAN]

Init ==
    /\ level = [ip \in IPs |-> Burst]
    /\ verdict \in Verdict

Grant(ip) ==
    /\ level[ip] >= Token
    /\ level' = [level EXCEPT ![ip] = @ - Token]
    /\ verdict' = [ip |-> ip, ok |-> TRUE]

Refuse(ip) ==
    /\ level[ip] < Token
    /\ verdict' = [ip |-> ip, ok |-> FALSE]
    /\ UNCHANGED level

Refill ==
    /\ level' = [ip \in IPs |-> IF level[ip] < Burst THEN level[ip] + 1 ELSE Burst]
    /\ UNCHANGED verdict

Next ==
    \/ \E ip \in IPs : Grant(ip)
    \/ \E ip \in IPs : Refuse(ip)
    \/ Refill

Spec == Init /\ [][Next]_vars
=============================================================================
