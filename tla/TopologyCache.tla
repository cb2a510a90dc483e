---------------------------- MODULE TopologyCache ----------------------------
(***************************************************************************)
(* The short-TTL caches of pkg/storage (connCache, epCache: pkg/cache) in   *)
(* front of the topology tables, in every gateway process (Replicas) that   *)
(* shares the database.                                                     *)
(*                                                                         *)
(* A table's content is its revision: the number of writes committed to it. *)
(* Goroutines (Procs) run on one replica each and are either reading (miss, *)
(* SELECT, Set) or writing (commit, then purge one cache after the other);  *)
(* each lock region and each SQL statement is one step.  The clock `now'    *)
(* counts in units in which TTL is a whole number.                          *)
(*                                                                         *)
(* supersededAt, readAt, took (how long the fill took), overtaken and       *)
(* purgedRev are history: no guard reads them.                              *)
(***************************************************************************)
EXTENDS Naturals

CONSTANTS
    Replicas,
    Procs,
    Home,               \* Procs -> Replicas, where a goroutine runs
    Groups,             \* bound: the sets of goroutines that run together
    TTL,                \* CONFIG_CACHE_TTL; 0 disables the caches
    MaxRev,             \* bound: writes per table
    MaxTime,            \* bound: clock
    NoEntry

Tables == {"connections", "endpoints"}

ASSUME CacheAssumption ==
    /\ Home \in [Procs -> Replicas] /\ Groups \subseteq SUBSET Procs
    /\ TTL \in Nat /\ MaxRev \in Nat /\ MaxTime \in Nat

VARIABLES
    running,            \* the goroutines of this behaviour, one of Groups
    now,
    current,            \* per table, its revision
    supersededAt,       \* per table and revision, when the next one committed
    cache,              \* per replica and table, the entry under "all"
    proc,               \* per goroutine, where it is
    purgedRev           \* per replica and table, the newest revision whose own
                        \* writer has purged that replica's cache

cacheVars == <<running, now, current, supersededAt, cache, proc, purgedRev>>

Revs == 0 .. MaxRev

Entry == [rev : Revs, took : Nat, expires : Nat, overtaken : BOOLEAN]

ASSUME NoEntryAssumption == NoEntry \notin Entry

\* One record for all program counters: table is the table being read or (for
\* a writer) one of those written; rev and readAt are the snapshot in hand.
Local == [pc : {"idle", "missed", "read", "committed", "purging"},
          table : Tables, rev : [Tables -> Revs], readAt : Nat,
          overtaken : BOOLEAN]

Enabled == TTL > 0

\* TTLCache.Get hits: the entry is there and now is not after its expiry.
Hit(r, t) == cache[r][t] # NoEntry /\ now <= cache[r][t].expires

IdleProc == [pc |-> "idle", table |-> "connections",
             rev |-> [t \in Tables |-> 0], readAt |-> 0, overtaken |-> FALSE]

CacheInit ==
    /\ running \in Groups
    /\ now = 0
    /\ current = [t \in Tables |-> 0]
    /\ supersededAt = [t \in Tables |-> [v \in Revs |-> 0]]
    /\ cache = [r \in Replicas |-> [t \in Tables |-> NoEntry]]
    /\ proc = [p \in Procs |-> IdleProc]
    /\ purgedRev = [r \in Replicas |-> [t \in Tables |-> 0]]

-----------------------------------------------------------------------------
(* GetConnections and GetAllEndpoints.  A hit returns the entry and changes *)
(* nothing.                                                                 *)

\* TTLCache.Get misses; the goroutine goes on to the SELECT.
Miss(p, t) ==
    /\ p \in running /\ proc[p].pc = "idle"
    /\ ~ Hit(Home[p], t)
    /\ proc' = [proc EXCEPT ![p] = [IdleProc EXCEPT !.pc = "missed", !.table = t]]
    /\ UNCHANGED <<running, now, current, supersededAt, cache, purgedRev>>

\* The SELECT: a snapshot of the table.
Select(p) ==
    /\ proc[p].pc = "missed"
    /\ proc' = [proc EXCEPT ![p].pc = "read", ![p].readAt = now,
                            ![p].rev[proc[p].table] = current[proc[p].table]]
    /\ UNCHANGED <<running, now, current, supersededAt, cache, purgedRev>>

\* The query, or the scan of its rows, fails: an error return.
ReadFails(p) ==
    /\ proc[p].pc \in {"missed", "read"}
    /\ proc' = [proc EXCEPT ![p] = IdleProc]
    /\ UNCHANGED <<running, now, current, supersededAt, cache, purgedRev>>

\* Mutation: the entry keeps a later expiry than TTLCache.Set gives it.
SetLate(p) ==
    /\ proc[p].pc = "read"
    /\ cache' = IF Enabled
                THEN [cache EXCEPT ![Home[p]][proc[p].table] =
                        [rev |-> proc[p].rev[proc[p].table], took |-> now - proc[p].readAt,
                         expires |-> now + TTL + 1, overtaken |-> proc[p].overtaken]]
                ELSE cache
    /\ proc' = [proc EXCEPT ![p] = IdleProc]
    /\ UNCHANGED <<running, now, current, supersededAt, purgedRev>>

\* TTLCache.Set under the write lock; a no-op when the cache is disabled.
Set(p) ==
    /\ proc[p].pc = "read"
    /\ cache' = IF Enabled
                THEN [cache EXCEPT ![Home[p]][proc[p].table] =
                        [rev |-> proc[p].rev[proc[p].table], took |-> now - proc[p].readAt,
                         expires |-> now + TTL, overtaken |-> proc[p].overtaken]]
                ELSE cache
    /\ proc' = [proc EXCEPT ![p] = IdleProc]
    /\ UNCHANGED <<running, now, current, supersededAt, purgedRev>>

-----------------------------------------------------------------------------
(* SaveConnection, DeleteConnection, SaveEndpoint, DeleteEndpoint.          *)

\* The statement commits: SaveConnection writes the connections, the endpoint
\* operations the endpoints, a cascading delete both.
Commit(p, written) ==
    /\ p \in running /\ proc[p].pc = "idle"
    /\ \A t \in written : current[t] < MaxRev
    /\ current' = [t \in Tables |-> IF t \in written THEN current[t] + 1 ELSE current[t]]
    /\ supersededAt' = [t \in Tables |->
            IF t \in written THEN [supersededAt[t] EXCEPT ![current[t]] = now]
            ELSE supersededAt[t]]
    /\ proc' = [proc EXCEPT ![p] = [IdleProc EXCEPT
            !.pc = "committed",
            !.rev = [t \in Tables |-> IF t \in written THEN current[t] + 1 ELSE 0]]]
    /\ UNCHANGED <<running, now, cache, purgedRev>>

\* Purge of one cache on behalf of p: the entry goes, whoever filled it, and
\* the fills in flight on this replica are from now on overtaken.
Purge(p, t, next) ==
    /\ cache' = [cache EXCEPT ![Home[p]][t] = NoEntry]
    /\ purgedRev' = [purgedRev EXCEPT ![Home[p]][t] =
                        IF proc[p].rev[t] > @ THEN proc[p].rev[t] ELSE @]
    /\ proc' = [q \in Procs |->
            IF q = p THEN next
            ELSE IF Home[q] = Home[p] /\ proc[q].pc = "read" /\ proc[q].table = t
                 THEN [proc[q] EXCEPT !.overtaken = TRUE]
                 ELSE proc[q]]

\* Mutation: invalidateCaches goes on to the endpoints without purging the connections.
PurgeConnectionsForgotten(p) ==
    /\ proc[p].pc = "committed"
    /\ proc' = [proc EXCEPT ![p].pc = "purging"]
    /\ purgedRev' = [purgedRev EXCEPT ![Home[p]]["connections"] =
                        IF proc[p].rev["connections"] > @ THEN proc[p].rev["connections"] ELSE @]
    /\ UNCHANGED <<running, cache, now, current, supersededAt>>

\* invalidateCaches, first lock region ...
PurgeConnections(p) ==
    /\ proc[p].pc = "committed"
    /\ Purge(p, "connections", [proc[p] EXCEPT !.pc = "purging"])
    /\ UNCHANGED <<running, now, current, supersededAt>>

\* ... and second; the write then returns.
PurgeEndpoints(p) ==
    /\ proc[p].pc = "purging"
    /\ Purge(p, "endpoints", IdleProc)
    /\ UNCHANGED <<running, now, current, supersededAt>>

-----------------------------------------------------------------------------
\* Every 90 s the janitor of a cache deletes the entry if it has expired.
EvictExpired(r, t) ==
    /\ cache[r][t] # NoEntry
    /\ ~ Hit(r, t)
    /\ cache' = [cache EXCEPT ![r][t] = NoEntry]
    /\ UNCHANGED <<running, now, current, supersededAt, proc, purgedRev>>

\* A replica crashes and restarts: its caches are empty, its goroutines gone.
Restart(r) ==
    /\ cache' = [cache EXCEPT ![r] = [t \in Tables |-> NoEntry]]
    /\ proc' = [p \in Procs |-> IF Home[p] = r THEN IdleProc ELSE proc[p]]
    /\ UNCHANGED <<running, now, current, supersededAt, purgedRev>>

Tick ==
    /\ now < MaxTime
    /\ now' = now + 1
    /\ UNCHANGED <<running, current, supersededAt, cache, proc, purgedRev>>

CacheNext ==
    \/ \E p \in Procs, t \in Tables : Miss(p, t)
    \/ \E p \in Procs : Select(p)
    \/ \E p \in Procs : ReadFails(p)
    \/ \E p \in Procs : Set(p)
    \/ \E p \in Procs, written \in (SUBSET Tables) \ {{}} : Commit(p, written)
    \/ \E p \in Procs : PurgeConnections(p)
    \/ \E p \in Procs : PurgeEndpoints(p)
    \/ \E r \in Replicas, t \in Tables : EvictExpired(r, t)
    \/ \E r \in Replicas : Restart(r)
    \/ Tick

CacheSpec == CacheInit /\ [][CacheNext]_cacheVars

-----------------------------------------------------------------------------
\* The clock, the revisions, the entries and the program counters have the
\* types of their Go counterparts (TTLCache, DB).
CacheTypeOK ==
    /\ running \in Groups
    /\ now \in Nat
    /\ current \in [Tables -> Revs]
    /\ supersededAt \in [Tables -> [Revs -> Nat]]
    /\ cache \in [Replicas -> [Tables -> Entry \cup {NoEntry}]]
    /\ proc \in [Procs -> Local]
    /\ purgedRev \in [Replicas -> [Tables -> Revs]]

\* A superseded revision is served for at most TTL plus the time its reader
\* took from the SELECT to TTLCache.Set, on any replica, the ones that never
\* hear of the write included.
BoundedStaleness ==
    \A r \in Replicas, t \in Tables :
        Hit(r, t) /\ cache[r][t].rev < current[t] =>
            now - supersededAt[t][cache[r][t].rev] <= TTL + cache[r][t].took

\* "worst case is <= TTL seconds of staleness for config" (SCALING_AND_CACHING.md):
\* what GetConnections and GetAllEndpoints serve was superseded at most TTL ago.
StaleAtMostTTL ==
    \A r \in Replicas, t \in Tables :
        Hit(r, t) /\ cache[r][t].rev < current[t] =>
            now - supersededAt[t][cache[r][t].rev] <= TTL

\* Once invalidateCaches has purged a cache on behalf of a write, that replica
\* serves nothing older than the write, except from a fill that had read the
\* table before and stored its snapshot after that purge.
OwnWritesVisible ==
    \A r \in Replicas, t \in Tables :
        cache[r][t] # NoEntry /\ ~ cache[r][t].overtaken
            => cache[r][t].rev >= purgedRev[r][t]
=============================================================================
