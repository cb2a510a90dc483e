------------------------------ MODULE Topology ------------------------------
(***************************************************************************)
(* The topology tables of pkg/storage: api_connections and api_endpoints,  *)
(* written by the portal handlers and the admin_* tools, each a goroutine   *)
(* of its own on one of several gateway processes.                          *)
(*                                                                         *)
(* A SQL statement is one atomic step.  SaveEndpoint is two: the SELECT of  *)
(* the stored hash and version, and the upsert that writes what it computed *)
(* from them; no transaction spans the two.  A row that is absent is NoRow. *)
(* The behaviour-relevant fields of a tool other than its name (description, *)
(* method, path, schema) are one member of Defs; Canon maps a definition to *)
(* the one canonicalizeSchema makes of it, so that two members that differ  *)
(* in the layout of their schema only have the same image.                  *)
(***************************************************************************)
EXTENDS Naturals

CONSTANTS
    Conns,              \* ids of connections
    Eps,                \* ids of endpoints
    ConnNames,          \* values of api_connections.name
    ToolNames,          \* values of api_endpoints.tool_name
    Defs,               \* behaviour-relevant fields of a tool
    Canon,              \* Defs -> Defs, see above
    Writers,            \* goroutines that may be inside SaveEndpoint
    ForeignKeys,        \* does the driver enforce FOREIGN KEY clauses?
    MaxVersion,         \* bound on api_endpoints.version
    NoRow, NoHash, Idle,
    LegacyConns,        \* the tables as initSchema finds them
    LegacyEps

VARIABLES
    connections,        \* api_connections, by id
    endpoints,          \* api_endpoints, by id
    saving              \* per writer, the row SaveEndpoint is about to upsert

vars == <<connections, endpoints, saving>>

-----------------------------------------------------------------------------
Hashes == ToolNames \X Defs

\* toolintegrity.Hash: SHA-256 over the canonical fields, taken as injective.
Hash(name, def) == <<name, Canon[def]>>

\* No other column of a connection bears on what is said here.
ConnRow == [name : ConnNames]

EpRow == [conn : Conns, name : ToolNames, def : Defs,
          hash : Hashes \cup {NoHash}, version : Nat \ {0}]

\* What SaveEndpoint's SELECT returns: storedHash and storedVersion, or no row.
Found == [hash : Hashes \cup {NoHash}, version : Nat \ {0}]

Stored(row) == IF row = NoRow THEN NoRow ELSE [hash |-> row.hash, version |-> row.version]

Pending == [ep : Eps, found : Found \cup {NoRow}, row : EpRow]

ASSUME TopologyAssumption ==
    /\ Canon \in [Defs -> Defs]
    /\ ForeignKeys \in BOOLEAN
    /\ MaxVersion \in Nat
    /\ NoRow \notin ConnRow /\ NoRow \notin EpRow /\ NoRow \notin Found
    /\ NoHash \notin Hashes
    /\ Idle \notin Pending

\* Rows written before the definition_hash and version columns existed read
\* back as hash '' and version 1 (COALESCE in every SELECT).
ASSUME LegacyAssumption ==
    /\ LegacyConns \in [Conns -> ConnRow \cup {NoRow}]
    /\ LegacyEps \in [Eps -> EpRow \cup {NoRow}]
    /\ \A e \in Eps : LegacyEps[e] # NoRow =>
          /\ LegacyEps[e].hash = NoHash
          /\ LegacyEps[e].version = 1
          /\ LegacyConns[LegacyEps[e].conn] # NoRow

Init ==
    /\ connections = LegacyConns
    /\ endpoints = LegacyEps
    /\ saving = [w \in Writers |-> Idle]

-----------------------------------------------------------------------------
\* The UNIQUE constraints: the column of no other row holds the value.
ConnNameFree(c, name) ==
    \A d \in Conns \ {c} : connections[d] # NoRow => connections[d].name # name

ToolNameFree(e, name) ==
    \A f \in Eps \ {e} : endpoints[f] # NoRow => endpoints[f].name # name

\* SaveConnection; a violated constraint fails the statement and changes nothing.
SaveConnection(c, row) ==
    /\ ConnNameFree(c, row.name)
    /\ connections' = [connections EXCEPT ![c] = row]
    /\ UNCHANGED <<endpoints, saving>>

\* DeleteConnection; the cascade is the database's, where it enforces the clause.
DeleteConnection(c) ==
    /\ connections' = [connections EXCEPT ![c] = NoRow]
    /\ endpoints' = [e \in Eps |->
                        IF ForeignKeys /\ endpoints[e] # NoRow /\ endpoints[e].conn = c
                        THEN NoRow ELSE endpoints[e]]
    /\ UNCHANGED saving

\* Mutation: every save counts as a change.
NextVersionAlways(found, hash) == IF found = NoRow THEN 1 ELSE found.version + 1

\* The version SaveEndpoint computes from the row it found.
NextVersion(found, hash) ==
    IF found = NoRow THEN 1
    ELSE IF found.hash # hash THEN found.version + 1 ELSE found.version

\* The SELECT half of SaveEndpoint.
SaveEndpointLookup(w, e, c, name, def) ==
    LET hash    == Hash(name, def)
        found   == Stored(endpoints[e])
        version == NextVersion(found, hash)
    IN  /\ saving[w] = Idle
        /\ version <= MaxVersion
        /\ saving' = [saving EXCEPT ![w] =
                        [ep    |-> e,
                         found |-> found,
                         row   |-> [conn |-> c, name |-> name, def |-> def,
                                    hash |-> hash, version |-> version]]]
        /\ UNCHANGED <<connections, endpoints>>

\* Mutation: the SET list forgets definition_hash.
UpsertedKeepsHash(old, row) ==
    IF old = NoRow THEN row ELSE [row EXCEPT !.hash = old.hash]

\* What the upsert leaves in the table: every column takes the excluded value.
Upserted(old, row) == row

\* Mutation: the upsert is not checked against api_connections.
SaveEndpointUpsertNoFK(w) ==
    /\ saving[w] # Idle
    /\ LET e == saving[w].ep  row == saving[w].row
       IN  /\ ToolNameFree(e, row.name)
           /\ endpoints' = [endpoints EXCEPT ![e] = Upserted(endpoints[e], row)]
    /\ saving' = [saving EXCEPT ![w] = Idle]
    /\ UNCHANGED connections

\* The upsert half: the constraints hold and the row replaces the old one.
SaveEndpointUpsert(w) ==
    /\ saving[w] # Idle
    /\ LET e == saving[w].ep  row == saving[w].row
       IN  /\ ToolNameFree(e, row.name)
           /\ ForeignKeys => connections[row.conn] # NoRow
           /\ endpoints' = [endpoints EXCEPT ![e] = Upserted(endpoints[e], row)]
    /\ saving' = [saving EXCEPT ![w] = Idle]
    /\ UNCHANGED connections

\* The upsert fails: a violated constraint, a cancelled request, a lost
\* database, or the process dies between the two statements.
SaveEndpointFails(w) ==
    /\ saving[w] # Idle
    /\ saving' = [saving EXCEPT ![w] = Idle]
    /\ UNCHANGED <<connections, endpoints>>

DeleteEndpoint(e) ==
    /\ endpoints' = [endpoints EXCEPT ![e] = NoRow]
    /\ UNCHANGED <<connections, saving>>

Next ==
    \/ \E c \in Conns : \E row \in ConnRow : SaveConnection(c, row)
    \/ \E c \in Conns : DeleteConnection(c)
    \/ \E w \in Writers, e \in Eps, c \in Conns, name \in ToolNames, def \in Defs :
          SaveEndpointLookup(w, e, c, name, def)
    \/ \E w \in Writers : SaveEndpointUpsert(w)
    \/ \E w \in Writers : SaveEndpointFails(w)
    \/ \E e \in Eps : DeleteEndpoint(e)

Spec == Init /\ [][Next]_vars

-----------------------------------------------------------------------------
\* The tables and the saves under way have the shape the schema gives them
\* (initSchema and the structs of pkg/storage).
TypeOK ==
    /\ connections \in [Conns -> ConnRow \cup {NoRow}]
    /\ endpoints \in [Eps -> EpRow \cup {NoRow}]
    /\ saving \in [Writers -> Pending \cup {Idle}]

\* The hash a row carries is the hash of the definition next to it, however
\* many saves of the row race (SaveEndpoint writes both in one statement).
\* Strict tool pinning compares the two, so this is what makes its answer
\* depend on the definition and not on the order of the saves.
HashPinsDefinition ==
    \A e \in Eps : endpoints[e] # NoRow /\ endpoints[e].hash # NoHash
        => endpoints[e].hash = Hash(endpoints[e].name, endpoints[e].def)

\* Where the driver enforces foreign keys no endpoint outlives its connection,
\* a save that looked its row up before the connection was deleted included.
NoOrphans ==
    \A e \in Eps : endpoints[e] # NoRow => connections[endpoints[e].conn] # NoRow

\* However many saves of a row race, its version goes up by exactly one when its
\* hash changes and stays when it does not, whatever is deleted and created again
\* in between, unless the stored hash or version changed between the SELECT and
\* the upsert of the save that wrote the row (SaveEndpoint holds no transaction).
VersionFollowsHash ==
    [][\A e \in Eps : endpoints[e] # NoRow /\ endpoints'[e] # NoRow =>
          \/ endpoints'[e].version =
                IF endpoints'[e].hash = endpoints[e].hash
                THEN endpoints[e].version ELSE endpoints[e].version + 1
          \/ \E w \in Writers :
                /\ saving[w] # Idle /\ saving'[w] = Idle
                /\ saving[w].ep = e
                /\ saving[w].found # Stored(endpoints[e])]_vars

\* "a monotonically increasing version" (the comment on SaveEndpoint): the
\* version of a stored row never goes down.
VersionNeverDecreases ==
    [][\A e \in Eps : endpoints[e] # NoRow /\ endpoints'[e] # NoRow =>
          endpoints'[e].version >= endpoints[e].version]_vars

\* "Deletes a connection and all its endpoints" (the OpenAPI document served
\* by the portal): the step that removes a connection leaves no endpoint of it.
DeleteTakesEndpoints ==
    [][\A c \in Conns : connections[c] # NoRow /\ connections'[c] = NoRow =>
          \A e \in Eps : endpoints'[e] # NoRow => endpoints'[e].conn # c]_vars

=============================================================================
