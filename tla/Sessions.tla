------------------------------ MODULE Sessions ------------------------------
(***************************************************************************)
(* The HTTP transports of pkg/mcp in one gateway process: long-lived SSE     *)
(* streams (ServeSSE), the POSTs that send requests to a stream's session    *)
(* (ServeMessages), stateless POSTs (ServeStreamable), the table of client   *)
(* tokens they authenticate against, and server.Shutdown.                    *)
(*                                                                         *)
(* A stream is one call of ServeSSE, so its name doubles as the session's    *)
(* fresh UUID.  A grant is the role of a token's enabled row.                *)
(***************************************************************************)
EXTENDS Naturals, FiniteSets

CONSTANTS
    Streams,            \* calls of ServeSSE
    Posts,              \* goroutines of ServeMessages and ServeStreamable
    Tokens,
    Roles,
    MaxSessions,        \* maxSessions (MCP_MAX_SESSIONS, 1000)
    MaxEdits,           \* bound: changes of client_tokens
    NoGrant, NoStream

ASSUME SessionsAssumption ==
    /\ MaxSessions \in Nat /\ MaxEdits \in Nat
    /\ NoGrant \notin Roles /\ NoStream \notin Streams

VARIABLES
    grants,             \* per token, its role, or NoGrant (no row, or disabled)
    edits,
    server,             \* "up", "draining" or "down"
    stream,             \* per call of ServeSSE: pc, token, role resolved at the start
    sessions,           \* MCPServer.sessions, the registered streams
    post,               \* per goroutine: pc, the stream it answers on, token, role
    changed             \* history: per token, the number of its grant's last change

\* A stream and a post also hold at, the number of changes made when they began
\* (history).
sessionsVars == <<grants, edits, server, stream, sessions, post, changed>>

Grants == Roles \cup {NoGrant}

NewStream == [pc |-> "new", token |-> CHOOSE t \in Tokens : TRUE, role |-> NoGrant,
              at |-> 0]
IdlePost == [pc |-> "idle", sid |-> NoStream, token |-> CHOOSE t \in Tokens : TRUE,
             role |-> NoGrant, at |-> 0]

SessionsInit ==
    /\ grants \in [Tokens -> Grants]
    /\ edits = 0
    /\ server = "up"
    /\ stream = [s \in Streams |-> NewStream]
    /\ sessions = {}
    /\ post = [q \in Posts |-> IdlePost]
    /\ changed = [t \in Tokens |-> 0]

-----------------------------------------------------------------------------
(* ServeSSE.                                                                *)

\* resolveAuth; without a grant the request ends with 401.
OpenStream(s, t) ==
    /\ server = "up"
    /\ stream[s].pc = "new"
    /\ stream' = [stream EXCEPT ![s] =
            [pc |-> IF grants[t] = NoGrant THEN "gone" ELSE "resolved",
             token |-> t, role |-> grants[t], at |-> edits]]
    /\ UNCHANGED <<grants, edits, server, sessions, post, changed>>

\* Mutation: the limit is off by one.
RegisterOneMore(s) ==
    /\ stream[s].pc = "resolved"
    /\ IF Cardinality(sessions) > MaxSessions
       THEN /\ stream' = [stream EXCEPT ![s].pc = "gone"]
            /\ UNCHANGED sessions
       ELSE /\ stream' = [stream EXCEPT ![s].pc = "open"]
            /\ sessions' = sessions \cup {s}
    /\ UNCHANGED <<grants, edits, server, post, changed>>

\* Under the lock: the limit (else 429), then the session is registered.
Register(s) ==
    /\ stream[s].pc = "resolved"
    /\ IF Cardinality(sessions) >= MaxSessions
       THEN /\ stream' = [stream EXCEPT ![s].pc = "gone"]
            /\ UNCHANGED sessions
       ELSE /\ stream' = [stream EXCEPT ![s].pc = "open"]
            /\ sessions' = sessions \cup {s}
    /\ UNCHANGED <<grants, edits, server, post, changed>>

\* The client goes away: the request's context is cancelled.  Nothing in the
\* gateway ends a stream; its write deadline is cleared.
Disconnect(s) ==
    /\ stream[s].pc = "open"
    /\ stream' = [stream EXCEPT ![s].pc = "closing"]
    /\ UNCHANGED <<grants, edits, server, sessions, post, changed>>

\* Mutation: a stream is only taken off the map while the server is up.
UnregisterWhenUp(s) ==
    /\ server = "up"
    /\ stream[s].pc = "closing"
    /\ stream' = [stream EXCEPT ![s].pc = "gone"]
    /\ sessions' = sessions \ {s}
    /\ UNCHANGED <<grants, edits, server, post, changed>>

\* The loop ends and the deferred function removes the session.
Unregister(s) ==
    /\ stream[s].pc = "closing"
    /\ stream' = [stream EXCEPT ![s].pc = "gone"]
    /\ sessions' = sessions \ {s}
    /\ UNCHANGED <<grants, edits, server, post, changed>>

-----------------------------------------------------------------------------
(* ServeMessages and ServeStreamable.                                       *)

\* Mutation: the session of a stream that has ended is still found.
PostMessageEnded(q, s, t) ==
    /\ server = "up"
    /\ post[q].pc = "idle"
    /\ s \in sessions \/ (stream[s].pc = "gone" /\ stream[s].role # NoGrant)
    /\ t = stream[s].token
    /\ post' = [post EXCEPT ![q] = [pc |-> "handling", sid |-> s, token |-> t,
                                    role |-> stream[s].role, at |-> edits]]
    /\ UNCHANGED <<grants, edits, server, stream, sessions, changed>>

\* ServeMessages finds the session, and the token must be the one the session
\* was opened with (else 400 or 401).  The role is the session's.
PostMessage(q, s, t) ==
    /\ server = "up"
    /\ post[q].pc = "idle"
    /\ s \in sessions
    /\ t = stream[s].token
    /\ post' = [post EXCEPT ![q] = [pc |-> "handling", sid |-> s, token |-> t,
                                    role |-> stream[s].role, at |-> edits]]
    /\ UNCHANGED <<grants, edits, server, stream, sessions, changed>>

\* Mutation: a token with an open stream is not resolved again.
PostStreamableCached(q, t) ==
    LET open == {s \in sessions : stream[s].token = t}
    IN  /\ server = "up"
        /\ post[q].pc = "idle"
        /\ open # {} \/ grants[t] # NoGrant
        /\ post' = [post EXCEPT ![q] =
                [pc |-> "handling", sid |-> NoStream, token |-> t,
                 role |-> IF open = {} THEN grants[t] ELSE stream[CHOOSE s \in open : TRUE].role,
                 at |-> edits]]
        /\ UNCHANGED <<grants, edits, server, stream, sessions, changed>>

\* ServeStreamable resolves the token's grant anew (else 401).
PostStreamable(q, t) ==
    /\ server = "up"
    /\ post[q].pc = "idle"
    /\ grants[t] # NoGrant
    /\ post' = [post EXCEPT ![q] = [pc |-> "handling", sid |-> NoStream, token |-> t,
                                    role |-> grants[t], at |-> edits]]
    /\ UNCHANGED <<grants, edits, server, stream, sessions, changed>>

\* handleRequest has run (ToolCalls).
Handled(q) ==
    /\ post[q].pc = "handling"
    /\ post' = [post EXCEPT ![q].pc = "answering"]
    /\ UNCHANGED <<grants, edits, server, stream, sessions, changed>>

\* The answer goes out: on the session's stream, which may have ended since,
\* and in the POST's own body.
Answer(q) ==
    /\ post[q].pc = "answering"
    /\ post' = [post EXCEPT ![q] = IdlePost]
    /\ UNCHANGED <<grants, edits, server, stream, sessions, changed>>

-----------------------------------------------------------------------------
\* SaveClientToken, DeleteClientToken, DeleteClientTokenByName.
EditToken(t, grant) ==
    /\ edits < MaxEdits
    /\ grant # grants[t]
    /\ edits' = edits + 1
    /\ grants' = [grants EXCEPT ![t] = grant]
    /\ changed' = [changed EXCEPT ![t] = edits + 1]
    /\ UNCHANGED <<server, stream, sessions, post>>

\* SIGTERM: server.Shutdown closes the listeners and waits until no connection
\* is active, without a deadline and without cancelling any request.
Shutdown ==
    /\ server = "up"
    /\ server' = "draining"
    /\ UNCHANGED <<grants, edits, stream, sessions, post, changed>>

Active(s) == stream[s].pc \in {"resolved", "open", "closing"}

ProcessGone ==
    /\ server' = "down"
    /\ stream' = [s \in Streams |->
            IF Active(s) THEN [stream[s] EXCEPT !.pc = "gone"] ELSE stream[s]]
    /\ sessions' = {}
    /\ post' = [q \in Posts |-> IdlePost]
    /\ UNCHANGED <<grants, edits, changed>>

Exit ==
    /\ server = "draining"
    /\ \A s \in Streams : ~ Active(s)
    /\ \A q \in Posts : post[q].pc = "idle"
    /\ ProcessGone

Crash ==
    /\ server # "down"
    /\ ProcessGone

Restart ==
    /\ server = "down"
    /\ server' = "up"
    /\ UNCHANGED <<grants, edits, stream, sessions, post, changed>>

StreamStep(s) == Register(s) \/ Unregister(s)
PostStep(q) == Handled(q) \/ Answer(q)

SessionsNext ==
    \/ \E s \in Streams, t \in Tokens : OpenStream(s, t)
    \/ \E s \in Streams : StreamStep(s)
    \/ \E s \in Streams : Disconnect(s)
    \/ \E q \in Posts, s \in Streams, t \in Tokens : PostMessage(q, s, t)
    \/ \E q \in Posts, t \in Tokens : PostStreamable(q, t)
    \/ \E q \in Posts : PostStep(q)
    \/ \E t \in Tokens, grant \in Grants : EditToken(t, grant)
    \/ Shutdown
    \/ Exit
    \/ Crash
    \/ Restart

SessionsSpec == SessionsInit /\ [][SessionsNext]_sessionsVars

\* The gateway's own goroutines make progress (handleRequest ends, see
\* ToolCalls).  Clients are under no obligation to disconnect.
SessionsFairSpec ==
    /\ SessionsSpec
    /\ \A s \in Streams : WF_sessionsVars(StreamStep(s))
    /\ \A q \in Posts : WF_sessionsVars(PostStep(q))
    /\ WF_sessionsVars(Exit)

-----------------------------------------------------------------------------
\* The map of sessions never grows past maxSessions, and holds exactly the
\* streams whose goroutine has registered and not returned: none leaks.
SessionsBounded ==
    /\ Cardinality(sessions) <= MaxSessions
    /\ sessions = {s \in Streams : stream[s].pc \in {"open", "closing"}}

\* The role a request runs with is its token's present one, unless the token was
\* changed while the request ran or, for a request to a session, after its stream
\* was opened (ServeMessages takes the session's role): no other path, a restart or
\* a second transport, keeps an old role alive.
RolesAreCurrent ==
    \A q \in Posts : post[q].pc = "handling" =>
        LET from == IF post[q].sid = NoStream THEN post[q].at ELSE stream[post[q].sid].at
        IN  \/ post[q].role = grants[post[q].token]
            \/ changed[post[q].token] > from

\* A token that is revoked for good, and whose streams end, is no longer served.
RevocationTakesEffect ==
    \A t \in Tokens :
        <>[](/\ grants[t] = NoGrant
             /\ \A s \in Streams : stream[s].token = t => stream[s].pc # "open")
            => <>[](\A q \in Posts : post[q].token = t => post[q].pc = "idle")

\* DeleteClientTokenByName "revokes a token" (db.go), and ServeMessages
\* "re-authenticates" who sends a request: none begins with a token that has no grant.
RevokedIsRefused ==
    [][\A q \in Posts : post[q].pc = "idle" /\ post'[q].pc = "handling"
            => grants[post'[q].token] # NoGrant]_sessionsVars

\* Shutdown waits for nothing but open streams: if they all end for good, the
\* process does too.
ShutdownWaitsForStreamsOnly ==
    <>[](\A s \in Streams : stream[s].pc # "open")
        => (server = "draining" ~> server = "down")

\* "Graceful shutdown (already present) drains in-flight requests on scale-in"
\* (SCALING_AND_CACHING.md): after SIGTERM the process ends.
ShutdownCompletes == server = "draining" ~> server = "down"
=============================================================================
