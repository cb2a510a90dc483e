------------------------------ MODULE ToolCalls ------------------------------
(***************************************************************************)
(* The tools/call pipeline of pkg/mcp (handleRequest, toolDefinitionChanged, *)
(* findEndpoint, callTool, handleAdminTool, gateway.ExecuteCall), run by     *)
(* concurrent request goroutines (Handlers) of one gateway process, on top   *)
(* of the audit trail (AuditTrail).                                          *)
(*                                                                         *)
(* One endpoint-backed tool and its connection are followed through every    *)
(* step.  The topology is read with CONFIG_CACHE_TTL = 0, so that each read  *)
(* sees the current row; what the caches add is the subject of TopologyCache. *)
(* Data is what the redactor's detectors find in it: nothing, a match in a    *)
(* string ("raw"), in the key of a map or in a number ("rawKey"), in the text *)
(* of an upstream answer ("rawBody"), or a masked match ("mask").            *)
(***************************************************************************)
EXTENDS Naturals, Sequences, FiniteSets

CONSTANTS
    Handlers,
    Requests,           \* the tools/call requests clients send, a subset of Request
    Defs,               \* definitions of the tool (description, method, path, schema)
    Prefixed,           \* the connection has a tool_prefix
    Strict,             \* TOOL_PINNING_STRICT
    Redaction,          \* REDACTION_ENABLED
    Faults,             \* what may go wrong, a subset of Fault
    Cap,                \* capacity of auditCh
    MaxCalls,           \* bound: requests received
    Scopes,             \* bound: what the behaviours cover, a subset of Scope
    NoRow,              \* no endpoint row
    NoPin,              \* definition_hash = ""
    NoRecord

Data == {"clean", "raw", "rawKey", "rawBody", "mask"}
Raw == {"raw", "rawKey", "rawBody"}
Tools == {"api", "admin_register_vault_secret", "admin_other"}
Request == [tool : Tools, role : {"admin", "user"}, inScope : BOOLEAN,
            args : {"clean", "raw", "rawKey"}]

\* The requests that are sent in a behaviour, how many of them, and how often the tool's
\* or the connection's row is changed.
Scope == [requests : SUBSET Requests, calls : 0 .. MaxCalls, edits : Nat]

Fault == {"db", "upstream", "vault", "insert", "crash", "tamper"}

ASSUME ToolCallsAssumption ==
    /\ Requests \subseteq Request /\ Requests # {} /\ Faults \subseteq Fault
    /\ Prefixed \in BOOLEAN /\ Strict \in BOOLEAN /\ Redaction \in BOOLEAN
    /\ Cap \in Nat \ {0} /\ MaxCalls \in Nat /\ Scopes \subseteq Scope
    /\ NoRow \notin [def : Defs, pin : Defs \cup {NoPin}] /\ NoPin \notin Defs

VARIABLES
    scope,              \* one of Scopes
    endpoint,           \* the tool's api_endpoints row, or NoRow
    enabled,            \* the connection's enabled column
    server,             \* http.Server: "up", "draining" (Shutdown called) or "down"
    handler,            \* per goroutine, its program counter and locals
    activeQueries,      \* MCPServer.activeQueries
    secret,             \* last admin_register_vault_secret: value sent, value stored
    issued, auditCh, worker, auditLog, dropped, failed, lost,   \* AuditTrail
    calls,              \* history: requests received
    edits,              \* history: row changes
    tampered,           \* history: a row was changed behind SaveEndpoint's back
    started,            \* history: calls of callTool
    aborted,            \* history: calls of callTool that died with the process
    sent                \* history: data sent to the upstream API

auditVars == <<issued, auditCh, worker, auditLog, dropped, failed, lost>>
dbVars == <<endpoint, enabled, edits, tampered>>
vars == <<scope, endpoint, enabled, server, handler, activeQueries, secret, auditVars,
          calls, edits, tampered, started, aborted, sent>>

\* The part of auditLogEntry a property tells apart.
Info == [status : {"success", "failure"}, errMsg : Data]

ASSUME NoRecordAssumption == NoRecord \notin [id : Nat, info : Info]

Audit == INSTANCE AuditTrail WITH Infos <- Info, MaxIssued <- MaxCalls

-----------------------------------------------------------------------------
(* Definitions and their pins.                                              *)

\* toolintegrity.Hash covers the name as well as the definition; distinct
\* inputs have distinct hashes.
Hash(name, def) == <<name, def>>

\* The name SaveEndpoint hashes, and the one clients call (findEndpoint).
ToolName == "tool"
ResolvedName == IF Prefixed THEN "prefix_tool" ELSE ToolName

\* A row keeps the definition its definition_hash was computed from.
Pin(row) == IF row.pin = NoPin THEN NoPin ELSE Hash(ToolName, row.pin)

\* Mutation: a missing baseline counts as a change.
ChangedWithoutPin(row) ==
    /\ row # NoRow
    /\ Pin(row) # Hash(ResolvedName, row.def)

\* toolDefinitionChanged on what findEndpoint returned: a missing endpoint or
\* an empty stored hash is never a change.
Changed(row) ==
    /\ row # NoRow
    /\ row.pin # NoPin
    /\ Pin(row) # Hash(ResolvedName, row.def)

-----------------------------------------------------------------------------
(* Redaction.                                                               *)

\* RedactMap: of the arguments, string values only; keys and numbers are kept.
RedactMap(d) == IF Redaction /\ d = "raw" THEN "mask" ELSE d

\* RedactBytes: the whole text of a result.
RedactBytes(d) == IF Redaction /\ d \in Raw THEN "mask" ELSE d

IdleHandler == [pc |-> "idle", req |-> CHOOSE r \in Requests : TRUE, ep |-> NoRow,
                ok |-> FALSE, data |-> "clean", raced |-> FALSE]

Init ==
    /\ scope \in Scopes
    /\ endpoint \in {NoRow} \cup [def : Defs, pin : {NoPin}]
                    \cup {[def |-> d, pin |-> d] : d \in Defs}
    /\ enabled \in BOOLEAN
    /\ server = "up"
    /\ handler = [h \in Handlers |-> IdleHandler]
    /\ activeQueries = 0
    /\ secret = [asked |-> "clean", stored |-> "clean"]
    /\ Audit!Init
    /\ calls = 0 /\ edits = 0 /\ tampered = FALSE
    /\ started = 0 /\ aborted = 0 /\ sent = {}

Goto(h, pc) == handler' = [handler EXCEPT ![h].pc = pc]
Reply(h, ok, data, pc) ==
    handler' = [handler EXCEPT ![h].ok = ok, ![h].data = data, ![h].pc = pc]

-----------------------------------------------------------------------------
(* handleRequest, "tools/call".                                             *)

Admin(tool) == tool # "api"

Authorized(req) == (Admin(req.tool) => req.role = "admin") /\ req.inScope

\* The request arrives; role and scope are checked, and in strict mode the
\* pin is checked for a tool that has an endpoint.
Receive(h, req) ==
    /\ server = "up"
    /\ handler[h].pc = "idle"
    /\ req \in scope.requests /\ calls < scope.calls
    /\ calls' = calls + 1
    /\ handler' = [handler EXCEPT ![h] = [IdleHandler EXCEPT
            !.req = req,
            !.pc = IF ~ Authorized(req) THEN "denied"
                   ELSE IF Strict /\ ~ Admin(req.tool) THEN "pinEndpoints"
                   ELSE "checked"]]
    /\ UNCHANGED <<scope, dbVars, server, activeQueries, secret, auditVars, started, aborted, sent>>

\* findEndpoint, GetAllEndpoints ...
ReadEndpoints(h, at, next) ==
    /\ handler[h].pc = at
    /\ handler' = [handler EXCEPT ![h].ep = endpoint, ![h].pc = next]

\* ... then GetConnections: a disabled connection hides its endpoints.
Found(h) == IF enabled THEN handler[h].ep ELSE NoRow

PinReadEndpoints(h) ==
    /\ ReadEndpoints(h, "pinEndpoints", "pinConnections")
    /\ UNCHANGED <<scope, dbVars, server, activeQueries, secret, auditVars, calls, started, aborted, sent>>

\* Mutation: the pin check reports, and blocks nothing.
PinReadConnectionsReportOnly(h) ==
    /\ handler[h].pc = "pinConnections"
    /\ Goto(h, "checked")
    /\ UNCHANGED <<scope, dbVars, server, activeQueries, secret, auditVars, calls, started, aborted, sent>>

PinReadConnections(h) ==
    /\ handler[h].pc = "pinConnections"
    /\ Goto(h, IF Changed(Found(h)) THEN "refused" ELSE "checked")
    /\ UNCHANGED <<scope, dbVars, server, activeQueries, secret, auditVars, calls, started, aborted, sent>>

\* Mutation: the arguments go to the tool as they came.
CallBeginUnredacted(h) ==
    /\ handler[h].pc = "checked"
    /\ activeQueries' = activeQueries + 1
    /\ started' = started + 1
    /\ handler' = [handler EXCEPT
            ![h].data = handler[h].req.args,
            ![h].pc = IF Admin(handler[h].req.tool) THEN "admin" ELSE "callEndpoints"]
    /\ UNCHANGED <<scope, dbVars, server, secret, auditVars, calls, aborted, sent>>

\* The arguments are redacted, the gauge goes up, callTool begins.
CallBegin(h) ==
    /\ handler[h].pc = "checked"
    /\ activeQueries' = activeQueries + 1
    /\ started' = started + 1
    /\ handler' = [handler EXCEPT
            ![h].data = RedactMap(handler[h].req.args),
            ![h].pc = IF Admin(handler[h].req.tool) THEN "admin" ELSE "callEndpoints"]
    /\ UNCHANGED <<scope, dbVars, server, secret, auditVars, calls, aborted, sent>>

CallReadEndpoints(h) ==
    /\ ReadEndpoints(h, "callEndpoints", "callConnections")
    /\ UNCHANGED <<scope, dbVars, server, activeQueries, secret, auditVars, calls, started, aborted, sent>>

\* callTool executes what it found, or returns a not-found error.
CallReadConnections(h) ==
    /\ handler[h].pc = "callConnections"
    /\ IF Found(h) = NoRow
       THEN Reply(h, FALSE, "clean", "returning")
       ELSE Goto(h, "executing")
    /\ UNCHANGED <<scope, dbVars, server, activeQueries, secret, auditVars, calls, started, aborted, sent>>

\* ExecuteCall: the upstream answers; a status below 400 is a result, any
\* other an error that quotes the body.
Execute(h, ok, body) ==
    /\ handler[h].pc = "executing"
    /\ ok \/ "upstream" \in Faults
    /\ sent' = sent \cup {handler[h].data}
    /\ Reply(h, ok, body, "returning")
    /\ UNCHANGED <<scope, dbVars, server, activeQueries, secret, auditVars, calls, started, aborted>>

\* ExecuteCall fails with an error of its own: egress denied, no credential,
\* a transport error, the 30 s client timeout, a body over the limit.  The
\* request may or may not have been sent; the error may quote its URL, and with
\* it the arguments.
ExecuteFails(h) ==
    /\ handler[h].pc = "executing"
    /\ "upstream" \in Faults
    /\ sent' \in {sent, sent \cup {handler[h].data}}
    /\ \E text \in {"clean", handler[h].data} : Reply(h, FALSE, text, "returning")
    /\ UNCHANGED <<scope, dbVars, server, activeQueries, secret, auditVars, calls, started, aborted>>

\* handleAdminTool; a success may quote an argument.  The other admin tools add
\* rows under fresh ids, which are not the tool followed here.
AdminTool(h) ==
    /\ handler[h].pc = "admin"
    /\ \/ /\ \E text \in {"clean", handler[h].data} : Reply(h, TRUE, text, "returning")
          /\ secret' = IF handler[h].req.tool = "admin_register_vault_secret"
                       THEN [asked |-> handler[h].req.args, stored |-> handler[h].data]
                       ELSE secret
       \/ /\ "vault" \in Faults
          /\ Reply(h, FALSE, "clean", "returning")
          /\ UNCHANGED secret
    /\ UNCHANGED <<scope, dbVars, server, activeQueries, auditVars, calls, started, aborted, sent>>

\* Mutation: a failed call returns before the gauge goes down.
CallReturnsOnSuccess(h) ==
    /\ handler[h].pc = "returning"
    /\ activeQueries' = IF handler[h].ok THEN activeQueries - 1 ELSE activeQueries
    /\ Goto(h, "returned")
    /\ UNCHANGED <<scope, dbVars, server, secret, auditVars, calls, started, aborted, sent>>

\* callTool has returned; the gauge goes down.
CallReturns(h) ==
    /\ handler[h].pc = "returning"
    /\ activeQueries' = activeQueries - 1
    /\ Goto(h, "returned")
    /\ UNCHANGED <<scope, dbVars, server, secret, auditVars, calls, started, aborted, sent>>

\* Mutation: only successful calls are audited.
FinishSuccessOnly(h) ==
    /\ handler[h].pc = "returned"
    /\ handler' = [handler EXCEPT ![h].data = IF handler[h].ok THEN RedactBytes(@) ELSE @,
                                  ![h].pc = "answered"]
    /\ IF handler[h].ok
       THEN Audit!LogAuditAsync([status |-> "success", errMsg |-> "clean"])
       ELSE UNCHANGED auditVars
    /\ UNCHANGED <<scope, dbVars, server, activeQueries, secret, calls, started, aborted, sent>>

\* The result of a successful call is redacted; the outcome is logged, with
\* the error's text when there is one.
Finish(h) ==
    /\ handler[h].pc = "returned"
    /\ handler' = [handler EXCEPT ![h].data = IF handler[h].ok THEN RedactBytes(@) ELSE @,
                                  ![h].pc = "answered"]
    /\ Audit!LogAuditAsync(
            [status |-> IF handler[h].ok THEN "success" ELSE "failure",
             errMsg |-> IF handler[h].ok THEN "clean" ELSE handler[h].data])
    /\ UNCHANGED <<scope, dbVars, server, activeQueries, secret, calls, started, aborted, sent>>

\* Mutation: a failed read of the topology is tried again, without limit.
ReadRetries(h) ==
    /\ "db" \in Faults
    /\ \/ /\ handler[h].pc \in {"pinEndpoints", "pinConnections"}
          /\ Goto(h, "pinEndpoints")
       \/ /\ handler[h].pc \in {"callEndpoints", "callConnections"}
          /\ Goto(h, "callEndpoints")
    /\ UNCHANGED <<scope, dbVars, server, activeQueries, secret, auditVars, calls, started, aborted, sent>>

\* A read of findEndpoint fails: in the pin check the request ends with that
\* error and no audit record; in callTool it is the outcome of the call.
ReadFails(h) ==
    /\ "db" \in Faults
    /\ \/ /\ handler[h].pc \in {"pinEndpoints", "pinConnections"}
          /\ Reply(h, FALSE, "clean", "answered")
       \/ /\ handler[h].pc \in {"callEndpoints", "callConnections"}
          /\ Reply(h, FALSE, "clean", "returning")
    /\ UNCHANGED <<scope, dbVars, server, activeQueries, secret, auditVars, calls, started, aborted, sent>>

\* The response is written and the goroutine ends.
Respond(h) ==
    /\ handler[h].pc \in {"denied", "refused", "answered"}
    /\ handler' = [handler EXCEPT ![h] = IdleHandler]
    /\ UNCHANGED <<scope, dbVars, server, activeQueries, secret, auditVars, calls, started, aborted, sent>>

-----------------------------------------------------------------------------
(* Administration of the tool and its connection, by anyone but a handler.  *)

\* Calls in flight when a row changed in a way that can hide a change from
\* the pin check (history).
RaceAll == handler' = [h \in Handlers |->
                [handler[h] EXCEPT !.raced = @ \/ handler[h].pc # "idle"]]

Edit == edits < scope.edits /\ edits' = edits + 1

\* SaveEndpoint: definition and pin in one statement.
SaveEndpoint(d) ==
    /\ Edit
    /\ endpoint' = [def |-> d, pin |-> d]
    /\ UNCHANGED <<scope, enabled, tampered, server, handler, activeQueries, secret, auditVars,
                   calls, started, aborted, sent>>

DeleteEndpoint ==
    /\ Edit
    /\ endpoint # NoRow
    /\ endpoint' = NoRow
    /\ UNCHANGED <<scope, enabled, tampered, server, handler, activeQueries, secret, auditVars,
                   calls, started, aborted, sent>>

\* SaveConnection flips enabled.
SetEnabled ==
    /\ Edit
    /\ enabled' = ~ enabled
    /\ IF enabled THEN UNCHANGED handler ELSE RaceAll
    /\ UNCHANGED <<scope, endpoint, tampered, server, activeQueries, secret, auditVars,
                   calls, started, aborted, sent>>

\* A row changes without its hash, which SaveEndpoint never does: the change
\* strict pinning is there to catch (server_test.go makes it with an UPDATE).
Tamper(d) ==
    /\ Edit
    /\ "tamper" \in Faults
    /\ endpoint # NoRow
    /\ endpoint' = [endpoint EXCEPT !.def = d]
    /\ tampered' = TRUE
    /\ RaceAll
    /\ UNCHANGED <<scope, enabled, server, activeQueries, secret, auditVars, calls, started, aborted, sent>>

-----------------------------------------------------------------------------
(* The audit worker and the life of the process.                            *)

WorkerStep ==
    /\ server # "down"
    /\ \/ Audit!WorkerTake
       \/ Audit!WorkerInsert
       \/ "insert" \in Faults /\ Audit!WorkerFails
    /\ UNCHANGED <<scope, dbVars, server, handler, activeQueries, secret, calls, started, aborted, sent>>

\* SIGTERM: server.Shutdown stops accepting requests ...
Shutdown ==
    /\ server = "up"
    /\ server' = "draining"
    /\ UNCHANGED <<scope, dbVars, handler, activeQueries, secret, auditVars, calls, started, aborted, sent>>

InCall(h) == handler[h].pc \in {"callEndpoints", "callConnections", "executing",
                                "admin", "returning", "returned"}

Ends ==
    /\ server' = "down"
    /\ Audit!ProcessEnds
    /\ aborted' = aborted + Cardinality({h \in Handlers : InCall(h)})
    /\ handler' = [h \in Handlers |-> IdleHandler]
    /\ activeQueries' = 0
    /\ UNCHANGED <<scope, dbVars, secret, calls, started, sent>>

\* ... and returns when the last one has ended; then main returns, whatever
\* is still on auditCh.
Exit ==
    /\ server = "draining"
    /\ \A h \in Handlers : handler[h].pc = "idle"
    /\ Ends

Crash ==
    /\ "crash" \in Faults
    /\ server # "down"
    /\ Ends

Restart ==
    /\ server = "down"
    /\ server' = "up"
    /\ UNCHANGED <<scope, dbVars, handler, activeQueries, secret, auditVars, calls, started, aborted, sent>>

HandlerStep(h) ==
    \/ PinReadEndpoints(h)
    \/ PinReadConnections(h)
    \/ CallBegin(h)
    \/ CallReadEndpoints(h)
    \/ CallReadConnections(h)
    \/ \E ok \in BOOLEAN, body \in {"clean", "rawBody"} : Execute(h, ok, body)
    \/ ExecuteFails(h)
    \/ AdminTool(h)
    \/ CallReturns(h)
    \/ Finish(h)
    \/ ReadFails(h)
    \/ Respond(h)

Next ==
    \/ \E h \in Handlers, req \in Requests : Receive(h, req)
    \/ \E h \in Handlers : HandlerStep(h)
    \/ \E d \in Defs : SaveEndpoint(d)
    \/ DeleteEndpoint
    \/ SetEnabled
    \/ \E d \in Defs : Tamper(d)
    \/ WorkerStep
    \/ Shutdown
    \/ Exit
    \/ Crash
    \/ Restart

Spec == Init /\ [][Next]_vars

\* Goroutines run; every step of a handler ends, ExecuteCall by the timeout of
\* its http.Client.  Shutdown polls until the handlers are gone.
FairSpec ==
    /\ Spec
    /\ \A h \in Handlers : WF_vars(HandlerStep(h))
    /\ WF_vars(WorkerStep)
    /\ WF_vars(Exit)

-----------------------------------------------------------------------------
\* The program counters, the rows and the gauge have their types.
TypeOK ==
    /\ scope \in Scopes
    /\ endpoint \in {NoRow} \cup [def : Defs, pin : Defs \cup {NoPin}]
    /\ enabled \in BOOLEAN
    /\ server \in {"up", "draining", "down"}
    /\ handler \in [Handlers ->
            [pc : {"idle", "denied", "pinEndpoints", "pinConnections", "refused", "checked",
                   "callEndpoints", "callConnections", "executing", "admin", "returning",
                   "returned", "answered"},
             req : Requests, ep : {NoRow} \cup [def : Defs, pin : Defs \cup {NoPin}],
             ok : BOOLEAN, data : Data, raced : BOOLEAN]]
    /\ activeQueries \in Nat
    /\ secret \in [asked : Data, stored : Data]

\* The gauge the portal shows as active queries counts the calls of callTool
\* that have not returned, over errors, shutdowns and crashes.
ActiveQueriesExact ==
    activeQueries = Cardinality({h \in Handlers : InCall(h) /\ handler[h].pc # "returned"})

\* Every call of callTool, however it ended, is still running, died with the
\* process, or has made one audit record, and no record is gone without a trace:
\* it is in audit_logs, on its way there, or was dropped at a full channel, failed
\* to be inserted or lost when the process ended.
CallsAccounted ==
    /\ started = issued + aborted + Cardinality({h \in Handlers : InCall(h)})
    /\ 1 .. issued = Audit!Logged \cup Audit!InFlight \cup dropped \cup failed \cup lost

\* Strict pinning refuses a call only if some row was changed behind
\* SaveEndpoint's back, or the connection has a tool_prefix and the tool a pin
\* (the pin is over the stored name, the check over the resolved one): saves that
\* race the two reads of findEndpoint, deletes and toggles of the connection never
\* cause a refusal.
RefusedForCause ==
    \A h \in Handlers : handler[h].pc = "refused" =>
        tampered \/ (Prefixed /\ handler[h].ep # NoRow /\ handler[h].ep.pin # NoPin)

\* "An administrator re-approving a legitimately changed tool re-establishes the
\* baseline (a new hash + bumped version) and calls resume"
\* (doc/governance_pinning_redaction.md): what SaveEndpoint stored is not refused.
RefusedOnlyIfTampered ==
    \A h \in Handlers : handler[h].pc = "refused" => tampered

\* A definition that differs from its pin when a strict call arrives, and that
\* nothing hides meanwhile, is never executed.
ChangedIsRefused ==
    \A h \in Handlers :
        Strict /\ handler[h].pc = "executing" /\ Changed(handler[h].ep) => handler[h].raced

\* "refuse to execute a tool whose live definition no longer matches the hash it
\* was approved under" (handleRequest), with no allowance for races.
ExecutesOnlyApproved ==
    \A h \in Handlers : Strict /\ handler[h].pc = "executing" => ~ Changed(handler[h].ep)

\* With redaction on, what the detectors match in the string arguments of a call
\* gets nowhere: not to the upstream API, not to the client in a result or an error,
\* not to the audit trail on its way to the table; and a successful result holds
\* nothing they match, wherever it came from (RedactMap before callTool,
\* RedactBytes after it).
PayloadsRedacted ==
    Redaction =>
        /\ "raw" \notin sent
        /\ \A h \in Handlers : handler[h].pc = "answered" =>
              handler[h].data \notin (IF handler[h].ok THEN Raw ELSE {"raw"})
        /\ \A i \in DOMAIN auditCh : auditCh[i].info.errMsg # "raw"
        /\ \A i \in DOMAIN auditLog : auditLog[i].info.errMsg # "raw"
        /\ worker # NoRecord => worker.info.errMsg # "raw"

\* "Redact PII/secrets out of the arguments BEFORE execution, so a value lifted from
\* the LLM's context can't be smuggled out through a downstream API call"
\* (handleRequest).
NothingRawSent == Redaction => sent \cap Raw = {}

\* "without the raw values ever being written to logs or the audit trail"
\* (doc/governance_pinning_redaction.md).
AuditHasNoRaw ==
    Redaction => \A i \in DOMAIN auditLog : auditLog[i].info.errMsg \notin Raw

\* admin_register_vault_secret inserts the credential the administrator sent
\* ("insert secure private credentials directly into the integrated Vault").
SecretStoredAsSent == secret.stored = secret.asked

\* "A complete compliance audit trail records all tool executions" (README.md):
\* a call that was made is in audit_logs in the end, if the process lives on.
EveryCallAudited ==
    \A n \in 1 .. MaxCalls : (issued >= n) ~> (n \in Audit!Logged \/ server # "up")

\* "Graceful shutdown ... drains in-flight requests": after SIGTERM the process
\* ends.
ShutdownCompletes == server = "draining" ~> server = "down"
=============================================================================
