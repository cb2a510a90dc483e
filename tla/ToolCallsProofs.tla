-------------------------- MODULE ToolCallsProofs --------------------------
(***************************************************************************)
(* The tools/call pipeline, for any number of request goroutines, any set of *)
(* requests and faults, and a channel of any capacity.                       *)
(***************************************************************************)
EXTENDS ToolCalls, FiniteSetTheorems, SequenceTheorems, TLAPS

-----------------------------------------------------------------------------
(* The handlers' records.                                                   *)

Rows == {NoRow} \cup [def : Defs, pin : Defs \cup {NoPin}]

Pcs == {"idle", "denied", "pinEndpoints", "pinConnections", "refused", "checked",
        "callEndpoints", "callConnections", "executing", "admin", "returning",
        "returned", "answered"}

HandlerRecord == [pc : Pcs, req : Requests, ep : Rows, ok : BOOLEAN, data : Data,
                  raced : BOOLEAN]

HandlersOK == handler \in [Handlers -> HandlerRecord]

RowsOK == endpoint \in Rows /\ enabled \in BOOLEAN /\ server \in {"up", "draining", "down"}
          /\ secret \in [asked : Data, stored : Data]

LEMMA IdleType ==
    /\ IdleHandler \in HandlerRecord /\ IdleHandler.pc = "idle"
    /\ IdleHandler.ep = NoRow /\ IdleHandler.raced = FALSE /\ IdleHandler.data = "clean"
  <1> DEFINE r == CHOOSE x \in Requests : TRUE
  <1>1. r \in Requests
    BY ToolCallsAssumption
  <1>2. IdleHandler = [pc |-> "idle", req |-> r, ep |-> NoRow, ok |-> FALSE, data |-> "clean",
                       raced |-> FALSE]
    BY DEF IdleHandler
  <1> HIDE DEF r
  <1> QED
    BY <1>1, <1>2 DEF HandlerRecord, Pcs, Rows, Data

LEMMA RedactType ==
    ASSUME NEW d \in Data
    PROVE  /\ RedactMap(d) \in Data /\ (Redaction => RedactMap(d) # "raw")
           /\ RedactBytes(d) \in Data /\ (Redaction => RedactBytes(d) \notin Raw)
  BY DEF RedactMap, RedactBytes, Data, Raw

LEMMA RequestType ==
    ASSUME NEW r \in Requests
    PROVE  r.args \in Data
  BY ToolCallsAssumption DEF Request, Data

\* What each step of a handler makes of its record; the other handlers keep theirs.
LEMMA HandlerStepType ==
    ASSUME HandlersOK, RowsOK, NEW h \in Handlers, HandlerStep(h)
    PROVE  /\ handler' = [handler EXCEPT ![h] = handler'[h]]
           /\ handler'[h] \in HandlerRecord
           /\ handler'[h].pc # "idle" => handler'[h].req = handler[h].req
                                         /\ handler'[h].raced = handler[h].raced
  <1>0. handler \in [Handlers -> HandlerRecord] /\ handler[h] \in HandlerRecord /\ endpoint \in Rows
    BY DEF HandlersOK, RowsOK
  <1> DEFINE P(r) == /\ handler' = [handler EXCEPT ![h] = r]
                     /\ r \in HandlerRecord
                     /\ r.pc # "idle" => r.req = handler[h].req /\ r.raced = handler[h].raced
  <1>a. ASSUME NEW r, P(r)
        PROVE  /\ handler' = [handler EXCEPT ![h] = handler'[h]]
               /\ handler'[h] \in HandlerRecord
               /\ handler'[h].pc # "idle" => handler'[h].req = handler[h].req
                                             /\ handler'[h].raced = handler[h].raced
    BY <1>0, <1>a
  <1>b. ASSUME NEW pc \in Pcs, Goto(h, pc)
        PROVE  P([handler[h] EXCEPT !.pc = pc])
    <2>1. handler' = [handler EXCEPT ![h] = [handler[h] EXCEPT !.pc = pc]]
      BY <1>b, <1>0 DEF Goto
    <2> QED
      BY <1>0, <1>b, <2>1 DEF HandlerRecord
  <1>c. ASSUME NEW ok \in BOOLEAN, NEW data \in Data, NEW pc \in Pcs, Reply(h, ok, data, pc)
        PROVE  P([handler[h] EXCEPT !.ok = ok, !.data = data, !.pc = pc])
    <2>1. handler' = [handler EXCEPT ![h] = [handler[h] EXCEPT !.ok = ok, !.data = data, !.pc = pc]]
      BY <1>c, <1>0 DEF Reply
    <2> QED
      BY <1>0, <1>c, <2>1 DEF HandlerRecord
  <1>d. ASSUME NEW at, NEW next \in Pcs, ReadEndpoints(h, at, next)
        PROVE  P([handler[h] EXCEPT !.ep = endpoint, !.pc = next])
    <2>1. handler' = [handler EXCEPT ![h] = [handler[h] EXCEPT !.ep = endpoint, !.pc = next]]
      BY <1>d, <1>0 DEF ReadEndpoints
    <2> QED
      BY <1>0, <1>d, <2>1 DEF HandlerRecord
  <1> HIDE DEF P
  <1>1. CASE PinReadEndpoints(h) \/ CallReadEndpoints(h)
    BY <1>1, <1>a, <1>d DEF PinReadEndpoints, CallReadEndpoints, Pcs
  <1>2. CASE PinReadConnections(h)
    BY <1>2, <1>a, <1>b DEF PinReadConnections, Pcs
  <1>3. CASE CallBegin(h)
    <2> DEFINE pc == IF Admin(handler[h].req.tool) THEN "admin" ELSE "callEndpoints"
               d == RedactMap(handler[h].req.args)
    <2>1. handler' = [handler EXCEPT ![h] = [handler[h] EXCEPT !.data = d, !.pc = pc]]
      BY <1>0, <1>3 DEF CallBegin
    <2>2. pc \in Pcs /\ d \in Data
      BY <1>0, RequestType, RedactType DEF Pcs, HandlerRecord
    <2> HIDE DEF pc, d
    <2>3. P([handler[h] EXCEPT !.data = d, !.pc = pc])
      BY <1>0, <2>1, <2>2 DEF P, HandlerRecord
    <2> QED
      BY <1>a, <2>3
  <1>4. CASE CallReadConnections(h)
    BY <1>4, <1>a, <1>b, <1>c DEF CallReadConnections, Pcs, Data
  <1>5. ASSUME NEW ok \in BOOLEAN, NEW body \in {"clean", "rawBody"}, Execute(h, ok, body)
        PROVE  \E r : P(r)
    BY <1>5, <1>c DEF Execute, Pcs, Data
  <1>6. CASE ExecuteFails(h) \/ AdminTool(h)
    <2>1. \A text \in {"clean", handler[h].data} : text \in Data
      BY <1>0 DEF HandlerRecord, Data
    <2>2. PICK ok \in BOOLEAN, text \in {"clean", handler[h].data} : Reply(h, ok, text, "returning")
      BY <1>6 DEF ExecuteFails, AdminTool
    <2> QED
      BY <1>a, <1>c, <2>1, <2>2 DEF Pcs
  <1>7. CASE CallReturns(h)
    BY <1>7, <1>a, <1>b DEF CallReturns, Pcs
  <1>8. CASE Finish(h)
    <2> DEFINE d == IF handler[h].ok THEN RedactBytes(handler[h].data) ELSE handler[h].data
    <2>1. handler' = [handler EXCEPT ![h] = [handler[h] EXCEPT !.data = d, !.pc = "answered"]]
      BY <1>0, <1>8 DEF Finish
    <2>2. d \in Data
      BY <1>0, RedactType DEF HandlerRecord
    <2> HIDE DEF d
    <2>3. P([handler[h] EXCEPT !.data = d, !.pc = "answered"])
      BY <1>0, <2>1, <2>2 DEF P, HandlerRecord, Pcs
    <2> QED
      BY <1>a, <2>3
  <1>9. CASE ReadFails(h)
    BY <1>9, <1>a, <1>c DEF ReadFails, Pcs, Data
  <1>10. CASE Respond(h)
    <2>1. P(IdleHandler)
      BY <1>10, IdleType DEF P, Respond
    <2> QED
      BY <1>a, <2>1
  <1> QED
    BY <1>1, <1>2, <1>3, <1>4, <1>5, <1>6, <1>7, <1>8, <1>9, <1>10, <1>a DEF HandlerStep

\* A request arrives: only its handler changes, and is on its way.
LEMMA ReceiveType ==
    ASSUME HandlersOK, NEW h \in Handlers, NEW req \in Requests, Receive(h, req)
    PROVE  /\ handler' = [handler EXCEPT ![h] = handler'[h]]
           /\ handler'[h] \in HandlerRecord
           /\ handler'[h].pc \in {"denied", "pinEndpoints", "checked"}
           /\ handler'[h].pc = "checked" => ~ Strict \/ Admin(req.tool)
           /\ handler'[h].req = req /\ handler'[h].ep = NoRow /\ handler'[h].raced = FALSE
           /\ handler'[h].data = "clean"
  <1> DEFINE pc == IF ~ Authorized(req) THEN "denied"
                   ELSE IF Strict /\ ~ Admin(req.tool) THEN "pinEndpoints" ELSE "checked"
             r == [IdleHandler EXCEPT !.req = req, !.pc = pc]
  <1>1. handler' = [handler EXCEPT ![h] = r]
    BY DEF Receive
  <1>2. pc \in {"denied", "pinEndpoints", "checked"} /\ (pc = "checked" => ~ Strict \/ Admin(req.tool))
    OBVIOUS
  <1> HIDE DEF pc
  <1>3. r \in HandlerRecord /\ r.pc = pc /\ r.req = req /\ r.ep = NoRow /\ r.raced = FALSE
        /\ r.data = "clean"
    BY <1>2, IdleType DEF HandlerRecord, Pcs
  <1> HIDE DEF r
  <1>4. handler'[h] = r
    BY <1>1 DEF HandlersOK
  <1> QED
    BY <1>1, <1>2, <1>3, <1>4

\* An edit of the rows leaves a handler what it was, but for the mark of the race.
LEMMA RaceType ==
    ASSUME HandlersOK, RaceAll
    PROVE  /\ handler' \in [Handlers -> HandlerRecord]
           /\ \A g \in Handlers :
                 /\ handler'[g].pc = handler[g].pc /\ handler'[g].req = handler[g].req
                 /\ handler'[g].ep = handler[g].ep /\ handler'[g].data = handler[g].data
                 /\ handler'[g].ok = handler[g].ok
                 /\ handler'[g].raced = (handler[g].raced \/ handler[g].pc # "idle")
  <1>1. \A g \in Handlers : handler[g] \in HandlerRecord
    BY DEF HandlersOK
  <1>2. \A g \in Handlers : handler'[g] =
            [handler[g] EXCEPT !.raced = handler[g].raced \/ handler[g].pc # "idle"]
    BY <1>1 DEF RaceAll, HandlerRecord
  <1>3. \A g \in Handlers : (handler[g].raced \/ handler[g].pc # "idle") \in BOOLEAN
    OBVIOUS
  <1>4. \A g \in Handlers : handler'[g] \in HandlerRecord
    BY <1>1, <1>2, <1>3 DEF HandlerRecord
  <1>5. handler' = [g \in Handlers |-> handler'[g]]
    BY DEF RaceAll
  <1> QED
    BY <1>1, <1>2, <1>4, <1>5 DEF HandlerRecord

\* Every kind of step, as the invariants below see it.
HandlerMoves(h) ==
    /\ handler' = [handler EXCEPT ![h] = handler'[h]]
    /\ handler'[h] \in HandlerRecord
    /\ UNCHANGED <<endpoint, enabled, edits, tampered, server>>

RowsChange ==
    /\ UNCHANGED <<server, activeQueries, secret, auditVars, calls, started, aborted, sent>>
    /\ \/ (\E d \in Defs : SaveEndpoint(d)) \/ DeleteEndpoint \/ SetEnabled
       \/ \E d \in Defs : Tamper(d)

ProcessChanges ==
    /\ UNCHANGED <<dbVars, secret, calls, started, sent>>
    /\ \/ UNCHANGED <<handler, activeQueries, aborted>> /\ (UNCHANGED auditVars \/ WorkerStep)
          /\ server' \in {"up", "draining", "down"}
       \/ Ends

LEMMA StepKinds ==
    ASSUME HandlersOK, RowsOK, [Next]_vars
    PROVE  \/ \E h \in Handlers, req \in Requests : HandlerMoves(h) /\ Receive(h, req)
           \/ \E h \in Handlers : HandlerMoves(h) /\ HandlerStep(h)
           \/ RowsChange
           \/ ProcessChanges
           \/ UNCHANGED vars
  <1>1. ASSUME NEW h \in Handlers, NEW req \in Requests, Receive(h, req)
        PROVE  HandlerMoves(h)
    BY <1>1, ReceiveType DEF HandlerMoves, Receive, dbVars
  <1>2. ASSUME NEW h \in Handlers, HandlerStep(h)
        PROVE  HandlerMoves(h)
    <2>1. UNCHANGED <<dbVars, server>>
      BY <1>2 DEF HandlerStep, PinReadEndpoints, PinReadConnections, CallBegin,
           CallReadEndpoints, CallReadConnections, Execute, ExecuteFails, AdminTool,
           CallReturns, Finish, ReadFails, Respond
    <2> QED
      BY <1>2, <2>1, HandlerStepType DEF HandlerMoves, dbVars
  <1>3. ASSUME \/ \E d \in Defs : SaveEndpoint(d)
               \/ DeleteEndpoint \/ SetEnabled
               \/ \E d \in Defs : Tamper(d)
        PROVE  RowsChange
    <2>1. UNCHANGED <<server, activeQueries, secret, auditVars, calls, started, aborted, sent>>
      BY <1>3 DEF SaveEndpoint, DeleteEndpoint, SetEnabled, Tamper
    <2> QED
      BY <1>3, <2>1 DEF RowsChange
  <1>4. CASE WorkerStep
    BY <1>4 DEF WorkerStep, ProcessChanges, RowsOK
  <1>5. CASE Shutdown \/ Restart
    BY <1>5 DEF Shutdown, Restart, ProcessChanges
  <1>6. CASE Exit \/ Crash
    BY <1>6 DEF Exit, Crash, Ends, ProcessChanges
  <1> QED
    BY <1>1, <1>2, <1>3, <1>4, <1>5, <1>6 DEF Next

LEMMA ShapeStep == HandlersOK /\ RowsOK /\ [Next]_vars => HandlersOK' /\ RowsOK'
  <1> SUFFICES ASSUME HandlersOK, RowsOK, [Next]_vars PROVE HandlersOK' /\ RowsOK'
    OBVIOUS
  <1>1. ASSUME NEW h \in Handlers, HandlerMoves(h), HandlerStep(h)
        PROVE  HandlersOK' /\ RowsOK'
    <2>1. HandlersOK'
      BY <1>1 DEF HandlerMoves, HandlersOK
    <2>2. handler[h] \in HandlerRecord /\ handler[h].data \in Data /\ handler[h].req.args \in Data
      BY RequestType DEF HandlersOK, HandlerRecord
    <2>3. secret' = secret \/ secret' = [asked |-> handler[h].req.args, stored |-> handler[h].data]
      BY <1>1 DEF HandlerStep, PinReadEndpoints, PinReadConnections, CallBegin,
           CallReadEndpoints, CallReadConnections, Execute, ExecuteFails, AdminTool,
           CallReturns, Finish, ReadFails, Respond
    <2> QED
      BY <1>1, <2>1, <2>2, <2>3 DEF HandlerMoves, RowsOK
  <1>2. ASSUME NEW h \in Handlers, NEW req \in Requests, HandlerMoves(h), Receive(h, req)
        PROVE  HandlersOK' /\ RowsOK'
    BY <1>2 DEF HandlerMoves, HandlersOK, RowsOK, Receive
  <1>3. CASE RowsChange
    <2>1. ASSUME NEW d \in Defs, SaveEndpoint(d)
          PROVE  HandlersOK' /\ endpoint' \in Rows /\ enabled' \in BOOLEAN
      BY <2>1 DEF SaveEndpoint, HandlersOK, RowsOK, Rows
    <2>2. CASE DeleteEndpoint
      BY <1>3, <2>2 DEF RowsChange, DeleteEndpoint, HandlersOK, RowsOK, Rows
    <2>3. CASE SetEnabled
      <3>1. HandlersOK'
        BY <2>3, RaceType DEF SetEnabled, HandlersOK
      <3> QED
        BY <1>3, <2>3, <3>1 DEF RowsChange, SetEnabled, RowsOK
    <2>4. ASSUME NEW d \in Defs, Tamper(d)
          PROVE  HandlersOK' /\ endpoint' \in Rows /\ enabled' \in BOOLEAN
      <3>1. HandlersOK'
        BY <2>4, RaceType DEF Tamper, HandlersOK
      <3>2. endpoint \in [def : Defs, pin : Defs \cup {NoPin}] /\ enabled \in BOOLEAN
        BY <2>4 DEF Tamper, RowsOK, Rows
      <3>3. endpoint' = [endpoint EXCEPT !.def = d] /\ enabled' = enabled
        BY <2>4 DEF Tamper
      <3> QED
        BY <3>1, <3>2, <3>3 DEF Rows
    <2> QED
      BY <1>3, <2>1, <2>2, <2>3, <2>4 DEF RowsChange, RowsOK
  <1>4. CASE ProcessChanges
    <2>1. HandlersOK'
      BY <1>4, IdleType DEF ProcessChanges, Ends, HandlersOK
    <2> QED
      BY <1>4, <2>1 DEF ProcessChanges, Ends, RowsOK, dbVars
  <1>5. CASE UNCHANGED vars
    BY <1>5 DEF vars, HandlersOK, RowsOK
  <1> QED
    BY <1>1, <1>2, <1>3, <1>4, <1>5, StepKinds

LEMMA ShapeCorrect == Spec => [](HandlersOK /\ RowsOK)
  <1>1. Init => HandlersOK /\ RowsOK
    <2> SUFFICES ASSUME Init PROVE HandlersOK /\ RowsOK
      OBVIOUS
    <2>1. HandlersOK
      BY IdleType DEF Init, HandlersOK
    <2>2. endpoint \in Rows
      BY DEF Init, Rows
    <2> QED
      BY <2>1, <2>2 DEF Init, RowsOK, Data
  <1> QED
    BY <1>1, ShapeStep, PTL DEF Spec

-----------------------------------------------------------------------------
(* What a step of a handler does to its program counter, to what it carries  *)
(* and to the counters, action by action.                                    *)

Carries(a, b) == b.ep = a.ep /\ b.ok = a.ok /\ b.data = a.data
Uncounted == UNCHANGED <<activeQueries, started, issued, sent>>

Effect(h, a, b) ==
    \/ /\ a.pc = "pinEndpoints" /\ b.pc = "pinConnections"
       /\ b.ep = endpoint /\ b.ok = a.ok /\ b.data = a.data /\ Uncounted
    \/ /\ a.pc = "pinConnections"
       /\ b.pc = IF Changed(Found(h)) THEN "refused" ELSE "checked"
       /\ Carries(a, b) /\ Uncounted
    \/ /\ a.pc = "checked" /\ b.pc = IF Admin(a.req.tool) THEN "admin" ELSE "callEndpoints"
       /\ b.ep = a.ep /\ b.ok = a.ok /\ b.data = RedactMap(a.req.args)
       /\ activeQueries' = activeQueries + 1 /\ started' = started + 1
       /\ issued' = issued /\ sent' = sent
    \/ /\ a.pc = "callEndpoints" /\ b.pc = "callConnections"
       /\ b.ep = endpoint /\ b.ok = a.ok /\ b.data = a.data /\ Uncounted
    \/ /\ a.pc = "callConnections" /\ b.pc = "executing" /\ Found(h) # NoRow
       /\ Carries(a, b) /\ Uncounted
    \/ /\ a.pc \in {"callEndpoints", "callConnections", "admin"} /\ b.pc = "returning"
       /\ b.ep = a.ep /\ b.data \in {"clean", a.data} /\ Uncounted
    \/ /\ a.pc = "executing" /\ b.pc = "returning" /\ b.ep = a.ep
       /\ b.data \in {"clean", "rawBody", a.data}
       /\ sent' \in {sent, sent \cup {a.data}}
       /\ UNCHANGED <<activeQueries, started, issued>>
    \/ /\ a.pc = "returning" /\ b.pc = "returned"
       /\ Carries(a, b) /\ activeQueries' = activeQueries - 1
       /\ started' = started /\ issued' = issued /\ sent' = sent
    \/ /\ a.pc = "returned" /\ b.pc = "answered"
       /\ b.ep = a.ep /\ b.ok = a.ok /\ b.data = IF a.ok THEN RedactBytes(a.data) ELSE a.data
       /\ issued' = issued + 1
       /\ activeQueries' = activeQueries /\ started' = started /\ sent' = sent
    \/ /\ a.pc \in {"pinEndpoints", "pinConnections"} /\ b.pc = "answered"
       /\ b.ep = a.ep /\ b.ok = FALSE /\ b.data = "clean" /\ Uncounted
    \/ /\ a.pc \in {"denied", "refused", "answered"} /\ b = IdleHandler /\ Uncounted

LEMMA HandlerEffect ==
    ASSUME HandlersOK, RowsOK, NEW h \in Handlers, HandlerStep(h)
    PROVE  Effect(h, handler[h], handler'[h]) /\ aborted' = aborted
  <1>0. handler \in [Handlers -> HandlerRecord] /\ handler[h] \in HandlerRecord
    BY DEF HandlersOK
  <1>a. ASSUME NEW pc, Goto(h, pc)
        PROVE  handler'[h].pc = pc /\ Carries(handler[h], handler'[h])
    BY <1>0, <1>a DEF Goto, Carries, HandlerRecord
  <1>b. ASSUME NEW ok, NEW data, NEW pc, Reply(h, ok, data, pc)
        PROVE  /\ handler'[h].pc = pc /\ handler'[h].ok = ok /\ handler'[h].ep = handler[h].ep
               /\ handler'[h].data = data
    BY <1>0, <1>b DEF Reply, HandlerRecord
  <1>c. ASSUME NEW at, NEW next, ReadEndpoints(h, at, next)
        PROVE  /\ handler[h].pc = at /\ handler'[h].pc = next /\ handler'[h].ep = endpoint
               /\ handler'[h].ok = handler[h].ok /\ handler'[h].data = handler[h].data
    BY <1>0, <1>c DEF ReadEndpoints, HandlerRecord
  <1>1. CASE PinReadEndpoints(h) \/ CallReadEndpoints(h)
    BY <1>1, <1>c DEF PinReadEndpoints, CallReadEndpoints, Effect, Uncounted, auditVars
  <1>2. CASE PinReadConnections(h)
    BY <1>2, <1>a DEF PinReadConnections, Effect, Uncounted, auditVars
  <1>3. CASE CallBegin(h)
    <2>1. /\ handler'[h].data = RedactMap(handler[h].req.args)
          /\ handler'[h].pc = IF Admin(handler[h].req.tool) THEN "admin" ELSE "callEndpoints"
          /\ handler'[h].ep = handler[h].ep /\ handler'[h].ok = handler[h].ok
      BY <1>0, <1>3 DEF CallBegin, HandlerRecord
    <2> QED
      BY <1>3, <2>1 DEF CallBegin, Effect, auditVars
  <1>4. CASE CallReadConnections(h)
    BY <1>4, <1>a, <1>b DEF CallReadConnections, Effect, Uncounted, auditVars
  <1>5. ASSUME NEW ok \in BOOLEAN, NEW body \in {"clean", "rawBody"}, Execute(h, ok, body)
        PROVE  Effect(h, handler[h], handler'[h]) /\ aborted' = aborted
    BY <1>5, <1>b DEF Execute, Effect, auditVars
  <1>6. CASE ExecuteFails(h)
    BY <1>6, <1>b DEF ExecuteFails, Effect, auditVars
  <1>7. CASE AdminTool(h)
    BY <1>7, <1>b DEF AdminTool, Effect, Uncounted, auditVars
  <1>8. CASE CallReturns(h)
    BY <1>8, <1>a DEF CallReturns, Effect, auditVars
  <1>9. CASE Finish(h)
    <2>1. /\ handler'[h].data = IF handler[h].ok THEN RedactBytes(handler[h].data) ELSE handler[h].data
          /\ handler'[h].pc = "answered"
          /\ handler'[h].ep = handler[h].ep /\ handler'[h].ok = handler[h].ok
      BY <1>0, <1>9 DEF Finish, HandlerRecord
    <2>2. issued' = issued + 1
      BY <1>9 DEF Finish, Audit!LogAuditAsync
    <2> QED
      BY <1>9, <2>1, <2>2 DEF Finish, Effect
  <1>10. CASE ReadFails(h)
    BY <1>10, <1>b DEF ReadFails, Effect, Uncounted, auditVars
  <1>11. CASE Respond(h)
    BY <1>0, <1>11 DEF Respond, Effect, Uncounted, auditVars
  <1> QED
    BY <1>1, <1>2, <1>3, <1>4, <1>5, <1>6, <1>7, <1>8, <1>9, <1>10, <1>11 DEF HandlerStep

-----------------------------------------------------------------------------
(* Redaction: what a handler carries to the upstream API is redacted, and so *)
(* is the result it answers with.                                            *)

Masked(a) == a.data # "raw" /\ (a.pc = "answered" /\ a.ok => a.data \notin Raw)

RedactionInv == Redaction => "raw" \notin sent /\ \A h \in Handlers : Masked(handler[h])

LEMMA RedactionStep ==
    HandlersOK /\ RowsOK /\ RedactionInv /\ [Next]_vars => RedactionInv'
  <1> SUFFICES ASSUME HandlersOK, RowsOK, RedactionInv, [Next]_vars, Redaction
               PROVE  "raw" \notin sent' /\ \A g \in Handlers : Masked(handler'[g])
    BY DEF RedactionInv
  <1>0. "raw" \notin sent /\ \A g \in Handlers : Masked(handler[g])
    BY DEF RedactionInv
  <1>1. ASSUME NEW h \in Handlers, HandlerMoves(h), Masked(handler'[h]), "raw" \notin sent'
        PROVE  "raw" \notin sent' /\ \A g \in Handlers : Masked(handler'[g])
    BY <1>0, <1>1 DEF HandlerMoves, HandlersOK
  <1>2. ASSUME NEW h \in Handlers, HandlerMoves(h), HandlerStep(h)
        PROVE  Masked(handler'[h]) /\ "raw" \notin sent'
    <2>1. Effect(h, handler[h], handler'[h])
      BY <1>2, HandlerEffect
    <2>2. /\ handler[h].data \in Data /\ handler[h].req.args \in Data
          /\ Masked(handler[h])
      BY <1>0, RequestType DEF HandlersOK, HandlerRecord
    <2>3. RedactBytes(handler[h].data) \notin Raw /\ RedactMap(handler[h].req.args) # "raw"
      BY <2>2, RedactType
    <2>4. "raw" \notin sent'
      BY <1>0, <2>1, <2>2 DEF Effect, Uncounted, Masked
    <2>5. handler'[h].data # "raw"
      BY <2>1, <2>2, <2>3, IdleType DEF Effect, Carries, Masked, Raw
    <2>6. handler'[h].pc = "answered" /\ handler'[h].ok => handler'[h].data \notin Raw
      BY <2>1, <2>3, IdleType DEF Effect, Raw
    <2> QED
      BY <2>4, <2>5, <2>6 DEF Masked
  <1>3. ASSUME NEW h \in Handlers, NEW req \in Requests, HandlerMoves(h), Receive(h, req)
        PROVE  Masked(handler'[h]) /\ "raw" \notin sent'
    <2>1. handler'[h].pc \in {"denied", "pinEndpoints", "checked"} /\ handler'[h].data = "clean"
      BY <1>3, ReceiveType
    <2> QED
      BY <1>0, <1>3, <2>1 DEF Masked, Receive
  <1>4. CASE RowsChange
    <2>1. handler' = handler \/ RaceAll
      BY <1>4 DEF RowsChange, SaveEndpoint, DeleteEndpoint, SetEnabled, Tamper
    <2>2. sent' = sent
      BY <1>4 DEF RowsChange
    <2> QED
      BY <1>0, <2>1, <2>2, RaceType DEF Masked
  <1>5. CASE ProcessChanges
    BY <1>0, <1>5, IdleType DEF ProcessChanges, Ends, Masked
  <1>6. CASE UNCHANGED vars
    BY <1>0, <1>6 DEF vars
  <1> QED
    BY <1>1, <1>2, <1>3, <1>4, <1>5, <1>6, StepKinds

LEMMA RedactionCorrect == Spec => []RedactionInv
  <1>1. Init => RedactionInv
    BY IdleType DEF Init, RedactionInv, Masked
  <1> QED
    BY <1>1, ShapeCorrect, RedactionStep, PTL DEF Spec

-----------------------------------------------------------------------------
(* Pinning.                                                                 *)

\* A row as SaveEndpoint leaves it, or one from before there were pins.
AsSaved(row) == row = NoRow \/ row.pin \in {NoPin, row.def}

LEMMA SavedIsNotChanged ==
    ASSUME ~ Prefixed, NEW row, AsSaved(row)
    PROVE  ~ Changed(row)
  BY DEF AsSaved, Changed, Pin, ResolvedName, Hash

\* A refusal of a row nobody tampered with is that of a pinned tool with a prefix.
Excused(a) == a.pc = "refused" => Prefixed /\ a.ep # NoRow /\ a.ep.pin # NoPin

PinInv == tampered \/ (AsSaved(endpoint) /\ \A h \in Handlers :
              AsSaved(handler[h].ep) /\ Excused(handler[h]))

LEMMA PinStep == HandlersOK /\ RowsOK /\ PinInv /\ [Next]_vars => PinInv'
  <1> SUFFICES ASSUME HandlersOK, RowsOK, PinInv, [Next]_vars, ~ tampered'
               PROVE  AsSaved(endpoint') /\ \A g \in Handlers :
                          AsSaved(handler'[g].ep) /\ Excused(handler'[g])
    BY DEF PinInv
  <1> DEFINE Fine(a) == AsSaved(a.ep) /\ Excused(a)
  <1>a. ~ tampered
    <2>1. ASSUME NEW h \in Handlers, HandlerMoves(h) PROVE ~ tampered
      BY <2>1 DEF HandlerMoves
    <2>2. ASSUME RowsChange PROVE ~ tampered
      BY <2>2 DEF RowsChange, SaveEndpoint, DeleteEndpoint, SetEnabled, Tamper
    <2>3. ASSUME ProcessChanges \/ UNCHANGED vars PROVE ~ tampered
      BY <2>3 DEF ProcessChanges, dbVars, vars
    <2> QED
      BY <2>1, <2>2, <2>3, StepKinds
  <1>0. AsSaved(endpoint) /\ \A g \in Handlers : Fine(handler[g])
    BY <1>a DEF PinInv
  <1>i. Fine(IdleHandler)
    BY IdleType DEF AsSaved, Excused
  <1> HIDE DEF Fine
  <1> SUFFICES AsSaved(endpoint') /\ \A g \in Handlers : Fine(handler'[g])
    BY DEF Fine
  <1>1. ASSUME NEW h \in Handlers, HandlerMoves(h), Fine(handler'[h])
        PROVE  AsSaved(endpoint') /\ \A g \in Handlers : Fine(handler'[g])
    BY <1>0, <1>1 DEF HandlerMoves, HandlersOK
  <1>2. ASSUME NEW h \in Handlers, HandlerMoves(h), HandlerStep(h)
        PROVE  Fine(handler'[h])
    <2>1. Effect(h, handler[h], handler'[h])
      BY <1>2, HandlerEffect
    <2>2. AsSaved(handler[h].ep)
      BY <1>0 DEF Fine
    <2>3. Changed(Found(h)) => Prefixed /\ handler[h].ep # NoRow /\ handler[h].ep.pin # NoPin
      <3>1. AsSaved(NoRow)
        BY DEF AsSaved
      <3>2. AsSaved(Found(h))
        BY <2>2, <3>1 DEF Found
      <3>3. Changed(Found(h)) => Prefixed
        BY <3>2, SavedIsNotChanged
      <3>4. Changed(Found(h)) => Found(h) # NoRow /\ Found(h).pin # NoPin
        BY DEF Changed
      <3> QED
        BY <3>3, <3>4 DEF Found
    <2>4. Excused(handler'[h])
      <3>1. handler'[h].pc = "refused" => Changed(Found(h)) /\ handler'[h].ep = handler[h].ep
        BY <2>1, IdleType DEF Effect, Admin, Carries
      <3> QED
        BY <2>3, <3>1 DEF Excused
    <2>5. handler'[h].ep = handler[h].ep \/ handler'[h].ep = endpoint \/ handler'[h] = IdleHandler
      BY <2>1 DEF Effect, Carries
    <2> QED
      BY <1>0, <1>i, <2>2, <2>4, <2>5 DEF Fine
  <1>3. ASSUME NEW h \in Handlers, NEW req \in Requests, HandlerMoves(h), Receive(h, req)
        PROVE  Fine(handler'[h])
    <2>1. handler'[h].pc \in {"denied", "pinEndpoints", "checked"} /\ handler'[h].ep = NoRow
      BY <1>3, ReceiveType
    <2> QED
      BY <2>1 DEF Fine, AsSaved, Excused
  <1>4. CASE RowsChange
    <2>1. ASSUME NEW d \in Defs, Tamper(d) PROVE FALSE
      BY <2>1 DEF Tamper
    <2>2. ASSUME NEW d \in Defs, SaveEndpoint(d) PROVE AsSaved(endpoint') /\ handler' = handler
      BY <2>2 DEF SaveEndpoint, AsSaved
    <2>3. CASE DeleteEndpoint
      BY <1>0, <2>3 DEF DeleteEndpoint, AsSaved
    <2>4. CASE SetEnabled
      <3>1. AsSaved(endpoint') /\ (handler' = handler \/ RaceAll)
        BY <1>0, <2>4 DEF SetEnabled
      <3> QED
        BY <1>0, <3>1, RaceType DEF Fine, Excused
    <2> QED
      BY <1>0, <1>4, <2>1, <2>2, <2>3, <2>4 DEF RowsChange
  <1>5. CASE ProcessChanges
    BY <1>0, <1>i, <1>5 DEF ProcessChanges, Ends, dbVars
  <1>6. CASE UNCHANGED vars
    BY <1>0, <1>6 DEF vars
  <1> QED
    BY <1>1, <1>2, <1>3, <1>4, <1>5, <1>6, StepKinds

\* Strict pinning refuses a tool only after a row was changed without its hash, or because
\* a pinned tool's connection has a tool_prefix, whatever saves, deletes and toggles race
\* the two reads of findEndpoint (toolDefinitionChanged).
THEOREM RefusalsHaveACause == Spec => []RefusedForCause
  <1>1. Init => PinInv
    BY IdleType DEF Init, PinInv, AsSaved, Excused
  <1>2. PinInv => RefusedForCause
    BY DEF PinInv, RefusedForCause, Excused
  <1>3. HandlersOK /\ RowsOK /\ PinInv /\ [Next]_vars => PinInv'
    BY PinStep
  <1> QED
    BY <1>1, <1>2, <1>3, ShapeCorrect, PTL DEF Spec

\* What a strict call knows of the row at each of its reads, unless a change of
\* the row, or the enabling of its connection, overtook it: the pin check saw the
\* row that is there now, or one that has been saved since.
Vetted(a, row, on) == a.raced \/
    /\ a.pc = "pinConnections" /\ Changed(row) => Changed(a.ep)
    /\ a.pc = "checked" /\ ~ Admin(a.req.tool) => ~ Changed(row) \/ ~ on
    /\ a.pc = "callEndpoints" => ~ Changed(row) \/ ~ on
    /\ a.pc = "callConnections" => ~ Changed(a.ep) \/ ~ on
    /\ a.pc = "executing" => ~ Changed(a.ep)

VettedInv == Strict => \A h \in Handlers : Vetted(handler[h], endpoint, enabled)

LEMMA VettedStep ==
    ASSUME ~ Prefixed
    PROVE  HandlersOK /\ RowsOK /\ VettedInv /\ [Next]_vars => VettedInv'
  <1> SUFFICES ASSUME HandlersOK, RowsOK, VettedInv, [Next]_vars, Strict
               PROVE  \A g \in Handlers : Vetted(handler'[g], endpoint', enabled')
    BY DEF VettedInv
  <1>0. \A g \in Handlers : Vetted(handler[g], endpoint, enabled)
    BY DEF VettedInv
  <1>i. \A row, on : Vetted(IdleHandler, row, on)
    BY IdleType DEF Vetted
  <1>1. ASSUME NEW h \in Handlers, HandlerMoves(h), Vetted(handler'[h], endpoint, enabled)
        PROVE  \A g \in Handlers : Vetted(handler'[g], endpoint', enabled')
    BY <1>0, <1>1 DEF HandlerMoves, HandlersOK
  <1>2. ASSUME NEW h \in Handlers, HandlerMoves(h), HandlerStep(h)
        PROVE  Vetted(handler'[h], endpoint, enabled)
    <2>1. Effect(h, handler[h], handler'[h])
      BY <1>2, HandlerEffect
    <2>2. handler'[h].pc # "idle" => handler'[h].req = handler[h].req
                                     /\ handler'[h].raced = handler[h].raced
      BY <1>2, HandlerStepType
    <2>4. Vetted(handler[h], endpoint, enabled)
      BY <1>0
    <2>5. ~ Changed(NoRow)
      BY DEF Changed
    <2>6. CASE handler'[h].raced
      BY <2>6 DEF Vetted
    <2>7. CASE handler'[h].pc = "idle"
      BY <2>7 DEF Vetted
    <2>8. CASE ~ handler[h].raced /\ handler'[h].pc # "idle"
      <3>1. handler'[h].pc = "checked" =>
                ~ Changed(endpoint) \/ ~ enabled
        BY <2>1, <2>4, <2>5, <2>8, IdleType DEF Effect, Vetted, Found, Carries
      <3>2. handler'[h].pc = "callEndpoints" => ~ Changed(endpoint) \/ ~ enabled
        BY <2>1, <2>4, <2>8, IdleType DEF Effect, Vetted
      <3>3. handler'[h].pc = "callConnections" => ~ Changed(handler'[h].ep) \/ ~ enabled
        BY <2>1, <2>4, <2>8, IdleType DEF Effect, Vetted
      <3>4. handler'[h].pc = "executing" => ~ Changed(handler'[h].ep)
        BY <2>1, <2>4, <2>8, IdleType DEF Effect, Vetted, Found, Carries
      <3>5. handler'[h].pc = "pinConnections" /\ Changed(endpoint) => Changed(handler'[h].ep)
        BY <2>1, <2>8, IdleType DEF Effect
      <3> QED
        BY <3>1, <3>2, <3>3, <3>4, <3>5 DEF Vetted
    <2> QED
      BY <2>2, <2>6, <2>7, <2>8
  <1>3. ASSUME NEW h \in Handlers, NEW req \in Requests, HandlerMoves(h), Receive(h, req)
        PROVE  Vetted(handler'[h], endpoint, enabled)
    <2>1. /\ handler'[h].pc \in {"denied", "pinEndpoints", "checked"}
          /\ handler'[h].pc = "checked" => Admin(handler'[h].req.tool)
      BY <1>3, ReceiveType
    <2> QED
      BY <2>1 DEF Vetted
  <1>4. CASE RowsChange
    <2>1. ASSUME NEW d \in Defs, SaveEndpoint(d)
          PROVE  \A g \in Handlers : Vetted(handler'[g], endpoint', enabled')
      <3>1. AsSaved(endpoint') /\ handler' = handler /\ enabled' = enabled
        BY <2>1 DEF SaveEndpoint, AsSaved
      <3>2. ~ Changed(endpoint')
        BY <3>1, SavedIsNotChanged
      <3> QED
        BY <1>0, <3>1, <3>2 DEF Vetted
    <2>2. CASE DeleteEndpoint
      <3>1. ~ Changed(endpoint') /\ handler' = handler /\ enabled' = enabled
        BY <2>2 DEF DeleteEndpoint, Changed
      <3> QED
        BY <1>0, <3>1 DEF Vetted
    <2>3. CASE SetEnabled /\ enabled
      <3>1. endpoint' = endpoint /\ handler' = handler /\ enabled' = FALSE
        BY <2>3 DEF SetEnabled, RowsOK
      <3> QED
        BY <1>0, <3>1 DEF Vetted
    <2>4. ASSUME RaceAll
          PROVE  \A g \in Handlers : Vetted(handler'[g], endpoint', enabled')
      <3>1. \A g \in Handlers : handler'[g].raced \/ handler'[g].pc = "idle"
        BY <2>4, RaceType
      <3> QED
        BY <3>1 DEF Vetted
    <2> QED
      BY <1>4, <2>1, <2>2, <2>3, <2>4 DEF RowsChange, SetEnabled, Tamper
  <1>5. CASE ProcessChanges
    BY <1>0, <1>i, <1>5 DEF ProcessChanges, Ends, dbVars
  <1>6. CASE UNCHANGED vars
    BY <1>0, <1>6 DEF vars
  <1> QED
    BY <1>1, <1>2, <1>3, <1>4, <1>5, <1>6, StepKinds

\* A definition that no longer matches its pin when a strict call arrives is not
\* executed, unless the row or its connection changed while the call was under
\* way: findEndpoint reads the rows twice, in the check and in callTool, and the
\* connections after each, with saves and deletes in between.
THEOREM ChangedDefinitionsAreRefused == ASSUME ~ Prefixed PROVE Spec => []ChangedIsRefused
  <1>1. Init => VettedInv
    BY IdleType DEF Init, VettedInv, Vetted
  <1>2. VettedInv => ChangedIsRefused
    BY DEF VettedInv, Vetted, ChangedIsRefused
  <1>3. HandlersOK /\ RowsOK /\ VettedInv /\ [Next]_vars => VettedInv'
    BY VettedStep
  <1> QED
    BY <1>1, <1>2, <1>3, ShapeCorrect, PTL DEF Spec

-----------------------------------------------------------------------------
(* The gauge and the audit records.                                          *)

Calling == {h \in Handlers : InCall(h)}
Running == {h \in Handlers : InCall(h) /\ handler[h].pc # "returned"}

CountInv ==
    /\ issued \in Nat /\ started \in Nat /\ aborted \in Nat /\ activeQueries \in Nat
    /\ IsFiniteSet(Calling)
    /\ activeQueries = Cardinality(Running)
    /\ started = issued + aborted + Cardinality(Calling)

LEMMA CountAdd ==
    ASSUME NEW S, IsFiniteSet(S), NEW x, x \notin S
    PROVE  IsFiniteSet(S \cup {x}) /\ Cardinality(S \cup {x}) = Cardinality(S) + 1
  BY FS_AddElement

LEMMA CountRemove ==
    ASSUME NEW S, IsFiniteSet(S), NEW x \in S
    PROVE  /\ IsFiniteSet(S \ {x}) /\ Cardinality(S \ {x}) = Cardinality(S) - 1
           /\ Cardinality(S) \in Nat
  BY FS_RemoveElement, FS_CardinalityType

LEMMA RunningFinite ==
    ASSUME IsFiniteSet(Calling)
    PROVE  IsFiniteSet(Running) /\ Cardinality(Running) \in Nat /\ Cardinality(Calling) \in Nat
  <1>1. Running \subseteq Calling
    BY DEF Running, Calling
  <1>2. IsFiniteSet(Running)
    BY <1>1, FS_Subset
  <1> QED
    BY <1>2, FS_CardinalityType

\* A step of a handler moves it into or out of the two sets, with the counters.
LEMMA Moves ==
    ASSUME HandlersOK, RowsOK, NEW h \in Handlers, HandlerMoves(h),
           HandlerStep(h) \/ \E req \in Requests : Receive(h, req)
    PROVE  /\ aborted' = aborted
           /\ \/ /\ Calling' = Calling /\ Running' = Running
                 /\ UNCHANGED <<activeQueries, started, issued>>
              \/ /\ h \notin Calling /\ Calling' = Calling \cup {h}
                 /\ h \notin Running /\ Running' = Running \cup {h}
                 /\ activeQueries' = activeQueries + 1 /\ started' = started + 1
                 /\ issued' = issued
              \/ /\ Calling' = Calling /\ h \in Running /\ Running' = Running \ {h}
                 /\ activeQueries' = activeQueries - 1
                 /\ UNCHANGED <<started, issued>>
              \/ /\ h \in Calling /\ Calling' = Calling \ {h} /\ Running' = Running
                 /\ issued' = issued + 1 /\ UNCHANGED <<activeQueries, started>>
  <1> DEFINE C(a) == a.pc \in {"callEndpoints", "callConnections", "executing",
                                "admin", "returning", "returned"}
             R(a) == C(a) /\ a.pc # "returned"
  <1>1. /\ Calling = {g \in Handlers : C(handler[g])}
        /\ Running = {g \in Handlers : R(handler[g])}
        /\ Calling' = {g \in Handlers : C(handler'[g])}
        /\ Running' = {g \in Handlers : R(handler'[g])}
    BY DEF Calling, Running, InCall
  <1>2. \A g \in Handlers : g # h => handler'[g] = handler[g]
    BY DEF HandlerMoves, HandlersOK
  <1>3. CASE HandlerStep(h)
    <2>1. Effect(h, handler[h], handler'[h]) /\ aborted' = aborted
      BY <1>3, HandlerEffect
    <2>2. \/ /\ C(handler[h]) = C(handler'[h]) /\ R(handler[h]) = R(handler'[h])
             /\ UNCHANGED <<activeQueries, started, issued>>
          \/ /\ ~ C(handler[h]) /\ C(handler'[h]) /\ R(handler'[h])
             /\ activeQueries' = activeQueries + 1 /\ started' = started + 1
             /\ issued' = issued
          \/ /\ C(handler[h]) /\ C(handler'[h]) /\ R(handler[h]) /\ ~ R(handler'[h])
             /\ activeQueries' = activeQueries - 1
             /\ UNCHANGED <<started, issued>>
          \/ /\ C(handler[h]) /\ ~ C(handler'[h]) /\ ~ R(handler[h])
             /\ issued' = issued + 1 /\ UNCHANGED <<activeQueries, started>>
      BY <2>1, IdleType DEF Effect, Uncounted
    <2>3. R(handler[h]) => C(handler[h])
      OBVIOUS
    <2>4. R(handler'[h]) => C(handler'[h])
      OBVIOUS
    <2> HIDE DEF C, R
    <2> QED
      BY <1>1, <1>2, <2>1, <2>2, <2>3, <2>4
  <1>4. ASSUME NEW req \in Requests, Receive(h, req)
        PROVE  /\ ~ C(handler[h]) /\ ~ C(handler'[h])
               /\ UNCHANGED <<activeQueries, started, issued, aborted>>
    <2>1. handler[h].pc = "idle" /\ UNCHANGED <<activeQueries, started, issued, aborted>>
      BY <1>4 DEF Receive, auditVars
    <2>2. handler'[h].pc \in {"denied", "pinEndpoints", "checked"}
      BY <1>4, ReceiveType
    <2> QED
      BY <2>1, <2>2
  <1>5. CASE \E req \in Requests : Receive(h, req)
    BY <1>1, <1>2, <1>4, <1>5
  <1> QED
    BY <1>3, <1>5

LEMMA CountStep ==
    HandlersOK /\ RowsOK /\ CountInv /\ [Next]_vars => CountInv'
  <1> SUFFICES ASSUME HandlersOK, RowsOK, CountInv, [Next]_vars PROVE CountInv'
    OBVIOUS
  <1>0. /\ IsFiniteSet(Running) /\ Cardinality(Running) \in Nat /\ Cardinality(Calling) \in Nat
        /\ issued \in Nat /\ started \in Nat /\ aborted \in Nat /\ activeQueries \in Nat
        /\ IsFiniteSet(Calling)
        /\ activeQueries = Cardinality(Running)
        /\ started = issued + aborted + Cardinality(Calling)
    BY RunningFinite DEF CountInv
  <1>1. ASSUME NEW h \in Handlers, HandlerMoves(h),
               HandlerStep(h) \/ \E req \in Requests : Receive(h, req)
        PROVE  CountInv'
    <2>1. CASE /\ Calling' = Calling /\ Running' = Running
               /\ UNCHANGED <<activeQueries, started, issued, aborted>>
      BY <1>0, <2>1 DEF CountInv
    <2>2. CASE /\ h \notin Calling /\ Calling' = Calling \cup {h}
               /\ h \notin Running /\ Running' = Running \cup {h}
               /\ activeQueries' = activeQueries + 1 /\ started' = started + 1
               /\ issued' = issued /\ aborted' = aborted
      <3>1. /\ IsFiniteSet(Calling') /\ Cardinality(Calling') = Cardinality(Calling) + 1
            /\ Cardinality(Running') = Cardinality(Running) + 1
        BY <1>0, <2>2, CountAdd
      <3> QED
        BY <1>0, <2>2, <3>1 DEF CountInv
    <2>3. CASE /\ Calling' = Calling /\ h \in Running /\ Running' = Running \ {h}
               /\ activeQueries' = activeQueries - 1
               /\ UNCHANGED <<started, issued, aborted>>
      <3>1. Cardinality(Running') = Cardinality(Running) - 1
        BY <1>0, <2>3, CountRemove
      <3>2. Cardinality(Running') \in Nat
        BY <1>0, <2>3, FS_RemoveElement, FS_CardinalityType
      <3> QED
        BY <1>0, <2>3, <3>1, <3>2 DEF CountInv
    <2>4. CASE /\ h \in Calling /\ Calling' = Calling \ {h} /\ Running' = Running
               /\ issued' = issued + 1 /\ UNCHANGED <<activeQueries, started, aborted>>
      <3>1. IsFiniteSet(Calling') /\ Cardinality(Calling') = Cardinality(Calling) - 1
        BY <1>0, <2>4, CountRemove
      <3> QED
        BY <1>0, <2>4, <3>1 DEF CountInv
    <2> QED
      BY <1>1, <2>1, <2>2, <2>3, <2>4, Moves
  <1>2. ASSUME \A g \in Handlers : handler'[g].pc = handler[g].pc
        PROVE  Calling' = Calling /\ Running' = Running
    BY <1>2 DEF Calling, Running, InCall
  <1>3. CASE RowsChange
    <2>1. handler' = handler \/ RaceAll
      BY <1>3 DEF RowsChange, SaveEndpoint, DeleteEndpoint, SetEnabled, Tamper
    <2>2. \A g \in Handlers : handler'[g].pc = handler[g].pc
      BY <2>1, RaceType
    <2>3. UNCHANGED <<activeQueries, started, issued, aborted>>
      BY <1>3 DEF RowsChange, auditVars
    <2> QED
      BY <1>0, <1>2, <2>2, <2>3 DEF CountInv
  <1>4. CASE ProcessChanges
    <2>1. issued' = issued /\ started' = started
      BY <1>4 DEF ProcessChanges, Ends, WorkerStep, auditVars, Audit!WorkerTake, Audit!WorkerInsert,
           Audit!WorkerFails, Audit!ProcessEnds
    <2>2. CASE Ends
      <3>1. Calling' = {} /\ Running' = {}
        BY <2>2, IdleType DEF Ends, Calling, Running, InCall
      <3>2. activeQueries' = 0 /\ aborted' = aborted + Cardinality(Calling)
        BY <2>2 DEF Ends, Calling
      <3>3. IsFiniteSet({}) /\ Cardinality({}) = 0
        BY FS_EmptySet
      <3> QED
        BY <1>0, <2>1, <3>1, <3>2, <3>3 DEF CountInv
    <2>3. CASE UNCHANGED <<handler, activeQueries, aborted>>
      BY <1>0, <1>2, <2>1, <2>3 DEF CountInv
    <2> QED
      BY <1>4, <2>2, <2>3 DEF ProcessChanges
  <1>5. CASE UNCHANGED vars
    BY <1>0, <1>2, <1>5 DEF vars, auditVars, CountInv
  <1> QED
    BY <1>1, <1>3, <1>4, <1>5, StepKinds

LEMMA CountCorrect == Spec => [](HandlersOK /\ RowsOK /\ CountInv)
  <1>1. Init => CountInv
    <2> SUFFICES ASSUME Init PROVE CountInv
      OBVIOUS
    <2>1. Calling = {} /\ Running = {}
      BY IdleType DEF Init, Calling, Running, InCall
    <2>2. issued = 0
      BY DEF Init, Audit!Init
    <2> QED
      BY <2>1, <2>2, FS_EmptySet DEF Init, CountInv
  <1> QED
    BY <1>1, ShapeCorrect, CountStep, PTL DEF Spec

\* The rows, the handlers' locals and the gauge have their types; the gauge, which
\* CallReturns lowers, never goes below zero.
THEOREM PipelineTypeCorrect == Spec => []TypeOK
  <1>1. HandlersOK /\ RowsOK /\ CountInv /\ scope \in Scopes => TypeOK
    BY DEF HandlersOK, RowsOK, CountInv, TypeOK, HandlerRecord, Pcs, Rows
  <1>2. Init => scope \in Scopes
    BY DEF Init
  <1>3. [Next]_vars => scope' = scope
    <2> SUFFICES ASSUME [Next]_vars PROVE scope' = scope
      OBVIOUS
    <2>1. ASSUME NEW h \in Handlers, HandlerStep(h) PROVE scope' = scope
      BY <2>1 DEF HandlerStep, PinReadEndpoints, PinReadConnections, CallBegin,
           CallReadEndpoints, CallReadConnections, Execute, ExecuteFails, AdminTool,
           CallReturns, Finish, ReadFails, Respond
    <2>2. ASSUME NEW h \in Handlers, NEW req \in Requests, Receive(h, req) PROVE scope' = scope
      BY <2>2 DEF Receive
    <2>3. ASSUME NEW d \in Defs, SaveEndpoint(d) \/ Tamper(d) PROVE scope' = scope
      BY <2>3 DEF SaveEndpoint, Tamper
    <2>4. CASE DeleteEndpoint \/ SetEnabled
      BY <2>4 DEF DeleteEndpoint, SetEnabled
    <2>5. CASE WorkerStep \/ Shutdown \/ Exit \/ Crash \/ Restart
      BY <2>5 DEF WorkerStep, Shutdown, Exit, Crash, Restart, Ends
    <2>6. CASE UNCHANGED vars
      BY <2>6 DEF vars
    <2> QED
      BY <2>1, <2>2, <2>3, <2>4, <2>5, <2>6 DEF Next
  <1>4. scope \in Scopes /\ [Next]_vars => (scope \in Scopes)'
    BY <1>3
  <1> QED
    BY <1>1, <1>2, <1>4, CountCorrect, PTL DEF Spec

\* activeQueries is the number of callTool calls that have not returned, over
\* every error path, shutdown and crash.
THEOREM GaugeIsExact == Spec => []ActiveQueriesExact
  <1>1. CountInv => ActiveQueriesExact
    BY DEF CountInv, ActiveQueriesExact, Running
  <1> QED
    BY <1>1, CountCorrect, PTL

-----------------------------------------------------------------------------
(* The pipeline on top of the audit trail.                                   *)

LEMMA TrailStep == HandlersOK /\ RowsOK /\ [Next]_vars => [Audit!Next]_(Audit!vars)
  <1> SUFFICES ASSUME HandlersOK, RowsOK, [Next]_vars
               PROVE  Audit!Next \/ UNCHANGED auditVars
    BY DEF auditVars, Audit!vars
  <1>1. ASSUME NEW h \in Handlers, HandlerStep(h)
        PROVE  Audit!Next \/ UNCHANGED auditVars
    <2>1. CASE Finish(h)
      <3> DEFINE info == [status |-> IF handler[h].ok THEN "success" ELSE "failure",
                          errMsg |-> IF handler[h].ok THEN "clean" ELSE handler[h].data]
      <3>1. handler[h].data \in Data
        BY DEF HandlersOK, HandlerRecord
      <3>2. info \in Info
        BY <3>1 DEF Info, Data
      <3>3. Audit!LogAuditAsync(info)
        BY <2>1 DEF Finish
      <3> QED
        BY <3>2, <3>3 DEF Audit!Next
    <2>2. CASE ~ Finish(h)
      BY <1>1, <2>2 DEF HandlerStep, PinReadEndpoints, PinReadConnections, CallBegin,
           CallReadEndpoints, CallReadConnections, Execute, ExecuteFails, AdminTool,
           CallReturns, ReadFails, Respond
    <2> QED
      BY <2>1, <2>2
  <1>2. ASSUME NEW h \in Handlers, NEW req \in Requests, Receive(h, req)
        PROVE  UNCHANGED auditVars
    BY <1>2 DEF Receive
  <1>3. CASE RowsChange
    BY <1>3 DEF RowsChange
  <1>4. CASE ProcessChanges
    BY <1>4 DEF ProcessChanges, WorkerStep, Ends, Audit!Next
  <1>5. CASE UNCHANGED vars
    BY <1>5 DEF vars
  <1> QED
    BY <1>1, <1>2, <1>3, <1>4, <1>5, StepKinds

-----------------------------------------------------------------------------
(* What the redaction of the arguments does to a credential, and what an error   *)
(* leaves in the audit trail.                                                   *)

\* An admin tool is called with the redacted arguments, and the vault holds what
\* admin_register_vault_secret was called with.
StoredRedacted == secret.stored = RedactMap(secret.asked)
SecretInv ==
    /\ StoredRedacted
    /\ \A h \in Handlers : handler[h].pc = "admin" => handler[h].data = RedactMap(handler[h].req.args)

LEMMA SecretStep == HandlersOK /\ RowsOK /\ SecretInv /\ [Next]_vars => SecretInv'
  <1> SUFFICES ASSUME HandlersOK, RowsOK, SecretInv, [Next]_vars PROVE SecretInv'
    OBVIOUS
  <1>0. /\ StoredRedacted /\ handler \in [Handlers -> HandlerRecord]
        /\ \A g \in Handlers : handler[g].pc = "admin" => handler[g].data = RedactMap(handler[g].req.args)
    BY DEF SecretInv, HandlersOK
  <1>1. ASSUME NEW h \in Handlers, HandlerMoves(h), StoredRedacted',
               handler'[h].pc = "admin" => handler'[h].data = RedactMap(handler'[h].req.args)
        PROVE  SecretInv'
    BY <1>0, <1>1 DEF SecretInv, HandlerMoves
  <1>2. ASSUME NEW h \in Handlers, HandlerMoves(h), HandlerStep(h)
        PROVE  /\ StoredRedacted'
               /\ handler'[h].pc = "admin" => handler'[h].data = RedactMap(handler'[h].req.args)
    <2>1. \/ secret' = secret
          \/ /\ handler[h].pc = "admin"
             /\ secret' = [asked |-> handler[h].req.args, stored |-> handler[h].data]
      BY <1>2 DEF HandlerStep, PinReadEndpoints, PinReadConnections, CallBegin,
           CallReadEndpoints, CallReadConnections, Execute, ExecuteFails, AdminTool,
           CallReturns, Finish, ReadFails, Respond
    <2>2. StoredRedacted'
      BY <1>0, <2>1 DEF StoredRedacted, RedactMap
    <2>3. handler'[h].pc = "admin" => /\ handler[h].pc = "checked"
                                      /\ handler'[h].data = RedactMap(handler[h].req.args)
      BY <1>2, HandlerEffect, IdleType DEF Effect
    <2>4. handler'[h].pc = "admin" => handler'[h].req = handler[h].req
      BY <1>2, HandlerStepType
    <2> QED
      BY <2>2, <2>3, <2>4 DEF RedactMap
  <1>3. ASSUME NEW h \in Handlers, NEW req \in Requests, HandlerMoves(h), Receive(h, req)
        PROVE  SecretInv'
    <2>1. handler'[h].pc # "admin"
      BY <1>3, ReceiveType
    <2>2. secret' = secret
      BY <1>3 DEF Receive
    <2> QED
      BY <1>0, <1>1, <1>3, <2>1, <2>2 DEF StoredRedacted, RedactMap
  <1>4. CASE RowsChange
    <2>1. handler' = handler \/ RaceAll
      BY <1>4 DEF RowsChange, SaveEndpoint, DeleteEndpoint, SetEnabled, Tamper
    <2>2. secret' = secret
      BY <1>4 DEF RowsChange
    <2> QED
      BY <1>0, <2>1, <2>2, RaceType DEF SecretInv, StoredRedacted, RedactMap
  <1>5. CASE ProcessChanges
    BY <1>0, <1>5, IdleType DEF ProcessChanges, Ends, SecretInv, StoredRedacted, RedactMap
  <1>6. CASE UNCHANGED vars
    BY <1>0, <1>6 DEF vars, SecretInv, StoredRedacted, RedactMap
  <1> QED
    BY <1>1, <1>2, <1>3, <1>4, <1>5, <1>6, StepKinds

LEMMA SecretCorrect == Spec => [](SecretInv /\ RowsOK)
  <1>1. Init => SecretInv
    BY IdleType DEF Init, SecretInv, StoredRedacted, RedactMap
  <1> QED
    BY <1>1, ShapeCorrect, SecretStep, PTL DEF Spec

\* The vault holds the redacted form of the credential an administrator registered
\* through admin_register_vault_secret, whatever other calls run meanwhile: with
\* REDACTION_ENABLED a credential the detectors match is stored as its placeholder.
THEOREM SecretsAreStoredRedacted == Spec => []StoredRedacted
  <1>1. SecretInv => StoredRedacted
    BY DEF SecretInv
  <1> QED
    BY <1>1, SecretCorrect, PTL

\* Without redaction the credential is stored as it was sent.
THEOREM SecretsAreStoredAsSent == ASSUME ~ Redaction PROVE Spec => []SecretStoredAsSent
  <1>1. SecretInv => SecretStoredAsSent
    BY DEF SecretInv, StoredRedacted, RedactMap, SecretStoredAsSent
  <1> QED
    BY <1>1, SecretCorrect, PTL

\* Records whose message is raw only if the call failed and the upstream may fail, and
\* never for a string argument that was redacted.
QuotesOnly == {i \in Info : /\ i.errMsg \in Raw => i.status = "failure" /\ "upstream" \in Faults
                            /\ Redaction => i.errMsg # "raw"}
QuotingRecord == [id : Nat, info : QuotesOnly]

TrailQuotes ==
    /\ issued \in Nat
    /\ auditCh \in Seq(QuotingRecord) /\ auditLog \in Seq(QuotingRecord)
    /\ worker \in QuotingRecord \cup {NoRecord}
    /\ \A h \in Handlers :
          handler[h].pc \in {"returning", "returned"} /\ ~ handler[h].ok /\ handler[h].data \in Raw
              => "upstream" \in Faults

\* The trail holds raw data only where a call failed upstream.
RawOnlyInFailures ==
    \A i \in DOMAIN auditLog : auditLog[i].info.errMsg \in Raw =>
        auditLog[i].info.status = "failure" /\ "upstream" \in Faults

\* What a failed call brings back.
LEMMA FailureData ==
    ASSUME HandlersOK, RowsOK, TrailQuotes, NEW h \in Handlers, HandlerStep(h),
           handler'[h].pc \in {"returning", "returned"}, ~ handler'[h].ok, handler'[h].data \in Raw
    PROVE  "upstream" \in Faults
  <1>0. handler \in [Handlers -> HandlerRecord] /\ handler[h] \in HandlerRecord
    BY DEF HandlersOK
  <1>a. ASSUME NEW ok, NEW data, NEW pc, Reply(h, ok, data, pc)
        PROVE  handler'[h].data = data /\ handler'[h].ok = ok
    BY <1>0, <1>a DEF Reply, HandlerRecord
  <1>c. ASSUME NEW ok, NEW pc PROVE ~ Reply(h, ok, "clean", pc)
    <2>1. CASE Reply(h, ok, "clean", pc)
      <3>1. handler'[h].data = "clean"
        BY <1>a, <2>1
      <3> QED
        BY <3>1 DEF Raw
    <2> QED
      BY <2>1
  <1>b. Effect(h, handler[h], handler'[h])
    BY HandlerEffect
  <1>1. CASE handler[h].pc = "returning"
    BY <1>1, <1>b DEF Effect, Carries, TrailQuotes
  <1>2. CASE handler[h].pc \in {"callEndpoints", "callConnections", "executing", "admin"}
    <2>1. CASE CallReadEndpoints(h)
      <3>1. handler'[h].pc = "callConnections"
        BY <1>0, <2>1 DEF CallReadEndpoints, ReadEndpoints, HandlerRecord
      <3> QED
        BY <3>1
    <2>2. CASE CallReadConnections(h)
      <3>1. CASE Found(h) = NoRow
        BY <1>c, <2>2, <3>1 DEF CallReadConnections
      <3>2. CASE Found(h) # NoRow
        <4>1. handler'[h].pc = "executing"
          BY <1>0, <2>2, <3>2 DEF CallReadConnections, Goto, HandlerRecord
        <4> QED
          BY <4>1
      <3> QED
        BY <3>1, <3>2
    <2>3. ASSUME NEW ok \in BOOLEAN, NEW body \in {"clean", "rawBody"}, Execute(h, ok, body)
          PROVE  "upstream" \in Faults
      BY <1>a, <2>3 DEF Execute
    <2>4. CASE ExecuteFails(h)
      BY <2>4 DEF ExecuteFails
    <2>5. CASE AdminTool(h)
      BY <1>a, <1>c, <2>5 DEF AdminTool, Goto
    <2>6. CASE ReadFails(h)
      BY <1>c, <2>6 DEF ReadFails
    <2> QED
      BY <1>2, <2>1, <2>2, <2>3, <2>4, <2>5, <2>6 DEF HandlerStep, PinReadEndpoints, ReadEndpoints,
         PinReadConnections, CallBegin, CallReturns, Finish, Respond
  <1>3. CASE handler[h].pc \notin {"returning", "callEndpoints", "callConnections", "executing", "admin"}
    BY <1>3, <1>b, IdleType DEF Effect
  <1> QED
    BY <1>1, <1>2, <1>3

LEMMA QuotesStep ==
    HandlersOK /\ RowsOK /\ RedactionInv /\ TrailQuotes /\ [Next]_vars => TrailQuotes'
  <1> SUFFICES ASSUME HandlersOK, RowsOK, RedactionInv, TrailQuotes, [Next]_vars PROVE TrailQuotes'
    OBVIOUS
  <1> DEFINE Trail == /\ issued \in Nat
                      /\ auditCh \in Seq(QuotingRecord) /\ auditLog \in Seq(QuotingRecord)
                      /\ worker \in QuotingRecord \cup {NoRecord}
             Quiet(a) == a.pc \in {"returning", "returned"} /\ ~ a.ok /\ a.data \in Raw
                            => "upstream" \in Faults
  <1>0. /\ Trail /\ \A g \in Handlers : Quiet(handler[g])
        /\ handler \in [Handlers -> HandlerRecord]
    BY DEF TrailQuotes, HandlersOK
  <1>a. Trail' /\ (\A g \in Handlers : Quiet(handler'[g])) => TrailQuotes'
    BY DEF TrailQuotes
  <1>b. UNCHANGED auditVars => Trail'
    BY <1>0 DEF auditVars
  <1>c. ASSUME NEW h \in Handlers, HandlerMoves(h), Quiet(handler'[h])
        PROVE  \A g \in Handlers : Quiet(handler'[g])
    BY <1>0, <1>c DEF HandlerMoves
  <1> HIDE DEF Trail, Quiet
  <1>1. ASSUME NEW h \in Handlers, HandlerMoves(h), HandlerStep(h)
        PROVE  TrailQuotes'
    <2>1. Quiet(handler'[h])
      BY <1>1, FailureData DEF Quiet
    <2>2. Trail'
      <3>1. CASE Finish(h)
        <4> DEFINE info == [status |-> IF handler[h].ok THEN "success" ELSE "failure",
                            errMsg |-> IF handler[h].ok THEN "clean" ELSE handler[h].data]
        <4>1. handler[h].data \in Data /\ handler[h].ok \in BOOLEAN /\ Quiet(handler[h])
              /\ handler[h].pc = "returned"
          BY <1>0, <3>1 DEF HandlerRecord, Finish
        <4>r. Redaction => handler[h].data # "raw"
          BY DEF RedactionInv, Masked
        <4>2. /\ info \in Info
              /\ info.errMsg \in Raw => info.status = "failure" /\ "upstream" \in Faults
              /\ Redaction => info.errMsg # "raw"
          BY <4>1, <4>r DEF Info, Data, Raw, Quiet
        <4>3. info \in QuotesOnly
          BY <4>2 DEF QuotesOnly
        <4>4. Audit!LogAuditAsync(info)
          BY <3>1 DEF Finish
        <4> HIDE DEF info
        <4>5. issued \in Nat /\ auditCh \in Seq(QuotingRecord)
          BY <1>0 DEF Trail
        <4>6. PICK e : e = [id |-> issued + 1, info |-> info]
          OBVIOUS
        <4>7. e \in QuotingRecord
          BY <4>3, <4>5, <4>6 DEF QuotingRecord
        <4>8. Append(auditCh, e) \in Seq(QuotingRecord)
          BY <4>5, <4>7
        <4>9. /\ issued' = issued + 1 /\ auditCh' \in {auditCh, Append(auditCh, e)}
              /\ worker' = worker /\ auditLog' = auditLog
          BY <4>4, <4>6 DEF Audit!LogAuditAsync
        <4> QED
          BY <1>0, <4>5, <4>8, <4>9 DEF Trail
      <3>2. CASE ~ Finish(h)
        <4>1. UNCHANGED auditVars
          BY <1>1, <3>2 DEF HandlerStep, PinReadEndpoints, PinReadConnections, CallBegin,
             CallReadEndpoints, CallReadConnections, Execute, ExecuteFails, AdminTool,
             CallReturns, ReadFails, Respond
        <4> QED
          BY <1>b, <4>1
      <3> QED
        BY <3>1, <3>2
    <2> QED
      BY <1>1, <1>a, <1>c, <2>1, <2>2
  <1>2. ASSUME NEW h \in Handlers, NEW req \in Requests, HandlerMoves(h), Receive(h, req)
        PROVE  TrailQuotes'
    <2>1. handler'[h].pc \in {"denied", "pinEndpoints", "checked"}
      BY <1>2, ReceiveType
    <2>2. UNCHANGED auditVars
      BY <1>2 DEF Receive
    <2>3. Quiet(handler'[h])
      BY <2>1 DEF Quiet
    <2> QED
      BY <1>2, <1>a, <1>b, <1>c, <2>2, <2>3
  <1>3. CASE RowsChange
    <2>1. handler' = handler \/ RaceAll
      BY <1>3 DEF RowsChange, SaveEndpoint, DeleteEndpoint, SetEnabled, Tamper
    <2>2. UNCHANGED auditVars
      BY <1>3 DEF RowsChange
    <2>3. \A g \in Handlers : Quiet(handler'[g])
      BY <1>0, <2>1, RaceType DEF Quiet
    <2> QED
      BY <1>a, <1>b, <2>2, <2>3
  <1>4. CASE ProcessChanges
    <2>1. \A g \in Handlers : Quiet(handler'[g])
      BY <1>0, <1>4, IdleType DEF ProcessChanges, Ends, Quiet
    <2>2. CASE Ends
      BY <1>0, <1>a, <2>1, <2>2 DEF Ends, Audit!ProcessEnds, Trail
    <2>3. CASE UNCHANGED auditVars
      BY <1>a, <1>b, <2>1, <2>3
    <2>4. CASE Audit!WorkerTake
      <3>1. Head(auditCh) \in QuotingRecord /\ Tail(auditCh) \in Seq(QuotingRecord)
        BY <1>0, <2>4 DEF Audit!WorkerTake, Trail
      <3> QED
        BY <1>0, <1>a, <2>1, <2>4, <3>1 DEF Audit!WorkerTake, Trail
    <2>5. CASE Audit!WorkerInsert
      <3>1. Append(auditLog, worker) \in Seq(QuotingRecord)
        BY <1>0, <2>5 DEF Audit!WorkerInsert, Trail
      <3> QED
        BY <1>0, <1>a, <2>1, <2>5, <3>1 DEF Audit!WorkerInsert, Trail
    <2>6. CASE Audit!WorkerFails
      BY <1>0, <1>a, <2>1, <2>6 DEF Audit!WorkerFails, Trail
    <2> QED
      BY <1>4, <2>2, <2>3, <2>4, <2>5, <2>6 DEF ProcessChanges, WorkerStep
  <1>5. CASE UNCHANGED vars
    <2>1. UNCHANGED <<auditVars, handler>>
      BY <1>5 DEF vars
    <2> QED
      BY <1>0, <1>a, <1>b, <2>1
  <1> QED
    BY <1>1, <1>2, <1>3, <1>4, <1>5, StepKinds

LEMMA QuotesCorrect == Spec => []TrailQuotes
  <1>1. Init => TrailQuotes
    <2> SUFFICES ASSUME Init PROVE TrailQuotes
      OBVIOUS
    <2>1. issued = 0 /\ auditCh = <<>> /\ auditLog = <<>> /\ worker = NoRecord
      BY DEF Init, Audit!Init
    <2>2. \A h \in Handlers : handler[h].pc = "idle"
      BY IdleType DEF Init
    <2> QED
      BY <2>1, <2>2 DEF TrailQuotes
  <1> QED
    BY <1>1, ShapeCorrect, RedactionCorrect, QuotesStep, PTL DEF Spec

\* Raw data gets into the audit trail only through the error text of a call that failed
\* upstream (LogAudit is given err.Error(), which quotes the body): never for a call that
\* succeeded, and not at all while the upstream and the network do not fail.
THEOREM AuditQuotesOnlyFailures == Spec => []RawOnlyInFailures
  <1>1. TrailQuotes => RawOnlyInFailures
    <2> SUFFICES ASSUME TrailQuotes, NEW i \in DOMAIN auditLog
                 PROVE  auditLog[i].info.errMsg \in Raw =>
                           auditLog[i].info.status = "failure" /\ "upstream" \in Faults
      BY DEF RawOnlyInFailures
    <2>1. auditLog[i] \in QuotingRecord
      BY DEF TrailQuotes
    <2> QED
      BY <2>1 DEF QuotingRecord, QuotesOnly
  <1> QED
    BY <1>1, QuotesCorrect, PTL

\* With REDACTION_ENABLED what the detectors match in a string argument reaches neither
\* the upstream API nor an answer nor the audit trail, and what they match anywhere
\* reaches no successful result, however many calls run at once and fail (RedactMap
\* before callTool, RedactBytes after it).
THEOREM PayloadsAreRedacted == Spec => []PayloadsRedacted
  <1>1. RedactionInv /\ TrailQuotes => PayloadsRedacted
    <2> SUFFICES ASSUME RedactionInv, TrailQuotes, Redaction PROVE PayloadsRedacted
      BY DEF PayloadsRedacted
    <2>1. \A i \in DOMAIN auditCh : auditCh[i] \in QuotingRecord
      BY DEF TrailQuotes
    <2>2. \A i \in DOMAIN auditLog : auditLog[i] \in QuotingRecord
      BY DEF TrailQuotes
    <2>3. worker # NoRecord => worker \in QuotingRecord
      BY DEF TrailQuotes
    <2>4. \A r \in QuotingRecord : r.info.errMsg # "raw"
      BY DEF QuotingRecord, QuotesOnly
    <2>5. "raw" \notin sent /\ \A h \in Handlers : Masked(handler[h])
      BY DEF RedactionInv
    <2> QED
      BY <2>1, <2>2, <2>3, <2>4, <2>5 DEF PayloadsRedacted, Masked
  <1> QED
    BY <1>1, RedactionCorrect, QuotesCorrect, PTL

-----------------------------------------------------------------------------
(* Where the records of the calls are.                                        *)

\* The numbers of a sequence's records.
Ids(seq) == {seq[i].id : i \in DOMAIN seq}

LEMMA IdsOf == ASSUME NEW s, NEW x PROVE x \in Ids(s) <=> \E i \in DOMAIN s : x = s[i].id
  BY DEF Ids

LEMMA IdsAppended ==
    ASSUME NEW S, NEW s \in Seq(S), NEW e
    PROVE  Ids(Append(s, e)) = Ids(s) \cup {e.id}
  <1> DEFINE T == S \cup {e}
  <1>0. s \in Seq(T) /\ e \in T
    OBVIOUS
  <1> HIDE DEF T
  <1>1. Len(s) \in Nat /\ DOMAIN s = 1 .. Len(s)
    BY LenProperties
  <1>2. /\ Append(s, e) \in Seq(T) /\ Len(Append(s, e)) = Len(s) + 1
        /\ \A i \in 1 .. Len(s) : Append(s, e)[i] = s[i]
        /\ Append(s, e)[Len(s) + 1] = e
    BY <1>0, AppendProperties
  <1>3. DOMAIN Append(s, e) = (1 .. Len(s)) \cup {Len(s) + 1}
    BY <1>1, <1>2, LenProperties
  <1>4. \A x : x \in Ids(s) <=> \E i \in 1 .. Len(s) : x = s[i].id
    BY <1>1, IdsOf
  <1>5. \A x : x \in Ids(Append(s, e))
                 <=> \E i \in (1 .. Len(s)) \cup {Len(s) + 1} : x = Append(s, e)[i].id
    BY <1>3, IdsOf
  <1>6. \A x : x \in Ids(Append(s, e)) <=> x \in Ids(s) \/ x = e.id
    BY <1>1, <1>2, <1>4, <1>5
  <1> QED
    BY <1>6

LEMMA IdsTaken ==
    ASSUME NEW S, NEW s \in Seq(S), s # <<>>
    PROVE  Ids(s) = Ids(Tail(s)) \cup {Head(s).id}
  <1>1. Len(s) \in Nat \ {0} /\ DOMAIN s = 1 .. Len(s)
    BY LenProperties, EmptySeq
  <1>2. /\ Tail(s) \in Seq(S) /\ Len(Tail(s)) = Len(s) - 1
        /\ \A i \in 1 .. Len(Tail(s)) : Tail(s)[i] = s[i + 1]
    BY HeadTailProperties
  <1>3. DOMAIN Tail(s) = 1 .. Len(s) - 1
    BY <1>2, LenProperties
  <1>4. PICK t, a : t = Tail(s) /\ a = Head(s)
    OBVIOUS
  <1>5. DOMAIN t = 1 .. Len(s) - 1 /\ a = s[1]
    BY <1>3, <1>4
  <1>6. \A i \in 1 .. Len(s) : i = 1 \/ (i - 1 \in DOMAIN t /\ t[i - 1] = s[i])
    BY <1>1, <1>2, <1>4, <1>5
  <1>7. \A i \in DOMAIN t : i + 1 \in DOMAIN s /\ t[i] = s[i + 1]
    BY <1>1, <1>2, <1>4, <1>5
  <1>8. 1 \in DOMAIN s
    BY <1>1
  <1>9. Ids(s) \subseteq Ids(t) \cup {a.id}
    <2> SUFFICES ASSUME NEW x \in Ids(s) PROVE x \in Ids(t) \cup {a.id}
      OBVIOUS
    <2>1. PICK i \in DOMAIN s : x = s[i].id
      BY IdsOf
    <2>2. i = 1 \/ (i - 1 \in DOMAIN t /\ t[i - 1] = s[i])
      BY <1>1, <1>6
    <2>3. i - 1 \in DOMAIN t /\ t[i - 1] = s[i] => \E j \in DOMAIN t : x = t[j].id
      BY <2>1
    <2> QED
      BY <1>5, <2>1, <2>2, <2>3, IdsOf
  <1>10. Ids(t) \cup {a.id} \subseteq Ids(s)
    <2>1. a.id \in Ids(s)
      BY <1>5, <1>8, IdsOf
    <2>2. ASSUME NEW x \in Ids(t) PROVE x \in Ids(s)
      <3>1. PICK i \in DOMAIN t : x = t[i].id
        BY IdsOf
      <3>2. i + 1 \in DOMAIN s /\ x = s[i + 1].id
        BY <1>7, <3>1
      <3> QED
        BY <3>2, IdsOf
    <2> QED
      BY <2>1, <2>2
  <1> QED
    BY <1>4, <1>9, <1>10

\* No number is missing.
Covered == 1 .. issued = Audit!Logged \cup Audit!InFlight \cup dropped \cup failed \cup lost

LEMMA CoverStep == TrailQuotes /\ Covered /\ [Audit!Next]_(Audit!vars) => Covered'
  <1> SUFFICES ASSUME TrailQuotes, Covered, [Audit!Next]_(Audit!vars) PROVE Covered'
    OBVIOUS
  <1> DEFINE busy == IF worker = NoRecord THEN {} ELSE {worker.id}
  <1>0. /\ issued \in Nat /\ auditCh \in Seq(QuotingRecord) /\ auditLog \in Seq(QuotingRecord)
        /\ worker \in QuotingRecord \cup {NoRecord}
    BY DEF TrailQuotes
  <1>1. 1 .. issued = Ids(auditLog) \cup Ids(auditCh) \cup busy \cup dropped \cup failed \cup lost
    BY DEF Covered, Audit!Logged, Audit!InFlight, Ids
  <1>2. SUFFICES 1 .. issued' = Ids(auditLog') \cup Ids(auditCh') \cup busy'
                                  \cup dropped' \cup failed' \cup lost'
    BY DEF Covered, Audit!Logged, Audit!InFlight, Ids
  <1>3. ASSUME NEW info \in Info, Audit!LogAuditAsync(info)
        PROVE  1 .. issued' = Ids(auditLog') \cup Ids(auditCh') \cup busy'
                                  \cup dropped' \cup failed' \cup lost'
    <2>1. issued' = issued + 1 /\ 1 .. issued' = (1 .. issued) \cup {issued + 1}
      BY <1>0, <1>3 DEF Audit!LogAuditAsync
    <2>2. /\ UNCHANGED <<worker, auditLog, failed, lost>>
          /\ \/ auditCh' = Append(auditCh, [id |-> issued + 1, info |-> info]) /\ dropped' = dropped
             \/ dropped' = dropped \cup {issued + 1} /\ auditCh' = auditCh
      BY <1>3 DEF Audit!LogAuditAsync
    <2>3. Ids(Append(auditCh, [id |-> issued + 1, info |-> info])) = Ids(auditCh) \cup {issued + 1}
      <3>1. PICK e : e = [id |-> issued + 1, info |-> info]
        OBVIOUS
      <3>2. Ids(Append(auditCh, e)) = Ids(auditCh) \cup {e.id}
        BY <1>0, IdsAppended
      <3> QED
        BY <3>1, <3>2
    <2> QED
      BY <1>1, <2>1, <2>2, <2>3
  <1>4. CASE Audit!WorkerTake
    <2>1. /\ worker = NoRecord /\ auditCh # <<>> /\ worker' = Head(auditCh)
          /\ auditCh' = Tail(auditCh) /\ UNCHANGED <<issued, auditLog, dropped, failed, lost>>
      BY <1>4 DEF Audit!WorkerTake
    <2>2. Ids(auditCh) = Ids(Tail(auditCh)) \cup {Head(auditCh).id}
      BY <1>0, <2>1, IdsTaken
    <2>3. Head(auditCh) # NoRecord
      <3>1. Head(auditCh) \in QuotingRecord
        BY <1>0, <2>1
      <3> QED
        BY <3>1, NoRecordAssumption DEF QuotingRecord, QuotesOnly
    <2> QED
      BY <1>1, <2>1, <2>2, <2>3
  <1>5. CASE Audit!WorkerInsert
    <2>1. /\ worker # NoRecord /\ auditLog' = Append(auditLog, worker) /\ worker' = NoRecord
          /\ UNCHANGED <<issued, auditCh, dropped, failed, lost>>
      BY <1>5 DEF Audit!WorkerInsert
    <2>2. Ids(Append(auditLog, worker)) = Ids(auditLog) \cup {worker.id}
      BY <1>0, <2>1, IdsAppended
    <2> QED
      BY <1>1, <2>1, <2>2
  <1>6. CASE Audit!WorkerFails
    BY <1>1, <1>6 DEF Audit!WorkerFails
  <1>7. CASE Audit!ProcessEnds
    <2>1. Ids(<<>>) = {}
      BY DEF Ids
    <2>2. /\ lost' = lost \cup Ids(auditCh) \cup busy /\ auditCh' = <<>> /\ worker' = NoRecord
          /\ UNCHANGED <<issued, auditLog, dropped, failed>>
      BY <1>7 DEF Audit!ProcessEnds, Audit!InFlight, Ids
    <2> QED
      BY <1>1, <2>1, <2>2
  <1>8. CASE UNCHANGED Audit!vars
    BY <1>1, <1>8 DEF Audit!vars
  <1> QED
    BY <1>3, <1>4, <1>5, <1>6, <1>7, <1>8 DEF Audit!Next

\* Every call of callTool is still running, died with the process, or has made exactly one
\* audit record, and every record is in audit_logs, on its way there, or counted as
\* dropped, failed or lost.
THEOREM EveryCallIsAccountedFor == Spec => []CallsAccounted
  <1>1. Init => Covered
    BY DEF Init, Audit!Init, Covered, Audit!Logged, Audit!InFlight
  <1>2. CountInv /\ Covered => CallsAccounted
    BY DEF CountInv, CallsAccounted, Calling, Covered
  <1>3. HandlersOK /\ RowsOK /\ TrailQuotes /\ Covered /\ [Next]_vars => Covered'
    BY TrailStep, CoverStep
  <1>4. Spec => []Covered
    BY <1>1, <1>3, ShapeCorrect, QuotesCorrect, PTL DEF Spec
  <1> QED
    BY <1>2, <1>4, CountCorrect, PTL

-----------------------------------------------------------------------------
(* The way of a request to its answer.                                         *)

StepsLeft(pc) ==
    CASE pc = "pinEndpoints" -> 9
      [] pc = "pinConnections" -> 8
      [] pc = "checked" -> 7
      [] pc = "callEndpoints" -> 6
      [] pc = "callConnections" -> 5
      [] pc \in {"executing", "admin"} -> 4
      [] pc = "returning" -> 3
      [] pc = "returned" -> 2
      [] pc \in {"denied", "refused", "answered"} -> 1
      [] pc = "idle" -> 0

\* A request that was received is never set back, and none is received after SIGTERM.
RequestsAdvance ==
    [][/\ \A h \in Handlers : handler[h].pc # "idle" =>
             \/ handler'[h].pc = handler[h].pc
             \/ StepsLeft(handler'[h].pc) < StepsLeft(handler[h].pc)
       /\ server = "draining" =>
             /\ server' # "up"
             /\ \A h \in Handlers : handler[h].pc = "idle" => handler'[h].pc = "idle"]_vars

\* Every request is answered after at most nine steps of its goroutine, whatever edits,
\* faults, other requests and the audit worker do meanwhile, and after SIGTERM no request
\* is taken: with the goroutines' fairness this is why a shutdown ends
\* (ShutdownCompletes).
THEOREM RequestsAreFinite == Spec => RequestsAdvance
  <1>1. ASSUME HandlersOK, RowsOK, [Next]_vars, NEW h \in Handlers
        PROVE  /\ handler[h].pc # "idle" =>
                     \/ handler'[h].pc = handler[h].pc
                     \/ StepsLeft(handler'[h].pc) < StepsLeft(handler[h].pc)
               /\ server = "draining" /\ handler[h].pc = "idle" => handler'[h].pc = "idle"
    <2>0. handler \in [Handlers -> HandlerRecord] /\ handler[h].pc \in Pcs
      BY <1>1 DEF HandlersOK, HandlerRecord
    <2>1. ASSUME NEW g \in Handlers, HandlerMoves(g), g # h
          PROVE  handler'[h].pc = handler[h].pc
      BY <2>0, <2>1 DEF HandlerMoves
    <2>2. CASE HandlerStep(h)
      <3>1. PICK b : b = handler'[h]
        OBVIOUS
      <3>2. Effect(h, handler[h], b)
        BY <1>1, <2>2, <3>1, HandlerEffect
      <3>3. StepsLeft(b.pc) < StepsLeft(handler[h].pc) /\ handler[h].pc # "idle"
        BY <3>2, IdleType DEF Effect, StepsLeft
      <3> QED
        BY <3>1, <3>3
    <2>3. ASSUME NEW req \in Requests, Receive(h, req)
          PROVE  handler[h].pc = "idle" /\ server = "up"
      BY <2>3 DEF Receive
    <2>4. CASE RowsChange
      <3>1. handler' = handler \/ RaceAll
        BY <2>4 DEF RowsChange, SaveEndpoint, DeleteEndpoint, SetEnabled, Tamper
      <3> QED
        BY <1>1, <3>1, RaceType
    <2>5. CASE ProcessChanges
      <3>1. handler'[h].pc \in {handler[h].pc, "idle"}
        BY <2>5, IdleType DEF ProcessChanges, Ends
      <3> QED
        BY <2>0, <3>1 DEF StepsLeft, Pcs
    <2>6. CASE UNCHANGED vars
      BY <2>6 DEF vars
    <2> QED
      BY <1>1, <2>1, <2>2, <2>3, <2>4, <2>5, <2>6, StepKinds
  <1>2. ASSUME HandlersOK, RowsOK, [Next]_vars, server = "draining" PROVE server' # "up"
    <2>2. CASE UNCHANGED vars
      BY <1>2, <2>2 DEF vars
    <2>3. CASE WorkerStep \/ Shutdown \/ Exit \/ Crash \/ Restart
      BY <1>2, <2>3 DEF WorkerStep, Shutdown, Exit, Crash, Restart, Ends
    <2>4. CASE (\E h \in Handlers, req \in Requests : Receive(h, req)) \/ \E h \in Handlers : HandlerStep(h)
      BY <1>2, <2>4 DEF Receive, HandlerStep, PinReadEndpoints, PinReadConnections, CallBegin,
           CallReadEndpoints, CallReadConnections, Execute, ExecuteFails, AdminTool,
           CallReturns, Finish, ReadFails, Respond
    <2>5. CASE (\E d \in Defs : SaveEndpoint(d) \/ Tamper(d)) \/ DeleteEndpoint \/ SetEnabled
      BY <1>2, <2>5 DEF SaveEndpoint, Tamper, DeleteEndpoint, SetEnabled
    <2> QED
      BY <1>2, <2>2, <2>3, <2>4, <2>5 DEF Next
  <1>3. HandlersOK /\ RowsOK /\ [Next]_vars =>
          [/\ \A h \in Handlers : handler[h].pc # "idle" =>
                 \/ handler'[h].pc = handler[h].pc
                 \/ StepsLeft(handler'[h].pc) < StepsLeft(handler[h].pc)
           /\ server = "draining" =>
                 /\ server' # "up"
                 /\ \A h \in Handlers : handler[h].pc = "idle" => handler'[h].pc = "idle"]_vars
    BY <1>1, <1>2
  <1> QED
    BY <1>3, ShapeCorrect, PTL DEF Spec, RequestsAdvance
=============================================================================
