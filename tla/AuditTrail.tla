----------------------------- MODULE AuditTrail -----------------------------
(***************************************************************************)
(* The asynchronous audit trail of pkg/mcp: logAuditAsync puts a record on  *)
(* the buffered channel auditCh, or drops it when the buffer is full, and   *)
(* one worker goroutine takes records off and inserts them in audit_logs.   *)
(* The channel and the worker die with the process; the table stays.        *)
(*                                                                         *)
(* A record is its number in the order of the logAuditAsync calls and the   *)
(* part of its content that matters to the caller.  dropped, failed and     *)
(* lost are history: what became of the records that were not stored.       *)
(***************************************************************************)
EXTENDS Naturals, Sequences

CONSTANTS
    Infos,              \* contents of records
    Cap,                \* capacity of auditCh (1000 in NewMCPServer)
    MaxIssued,          \* bound: logAuditAsync calls
    NoRecord

ASSUME AuditAssumption == Cap \in Nat \ {0} /\ MaxIssued \in Nat

VARIABLES
    issued,             \* number of logAuditAsync calls so far
    auditCh,            \* the channel's buffer, oldest first
    worker,             \* the record the worker is inserting
    auditLog,           \* rows of audit_logs in insertion order
    dropped, failed, lost

vars == <<issued, auditCh, worker, auditLog, dropped, failed, lost>>

Record == [id : Nat, info : Infos]

ASSUME NoRecordAssumption == NoRecord \notin Record

Init ==
    /\ issued = 0
    /\ auditCh = <<>>
    /\ worker = NoRecord
    /\ auditLog = <<>>
    /\ dropped = {} /\ failed = {} /\ lost = {}

-----------------------------------------------------------------------------
\* logAuditAsync: a non-blocking send.
LogAuditAsync(info) ==
    /\ issued < MaxIssued
    /\ issued' = issued + 1
    /\ IF Len(auditCh) < Cap
       THEN /\ auditCh' = Append(auditCh, [id |-> issued + 1, info |-> info])
            /\ UNCHANGED dropped
       ELSE /\ dropped' = dropped \cup {issued + 1}
            /\ UNCHANGED auditCh
    /\ UNCHANGED <<worker, auditLog, failed, lost>>

\* Mutation: two workers share the channel, so a later record may be taken
\* while an earlier one waits.
WorkerTakeAny ==
    /\ worker = NoRecord
    /\ \E i \in 1 .. Len(auditCh) :
          /\ worker' = auditCh[i]
          /\ auditCh' = SubSeq(auditCh, 1, i - 1) \o SubSeq(auditCh, i + 1, Len(auditCh))
    /\ UNCHANGED <<issued, auditLog, dropped, failed, lost>>

\* Mutation: the worker leaves its loop after the first insert that fails.
WorkerTakeUntilError ==
    /\ worker = NoRecord
    /\ auditCh # <<>>
    /\ failed = {}
    /\ worker' = Head(auditCh)
    /\ auditCh' = Tail(auditCh)
    /\ UNCHANGED <<issued, auditLog, dropped, failed, lost>>

\* auditWorker receives the oldest record ...
WorkerTake ==
    /\ worker = NoRecord
    /\ auditCh # <<>>
    /\ worker' = Head(auditCh)
    /\ auditCh' = Tail(auditCh)
    /\ UNCHANGED <<issued, auditLog, dropped, failed, lost>>

\* ... db.LogAudit inserts it ...
WorkerInsert ==
    /\ worker # NoRecord
    /\ auditLog' = Append(auditLog, worker)
    /\ worker' = NoRecord
    /\ UNCHANGED <<issued, auditCh, dropped, failed, lost>>

\* Mutation: a failed insert is tried again behind the queue, and recorded.
WorkerRequeues ==
    /\ worker # NoRecord
    /\ failed' = failed \cup {worker.id}
    /\ auditCh' = Append(auditCh, worker)
    /\ worker' = NoRecord
    /\ UNCHANGED <<issued, auditLog, dropped, lost>>

\* ... or fails: the error goes to the process log and the record is gone.
WorkerFails ==
    /\ worker # NoRecord
    /\ failed' = failed \cup {worker.id}
    /\ worker' = NoRecord
    /\ UNCHANGED <<issued, auditCh, auditLog, dropped, lost>>

InFlight == {auditCh[i].id : i \in DOMAIN auditCh}
            \cup (IF worker = NoRecord THEN {} ELSE {worker.id})

\* The process ends: a crash, or main returning after server.Shutdown, which
\* waits for the handlers but not for the worker.
ProcessEnds ==
    /\ lost' = lost \cup InFlight
    /\ auditCh' = <<>>
    /\ worker' = NoRecord
    /\ UNCHANGED <<issued, auditLog, dropped, failed>>

Next ==
    \/ \E info \in Infos : LogAuditAsync(info)
    \/ WorkerTake
    \/ WorkerInsert
    \/ WorkerFails
    \/ ProcessEnds

Spec == Init /\ [][Next]_vars

\* The worker loops over the channel for the life of the process.
FairSpec == Spec /\ WF_vars(WorkerTake) /\ WF_vars(WorkerInsert \/ WorkerFails)

-----------------------------------------------------------------------------
\* The buffer never exceeds the capacity it was made with and every piece of
\* the trail is made of records (auditLogEntry).
TypeOK ==
    /\ issued \in Nat
    /\ auditCh \in Seq(Record) /\ Len(auditCh) <= Cap
    /\ worker \in Record \cup {NoRecord}
    /\ auditLog \in Seq(Record)
    /\ dropped \subseteq Nat /\ failed \subseteq Nat /\ lost \subseteq Nat

Logged == {auditLog[i].id : i \in DOMAIN auditLog}

\* No call of logAuditAsync is unaccounted for: its record is in the table, on
\* its way to it, or was dropped, failed or lost, and is so once only.
EachRecordOnce ==
    /\ Logged \cup InFlight \cup dropped \cup failed \cup lost = 1 .. issued
    /\ \A S \in {Logged, dropped, failed, lost} : S \cap InFlight = {}
    /\ \A S \in {dropped, failed, lost} : S \cap Logged = {}
    /\ dropped \cap failed = {} /\ dropped \cap lost = {} /\ failed \cap lost = {}

\* audit_logs holds the records in the order in which the calls finished, across
\* restarts and whatever was dropped or failed in between.
LoggedInOrder ==
    \A i, j \in DOMAIN auditLog : i < j => auditLog[i].id < auditLog[j].id

\* A record on the channel does not stay there: the worker stores it or fails
\* to, unless the process ends first.
RecordsSettle ==
    \A n \in 1 .. MaxIssued : n \in InFlight ~> n \in Logged \cup failed \cup lost
=============================================================================
