--------------------------- MODULE PortalTelemetry ---------------------------
(***************************************************************************)
(* What the portal makes of the audit trail: GetAuditLogs behind /api/logs,   *)
(* and the figures and charts of loadTelemetry (app.js), over the behaviours *)
(* of AuditTrail.                                                           *)
(*                                                                         *)
(* A row of audit_logs gets its timestamp, in whole seconds, when it is       *)
(* inserted.  loaded is the answer the telemetry view was last drawn from,    *)
(* as places in auditLog, and tableLen the table's length then (history).    *)
(***************************************************************************)
EXTENDS AuditTrail, Integers, FiniteSets, FiniteSetsExt, SequencesExt

CONSTANTS
    LogLimit,           \* LIMIT of GetAuditLogs (100)
    ChartPoints,        \* requests in the latency chart (20)
    ChartTools,         \* tools in the frequency chart (5)
    MaxClock            \* bound: seconds

ASSUME TelemetryAssumption ==
    /\ Infos \subseteq [status : {"success", "failure"}, tool : STRING, ms : Nat]
    /\ LogLimit \in Nat \ {0} /\ ChartPoints \in Nat \ {0} /\ ChartTools \in Nat \ {0}
    /\ MaxClock \in Nat

VARIABLES
    clock,              \* CURRENT_TIMESTAMP
    stamps,             \* the timestamp column of auditLog
    loaded, tableLen

telemetryVars == <<vars, clock, stamps, loaded, tableLen>>

-----------------------------------------------------------------------------
(* Figures.                                                                 *)

\* Math.round((successes / logs.length) * 100).  In the floating point of the
\* browser 23/40 * 100 is a little less than 57.5; up to 100 rows every other half
\* is rounded up.
SuccessRate(successes, n) ==
    IF 40 * successes = 23 * n THEN 57 ELSE (200 * successes + n) \div (2 * n)

\* durations[Math.floor(durations.length * 0.95)], counted from 0.
P95Idx(n) == (95 * n) \div 100

\* Mutation: the scale ignores the data.
DrawnFixed(value, values, least, extent) == (value * extent) \div least

\* Rows are drawn against the largest value, but at least against least: the height
\* of a point in the latency chart (50 ms, 170 px), the width of a bar in the
\* frequency chart (5 calls).
Drawn(value, values, least, extent) == (value * extent) \div Max(values \cup {least})

-----------------------------------------------------------------------------
(* Lists.                                                                   *)

\* ORDER BY timestamp DESC LIMIT LogLimit: rows of one second come in any order.
GetAuditLogs ==
    LET n == Min({Len(auditLog), LogLimit})
    IN  {s \in [1 .. n -> DOMAIN auditLog] :
            /\ \A i, j \in 1 .. n : i < j => s[i] # s[j] /\ stamps[s[i]] >= stamps[s[j]]
            /\ \A k \in DOMAIN auditLog \ Range(s) : \A i \in 1 .. n : stamps[k] <= stamps[s[i]]}

\* Mutation: the chart is drawn in the order of the answer.
LatencyDataNewestFirst(logs) == SubSeq(logs, 1, Min({Len(logs), ChartPoints}))

\* renderLatencyChart, "last 20 requests in chronological order".
LatencyData(logs) == Reverse(SubSeq(logs, 1, Min({Len(logs), ChartPoints})))

ToolsOf(logs) == {auditLog[logs[i]].info.tool : i \in DOMAIN logs}
Count(logs, tool) == Cardinality({i \in DOMAIN logs : auditLog[logs[i]].info.tool = tool})

\* The keys of freqMap are in the order in which the rows first name them.
NamedFirst(logs, a, b) ==
    \E i \in DOMAIN logs : /\ auditLog[logs[i]].info.tool = a
                           /\ \A j \in 1 .. i : auditLog[logs[j]].info.tool # b

\* The sort by the number of calls is stable.
Busier(logs, a, b) ==
    \/ Count(logs, a) > Count(logs, b)
    \/ Count(logs, a) = Count(logs, b) /\ NamedFirst(logs, a, b)

\* renderFrequencyChart: the tools with fewer than five ahead of them in the sorted
\* list.
FrequencyData(logs) ==
    {a \in ToolsOf(logs) : Cardinality({b \in ToolsOf(logs) : Busier(logs, b, a)}) < ChartTools}

-----------------------------------------------------------------------------
(* Behaviours.                                                              *)

TelemetryInit ==
    /\ Init
    /\ clock = 0 /\ stamps = <<>> /\ loaded = <<>> /\ tableLen = 0

\* A step of the trail; an inserted row is stamped.
TrailStep ==
    /\ Next
    /\ stamps' = IF Len(auditLog') > Len(auditLog) THEN Append(stamps, clock) ELSE stamps
    /\ UNCHANGED <<clock, loaded, tableLen>>

Tick ==
    /\ clock < MaxClock
    /\ clock' = clock + 1
    /\ UNCHANGED <<vars, stamps, loaded, tableLen>>

\* loadTelemetry, if /api/logs answers; otherwise the view stays as it is.
LoadTelemetry ==
    /\ loaded' \in GetAuditLogs
    /\ tableLen' = Len(auditLog)
    /\ UNCHANGED <<vars, clock, stamps>>

TelemetryNext == TrailStep \/ Tick \/ LoadTelemetry

TelemetrySpec ==
    /\ TelemetryInit /\ [][TelemetryNext]_telemetryVars
    /\ WF_vars(WorkerTake) /\ WF_vars(WorkerInsert \/ WorkerFails)

-----------------------------------------------------------------------------
\* The latency chart shows the most recent calls in the order in which they were
\* made, over drops, failed inserts and restarts; only the calls of one second may
\* be out of order, or left out in favour of one another.
ChartIsTheRecentPast ==
    LET data == LatencyData(loaded)
    IN  /\ \A i, j \in DOMAIN data : i < j =>
              \/ auditLog[data[i]].id < auditLog[data[j]].id
              \/ stamps[data[i]] = stamps[data[j]]
        /\ \A k \in 1 .. tableLen \ Range(data) : \A i \in DOMAIN data :
              auditLog[k].id < auditLog[data[i]].id \/ stamps[k] = stamps[data[i]]

RatesFit(n) ==
    \A s \in 0 .. n : (SuccessRate(s, n) = 100 <=> s = n) /\ (SuccessRate(s, n) = 0 <=> s = 0)
P95Fits(n) == P95Idx(n) \in 0 .. n - 1 /\ 100 * (P95Idx(n) + 1) >= 95 * n

PageFits == \A n \in 1 .. 100 : RatesFit(n) /\ P95Fits(n)

\* What the telemetry view shows of a page of up to 100 rows, the LIMIT of
\* GetAuditLogs: 100% and 0% only if every call and no call succeeded; a 95th
\* percentile that is one of the durations and not below 95% of them; nothing drawn
\* outside its chart; and in the frequency chart as many tools as it has room for, none
\* left out that was called more often than one in it.
FiguresFit ==
    LET Ms(i) == auditLog[LatencyData(loaded)[i]].info.ms
        points == DOMAIN LatencyData(loaded)
        tools == FrequencyData(loaded)
        Calls(tool) == Count(loaded, tool)
    IN  /\ PageFits
        /\ \A i \in points : Drawn(Ms(i), {Ms(j) : j \in points}, 50, 170) \in 0 .. 170
        /\ Cardinality(tools) = Min({Cardinality(ToolsOf(loaded)), ChartTools})
        /\ \A a \in tools : /\ Drawn(Calls(a), {Calls(b) : b \in tools}, 5, 240) \in 0 .. 240
                            /\ \A b \in ToolsOf(loaded) \ tools : Calls(a) >= Calls(b)
=============================================================================
