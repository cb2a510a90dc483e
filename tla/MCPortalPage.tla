---------------------------- MODULE MCPortalPage ----------------------------
(* PortalPage for TLC.  Parts of the page that share state are followed      *)
(* together; each set of parts gets the bounds under which its cases happen. *)
EXTENDS PortalPage

CONSTANTS r1, r2

Lists == {"connections", "endpoints"}

SomeParts == {
    \* connections and tools, a cascading delete: a fault; another administrator
    [parts |-> Lists, ids |-> {r1}, ops |-> 2, busy |-> 1, edits |-> 0, faults |-> 1],
    [parts |-> Lists, ids |-> {r1}, ops |-> 2, busy |-> 1, edits |-> 1, faults |-> 0],
    \* the lists of STATE, which the dashboard replaces behind the views' back
    [parts |-> Lists \cup {"dashboard"}, ids |-> {r1}, ops |-> 3, busy |-> 1, edits |-> 0, faults |-> 0],
    [parts |-> {"connections", "dashboard"}, ids |-> {r1}, ops |-> 3, busy |-> 1, edits |-> 0, faults |-> 1],
    \* forms opened one after the other
    [parts |-> {"connections", "dashboard"}, ids |-> {r1, r2}, ops |-> 4, busy |-> 1, edits |-> 0, faults |-> 0],
    [parts |-> {"connections"}, ids |-> {r1, r2}, ops |-> 5, busy |-> 0, edits |-> 0, faults |-> 0],
    \* the views with a list of their own
    [parts |-> {"vault"}, ids |-> {r1}, ops |-> 3, busy |-> 1, edits |-> 1, faults |-> 1],
    [parts |-> {"tokens"}, ids |-> {r1}, ops |-> 3, busy |-> 1, edits |-> 1, faults |-> 1],
    [parts |-> {"settings"}, ids |-> {}, ops |-> 1, busy |-> 0, edits |-> 1, faults |-> 0],
    [parts |-> {"logs", "docs"}, ids |-> {}, ops |-> 3, busy |-> 1, edits |-> 0, faults |-> 2]}
=============================================================================
