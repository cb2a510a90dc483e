---------------------------- MODULE MCToolCalls ----------------------------
(* Instances of ToolCalls for TLC.                                          *)
EXTENDS ToolCalls, TLC

ApiCall == [tool |-> "api", role |-> "user", inScope |-> TRUE, args |-> "raw"]
ApiKeyed == [ApiCall EXCEPT !.args = "rawKey"]
ApiOutOfScope == [ApiCall EXCEPT !.inScope = FALSE]
SecretCall == [tool |-> "admin_register_vault_secret", role |-> "admin",
               inScope |-> TRUE, args |-> "raw"]
AdminByUser == [tool |-> "admin_other", role |-> "user", inScope |-> TRUE, args |-> "clean"]
AdminCall == [AdminByUser EXCEPT !.role = "admin"]

AllCalls == {ApiCall, ApiKeyed, ApiOutOfScope, SecretCall, AdminByUser, AdminCall}
AllFaults == Fault
NoFaults == {}

\* Two changes race one call, one change two calls, and calls of every kind each other.
SomeCalls == {
    [requests |-> {ApiCall}, calls |-> 1, edits |-> 2],
    [requests |-> {ApiCall}, calls |-> 2, edits |-> 1],
    [requests |-> {ApiKeyed}, calls |-> 1, edits |-> 1],
    [requests |-> AllCalls \ {ApiKeyed}, calls |-> 2, edits |-> 0]}
OneCall == {[requests |-> {ApiCall}, calls |-> 1, edits |-> 1]}
=============================================================================
