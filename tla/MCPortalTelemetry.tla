-------------------------- MODULE MCPortalTelemetry --------------------------
(* PortalTelemetry for TLC.                                                  *)
EXTENDS PortalTelemetry

TwoCalls == {[status |-> "success", tool |-> "a", ms |-> 10],
             [status |-> "failure", tool |-> "b", ms |-> 400]}
=============================================================================
