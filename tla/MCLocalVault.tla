---------------------------- MODULE MCLocalVault ----------------------------
(* Instances of LocalVault for TLC.                                         *)
EXTENDS LocalVault, TLC

CONSTANTS k1, k2, v1, e1

Absent == {[kind |-> "absent", secrets |-> Empty, encKey |-> e1]}
Legacy == {[kind |-> "plain", secrets |-> [k \in Keys |-> v1], encKey |-> e1]}
Existing == {[kind |-> "sealed", secrets |-> [k \in Keys |-> v1], encKey |-> e1]}
AnyFile == Absent \cup Legacy \cup Existing
=============================================================================
