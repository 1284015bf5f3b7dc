---------------------------- MODULE MC_PingMonitor ----------------------------
(***************************************************************************)
(* Instances of PingMonitor for TLC: two names, both configured, one of    *)
(* them with stored history; edits may rename one to the other.            *)
(***************************************************************************)
EXTENDS PingMonitor, TLC

CONSTANTS a, b

MCNames == {a, b}
MCConfigured == <<[name |-> a, enabled |-> TRUE], [name |-> b, enabled |-> TRUE]>>
MCWithHistory == {a}
=============================================================================
