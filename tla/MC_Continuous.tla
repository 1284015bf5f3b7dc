---------------------------- MODULE MC_Continuous ----------------------------
(***************************************************************************)
(* Instances of Continuous for TLC: a throughput cadence of 4, a ping      *)
(* cadence of 2, days of 5, a budget of 2 and rounds of up to 1 byte per   *)
(* phase, so that a day sees several rounds of both kinds, a round can     *)
(* exhaust the budget, and midnight falls inside rounds and sleeps.        *)
(***************************************************************************)
EXTENDS Continuous

All == [download |-> TRUE, upload |-> TRUE, ping |-> TRUE]
PingOnlyArgs == [All EXCEPT !.download = FALSE, !.upload = FALSE]

Choice(budget, metrics) ==
  [throughput_every |-> 4, ping_every |-> 2, metrics |-> metrics,
   daily_budget_bytes |-> budget]

MCBudgeted == {Choice(2, All)}
\* No flag, --no-upload and --ping-only.
MCArgs == {All, [All EXCEPT !.upload = FALSE], PingOnlyArgs}
MCJumps == {3}
=============================================================================
