--------------------------- MODULE MC_AppContinuous ---------------------------
(***************************************************************************)
(* Instances of AppContinuous for TLC: cadences of 4 and 2 (and the edit   *)
(* that swaps them for 3 and 3 and lowers the budget), days of 5, rounds   *)
(* of up to one byte per phase against budgets of 2 and 1.                 *)
(***************************************************************************)
EXTENDS AppContinuous

All == [download |-> TRUE, upload |-> TRUE, ping |-> TRUE]

Choice(full, ping, budget) ==
  [throughput_every |-> full, ping_every |-> ping, metrics |-> All,
   daily_budget_bytes |-> budget]

MCSettings == {Choice(4, 2, 2), Choice(3, 3, 1)}
MCOne == {Choice(4, 2, 2)}
=============================================================================
