------------------------------ MODULE MC_Store ------------------------------
(***************************************************************************)
(* An instance of Store for TLC: minutes of two seconds and days of two    *)
(* minutes.                                                                *)
(***************************************************************************)
EXTENDS Store, TLC

Ping(avg, loss) == [avg_ms |-> avg, loss_pct |-> loss]
Window(bytes, ms) == [bytes |-> bytes, ms |-> ms]
Result(kind, down, ping, window, reason) ==
  [kind |-> kind, down |-> down, ping |-> ping, window |-> window,
   capped |-> FALSE, reason |-> reason]

\* A measured round, one whose reading was discarded, a ping-only round that
\* nothing answered.
MCResults ==
  {Result("full", 7, Ping(3, 0), Window(5, 10), None),
   Result("full", None, None, Window(2, 1), "short"),
   Result("ping", None, Ping(None, 100), None, None)}

MCOldRounds == {Result("full", 4, Ping(2, 1), Window(5, None), None)}

Alike == Permutations(Clients)
=============================================================================
