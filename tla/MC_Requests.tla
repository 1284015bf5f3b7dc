---------------------------- MODULE MC_Requests ----------------------------
(***************************************************************************)
(* An instance for TLC of the parts of the two programs that ask for       *)
(* things and apply what comes back: the notifications, the chart, the     *)
(* history, Home, and the ping monitor of the command line.                *)
(* No part writes a variable another one reads (each that reads a database *)
(* has one of its own), so what holds of each alone holds of them          *)
(* together: a behaviour of the instance moves one of them, chosen at its  *)
(* start.                                                                  *)
(***************************************************************************)
EXTENDS Notify, ContinuousScreen, HistoryScreen, HomeScreen, PingCommand, TLC

\* Both ends of a leap day, the start of a day just more than a week later, and
\* the date of each.
MCDateOf ==
  1709164800 :> <<2024, 2, 29>> @@ 1709251199 :> <<2024, 2, 29>> @@
  1709856000 :> <<2024, 3, 8>>

MCInstants == DOMAIN MCDateOf

MCDates == {<<2024, 2, 29>>, <<2024, 3, 8>>}

MCFirstDates == <<<<2024, 2, 29>>, <<2024, 3, 8>>>>

\* A target that is off, one whose name is looked up in a thread, one by TCP, and
\* two addresses.
Target(name, on, probe, literal) ==
  [name |-> name, enabled |-> on, probe |-> probe, literal |-> literal]
MCConfigured ==
  <<Target("off", FALSE, "icmp", TRUE), Target("pop", TRUE, "icmp", FALSE),
    Target("game", TRUE, "tcp", FALSE), Target("dns", TRUE, "icmp", TRUE),
    Target("web", TRUE, "tcp", TRUE)>>

\* Texts of --target: part of two names, one of them off; a name in capitals; none.
MCHolds ==
  "o" :> {"off", "pop"} @@ "GAME" :> {"game"} @@ "dns" :> {"dns"} @@ "web" :> {"web"} @@ "x" :> {}
MCAsked == {<<"o", "GAME">>, <<"dns">>, <<"web", "web">>, <<"GAME", "x">>}

\* Too few samples for a phase, one of three lost, all lost.
MCSampleRuns == {<<Absent, 1>>, <<1, Absent, 2>>, <<Absent, Absent, Absent>>}

MCOtherRounds ==
  {RoundOf(stats(<<2, 2, 2>>), {}, [label \in PhaseLabel |-> Ran(label, run, 1, 5, FALSE, "")], {}) :
     run \in {<<3, 3, 3>>, <<3>>}}

VARIABLE part

vars == <<part, notifyVars, chartVars, historyVars, homeVars, commandVars>>

own_chart == <<time_range, chart_rows, load_error, chart_read>>
own_history == <<history_from, history_to, history_rows, toast, history_read>>

others == <<homeVars, commandVars>>

Parts == {"notify", "chart", "history", "home", "command"}

\* The parts that do not move start in one state.
Init ==
  /\ part \in Parts
  /\ InitNotify
  /\ part # "notify" =>
       /\ ~notify_master /\ \A kind \in ThresholdKind : ~enabled[kind]
       /\ \A kind \in ThresholdKind, value \in Limits : limit[kind] <= value
  /\ InitRounds
  /\ tasks = IF part = "history" THEN FirstHistory ELSE <<load_chart_task>>
  /\ InitChart
  /\ part # "chart" => time_range = "Hour"
  /\ InitHistory
  /\ InitHome
  /\ part # "home" => now = 1 /\ stored = <<>>
  /\ InitCommand
  /\ part # "command" => stage = "ended" /\ seconds = 1

Next ==
  \/ part = "notify" /\ NextNotify /\ UNCHANGED <<part, chartVars, own_history, others>>
  \/ part = "chart" /\ NextChart /\ UNCHANGED <<part, notifyVars, own_history, others>>
  \/ part = "history" /\ NextHistory /\ UNCHANGED <<part, notifyVars, own_chart, others>>
  \/ part = "home" /\ NextHome
     /\ UNCHANGED <<part, notifyVars, chartVars, own_history, commandVars>>
  \/ part = "command" /\ NextCommand
     /\ UNCHANGED <<part, notifyVars, chartVars, own_history, homeVars>>

Spec == Init /\ [][Next]_vars
=============================================================================
