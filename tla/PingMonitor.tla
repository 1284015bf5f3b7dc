----------------------------- MODULE PingMonitor -----------------------------
(***************************************************************************)
(* app/src/state.rs: the ping monitor of the GUI.                          *)
(*                                                                         *)
(* A cycle probes a copy of the rows it was started with, stores the       *)
(* samples by name, rests until its interval is over and then posts them   *)
(* as one TargetsRefreshed message keyed by row index; its handler starts  *)
(* the next cycle.  Meanwhile the user starts, stops, and edits targets,   *)
(* which rebuilds the rows at once, and the history read at boot comes     *)
(* back some time later.                                                   *)
(*                                                                         *)
(* A sample is the target it measured and the cycle that took it; cycle 0  *)
(* stands for all that was stored before this process, and by the command  *)
(* line.                                                                   *)
(***************************************************************************)
EXTENDS Integers, Sequences, SequencesExt, FiniteSets

CONSTANTS
  Absent,        \* None
  Names,         \* names a target may have
  Configured,    \* targets the settings start with
  WithHistory,   \* names the store has samples of at boot
  MaxCycles,     \* bound: cycles started in one run
  MaxEdits       \* bound: settings edits in one run

ASSUME ConfiguredAssumption ==
  /\ Configured \in Seq([name : Names, enabled : BOOLEAN])
  /\ WithHistory \subseteq Names
ASSUME BoundAssumption == {MaxCycles, MaxEdits} \subseteq Nat

VARIABLES
  targets,        \* settings.targets
  ping_targets,   \* the live rows
  ping_running,
  cycles,         \* cycles in flight, resting or waiting to be handled
  store,          \* the database: stored samples of each name
  asked,          \* names the boot load asked for, {} once it has read them
  loaded,         \* PingHistoryLoaded on its way: name -> samples, or Absent
  begun,          \* cycles started so far
  edits,          \* settings edits so far
  removed_target  \* what Undo would put back, and where, or Absent

boot == <<asked, loaded>>
editor == <<edits, removed_target>>
monitorVars == <<targets, ping_targets, ping_running, cycles, store, boot, begun, editor>>

TargetSpec == [name : Names, enabled : BOOLEAN]
Sample == [of : Names, cycle : 0 .. MaxCycles]
TargetLive == [name : Names, samples : Seq(Sample)]
Cycle == [id : 1 .. MaxCycles, rows : Seq(Names), stored : BOOLEAN]

MonitorTypeOK ==
  /\ targets \in Seq(TargetSpec)
  /\ ping_targets \in Seq(TargetLive)
  /\ ping_running \in BOOLEAN
  /\ cycles \subseteq Cycle
  /\ store \in [Names -> Seq(Sample)]
  /\ asked \subseteq Names
  /\ loaded \in [Names -> Seq(Sample)] \cup {Absent}
  /\ begun \in 0 .. MaxCycles
  /\ edits \in 0 .. MaxEdits
  /\ removed_target \in {Absent} \cup [target : TargetSpec, index : Nat \ {0}]

-----------------------------------------------------------------------------
\* The names of the enabled targets, in their order.
EnabledNames(specs) ==
  LET upto[n \in 0 .. Len(specs)] ==
        IF n = 0 THEN <<>>
        ELSE IF specs[n].enabled THEN Append(upto[n - 1], specs[n].name)
        ELSE upto[n - 1]
  IN  upto[Len(specs)]

\* The first row of a name, or 0.
RowOf(rows, name) ==
  SelectInSeq(rows, LAMBDA row : row.name = name)

\* sync_ping_targets: one row for each enabled target, in their order, with
\* the samples of the first old row of the same name.
Synced(existing, specs) ==
  LET names == EnabledNames(specs)
      Kept(name) == IF RowOf(existing, name) = 0 THEN <<>>
                    ELSE existing[RowOf(existing, name)].samples
  IN  [i \in DOMAIN names |-> [name |-> names[i], samples |-> Kept(names[i])]]

InitMonitor ==
  /\ targets = Configured
  /\ ping_targets = Synced(<<>>, Configured)
  /\ ping_running = FALSE
  /\ cycles = {}
  /\ store = [n \in Names |-> IF n \in WithHistory THEN <<[of |-> n, cycle |-> 0]>>
                              ELSE <<>>]
  /\ asked = ToSet(EnabledNames(Configured))
  /\ loaded = Absent
  /\ begun = 0
  /\ edits = 0
  /\ removed_target = Absent

-----------------------------------------------------------------------------

\* start_ping_cycle, on the rows it is given.
StartCycle(rows) ==
  [id |-> begun + 1, rows |-> [i \in DOMAIN rows |-> rows[i].name],
   stored |-> FALSE]

StartPingMonitor ==
  LET rows == Synced(ping_targets, targets)
  IN  /\ ~ping_running
      /\ begun < MaxCycles
      /\ ping_targets' = rows
      /\ ping_running' = (rows # <<>>)
      /\ IF rows = <<>> THEN UNCHANGED <<cycles, begun>>
         ELSE cycles' = cycles \cup {StartCycle(rows)} /\ begun' = begun + 1
      /\ UNCHANGED <<targets, store, boot, editor>>

StopPingMonitor ==
  /\ ping_running
  /\ ping_running' = FALSE
  /\ UNCHANGED <<targets, ping_targets, cycles, store, boot, begun, editor>>

\* What a cycle adds to the samples of a name, one for each row it had.
Taken(c, name) ==
  [i \in 1 .. Cardinality({j \in DOMAIN c.rows : c.rows[j] = name}) |->
     [of |-> name, cycle |-> c.id]]

\* The probes of a cycle are back and written, or lost where the store does
\* not open; what is left of the cycle is a sleep.
CycleStores(c) ==
  /\ ~c.stored
  /\ cycles' = (cycles \ {c}) \cup {[c EXCEPT !.stored = TRUE]}
  /\ \/ store' = [n \in Names |-> store[n] \o Taken(c, n)]
     \/ UNCHANGED store
  /\ UNCHANGED <<targets, ping_targets, ping_running, boot, begun, editor>>

\* Samples go to the row that has their index by now, if one does.
Refreshed(rows, c) ==
  [i \in DOMAIN rows |->
     IF i \in DOMAIN c.rows
     THEN [rows[i] EXCEPT !.samples = Append(@, [of |-> c.rows[i], cycle |-> c.id])]
     ELSE rows[i]]

\* Mutant: the chain does not look whether it still should run.
OnTargetsRefreshedAlways(c) ==
  /\ c.stored
  /\ ping_targets' = Refreshed(ping_targets, c)
  /\ begun < MaxCycles
  /\ cycles' = (cycles \ {c}) \cup {StartCycle(ping_targets)}
  /\ begun' = begun + 1
  /\ UNCHANGED <<targets, ping_running, store, boot, editor>>

OnTargetsRefreshed(c) ==
  /\ c.stored
  /\ ping_targets' = Refreshed(ping_targets, c)
  /\ IF ping_running
     THEN /\ begun < MaxCycles
          /\ cycles' = (cycles \ {c}) \cup {StartCycle(ping_targets)}
          /\ begun' = begun + 1
     ELSE cycles' = cycles \ {c} /\ UNCHANGED begun
  /\ UNCHANGED <<targets, ping_running, store, boot, editor>>

\* The load begun at boot reads the store, at whatever time it gets to run; it
\* comes back empty where the store does not open, and without a name whose
\* samples cannot be read.
LoadReads ==
  /\ asked # {}
  /\ asked' = {}
  /\ \E readable \in SUBSET asked :
       loaded' = [n \in Names |-> IF n \in readable THEN store[n] ELSE <<>>]
  /\ UNCHANGED <<targets, ping_targets, ping_running, cycles, store, begun, editor>>

\* `alidade ping-monitor' stores samples of its own under the same names; they
\* are seen only by the load at boot.
CommandLineStores(name) ==
  /\ asked # {}
  /\ store[name] = <<>>
  /\ store' = [store EXCEPT ![name] = <<[of |-> name, cycle |-> 0]>>]
  /\ UNCHANGED <<targets, ping_targets, ping_running, cycles, boot, begun, editor>>

\* Mutant: history takes the place of what a row holds.
HistoryReplaces ==
  /\ loaded # Absent
  /\ loaded' = Absent
  /\ ping_targets' = [i \in DOMAIN ping_targets |->
       [ping_targets[i] EXCEPT !.samples = loaded[ping_targets[i].name]]]
  /\ UNCHANGED <<targets, ping_running, cycles, store, asked, begun, editor>>

\* First row of each name, and only where nothing arrived before.
OnPingHistoryLoaded ==
  /\ loaded # Absent
  /\ loaded' = Absent
  /\ ping_targets' =
       [i \in DOMAIN ping_targets |->
          LET row == ping_targets[i]
          IN  IF RowOf(ping_targets, row.name) = i /\ row.samples = <<>>
              THEN [row EXCEPT !.samples = loaded[row.name]]
              ELSE row]
  /\ UNCHANGED <<targets, ping_running, cycles, store, asked, begun, editor>>

-----------------------------------------------------------------------------
\* commit_settings: the rows follow the settings at once.
Commit(new) ==
  /\ edits < MaxEdits
  /\ targets' = new
  /\ ping_targets' = Synced(ping_targets, new)
  /\ edits' = edits + 1
  /\ UNCHANGED <<ping_running, cycles, store, boot, begun>>

ToggleTarget(i) == Commit([targets EXCEPT ![i].enabled = ~@])
RenameTarget(i, name) == Commit([targets EXCEPT ![i].name = name])
AddTarget(name) == Commit(Append(targets, [name |-> name, enabled |-> TRUE]))

RemoveTarget(i) ==
  /\ Commit(RemoveAt(targets, i))
  /\ removed_target' = [target |-> targets[i], index |-> i]

\* The target comes back where it was, or at the end of a list that has become
\* shorter; the samples of its row do not.
UndoTargetRemoval ==
  /\ removed_target # Absent
  /\ LET last == Len(targets) + 1
         index == IF removed_target.index < last THEN removed_target.index ELSE last
     IN  Commit(InsertAt(targets, index, removed_target.target))
  /\ removed_target' = Absent

\* Escape, or the end of the ten seconds.
UndoWithdrawn ==
  /\ removed_target # Absent
  /\ removed_target' = Absent
  /\ UNCHANGED <<targets, ping_targets, ping_running, cycles, store, boot, begun, edits>>

Edit ==
  \/ /\ \/ \E i \in DOMAIN targets :
              ToggleTarget(i) \/ \E name \in Names : RenameTarget(i, name)
        \/ \E name \in Names : AddTarget(name)
     /\ UNCHANGED removed_target
  \/ \E i \in DOMAIN targets : RemoveTarget(i)
  \/ UndoTargetRemoval

CycleStep == \E c \in cycles : CycleStores(c) \/ OnTargetsRefreshed(c)

NextMonitor ==
  \/ StartPingMonitor
  \/ StopPingMonitor
  \/ CycleStep
  \/ LoadReads
  \/ OnPingHistoryLoaded
  \/ \E name \in Names : CommandLineStores(name)
  \/ Edit
  \/ UndoWithdrawn

\* Probes are bounded by their timeout, the rest of a cycle is a sleep, and a
\* posted message is handled.
MonitorFairness ==
  WF_monitorVars(CycleStep) /\ WF_monitorVars(LoadReads) /\ WF_monitorVars(OnPingHistoryLoaded)

SpecMonitor == InitMonitor /\ [][NextMonitor]_monitorVars /\ MonitorFairness

-----------------------------------------------------------------------------
(***************************************************************************)
(* Properties.                                                             *)
(***************************************************************************)

\* The chain of a stopped monitor ends, unless it is started again: it is
\* never left pinging behind the Start button.
StopDrains == ~ping_running ~> cycles = {} \/ ping_running

\* While a name stays in the list, its row keeps its samples through every
\* edit, Start and late history: they only grow.
SamplesSurvive ==
  [][\A i \in DOMAIN ping_targets :
       LET row == ping_targets[i]
           now == RowOf(ping_targets', row.name)
       IN  RowOf(ping_targets, row.name) = i /\ now # 0
             => IsPrefix(row.samples, ping_targets'[now].samples)]_monitorVars

\* What the source says and the code does not always do.

\* "The index is stable for the lifetime of one monitor session": a sample
\* lands in the row of the target it measured (state.rs:1059-1064).
SamplesInTheirRow ==
  \A i \in DOMAIN ping_targets :
    \A j \in DOMAIN ping_targets[i].samples :
      ping_targets[i].samples[j].of = ping_targets[i].name
=============================================================================
