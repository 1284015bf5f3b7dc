------------------------------ MODULE Continuous ------------------------------
(***************************************************************************)
(* cli/src/main.rs, `continuous': the unattended loop that composes the    *)
(* scheduler, one round at a time, the store and the two clocks of the     *)
(* machine.                                                                *)
(*                                                                         *)
(* Between two awaits the loop is alone, so each stretch from one await to *)
(* the next is one action: Begin (plan, anchor, enter the round), Finish   *)
(* (charge, store, retention, compute the wait), Wake.                     *)
(* The schedule is computed on the wall clock, the sleep runs on the       *)
(* monotonic one: Tick moves both, Jump and StepBack move the wall alone.  *)
(***************************************************************************)
EXTENDS Scheduler

CONSTANTS
  MaxWire,            \* bound: bytes one phase can move
  SettingsChoices,    \* settings files the runs start from
  MetricArgs,         \* metrics the command line leaves selected
  RetentionInterval,
  MaxStepBacks,       \* bound: how often the wall clock may be set back
  Jumps,              \* how far one setting of the clock may move it
  JumpLimit,          \* bound: no clock is set forward past this instant
  MaxTime             \* bound: the last instant of the wall clock

ASSUME WireAssumption == MaxWire \in Nat \ {0} /\ 2 * MaxWire <= U64Max
ASSUME ChoicesAssumption == /\ SettingsChoices \subseteq Settings
                            /\ MetricArgs \subseteq MetricSelection
ASSUME ClockAssumption == /\ RetentionInterval \in Nat \ {0}
                          /\ Jumps \subseteq Nat \ {0}
                          /\ {MaxStepBacks, JumpLimit, MaxTime} \subseteq Nat

O == INSTANCE RoundOutcome

VARIABLES
  args,            \* MetricArgs of this run
  pc,              \* "begin", "round", "sleep" or "stopped"
  wall,
  sleep_left,      \* of the sleep in progress, on the monotonic clock
  started,         \* start of the current or last round
  plan,            \* plan of the current or last round
  last_retention,
  row,             \* history: what the last round stored, None once the next begins
  step_backs,      \* history: how often the wall clock was set back
  spent            \* history: bytes this process charged to each day

loopVars == <<args, pc, started, plan, last_retention>>
history == <<row, step_backs, spent>>
vars == <<settings, scheduleVars, loopVars, wall, sleep_left, history>>

Days == 0 .. DayOf(MaxTime)
\* A stored round: its readings, and what its skip reason names.
Row == [kind : RoundKind, read : SUBSET O!Phases,
        reasons : SUBSET (O!Phases \cup {"ping", "budget"})]

TypeOK ==
  /\ ScheduleTypeOK
  /\ args \in MetricArgs
  /\ pc \in {"begin", "round", "sleep", "stopped"}
  /\ wall \in 0 .. MaxTime
  /\ sleep_left \in Nat
  /\ started \in Nat
  /\ plan \in RoundPlan \cup {None}
  /\ last_retention \in Nat
  /\ row \in Row \cup {None}
  /\ step_backs \in 0 .. MaxStepBacks
  /\ spent \in [Days -> Bytes]

\* A process that has just opened its store and run its first retention.
Init ==
  /\ settings \in SettingsChoices
  /\ args \in MetricArgs
  /\ InitSchedule
  /\ pc = "begin"
  /\ wall = 0
  /\ sleep_left = 0
  /\ started = 0 /\ last_retention = 0
  /\ plan = None
  /\ row = None
  /\ step_backs = 0
  /\ spent = [d \in Days |-> 0]

-----------------------------------------------------------------------------
Intersect(left, right) ==
  [download |-> left.download /\ right.download,
   upload |-> left.upload /\ right.upload,
   ping |-> left.ping /\ right.ping]

Selected == Intersect(plan.metrics, Intersect(settings.metrics, args))

Begin ==
  /\ pc = "begin"
  /\ pc' = "round"
  /\ started' = wall
  /\ plan' = PlanNextRound(wall)
  /\ RecordRoundStart(wall, plan'.kind)
  /\ row' = None
  /\ UNCHANGED <<settings, args, wall, sleep_left, last_retention,
                 step_backs, spent>>

\* Mutant: the plan's reason is not merged into the row.
StoredRowOfRound(r) ==
  [kind |-> plan.kind, read |-> r.read, reasons |-> r.skipped]

\* apply_plan: the stored kind is the planned one; the plan's reason is kept
\* only when the round gave none of its own.
StoredRow(r) ==
  [kind |-> plan.kind, read |-> r.read,
   reasons |-> IF r.skipped = {} /\ plan.skipped THEN {"budget"} ELSE r.skipped]

\* The round returns, its bytes are charged to the day it began on, its row
\* is stored, and once a day the old samples are collapsed.
Finish(r) ==
  /\ pc' = "sleep"
  /\ row' = StoredRow(r)
  /\ RecordBytes(started, r.charged)
  /\ spent' = [spent EXCEPT ![DayOf(started)] = SaturatingAdd(@, r.charged)]
  /\ last_retention' = IF last_retention + RetentionInterval <= started
                       THEN started ELSE last_retention
  /\ sleep_left' = NextDue(wall) - wall
  /\ UNCHANGED <<settings, args, wall, started, plan, step_backs>>

\* insert_round failed: the loop ends with its error, the row is lost.
StoreFails(r) ==
  /\ RecordBytes(started, r.charged)
  /\ spent' = [spent EXCEPT ![DayOf(started)] = SaturatingAdd(@, r.charged)]
  /\ pc' = "stopped"
  /\ UNCHANGED <<settings, args, wall, sleep_left, started, plan,
                 last_retention, row, step_backs>>

Wake ==
  /\ pc = "sleep"
  /\ sleep_left = 0
  /\ pc' = "begin"
  /\ UNCHANGED <<settings, scheduleVars, args, wall, sleep_left, started, plan,
                 last_retention, history>>

-----------------------------------------------------------------------------
Stop ==
  /\ pc' = "stopped"
  /\ UNCHANGED <<settings, scheduleVars, args, wall, sleep_left, started, plan,
                 last_retention, history>>

\* Killed anywhere, Ctrl+C outside the sleep included: nothing is written on
\* the way out.
Crash == pc # "stopped" /\ Stop

\* ctrl_c() is polled only beside the sleep.
CtrlC == pc = "sleep" /\ Stop

\* A new process: its anchors and its usage of the day start from nothing.
Restart ==
  /\ pc = "stopped"
  /\ ForgetSchedule
  /\ pc' = "begin"
  /\ sleep_left' = 0
  /\ started' = wall /\ last_retention' = wall
  /\ plan' = None
  /\ row' = None
  /\ spent' = [d \in Days |-> 0]
  /\ UNCHANGED <<settings, args, wall, step_backs>>

MoveWall(to) ==
  /\ to \in 0 .. MaxTime
  /\ wall' = to
  /\ UNCHANGED <<settings, scheduleVars, loopVars, row, spent>>

Tick ==
  /\ MoveWall(wall + 1)
  /\ sleep_left' = IF sleep_left = 0 THEN 0 ELSE sleep_left - 1
  /\ UNCHANGED step_backs

\* The machine slept, or the clock was set forward.
Jump(d) ==
  /\ wall + d <= JumpLimit
  /\ MoveWall(wall + d)
  /\ UNCHANGED <<sleep_left, step_backs>>

StepBack(d) ==
  /\ step_backs < MaxStepBacks
  /\ MoveWall(wall - d)
  /\ step_backs' = step_backs + 1
  /\ UNCHANGED sleep_left

Reports == O!Reports(Selected, plan.byte_ceiling)

Round == pc = "round" /\ \E r \in O!Report : Finish(r) /\ r \in Reports
LostRound == pc = "round" /\ \E r \in Reports : StoreFails(r)

\* Where the loop is decides which of the three is enabled.
Loop == Begin \/ Round \/ Wake

Next ==
  \/ Loop
  \/ LostRound
  \/ Crash
  \/ CtrlC
  \/ Restart
  \/ Tick
  \/ \E d \in Jumps : Jump(d) \/ StepBack(d)

\* The loop's own steps and the passing of time; a round returns
\* (Round!RoundReturns).  Nobody has to restart it, stop it or set a clock.
Fairness ==
  /\ WF_vars(Loop)
  /\ WF_vars(Tick)

Spec == Init /\ [][Next]_vars /\ Fairness

-----------------------------------------------------------------------------
(***************************************************************************)
(* Properties.                                                             *)
(***************************************************************************)
Starts == pc = "begin" /\ pc' = "round"

\* Neither cadence bursts: whatever was missed while the machine slept or a
\* round ran long, two starts of one cadence are at least its interval apart,
\* and a full round counts for the ping cadence too (schedule.rs:10-14).  A
\* clock set back during a sleep moves the start it ends with, hence the first
\* conjunct.
CadenceKept ==
  [][Starts /\ step_backs = 0 =>
       /\ plan'.kind = "full" /\ last_full_start # None
            => started' - last_full_start >= settings.throughput_every
       /\ plan'.kind = "ping" /\ plan # None
            => started' - started >= settings.ping_every]_vars

\* A ping-only round never takes the slot of a throughput round that is due,
\* so no ping-only round measures a link about to be loaded
\* (schedule.rs:125-128), also on a clock that was set back.
PingYieldsToFull ==
  [][Starts /\ plan'.kind = "ping"
       => /\ last_full_start # None
          /\ started' < last_full_start + settings.throughput_every]_vars

\* The bytes charged to a day by one process stay within the budget of the
\* day, over all its rounds, those that span midnight included.  A clock set
\* back over midnight starts the budget again (refresh_budget_day).
BudgetKept ==
  settings.daily_budget_bytes # None /\ step_backs = 0 =>
    \A d \in Days : spent[d] <= settings.daily_budget_bytes

\* What the scheduler offers is the budget less everything charged to the day
\* that contains now (schedule.rs:137-138).
LeftIsUnspent ==
  settings.daily_budget_bytes # None /\ step_backs = 0 =>
    BudgetLeft(wall) = SaturatingSub(settings.daily_budget_bytes,
                                     spent[DayOf(wall)])

\* A stored full round has every throughput reading that the settings and the
\* command line ask for, or a reason that names the missing one; a round skipped
\* for its budget gives some reason (round.rs:185-188, main.rs:303-318).
Asked == O!Wanted(Intersect(settings.metrics, args))
FullRowsAreExplained ==
  row # None /\ row.kind = "full" =>
    \/ Asked \subseteq row.read \cup row.reasons
    \/ plan.skipped /\ row.reasons # {}

\* The dense cadence never starves the hourly one: an overdue throughput
\* round is eventually run.
FullDue ==
  \/ last_full_start = None
  \/ last_full_start + settings.throughput_every <= wall
OverdueFullRuns ==
  FullDue /\ pc # "stopped" ~>
    pc = "stopped" \/ (pc = "round" /\ plan.kind = "full")

\* What the source says and the code does not do.

\* "`Full` ran, or at least attempted, a throughput phase" (round.rs:100).  A
\* phase that was attempted leaves a reading or a reason.
FullRowsAttempt ==
  row # None /\ row.kind = "full" => row.read \cup row.reasons # {}

\* The kind is the planned one "with the skip reason saying what happened to it"
\* (main.rs:303): a round skipped for its budget says so.
SkippedRowsSayWhy ==
  row # None /\ plan.skipped => "budget" \in row.reasons
=============================================================================
