---------------------------- MODULE AppContinuous ----------------------------
(***************************************************************************)
(* app/src/state.rs: continuous mode in the GUI.  One handler at a time    *)
(* runs on App; what it starts (a round, a sleep) runs beside it and comes *)
(* back as a message, so every handler is one action and `rounds' and      *)
(* `ticks' hold what is in flight.                                         *)
(*                                                                         *)
(* The clock is a chain: on_tick sleeps and posts the next Tick as long as *)
(* continuous mode runs.  A round is a single test or a scheduled one; the *)
(* tray and the window both reach the same handlers, without the buttons'  *)
(* guards.  A sleep between two ticks is far shorter than a cadence, so a  *)
(* pending Tick may be delivered at any time.                              *)
(***************************************************************************)
EXTENDS Scheduler, Sequences, SequencesExt

CONSTANTS
  MaxWire,           \* bound: bytes one phase can move
  SettingsChoices,   \* settings the user may commit
  HasTray,           \* whether the tray was built
  Minimized,         \* --minimized
  MaxSingles,        \* bound: single tests the user asks for in one run
  MaxEdits,          \* bound: settings edits in one run
  JumpLimit,         \* bound: no clock is set forward past this instant
  MaxTime            \* bound: the last instant of the wall clock

ASSUME WireAssumption == MaxWire \in Nat \ {0} /\ 2 * MaxWire <= U64Max
ASSUME ChoicesAssumption == SettingsChoices \subseteq Settings
ASSUME TrayAssumption == HasTray \in BOOLEAN /\ Minimized \in BOOLEAN
ASSUME BoundAssumption == {MaxSingles, MaxEdits, JumpLimit, MaxTime} \subseteq Nat

O == INSTANCE RoundOutcome

VARIABLES
  continuous_running, continuous_paused, clock_armed, round_running,
  window,     \* "unknown" before its id is, then "shown" or "hidden"
  up,         \* whether the process is there
  wall,
  ticks,      \* sleeps in flight, each of which posts one Tick
  rounds,     \* rounds in flight and RoundFinished messages, oldest first
  singles,    \* single tests asked for so far
  edits,      \* settings edits so far
  charged,    \* history: bytes charged to each day
  scheduled   \* history: those of them moved by scheduled rounds

modeVars == <<continuous_running, continuous_paused, clock_armed>>
shell == <<window, up>>
bounds == <<singles, edits>>
history == <<charged, scheduled>>
vars == <<settings, scheduleVars, modeVars, round_running, shell, wall, ticks,
          rounds, bounds, history>>

Days == 0 .. DayOf(MaxTime)

\* A round's future owns a copy of its metrics and of its plan; a single test
\* has no plan.  `bytes', what its load windows add up to, is None until the round
\* has run and its row is stored.
InFlight == [plan : RoundPlan \cup {None}, metrics : MetricSelection,
             bytes : Bytes \cup {None}]

TypeOK ==
  /\ ScheduleTypeOK
  /\ {continuous_running, continuous_paused, clock_armed, round_running, up}
       \subseteq BOOLEAN
  /\ window \in {"unknown", "shown", "hidden"}
  /\ wall \in 0 .. MaxTime
  /\ ticks \in Nat
  /\ rounds \in Seq(InFlight)
  /\ singles \in 0 .. MaxSingles
  /\ edits \in 0 .. MaxEdits
  /\ charged \in [Days -> Bytes]
  /\ scheduled \in [Days -> Bytes]

Init ==
  /\ settings \in SettingsChoices
  /\ InitSchedule
  /\ continuous_running = FALSE /\ continuous_paused = FALSE
  /\ clock_armed = FALSE /\ round_running = FALSE
  /\ window = "unknown" /\ up = TRUE
  /\ wall = 0
  /\ ticks = 0
  /\ rounds = <<>>
  /\ singles = 0 /\ edits = 0
  /\ charged = [d \in Days |-> 0] /\ scheduled = [d \in Days |-> 0]

-----------------------------------------------------------------------------
(***************************************************************************)
(* Rounds.                                                                 *)
(***************************************************************************)
Launch(round) ==
  /\ round_running' = TRUE
  /\ rounds' = Append(rounds, round)

\* Mutant: the guard is left to the button.
StartSingleTestUnguarded ==
  /\ up
  /\ singles < MaxSingles
  /\ Launch([plan |-> None, metrics |-> settings.metrics, bytes |-> None])
  /\ singles' = singles + 1
  /\ UNCHANGED <<settings, scheduleVars, modeVars, shell, wall, ticks, edits,
                 history>>

\* The handler's own guard; the window's button has it too, the tray's has not.
StartSingleTest ==
  /\ up
  /\ singles < MaxSingles
  /\ ~round_running
  /\ Launch([plan |-> None, metrics |-> settings.metrics, bytes |-> None])
  /\ singles' = singles + 1
  /\ UNCHANGED <<settings, scheduleVars, modeVars, shell, wall, ticks, edits,
                 history>>

\* Mutant: every tick without a round begins one.
ScheduledAlways == ~round_running

ScheduledDue == ~round_running /\ NextDue(wall) <= wall

BeginScheduledRound ==
  LET plan == PlanNextRound(wall)
  IN  /\ RecordRoundStart(wall, plan.kind)
      /\ Launch([plan |-> plan, metrics |-> plan.metrics, bytes |-> None])

\* A round that is due begins, and in any case the chain sleeps once more.
StepContinuous ==
  /\ IF ScheduledDue THEN BeginScheduledRound
                     ELSE UNCHANGED <<scheduleVars, round_running, rounds>>
  /\ UNCHANGED <<settings, shell, wall, bounds, history>>

CeilingOf(round) == IF round.plan = None THEN None ELSE round.plan.byte_ceiling

\* The future of a round ends: run_round, apply_plan and persist.
RoundEnds(i) ==
  /\ up
  /\ rounds[i].bytes = None
  /\ \E r \in O!Reports(rounds[i].metrics, CeilingOf(rounds[i])) :
       rounds' = [rounds EXCEPT ![i].bytes = r.charged]
  /\ UNCHANGED <<settings, scheduleVars, modeVars, round_running, shell, wall,
                 ticks, bounds, history>>

\* Single tests count too, on the day their message is handled.
OnRoundFinished(i) ==
  LET round == rounds[i]
      today == DayOf(wall)
  IN  /\ up
      /\ round.bytes # None
      /\ round_running' = FALSE
      /\ RecordBytes(wall, round.bytes)
      /\ rounds' = RemoveAt(rounds, i)
      /\ charged' = [charged EXCEPT ![today] = SaturatingAdd(@, round.bytes)]
      /\ scheduled' = IF round.plan = None THEN scheduled
                      ELSE [scheduled EXCEPT
                              ![today] = SaturatingAdd(@, round.bytes)]
      /\ UNCHANGED <<settings, modeVars, shell, wall, ticks, bounds>>

-----------------------------------------------------------------------------
(***************************************************************************)
(* The clock of continuous mode.                                           *)
(***************************************************************************)
\* Mutant: every Resume starts a chain.
ResumeUnarmed ==
  /\ up
  /\ ~(continuous_running /\ ~continuous_paused)
  /\ continuous_running' = TRUE
  /\ continuous_paused' = FALSE
  /\ clock_armed' = TRUE
  /\ ticks' = ticks + 1
  /\ StepContinuous

ResumeContinuous ==
  /\ up
  /\ ~(continuous_running /\ ~continuous_paused)
  /\ continuous_running' = TRUE
  /\ continuous_paused' = FALSE
  /\ clock_armed' = TRUE
  /\ IF clock_armed
     THEN UNCHANGED <<settings, scheduleVars, round_running, shell, wall, ticks,
                      rounds, bounds, history>>
     ELSE ticks' = ticks + 1 /\ StepContinuous

Pause ==
  /\ up
  /\ continuous_running' = FALSE
  /\ continuous_paused' = TRUE
  /\ UNCHANGED <<settings, scheduleVars, clock_armed, round_running, shell,
                 wall, ticks, rounds, bounds, history>>

OnTick ==
  /\ up
  /\ ticks > 0
  /\ UNCHANGED <<continuous_running, continuous_paused>>
  /\ IF continuous_running /\ ~continuous_paused
     THEN clock_armed' = TRUE /\ UNCHANGED ticks /\ StepContinuous
     ELSE /\ clock_armed' = FALSE
          /\ ticks' = ticks - 1
          /\ UNCHANGED <<settings, scheduleVars, round_running, shell, wall,
                         rounds, bounds, history>>

\* Any edit of the settings screen that commit_settings pushes down.
CommitSettings(new) ==
  /\ up
  /\ edits < MaxEdits
  /\ new # settings
  /\ UpdateSettings(new)
  /\ edits' = edits + 1
  /\ UNCHANGED <<modeVars, round_running, shell, wall, ticks, rounds, singles,
                 history>>

-----------------------------------------------------------------------------
(***************************************************************************)
(* The window, the tray and the end of the process.                        *)
(***************************************************************************)
ShellStep ==
  UNCHANGED <<settings, scheduleVars, modeVars, round_running, wall, ticks,
              rounds, bounds, history>>

OnWindowIdReady ==
  /\ up
  /\ window = "unknown"
  /\ window' = IF Minimized THEN "hidden" ELSE "shown"
  /\ UNCHANGED up
  /\ ShellStep

RestoreWindow ==
  /\ up /\ HasTray
  /\ window = "hidden"
  /\ window' = "shown"
  /\ UNCHANGED up
  /\ ShellStep

ShouldHideOnClose == HasTray /\ continuous_running

\* Closing the only window for real ends the application, and drops whatever
\* is in flight.
OnCloseRequested ==
  /\ up
  /\ window # "hidden"
  /\ IF ShouldHideOnClose THEN window' = "hidden" /\ UNCHANGED up
                          ELSE up' = FALSE /\ UNCHANGED window
  /\ ShellStep

Quit == up /\ HasTray /\ up' = FALSE /\ UNCHANGED window /\ ShellStep

MoveWall(to) ==
  /\ to \in 0 .. MaxTime
  /\ wall' = to
  /\ UNCHANGED <<settings, scheduleVars, modeVars, round_running, shell, ticks,
                 rounds, bounds, history>>

TimePasses == MoveWall(wall + 1)

\* The machine slept, or the clock was set forward.
Jump == \E to \in wall + 2 .. JumpLimit : MoveWall(to)

Next ==
  \/ StartSingleTest
  \/ \E i \in DOMAIN rounds : RoundEnds(i) \/ OnRoundFinished(i)
  \/ ResumeContinuous
  \/ Pause
  \/ OnTick
  \/ \E new \in SettingsChoices : CommitSettings(new)
  \/ OnWindowIdReady
  \/ RestoreWindow
  \/ OnCloseRequested
  \/ Quit
  \/ TimePasses
  \/ Jump

\* Futures complete (Round!RoundReturns), their messages are handled, sleeps
\* end, time passes.  The user owes nothing.
Fairness ==
  /\ WF_vars(\E i \in DOMAIN rounds : RoundEnds(i) \/ OnRoundFinished(i))
  /\ WF_vars(OnTick)
  /\ WF_vars(TimePasses)

Spec == Init /\ [][Next]_vars /\ Fairness

-----------------------------------------------------------------------------
(***************************************************************************)
(* Properties.                                                             *)
(***************************************************************************)

\* However Pause and Resume are pressed between two ticks, exactly one chain
\* is alive when the clock is armed and none when it is not
\* (state.rs:894-907, 941-948).
OneClock == ticks = IF clock_armed THEN 1 ELSE 0

\* A running continuous mode always has its clock.
RunningMeansArmed ==
  continuous_running => clock_armed /\ ~continuous_paused

\* Two rounds never share the link, a single test and a scheduled one
\* included, and the flag is never left behind by one that ended.
OneRound == Len(rounds) = IF round_running THEN 1 ELSE 0

\* A scheduled round that begins is due: one start of a cadence is at least
\* the interval now in force after the previous one, whatever the settings
\* screen, single tests and a stale Tick did in between.
ScheduledBegins ==
  /\ Len(rounds') = Len(rounds) + 1
  /\ rounds'[Len(rounds')].plan # None
CadenceKept ==
  [][ScheduledBegins =>
       LET plan == rounds'[Len(rounds')].plan
       IN  /\ plan.kind = "full" /\ last_full_start # None
                => wall - last_full_start >= settings.throughput_every
           /\ plan.kind = "ping" /\ last_ping_start # None
                => wall - last_ping_start >= settings.ping_every]_vars

\* What the settings screen and the plans see as left is the budget less
\* everything charged to today, single tests included.
LeftIsUnspent ==
  settings.daily_budget_bytes # None =>
    BudgetLeft(wall) = SaturatingSub(settings.daily_budget_bytes,
                                     charged[DayOf(wall)])

\* Scheduled rounds alone never charge a day more than the largest budget the
\* user could have set, rounds across midnight included.
ScheduledWithinBudget ==
  \A d \in Days : \E s \in SettingsChoices :
    s.daily_budget_bytes = None \/ scheduled[d] <= s.daily_budget_bytes

\* An overdue throughput round runs while continuous mode stays on: neither
\* ping rounds, single tests nor settings edits starve it.
FullDue ==
  \/ last_full_start = None
  \/ last_full_start + settings.throughput_every <= wall
FullInFlight ==
  \E i \in DOMAIN rounds : rounds[i].plan # None /\ rounds[i].plan.kind = "full"
OverdueFullRuns ==
  up /\ continuous_running /\ FullDue ~>
    ~up \/ ~continuous_running \/ FullInFlight \/ ~FullDue

\* What the source says and the code does not always do.

\* A close that exits the process only delays nothing: nothing is measuring
\* (tray.rs:147-149).
CloseOnlyWhenIdle == [][OnCloseRequested /\ up /\ ~up' => rounds = <<>>]_vars

\* A hidden window always has a tray to come back from (tray.rs:145-147).
NeverTrapped == up /\ window = "hidden" => HasTray
=============================================================================
