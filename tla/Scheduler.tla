------------------------------ MODULE Scheduler ------------------------------
(***************************************************************************)
(* engine/src/schedule.rs: the two cadences of continuous mode and the     *)
(* byte budget of one calendar day.                                        *)
(*                                                                         *)
(* The scheduler runs nothing itself.  Its owner (the CLI loop of module   *)
(* Continuous, the GUI of module AppContinuous) asks for the next slot,    *)
(* takes a plan, records the start and later charges the bytes.  So this   *)
(* module has state and operations but no specification of its own: the    *)
(* modules that EXTEND it have.                                            *)
(*                                                                         *)
(* Instants are natural numbers of an arbitrary unit, days are DayLength   *)
(* of them long, and None is Rust's Option::None.                          *)
(***************************************************************************)
EXTENDS Integers

CONSTANTS
  None,        \* Option::None
  DayLength,   \* 86 400 s in the code
  U64Max       \* the largest byte count; additions saturate at it

ASSUME NoneAssumption  == None \notin Int
ASSUME DayAssumption   == DayLength \in Nat \ {0}
ASSUME WidthAssumption == U64Max \in Nat \ {0}

VARIABLES
  settings,         \* Scheduler::settings, the fields this crate reads
  last_full_start,  \* ScheduleState, one variable per field
  last_ping_start,
  budget_day,
  bytes_today

scheduleVars == <<last_full_start, last_ping_start, budget_day, bytes_today>>

Bytes == 0 .. U64Max
Instants == Nat
MetricSelection == [download : BOOLEAN, upload : BOOLEAN, ping : BOOLEAN]
RoundKind == {"full", "ping"}

\* A cadence is never zero: Settings::parse refuses anything under 60 s.
Settings == [throughput_every   : Nat \ {0},
             ping_every         : Nat \ {0},
             metrics            : MetricSelection,
             daily_budget_bytes : Bytes \cup {None}]

RoundPlan == [kind         : RoundKind,
              metrics      : MetricSelection,
              byte_ceiling : Bytes \cup {None},
              skipped      : BOOLEAN]

ScheduleTypeOK ==
  /\ settings \in Settings
  /\ last_full_start \in Instants \cup {None}
  /\ last_ping_start \in Instants \cup {None}
  /\ budget_day \in Nat \cup {None}
  /\ bytes_today \in Bytes

-----------------------------------------------------------------------------
SaturatingSub(a, b) == IF b <= a THEN a - b ELSE 0
\* Mutant: the addition may overflow.
WideAdd(a, b) == a + b
SaturatingAdd(a, b) == IF a + b <= U64Max THEN a + b ELSE U64Max

\* Mutant: the missed slot is dropped and the next one comes an interval later.
DueFromSkipping(last, every, now) ==
  IF last = None THEN now
  ELSE IF last + every <= now THEN now + every ELSE last + every

\* An overdue slot is due now: one round, never one per missed interval.
DueFrom(last, every, now) ==
  IF last = None THEN now
  ELSE IF last + every <= now THEN now ELSE last + every

NextFullDue(now) == DueFrom(last_full_start, settings.throughput_every, now)
NextPingDue(now) == DueFrom(last_ping_start, settings.ping_every, now)

NextDue(now) ==
  IF NextFullDue(now) <= NextPingDue(now) THEN NextFullDue(now)
                                          ELSE NextPingDue(now)

\* Mutant: the ping slot wins the tie.
KindDuePingFirst(now) ==
  IF NextFullDue(now) < NextPingDue(now) THEN "full" ELSE "ping"

\* A throughput slot wins over the ping slot it coincides with.
KindDue(now) == IF NextFullDue(now) <= NextPingDue(now) THEN "full" ELSE "ping"

DayOf(now) == now \div DayLength

\* bytes_today as refresh_budget_day leaves it: any other day starts at zero,
\* an earlier one too.
SpentOn(day) == IF budget_day = day THEN bytes_today ELSE 0

\* Mutant: every round gets the budget of the whole day.
BudgetWhole(now) == settings.daily_budget_bytes

BudgetLeft(now) ==
  IF settings.daily_budget_bytes = None THEN None
  ELSE SaturatingSub(settings.daily_budget_bytes, SpentOn(DayOf(now)))

PingAlone == [settings.metrics EXCEPT !.download = FALSE, !.upload = FALSE]

Plan(kind, metrics, ceiling, skipped) ==
  [kind |-> kind, metrics |-> metrics, byte_ceiling |-> ceiling,
   skipped |-> skipped]

PlanNextRound(now) ==
  LET left == BudgetLeft(now)
      wanted == settings.metrics.download \/ settings.metrics.upload
  IN  IF KindDue(now) = "ping" THEN Plan("ping", PingAlone, None, FALSE)
      ELSE IF left = 0 /\ wanted THEN Plan("full", PingAlone, 0, TRUE)
      ELSE Plan("full", settings.metrics, left, FALSE)

-----------------------------------------------------------------------------
InitSchedule ==
  /\ last_full_start = None
  /\ last_ping_start = None
  /\ budget_day = None
  /\ bytes_today = 0

\* Scheduler::new of another process: nothing of the schedule is persisted.
ForgetSchedule ==
  /\ last_full_start' = None
  /\ last_ping_start' = None
  /\ budget_day' = None
  /\ bytes_today' = 0

\* plan_next_round and record_round_start, which every owner calls together.
\* Planning a throughput round refreshes the budget day, a ping round does not.
RecordRoundStart(now, kind) ==
  /\ last_ping_start' = now
  /\ last_full_start' = IF kind = "full" THEN now ELSE last_full_start
  /\ IF kind = "full"
     THEN /\ budget_day' = DayOf(now)
          /\ bytes_today' = SpentOn(DayOf(now))
     ELSE UNCHANGED <<budget_day, bytes_today>>

\* Mutant: the bytes of an earlier day are carried into this one.
RecordBytesCarried(now, bytes) ==
  /\ budget_day' = DayOf(now)
  /\ bytes_today' = SaturatingAdd(bytes_today, bytes)
  /\ UNCHANGED <<last_full_start, last_ping_start>>

RecordBytes(now, bytes) ==
  /\ budget_day' = DayOf(now)
  /\ bytes_today' = SaturatingAdd(SpentOn(DayOf(now)), bytes)
  /\ UNCHANGED <<last_full_start, last_ping_start>>

\* A settings edit swaps the policy and keeps the anchors and today's usage.
UpdateSettings(new) ==
  /\ settings' = new
  /\ UNCHANGED scheduleVars
=============================================================================
