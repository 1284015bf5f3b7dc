# Alidade, specified

Alidade measures an internet connection for months: throughput rounds on a slow
cadence, pings on a fast one, under a daily byte budget, from a command line
loop or from a desktop program with a tray icon. These modules model the parts
of it that decide *when* something is measured, *how much* it may cost, *what*
is recorded, and what of it the user is shown, can edit and finds again after a
restart. TLC checks them on small instances; TLAPS proves the most important
results for every value of the constants.

Paths below are relative to `src/` of the repository. Every definition that
models code is listed with its file and lines in `PROJECT.json` under `map`.

## 1. The system

| component | code | state it keeps | operations | modelled in |
|---|---|---|---|---|
| scheduler | `engine/src/schedule.rs` | the policy, two anchors (`last_full_start`, `last_ping_start`), the budget day and its bytes | `next_due`, `plan_next_round`, `record_round_start`, `record_bytes`, `update_settings` | `Scheduler` |
| speed provider | `engine/src/provider.rs` | the rate-limit hold | `download`, `upload` | `SpeedProvider` (contract), `CloudflareProvider` |
| round | `engine/src/round.rs` | the result it builds, a ping loop beside a transfer | `run_round` | `RoundOutcome` (contract), `Round` |
| CLI, continuous | `cli/src/main.rs` | the loop's position, last retention | plan, run, charge, store, collapse, sleep; Ctrl+C | `Continuous` |
| GUI, continuous | `app/src/state.rs`, `tray.rs` | `continuous_running`, `continuous_paused`, `clock_armed`, `round_running`, the window | Resume, Pause, Tick, single test, round finished, commit of settings, close, quit | `AppContinuous` |
| GUI, ping monitor | `app/src/state.rs` | rows, `ping_running` | Start, Stop, cycle, refresh, target edits, history load | `PingMonitor` |
| settings screen, undo | `app/src/state.rs`, `screens/settings.rs` | settings, text buffers, `removed_target`, its generation | every edit, remove, undo, expiry, Escape, restart | `SettingsScreen`, `SettingsText` |
| settings files | `engine/src/config.rs`, `screens/settings.rs` | two files, a scratch file each | load or create, load or default, save | `SettingsRegister` (contract), `SettingsFile` |
| store | `store/src/*.rs` | SQLite tables and `user_version` | migrate, insert, aggregate, collapse, export | `Store` (file and quoting of the export left out) |
| update check | `app/src/update.rs`, `state.rs` | consent, the last answer | ask, withdraw, answer | `UpdateCheck` |
| notifications | `app/src/notify.rs` | the time of the last one of each kind | evaluate | `Notify` |
| history and chart loads | `app/src/state.rs`, `screens/history.rs`, `chart.rs` | range asked, rows shown | ask, answer, export, copy | `StoredRounds`, `ContinuousScreen`, `HistoryScreen` |
| Home | `screens/home.rs`, `mod.rs` | `last_round` | round finished, boot, the values shown | `HomeScreen` |
| CLI ping monitor, probes | `cli/src/main.rs`, `engine/src/probe.rs` | a tick's probes, blocking threads | choose targets, tick, join, rest | `PingCommand` (sockets left out) |
| drawing, theme, help, vendored tokens, packaging | `app/src/*`, `app/vendor`, `packaging` | none of their own | layout | not modelled |

**How they interact.** The scheduler runs nothing: its owner (CLI loop or GUI)
asks it for the next slot, takes a plan, records the start, runs the round and
charges the bytes afterwards. The round calls the provider once per direction
with what the plan's ceiling leaves, and runs a ping loop beside each transfer
inside the same task (`join!`), cancelled by a token when the transfer returns.
In the GUI everything that takes time is a future that comes back as a message
to one `update` function; tray and window feed the same function. Every change
of a setting is committed at once: the scheduler and the ping rows take it
over, and a task of its own saves both files. The two programs share the
settings files and the database, and nothing else.

**What is hard about it.** The planned start, the real start, the charge and
the day of the charge are different moments; the wall clock is not the clock of
the sleeps; the GUI's clock is a chain of self-posted messages that Pause and
Resume must neither break nor double; results carry indices into a list the
user edits meanwhile; a ceiling is split over two phases of which either may
fail half way; a 429 must be remembered by whatever object survives the round;
saves overlap on one scratch path; an undo outlives other edits and its own
timer; answers arrive after the question has changed; a database is migrated by
two openers and folded while samples are still on their way.
`PROJECT.json` lists these under `hazards`, each at its line, with the
properties that cover it or the reason none does.

## 2. Modules

```
          Scheduler                  RoundOutcome <-- (checked) -- Round
         /    |     \                 /        \                     |
 Continuous   |   AppContinuous ------          Continuous      SpeedProvider
              |                                                      ^ refined by
       SchedulerProofs                                       CloudflareProvider
        /             \
 ContinuousProofs   AppContinuousProofs

 SettingsText --- SettingsScreen        SettingsRegister <-- refined by -- SettingsFile

 StoredRounds --- ContinuousScreen, HistoryScreen
 UpdateCheck, Notify, HomeScreen, PingCommand         PingMonitor, Store on their own
        (without UpdateCheck: MC_Requests; it and CloudflareProvider: MC_Network)
```

`StoreProofs`, `SettingsFileProofs` and `SettingsScreenProofs` extend the module
they are named after; `ProbesProofs` extends `CloudflareProvider` and
`PingMonitor`, `PartsProofs` extends `Round`, `UpdateCheck`, `Notify`,
`PingCommand`, `ContinuousScreen`, `HomeScreen` and `HistoryScreen`.

The composition is by contract. `CloudflareProvider` is checked and proved to
implement `SpeedProvider` (`KeepsContract`, a refinement). `Round` is built on
`SpeedProvider` alone and is checked and proved to return only what
`RoundOutcome` allows (`ImplementsOutcome`). The two loops are built on `RoundOutcome` alone: a round
is any outcome it allows, so what holds of the loops holds whatever the network
does. An outcome says which phases have a reading, and its reasons name exactly
the phases that were wanted and have none. `SettingsFile` implements one `SettingsRegister` per file.

**Scheduler.** One variable per field of `ScheduleState`; `settings` is the
policy. Rust's `None` is the model value `None`; instants are naturals and
`DayOf` is `now \div DayLength` (UTC days in the code). `refresh_budget_day` is
`SpentOn` where the code reads and the first two conjuncts of `RecordBytes` and
`RecordRoundStart` where it writes. `plan_next_round` followed by
`record_round_start`, which every owner calls together, is one operation.
Saturating additions keep their width (`U64Max`). The module has no `Next`: its
owners EXTEND it.

**SpeedProvider / CloudflareProvider.** `moved` is what crossed the wire and is
not visible to the caller; `reply` is. A download is a sequence of bounded
requests (`SendRequest`, `Answered`, `ReadBody`, `EndBody`), each of which may
fail in each of its states; an upload is one streamed request. `hold` is
`BackoffClock`. The server may do anything but send more than was asked. The
monotonic clock `now` drives deadlines and hold alike. `owner` says whether the
caller keeps the provider between rounds (the CLI) or builds one per round (the
GUI), which is the difference `NewProvider` makes.

**Round.** `pc` is the phase. `FreshPingLoop`, `FirstProbe`, `ProbeReturns`,
`SleepOver`, `Cancelled` are the stretches of `run_ping_loop` between awaits;
`SleepOver` and `Cancelled` are both possible when the sleep is over and the
token is cancelled, as `select!` chooses at random. `SamePoll` says that no time
passes between the two halves of one poll. Rates are abstracted to `enough`:
whether the measured time reached the trusted fraction.

**Continuous.** Between two awaits the CLI loop is alone, so each stretch is an
action: `Begin`, `Finish` (or `StoreFails`), `Wake`. `Crash` is a kill at any
point, `CtrlC` the select beside the sleep, `Restart` a new process. The wall
clock may jump forward (suspend) or be set back; sleeps run on the monotonic
clock. `args` are the metrics the command line leaves selected. `row` is the row
the round just ended left, its readings and what its reason names, `None` once
the next begins; `spent` is the bytes charged per day.

**AppContinuous.** One action per handler. `ticks` counts the sleeps in flight,
each of which posts one `Tick`; `rounds` holds the futures in flight and their
unhandled messages, with the copies of metrics and plan the future owns.
`RoundEnds` is the future, `OnRoundFinished` its handler. A sleep between ticks
is far shorter than a cadence, so a pending Tick may be delivered at any time.
Closing the only window ends the process. A new process is `Init` again, as
nothing of this state is persisted.

**PingMonitor.** A cycle owns a copy of the rows' names; its samples are stored
by name and delivered by row index. A sample is its target and its cycle. `Edit`
covers toggle, remove, undo, rename and add, each followed by `commit_settings`,
which rebuilds the rows at once (`Synced`). A load may find a store that does not
open, a name that cannot be read, and samples of the command line.

**SettingsText, SettingsScreen.** `SettingsText` is the file format: a file is a
sequence of lines, a value a sequence of characters, and a word or numeral the
format knows is one character. `ToToml`, `Parse`, `UiToToml`, `ParseUi` are the
four conversions, with the reader's order of stripping, unquoting and escaping
and its per-section target drafts. `Storable` and `StorableUi` are the settings
and preferences such a file can hold. `SettingsScreen` has one action per message
of the screen; each commits, so what the next start reads is
`Parse(ToToml(settings))`. `before` is an observer: the rows before a removal as
long as nothing else touched them. The code's timer carries the generation of
the offer alone; in `timers` each also carries the number of the removal that
started it (`removals` counts them). `offered` is an observer: the last removal
while its own ten seconds run and its offer was neither taken nor dismissed.

**SettingsRegister, SettingsFile.** The register says what a file promises
however it is written: a reader finds the old content or one somebody asked to
save, whole, also after a crash or power cut, as long as no two saves overlap.
`SettingsFile` has the save step by step (create the scratch file, write, sync,
rename, each of which may fail), inodes apart from paths, what a power cut
leaves of each (`synced`, `older`), several saves of the window under way at
once, both programs starting, crashing and being edited behind their backs.
`SettingsIsRegister` and `UiIsRegister` are the refinement, once per file;
`shared` tells the register that saves have overlapped. `durable` is what a power
cut leaves once the directory is on the disk (`Durable` in `SettingsFile`): the
synced content of the inode the file names. After overlapping saves it may differ
from what a program reads, as one save renames the scratch file another one is
still writing. `sure` is an observer: the window has read the file or written it,
and nothing has failed, overlapped or been cut short since; defaults saved by the
command line alone make it sure of nothing.

**Store.** A connection is a `pc` between the statements of its operation;
`writer` holds SQLite's one write lock and `view` is what its transaction sees,
committed or dropped as a whole. Databases of every version, absent ones included, are initial
states. `taken` are samples measured and not yet inserted; `kept`, `ever` and
`late` are observers of what was stored. `insert_round` stores the instant of the
insertion, where the code stores the start of the round: rounds out of order come
from `SetClock` alone, and no property depends on the difference.

**UpdateCheck, Notify, StoredRounds, ContinuousScreen, HistoryScreen,
HomeScreen, PingCommand** are the parts that ask for something and apply what
comes back. `tasks` in `StoredRounds` are the reads on their way, answered and
delivered in any order. `HomeScreen` keeps a round twice, as the result the
engine returned and as the row the store made of it. In `PingCommand` a thread
of the blocking pool lives on after its probe has timed out.
`MC_Requests` puts all but `UpdateCheck` side by side: none writes what another
one reads (the chart and the history each have a database of their own there), so
a behaviour moves one of them, chosen at its start. `MC_Network` does so with
`UpdateCheck` and the provider, the two that wait for a server.

## 3. Runs

Nine runs pass, and check everything that is claimed to hold.

| run | what it shows |
|---|---|
| `network` | The provider implements its contract (`KeepsContract`): never above a ceiling, `capped` exactly when the whole of it was reported. A kept provider sends no download before the instant the last 429 named (`HoldHonoured`), and every call returns even if the server never answers (`PhaseReturns`). The update check offers nothing without consent and only newer releases (`OffersAreConsented`), and "Checking" ends (`CheckingEnds`). |
| `round` | Every result is an allowed outcome (`ImplementsOutcome`); bytes above the ceiling are only those a broken download lost (`OverrunIsLostDownload`); at most one of the samples counted as "under load" begins after the load (`AtMostOneLateSample`; that there may be one is a known deviation); the round returns (`RoundReturns`). |
| `cli` | Without a flag, with `--no-upload` and with `--ping-only`: a ping-only round never takes a throughput slot, even on a clock that was set back (`PingYieldsToFull`), a day's budget holds over all rounds and midnights (`BudgetKept`), a stored full row has every throughput reading that was asked for or a reason that names the missing one (`FullRowsAreExplained`), an overdue throughput round runs (`OverdueFullRuns`). |
| `app` | One chain of ticks (`OneClock`), one round (`OneRound`), only due rounds (`CadenceKept`), the budget (`LeftIsUnspent`, `ScheduledWithinBudget`), no starvation (`OverdueFullRuns`), types with their widths (`TypeOK`). |
| `ping_monitor` | No edit, Start or late load throws away the samples of a name that stays in the list (`SamplesSurvive`), and a stopped monitor ends all its chains (`StopDrains`). |
| `editor` | Inputs show the value in force (`ShownIsUsed`), undo restores rows and port texts as they were (`UndoIsInverse`); a removal is on offer exactly while its own ten seconds run, whatever timers of earlier ones end meanwhile (`UndoLastsItsTenSeconds`), and what is committed is read back (`CommittedIsReadBack`). |
| `settings_file` | Both files are atomic registers through failures, crashes and power cuts (`SettingsIsRegister`, `UiIsRegister`); no start replaces a file that holds something (`StartsReplaceNothing`); the window shows what is written (`WrittenIsShown`). |
| `store` | A folded minute tells of every sample stored for it (`MinutesAreWhole`); none arrives later unless the clock is set (`OnTimeUnlessClockSet`); exports and aggregates say what was measured, whatever version stored it (`EvidenceIsTrue`); columns and version agree under two openers (`TypeOK`). |
| `requests` | A crossed limit is heard once per cooldown (`NotifiesOncePerCooldown`); the chart draws every finished round (`ChartCatchesUp`); the table is of the dates above it (`TableIsOfTheDates`); a restart shows the last round as it was shown live (`RestartShowsTheSame`); a tick of `alidade ping-monitor` has one sample per target (`TickIsWhole`) and few threads outlive it (`ThreadsAreFew`). |

Three runs are violations: each checks one sentence of the repository that the
code does not keep, and TLC's trace is the explanation.

| run | sentence | what the code does |
|---|---|---|
| `ping_monitor_index` | "The index is stable for the lifetime of one monitor session" (`state.rs:1060`) | an edit rebuilds the rows under a cycle in flight; its samples land in other rows |
| `editor_restart` | "Persistent application settings" (`config.rs:24`) | a `#` in a name cuts its line, and an emptied list of targets is read back as the presets |
| `settings_overlap` | "Atomic: the bytes go to a scratch file ... and only then replace the destination by rename" (`config.rs:137`) | two saves in flight share one scratch file: one truncates what the other is about to rename |

### Known deviations

Beside the runs above the models found more places where code and text, or two parts of the code,
disagree. They are modelled as the code has them, and the definitions named
here state what does not hold; no run repeats them.

* `Round!NeverMovesMoreThanLeft`: bytes of a failed or broken download are
  counted as none (`round.rs:436`), so the upload gets the whole ceiling, where
  `round.rs:269` says "a round can never move more than the daily budget had left".
* `Round!SamplesBegunUnderLoad`: `round.rs:144` says a window counts "Ping samples
  that STARTED while that load was running", and `round.rs:250` that "the moment
  the transfer ends, the ping loop ends with it". But `select!` (`round.rs:461`)
  may take the sleep's branch when both are ready, and a transfer that returns at
  once is over before the first probe: a probe begins after the load, and is
  counted. `AtMostOneLateSample` bounds what is left of the sentence: of the
  three samples it takes to report the series, two began under load.
* `Round!ExhaustedIsNeverZero`: an upload with a ceiling of 0 is a capped
  reading of 0 bytes, exempt from the trust gate (`round.rs:274`), where
  `round.rs:90` says an exhausted budget "is never reported as a zero".
* `Continuous!FullRowsAttempt`: the scheduler never sees `--ping-only`, so full
  rows are stored that attempted nothing and give no reason (`main.rs:313`), where
  `round.rs:101` says a full round "ran — or at least attempted — a throughput
  phase". `FullRowsAreExplained` holds of such a row, as nothing was asked for.
* `Continuous!SkippedRowsSayWhy`: a plan's reason is kept only where the round
  gave none (`main.rs:314`). Without an enabled target the round gives "ping: no
  targets configured", so a round skipped for its budget does not say so, where
  `main.rs:303` says the skip reason says "what happened to it".
* `CloudflareProvider!LimitOutlivesRound`: the GUI builds a provider per round
  (`state.rs:1604`) and forgets the hold; `lib.rs:30` calls a rate limit "one
  condition that lasts across rounds".
* `AppContinuous!CloseOnlyWhenIdle`: closing exits while a single test, or the
  round in flight at Pause, is measuring (`state.rs:869`); `tray.rs:147` speaks
  of an idle window.
* `AppContinuous!NeverTrapped`: `--minimized` hides the window whether or not a
  tray exists (`state.rs:840`), which by `tray.rs:146` "would trap the user".
* `HomeScreen!EveryGapIsExplained`: a round skipped for its budget is explained
  on Home as "not selected for this round", since the plan's reason
  (`schedule.rs:192`) names no phase.
* `Store!OpenSucceeds`: a second opener that read the old version before the
  first one migrated fails with a duplicate column.
* Settings: a file that does not parse survives every start, and the next edit
  replaces it by the defaults the window fell back to; a program that saw no
  file writes defaults even if another has made one meanwhile; `--theme`, "for
  this run only", is written by the next change of a preference.
* Store: with `raw_ping_retention_days = 0` a sample may arrive after its minute
  is folded; a minute in which all was lost has an average of 0.0; the app never
  reads `ping_minute`; samples are keyed by the name of their target.
* Consent withdrawn and given again lets two checks be under way; the first
  answer ends "Checking".
* Reads: an answer overtaken by a later question's leaves the older rows; the
  table is not read again when a round is stored; the copied diagnostics label
  the shown rows with the typed dates; a failed read of the table is only a
  toast; the screen accepts 30 February, which the command line refuses; two
  exports within a second share a file name.
* Home: a round whose save failed is gone after a restart, and a round stored
  before the clock was set back is not the newest.
* `--target` takes the first enabled target that is or contains the text; one
  that matches none is reported and the program ends with 0. Lookups that
  outlive their timeout keep their thread.

### Bounds

Every bound is a constant of its module, marked `bound` where it is declared or
named `Max...`, and appears in a guard.

* *Time.* In `cli` the cadences are 4 and 2, days are 5 long and the clock runs
  to 10, so a run sees coinciding slots, a midnight inside a round and inside a
  sleep, jumps of 3 past one cadence (not past both) and one step back, under each of the
  three choices of the command line. In `app`
  the cadences are 4 and 2 or, after the edit, 3 and 3; days are 5, the clock
  ends at 6: an edit may make a slot due or undo it, and midnight falls between
  the plan, the end and the handling of a round.
* *Bytes.* One byte per phase against a budget of 2 (`cli`), of 2 or 1 (`app`): a
  round can exhaust the budget exactly, nearly or not at all. In
  `app`, where `U64Max` is 3, a single test on top of scheduled rounds saturates
  the counter.
* *Provider.* A phase moves up to 3 bytes in chunks of 2, so a last request is
  shorter than a chunk and a ceiling falls inside, at and after one; headers
  below and above the caps; the 429 counter saturates at 3.
* *Round.* Ceilings none, 1 and 2; a transfer ends before, at and after the
  first, second and third sample.
* *Users.* One single test and one settings edit (`app`); two cycles and two
  edits (`ping_monitor`: two overlapping chains need two cycles, a rename that
  collides with another row one edit, a removal and its undo two). Pause, Resume, Start, Stop
  and window events are unbounded.
* *Editor.* Up to three rows, four edits and one restart: two removals, an edit
  between them and an undo. Texts are one that parses and one that does not,
  budgets one that one decimal rounds, NaN; names are plain and made of a quote
  and a backslash.
* *Files.* Two saves of the window at once, two commits, one fault (a failed
  step, crash, power cut or hand edit) and two starts: enough for a fault in
  each step of a save with another one before or beside it.
* *Store.* Two alike connections, minutes and days of two seconds, four seconds,
  one setting of the clock, two units of work, three openings: a minute is
  open, due, folded and folded again, and both connections migrate at once.
* *Requests.* Two checks, two reads and two rounds at a time, on a leap day and
  just over a week later, so a round leaves the longest range of the chart; a
  cooldown of two steps with all values of two limits and three switches; one live round, two rows and a restart on Home; three ticks of up
  to two targets, with lookups longer than a tick.

Deadlock checking is off because the models stop at the last instant of their
clocks, and a round, a stopped process or an exhausted bound is a legal end.

### Fairness

Only what the program schedules itself is fair. Time passes; a loop that is not
waiting goes on; a future that was polled to its end posts its message and the
message is handled; a sleep ends. In `CloudflareProvider` the server carries no
fairness at all: the deadline and the send grace alone make `PhaseReturns` hold,
which in turn justifies that a provider call returns in `Round`, and
`RoundReturns` that a round ends in the two loops. No fairness is given to the
user (Pause, Resume, Start, Stop, edits, windows), to crashes, restarts or clock
changes. In `PingMonitor` a cycle goes on and a load answers; in `UpdateCheck` a
request is answered or fails, as it has a timeout of ten seconds.
`SettingsFile`, `SettingsScreen`, `Store` and the parts of `MC_Requests`
state no fairness: their properties are safety. Weak fairness is enough everywhere: each fair action, once enabled,
stays enabled until it is taken, or is a disjunction that does. In the loops
time ends with the model. `OverdueFullRuns` still means something there: jumps
of the clock end at `JumpLimit`, early enough that the sleep they cut into is
over before `MaxTime`, and a loop that is awake acts on an overdue slot without
further time passing.

## 4. Proofs

`SchedulerProofs` holds lemmas about the operators of the scheduler; seven
modules hold the theorems: `ContinuousProofs` and `AppContinuousProofs` of the
loops, `ProbesProofs` of the provider and of the ping monitor, `StoreProofs` and
`SettingsFileProofs` of what the programs keep, `SettingsScreenProofs` of the
settings and of what their files are read back as, `PartsProofs` of seven parts
that stand alone, the round among them. They hold for every cadence, budget, day length, chunk, counter
width, retention, number of connections, saves, rounds, edits, faults and clock
jumps. They assume what the modules assume in named `ASSUME`s: cadences are at least
one instant, a phase moves at least one byte and two phases do not overflow the
counter, minutes and days are not empty, tasks of the window are finitely many and
told from the two programs, and `None` is not one of the values it is told from
(`Option::None`, SQL's NULL). For the settings they assume

* of the compiled settings, that they are whole and can be written: intervals in
  minutes, a numeral for each number, no budget, no `#` in the URLs, a port where
  TCP needs one;
* of numerals, that a whole number a screen sets (an interval typed in minutes and
  kept in seconds, a budget, the port 443, the fallback of 5 GB) has one, and that
  neither `#` nor `none` is one;
* of what is typed, that names and hosts are texts and preferences of their kind.
  No character of a line is excluded: a name may hold quotes, backslashes, brackets
  and `#`. What is read back exactly is, as `CommittedIsReadBack` says, settings
  with some target and no `#` in its names and hosts.

The loops, the round, the provider and the monitor:

| theorem | property | argument |
|---|---|---|
| `ContinuousProofs!TypeCorrect` | `TypeOK` | with `pc = "round" => plan \in RoundPlan`; a sleep is never negative because the next slot is never in the past (`NextDueIsDue`) |
| `ContinuousProofs!PingYields` | `PingYieldsToFull` | `PingPlanIsEarly`: a ping is planned only strictly before the throughput slot |
| `ContinuousProofs!CadenceIsKept` | `CadenceKept` | `CadenceInv`: at every `begin`, and at the end of every sleep, some slot is due. `SlotDue`, unlike `NextDue`, does not move with the instant it is asked at, so passing time preserves it (`SlotStaysDue`) |
| `ContinuousProofs!LeftIsWhatIsUnspent` | `LeftIsUnspent` | `SpentInv` relates the counter to the history day by day: the charged day is never before `budget_day`, the last start is never after now, and every later day is untouched |
| `ContinuousProofs!BudgetIsKept` | `BudgetKept` | `BudgetInv`: while a round is in flight, what its day was charged plus what its plan allows is within the budget; the allowed outcomes charge no more |
| `ContinuousProofs!FullRowsExplained` | `FullRowsAreExplained` | `RowInv`, for every choice of the command line: the row is of a report, and reports name each phase that was wanted and has no reading (`ReportExplains`); a throughput plan that skips nothing wants all the settings and the command line ask for, and one that skips gives its reason where the round gives none (`StoredIsExplained`) |
| `AppContinuousProofs!TypeCorrect` | `TypeOK` | `RemoveAt` and `Append` keep the sequence of rounds typed |
| `AppContinuousProofs!ClockCorrect` | `OneClock`, `RunningMeansArmed` | `ClockInv`, their conjunction: neither is inductive alone, as Resume needs the armed flag to count the chain and OnTick the running flag to keep it |
| `AppContinuousProofs!OneRoundAtATime` | `OneRound` | inductive as it stands |
| `AppContinuousProofs!CadenceIsKept` | `CadenceKept` | a round is begun only by `ScheduledDue` |
| `AppContinuousProofs!LeftIsWhatIsUnspent` | `LeftIsUnspent` | `SpentInv`, as in the CLI but charged at the day of the message |
| `AppContinuousProofs!ScheduledStaysInBudget` | `ScheduledWithinBudget` | `BudgetInv`: scheduled bytes of today plus the cap of the round in flight fit under *some* budget the user may set, and do so again after midnight, where the day is untouched |
| `PartsProofs!RoundTypeCorrect` | `TypeOK` | part of `RoundInv`, as the ceiling of the upload is a natural number only because the download kept to its own |
| `PartsProofs!RoundImplementsOutcome` | `ImplementsOutcome` | `RoundInv`: phases run in order and each once (`OrderInv`), the provider keeps to the ceiling of the phase it is in (`TransferInv`), and each closed window agrees with the wire and with the reading, which is missing exactly where a reason names the phase (`RecordInv`) |
| `PartsProofs!OverrunIsLost` | `OverrunIsLostDownload` | `RecordInv` of both phases: the upload's ceiling is what the *report* of the download left, so the sum over-runs by what the report lacks |
| `PartsProofs!OneLateSample` | `AtMostOneLateSample` | `LateInv`: a late sample is the last one of its loop, which is probing or off |
| `ProbesProofs!ContractIsKept` | `KeepsContract` | `WireInv`: what is on the wire is what is counted and what the request in flight has read, and its size was asked for within the ceiling; each action is then a step of the contract or none |
| `ProbesProofs!HoldIsHonoured` | `HoldHonoured` | `HoldInv`: the last instant asked for is over, or the hold still names it; a hold is cleared only by a download, which began after it |
| `ProbesProofs!RowsKeepSamples` | `SamplesSurvive` | rows, cycles, history and targets are typed (`MonitorTypeOK`); a row is found by the first of its name, so rows rebuilt from the settings take their samples from the row the property speaks of (`SyncedKeeps`), and the two handlers that write samples move no row (`RefreshedGrows`, `HistoryGrows`) |

`KeepsContract` and `ImplementsOutcome` are the two contracts the loops are
composed by, so the proofs of the loops rest on proved contracts and on the
liveness of a round alone.

Files, database and the small parts:

| theorem | property | argument |
|---|---|---|
| `SettingsFileProofs!SettingsImplementRegister`, `UiImplementsRegister` | `SettingsIsRegister`, `UiIsRegister` | step simulation, one lemma per action for both files. `LoneSaves`: a save nobody has overlapped has the scratch file to itself, and what it renames is synced; `OpenFiles` and `PathsApart`: no file is open under the name of the other; `NothingOlder` for a power cut |
| `SettingsFileProofs!ShowsWhatIsWritten` | `WrittenIsShown` | `WindowSaves` (an undisturbed save writes what is in memory) and `SureOfIt` |
| `SettingsFileProofs!StartsAreHarmless` | `StartsReplaceNothing` | `StartsSave`: a start saves only where there is no file, and until its rename nobody else has made one or the saves have overlapped |
| `StoreProofs!TypeCorrect` | `TypeOK` | `LockInv` (who holds the write lock, and what it sees) and `SchemaInv` (what a connection that read an old version may still do to the columns) |
| `StoreProofs!MinutesStayWhole` | `MinutesAreWhole` | `FoldInv`, with `CutoffInv`: the cutoff a retention has read splits no minute, so a minute is folded with all samples stored by then |
| `StoreProofs!SamplesComeInTime` | `OnTimeUnlessClockSet` | `OnTimeInv`: every second of a folded minute is older than what is kept, and a sample on its way is not |
| `StoreProofs!EvidenceHolds` | `EvidenceIsTrue` | `SchemaInv`: the rows tell of every round through all versions of the columns |
| `PartsProofs!NotifiedOnce` | `NotifiesOncePerCooldown` | `HeardIsRemembered`: the record `evaluate` goes by is the history of the toasts |
| `PartsProofs!OffersAreConsentedAndNewer` | `OffersAreConsented` | `Consented` and `ReleaseInv`, each inductive; `ExceedsIsGreater` relates the order of tuples to that of numbers |
| `PartsProofs!TicksAreWhole` | `TickIsWhole` | `CommandInv`: what was watched does not change, probes and samples are of the tick, none is late, and each target has one sample exactly from the end of its probe on (`OneSampleEach`) |
| `PartsProofs!ThreadsStayFew` | `ThreadsAreFew` | `ThreadsInv`: two threads of a target are at least two intervals apart in age, so ⟨target, age ÷ two intervals⟩ counts them |
| `PartsProofs!ChartCatchesUpAlways` | `ChartCatchesUp` | `ChartInv`: a question overtakes all before it (`OvertakenInOrder`), so the last answer holds every round the app has finished (`LastIsFresh`), and so does the chart once it is applied (`ChartIsFresh`) |
| `PartsProofs!RestartTellsTheSame` | `RestartShowsTheSame` | `HomeInv`: a live round that was saved is in the row of its id; `OneIsNewest`, so that row is the one read; `RowTellsTheRound`: the five values computed from a row are those of its round, as the columns keep apart what the reasons tell apart |
| `PartsProofs!TableShowsItsDates` | `TableIsOfTheDates` | `HistoryInv`: the last question is about the dates on the screen, and an answer holds what its question covers. The calendar: `days_from_civil` is 0 on 1 January 1970 and goes up by one from each date to the next, centuries and leap years included (`CalendarStarts`, `CalendarGoesOn`), so it orders real dates as they are written (`CalendarInOrder`) |
| `SettingsScreenProofs!InputsShowWhatIsUsed` | `ShownIsUsed` | `ScreenInv`: rows and port texts go together one by one (`RowsAgree`), on offer too, so that an undo keeps them together; the interval is whole minutes. A start shows what it read: `CommittedIsLoadable`, by induction over the lines of the file, says what that is whatever characters the names hold (`ReadsWell`), or the defaults |
| `SettingsScreenProofs!UndoGivesBack` | `UndoIsInverse` | `InsertUndoesRemove`; what is done beside the table leaves rows and offer (`TableStays`) |
| `SettingsScreenProofs!UndoLastsLongEnough` | `UndoLastsItsTenSeconds` | `UndoInv`: through removals, undos, dismissals and starts the generation a timer carries stands for its removal, and what is offered is the last removal or none; so a timer that ends takes the offer exactly if it is its own |
| `SettingsScreenProofs!CommittedSettingsAreReadBack` | `CommittedIsReadBack` | `StoredInv`: what is committed, and a row on offer to be put back, is `Storable` (a numeral for every number, no cadence that is refused, a port where TCP needs one). Every edit preserves it, and so does a start, whatever it read (`CommittedIsLoadable`). What is `Storable` and holds no `#` is read back (`FileIsRead`): unescaping undoes escaping, by induction over the characters; the reader stops at the quote the writer put there, and goes through the file line by line and target by target (`TargetIsRead`). `UiFileIsRead` for the preferences |

Types are proved of the CLI's loop, `Round`, `CloudflareProvider`,
`SettingsFile`, `Notify` (`NotifyTypeCorrect`), `PingCommand`
(`CommandTypeCorrect`) and `ContinuousScreen` (`ChartTypeCorrect`) without a run
that checks them; so are `CadenceKept` and `LeftIsUnspent` of the CLI and
`RunningMeansArmed` of the GUI.

Some theorems have a hypothesis of their own, which the run of their property
satisfies:

* Three results of the CLI (`CadenceIsKept`, `LeftIsWhatIsUnspent`,
  `BudgetIsKept`) are stated for a wall clock that is never set back: a clock
  set back over midnight starts the budget again, and one set back during a sleep
  moves the start it ends with.
* `SamplesComeInTime`: `Lag <= RetentionDays * Day`, that is, raw samples are kept
  for at least as long as one takes to be inserted. With a retention of 0 days a
  sample may come late (see the known deviations).
* `TableShowsItsDates`: a date that is typed is a date of the calendar, and
  `DateOf` is that calendar. The screen accepts 30 February as well (see the known
  deviations) and reads it as a day of March.
* `OffersAreConsentedAndNewer`: the parts of a version are at most 99, as the
  property compares them as one number.

The refinement of the register was not provable as first stated, for two
reasons, and the model was corrected: after overlapping saves a power cut may
leave what no program has read since, hence `durable`; and a save of the command line's defaults
told the window nothing, hence `w # Cli` where `sure` is set.

Only model-checked:

* Liveness, all of it: `PhaseReturns`, `RoundReturns`, `OverdueFullRuns`,
  `StopDrains`, `CheckingEnds`; temporal proofs under fairness need ENABLED.

Every invariant and every action property of a passing run is proved.

## 5. What is not modelled

* *Contents.* Rates, latencies, hostnames, wording, and drawing (with the state
  that only drawing reads, such as the point of the chart under the cursor).
  Jitter, and the minimum and maximum of a minute, go the way of its average.
* *Restart of the GUI* in `AppContinuous` is `Init`. The schedule and the day's
  usage are in memory only, in both programs: a restart runs a full round at
  once and hands the whole budget out again. The repository's acceptance notes
  record this, so the budget properties are stated per process. What does
  survive a restart is in `SettingsScreen`, `SettingsFile`, `Store` and
  `HomeScreen`.
* *Ctrl+C outside the sleep.* The loop polls `ctrl_c` only beside the sleep.
  What a press at another time does is up to the runtime's handler: it either
  kills the process (`Crash`) or is ignored (a stuttering step).
* *A panic* of a probe's task, which `run_ping_monitor` reports and skips.
* *Memory.* The samples of a live row grow as long as the monitor runs.
* *One-shot commands* (`run`, `targets`, `export`) are straight sequences of
  calls to modelled parts; sockets, ICMP, the tray's and the notifications'
  system calls are steps that may fail.
* *Unused entry points*: `run_forever` and `pending_rounds` of the scheduler
  have no caller outside tests.

## 6. Plan

Nothing that was planned is left to check, and of the proofs only liveness is,
which is out of the prover's reach. A later extension would take up what section 5
leaves out: first the one-shot commands as a module (they share the store and
the settings file with the window), then a panic of a probe's task.

A change of the code is followed from the map: `PROJECT.json` names, for each
definition, the lines it models; the runs then say within minutes what no longer
holds, and the proofs what no longer follows.
