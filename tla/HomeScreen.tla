----------------------------- MODULE HomeScreen -----------------------------
(***************************************************************************)
(* What Home shows of the latest round: the live result once a round ends, *)
(* or, after a restart, the newest stored row.  Both programs store        *)
(* rounds, a save may fail, the wall clock may be set, and rows may come   *)
(* from a database of an earlier version.                                  *)
(*                                                                         *)
(* The two throughput phases are a function of their label.  A number is   *)
(* the readings it is computed from: an average its sum and count, a loss  *)
(* the lost and the sent, a mean of both phases the two averages.          *)
(***************************************************************************)
EXTENDS Naturals, Sequences, FiniteSets

CONSTANTS
  Absent,      \* None, SQL NULL
  Times,       \* readings of the wall clock
  Speeds,      \* bits_per_sec
  Loads,       \* durations of a load window
  SampleRuns,  \* what a ping loop may return: rtts, or Absent
  OtherRounds, \* rounds the command line measures
  MaxMeasured, \* bound: rounds measured by the app
  MaxStored,   \* bound: rows
  MaxBoots     \* bound: restarts

ASSUME HomeConstants ==
  /\ Times \subseteq Nat /\ Speeds \subseteq Nat /\ Loads \subseteq Nat
  /\ SampleRuns \subseteq Seq(Nat \cup {Absent})
  /\ Absent \notin Nat \cup [ms : Nat, ping_samples : Nat]
  /\ {MaxMeasured, MaxStored, MaxBoots} \subseteq Nat

Labels == <<"download", "upload">>
PhaseLabel == {"download", "upload"}

MIN_UNDER_LOAD_SAMPLES == 3

-----------------------------------------------------------------------------
(* engine: a round's result *)

Answered(samples) == SelectSeq(samples, LAMBDA rtt : rtt # Absent)

SumOf(numbers) ==
  LET upto[n \in 0..Len(numbers)] == IF n = 0 THEN 0 ELSE upto[n - 1] + numbers[n]
  IN  upto[Len(numbers)]

\* Nothing answered: there is no rtt, and the loss stays.
stats(samples) ==
  LET answers == Answered(samples)
  IN  [avg_ms |-> IF answers = <<>> THEN Absent ELSE <<SumOf(answers), Len(answers)>>,
       loss_pct |-> <<Len(samples) - Len(answers), Len(samples)>>]

ASSUME LossAssumption == \A samples \in SampleRuns : stats(samples).loss_pct # Absent

Segment(label, text) == [of |-> label, text |-> text]

NotRun == [rate |-> Absent, capped |-> FALSE, ping |-> Absent, load |-> Absent, skipped |-> {}]

\* run_loaded_phase and throughput_or_skip: the window is kept whatever becomes
\* of the rate; a rate the byte ceiling cut short is kept as well.
Ran(label, samples, ms, rate, capped, failure) ==
  [rate |-> rate, capped |-> capped,
   ping |-> IF Len(samples) >= MIN_UNDER_LOAD_SAMPLES THEN stats(samples) ELSE Absent,
   load |-> [ms |-> ms, ping_samples |-> Len(samples)],
   skipped |-> IF rate = Absent THEN {Segment(label, failure)} ELSE {}]

\* A rate and whether the ceiling cut it short, or none.
Ratings == (Speeds \X BOOLEAN) \cup {<<Absent, FALSE>>}

Phases(label, runs) ==
  {NotRun} \cup {Ran(label, samples, ms, rating[1], rating[2], "discarded") :
                  samples \in runs, ms \in Loads, rating \in Ratings}

\* `plan' is the skip reason of the plan, put in by apply_plan where the round
\* has none of its own.
RoundOf(idle, reasons, phases, plan) ==
  LET own == reasons \cup UNION {phases[label].skipped : label \in PhaseLabel}
  IN  [kind |-> IF plan # {} \/ \E label \in PhaseLabel : phases[label].load # Absent
                  THEN "full" ELSE "ping",
       ping_idle |-> idle, phase |-> phases,
       capped |-> \E label \in PhaseLabel : phases[label].capped,
       skipped_reason |-> IF own = {} THEN plan ELSE own]

BothPhases(runs) ==
  {[label \in PhaseLabel |-> IF label = "download" THEN d ELSE u] :
     d \in Phases("download", runs), u \in Phases("upload", runs)}

Exhausted == {Segment("daily budget", "exhausted")}

\* Without ping there is nothing to say; without a target that is said.
NoTargets == {{}, {Segment("ping", "no targets")}}

\* Everything run_round returns, for plans that run the phases and for one
\* whose budget is used up; without a target, or without ping, no phase has
\* samples.
Measurable ==
  {RoundOf(stats(idle), {}, phases, {}) : idle \in SampleRuns, phases \in BothPhases(SampleRuns)}
  \cup {RoundOf(Absent, reasons, phases, {}) :
          reasons \in NoTargets, phases \in BothPhases({<<>>})}
  \cup {RoundOf(stats(idle), {}, [label \in PhaseLabel |-> NotRun], Exhausted) : idle \in SampleRuns}

-----------------------------------------------------------------------------
(* store: the row of a round *)

ping_avg(ping) == IF ping = Absent THEN Absent ELSE ping.avg_ms
ping_loss(ping) == IF ping = Absent THEN Absent ELSE ping.loss_pct

StoredRow(result, at) ==
  [started_at |-> at, mode |-> result.kind,
   bps |-> [label \in PhaseLabel |-> result.phase[label].rate],
   ping_idle_ms |-> ping_avg(result.ping_idle),
   ping_ms |-> [label \in PhaseLabel |-> ping_avg(result.phase[label].ping)],
   loss_pct |-> ping_loss(result.ping_idle),
   loss_idle_pct |-> ping_loss(result.ping_idle),
   phase_loss_pct |-> [label \in PhaseLabel |-> ping_loss(result.phase[label].ping)],
   load_ms |-> [label \in PhaseLabel |->
                  IF result.phase[label].load = Absent THEN Absent
                  ELSE result.phase[label].load.ms],
   ping_samples |-> [label \in PhaseLabel |->
                       IF result.phase[label].load = Absent THEN Absent
                       ELSE result.phase[label].load.ping_samples],
   capped |-> result.capped, skipped_reason |-> result.skipped_reason]

\* What the migrations make of a row of version 2, and of version 1.
FromV2(row) ==
  [row EXCEPT !.mode = "full", !.capped = FALSE,
              !.load_ms = [label \in PhaseLabel |-> Absent],
              !.ping_samples = [label \in PhaseLabel |-> Absent]]
FromV1(row) ==
  [FromV2(row) EXCEPT !.phase_loss_pct = [label \in PhaseLabel |-> Absent]]

-----------------------------------------------------------------------------
(* home.rs: five values, each a figure or the reason there is none *)

Figure(readings) == [measured |-> TRUE, text |-> "", readings |-> readings]
Gap(text, readings) == [measured |-> FALSE, text |-> text, readings |-> readings]

missing_reason(reasons, label) ==
  IF \E segment \in reasons : segment.of = label
  THEN Gap((CHOOSE segment \in reasons : segment.of = label).text, <<>>)
  ELSE Gap("not selected for this round", <<>>)

\* Option::or over the phases: the first label whose value is there.
FirstOf(value) ==
  IF value["download"] # Absent THEN value["download"] ELSE value["upload"]

\* The averages that are there, in the order of the phases.
Present(value) == SelectSeq([i \in 1..2 |-> value[Labels[i]]], LAMBDA v : v # Absent)

NoAnswer(loss) == Gap("no answer", <<loss>>)
NotEnoughLoad(samples, ms) == Gap("not enough load to measure", <<<<samples, ms>>>>)
NoPhase == Gap("no throughput phase ran this round", <<>>)

throughput_value(result, label) ==
  IF result.phase[label].rate # Absent THEN Figure(<<result.phase[label].rate>>)
  ELSE missing_reason(result.skipped_reason, label)

ping_idle_value(result) ==
  CASE result.ping_idle = Absent -> missing_reason(result.skipped_reason, "ping")
    [] result.ping_idle # Absent ->
         IF result.ping_idle.avg_ms # Absent THEN Figure(<<result.ping_idle.avg_ms>>)
         ELSE NoAnswer(result.ping_idle.loss_pct)

loss_value(result) ==
  IF result.ping_idle = Absent THEN missing_reason(result.skipped_reason, "ping")
  ELSE Figure(<<result.ping_idle.loss_pct>>)

under_load_missing_reason(pings, loads) ==
  IF FirstOf(pings) # Absent THEN NoAnswer(FirstOf(pings).loss_pct)
  ELSE IF FirstOf(loads) # Absent
    THEN NotEnoughLoad(FirstOf(loads).ping_samples, FirstOf(loads).ms)
  ELSE NoPhase

ping_under_load_value(result) ==
  LET pings == [label \in PhaseLabel |-> result.phase[label].ping]
      means == Present([label \in PhaseLabel |-> ping_avg(pings[label])])
  IN  IF means # <<>> THEN Figure(means)
      ELSE under_load_missing_reason(pings, [label \in PhaseLabel |-> result.phase[label].load])

live_values(result) ==
  <<throughput_value(result, "download"), throughput_value(result, "upload"),
    ping_idle_value(result), ping_under_load_value(result), loss_value(result)>>

stored_speed(row, label) ==
  IF row.bps[label] # Absent THEN Figure(<<row.bps[label]>>)
  ELSE missing_reason(row.skipped_reason, label)

\* Mutant: the load of an upload that was the only phase is not looked at.
stored_load_reason_of_download(row) ==
  IF FirstOf(row.phase_loss_pct) # Absent THEN NoAnswer(FirstOf(row.phase_loss_pct))
  ELSE IF row.load_ms["download"] # Absent
    THEN NotEnoughLoad(row.ping_samples["download"], row.load_ms["download"])
  ELSE IF FirstOf(row.bps) # Absent THEN Gap("load details not stored for this round", <<>>)
  ELSE NoPhase

\* A window has its sample count beside it.
stored_load_reason(row) ==
  IF FirstOf(row.phase_loss_pct) # Absent THEN NoAnswer(FirstOf(row.phase_loss_pct))
  ELSE IF FirstOf(row.load_ms) # Absent
    THEN LET label == IF row.load_ms["download"] # Absent THEN "download" ELSE "upload"
         IN  NotEnoughLoad(row.ping_samples[label], row.load_ms[label])
  ELSE IF FirstOf(row.bps) # Absent THEN Gap("load details not stored for this round", <<>>)
  ELSE NoPhase

\* loss_idle_pct, or the column it was copied from.
StoredLoss(row) == IF row.loss_idle_pct # Absent THEN row.loss_idle_pct ELSE row.loss_pct

ping_load_ms(row) == Present(row.ping_ms)

stored_values(row) ==
  LET loss == StoredLoss(row)
      nothing == missing_reason(row.skipped_reason, "ping")
  IN  <<stored_speed(row, "download"), stored_speed(row, "upload"),
        CASE row.ping_idle_ms # Absent -> Figure(<<row.ping_idle_ms>>)
          [] row.ping_idle_ms = Absent /\ loss # Absent -> NoAnswer(loss)
          [] OTHER -> nothing,
        IF ping_load_ms(row) # <<>> THEN Figure(ping_load_ms(row)) ELSE stored_load_reason(row),
        CASE loss # Absent -> Figure(<<loss>>)
          [] loss = Absent /\ row.ping_idle_ms # Absent -> Gap("loss not stored for this round", <<>>)
          [] OTHER -> nothing>>

-----------------------------------------------------------------------------
VARIABLES
  now,         \* SystemTime::now
  stored,      \* the rows of the database, in the order of their ids
  last_round,  \* a live result with the id of its row, or a stored row, or Absent
  measured,    \* rounds the app has measured
  boots        \* restarts

homeVars == <<now, stored, last_round, measured, boots>>

round_values(round) ==
  IF round.live THEN live_values(round.result) ELSE stored_values(round.row)

\* The head of the page, and the banner of a round the budget cut short.
round_metadata(round) == IF round.live THEN round.result.kind ELSE round.row.mode
IsCapped(round) == IF round.live THEN round.result.capped ELSE round.row.capped

Saved(id) == id # 0

Live(result, id) == [live |-> TRUE, result |-> result, id |-> id]
Stored_(row, id) == [live |-> FALSE, row |-> row, id |-> id]

\* rounds_between(UNIX_EPOCH, now) in its order, and the last of it.
Readable == {id \in DOMAIN stored : stored[id].started_at <= now}
After(i, j) ==
  \/ stored[i].started_at > stored[j].started_at
  \/ stored[i].started_at = stored[j].started_at /\ i > j
Newest(id) == id \in Readable /\ \A other \in Readable \ {id} : After(id, other)

\* Newer rows than the last were measured after the clock was set back.
load_latest_round ==
  IF Readable = {} THEN Absent
  ELSE LET id == CHOOSE i \in Readable : Newest(i) IN Stored_(stored[id], id)

\* A first start, or one on a database an earlier version left behind.
InitHome ==
  /\ now \in Times
  /\ \E result \in OtherRounds, version \in 0..2 :
       stored = CASE version = 0 -> <<>>
                  [] version = 1 -> <<FromV1(StoredRow(result, now))>>
                  [] version = 2 -> <<FromV2(StoredRow(result, now))>>
  /\ last_round = load_latest_round
  /\ measured = 0 /\ boots = 0

\* on_round_finished, with what persist made of it: a result that could not be
\* saved is shown all the same.  What the handler does to the clock, the chart
\* and the thresholds is in the modules of those.
HomeRoundFinished(result) ==
  /\ measured < MaxMeasured
  /\ measured' = measured + 1
  /\ \/ /\ Len(stored) < MaxStored
        /\ stored' = Append(stored, StoredRow(result, now))
        /\ last_round' = Live(result, Len(stored'))
     \/ /\ last_round' = Live(result, 0)
        /\ UNCHANGED stored
  /\ UNCHANGED <<now, boots>>

CommandLineStores ==
  /\ Len(stored) < MaxStored
  /\ \E result \in OtherRounds : stored' = Append(stored, StoredRow(result, now))
  /\ UNCHANGED <<now, last_round, measured, boots>>

\* App::boot; an unreadable database leaves Home without a round.
BootHome ==
  /\ boots < MaxBoots
  /\ boots' = boots + 1
  /\ last_round' \in {load_latest_round, Absent}
  /\ UNCHANGED <<now, stored, measured>>

ClockReads ==
  /\ now' \in Times \ {now}
  /\ UNCHANGED <<stored, last_round, measured, boots>>

NextHome ==
  \/ \E result \in Measurable : HomeRoundFinished(result)
  \/ CommandLineStores
  \/ BootHome
  \/ ClockReads

SpecHome == InitHome /\ [][NextHome]_homeVars

-----------------------------------------------------------------------------
HomeTypeOK ==
  /\ now \in Times /\ measured \in 0..MaxMeasured /\ boots \in 0..MaxBoots
  /\ Len(stored) <= MaxStored
  /\ last_round # Absent =>
       /\ last_round.id \in 0..Len(stored)
       /\ ~last_round.live => Saved(last_round.id) /\ last_round.row = stored[last_round.id]

\* A restart shows the same: the five values of a round that was saved, and is
\* still the newest, are read back as they were shown live, figures as figures
\* and gaps with the same reason, whichever phases ran, failed, were discarded
\* or were not loaded enough (home.rs: "the same formatting for live and stored
\* data").
RestartShowsTheSame ==
  [][boots' # boots /\ last_round # Absent /\ last_round' # Absent =>
       (last_round.live /\ Saved(last_round.id) /\ Newest(last_round.id) =>
          /\ round_values(last_round') = round_values(last_round)
          /\ round_metadata(last_round') = round_metadata(last_round)
          /\ IsCapped(last_round') = IsCapped(last_round))]_homeVars

\* What state.rs says of Home, and the code does not always do: "a missing
\* measurement is displayed as missing, with its reason".  The plan's reason is
\* under no label Home looks for.
EveryGapIsExplained ==
  last_round # Absent =>
    (last_round.live /\ last_round.result.skipped_reason = Exhausted =>
       \A i \in 1..2 : round_values(last_round)[i] # Gap("not selected for this round", <<>>))
=============================================================================
