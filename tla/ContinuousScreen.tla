-------------------------- MODULE ContinuousScreen --------------------------
(***************************************************************************)
(* The chart of the Continuous screen: the rounds of the last week, read   *)
(* again at the start, on Resume and after every round of the app, cut to  *)
(* the selected range before the newest of them.                           *)
(***************************************************************************)
EXTENDS StoredRounds

CONSTANT Ranges   \* the chips the user presses

ASSUME ContinuousScreenConstants == Ranges \subseteq {"Hour", "SixHours", "Day", "Week"}

range_duration(range) ==
  3600 * CASE range = "Hour" -> 1 [] range = "SixHours" -> 6
           [] range = "Day" -> 24 [] range = "Week" -> 168

Back(at, range) == IF at > range_duration(range) THEN at - range_duration(range) ELSE 0

\* Mutant: the range ends now and not at the newest round.
bucket_from_now(rows, range) == {row \in rows : row.at >= Back(clock, range)}

\* What is drawn of the loaded rounds.
bucket(rows, range) ==
  {row \in rows : \A newer \in rows : row.at >= Back(newer.at, range)}

VARIABLES
  time_range,
  chart_rows,
  load_error,   \* the last read failed, and is told so
  chart_read    \* what is remembered of the last applied answer

chartVars == <<roundVars, time_range, chart_rows, load_error, chart_read>>

load_chart_task == Task("chart", Nothing)

InitChart ==
  /\ time_range \in Ranges
  /\ chart_rows = {} /\ load_error = FALSE
  /\ chart_read = Nothing

\* A round is stored before its RoundFinished.  The read asked for then may
\* come at any time, so the two are one step.
on_round_finished ==
  /\ Room(1)
  /\ insert_round("app")
  /\ tasks' = Append(tasks, load_chart_task)
  /\ UNCHANGED <<time_range, chart_rows, load_error, chart_read>>

\* The command line stores a round of its own: nobody tells the app.
CliStores ==
  /\ insert_round("cli")
  /\ UNCHANGED <<tasks, time_range, chart_rows, load_error, chart_read>>

\* The read of resume_continuous.
Resume ==
  /\ Room(1)
  /\ tasks' = Append(tasks, load_chart_task)
  /\ UNCHANGED <<clock, rounds, time_range, chart_rows, load_error, chart_read>>

RangeSelected(range) ==
  /\ time_range' = range
  /\ UNCHANGED <<roundVars, chart_rows, load_error, chart_read>>

load_recent_rounds(i) ==
  /\ tasks[i].kind = "chart"
  /\ Answer_(i, rounds_between([from |-> Back(clock, "Week"), to |-> clock]))
  /\ UNCHANGED <<time_range, chart_rows, load_error, chart_read>>

ChartLoaded(i) ==
  /\ Delivered(i, "chart")
  /\ chart_rows' = IF tasks[i].answer.ok THEN tasks[i].answer.rows ELSE chart_rows
  /\ load_error' = ~tasks[i].answer.ok
  /\ chart_read' = Remembered(tasks[i])
  /\ UNCHANGED time_range

TimePassesOnChart == Pass /\ UNCHANGED <<time_range, chart_rows, load_error, chart_read>>

NextChart ==
  \/ on_round_finished
  \/ CliStores
  \/ Resume
  \/ \E range \in Ranges : RangeSelected(range)
  \/ \E i \in DOMAIN tasks : load_recent_rounds(i) \/ ChartLoaded(i)
  \/ TimePassesOnChart

SpecChart == InitRounds /\ tasks = <<load_chart_task>> /\ InitChart /\ [][NextChart]_chartVars

ChartTypeOK ==
  /\ time_range \in Ranges
  /\ chart_rows \subseteq rounds
  /\ load_error \in BOOLEAN
  /\ chart_read \in Memories

\* Once the reads have come back in their order, the chart draws every round
\* the app has finished within the last week that lies within the range before
\* the newest of all, also when the command line has stored some in between.
ChartCatchesUp ==
  Settled("chart", chart_read) =>
    \A row \in rounds :
      /\ row.by = "app" /\ row.at >= Back(clock, "Week")
      /\ \A newer \in rounds : newer.at - row.at <= range_duration(time_range)
      => row \in bucket(chart_rows, time_range)
=============================================================================
