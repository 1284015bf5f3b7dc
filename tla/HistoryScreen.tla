--------------------------- MODULE HistoryScreen ---------------------------
(***************************************************************************)
(* The History screen: two typed dates, the table of the rounds between    *)
(* them, the CSV export and the copied diagnostics.  Every change of a     *)
(* date that leaves both valid reads the table again.                      *)
(***************************************************************************)
EXTENDS StoredRounds

CONSTANTS
  Garbage,    \* a text that is not of the form YYYY-MM-DD
  Dates,      \* the dates the user types, <<year, month, day>>
  DateOf,     \* the date of each instant, from the calendar
  FirstDates  \* default_history_range at the start

ASSUME HistoryScreenConstants ==
  /\ Dates \subseteq Nat \X (1..12) \X (1..31)
  /\ DateOf \in [Instants -> Nat \X (1..12) \X (1..31)]
  /\ FirstDates \in Dates \X Dates

DaySeconds == 86400

\* The calendar, with years that start in March.
days_from_civil(date) ==
  LET month == date[2]
      year == IF month <= 2 THEN date[1] - 1 ELSE date[1]
      era == year \div 400
      year_of_era == year - era * 400
      day_of_year == ((153 * (month + IF month > 2 THEN -3 ELSE 9) + 2) \div 5) + date[3] - 1
      day_of_era == year_of_era * 365 + (year_of_era \div 4) - (year_of_era \div 100) + day_of_year
  IN  era * 146097 + day_of_era - 719468

parse_day_start(text) == days_from_civil(text) * DaySeconds

\* The parser takes any month up to 12 and any day up to 31, and refuses a date
\* before the epoch.
IsDateText(text) == text # Garbage /\ parse_day_start(text) >= 0

\* Mutant: the last day named is not read.
parse_day_end_excluded(text) == days_from_civil(text) * DaySeconds

parse_day_end(text) == parse_day_start(text) + DaySeconds - 1

\* parse_history_bounds: the seconds from one to the other, or a refusal.
ValidBounds(from, to) ==
  /\ IsDateText(from) /\ IsDateText(to)
  /\ parse_day_start(from) <= parse_day_end(to)

Span(from, to) == [from |-> parse_day_start(from), to |-> parse_day_end(to)]

VARIABLES
  history_from,
  history_to,
  history_rows,
  toast,         \* Nothing, or whether what it says went well
  history_read   \* what is remembered of the last applied answer

historyVars == <<roundVars, history_from, history_to, history_rows, toast, history_read>>

load_history_task(from, to) == Task("history", Span(from, to))

InitHistory ==
  /\ history_from = FirstDates[1] /\ history_to = FirstDates[2]
  /\ history_rows = {}
  /\ toast = Nothing
  /\ history_read = Nothing

Texts == Dates \cup {Garbage}

reload_history_if_valid ==
  IF ValidBounds(history_from', history_to')
    THEN tasks' = Append(tasks, load_history_task(history_from', history_to')) /\ UNCHANGED toast
    ELSE toast' = FALSE /\ UNCHANGED tasks

HistoryFromChanged(text) ==
  /\ Room(1)
  /\ history_from' = text /\ UNCHANGED history_to
  /\ reload_history_if_valid
  /\ UNCHANGED <<clock, rounds, history_rows, history_read>>

HistoryToChanged(text) ==
  /\ Room(1)
  /\ history_to' = text /\ UNCHANGED history_from
  /\ reload_history_if_valid
  /\ UNCHANGED <<clock, rounds, history_rows, history_read>>

\* start_export on this screen: between the dates as they are typed now.
start_export ==
  /\ Room(1)
  /\ IF ValidBounds(history_from, history_to)
       THEN /\ tasks' = Append(tasks, Task("export", Span(history_from, history_to)))
            /\ UNCHANGED toast
       ELSE toast' = FALSE /\ UNCHANGED tasks
  /\ UNCHANGED <<clock, rounds, history_from, history_to, history_rows, history_read>>

\* The clipboard gets history_rows, whatever they were read for, under the
\* dates of the inputs.
copy_diagnostics ==
  /\ toast' = ValidBounds(history_from, history_to)
  /\ UNCHANGED <<roundVars, history_from, history_to, history_rows, history_read>>

DismissToast ==
  /\ toast' = Nothing
  /\ UNCHANGED <<roundVars, history_from, history_to, history_rows, history_read>>

\* A round is stored, by the app or, which is the same here, by the command
\* line: the table is not told.
RoundStored ==
  /\ insert_round("app")
  /\ UNCHANGED <<tasks, history_from, history_to, history_rows, toast, history_read>>

\* load_history_rounds, or export_csv, runs.
ReadRounds(i) ==
  /\ tasks[i].kind \in {"history", "export"}
  /\ Answer_(i, rounds_between(tasks[i].asked))
  /\ UNCHANGED <<history_from, history_to, history_rows, toast, history_read>>

HistoryLoaded(i) ==
  /\ Delivered(i, "history")
  /\ IF tasks[i].answer.ok
       THEN history_rows' = tasks[i].answer.rows /\ UNCHANGED toast
       ELSE toast' = FALSE /\ UNCHANGED history_rows
  /\ history_read' = Remembered(tasks[i])
  /\ UNCHANGED <<history_from, history_to>>

ExportFinished(i) ==
  /\ Delivered(i, "export")
  /\ toast' = tasks[i].answer.ok
  /\ UNCHANGED <<history_from, history_to, history_rows, history_read>>

TimePassesOnHistory ==
  Pass /\ UNCHANGED <<history_from, history_to, history_rows, toast, history_read>>

NextHistory ==
  \/ \E text \in Texts : HistoryFromChanged(text) \/ HistoryToChanged(text)
  \/ start_export
  \/ copy_diagnostics
  \/ DismissToast
  \/ RoundStored
  \/ \E i \in DOMAIN tasks : ReadRounds(i) \/ HistoryLoaded(i) \/ ExportFinished(i)
  \/ TimePassesOnHistory

FirstHistory == <<load_history_task(FirstDates[1], FirstDates[2])>>

SpecHistory == InitRounds /\ tasks = FirstHistory /\ InitHistory /\ [][NextHistory]_historyVars

HistoryTypeOK ==
  /\ history_from \in Texts /\ history_to \in Texts
  /\ history_rows \subseteq rounds
  /\ toast \in {Nothing, TRUE, FALSE}
  /\ history_read \in Memories

\* The order of dates as they are written.
NotAfter(a, b) ==
  \/ a = b
  \/ \E i \in 1..3 : a[i] < b[i] /\ \A j \in 1..(i - 1) : a[j] = b[j]

\* Once the reads have come back in their order, the table is of the dates the
\* user sees above it: it holds every round that was stored when it was read
\* and was measured from the first to the last of these days, and no other.
\* Typing something that is no date in between, the end of a month or of a day,
\* a round stored meanwhile and a failed earlier read make no difference.
TableIsOfTheDates ==
  Settled("history", history_read) /\ ValidBounds(history_from, history_to) =>
    history_rows = {row \in history_read.stored :
                      /\ NotAfter(history_from, DateOf[row.at])
                      /\ NotAfter(DateOf[row.at], history_to)}
=============================================================================
