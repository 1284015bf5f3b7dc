\* A cooldown of two steps, two reads at once while two rounds are stored at both
\* ends of a leap day and just over a week later; on Home one live round, two rows
\* and a restart; three seconds of pings of up to two targets.
CONSTANTS
  Missing = Missing
  Nothing = Nothing
  Values = {1, 2}
  Limits = {1, 2}
  Total = 2
  Cooldown = 2
  Garbage = Garbage
  Dates <- MCDates
  Instants <- MCInstants
  DateOf <- MCDateOf
  FirstDates <- MCFirstDates
  Ranges = {"Hour", "Week"}
  MaxTasks = 2
  MaxRounds = 2
  Absent = Absent
  Times = {1, 2}
  Speeds = {5}
  Loads = {1}
  SampleRuns <- MCSampleRuns
  OtherRounds <- MCOtherRounds
  MaxMeasured = 1
  MaxStored = 2
  MaxBoots = 1
  Lost = Lost
  Configured <- MCConfigured
  Holds <- MCHolds
  Asked <- MCAsked
  MaxSeconds = 3
  Interval = 2
  MaxResolve = 3
  MaxStall = 1
  OnWindows = TRUE
SPECIFICATION Spec
INVARIANTS ChartCatchesUp TableIsOfTheDates TickIsWhole ThreadsAreFew
PROPERTIES NotifiesOncePerCooldown RestartShowsTheSame
CHECK_DEADLOCK FALSE
