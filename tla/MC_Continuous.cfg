\* The loop under every selection of metrics, with suspends, one step back of the clock, crashes and restarts.
CONSTANTS
  None = None
  DayLength = 5
  U64Max = 5
  MaxWire = 1
  SettingsChoices <- MCBudgeted
  MetricArgs <- MCArgs
  RetentionInterval = 6
  MaxStepBacks = 1
  Jumps <- MCJumps
  JumpLimit = 5
  MaxTime = 10
SPECIFICATION Spec
INVARIANTS BudgetKept FullRowsAreExplained
PROPERTIES PingYieldsToFull OverdueFullRuns
CHECK_DEADLOCK FALSE
