\* The GUI's continuous mode.
CONSTANTS
  None = None
  DayLength = 5
  U64Max = 3
  MaxWire = 1
  SettingsChoices <- MCSettings
  HasTray = TRUE
  Minimized = FALSE
  MaxSingles = 1
  MaxEdits = 1
  JumpLimit = 3
  MaxTime = 6
SPECIFICATION Spec
INVARIANTS TypeOK OneClock OneRound LeftIsUnspent ScheduledWithinBudget
PROPERTIES CadenceKept OverdueFullRuns
CHECK_DEADLOCK FALSE
