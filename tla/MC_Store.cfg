\* Two connections, databases of every version, a clock that may be set once.
CONSTANTS
  Clients = {c1, c2}
  Targets = {t}
  Rtts = {1}
  None = None
  Results <- MCResults
  OldRounds <- MCOldRounds
  Minute = 2
  Day = 2
  RetentionDays = 1
  Lag = 1
  MaxClock = 4
  MaxWork = 2
  MaxOpens = 3
  MaxJumps = 1
SYMMETRY Alike
SPECIFICATION Spec
INVARIANTS TypeOK MinutesAreWhole OnTimeUnlessClockSet EvidenceIsTrue
CHECK_DEADLOCK FALSE
