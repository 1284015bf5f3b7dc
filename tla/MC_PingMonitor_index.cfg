\* A settings edit while a cycle is in flight.
CONSTANTS
  Absent = Absent
  a = a
  b = b
  Names <- MCNames
  Configured <- MCConfigured
  WithHistory <- MCWithHistory
  MaxCycles = 3
  MaxEdits = 1
SPECIFICATION SpecMonitor
INVARIANT SamplesInTheirRow
CHECK_DEADLOCK FALSE
