\* Start, Stop, edits and the boot load in every order.
CONSTANTS
  Absent = Absent
  a = a
  b = b
  Names <- MCNames
  Configured <- MCConfigured
  WithHistory <- MCWithHistory
  MaxCycles = 2
  MaxEdits = 2
SPECIFICATION SpecMonitor
PROPERTIES SamplesSurvive StopDrains
CHECK_DEADLOCK FALSE
