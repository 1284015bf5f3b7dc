\* Any provider that keeps the contract, failures and lost bytes included.
CONSTANTS
  None = None
  MaxWire = 2
  Ceilings = {None, 1, 2}
  IdlePing = 2
  PhaseBudget = 3
  Grace = 1
  MinSamples = 3
  ProviderFails = TRUE
SPECIFICATION Spec
INVARIANTS ImplementsOutcome OverrunIsLostDownload AtMostOneLateSample
PROPERTIES RoundReturns
CHECK_DEADLOCK FALSE
