\* Callers that keep or rebuild their provider, both directions limited; two
\* requests for a release at once under a consent that changes.
CONSTANTS
  None = None
  MaxWire = 3
  ChunkBytes = 2
  PhaseBudget = 2
  SendGrace = 1
  BackoffStart = 2
  BackoffCap = 5
  RetryAfterCap = 6
  RetryAfters = {None, 0, 1, 9}
  U32Max = 3
  Owners = {"keeps", "rebuilds"}
  MaxTime = 9
  NoRelease = NoRelease
  Current <- MCCurrent
  Tags <- MCTags
  MaxChecks = 2
SPECIFICATION SpecNetwork
INVARIANT OffersAreConsented
PROPERTIES KeepsContract HoldHonoured PhaseReturns CheckingEnds
CHECK_DEADLOCK FALSE
