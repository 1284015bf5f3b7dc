\* Two changes of a setting in quick succession, nothing failing.
CONSTANTS
  Saves = {1, 2}
  App = App
  Cli = Cli
  None = None
  Torn = Torn
  Broken = Broken
  MaxCommits = 2
  MaxFaults = 0
  MaxBoots = 1
SPECIFICATION Spec
INVARIANT NeverTorn
CHECK_DEADLOCK FALSE
