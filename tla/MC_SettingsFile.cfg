\* Two saves at once, both programs, crashes, power cuts and hand edits.
CONSTANTS
  Saves = {1, 2}
  App = App
  Cli = Cli
  None = None
  Torn = Torn
  Broken = Broken
  MaxCommits = 2
  MaxFaults = 1
  MaxBoots = 2
SPECIFICATION Spec
INVARIANT WrittenIsShown
PROPERTIES SettingsIsRegister UiIsRegister StartsReplaceNothing
CHECK_DEADLOCK FALSE
