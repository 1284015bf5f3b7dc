\* A restart between the edits, with a name that holds a #.
CONSTANTS
  NumberOf <- MCNumberOf
  DefaultSettings <- MCDefaultSettings
  DefaultUi <- MCDefaultUi
  Names <- MCNamesHash
  Hosts <- MCHosts
  PortTexts <- MCPortTexts
  IntervalTexts <- MCIntervalTexts
  GbOf <- MCGbOf
  GbTexts <- MCGbTexts
  GbTextOf <- MCGbTextOf
  Blank = ""
  UiChanges <- MCUiChanges
  ThemeFlag = "dark"
  MaxTargets = 3
  MaxEdits = 2
  MaxRestarts = 1
SPECIFICATION Spec
PROPERTY RestartKeepsSettings
CHECK_DEADLOCK FALSE
