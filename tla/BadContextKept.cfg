SPECIFICATION SettingsSpec
CONSTANTS
  Grades = {1, 3}
  Efforts = {0, 1}
  LastOpened = 3
  Waiting = 1
CHECK_DEADLOCK FALSE
INVARIANT ContextKept
