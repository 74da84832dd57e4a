SPECIFICATION MCFairSpec
CONSTANTS
  NULL = NULL
  intr = intr
  boot = boot
  Components = {"timer", "console", "ide", "interrupt", "wish"}
  TimerThread = {1, 2}
  Speed <- OneSpeed
  TimerRequest <- Sleeps
  MaxTime = 9
  IdeSector = {0}
  IdeValue = {datum}
  Thread = {1, 2}
  External = {32, 46, 47}
  Internal = {14}
  Handlers = {32, 46, 14}
  Symbols = {"ls", "&"}
  MaxLen = 3
  Modes = {"interactive", "batch", "two files", "bad batch file", "another name"}
INVARIANTS
  NoMixing
PROPERTIES
  SleepsRight
  CallsEnd
