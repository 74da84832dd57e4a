SPECIFICATION MCSpec
CONSTANTS
  NULL = NULL
  intr = intr
  boot = boot
  Components = {"timer", "ide", "noisy_ide", "interrupt", "kbd", "vga", "boot", "wish"}
  TimerThread = {1}
  Speed <- Speeds
  TimerRequest <- Delays
  MaxTime = 1
  IdeSector = {0, 1}
  IdeValue = {datum}
  Thread = {1, 2}
  External = {32, 35, 36, 39, 46, 47}
  Internal = {14, 17, 48}
  Handlers = {32, 36, 46, 14, 48}
  Symbols = {"exit", "cd", "path", "ls", "d", " ", "&", ">"}
  MaxLen = 5
  Modes = {"batch"}
INVARIANTS
  DisksRight
  InterruptsRight
  TypedAndShown
  StartRight
PROPERTY
  LinesRight
