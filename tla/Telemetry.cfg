SPECIFICATION Spec
CONSTANTS
  Inodes = {f1, f2, f3}
  NoFile = NoFile
  FileLines = 2
  PushLines = 2
  PendingLines = 3
  RingLines = 2
  Dirs = {1, 2}
  MaxDirs = 1
  MaxLines = 6
  MaxTouches = 1
  MaxFaults = 1
  MaxUpsets = 1
INVARIANT NewestKept
INVARIANT NothingSkipped
INVARIANT TakenInOrder
PROPERTY KeptUntilTaken
PROPERTY PendingDrains
PROPERTY ArchiveCurrent
