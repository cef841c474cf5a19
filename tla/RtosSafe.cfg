SPECIFICATION RtosSpec
CONSTANTS
  t1 = t1  t2 = t2
  Tasks = {t1, t2}
  NoTask = NoTask
  CopyAlone = TRUE
  N = 3
  Sizes = {60, 61}
  BlockSize = 64
  HeaderSize = 4
  Word = 1024
  MaxRef = 7
  NULL = NULL
  MaxHeld = 3
INVARIANTS
  QuietExact
  TaskSafe
PROPERTIES
  MutexReleased
