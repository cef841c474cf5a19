SPECIFICATION MCSpec
CONSTANTS
  t1 = t1  t2 = t2
  Tasks = {t1, t2}
  NoTask = NoTask
  BufferSize = 4
  MaxCalls = 2
  Calls <- MCCalls
  Texts <- MCTexts
INVARIANTS TextWhole InBuffer NothingStale
CHECK_DEADLOCK FALSE
