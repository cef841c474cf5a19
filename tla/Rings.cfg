SPECIFICATION MCSpec
CONSTANTS
  Size = 4
  Byte = {0, 1}
  Zero = 0
  MaxLen = 4
  Chunks <- MCChunks
  Rereads = FALSE
INVARIANT IndexesAgree
PROPERTIES ImplementsFifo NanopbImplementsFifo FixedImplementsFifo
CHECK_DEADLOCK FALSE
