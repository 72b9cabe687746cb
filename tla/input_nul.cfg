CONSTANTS
  MaxLen = 9
  MaxNULs = 2
  Byte <- MCByte
  NUL = 0
  File <- MCFile
  INIT_VEC_SIZE = 2
  INPUT_BUFF_SIZE = 4
  SEND_BUFF_SIZE = 3
  Wrap = 8
SPECIFICATION InputSpec
INVARIANT FileIsSent
CHECK_DEADLOCK FALSE
