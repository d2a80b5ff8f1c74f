SPECIFICATION Spec
CONSTANTS
  FRAME_SIZE = 4
  USER_STACK_TOP = 28
  STACK_SIZE = 8
  MaxAddress = 31
  Images <- MCImages
INVARIANT LoadedExactly
PROPERTY OneLoadOnly
