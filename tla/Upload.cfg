\* A file of two blocks and the three tries of the code.
CONSTANTS
  Blocks = 2
  MaxTries = 3
SPECIFICATION Spec
INVARIANT WholeUploadParses
CHECK_DEADLOCK FALSE
