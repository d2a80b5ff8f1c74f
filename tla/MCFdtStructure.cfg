SPECIFICATION Spec
CONSTANTS
  a = a
  b = b
  Names <- MCNames
  Bad = Bad
  Cut = Cut
  MaxSize = 11
SYMMETRY MCSymmetry
INVARIANTS
  ValidationIsExact
  ViewsAreExact
CHECK_DEADLOCK FALSE
