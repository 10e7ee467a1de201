SPECIFICATION Spec
CONSTANTS
  Bridge = {b1, b2}
  None = None
  MaxEffect = 3
  MaxPress = 2
SYMMETRY Interchangeable
INVARIANT HeldMeansPrivate
CHECK_DEADLOCK FALSE
