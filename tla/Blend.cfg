\* All layers of a coarse scale of 0..5, up to four of them.
CONSTANTS
  Full = 5
  Value = {0, 1, 2, 3, 4, 5}
  MaxLayers = 4
SPECIFICATION Spec
INVARIANTS
  TypeOK
  ErrorBounded
