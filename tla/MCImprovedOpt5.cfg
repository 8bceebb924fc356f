SPECIFICATION Spec
CONSTANTS Node = {a, b, c, d, e}
          Order = {}
          Depth = 0
SYMMETRY Symmetry
CHECK_DEADLOCK FALSE
INVARIANTS CountersExact OptimalUntilLapse
PROPERTY Implements
