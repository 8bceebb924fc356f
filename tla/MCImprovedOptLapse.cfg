SPECIFICATION Spec
CONSTANTS Node = {a, b, c, d, e}
          Order = {}
          Depth = 2
SYMMETRY Symmetry
CHECK_DEADLOCK FALSE
INVARIANT AlwaysOptimal
