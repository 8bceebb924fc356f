SPECIFICATION Spec
CONSTANTS Node = {n1, n2, n3, n4, n5}
          MaxEdges = 10
          MaxCopies = 1
          Configs <- SmallConfigs
SYMMETRY Symmetry
CHECK_DEADLOCK FALSE
INVARIANTS BucketsConsistent NaiveOptOptimal
PROPERTIES TurnsLevel Implements
