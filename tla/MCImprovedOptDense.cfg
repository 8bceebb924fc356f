SPECIFICATION ScriptSpec
CONSTANTS Node = {0, 1, 2, 3, 4, 5, 6, 7, 8, 9}
          Order <- Ascending
          Depth = 0
          Sparse = 15
CHECK_DEADLOCK FALSE
INVARIANTS RoundBound NoImprovingMaxPath
PROPERTIES FlipSpendsMaxNode LoweredOnce FindOptimalReturns
