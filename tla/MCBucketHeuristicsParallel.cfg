SPECIFICATION SparseSpec
CONSTANTS Node = {n1, n2, n3, n4}
          MaxEdges = 4
          MaxCopies = 2
          Configs <- LoopConfigs
CHECK_DEADLOCK FALSE
INVARIANT NaiveOptOptimal
PROPERTIES EntriesFollowGraph HandlerReturns
