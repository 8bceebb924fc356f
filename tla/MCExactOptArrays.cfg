SPECIFICATION ScriptSpec
CONSTANTS Node = {0, 1, 2, 3, 4, 5, 6, 7}
          MaxCopies = 3
          Few = {0, 1, 2}
          FewEdges = 5
          Copies = 2
          Sparse = 10
          Depth = 1
CHECK_DEADLOCK FALSE
INVARIANTS PathStaysValid SearchStateClean CountersExact OptimalUntilLapse
PROPERTY HandlerReturns
