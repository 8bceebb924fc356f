SPECIFICATION ScriptSpec
CONSTANTS Node = {0, 1, 2, 3, 4}
          GrowthNum = 3
          GrowthDen = 2
          MaxCopies = 2
          MaxUpdates = 13
          SimpleFree = 3
          ParallelFree = 4
CHECK_DEADLOCK FALSE
INVARIANTS BoundedOrientation StackAboveBound
PROPERTIES RaisedForCause HandlerReturns
