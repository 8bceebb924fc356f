SPECIFICATION Spec
CONSTANTS Node = {0, 1, 2}
          MaxEdges = 1
          MaxShuffled = 1
          MaxDeletions = 1
          MaxParts = 2
CHECK_DEADLOCK FALSE
INVARIANT EdgeNumbersEqual
