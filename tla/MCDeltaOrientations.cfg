SPECIFICATION Spec
CONSTANTS Node = {0, 1, 2, 3}
          MaxEdges = 5
          MaxShuffled = 3
          MaxDeletions = 2
          MaxParts = 4
CHECK_DEADLOCK FALSE
INVARIANTS SequenceLegal IndexAgrees FinalGraph ReportedOptimum
