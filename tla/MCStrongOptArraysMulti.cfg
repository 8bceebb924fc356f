SPECIFICATION Spec
CONSTANTS Node = {a, b, c}
          MaxCopies = 3
INVARIANTS Linked EntriesMatchGraph PathStaysValid SearchStateClean OptimalMultigraph
PROPERTIES HandlerReturns
