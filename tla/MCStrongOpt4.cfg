SPECIFICATION Spec
CONSTANT Node = {a, b, c, d}
INVARIANTS Oriented NoImprovingPath Optimal
PROPERTIES OneDegreeChanges Implements
