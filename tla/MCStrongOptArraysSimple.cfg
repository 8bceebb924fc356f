SPECIFICATION Spec
CONSTANTS Node = {a, b, c, d, e}
          MaxCopies = 1
SYMMETRY Symmetry
PROPERTY Implements
