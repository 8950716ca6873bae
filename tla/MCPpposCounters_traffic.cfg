SPECIFICATION Spec
CONSTANTS
    Callers = {c1, c2}
    Width = 3
    Lens = {1, 2}
    MaxMoved = 4
SYMMETRY Symmetry
INVARIANTS TypeOK Conservation
PROPERTY AtOnce
