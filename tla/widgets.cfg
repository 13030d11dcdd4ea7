SPECIFICATION Spec
CONSTANTS
    Window = {w1}
    Panel = {p1}
    Leaf = {l1}
    None = None
    MaxUpdates = 2
CHECK_DEADLOCK FALSE
SYMMETRY Symmetry
INVARIANTS TreeAgrees RootsAgree
PROPERTY StackExists
