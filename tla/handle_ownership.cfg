CONSTANTS
    Logs = {l1, l2}
    Handles = {h1, h2, h3}
    Infos = {i1, i2}
    None = None
SPECIFICATION Spec
CHECK_DEADLOCK FALSE
SYMMETRY Symmetry
INVARIANTS
    TypeOK
    ReleasedOnce
    HandleOfOne

    
