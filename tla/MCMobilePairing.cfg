SPECIFICATION Spec
CONSTANTS
    None = None
    Tab = {tabA, tabB}
    Pairing = {p1, p2}
    Operation = {op1, op2}
SYMMETRY Symmetry
CHECK_DEADLOCK FALSE
INVARIANTS
    EndedIsNotAdopted
    ApprovedIsNotLost
    OriginalIsNotCovered
