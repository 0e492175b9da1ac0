SPECIFICATION Spec
CONSTANTS
    z1 = z1  z2 = z2  z3 = z3  o1 = o1
    Zval = {z1, z2, z3}
    Obj = {o1}
    None = None
    MaxEntries = 1
    MaxRefs = 1
SYMMETRY Symm
INVARIANT TypeOK
INVARIANT NoDangling
INVARIANT CountsExact
INVARIANT ListedKept
INVARIANT VisitsLive
INVARIANT NoLostGarbage
CHECK_DEADLOCK FALSE
