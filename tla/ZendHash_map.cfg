SPECIFICATION Spec
CONSTANTS
    b1 = b1  b2 = b2  b3 = b3  ka = ka
    Bucket = {b1, b2, b3}
    NULL = NULL
    StrKey = {ka}
    StrHash <- MCStrHash
    LongMax = 3
    ScriptIndex = {1}
    InitSize = 2
    SizeLimit = 8
    MaxDepth = 2
SYMMETRY Symm
INVARIANT TypeOK
INVARIANT ListSound
INVARIANT LookupExact
INVARIANT CountExact
CHECK_DEADLOCK FALSE
PROPERTY ImplementsMap
