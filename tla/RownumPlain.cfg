CONSTANTS
    KVals <- MCKVals
    RowVals <- MCRowVals
    MaxRows = 3
    MaxQuals = 2
    Nodes <- MCNodes
    Shapes <- PlainShapes
SPECIFICATION Spec
INVARIANT TypeOK
INVARIANT RewritePreservesResult
CHECK_DEADLOCK FALSE
