CONSTANTS
    KVals <- MCKVals
    RowVals <- MCRowVals
    MaxRows = 3
    MaxQuals = 2
    Nodes <- MCNodes
    Shapes <- AggShapes
SPECIFICATION Spec

INVARIANT RewritePreservesResult
CHECK_DEADLOCK FALSE
