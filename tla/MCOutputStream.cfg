CONSTANTS
    Capacity = 4
    Bytes <- MCBytes
    Zero = "0"
    Chunks <- MCChunks
    Sizes = {2}
    ProxyIds = {"p1"}
    Elements = {"e1", "e2"}
    TextOf <- MCTextOf
    Separators <- MCSeparators
    JoinRanges <- MCJoinRanges
    MaxOps = 3

SPECIFICATION Spec

CHECK_DEADLOCK FALSE

INVARIANT StreamTypeOK
INVARIANT UnreportedLossFree
INVARIANT JoinWritesReference
INVARIANT TruncatedPrefix
