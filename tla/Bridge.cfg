CONSTANTS
    None = None
    MaxRequests = 3
    MaxUpsets = 1
SPECIFICATION Spec
INVARIANTS TypeOK TokenInUse
PROPERTIES NothingAfterEnd ClearedWhenOver ShownEnds
CHECK_DEADLOCK FALSE
