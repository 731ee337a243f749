CONSTANTS
    Tools = {t1, t2, t3}
SPECIFICATION Spec
INVARIANTS ComputesReference
CHECK_DEADLOCK FALSE
