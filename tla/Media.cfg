CONSTANTS
    None = None
    Tasks = {task}
    MaxRetries = 1
    MaxCrashes = 1
SPECIFICATION Spec
INVARIANTS PendingIsPolled NobodyWaits OneOutcome DeliveredIsTold
PROPERTIES FenceHolds
CHECK_DEADLOCK FALSE
