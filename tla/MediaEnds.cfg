CONSTANTS
    None = None
    Tasks = {task}
    MaxRetries = 0
    MaxCrashes = 1
SPECIFICATION Spec
PROPERTIES TaskEnds NothingStaysDue
CHECK_DEADLOCK FALSE
