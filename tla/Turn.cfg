CONSTANTS
    guard = guard  audit = audit  edit = edit
    Slots = {guard, audit, edit}
    Decl <- Hooks
    MaxCalls = 2
    Original = Original
SPECIFICATION Spec
INVARIANTS SubsInOrder DispatchAccounts GatesHold
PROPERTIES TurnEnds
