CONSTANTS
    a = a  b = b  c = c
    Main = Main
    None = None
    Slots = {a, b, c}
    Providers <- TwoProviders
    MaxBatch = 3
SPECIFICATION Spec
INVARIANTS TypeOK NeverReentered StoreAccounts AnswersInPlace
PROPERTIES OperationReturns
