CONSTANTS
    p = p  q = q
    k1 = k1  k2 = k2
    sandboxed = sandboxed
    Trusted = Trusted
    None = None
    Slots = {p}
    MaxWrites = 3
    Entries <- AllKinds
SPECIFICATION Spec
INVARIANTS TypeOK
PROPERTIES OldKeepsServing
