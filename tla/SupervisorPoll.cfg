CONSTANTS
    p = p  q = q
    k1 = k1  k2 = k2
    sandboxed = sandboxed
    Trusted = Trusted
    None = None
    Slots = {p, q}
    MaxWrites = 4
    Entries <- FewKinds
SPECIFICATION PollSpec
INVARIANTS NoMissedBuild
PROPERTIES RebuildsGoLive PolicyReachesInstance
