CONSTANTS
    a = a  b = b  c = c  d = d
    x = x  y = y  z = z
    t1 = t1  t2 = t2  t3 = t3
    ev = ev
    Slots = {a, b, c, d}
    Services = {x, y, z}
    Tools = {t1, t2, t3}
    Events = {ev}
    None = None
    Artifacts <- DiamondArtifacts
SPECIFICATION HostSpec
INVARIANTS TypeOK ActiveMatchesInjects
PROPERTIES ImplementsServiceGraph
