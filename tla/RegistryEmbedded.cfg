CONSTANTS
    a = a  b = b  c = c  d = d
    x = x  y = y  z = z
    t1 = t1  t2 = t2  t3 = t3
    ev = ev
    Slots = {a, b, c}
    Services = {x, y, z}
    Tools = {t1, t2, t3}
    Events = {ev}
    None = None
    Artifacts <- ClashArtifacts
SPECIFICATION Spec
INVARIANTS EffectsMatchActive ToolsMatchOwners ToolNamesReserved ToolsConverged
PROPERTIES ProvisionKept
