CONSTANTS
    Clients <- MCClients
    Pages = {p1, p2}
    Conns = {k1}
    LoadConn = load
    Bodies = {good, other}
    Valid = {good, other}
    BuiltIn = good
    Nobody = Nobody
    Junk = Junk
    LateErrors = TRUE
    MaxSaves = 1
SPECIFICATION EditorSpec
INVARIANT SavesHold
SYMMETRY MCSymmetry
