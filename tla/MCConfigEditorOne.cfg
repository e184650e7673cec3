CONSTANTS
    Clients <- MCClients
    Pages = {p1}
    Conns = {k1, k2}
    LoadConn = load
    Bodies = {good, builtin, malformed}
    Valid = {good, builtin}
    BuiltIn = builtin
    Nobody = Nobody
    Junk = Junk
    LateErrors = TRUE
    MaxSaves = 2
SPECIFICATION EditorSpec
PROPERTIES SavedMeansApplied MessageExpires SaveReported
