CONSTANTS
    good = good  other = other  bad = bad  long = long
    Clients = {c1, c2}
    Bodies = {good, other, bad, long}
    Size <- MCSize
    Valid = {good, other, long}
    BuiltIn = other
    BufferSize = 3
    Nobody = Nobody
    Throwing = {"Stop", "Start"}
    MaxRequests = 3
SPECIFICATION ApiSpec
INVARIANTS ApiTypeOK OwnBodyParsed ProcessingFollowsConfig
PROPERTIES ImplementsStore FaultsOnlyDuringBoot RequestsEnd
