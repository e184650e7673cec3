CONSTANTS
    m1 = m1  m2 = m2  m3 = m3  c1 = c1  c2 = c2
    Messages = {m1, m2, m3}
    Channels = {c1, c2}
    Chan <- MCChan
    Periodic <- MCPeriodic
    Scripted <- MCScripted
    Configs <- MCConfigs
    DbcSets <- MCDbcSets
    NoTask = NoTask
    StartLimit = 1
    MaxGen = 2
SPECIFICATION Spec
INVARIANTS TypeOK PauseQuiesces NoDestroyedTask NoClearedReadings OneTaskPerMessage LuaStateExclusive
PROPERTY ImplementsSender
