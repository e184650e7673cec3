CONSTANTS
    m1 = m1  m2 = m2  m3 = m3  c1 = c1  c2 = c2
    Messages = {m1, m2}
    Channels = {c1}
    Chan <- MCOneChan
    Periodic <- MCPeriodic
    Scripted <- MCScripted
    Configs <- MCOneConfig
    DbcSets <- MCOneDbc
    NoTask = NoTask
    StartLimit = 1
    MaxGen = 2
SPECIFICATION FairSpec
PROPERTIES TaskKeepsRunning CallsReturn
