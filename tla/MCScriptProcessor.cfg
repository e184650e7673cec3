CONSTANTS
    Messages = {m1, m2, m3, m4}
    Scripted = {m1, m2, m3}
    Loaded = {m1, m2}
    NoMessage = NoMessage
    StackSlots = 20
SPECIFICATION ScriptSpec
INVARIANT StackBalanced
