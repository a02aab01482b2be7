CONSTANTS
    e1 = e1 e2 = e2 m1 = m1 m2 = m2 m3 = m3 m4 = m4 lg = lg old = old new = new
    Event = {e1, m1, m2, lg}
    PipeOf <- MCPipeOf
    Legacy = {lg}
    Key = {old, new}
    FromKey = old
    ToKey = new
    MaxPending = 1
    MaxPerFlush = 1
    MaxNow = 1
    MaxCrash = 1
SPECIFICATION Spec
SYMMETRY Sym
INVARIANTS CountedOnce ShutdownSaves
PROPERTIES KeepsTheLedger
CHECK_DEADLOCK FALSE
