SPECIFICATION Spec
CONSTANTS
    b1 = b1
    b2 = b2
    h1 = h1
    h2 = h2
    alice = alice
    None = None
    Browsers = {b1, b2}
    Handlers = {h1, h2}
    Replayed = {b1}
    Types = {"service", "gap"}
    Owner <- OneOwner
    Accepts <- MCAccepts
    InboxCap = 1
    EventsCap = 1
    Size = 1
    MaxClients = 2
    MaxClientsPerOwner = 1
    MaxHistory = 3
    MaxSyncs = 0
    MaxEpochs = 2
    MaxFaults = 1
CHECK_DEADLOCK FALSE
SYMMETRY Symmetry
INVARIANTS WithinLimits CursorSound
