SPECIFICATION FairSpec
CONSTANTS
    b1 = b1
    b2 = b2
    h1 = h1
    h2 = h2
    alice = alice
    None = None
    Browsers = {b1}
    Handlers = {h1, h2}
    Replayed = {b1}
    Types = {"service"}
    Owner <- OneOwner
    Accepts <- MCAccepts
    InboxCap = 1
    EventsCap = 1
    Size = 2
    MaxClients = 1
    MaxClientsPerOwner = 1
    MaxHistory = 3
    MaxSyncs = 1
    MaxEpochs = 1
    MaxFaults = 1
CHECK_DEADLOCK FALSE
INVARIANTS NoSilentGap ToldOnce

PROPERTIES CatchesUp
