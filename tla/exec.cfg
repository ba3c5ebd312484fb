SPECIFICATION FairSpec
CONSTANTS
    s1 = s1  NoOne = NoOne
    Sessions = {s1}
    MaxSessions = 1
    MaxReloads = 2
    MaxFaults = 2
    MaxRefusals = 2
INVARIANTS RecordsAreSettled
PROPERTIES AuditTrailKept SessionsEnd RevocationReaches
