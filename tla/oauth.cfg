SPECIFICATION Spec
CONSTANTS
    r1 = r1  r2 = r2  alice = alice  cimd = cimd  d1 = d1  d2 = d2  None = None
    Requests = {r1, r2}
    Subjects = {alice}
    Verified = {cimd}
    Registered = {d1}
    MaxVersion = 2
    HistorySize = 2
    MaxTokens = 3
    MaxCodes = 1
    MaxFaults = 1
CHECK_DEADLOCK FALSE
SYMMETRY RequestSymmetry
INVARIANTS OneLivePerFamily ApprovedAsShown AnswersAreDurable
