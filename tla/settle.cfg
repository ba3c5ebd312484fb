\* Tasks: silent changes, container events, settle reads, task lists.
SPECIFICATION FairSpec
CONSTANTS
    o1 = o1  n1 = n1  t1 = t1
    Objects = {o1}
    Tasks = {t1}
    Networks = {}  Parents = {o1}
    Owners <- MCOwners
    WorkerCount = 1
    Settled <- MCSettled
    Settlers = {g1, g2}
    Callers = {}
    SettleAttempts = 1
    Unread = Unread  Failed = Failed  Everything = Everything  None = None
    MaxVersion = 2
    MaxEvents = 2
    MaxFaults = 1
    MaxReplay = 0
    MaxResyncs = 0
PROPERTIES NoResurrection Converges
