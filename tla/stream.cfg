\* The stream, the syncs and what runs beside the loop, for a service and a
\* network.
SPECIFICATION Spec
CONSTANTS
    o1 = o1  n1 = n1  t1 = t1
    Objects = {o1, n1}
    Tasks = {}
    Networks = {n1}  Parents = {o1}
    Owners <- MCOwners
    WorkerCount = 1
    Settled <- MCSettled
    Settlers = {}
    Callers = {c1}
    SettleAttempts = 1
    Unread = Unread  Failed = Failed  Everything = Everything  None = None
    MaxVersion = 2
    MaxEvents = 2
    MaxFaults = 1
    MaxReplay = 1
    MaxResyncs = 1
INVARIANTS DriftCovered ReportSound
