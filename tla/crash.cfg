\* The snapshot: a process that ends anywhere, twice.
SPECIFICATION Spec
CONSTANTS
    s1 = s1  s2 = s2  t1 = t1  t2 = t2  c1 = c1  c2 = c2  v1 = v1
    a = a  b = b  n1 = n1  n2 = n2  web = web
    Services = {s1}
    Tasks = {t1}
    Configs = {}
    Volumes = {}
    Stacks = {a, b}
    Nodes = {n1, n2}
    Names = {web}
    NoStack = NoStack  NoNode = NoNode  NoService = NoService  NoEntry = NoEntry
    Writers = {w1}
    MaxVersion = 2
    MaxRecords = 1
    MaxRestarts = 1
    Persist = TRUE
    TaskService <- MCTaskService
    TaskNode <- MCTaskNode
    Failed <- MCFailed
    NameOf <- MCNameOf
    ServiceStack <- MCServiceStack
    MemberStack <- MCMemberStack
    SpecRefs <- MCSpecRefs
    PreviousRefs <- MCPreviousRefs
INVARIANTS GoneHaveTasks
