------------------------------- MODULE Cache -------------------------------
(***************************************************************************)
(* The in-memory cluster state of internal/cache: the resource maps, the   *)
(* state derived from them (stacks, task indexes, reverse references, the  *)
(* removed services kept for their tasks), the restart tracker, the        *)
(* notifications a write sends after it released the lock, and the         *)
(* snapshot on disk.                                                       *)
(*                                                                         *)
(* Every write of the code has a section under Cache.mu, one atomic action *)
(* here, and then effects outside it (restarts.Record, restarts.Forget,    *)
(* notify), which other writers interleave with; todo[w] holds the ones a  *)
(* writer still owes, in the order of the fields.                          *)
(*                                                                         *)
(* Data.  A Swarm object at one version has one content, so an object is   *)
(* its version number, Absent when the map does not hold it, and what the  *)
(* cache derives from the content (stack label, references, node, failure) *)
(* is a constant function of identity and version.  Networks and volumes   *)
(* carry no version in the code; there the number only tells contents      *)
(* apart.                                                                  *)
(***************************************************************************)
EXTENDS Naturals, FiniteSets

CONSTANTS
    Services, Tasks,
    Configs,        \* configs and secrets: versioned, kept for a rollback
    Volumes,        \* networks and volumes: no version
    Stacks, Nodes, Names,
    NoStack, NoNode, NoService,
    NoEntry,        \* a name the stacks map does not hold
    Writers,        \* goroutines that write: workers, settles, handlers
    MaxVersion,     \* bound: versions an object goes through
    MaxRecords,     \* bound: the restart counter saturates here
    MaxRestarts,    \* bound: restarts of the process
    Persist,        \* whether a snapshot path is configured
    TaskService,    \* [Tasks -> Services \cup {NoService}]
    TaskNode,       \* node of a task at a version
    Failed,         \* versions at which a task is in a failure state
    NameOf,         \* service names; a recreated service reuses one
    ServiceStack, MemberStack,   \* stack label at a version
    SpecRefs,       \* what a service's spec references at a version
    PreviousRefs    \* configs its previous spec references

Members  == Configs \cup Volumes
Versions == 1..MaxVersion
Absent   == 0
Stored   == 0..MaxVersion

ASSUME BoundsAssumption ==
    /\ MaxVersion \in Nat \ {0}
    /\ MaxRecords \in Nat \ {0}
    /\ MaxRestarts \in Nat
    /\ Persist \in BOOLEAN

ASSUME NamingAssumption ==
    /\ NoStack \notin Stacks
    /\ NoNode \notin Nodes
    /\ NoService \notin Services
    /\ Configs \cap Volumes = {}

ASSUME ContentAssumption ==
    /\ TaskService \in [Tasks -> Services \cup {NoService}]
    /\ TaskNode \in [Tasks -> [Versions -> Nodes \cup {NoNode}]]
    /\ Failed \in [Tasks -> SUBSET Versions]
    /\ NameOf \in [Services -> Names]
    /\ ServiceStack \in [Services -> [Versions -> Stacks \cup {NoStack}]]
    /\ MemberStack \in [Members -> [Versions -> Stacks \cup {NoStack}]]
    /\ SpecRefs \in [Services -> [Versions -> SUBSET Members]]
    /\ PreviousRefs \in [Services -> [Versions -> SUBSET Configs]]

VARIABLES
    services, tasks, members,          \* the resource maps
    stacks,                            \* Cache.stacks
    tasksByService, tasksByNode,       \* secondary indexes over tasks
    goneServices,                      \* removed services with tasks left
    serviceRef,                        \* member -> service -> how it refers
    byName,                            \* serviceRefIndex.byName
    tasksSynced,                       \* a live sync listed the tasks
    restarts,                          \* failures recorded, per task
    observed,                          \* ghost: failures seen to happen
    todo,                              \* effects owed after Cache.mu
    view,                              \* ghost: what a listener last read
    copying, disk,                     \* WriteToDisk's copy, the file
    lives                              \* processes started so far

resources == <<services, tasks, members>>
derived   == <<stacks, tasksByService, tasksByNode, goneServices,
               serviceRef, byName>>
tracker   == <<restarts, observed>>
storage   == <<copying, disk, lives>>
vars      == <<resources, derived, tasksSynced, tracker, todo, view, storage>>

(***************************************************************************)
(* Types.                                                                  *)
(***************************************************************************)
Entry == [services: SUBSET Services, members: SUBSET Members]

ASSUME EntryAssumption == NoEntry \notin Entry

RefKinds == {"none", "current", "rollback"}

Notes == ({"service"} \X Services) \cup ({"task"} \X Tasks)
         \cup ({"member", "ref_changed"} \X Members) \cup {<<"sync">>}

Owed    == [forget: SUBSET Services, record: SUBSET Tasks,
            note: SUBSET Notes, refs: SUBSET Notes]
Nothing == [forget |-> {}, record |-> {}, note |-> {}, refs |-> {}]

Contents == [services: [Services -> Stored], tasks: [Tasks -> Stored],
             members: [Members -> Stored], restarts: [Tasks -> 0..MaxRecords]]
NoSnapshot == [services |-> [s \in Services |-> Absent],
               tasks    |-> [t \in Tasks |-> Absent],
               members  |-> [m \in Members |-> Absent],
               restarts |-> [t \in Tasks |-> 0]]

NoCopy == [busy |-> FALSE, maps |-> NoSnapshot]

Idle(w) == todo[w] = Nothing
Owes(w, effects) == todo' = [todo EXCEPT ![w] = effects]
Newer(a, b) == IF a > b THEN a ELSE b

(***************************************************************************)
(* Stack membership: addToStack, seedStack, removeFromStack and            *)
(* rebuildStacks, as functions of the stacks they are applied to.          *)
(***************************************************************************)
\* Mutant: the entry starts without what was cached before its service.
seedStackEmpty(n, mems) ==
    [services |-> {}, members |-> {}]

seedStack(n, mems) ==
    [services |-> {},
     members  |-> {m \in Members : mems[m] # Absent
                                   /\ MemberStack[m][mems[m]] = n}]

\* addToStack of a service creates the entry from what is already cached.
addServiceToStack(st, s, v, mems) ==
    LET n == ServiceStack[s][v]
        e == IF st[n] # NoEntry THEN st[n] ELSE seedStack(n, mems)
    IN IF n = NoStack THEN st
       ELSE [st EXCEPT ![n] = [e EXCEPT !.services = e.services \cup {s}]]

\* addToStack of anything else never creates one.
addMemberToStack(st, m, v) ==
    LET n == MemberStack[m][v]
    IN IF n = NoStack \/ st[n] = NoEntry THEN st
       ELSE [st EXCEPT ![n] = [st[n] EXCEPT !.members =
                                     st[n].members \cup {m}]]

Kept(e) == IF e.services = {} THEN NoEntry ELSE e

removeServiceFromStack(st, s, v) ==
    LET n == ServiceStack[s][v]
    IN IF n = NoStack \/ st[n] = NoEntry THEN st
       ELSE [st EXCEPT ![n] = Kept([st[n] EXCEPT !.services =
                                          st[n].services \ {s}])]

removeMemberFromStack(st, m, v) ==
    LET n == MemberStack[m][v]
    IN IF n = NoStack \/ st[n] = NoEntry THEN st
       ELSE [st EXCEPT ![n] = Kept([st[n] EXCEPT !.members =
                                          st[n].members \ {m}])]

ServicesIn(n, svcs) ==
    {s \in Services : svcs[s] # Absent /\ ServiceStack[s][svcs[s]] = n}
MembersIn(n, mems) ==
    {m \in Members : mems[m] # Absent /\ MemberStack[m][mems[m]] = n}

rebuildStacks(svcs, mems) ==
    [n \in Stacks |->
        IF ServicesIn(n, svcs) = {} THEN NoEntry
        ELSE [services |-> ServicesIn(n, svcs),
              members  |-> MembersIn(n, mems)]]

(***************************************************************************)
(* Reverse references: serviceRefs and the serviceRefIndex.                *)
(***************************************************************************)
serviceRefs(s, v) ==
    [m \in Members |->
        CASE m \in SpecRefs[s][v]     -> "current"
          [] m \in PreviousRefs[s][v] \ SpecRefs[s][v] -> "rollback"
          [] OTHER                    -> "none"]

NoRefs == [m \in Members |-> "none"]
RefsOf(s, v) == IF v = Absent THEN NoRefs ELSE serviceRefs(s, v)

\* Mutant: the references the old spec alone held stay indexed.
reindexRefsAddOnly(idx, s, oldRefs, newRefs) ==
    [m \in Members |-> [idx[m] EXCEPT ![s] =
        IF newRefs[m] # "none" THEN newRefs[m] ELSE @]]

\* serviceRefIndex.remove, then .add: an entry of neither is left alone.
reindexRefs(idx, s, oldRefs, newRefs) ==
    [m \in Members |-> [idx[m] EXCEPT ![s] =
        IF newRefs[m] # "none" THEN newRefs[m]
        ELSE IF oldRefs[m] # "none" THEN "none" ELSE @]]

\* Mutant: a removed service keeps its name.
removeNameNever(names, s) == names

removeName(names, s) ==
    IF names[NameOf[s]] = s THEN [names EXCEPT ![NameOf[s]] = NoService]
    ELSE names

addName(names, s) == [names EXCEPT ![NameOf[s]] = s]

\* Mutant: a reference moving between the specs is not told.
notifyRefChangesKeysOnly(oldRefs, newRefs) ==
    {<<"ref_changed", m>> : m \in {x \in Members :
        (oldRefs[x] = "none") # (newRefs[x] = "none")}}

\* notifyRefChanges: appearing, disappearing, or moving between the specs.
notifyRefChanges(oldRefs, newRefs) ==
    {<<"ref_changed", m>> : m \in {x \in Members : oldRefs[x] # newRefs[x]}}

(***************************************************************************)
(* Task indexes: addIndexed and removeIndexed skip an empty parent.        *)
(***************************************************************************)
\* Mutant: parent and task swapped.
reindexTaskSwapped(by, t, from, to) ==
    [p \in DOMAIN by |->
        (by[p] \ IF p = from THEN {t} ELSE {}) \cup IF p = to THEN {p} ELSE {}]

reindexTask(by, t, from, to) ==
    [p \in DOMAIN by |->
        (by[p] \ IF p = from THEN {t} ELSE {}) \cup IF p = to THEN {t} ELSE {}]

NodeAt(t, v) == IF v = Absent THEN NoNode ELSE TaskNode[t][v]
IsFailure(t, v) == v # Absent /\ v \in Failed[t]
TasksOf(s) == {t \in Tasks : TaskService[t] = s}

\* The failure happened between the cached state and this one.
Happened(t, old, v) ==
    IsFailure(t, v) /\ ~IsFailure(t, old) /\ TaskService[t] # NoService

\* Mutant: only a task cached before can fail.
NewFailureIfCached(t, old, v) ==
    old # Absent /\ IsFailure(t, v) /\ ~IsFailure(t, old)
    /\ TaskService[t] # NoService

\* What SetTask records: a failure the cached task did not already have.
NewFailure(t, old, v) ==
    IsFailure(t, v) /\ ~IsFailure(t, old) /\ TaskService[t] # NoService

\* Mutant: a removed service is dropped at once.
GoneNever(s, old, left) == goneServices[s]

\* A removed service is kept while tasks of it are left.
GoneFor(s, old, left) == IF left = {} THEN goneServices[s] ELSE old

\* Mutant: the entry outlives the service's last task.
PrunedNever(gone, by) == gone

\* pruneGoneServices: a removed service no task refers to is forgotten.
Pruned(gone, by) ==
    [s \in Services |-> IF by[s] = {} THEN Absent ELSE gone[s]]

(***************************************************************************)
(* Writes.  A write older than the cached version returns early and leaves *)
(* everything as it was, so it is no step.                                 *)
(***************************************************************************)
SetService(w, s, v) ==
    LET old     == services[s]
        oldRefs == RefsOf(s, old)
        newRefs == serviceRefs(s, v)
        without == IF old = Absent THEN stacks
                   ELSE removeServiceFromStack(stacks, s, old)
    IN /\ Idle(w)
       /\ old <= v
       /\ services' = [services EXCEPT ![s] = v]
       /\ stacks' = addServiceToStack(without, s, v, members)
       /\ serviceRef' = reindexRefs(serviceRef, s, oldRefs, newRefs)
       /\ byName' = addName(IF old = Absent THEN byName
                            ELSE removeName(byName, s), s)
       /\ Owes(w, [Nothing EXCEPT !.note = {<<"service", s>>},
                                  !.refs = notifyRefChanges(oldRefs, newRefs)])
       /\ UNCHANGED <<tasks, members, tasksByService, tasksByNode,
                      goneServices, tasksSynced, tracker, view, storage>>

DeleteService(w, s) ==
    LET old     == services[s]
        oldRefs == RefsOf(s, old)
    IN /\ Idle(w)
       /\ services' = [services EXCEPT ![s] = Absent]
       /\ IF old = Absent
          THEN UNCHANGED <<stacks, serviceRef, byName, goneServices>>
          ELSE /\ stacks' = removeServiceFromStack(stacks, s, old)
               /\ serviceRef' = reindexRefs(serviceRef, s, oldRefs, NoRefs)
               /\ byName' = removeName(byName, s)
               /\ goneServices' = [goneServices EXCEPT ![s] =
                                      GoneFor(s, old, tasksByService[s])]
       /\ Owes(w, [Nothing EXCEPT !.forget = {s}, !.note = {<<"service", s>>},
                                  !.refs = notifyRefChanges(oldRefs, NoRefs)])
       /\ UNCHANGED <<tasks, members, tasksByService, tasksByNode,
                      tasksSynced, tracker, view, storage>>

\* A failure is recorded once: when the cached task was not failed before.
SetTask(w, t, v) ==
    LET old == tasks[t]
    IN /\ Idle(w)
       /\ old <= v
       /\ tasks' = [tasks EXCEPT ![t] = v]
       /\ tasksByService' = reindexTask(tasksByService, t,
              IF old = Absent THEN NoService ELSE TaskService[t],
              TaskService[t])
       /\ tasksByNode' = reindexTask(tasksByNode, t, NodeAt(t, old),
                                     NodeAt(t, v))
       /\ observed' = IF Happened(t, old, v) THEN observed \cup {t} ELSE observed
       /\ Owes(w, [Nothing EXCEPT
              !.record = IF NewFailure(t, old, v) THEN {t} ELSE {},
              !.note   = IF old # v THEN {<<"task", t>>} ELSE {}])
       /\ UNCHANGED <<services, members, stacks, goneServices, serviceRef,
                      byName, tasksSynced, restarts, view, storage>>

\* The last task of a removed service takes its goneServices entry along.
DeleteTask(w, t) ==
    LET old == tasks[t]
        s   == TaskService[t]
    IN /\ Idle(w)
       /\ tasks' = [tasks EXCEPT ![t] = Absent]
       /\ IF old = Absent
          THEN UNCHANGED <<tasksByService, tasksByNode, goneServices>>
          ELSE /\ tasksByService' =
                      reindexTask(tasksByService, t, s, NoService)
               /\ tasksByNode' =
                      reindexTask(tasksByNode, t, NodeAt(t, old), NoNode)
               /\ goneServices' = IF s = NoService THEN goneServices
                                  ELSE [goneServices EXCEPT ![s] =
                                     Pruned(goneServices, tasksByService')[s]]
       /\ Owes(w, [Nothing EXCEPT !.note = {<<"task", t>>}])
       /\ UNCHANGED <<services, members, stacks, serviceRef, byName,
                      tasksSynced, tracker, view, storage>>

\* ResourceMap.set with the onSet hook, and the event Set and Add return.
StoreMember(w, m, v) ==
    LET old == members[m]
        without == IF old = Absent THEN stacks
                   ELSE removeMemberFromStack(stacks, m, old)
    IN /\ members' = [members EXCEPT ![m] = v]
       /\ stacks' = addMemberToStack(without, m, v)
       /\ Owes(w, [Nothing EXCEPT !.note = {<<"member", m>>}])
       /\ UNCHANGED <<services, tasks, tasksByService, tasksByNode,
                      goneServices, serviceRef, byName, tasksSynced,
                      tracker, view, storage>>

\* SetConfig, SetSecret refuse an older version; SetNetwork, SetVolume cannot.
SetMember(w, m, v) ==
    /\ Idle(w)
    /\ m \in Configs => members[m] <= v
    /\ StoreMember(w, m, v)

\* AddConfig, AddSecret: the record a handler seeds after creating it.
AddConfig(w, m, v) ==
    /\ Idle(w)
    /\ m \in Configs
    /\ members[m] = Absent
    /\ StoreMember(w, m, v)

DeleteMember(w, m) ==
    LET old == members[m]
    IN /\ Idle(w)
       /\ members' = [members EXCEPT ![m] = Absent]
       /\ stacks' = IF old = Absent THEN stacks
                    ELSE removeMemberFromStack(stacks, m, old)
       /\ Owes(w, [Nothing EXCEPT !.note = {<<"member", m>>}])
       /\ UNCHANGED <<services, tasks, tasksByService, tasksByNode,
                      goneServices, serviceRef, byName, tasksSynced,
                      tracker, view, storage>>

(***************************************************************************)
(* ReplaceAll.  has names the types whose list succeeded; listed holds the *)
(* lists, each read at an instant of its own.                              *)
(***************************************************************************)
\* The Has fields of FullSyncData, for the types there are objects of.
TypeOf(m) == IF m \in Configs THEN "configs" ELSE "volumes"
Types == {"services", "tasks"} \cup {TypeOf(m) : m \in Members}

\* Mutant: the list wins over a newer cached version.
keepListed(listed, cached) == listed

\* keepNewer: the list decides what exists, the newer version what it holds.
keepNewer(listed, cached) ==
    [x \in DOMAIN listed |-> IF listed[x] = Absent THEN Absent
                             ELSE Newer(listed[x], cached[x])]

\* Mutant: a task held newer stays under its listed parent.
RehomedNever(by, at, held) == by

\* The index built from the list, then moved for the tasks held newer.
ListedIndex(parents, at, listed) ==
    [p \in parents |-> {t \in Tasks : listed[t] # Absent
                                      /\ at[t][listed[t]] = p}]
Rehomed(by, at, held) ==
    [p \in DOMAIN by |-> (by[p] \ held) \cup
                         {t \in held : at[t][tasks[t]] = p}]

HeldNewer(listed) ==
    {t \in Tasks : listed[t] # Absent /\ tasks[t] > listed[t]}

SyncedServices(has, listed) ==
    IF "services" \in has THEN keepNewer(listed, services) ELSE services
SyncedTasks(has, listed) ==
    IF "tasks" \in has THEN keepNewer(listed, tasks) ELSE tasks
\* Networks and volumes carry no version: their list wins outright.
SyncedMembers(has, listed) ==
    [m \in Members |->
        IF TypeOf(m) \notin has THEN members[m]
        ELSE IF m \in Configs THEN keepNewer(listed, members)[m]
        ELSE listed[m]]

\* serviceRefIndex.rebuild; of two services of a name the last ranged over
\* keeps it.
rebuildRefs(svcs) ==
    [m \in Members |-> [s \in Services |-> RefsOf(s, svcs[s])[m]]]
NamesRebuilt(names, svcs) ==
    \A n \in Names :
        LET called == {s \in Services : svcs[s] # Absent /\ NameOf[s] = n}
        IN IF called = {} THEN names[n] = NoService ELSE names[n] \in called

ServiceAt == [t \in Tasks |-> [v \in Versions |-> TaskService[t]]]

ReplaceAll(w, has, listed) ==
    LET svcs    == SyncedServices(has, listed.services)
        tsks    == SyncedTasks(has, listed.tasks)
        mems    == SyncedMembers(has, listed.members)
        held    == HeldNewer(listed.tasks)
        byService == ListedIndex(Services, ServiceAt, listed.tasks)
        dropped == IF "services" \in has
                   THEN {s \in Services : services[s] # Absent
                                          /\ listed.services[s] = Absent}
                   ELSE {}
        remaining == IF "tasks" \in has THEN byService ELSE tasksByService
        gone    == [s \in Services |->
                      IF s \in dropped
                      THEN GoneFor(s, services[s], remaining[s])
                      ELSE goneServices[s]]
        failures == IF "tasks" \in has
                    THEN {t \in Tasks : IsFailure(t, tsks[t])
                                        /\ ~IsFailure(t, tasks[t])}
                    ELSE {}
        backfilled == {t \in failures : tasks[t] = Absent /\ ~tasksSynced}
        newFailures == {t \in failures \ backfilled :
                            TaskService[t] # NoService}
        forgotten == UNION {TasksOf(s) : s \in dropped}
    IN /\ Idle(w)
       /\ services' = svcs
       /\ tasks' = tsks
       /\ members' = mems
       /\ IF "tasks" \in has
          THEN /\ tasksByService' = Rehomed(byService, ServiceAt, held)
               /\ tasksByNode' =
                      Rehomed(ListedIndex(Nodes, TaskNode, listed.tasks),
                              TaskNode, held)
               /\ goneServices' = Pruned(gone, tasksByService')
               /\ tasksSynced' = TRUE
          ELSE /\ goneServices' = gone
               /\ UNCHANGED <<tasksByService, tasksByNode, tasksSynced>>
       /\ stacks' = rebuildStacks(svcs, mems)
       /\ serviceRef' = rebuildRefs(svcs)
       /\ \E names \in [Names -> Services \cup {NoService}] :
             NamesRebuilt(names, svcs) /\ byName' = names
       /\ restarts' = [t \in Tasks |->
                          IF t \in forgotten THEN 0 ELSE restarts[t]]
       /\ observed' = (observed \ forgotten) \cup newFailures
       /\ Owes(w, [Nothing EXCEPT !.record = newFailures,
                                  !.note = {<<"sync">>}])
       /\ UNCHANGED <<view, storage>>

(***************************************************************************)
(* Effects after the lock was released.                                    *)
(***************************************************************************)
\* RestartTracker.Forget.
Forget(w, s) ==
    /\ s \in todo[w].forget
    /\ restarts' = [t \in Tasks |-> IF TaskService[t] = s THEN 0
                                    ELSE restarts[t]]
    /\ observed' = observed \ TasksOf(s)
    /\ Owes(w, [todo[w] EXCEPT !.forget = todo[w].forget \ {s}])
    /\ UNCHANGED <<resources, derived, tasksSynced, view, storage>>

\* RestartTracker.Record; the counter saturates at MaxRecords.
Record(w, t) ==
    /\ t \in todo[w].record
    /\ restarts' = [restarts EXCEPT ![t] =
                       IF @ < MaxRecords THEN @ + 1 ELSE @]
    /\ Owes(w, [todo[w] EXCEPT !.record = todo[w].record \ {t}])
    /\ UNCHANGED <<resources, derived, tasksSynced, observed, view, storage>>

\* What a listener told of note e reads again from the cache.
Reread(e) ==
    CASE e[1] = "service" -> [view EXCEPT !.services[e[2]] = services[e[2]]]
      [] e[1] = "task"    -> [view EXCEPT !.tasks[e[2]] = tasks[e[2]]]
      [] e[1] = "member"  -> [view EXCEPT !.members[e[2]] = members[e[2]]]
      [] e[1] = "ref_changed" ->
                             [view EXCEPT !.refs[e[2]] = serviceRef[e[2]]]
      [] OTHER -> [services |-> services, tasks |-> tasks,
                   members |-> members, refs |-> serviceRef]

\* notify: the write's own event first, then its ref_changed events in the
\* order Go ranges over a map.
Notify(w, e) ==
    /\ todo[w].forget = {} /\ todo[w].record = {}
    /\ \/ /\ e \in todo[w].note
          /\ Owes(w, [todo[w] EXCEPT !.note = todo[w].note \ {e}])
       \/ /\ todo[w].note = {}
          /\ e \in todo[w].refs
          /\ Owes(w, [todo[w] EXCEPT !.refs = todo[w].refs \ {e}])
    /\ view' = Reread(e)
    /\ UNCHANGED <<resources, derived, tasksSynced, tracker, storage>>

(***************************************************************************)
(* The snapshot.  WriteToDisk copies the maps under Cache.mu and the       *)
(* tracker after releasing it; the rename publishes both at once.          *)
(***************************************************************************)
CopyMaps ==
    /\ Persist
    /\ ~copying.busy
    /\ copying' = [busy |-> TRUE,
                   maps |-> [NoSnapshot EXCEPT !.services = services,
                                !.tasks = tasks, !.members = members]]
    /\ UNCHANGED <<resources, derived, tasksSynced, tracker, todo, view,
                   disk, lives>>

\* restarts.Snapshot, then the write, the sync and the rename.
Publish ==
    /\ copying.busy
    /\ disk' = [copying.maps EXCEPT !.restarts = restarts]
    /\ copying' = NoCopy
    /\ UNCHANGED <<resources, derived, tasksSynced, tracker, todo, view,
                   lives>>

\* A failed write removes the temporary file and leaves the last snapshot.
WriteFails ==
    /\ copying.busy
    /\ copying' = NoCopy
    /\ UNCHANGED <<resources, derived, tasksSynced, tracker, todo, view,
                   disk, lives>>

\* The process ends anywhere and starts again with LoadFromDisk, alone:
\* ReplaceAll of every type over an empty cache, then Restore.
Restart ==
    /\ lives < MaxRestarts
    /\ lives' = lives + 1
    /\ services' = disk.services
    /\ tasks' = disk.tasks
    /\ members' = disk.members
    /\ stacks' = rebuildStacks(disk.services, disk.members)
    /\ tasksByService' = ListedIndex(Services, ServiceAt, disk.tasks)
    /\ tasksByNode' = ListedIndex(Nodes, TaskNode, disk.tasks)
    /\ goneServices' = [s \in Services |-> Absent]
    /\ serviceRef' = rebuildRefs(disk.services)
    /\ \E names \in [Names -> Services \cup {NoService}] :
          NamesRebuilt(names, disk.services) /\ byName' = names
    /\ tasksSynced' = FALSE
    /\ restarts' = disk.restarts
    /\ observed' = {t \in observed : IsFailure(t, disk.tasks[t])}
    /\ todo' = [w \in Writers |-> Nothing]
    /\ view' = [services |-> disk.services, tasks |-> disk.tasks,
                members |-> disk.members, refs |-> serviceRef']
    /\ copying' = NoCopy
    /\ UNCHANGED disk

Init ==
    /\ services = [s \in Services |-> Absent]
    /\ tasks = [t \in Tasks |-> Absent]
    /\ members = [m \in Members |-> Absent]
    /\ stacks = [n \in Stacks |-> NoEntry]
    /\ tasksByService = [s \in Services |-> {}]
    /\ tasksByNode = [n \in Nodes |-> {}]
    /\ goneServices = [s \in Services |-> Absent]
    /\ serviceRef = [m \in Members |-> [s \in Services |-> "none"]]
    /\ byName = [n \in Names |-> NoService]
    /\ tasksSynced = FALSE
    /\ restarts = [t \in Tasks |-> 0]
    /\ observed = {}
    /\ todo = [w \in Writers |-> Nothing]
    /\ view = [services |-> services, tasks |-> tasks, members |-> members,
               refs |-> serviceRef]
    /\ copying = NoCopy
    /\ disk = NoSnapshot
    /\ lives = 0

\* The lists a sync can bring; one that failed is not read.
Lists(has) ==
    [services: IF "services" \in has THEN [Services -> Stored]
               ELSE {NoSnapshot.services},
     tasks:    IF "tasks" \in has THEN [Tasks -> Stored]
               ELSE {NoSnapshot.tasks},
     members:  {f \in [Members -> Stored] : \A m \in Members :
                   f[m] # Absent => TypeOf(m) \in has}]

Write(w) ==
    \/ \E s \in Services, v \in Versions : SetService(w, s, v)
    \/ \E s \in Services : DeleteService(w, s)
    \/ \E t \in Tasks, v \in Versions : SetTask(w, t, v)
    \/ \E t \in Tasks : DeleteTask(w, t)
    \/ \E m \in Members, v \in Versions : SetMember(w, m, v)
    \/ \E m \in Configs, v \in Versions : AddConfig(w, m, v)
    \/ \E m \in Members : DeleteMember(w, m)
    \/ \E has \in SUBSET Types :
          \E listed \in Lists(has) : ReplaceAll(w, has, listed)

Finish(w) ==
    \/ \E s \in Services : Forget(w, s)
    \/ \E t \in Tasks : Record(w, t)
    \/ \E e \in Notes : Notify(w, e)

Next ==
    \/ \E w \in Writers : Write(w) \/ Finish(w)
    \/ CopyMaps \/ Publish \/ WriteFails
    \/ Restart

Spec == Init /\ [][Next]_vars

-----------------------------------------------------------------------------
(***************************************************************************)
(* Properties.                                                             *)
(***************************************************************************)

\* Every map holds what its declaration in cache.go says.
TypeOK ==
    /\ services \in [Services -> Stored]
    /\ tasks \in [Tasks -> Stored]
    /\ members \in [Members -> Stored]
    /\ stacks \in [Stacks -> Entry \cup {NoEntry}]
    /\ tasksByService \in [Services -> SUBSET Tasks]
    /\ tasksByNode \in [Nodes -> SUBSET Tasks]
    /\ goneServices \in [Services -> Stored]
    /\ serviceRef \in [Members -> [Services -> RefKinds]]
    /\ byName \in [Names -> Services \cup {NoService}]
    /\ tasksSynced \in BOOLEAN
    /\ restarts \in [Tasks -> 0..MaxRecords]
    /\ observed \in SUBSET Tasks
    /\ todo \in [Writers -> Owed]
    /\ view \in [services: [Services -> Stored], tasks: [Tasks -> Stored],
                 members: [Members -> Stored],
                 refs: [Members -> [Services -> RefKinds]]]
    /\ copying \in [busy: BOOLEAN, maps: Contents]
    /\ disk \in Contents
    /\ lives \in 0..MaxRestarts

\* The stacks kept one event at a time are the stacks a rebuild would give,
\* whatever order services and members came, changed label and left in.
StacksDerived == stacks = rebuildStacks(services, members)

\* A task is listed under its service and its node, and only there, a sync
\* that keeps a newer task than it listed included.
IndexesDerived ==
    /\ tasksByService = [s \in Services |->
           {t \in Tasks : tasks[t] # Absent /\ TaskService[t] = s}]
    /\ tasksByNode = [n \in Nodes |->
           {t \in Tasks : tasks[t] # Absent /\ TaskNode[t][tasks[t]] = n}]

\* Who references a config, secret, network or volume is read off the cached
\* services, with a previous spec's reference marked as such.
RefsDerived == serviceRef = rebuildRefs(services)

\* A name resolves to a cached service of that name, or to none, though two
\* services of one name can be cached while one replaces the other.
NamesSound ==
    \A n \in Names : byName[n] # NoService =>
        services[byName[n]] # Absent /\ NameOf[byName[n]] = n

\* A removed service is kept for the tasks it still has, and no longer.
GoneHaveTasks ==
    \A s \in Services : goneServices[s] # Absent => tasksByService[s] # {}

\* Whatever a listener last read and the cache has changed since, an event
\* that makes it read again is still to come: no write changes a resource, or
\* who references it, without telling.
Coming(e) == \E w \in Writers : \/ e \in todo[w].note \cup todo[w].refs
                                \/ <<"sync">> \in todo[w].note
NoUntoldChange ==
    /\ \A s \in Services : view.services[s] # services[s] =>
           Coming(<<"service", s>>)
    /\ \A t \in Tasks : view.tasks[t] # tasks[t] => Coming(<<"task", t>>)
    /\ \A m \in Members : view.members[m] # members[m] =>
           Coming(<<"member", m>>)
    /\ \A m \in Members : view.refs[m] # serviceRef[m] =>
           Coming(<<"ref_changed", m>>)

\* A cached task in a failure state whose failure the process saw happen was
\* counted when it failed, or is about to be: ReplaceAll relies on it when it
\* skips a task that was failed before.
CountedWhenFailed ==
    \A t \in observed : IsFailure(t, tasks[t]) =>
        restarts[t] > 0 \/ \E w \in Writers : t \in todo[w].record

\* While a task is cached, the service it can be named by does not get lost:
\* removing the service, one event at a time or by a sync, keeps it.
ParentKnown(t) == LET s == TaskService[t] IN
    s # NoService => services[s] # Absent \/ goneServices[s] # Absent
ParentStaysKnown ==
    [][\A t \in Tasks :
          (lives' = lives /\ tasks[t] # Absent /\ tasks'[t] # Absent
           /\ ParentKnown(t)) => ParentKnown(t)']_vars

\* Within one process no cached Swarm object is replaced by an older one,
\* however inspects, lists and events of it overtake each other.
VersionsNeverRegress ==
    [][lives' = lives =>
         /\ \A s \in Services : services'[s] # Absent =>
                services'[s] >= services[s]
         /\ \A t \in Tasks : tasks'[t] # Absent => tasks'[t] >= tasks[t]
         /\ \A m \in Configs : members'[m] # Absent =>
                members'[m] >= members[m]]_vars

=============================================================================
