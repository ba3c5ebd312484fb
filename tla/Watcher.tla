------------------------------ MODULE Watcher ------------------------------
(***************************************************************************)
(* How internal/docker keeps the cache in step with the engine: one        *)
(* goroutine (Run) that syncs, then reads the event stream, debounces it   *)
(* into batches and applies them; beside it the settle re-reads of tasks,  *)
(* Refresh and Resync, which hand their work to the loop when one runs and *)
(* apply it themselves when none does.                                     *)
(*                                                                         *)
(* Every read of the engine is a step of its own, apart from the write     *)
(* that uses it, so the engine and the other goroutines move in between.   *)
(*                                                                         *)
(* The engine is external: objects (services, nodes, configs, secrets and  *)
(* networks) announce every change in a log; tasks change and vanish       *)
(* silently, and a container event may name one at any time.  An           *)
(* identifier is never used twice (volumes, whose names can be, are left   *)
(* out).  The store is a map with the version guard of the setters and     *)
(* keepNewer of ReplaceAll, as module Cache has them; a network has no     *)
(* version to guard with.                                                  *)
(***************************************************************************)
EXTENDS Integers, Sequences, FiniteSets

CONSTANTS
    Objects, Tasks,
    Networks,         \* the objects without a version
    Parents,          \* the services and the nodes
    Owners,           \* [Tasks -> SUBSET Parents]: those of a task
    Settled,          \* versions at which taskCaughtUp holds, by action
    WorkerCount,      \* workerCount
    Settlers,         \* settle goroutines
    Callers,          \* one Refresh each
    SettleAttempts,   \* settleAttempts
    Unread, Failed,   \* a list not read yet, a list that failed
    Everything,       \* TaskScope{}: every task
    None,
    MaxVersion,       \* bound: versions of an object
    MaxEvents,        \* bound: events the engine emits
    MaxFaults,        \* bound: failed calls and lost streams
    MaxReplay,        \* bound: events the replay margin brings again
    MaxResyncs        \* bound: manual resyncs

Keys     == Objects \cup Tasks
Absent   == 0
Stored   == 0..MaxVersion
Read     == Stored \cup {Unread}
Types    == {"objects", "tasks", "networks"}
Settling == {"settle", "started"}   \* a container ended, or began
KeysOf(type) == CASE type = "objects"  -> Objects \ Networks
                  [] type = "tasks"    -> Tasks
                  [] type = "networks" -> Networks

ASSUME WatcherAssumption ==
    /\ Objects \cap Tasks = {}
    /\ Networks \subseteq Objects /\ Parents \subseteq Objects \ Networks
    /\ Owners \in [Tasks -> SUBSET Parents]
    /\ Settled \in [Settling -> [Tasks -> SUBSET (1..MaxVersion)]]
    /\ WorkerCount \in Nat \ {0}
    /\ SettleAttempts \in Nat \ {0}
    /\ MaxVersion \in Nat \ {0}
    /\ {MaxEvents, MaxFaults, MaxReplay, MaxResyncs} \subseteq Nat
    /\ {Unread, Failed} \cap Stored = {} /\ Unread # Failed
    /\ Everything \notin Objects /\ None \notin Keys \cup {Everything}
    /\ None \notin Stored

VARIABLES
    real, ended, log,           \* the engine, what it removed, its events
    cached,                     \* the store
    pos,                        \* events the stream has delivered
    pc, then,                   \* Run's goroutine, and what a batch precedes
    loopRunning, watching, connected, ready,
    retrying,                   \* retryC is set
    pending,                    \* coalesced events
    todo, got,                  \* keys of the batch, what was inspected
    scopes, scope,              \* task lists a batch calls for, the one read
    settling,                   \* tasks whose container began or ended
    syncMu, listed,             \* who syncs, what each sync listed
    settle, settled,            \* settle goroutines, reads awaiting the loop
    refresh,                    \* Refresh calls
    resync, resyncs,            \* the manual resync in flight, how many began
    faults,
    dropped,                    \* ghost: removed from the store by the loop
    adrift,                     \* ghost: the code gave up until a sync
    raced                       \* ghost: overtaken reads applied off the loop

engine   == <<real, ended, log>>
stream   == <<pos, pending, retrying>>
health   == <<loopRunning, watching, connected, ready>>
work     == <<todo, got, scopes, scope, settling>>
sync     == <<syncMu, listed>>
off      == <<settle, settled, refresh, resync, resyncs>>
ghosts   == <<dropped, adrift, raced>>
vars     == <<engine, cached, stream, pc, then, health, work, sync, off,
              faults, ghosts>>

(***************************************************************************)
(* The store, as the watcher's Store interface promises it.                *)
(***************************************************************************)
\* The setters return early on an older version; gone is a Delete.
Stays(k, v) == IF k \in Networks \/ v = Absent \/ v >= cached[k] THEN v
               ELSE cached[k]

ApplyOne(k, v) == cached' = [cached EXCEPT ![k] = Stays(k, v)]

Lacks(lists) == {k \in Keys : lists[k] = Absent}
Has(lists) == {k \in Keys : lists[k] # Failed}

\* Mutant: what the list lacks is kept.
ReplaceAllAdds(lists) ==
    cached' = [k \in Keys |-> IF lists[k] \in {Failed, Absent} THEN cached[k]
                              ELSE Stays(k, lists[k])]

\* ReplaceAll: a type whose list failed is left as it was.
ReplaceAll(lists) ==
    cached' = [k \in Keys |-> IF lists[k] = Failed THEN cached[k]
                              ELSE Stays(k, lists[k])]

(***************************************************************************)
(* The engine.                                                             *)
(***************************************************************************)
Emit(k, action) == log' = Append(log, [key |-> k, action |-> action])

Rest == <<cached, stream, pc, then, health, work, sync, off, faults, ghosts>>

Changes(k) ==
    /\ k \notin ended
    /\ real[k] < MaxVersion
    /\ real' = [real EXCEPT ![k] = real[k] + 1]
    /\ UNCHANGED <<ended, Rest>>

Vanishes(k) ==
    /\ real[k] # Absent
    /\ real' = [real EXCEPT ![k] = Absent]
    /\ ended' = ended \cup {k}
    /\ UNCHANGED Rest

\* A container that begins or ends makes its task worth settling; any other
\* event of it is an update.
ContainerEvent(t) ==
    /\ Len(log) < MaxEvents
    /\ real[t] # Absent \/ t \in ended
    /\ \E action \in Settling \cup {"update"} : Emit(t, action)
    /\ UNCHANGED <<real, ended, Rest>>

Engine ==
    \/ \E o \in Objects : /\ Len(log) < MaxEvents
                          /\ \/ Changes(o) /\ Emit(o, "update")
                             \/ Vanishes(o) /\ Emit(o, "remove")
    \/ \E t \in Tasks : (Changes(t) \/ Vanishes(t)) /\ UNCHANGED log
    \/ \E t \in Tasks : ContainerEvent(t)

Fault == faults < MaxFaults /\ faults' = faults + 1

(***************************************************************************)
(* FullSync, by Run's goroutine ("run") or by a Resync beside it: the      *)
(* lists are read in parallel, each at an instant of its own, and applied  *)
(* together.  It fails when no list of the swarm's could be read; a worker *)
(* lists its networks too.                                                 *)
(***************************************************************************)
Nothing == [k \in Keys |-> Unread]

Syncing(p) == syncMu = p /\ IF p = "run" THEN pc = "sync"
                            ELSE resync = "listing"

ReadList(p, type) ==
    /\ Syncing(p)
    /\ \E k \in KeysOf(type) : listed[p][k] = Unread
    /\ \/ /\ listed' = [listed EXCEPT ![p] = [k \in Keys |->
                 IF k \in KeysOf(type) THEN real[k] ELSE listed[p][k]]]
          /\ UNCHANGED faults
       \/ /\ listed' = [listed EXCEPT ![p] = [k \in Keys |->
                 IF k \in KeysOf(type) THEN Failed ELSE listed[p][k]]]
          /\ Fault
    /\ UNCHANGED <<engine, cached, stream, pc, then, health, work, syncMu, off,
                   ghosts>>

AllRead(p) == \A k \in Keys : listed[p][k] # Unread
SyncFailed(p) == Has(listed[p]) \subseteq Networks

(***************************************************************************)
(* Run: where the stream will start is fixed before the sync lists         *)
(* anything; then the sync, startWatching and the loop.                    *)
(***************************************************************************)
\* Now, less a margin that brings some events again.
eventsSince == {p \in 0..Len(log) : Len(log) - p <= MaxReplay}

Subscribe ==
    /\ pc = "backoff"
    /\ pos' \in eventsSince
    /\ pc' = "lock" /\ then' = "reconnect"
    /\ UNCHANGED <<engine, cached, pending, retrying, health, work, sync, off,
                   faults, ghosts>>

LockSync ==
    /\ pc = "lock"
    /\ syncMu = "free"
    /\ syncMu' = "run" /\ listed' = [listed EXCEPT !["run"] = Nothing]
    /\ pc' = "sync"
    /\ UNCHANGED <<engine, cached, stream, then, health, work, off, faults,
                   ghosts>>

\* markTracking, unless the sync was asked for by hand.
SyncSucceeds ==
    LET lists == listed["run"]
    IN /\ pc = "sync" /\ AllRead("run") /\ ~SyncFailed("run")
       /\ ReplaceAll(lists)
       /\ syncMu' = "free" /\ listed' = [listed EXCEPT !["run"] = Nothing]
       /\ dropped' = dropped \cup (Lacks(lists) \cap ended)
       /\ raced' = raced \ Has(lists)
       /\ adrift' = (adrift \ Has(lists)) \cup
                    (IF then = "reconnect" THEN Keys \ Has(lists) ELSE {})
       /\ IF then = "manual"
          THEN /\ pc' = "select" /\ resync' = "idle"
               /\ UNCHANGED <<connected, ready, retrying>>
          ELSE /\ pc' = "starting" /\ connected' = TRUE /\ ready' = TRUE
               /\ retrying' = FALSE
               /\ UNCHANGED resync
       /\ UNCHANGED <<engine, pos, pending, then, loopRunning, watching, work,
                      settle, settled, refresh, resyncs, faults>>

\* Beside a live stream a failed sync is no disconnection.
SyncErrs ==
    /\ pc = "sync" /\ AllRead("run") /\ SyncFailed("run")
    /\ syncMu' = "free" /\ listed' = [listed EXCEPT !["run"] = Nothing]
    /\ IF then = "reconnect"
       THEN pc' = "open" /\ connected' = FALSE /\ retrying' = TRUE
            /\ adrift' = Keys
       ELSE pc' = "select" /\ UNCHANGED <<connected, retrying, adrift>>
    /\ resync' = IF then = "manual" THEN "idle" ELSE resync
    /\ UNCHANGED <<engine, cached, pos, pending, then, loopRunning, watching,
                   ready, work, settle, settled, refresh, resyncs, faults,
                   dropped, raced>>

\* A write beside the loop is under way and holds watchingMu.
BesideHeld == \/ \E c \in Callers : refresh[c].st = "beside"
              \/ \E g \in Settlers : settle[g].st = "beside"

\* Mutant: the stream starts where the sync ended.
startWatchingFromNow ==
    /\ pc = "starting"
    /\ watching \/ ~BesideHeld
    /\ watching' = TRUE
    /\ pc' = IF loopRunning THEN "select" ELSE "open"
    /\ pos' = IF loopRunning THEN pos ELSE Len(log)
    /\ UNCHANGED <<engine, cached, pending, retrying, then, loopRunning,
                   connected, ready, work, sync, off, faults, ghosts>>

startWatching ==
    /\ pc = "starting"
    /\ watching \/ ~BesideHeld
    /\ watching' = TRUE
    /\ pc' = IF loopRunning THEN "select" ELSE "open"
    /\ UNCHANGED <<engine, cached, stream, then, loopRunning, connected, ready,
                   work, sync, off, faults, ghosts>>

OpenLoop ==
    /\ pc = "open"
    /\ loopRunning' = TRUE
    /\ pc' = "select"
    /\ UNCHANGED <<engine, cached, stream, then, watching, connected, ready,
                   work, sync, off, faults, ghosts>>

(***************************************************************************)
(* The select of watchEvents.                                              *)
(***************************************************************************)
\* Mutant: the events of networks are taken for unrecognized.
ReceiveSwarmEvent ==
    /\ pc = "select"
    /\ pos < Len(log)
    /\ LET e == log[pos + 1]
       IN pending' = IF e.key \in Networks THEN pending
                     ELSE [pending EXCEPT ![e.key] = e.action]
    /\ pos' = pos + 1
    /\ UNCHANGED <<engine, cached, retrying, pc, then, health, work, sync, off,
                   faults, ghosts>>

ReceiveEvent ==
    /\ pc = "select"
    /\ pos < Len(log)
    /\ LET e == log[pos + 1] IN pending' = [pending EXCEPT ![e.key] = e.action]
    /\ pos' = pos + 1
    /\ UNCHANGED <<engine, cached, retrying, pc, then, health, work, sync, off,
                   faults, ghosts>>

Told(actions) == {k \in Keys : pending[k] \in actions}
Calm == Told({"none"}) = Keys

\* flushPending and the head of processBatch: removals are applied at once.
TakePending(after) ==
    LET removed == Told({"remove"})
    IN /\ pc = "select"
       /\ pending' = [k \in Keys |-> "none"]
       /\ cached' = [k \in Keys |-> IF k \in removed THEN Absent ELSE cached[k]]
       /\ dropped' = dropped \cup removed
       /\ adrift' = adrift \ removed
       /\ raced' = raced \ removed
       /\ todo' = Told(Settling \cup {"update"})
       /\ got' = Nothing
       /\ scopes' = Parents \cap Told({"update"})
       /\ settling' = {<<t, pending[t]>> : t \in Told(Settling)}
       /\ pc' = "batch" /\ then' = after
       /\ UNCHANGED <<engine, pos, retrying, loopRunning, connected, ready,
                      scope, sync, settle, settled, refresh, resyncs>>

DebounceFires ==
    /\ ~Calm
    /\ TakePending("select")
    /\ UNCHANGED <<watching, resync, faults>>

\* Mutant: the stretch of watching outlives its stream.
StreamErrorUnseen ==
    /\ Fault
    /\ TakePending("closed")
    /\ UNCHANGED <<watching, resync>>

StreamError ==
    /\ Fault
    /\ watching' = FALSE
    /\ TakePending("closed")
    /\ UNCHANGED resync

TakeResync ==
    /\ resync = "asked" /\ resync' = "taken"
    /\ TakePending("manual")
    /\ UNCHANGED <<watching, faults>>

SyncTick ==
    /\ TakePending("periodic")
    /\ UNCHANGED <<watching, resync, faults>>

\* A Refresh waiting for the loop goes first.
RetryTick ==
    /\ retrying
    /\ \A c \in Callers : refresh[c].st # "waiting"
    /\ TakePending("periodic")
    /\ UNCHANGED <<watching, resync, faults>>

PollTick ==
    /\ pc = "select"
    /\ syncMu = "free" /\ syncMu' = "run"
    /\ scopes' = {Everything}
    /\ pc' = "relist" /\ then' = "select"
    /\ UNCHANGED <<engine, cached, stream, health, todo, got, scope, settling,
                   listed, off, faults, ghosts>>

\* Mutant: a read of a task removed meanwhile is applied.
ReadAlways(t, v) == v # None
\* applySettledRead: a task removed meanwhile stays removed.
StillCached(t, v) == v # None /\ cached[t] # Absent

applySettled ==
    /\ pc = "select"
    /\ \E t \in Tasks : settled[t] # None
    /\ cached' = [k \in Keys |->
          IF k \in Tasks /\ StillCached(k, settled[k])
          THEN Stays(k, settled[k]) ELSE cached[k]]
    /\ dropped' = dropped \cup {t \in ended : t \in Tasks /\ settled[t] = Absent}
    /\ settled' = [t \in Tasks |-> None]
    /\ UNCHANGED <<engine, stream, pc, then, health, work, sync, settle,
                   refresh, resync, resyncs, faults, adrift, raced>>

\* refreshNow on the loop: one inspect, nothing applied when it fails.
TakeRefresh(c) ==
    /\ pc = "select"
    /\ refresh[c].st = "waiting"
    /\ refresh' = [refresh EXCEPT ![c].st = "done"]
    /\ todo' = {refresh[c].key} /\ got' = Nothing
    /\ pc' = "batch" /\ then' = "refresh"
    /\ UNCHANGED <<engine, cached, stream, health, scopes, scope, settling,
                   sync, settle, settled, resync, resyncs, faults, ghosts>>

(***************************************************************************)
(* processBatch: the workers' inspects, then the task lists the batch      *)
(* calls for, then the settles.                                            *)
(***************************************************************************)
Inspect(k) ==
    /\ pc = "batch"
    /\ k \in todo /\ got[k] = Unread
    /\ got' = [got EXCEPT ![k] = real[k]]
    /\ UNCHANGED <<engine, cached, stream, pc, then, health, todo, scopes,
                   scope, settling, sync, off, faults, ghosts>>

\* Any error but not-found leaves the cache as it was; a Refresh reports it.
InspectFails(k) ==
    /\ pc = "batch"
    /\ k \in todo /\ got[k] = Unread
    /\ Fault
    /\ todo' = todo \ {k}
    /\ adrift' = IF then = "refresh" THEN adrift ELSE adrift \cup {k}
    /\ UNCHANGED <<engine, cached, stream, pc, then, health, got, scopes,
                   scope, settling, sync, off, dropped, raced>>

inspectAndApply(k) ==
    /\ pc = "batch"
    /\ k \in todo /\ got[k] # Unread
    /\ ApplyOne(k, got[k])
    /\ todo' = todo \ {k}
    /\ got' = [got EXCEPT ![k] = Unread]
    /\ dropped' = IF got[k] = Absent THEN dropped \cup ({k} \cap ended)
                  ELSE dropped
    /\ adrift' = adrift \ {k}
    /\ raced' = raced \ {k}
    /\ UNCHANGED <<engine, stream, pc, then, health, scopes, scope, settling,
                   sync, off, faults>>

\* A sync that runs beside wins: its lists are not mixed with these.  More
\* than a handful of lists are one list of every task.
reconcileScopes ==
    /\ pc = "batch"
    /\ todo = {}
    /\ IF scopes = {} \/ syncMu # "free"
       THEN pc' = "settle" /\ scopes' = {} /\ UNCHANGED syncMu
       ELSE /\ pc' = "relist" /\ syncMu' = "run"
            /\ scopes' = IF Cardinality(scopes) > WorkerCount
                         THEN {Everything} ELSE scopes
    /\ UNCHANGED <<engine, cached, stream, then, health, todo, got, scope,
                   settling, listed, off, faults, ghosts>>

InScope(s) == {t \in Tasks : s = Everything \/ s \in Owners[t]}

ListTasksIn(s) ==
    /\ pc = "relist"
    /\ scope = None /\ s \in scopes
    /\ \/ /\ scope' = s
          /\ got' = [k \in Keys |-> IF k \in InScope(s) THEN real[k]
                                    ELSE Unread]
          /\ UNCHANGED <<scopes, faults>>
       \/ /\ scopes' = scopes \ {s}
          /\ Fault
          /\ UNCHANGED <<scope, got>>
    /\ UNCHANGED <<engine, cached, stream, pc, then, health, todo, settling,
                   sync, off, ghosts>>

\* What the list lacks is gone.
reconcileTasks ==
    /\ pc = "relist"
    /\ scope # None
    /\ cached' = [k \in Keys |-> IF k \in InScope(scope)
                                 THEN Stays(k, got[k]) ELSE cached[k]]
    /\ dropped' = dropped \cup {t \in InScope(scope) \cap ended :
                               got[t] = Absent}
    /\ scopes' = scopes \ {scope}
    /\ scope' = None
    /\ got' = Nothing
    /\ UNCHANGED <<engine, stream, pc, then, health, todo, settling, sync, off,
                   faults, adrift, raced>>

Relisted ==
    /\ pc = "relist" /\ scope = None /\ scopes = {}
    /\ syncMu' = "free"
    /\ pc' = "settle"
    /\ UNCHANGED <<engine, cached, stream, then, health, work, listed, off,
                   faults, ghosts>>

Asleep == [task |-> None, action |-> "settle", left |-> 0, got |-> Unread,
           st |-> "reading"]

\* Which versions a task rests at depends on what the container did.
taskCaughtUp(t, action, v) == v \in Settled[action][t]

\* A goroutine per call; here, one of the Settlers while one is free.
scheduleSettle(t, action) ==
    /\ pc = "settle"
    /\ <<t, action>> \in settling
    /\ settling' = settling \ {<<t, action>>}
    /\ IF cached[t] = Absent \/ taskCaughtUp(t, action, cached[t])
          \/ \A g \in Settlers : settle[g] # Asleep
       THEN UNCHANGED settle
       ELSE \E g \in Settlers :
               /\ settle[g] = Asleep
               /\ settle' = [settle EXCEPT ![g] =
                     [task |-> t, action |-> action, left |-> SettleAttempts,
                      got |-> Unread, st |-> "reading"]]
    /\ UNCHANGED <<engine, cached, stream, pc, then, health, todo, got, scopes,
                   scope, sync, settled, refresh, resync, resyncs, faults,
                   ghosts>>

\* What the batch preceded: the select, the loop's end, loopSync's TryLock,
\* or the Lock of a manual sync.
EndBatch ==
    /\ pc = "settle" /\ settling = {}
    /\ pc' = CASE then \in {"select", "refresh"} -> "select"
               [] then = "closed" -> "backoff"
               [] then = "manual" -> "lock"
               [] then = "periodic" -> IF syncMu = "free" THEN "sync"
                                       ELSE "select"
    /\ IF pc' = "sync"
       THEN syncMu' = "run" /\ listed' = [listed EXCEPT !["run"] = Nothing]
       ELSE UNCHANGED sync
    /\ IF then = "closed"
       THEN loopRunning' = FALSE /\ connected' = FALSE
       ELSE UNCHANGED <<loopRunning, connected>>
    /\ UNCHANGED <<engine, cached, stream, then, watching, ready, work, off,
                   faults, ghosts>>

(***************************************************************************)
(* Settle re-reads: inspected off the loop, applied on it, or beside it    *)
(* when there is none.                                                     *)
(***************************************************************************)
Again(g, done) ==
    IF done \/ settle[g].left = 1 THEN Asleep
    ELSE [settle[g] EXCEPT !.left = settle[g].left - 1, !.got = Unread,
                           !.st = "reading"]

SettleInspect(g) ==
    /\ settle[g].left > 0 /\ settle[g].got = Unread
    /\ \/ /\ settle' = [settle EXCEPT ![g].got = real[settle[g].task]]
          /\ UNCHANGED faults
       \/ /\ settle' = [settle EXCEPT ![g] = Again(g, FALSE)]
          /\ Fault
    /\ UNCHANGED <<engine, cached, stream, pc, then, health, work, sync,
                   settled, refresh, resync, resyncs, ghosts>>

queueSettled(t, v) ==
    settled' = IF \/ settled[t] = None \/ settled[t] = Absent
                  \/ v = Absent \/ v >= settled[t]
               THEN [settled EXCEPT ![t] = v] ELSE settled

\* The attempt after a read, unless the read found the task at rest or gone.
Settles(g) ==
    LET v == settle[g].got
    IN settle' = [settle EXCEPT ![g] =
          Again(g, v = Absent
                   \/ taskCaughtUp(settle[g].task, settle[g].action, v))]

settleRead(g) ==
    LET t == settle[g].task
        v == settle[g].got
    IN /\ v # Unread /\ settle[g].st = "reading"
       /\ IF loopRunning THEN queueSettled(t, v) ELSE UNCHANGED settled
       /\ IF ~loopRunning /\ StillCached(t, v)
          THEN settle' = [settle EXCEPT ![g].st = "beside"]
          ELSE Settles(g)
       /\ UNCHANGED <<engine, cached, stream, pc, then, health, work, sync,
                      refresh, resync, resyncs, faults, ghosts>>

\* Beside the loop: the task was found in the store, and is written.  A loop
\* that began in between may have removed it.
applySettledRead(g) ==
    LET t == settle[g].task
        v == settle[g].got
    IN /\ settle[g].st = "beside"
       /\ ApplyOne(t, v)
       /\ Settles(g)
       /\ raced' = IF cached[t] = Absent THEN raced \cup {t} ELSE raced
       /\ UNCHANGED <<engine, stream, pc, then, health, work, sync, settled,
                      refresh, resync, resyncs, faults, dropped, adrift>>

(***************************************************************************)
(* Refresh: one call per caller.  Beside the loop it holds watchingMu from *)
(* the check for a loop to the write.                                      *)
(***************************************************************************)
Refresh(c, k) ==
    /\ refresh[c].st = "idle"
    /\ refresh' = [refresh EXCEPT ![c] =
          [st |-> IF loopRunning THEN "waiting" ELSE "beside",
           key |-> k, got |-> Unread]]
    /\ UNCHANGED <<engine, cached, stream, pc, then, health, work, sync,
                   settle, settled, resync, resyncs, faults, ghosts>>

\* No loop took it within refreshHandoffTimeout.
RefreshGivesUp(c) ==
    /\ refresh[c].st = "waiting"
    /\ refresh' = [refresh EXCEPT ![c].st = "done"]
    /\ UNCHANGED <<engine, cached, stream, pc, then, health, work, sync,
                   settle, settled, resync, resyncs, faults, ghosts>>

BesideInspect(c) ==
    /\ refresh[c].st = "beside" /\ refresh[c].got = Unread
    /\ \/ /\ refresh' = [refresh EXCEPT ![c].got = real[refresh[c].key]]
          /\ UNCHANGED faults
       \/ /\ refresh' = [refresh EXCEPT ![c].st = "done"]
          /\ Fault
    /\ UNCHANGED <<engine, cached, stream, pc, then, health, work, sync,
                   settle, settled, resync, resyncs, ghosts>>

applyBesideLoop(c) ==
    LET k == refresh[c].key
        v == refresh[c].got
    IN /\ refresh[c].st = "beside" /\ v # Unread
       /\ ApplyOne(k, v)
       /\ refresh' = [refresh EXCEPT ![c].st = "done", ![c].got = Unread]
       /\ raced' = IF v # real[k] THEN raced \cup {k} ELSE raced
       /\ UNCHANGED <<engine, stream, pc, then, health, work, sync, settle,
                      settled, resync, resyncs, faults, dropped, adrift>>

(***************************************************************************)
(* Resync: calls in flight share one.                                      *)
(***************************************************************************)
Resync ==
    /\ resync = "idle" /\ resyncs < MaxResyncs
    /\ resyncs' = resyncs + 1
    /\ resync' = IF loopRunning THEN "asked" ELSE "beside"
    /\ UNCHANGED <<engine, cached, stream, pc, then, health, work, sync,
                   settle, settled, refresh, faults, ghosts>>

ResyncGivesUp ==
    /\ resync = "asked"
    /\ resync' = "idle"
    /\ UNCHANGED <<engine, cached, stream, pc, then, health, work, sync,
                   settle, settled, refresh, resyncs, faults, ghosts>>

BesideLock ==
    /\ resync = "beside"
    /\ syncMu = "free"
    /\ syncMu' = "resync" /\ listed' = [listed EXCEPT !["resync"] = Nothing]
    /\ resync' = "listing"
    /\ UNCHANGED <<engine, cached, stream, pc, then, health, work, settle,
                   settled, refresh, resyncs, faults, ghosts>>

ResyncBeside ==
    LET lists == listed["resync"]
    IN /\ resync = "listing" /\ AllRead("resync")
       /\ IF SyncFailed("resync") THEN UNCHANGED <<cached, raced>>
          ELSE /\ ReplaceAll(lists)
               /\ raced' = raced \cup {k \in Has(lists) : lists[k] # real[k]}
       /\ syncMu' = "free" /\ listed' = [listed EXCEPT !["resync"] = Nothing]
       /\ resync' = "idle"
       /\ UNCHANGED <<engine, stream, pc, then, health, work, settle, settled,
                      refresh, resyncs, faults, dropped, adrift>>

(***************************************************************************)
(* The specification.                                                      *)
(***************************************************************************)
\* The store is empty, or has what a snapshot kept; the engine may move on
\* before Run begins.
Init ==
    /\ cached \in [Keys -> {Absent, 1}]
    /\ real = cached /\ ended = {} /\ log = <<>>
    /\ pos = 0 /\ pending = [k \in Keys |-> "none"] /\ retrying = FALSE
    /\ pc = "backoff" /\ then = "reconnect"
    /\ loopRunning = FALSE /\ watching = FALSE
    /\ connected = FALSE /\ ready = FALSE
    /\ todo = {} /\ got = Nothing /\ scopes = {} /\ scope = None
    /\ settling = {}
    /\ syncMu = "free" /\ listed = [p \in {"run", "resync"} |-> Nothing]
    /\ settle = [g \in Settlers |-> Asleep]
    /\ settled = [t \in Tasks |-> None]
    /\ refresh = [c \in Callers |-> [st |-> "idle", key |-> None,
                                     got |-> Unread]]
    /\ resync = "idle" /\ resyncs = 0
    /\ faults = 0
    /\ dropped = {} /\ adrift = {} /\ raced = {}

Run ==
    \/ Subscribe \/ LockSync \/ SyncSucceeds \/ SyncErrs
    \/ \E type \in Types : ReadList("run", type)
    \/ startWatching \/ OpenLoop

Batch ==
    \/ \E k \in Keys : Inspect(k) \/ InspectFails(k) \/ inspectAndApply(k)
    \/ reconcileScopes
    \/ \E s \in Objects \cup {Everything} : ListTasksIn(s)
    \/ reconcileTasks \/ Relisted
    \/ \E t \in Tasks, action \in Settling : scheduleSettle(t, action)
    \/ EndBatch

Select ==
    \/ ReceiveEvent \/ DebounceFires \/ StreamError \/ TakeResync
    \/ SyncTick \/ RetryTick \/ PollTick \/ applySettled
    \/ \E c \in Callers : TakeRefresh(c)

Settle == \E g \in Settlers : SettleInspect(g) \/ settleRead(g)
                                \/ applySettledRead(g)

Beside ==
    \/ \E c \in Callers : BesideInspect(c) \/ applyBesideLoop(c)
    \/ BesideLock \/ ResyncBeside
    \/ \E type \in Types : ReadList("resync", type)

Ask ==
    \/ \E c \in Callers : RefreshGivesUp(c) \/ \E k \in Keys : Refresh(c, k)
    \/ Resync \/ ResyncGivesUp

Next == Engine \/ Run \/ Select \/ Batch \/ Settle \/ Beside \/ Ask

Spec == Init /\ [][Next]_vars

\* Every goroutine proceeds, and of the ready cases of a select Go takes each
\* with equal chance, so a tick, an event and a debounce are not put off for
\* ever.
FairSpec ==
    /\ Spec
    /\ WF_vars(Run) /\ WF_vars(Batch) /\ WF_vars(Settle) /\ WF_vars(Beside)
    /\ SF_vars(SyncTick)

-----------------------------------------------------------------------------
(***************************************************************************)
(* Properties.                                                             *)
(***************************************************************************)
Reads == Stored \cup {Unread}
Phases == {"backoff", "lock", "sync", "starting", "open", "select", "batch",
           "relist", "settle"}

\* Every variable holds what its declaration in watcher.go says.
TypeOK ==
    /\ real \in [Keys -> Stored] /\ ended \subseteq Keys
    /\ log \in Seq([key: Keys, action: Settling \cup {"update", "remove"}])
    /\ cached \in [Keys -> Stored]
    /\ pos \in 0..Len(log)
    /\ pending \in [Keys -> Settling \cup {"none", "update", "remove"}]
    /\ {retrying, loopRunning, watching, connected, ready} \subseteq BOOLEAN
    /\ pc \in Phases
    /\ then \in {"reconnect", "select", "refresh", "closed", "periodic",
                "manual"}
    /\ todo \subseteq Keys /\ got \in [Keys -> Reads]
    /\ scopes \subseteq Objects \cup {Everything}
    /\ scope \in Objects \cup {Everything, None}
    /\ settling \subseteq Tasks \X Settling
    /\ syncMu \in {"free", "run", "resync"}
    /\ listed \in [{"run", "resync"} -> [Keys -> Reads \cup {Failed}]]
    /\ settle \in [Settlers -> [task: Tasks \cup {None}, action: Settling,
                                left: 0..SettleAttempts, got: Reads,
                                st: {"reading", "beside"}]]
    /\ settled \in [Tasks -> Stored \cup {None}]
    /\ refresh \in [Callers -> [st: {"idle", "beside", "waiting", "done"},
                                key: Keys \cup {None}, got: Reads]]
    /\ resync \in {"idle", "beside", "listing", "asked", "taken"}
    /\ resyncs \in 0..MaxResyncs
    /\ faults \in 0..MaxFaults
    /\ dropped \subseteq Keys /\ adrift \subseteq Keys /\ raced \subseteq Keys

\* While Watching reports a live stream beside a synced cache, an object the
\* cache has wrong is one the loop is still to be told of, is about to read,
\* or gave up on until the next sync (its inspect or its list failed), or one
\* an overtaken read beside the loop was applied to: no change is lost between
\* the sync's lists, the stream's start, the debounce and the workers.
ToCome(o) ==
    \/ \E i \in (pos + 1)..Len(log) : log[i].key = o
    \/ pending[o] # "none"
    \/ o \in todo /\ got[o] \in {Unread, real[o]} /\ then # "refresh"
DriftCovered ==
    watching => \A o \in Objects \ (adrift \cup raced) :
                    cached[o] # real[o] => ToCome(o)

\* What the loop removed from the cache stays removed, unless a read beside
\* the loop was overtaken: neither a queued settle read, nor a sync, nor a
\* replayed event brings it back.
NoResurrection ==
    [][\A k \in dropped : cached'[k] = Absent \/ k \in raced']_vars

\* The timeline counts a stretch as watched only while the watcher reports
\* itself connected and ready.
WatchingIsTracked == watching => connected /\ ready

\* Once the engine comes to rest the cache agrees with it, whatever failed,
\* was lost, raced or went unannounced before.
Converges == <>[](cached = real)

\* The state the loop, the workers and the callers share is sound, and so is
\* what the watcher reports of it.
ReportSound == TypeOK /\ WatchingIsTracked
=============================================================================
