--------------------------- MODULE WatcherProofs ---------------------------
(***************************************************************************)
(* Proofs about Watcher, for any set of objects, tasks, settlers and       *)
(* callers and any number of faults: what the loop reports of each object  *)
(* is true, no difference between the cache and the engine goes unseen,    *)
(* and an object the cache dropped does not come back.                     *)
(*                                                                         *)
(* The invariant says of every value the watcher holds between a read of   *)
(* the engine and its write to the cache (an inspect of a batch, a list of *)
(* a sync, the read of a settler or of a refresh) either that it is still  *)
(* what the engine has, or that the event telling of the change is ahead   *)
(* in the stream and will be read after the write.                         *)
(***************************************************************************)
EXTENDS Watcher, TLAPS

(* An event about k is in the stream and the loop has not read it yet.     *)
Ahead(k) == \E i \in (pos + 1)..Len(log) : log[i].key = k
Event == [key : Keys, action : Settling \cup {"update", "remove"}]

(* What is read is held only by the phase that will write it, and a phase  *)
(* returns only to where its caller may continue.                          *)
Placed ==
  /\ pc # "batch" => todo = {}
  /\ \A k \in Keys : got[k] # Unread => \/ pc = "batch" /\ k \in todo
                                        \/ pc = "relist" /\ scope # None /\ k \in InScope(scope)
  /\ scope # None => pc = "relist" /\ \A t \in InScope(scope) : got[t] # Unread
  /\ pc # "sync" => \A k \in Keys : listed["run"][k] = Unread
  /\ pc \in {"batch", "relist", "settle"} => then # "reconnect"
  /\ pc = "starting" => connected /\ ready

(* A settler reads only while it has attempts left, for the task it was    *)
(* given, and writes beside the loop only what it read; a caller's read    *)
(* belongs to a refresh that runs beside the loop.                         *)
Attempts(s) ==
  /\ s.st = "beside" => s.got # Unread
  /\ s.got # Unread => s.left > 0
  /\ s.left > 0 => s.task \in Tasks
Helped ==
  /\ \A g \in Settlers : Attempts(settle[g])
  /\ \A c \in Callers : refresh[c].st \in {"beside", "waiting"} => refresh[c].key \in Keys
  /\ \A c \in Callers : refresh[c].got # Unread => refresh[c].st = "beside"

(* The sync of this connection is over: from here on every difference is   *)
(* an event's to mend. A loop that is watching has got this far.           *)
Begun == pc # "backoff" /\ ~ (pc \in {"lock", "sync"} /\ then = "reconnect")
Watched ==
  watching => /\ connected /\ ready /\ Begun
              /\ ~ (pc \in {"batch", "relist", "settle"} /\ then = "closed")

(* No held value is newer than the engine's, and what was removed, or is   *)
(* said to have been by an event, has ended for good.                      *)
Past(o, v) == v \in Stored => o \in ended \/ v <= real[o]
Sane ==
  /\ \A k \in ended : real[k] = Absent
  /\ \A i \in 1..Len(log) : log[i].action = "remove" => log[i].key \in ended
  /\ \A i \in 1..Len(log) : log[i].action \in Settling => log[i].key \in Tasks
  /\ \A k \in Keys : pending[k] = "remove" => k \in ended
  /\ \A k \in Keys : pending[k] \in Settling => k \in Tasks
  /\ dropped \subseteq ended

(* Every value cached or on its way to the cache is one the engine had.    *)
Caught ==
  \A o \in Objects :
       /\ Past(o, cached[o]) /\ Past(o, got[o])
       /\ \A p \in {"run", "resync"} : Past(o, listed[p][o])
       /\ \A c \in Callers : refresh[c].key = o => Past(o, refresh[c].got)

(* A value the loop has read and not yet written that is no longer the     *)
(* engine's has its event ahead.                                           *)
Fresh ==
  \A o \in Objects :
    /\ got[o] \in Stored /\ got[o] # real[o] => Ahead(o)
    /\ listed["run"][o] \in Stored /\ listed["run"][o] # real[o] => Ahead(o)

(* Every difference of an object the model does not count as drifted or    *)
(* raced is one that some pending work of the loop will mend.              *)
Tracked ==
  Begun => \A o \in Objects \ (adrift \cup raced) : cached[o] # real[o] => ToCome(o)

(* What the cache dropped is not about to be put back by the loop.         *)
Gone ==
  \A k \in dropped : /\ cached[k] = Absent \/ k \in raced
                     /\ got[k] \in {Unread, Absent}
                     /\ listed["run"][k] \in {Unread, Failed, Absent}

(* The types, in the groups that the actions change together.              *)
EngineTyped ==
  /\ real \in [Keys -> Stored] /\ ended \subseteq Keys
  /\ log \in Seq(Event) /\ pos \in 0..Len(log)
StoreTyped ==
  /\ cached \in [Keys -> Stored]
  /\ pending \in [Keys -> Settling \cup {"none", "update", "remove"}]
  /\ dropped \subseteq Keys /\ adrift \subseteq Keys /\ raced \subseteq Keys
RunTyped ==
  /\ {retrying, loopRunning, watching, connected, ready} \subseteq BOOLEAN
  /\ pc \in Phases
  /\ then \in {"reconnect", "select", "refresh", "closed", "periodic", "manual"}
  /\ syncMu \in {"free", "run", "resync"}
  /\ resync \in {"idle", "beside", "listing", "asked", "taken"}
  /\ resyncs \in 0..MaxResyncs /\ faults \in 0..MaxFaults
WorkTyped ==
  /\ todo \subseteq Keys /\ got \in [Keys -> Reads]
  /\ scopes \subseteq Objects \cup {Everything}
  /\ scope \in Objects \cup {Everything, None}
  /\ settling \subseteq Tasks \X Settling
  /\ listed \in [{"run", "resync"} -> [Keys -> Reads \cup {Failed}]]
Settler == [task : Tasks \cup {None}, action : Settling, left : 0..SettleAttempts,
            got : Reads, st : {"reading", "beside"}]
HelpersTyped ==
  /\ settle \in [Settlers -> Settler]
  /\ settled \in [Tasks -> Stored \cup {None}]
  /\ refresh \in [Callers -> [st: {"idle", "beside", "waiting", "done"},
                                key: Keys \cup {None}, got: Reads]]
Typed == EngineTyped /\ StoreTyped /\ RunTyped /\ WorkTyped /\ HelpersTyped

IInv == Typed /\ Placed /\ Helped /\ Watched /\ Sane /\ Caught /\ Fresh /\ Tracked /\ Gone

(* The newer of two versions is one of the two.                            *)
LEMMA StaysStored ==
    ASSUME NEW k, cached[k] \in Stored, NEW v \in Stored
    PROVE  Stays(k, v) \in Stored /\ Stays(k, v) \in {cached[k], v}
  BY DEF Stays

(* A value that is the engine's own wins over what is cached, and a write   *)
(* never stores a version the engine did not have.                         *)
LEMMA StaysTracked ==
    ASSUME IInv, NEW o \in Objects, NEW v \in Stored
    PROVE  /\ v = real[o] => Stays(o, v) = real[o]
           /\ Past(o, v) => Past(o, Stays(o, v))
  <1>1. /\ real[o] \in Stored /\ cached[o] \in Stored /\ MaxVersion \in Nat
        /\ o \in ended \/ cached[o] <= real[o]
        /\ o \in ended => real[o] = 0
    BY WatcherAssumption DEF IInv, Typed, EngineTyped, StoreTyped, Caught, Past, Sane, Keys, Absent
  <1>2. v = real[o] => Stays(o, v) = real[o]
    BY <1>1 DEF Stays, Stored, Absent
  <1>3. Past(o, v) => Past(o, Stays(o, v))
    BY <1>1 DEF Stays, Past
  <1>4. QED
    BY <1>2, <1>3

(* A settler that tries again holds no read and still knows its task.      *)
LEMMA AgainSound ==
    ASSUME IInv, NEW g \in Settlers, settle[g].left > 0, NEW done
    PROVE  /\ Again(g, done) \in Settler
           /\ Again(g, done).got = Unread /\ Again(g, done).st = "reading"
           /\ Again(g, done).left > 0 => Again(g, done).task \in Tasks
  <1>1. /\ settle[g] \in Settler
        /\ settle[g].task \in Tasks /\ SettleAttempts \in Nat /\ Unread \in Reads
    BY WatcherAssumption DEF IInv, Typed, HelpersTyped, Helped, Attempts, Reads
  <1>2. CASE Again(g, done) = Asleep
    BY <1>1, <1>2 DEF Asleep, Settler, Settling
  <1>3. CASE /\ settle[g].left # 1
             /\ Again(g, done) = [settle[g] EXCEPT !.left = settle[g].left - 1, !.got = Unread,
                                                   !.st = "reading"]
    <2> DEFINE n == settle[g].left - 1
    <2>1. n \in 0..SettleAttempts
      BY <1>1, <1>3 DEF Settler
    <2> HIDE DEF n
    <2>2. Again(g, done) = [task |-> settle[g].task, action |-> settle[g].action, left |-> n,
                            got |-> Unread, st |-> "reading"]
      BY <1>1, <1>3 DEF n, Settler
    <2>3. settle[g].action \in Settling
      BY <1>1 DEF Settler
    <2>4. QED
      BY <1>1, <2>1, <2>2, <2>3 DEF Settler
  <1>4. QED
    BY <1>2, <1>3 DEF Again

(* An event added to the stream is ahead of the loop, as what was is.      *)
LEMMA LogGrows ==
    ASSUME EngineTyped, NEW e \in Event, log' = Append(log, e), pos' = pos
    PROVE  /\ log' \in Seq(Event) /\ pos' \in 0..Len(log')
           /\ \A i \in 1..Len(log') : \/ i \in 1..Len(log) /\ log'[i] = log[i]
                                      \/ log'[i] = e
           /\ \A k : Ahead(k) => Ahead(k)'
           /\ Ahead(e.key)'
  <1>1. /\ log' \in Seq(Event) /\ Len(log') = Len(log) + 1 /\ Len(log) \in Nat
        /\ \A i \in 1..Len(log) : log'[i] = log[i]
        /\ log'[Len(log) + 1] = e /\ pos \in 0..Len(log)
    BY DEF EngineTyped
  <1>2. Len(log) + 1 \in (pos' + 1)..Len(log')
    BY <1>1
  <1>3. QED
    BY <1>1, <1>2 DEF Ahead

(* Before the first connection nothing is cached, held or pending.         *)
LEMMA InitSound == Init => IInv
  <1> SUFFICES ASSUME Init PROVE IInv
    OBVIOUS
  <1>1. Nothing \in [Keys -> Reads] /\ Nothing \in [Keys -> Reads \cup {Failed}]
    BY DEF Nothing, Reads
  <1>2. Absent \in Stored /\ 1 \in Stored /\ SettleAttempts \in Nat
    BY WatcherAssumption DEF Absent, Stored
  <1>3. EngineTyped /\ StoreTyped
    BY <1>2 DEF Init, EngineTyped, StoreTyped
  <1>4. RunTyped
    <2>1. 0 \in 0..MaxResyncs /\ 0 \in 0..MaxFaults
      BY WatcherAssumption
    <2>2. QED
      BY <2>1 DEF Init, RunTyped, Phases
  <1>5. WorkTyped
    BY <1>1 DEF Init, WorkTyped
  <1>6. HelpersTyped
    BY <1>2 DEF Init, HelpersTyped, Settler, Settling, Asleep, Reads
  <1>7. Placed /\ Helped /\ Watched /\ Sane /\ Caught /\ Fresh /\ Tracked /\ Gone
    BY <1>2, WatcherAssumption DEF Init, Placed, Helped, Attempts, Watched, Begun, Sane, Settling, Caught, Past,
       Fresh, Tracked, Gone, Nothing, Asleep, Stored, Absent, Keys
  <1>8. QED
    BY <1>3, <1>4, <1>5, <1>6, <1>7 DEF IInv, Typed

LEMMA ChangesKeeps ==
    ASSUME IInv, NEW o \in Objects, Changes(o), Emit(o, "update")
    PROVE  IInv'
  <1>a. /\ [key |-> o, action |-> "update"] \in Event /\ o \in Keys
        /\ log' = Append(log, [key |-> o, action |-> "update"]) /\ pos' = pos
    BY DEF Changes, Emit, Rest, stream, Event, Keys
  <1>b. /\ real' \in [Keys -> Stored] /\ ended' = ended
        /\ \A x \in Keys : real[x] <= real'[x] /\ (x # o => real'[x] = real[x])
    BY <1>a, WatcherAssumption DEF Changes, Rest, IInv, Typed, EngineTyped, Stored
  <1>c. /\ log' \in Seq(Event) /\ pos' \in 0..Len(log')
        /\ \A i \in 1..Len(log') : \/ i \in 1..Len(log) /\ log'[i] = log[i]
                                   \/ log'[i] = [key |-> o, action |-> "update"]
        /\ \A x : Ahead(x) => Ahead(x)'
        /\ Ahead(o)'
    BY <1>a, LogGrows DEF IInv, Typed
  <1>1. StoreTyped' /\ RunTyped' /\ WorkTyped' /\ HelpersTyped'
        /\ Placed' /\ Helped' /\ Watched' /\ Gone'
    <2>1. StoreTyped' /\ RunTyped' /\ WorkTyped' /\ HelpersTyped'
      BY DEF IInv, Typed, StoreTyped, RunTyped, WorkTyped, HelpersTyped, Changes,
          Rest, stream, health, work, sync, off, ghosts
    <2>2. Placed' /\ Helped' /\ Watched' /\ Gone'
      BY DEF IInv, Typed, Placed, Helped, Watched, Gone, Begun, Changes, Rest, stream,
          health, work, sync, off, ghosts
    <2>3. QED
      BY <2>1, <2>2
  <1>2. EngineTyped'
    BY <1>b, <1>c DEF IInv, Typed, EngineTyped
  <1>3. Sane'
    BY <1>c DEF IInv, Sane, Settling, Changes, Emit, Rest, stream, ghosts
  <1>4. Caught'
    <2>1. ASSUME NEW x \in Objects, NEW v, Past(x, v)
          PROVE  v \in Stored => x \in ended \/ v <= real'[x]
      BY <1>b, <2>1 DEF Past, Keys, Stored, IInv, Typed, EngineTyped
    <2>2. QED
      BY <1>b, <2>1 DEF IInv, Caught, Past, Changes, Rest, work, sync, off
  <1>5. Fresh'
    <2>1. ASSUME NEW x \in Objects, real'[x] # real[x] PROVE Ahead(x)'
      BY <1>b, <1>c, <2>1 DEF Keys
    <2>2. QED
      BY <1>c, <2>1 DEF IInv, Fresh, Changes, Rest, work, sync
  <1>6. Tracked'
    <2>1. \A x : ToCome(x) => ToCome(x)' \/ real'[x] # real[x]
      BY <1>c DEF ToCome, Ahead, Changes, Rest, stream, work
    <2>2. \A x \in Objects : real'[x] # real[x] => ToCome(x)'
      BY <1>b, <1>c DEF ToCome, Ahead, Keys
    <2>3. QED
      BY <2>1, <2>2 DEF IInv, Tracked, Begun, Changes, Rest, ghosts
  <1>7. QED
    BY <1>1, <1>2, <1>3, <1>4, <1>5, <1>6 DEF IInv, Typed

LEMMA VanishesKeeps ==
    ASSUME IInv, NEW o \in Objects, Vanishes(o), Emit(o, "remove")
    PROVE  IInv'
  <1>a. /\ [key |-> o, action |-> "remove"] \in Event /\ o \in Keys
        /\ log' = Append(log, [key |-> o, action |-> "remove"]) /\ pos' = pos
    BY DEF Vanishes, Emit, Rest, stream, Event, Keys
  <1>b. /\ real' \in [Keys -> Stored] /\ ended' = ended \cup {o}
        /\ \A x \in Keys : x # o => real'[x] = real[x]
    BY <1>a, WatcherAssumption DEF Vanishes, Rest, IInv, Typed, EngineTyped, Stored, Absent
  <1>c. /\ log' \in Seq(Event) /\ pos' \in 0..Len(log')
        /\ \A i \in 1..Len(log') : \/ i \in 1..Len(log) /\ log'[i] = log[i]
                                   \/ log'[i] = [key |-> o, action |-> "remove"]
        /\ \A x : Ahead(x) => Ahead(x)'
        /\ Ahead(o)'
    BY <1>a, LogGrows DEF IInv, Typed
  <1>1. StoreTyped' /\ RunTyped' /\ WorkTyped' /\ HelpersTyped'
        /\ Placed' /\ Helped' /\ Watched' /\ Gone'
    <2>1. StoreTyped' /\ RunTyped' /\ WorkTyped' /\ HelpersTyped'
      BY DEF IInv, Typed, StoreTyped, RunTyped, WorkTyped, HelpersTyped, Vanishes,
          Rest, stream, health, work, sync, off, ghosts
    <2>2. Placed' /\ Helped' /\ Watched' /\ Gone'
      BY DEF IInv, Typed, Placed, Helped, Watched, Gone, Begun, Vanishes, Rest,
          stream, health, work, sync, off, ghosts
    <2>3. QED
      BY <2>1, <2>2
  <1>2. EngineTyped'
    BY <1>a, <1>b, <1>c DEF IInv, Typed, EngineTyped
  <1>3. Sane'
    <2>1. \A k \in ended' : real'[k] = Absent
      BY <1>b DEF IInv, Typed, EngineTyped, Sane, Vanishes
    <2>2. \A i \in 1..Len(log') : log'[i].action = "remove" => log'[i].key \in ended'
      BY <1>b, <1>c DEF IInv, Sane
    <2>3. \A i \in 1..Len(log') : log'[i].action \in Settling => log'[i].key \in Tasks
      BY <1>c DEF IInv, Sane, Settling
    <2>4. QED
      BY <1>b, <2>1, <2>2, <2>3 DEF IInv, Sane, Vanishes, Rest, stream, ghosts
  <1>4. Caught'
    BY DEF IInv, Caught, Past, Vanishes, Rest, work, sync, off
  <1>5. Fresh'
    <2>1. ASSUME NEW x \in Objects, real'[x] # real[x] PROVE Ahead(x)'
      BY <1>b, <1>c, <2>1 DEF Keys
    <2>2. QED
      BY <1>c, <2>1 DEF IInv, Fresh, Vanishes, Rest, work, sync
  <1>6. Tracked'
    <2>1. \A x : ToCome(x) => ToCome(x)' \/ real'[x] # real[x]
      BY <1>c DEF ToCome, Ahead, Vanishes, Rest, stream, work
    <2>2. \A x \in Objects : real'[x] # real[x] => ToCome(x)'
      BY <1>b, <1>c DEF ToCome, Ahead, Keys
    <2>3. QED
      BY <2>1, <2>2 DEF IInv, Tracked, Begun, Vanishes, Rest, ghosts
  <1>7. QED
    BY <1>1, <1>2, <1>3, <1>4, <1>5, <1>6 DEF IInv, Typed

LEMMA TaskChangesKeeps ==
    ASSUME IInv, NEW t \in Tasks, Changes(t) \/ Vanishes(t), UNCHANGED log
    PROVE  IInv'
  <1>a. /\ UNCHANGED Rest /\ log' = log /\ t \in Keys
        /\ real' \in [Keys -> Stored] /\ ended \subseteq ended' /\ ended' \subseteq ended \cup {t}
        /\ \A x \in Objects : real'[x] = real[x]
    <2>1. real \in [Keys -> Stored] /\ t \in Keys /\ \A x \in Objects : x \in Keys /\ x # t
      BY WatcherAssumption DEF IInv, Typed, EngineTyped, Keys
    <2>2. CASE Changes(t)
      BY <2>1, <2>2, WatcherAssumption DEF Changes, Stored
    <2>3. CASE Vanishes(t)
      BY <2>1, <2>3, WatcherAssumption DEF Vanishes, Stored, Absent
    <2>4. QED
      BY <2>2, <2>3
  <1>1. StoreTyped' /\ RunTyped' /\ WorkTyped' /\ HelpersTyped'
        /\ Placed' /\ Helped' /\ Watched' /\ Gone'
    <2>1. StoreTyped' /\ RunTyped' /\ WorkTyped' /\ HelpersTyped'
      BY <1>a DEF IInv, Typed, StoreTyped, RunTyped, WorkTyped, HelpersTyped, Rest,
          stream, health, work, sync, off, ghosts
    <2>2. Placed' /\ Helped' /\ Watched' /\ Gone'
      BY <1>a DEF IInv, Typed, Placed, Helped, Watched, Begun, Gone, Rest, stream,
          health, work, sync, off, ghosts
    <2>3. QED
      BY <2>1, <2>2
  <1>2. EngineTyped'
    BY <1>a DEF IInv, Typed, EngineTyped, Rest, stream
  <1>3. Sane'
    BY DEF IInv, Typed, EngineTyped, Sane, Keys, Changes, Vanishes, Rest, stream, ghosts
  <1>4. Caught'
    <2>1. ASSUME NEW x \in Objects, NEW v, Past(x, v)
          PROVE  v \in Stored => x \in ended' \/ v <= real'[x]
      BY <1>a, <2>1 DEF Past
    <2>2. QED
      BY <1>a, <2>1 DEF IInv, Caught, Past, Rest, work, sync, off
  <1>5. Fresh'
    BY <1>a DEF IInv, Fresh, Ahead, Rest, stream, work, sync
  <1>6. Tracked'
    BY <1>a DEF IInv, Tracked, ToCome, Begun, Rest, stream, work, ghosts
  <1>7. QED
    BY <1>1, <1>2, <1>3, <1>4, <1>5, <1>6 DEF IInv, Typed

LEMMA ContainerEventKeeps ==
    ASSUME IInv, NEW t \in Tasks, ContainerEvent(t)
    PROVE  IInv'
  <1>a. PICK action \in Settling \cup {"update"} : log' = Append(log, [key |-> t, action |-> action])
    BY DEF ContainerEvent, Emit
  <1>b. [key |-> t, action |-> action] \in Event /\ pos' = pos
    BY DEF ContainerEvent, Rest, stream, Event, Keys
  <1>c. /\ log' \in Seq(Event) /\ pos' \in 0..Len(log')
        /\ \A i \in 1..Len(log') : \/ i \in 1..Len(log) /\ log'[i] = log[i]
                                   \/ log'[i] = [key |-> t, action |-> action]
        /\ \A x : Ahead(x) => Ahead(x)'
    BY <1>a, <1>b, LogGrows DEF IInv, Typed
  <1>1. StoreTyped' /\ RunTyped' /\ WorkTyped' /\ HelpersTyped'
        /\ Placed' /\ Helped' /\ Watched' /\ Caught' /\ Gone'
    <2>1. StoreTyped' /\ RunTyped' /\ WorkTyped' /\ HelpersTyped'
      BY DEF IInv, Typed, StoreTyped, RunTyped, WorkTyped, HelpersTyped,
          ContainerEvent, Rest, engine, stream, health, work, sync, off, ghosts
    <2>2. Placed' /\ Helped' /\ Watched' /\ Caught' /\ Gone'
      BY DEF IInv, Typed, Placed, Helped, Watched, Caught, Gone, Begun, Past,
          ContainerEvent, Rest, engine, stream, health, work, sync, off, ghosts
    <2>3. QED
      BY <2>1, <2>2
  <1>2. EngineTyped'
    BY <1>c DEF IInv, Typed, EngineTyped, ContainerEvent, Rest
  <1>3. Sane'
    BY <1>c DEF IInv, Sane, Settling, ContainerEvent, Rest, stream, ghosts
  <1>4. Fresh'
    BY <1>c DEF IInv, Fresh, ContainerEvent, Rest, work, sync
  <1>5. Tracked'
    <2>1. \A x : ToCome(x) => ToCome(x)'
      BY <1>c DEF ToCome, Ahead, ContainerEvent, Rest, stream, work
    <2>2. QED
      BY <2>1 DEF IInv, Tracked, Begun, ContainerEvent, Rest, ghosts
  <1>6. QED
    BY <1>1, <1>2, <1>3, <1>4, <1>5 DEF IInv, Typed

LEMMA SubscribeKeeps ==
    ASSUME IInv, Subscribe
    PROVE  IInv'
  <1>1. StoreTyped' /\ WorkTyped' /\ HelpersTyped' /\ Helped' /\ Sane' /\ Caught' /\ Gone'
    <2>1. StoreTyped' /\ WorkTyped' /\ HelpersTyped'
      BY DEF IInv, Typed, StoreTyped, WorkTyped, HelpersTyped, Subscribe, engine,
          stream, work, sync, off, ghosts
    <2>2. Helped' /\ Sane' /\ Caught' /\ Gone'
      BY DEF IInv, Typed, Helped, Sane, Caught, Gone, Past, Subscribe, engine, stream,
          work, sync, off, ghosts
    <2>3. QED
      BY <2>1, <2>2
  <1>2. EngineTyped'
    BY DEF IInv, Typed, EngineTyped, Subscribe, eventsSince, engine
  <1>3. RunTyped'
    BY DEF IInv, Typed, RunTyped, Phases, Subscribe, health, sync, off
  <1>4. Placed'
    BY DEF IInv, Placed, Subscribe, work, sync
  <1>5. Watched'
    BY DEF IInv, Watched, Begun, Subscribe, health
  <1>6. Fresh'
    BY WatcherAssumption DEF IInv, Placed, Fresh, Keys, Subscribe, work, sync
  <1>7. Tracked'
    BY DEF IInv, Tracked, Begun, Subscribe
  <1>8. QED
    BY <1>1, <1>2, <1>3, <1>4, <1>5, <1>6, <1>7 DEF IInv, Typed

LEMMA LockSyncKeeps ==
    ASSUME IInv, LockSync
    PROVE  IInv'
  <1>1. EngineTyped' /\ StoreTyped' /\ HelpersTyped' /\ Helped' /\ Sane'
    BY DEF IInv, Typed, EngineTyped, StoreTyped, HelpersTyped, Helped, Sane, LockSync,
        engine, stream, off, ghosts
  <1>2. RunTyped'
    BY DEF IInv, Typed, RunTyped, Phases, LockSync, stream, health, off
  <1>3. WorkTyped'
    BY DEF IInv, Typed, WorkTyped, Reads, LockSync, Nothing, work
  <1>4. Placed'
    BY DEF IInv, Placed, LockSync, work
  <1>5. Watched'
    BY DEF IInv, Watched, Begun, LockSync, health
  <1>6. Caught'
    BY WatcherAssumption DEF IInv, Caught, Past, Keys, LockSync, Nothing, engine, work,
        off
  <1>7. Fresh'
    BY WatcherAssumption DEF IInv, Fresh, Ahead, Keys, LockSync, Nothing, engine,
        stream, work
  <1>8. Tracked'
    BY DEF IInv, Tracked, Begun, ToCome, LockSync, engine, stream, work, ghosts
  <1>9. Gone'
    BY DEF IInv, Typed, StoreTyped, Gone, LockSync, Nothing, work, ghosts
  <1>10. QED
    BY <1>1, <1>2, <1>3, <1>4, <1>5, <1>6, <1>7, <1>8, <1>9 DEF IInv, Typed

LEMMA SyncSucceedsKeeps ==
    ASSUME IInv, SyncSucceeds
    PROVE  IInv'
  <1> DEFINE lists == listed["run"]
  <1>a. \A k \in Keys : lists[k] = Failed \/ lists[k] \in Stored
    BY DEF SyncSucceeds, AllRead, IInv, Typed, WorkTyped, Reads
  <1>b. \A k \in Keys : /\ lists[k] = Failed => cached'[k] = cached[k]
                        /\ lists[k] # Failed => cached'[k] = Stays(k, lists[k])
    BY DEF SyncSucceeds, ReplaceAll
  <1>c. cached' \in [Keys -> Stored]
    <2>1. \A k \in Keys : lists[k] # Failed => Stays(k, lists[k]) \in Stored
      BY <1>a, StaysStored DEF IInv, Typed, StoreTyped
    <2>2. QED
      BY <2>1 DEF SyncSucceeds, ReplaceAll, IInv, Typed, StoreTyped
  <1>1. EngineTyped' /\ HelpersTyped' /\ Helped'
    BY DEF IInv, Typed, EngineTyped, HelpersTyped, Helped, SyncSucceeds, engine, stream,
        off
  <1>2. StoreTyped'
    <2>1. Has(lists) \subseteq Keys /\ Lacks(lists) \subseteq Keys
      BY DEF Has, Lacks
    <2>2. QED
      BY <1>c, <2>1 DEF SyncSucceeds, IInv, Typed, StoreTyped
  <1>3. RunTyped'
    BY DEF IInv, Typed, RunTyped, Phases, SyncSucceeds, off
  <1>4. WorkTyped'
    BY DEF IInv, Typed, WorkTyped, Reads, SyncSucceeds, Nothing, stream, health, work,
        off
  <1>5. Placed'
    BY DEF IInv, Typed, WorkTyped, Placed, SyncSucceeds, Nothing, stream, health, work,
        off
  <1>6. Watched'
    BY DEF IInv, Watched, Begun, SyncSucceeds
  <1>7. Sane'
    BY DEF IInv, Sane, SyncSucceeds, engine
  <1>8. Caught'
    BY WatcherAssumption DEF IInv, Caught, Past, Keys, SyncSucceeds, ReplaceAll, Stays,
        Nothing, engine, work
  <1>9. Fresh'
    BY WatcherAssumption DEF IInv, Fresh, Ahead, Keys, SyncSucceeds, Nothing, engine,
        work
  <1>10. Tracked'
    <2>1. ASSUME NEW o \in Objects, o \notin adrift' \cup raced', cached'[o] # real[o]
          PROVE  ToCome(o)
      <3>1. o \in Keys /\ pc = "sync"
        BY DEF Keys, SyncSucceeds
      <3>2. CASE lists[o] # Failed
        <4>1. lists[o] \in Stored /\ cached'[o] = Stays(o, lists[o])
          BY <1>a, <1>b, <3>1, <3>2
        <4>2. lists[o] # real[o]
          BY <4>1, <2>1, StaysTracked
        <4>3. QED
          BY <4>1, <4>2 DEF IInv, Fresh, Ahead, ToCome
      <3>3. CASE lists[o] = Failed
        <4>1. o \in Keys \ Has(lists) /\ cached'[o] = cached[o]
          BY <1>b, <3>1, <3>3 DEF Has
        <4>2. then # "reconnect" /\ o \notin adrift \cup raced
          BY <4>1, <2>1 DEF SyncSucceeds
        <4>3. QED
          BY <4>1, <4>2, <3>1, <2>1 DEF IInv, Tracked, Begun
      <3>4. QED
        BY <3>2, <3>3
    <2>2. \A o : ToCome(o) => ToCome(o)'
      BY DEF ToCome, SyncSucceeds, engine, work
    <2>3. QED
      BY <2>1, <2>2 DEF Tracked, SyncSucceeds, engine
  <1>11. Gone'
    BY WatcherAssumption DEF IInv, Typed, EngineTyped, Placed, Sane, Gone, SyncSucceeds,
        ReplaceAll, Stays, Lacks, Has, AllRead, Nothing, stream, health, work, off
  <1>12. QED
    BY <1>1, <1>2, <1>3, <1>4, <1>5, <1>6, <1>7, <1>8, <1>9, <1>10, <1>11 DEF IInv,
        Typed

LEMMA SyncErrsKeeps ==
    ASSUME IInv, SyncErrs
    PROVE  IInv'
  <1>1. EngineTyped' /\ HelpersTyped' /\ Helped' /\ Sane'
    BY DEF IInv, Typed, EngineTyped, HelpersTyped, Helped, Sane, SyncErrs, engine,
        stream, off, ghosts
  <1>2. StoreTyped'
    BY DEF IInv, Typed, StoreTyped, SyncErrs, off, ghosts
  <1>3. RunTyped'
    BY DEF IInv, Typed, RunTyped, Phases, SyncErrs, off, ghosts
  <1>4. WorkTyped'
    BY DEF IInv, Typed, WorkTyped, Reads, SyncErrs, Nothing, stream, health, work, off,
        ghosts
  <1>5. Placed'
    BY DEF IInv, Typed, WorkTyped, Placed, SyncErrs, Nothing, stream, health, work, off,
        ghosts
  <1>6. Watched'
    BY DEF IInv, Watched, Begun, SyncErrs
  <1>7. Caught'
    BY WatcherAssumption DEF IInv, Caught, Past, Keys, SyncErrs, Nothing, engine, work
  <1>8. Fresh'
    BY WatcherAssumption DEF IInv, Fresh, Ahead, Keys, SyncErrs, Nothing, engine, work
  <1>9. Tracked'
    BY DEF IInv, Tracked, Begun, ToCome, Keys, SyncErrs, engine, work
  <1>10. Gone'
    BY DEF IInv, Typed, StoreTyped, Gone, SyncErrs, Nothing, stream, health, work, off,
        ghosts
  <1>11. QED
    BY <1>1, <1>2, <1>3, <1>4, <1>5, <1>6, <1>7, <1>8, <1>9, <1>10 DEF IInv, Typed

LEMMA ReadListKeeps ==
    ASSUME IInv, NEW p \in {"run", "resync"}, NEW type \in Types, ReadList(p, type)
    PROVE  IInv'
  <1>a. KeysOf(type) \subseteq Keys
    BY WatcherAssumption DEF Types, KeysOf, Keys
  <1>b. PICK f \in [Keys -> Reads \cup {Failed}] :
           /\ listed' = [listed EXCEPT ![p] = f]
           /\ \A k \in Keys : f[k] \in {listed[p][k], real[k], Failed}
    <2> DEFINE read == [k \in Keys |-> IF k \in KeysOf(type) THEN real[k] ELSE listed[p][k]]
               lost == [k \in Keys |-> IF k \in KeysOf(type) THEN Failed ELSE listed[p][k]]
    <2>1. listed' = [listed EXCEPT ![p] = read] \/ listed' = [listed EXCEPT ![p] = lost]
      BY DEF ReadList
    <2>2. \A k \in Keys : /\ read[k] \in {listed[p][k], real[k], Failed}
                          /\ lost[k] \in {listed[p][k], real[k], Failed}
                          /\ listed[p][k] \in Reads \cup {Failed} /\ real[k] \in Reads
      BY DEF IInv, Typed, EngineTyped, WorkTyped, Reads
    <2>3. read \in [Keys -> Reads \cup {Failed}] /\ lost \in [Keys -> Reads \cup {Failed}]
      BY <2>2
    <2> HIDE DEF read, lost
    <2>4. QED
      BY <2>1, <2>2, <2>3
  <1>c. \A q \in {"run", "resync"} : \A k \in Keys :
           listed'[q][k] \in {listed[q][k], real[k], Failed}
    BY <1>b DEF IInv, Typed, WorkTyped
  <1>1. EngineTyped' /\ StoreTyped' /\ HelpersTyped'
        /\ Helped' /\ Watched' /\ Sane' /\ Tracked'
    <2>1. EngineTyped' /\ StoreTyped' /\ HelpersTyped'
      BY DEF IInv, Typed, EngineTyped, StoreTyped, HelpersTyped, ReadList, engine,
          stream, health, work, off, ghosts
    <2>2. Helped' /\ Watched' /\ Sane' /\ Tracked'
      BY DEF IInv, Typed, Helped, Watched, Sane, Tracked, Begun, ToCome, ReadList,
          engine, stream, health, work, off, ghosts
    <2>3. QED
      BY <2>1, <2>2
  <1>2. RunTyped'
    BY WatcherAssumption DEF IInv, Typed, RunTyped, ReadList, Fault, stream, health, off
  <1>3. WorkTyped'
    BY <1>b DEF IInv, Typed, WorkTyped, ReadList, work
  <1>4. Placed'
    BY DEF IInv, Typed, WorkTyped, Placed, InScope, Absent, Stored, Phases, ReadList,
        Syncing, Fault, Types, KeysOf, engine, stream, health, work, sync, off, ghosts
  <1>5. Caught'
    <2>1. \A o \in Objects : Past(o, real[o]) /\ Past(o, Failed)
      BY WatcherAssumption DEF Past, IInv, Typed, EngineTyped, Keys, Stored
    <2>2. QED
      BY <1>c, <2>1 DEF IInv, Caught, Past, ReadList, engine, work, off, Keys
  <1>6. Fresh'
    BY <1>c, WatcherAssumption DEF IInv, Fresh, Ahead, ReadList, engine, stream, work, Keys
  <1>7. Gone'
    BY <1>c, WatcherAssumption DEF IInv, Gone, Sane, Typed, StoreTyped, ReadList, ghosts, work
  <1>8. QED
    BY <1>1, <1>2, <1>3, <1>4, <1>5, <1>6, <1>7 DEF IInv, Typed

LEMMA startWatchingKeeps ==
    ASSUME IInv, startWatching
    PROVE  IInv'
  <1>1. EngineTyped' /\ StoreTyped' /\ WorkTyped' /\ HelpersTyped'
        /\ Helped' /\ Sane' /\ Caught' /\ Fresh' /\ Gone'
    <2>1. EngineTyped' /\ StoreTyped' /\ WorkTyped' /\ HelpersTyped'
      BY DEF IInv, Typed, EngineTyped, StoreTyped, WorkTyped, HelpersTyped,
          startWatching, engine, stream, work, sync, off, ghosts
    <2>2. Helped' /\ Sane' /\ Caught' /\ Fresh' /\ Gone'
      BY DEF IInv, Typed, Helped, Sane, Caught, Fresh, Gone, Past, Ahead,
          startWatching, engine, stream, work, sync, off, ghosts
    <2>3. QED
      BY <2>1, <2>2
  <1>2. RunTyped'
    BY DEF IInv, Typed, RunTyped, Phases, startWatching, stream, sync, off
  <1>3. Placed'
    BY DEF IInv, Placed, startWatching, work, sync
  <1>4. Watched'
    BY DEF IInv, Placed, Watched, Begun, startWatching
  <1>5. Tracked'
    BY DEF IInv, Tracked, Begun, ToCome, startWatching, engine, stream, work, ghosts
  <1>6. QED
    BY <1>1, <1>2, <1>3, <1>4, <1>5 DEF IInv, Typed

LEMMA OpenLoopKeeps ==
    ASSUME IInv, OpenLoop
    PROVE  IInv'
  <1>1. EngineTyped' /\ StoreTyped' /\ WorkTyped' /\ HelpersTyped'
        /\ Helped' /\ Sane' /\ Caught' /\ Fresh' /\ Gone'
    <2>1. EngineTyped' /\ StoreTyped' /\ WorkTyped' /\ HelpersTyped'
      BY DEF IInv, Typed, EngineTyped, StoreTyped, WorkTyped, HelpersTyped, OpenLoop,
          engine, stream, work, sync, off, ghosts
    <2>2. Helped' /\ Sane' /\ Caught' /\ Fresh' /\ Gone'
      BY DEF IInv, Typed, Helped, Sane, Caught, Fresh, Gone, Past, Ahead, OpenLoop,
          engine, stream, work, sync, off, ghosts
    <2>3. QED
      BY <2>1, <2>2
  <1>2. RunTyped'
    BY DEF IInv, Typed, RunTyped, Phases, OpenLoop, stream, sync, off
  <1>3. Placed'
    BY DEF IInv, Placed, OpenLoop, work, sync
  <1>4. Watched'
    BY DEF IInv, Watched, Begun, OpenLoop
  <1>5. Tracked'
    BY DEF IInv, Tracked, Begun, ToCome, OpenLoop, engine, stream, work, ghosts
  <1>6. QED
    BY <1>1, <1>2, <1>3, <1>4, <1>5 DEF IInv, Typed

LEMMA ReceiveEventKeeps ==
    ASSUME IInv, ReceiveEvent
    PROVE  IInv'
  <1> DEFINE e == log[pos + 1]
  <1>a. /\ e \in Event /\ pos' = pos + 1 /\ pos \in Nat /\ Len(log) \in Nat
        /\ pending' = [pending EXCEPT ![e.key] = e.action]
    BY DEF ReceiveEvent, IInv, Typed, EngineTyped
  <1>1. RunTyped' /\ WorkTyped' /\ HelpersTyped' /\ Placed'
        /\ Helped' /\ Watched' /\ Caught' /\ Gone'
    <2>1. RunTyped' /\ WorkTyped' /\ HelpersTyped'
      BY DEF IInv, Typed, RunTyped, WorkTyped, HelpersTyped, ReceiveEvent, engine,
          stream, health, work, sync, off, ghosts
    <2>2. Placed' /\ Helped' /\ Watched' /\ Caught' /\ Gone'
      BY DEF IInv, Typed, Placed, Helped, Watched, Caught, Gone, Begun, Past,
          ReceiveEvent, engine, stream, health, work, sync, off, ghosts
    <2>3. QED
      BY <2>1, <2>2
  <1>2. EngineTyped'
    BY DEF IInv, Typed, EngineTyped, ReceiveEvent, engine
  <1>3. StoreTyped'
    BY <1>a DEF ReceiveEvent, IInv, Typed, StoreTyped, ghosts, Event
  <1>4. Sane'
    BY DEF IInv, Typed, EngineTyped, WorkTyped, Sane, ReceiveEvent, engine, ghosts
  <1>5. Fresh'
    BY WatcherAssumption DEF IInv, Placed, Fresh, Keys, ReceiveEvent, work, sync
  <1>6. Tracked'
    <2>1. \A o \in Keys : pending[o] # "none" => pending'[o] # "none"
      BY <1>a DEF IInv, Typed, StoreTyped, Event, Settling
    <2>2. ASSUME NEW o \in Keys, NEW i \in (pos + 1)..Len(log), log[i].key = o
          PROVE  pending'[o] # "none" \/ i \in (pos' + 1)..Len(log)
      <3>1. CASE i = pos + 1
        BY <1>a, <2>2, <3>1 DEF IInv, Typed, StoreTyped, Event, Settling
      <3>2. CASE i # pos + 1
        BY <1>a, <3>2
      <3>3. QED
        BY <3>1, <3>2
    <2>3. \A o \in Objects : ToCome(o) => ToCome(o)'
      BY <2>1, <2>2 DEF ToCome, ReceiveEvent, engine, work, Keys
    <2>4. QED
      BY <2>3 DEF IInv, Tracked, Begun, ReceiveEvent, engine, ghosts
  <1>7. QED
    BY <1>1, <1>2, <1>3, <1>4, <1>5, <1>6 DEF IInv, Typed

LEMMA TakePendingKeeps ==
    ASSUME IInv, NEW after \in {"select", "closed", "manual", "periodic"}, TakePending(after),
           watching' = (watching /\ after # "closed"), resync' \in {resync, "taken"},
           faults' \in 0..MaxFaults
    PROVE  IInv'
  <1>a. Told({"remove"}) \subseteq Keys /\ Told(Settling \cup {"update"}) \subseteq Keys
    BY DEF Told
  <1>b. Absent \in Stored /\ Nothing \in [Keys -> Reads]
    BY WatcherAssumption DEF Absent, Stored, Nothing, Reads
  <1>1. EngineTyped' /\ HelpersTyped' /\ Helped'
    BY DEF IInv, Typed, EngineTyped, HelpersTyped, Helped, TakePending, engine, stream,
        off
  <1>2. StoreTyped'
    BY <1>a, <1>b DEF TakePending, IInv, Typed, StoreTyped
  <1>3. RunTyped'
    BY DEF IInv, Typed, RunTyped, Phases, TakePending, stream, health, work, sync, off
  <1>4. WorkTyped'
    <2>1. Parents \cap Told({"update"}) \subseteq Objects
      BY WatcherAssumption
    <2>2. {<<t, pending[t]>> : t \in Told(Settling)} \subseteq Tasks \X Settling
      BY DEF Told, IInv, Sane
    <2>3. QED
      BY <1>a, <1>b, <2>1, <2>2 DEF TakePending, IInv, Typed, WorkTyped, sync
  <1>5. Placed'
    BY DEF IInv, Placed, TakePending, Nothing, sync
  <1>6. Watched'
    BY DEF IInv, Watched, Begun, TakePending
  <1>7. Sane'
    BY DEF IInv, Sane, Settling, TakePending, Told, engine
  <1>8. Caught'
    BY DEF IInv, Typed, EngineTyped, Placed, Caught, Past, Keys, Stored, Absent,
        TakePending, Nothing, engine, stream, health, work, sync, off
  <1>9. Fresh'
    BY WatcherAssumption DEF IInv, Fresh, Ahead, Keys, TakePending, Nothing, engine,
        sync
  <1>10. Tracked'
    BY DEF IInv, Typed, StoreTyped, Placed, Sane, Tracked, Begun, ToCome, Keys,
        TakePending, Told, Nothing, engine, off
  <1>11. Gone'
    BY DEF IInv, Typed, StoreTyped, Placed, Gone, TakePending, Told, Nothing, stream,
        health, work, sync, off
  <1>12. QED
    BY <1>1, <1>2, <1>3, <1>4, <1>5, <1>6, <1>7, <1>8, <1>9, <1>10, <1>11 DEF IInv,
        Typed

LEMMA PollTickKeeps ==
    ASSUME IInv, PollTick
    PROVE  IInv'
  <1>1. EngineTyped' /\ StoreTyped' /\ HelpersTyped' /\ Helped'
        /\ Sane' /\ Caught' /\ Fresh' /\ Gone'
    <2>1. EngineTyped' /\ StoreTyped' /\ HelpersTyped'
      BY DEF IInv, Typed, EngineTyped, StoreTyped, HelpersTyped, PollTick, engine,
          stream, work, sync, off, ghosts
    <2>2. Helped' /\ Sane' /\ Caught' /\ Fresh' /\ Gone'
      BY DEF IInv, Typed, Helped, Sane, Caught, Fresh, Gone, Past, Ahead, PollTick,
          engine, stream, work, sync, off, ghosts
    <2>3. QED
      BY <2>1, <2>2
  <1>2. RunTyped'
    BY DEF IInv, Typed, RunTyped, Phases, PollTick, stream, health, off
  <1>3. WorkTyped'
    BY DEF IInv, Typed, WorkTyped, PollTick
  <1>4. Placed'
    BY DEF IInv, Placed, PollTick
  <1>5. Watched'
    BY DEF IInv, Watched, Begun, PollTick, health
  <1>6. Tracked'
    BY DEF IInv, Tracked, Begun, ToCome, PollTick, engine, stream, ghosts
  <1>7. QED
    BY <1>1, <1>2, <1>3, <1>4, <1>5, <1>6 DEF IInv, Typed

LEMMA applySettledKeeps ==
    ASSUME IInv, applySettled
    PROVE  IInv'
  <1>a. \A t \in Tasks : settled[t] # None => settled[t] \in Stored
    BY DEF IInv, Typed, HelpersTyped
  <1>b. \A k \in Keys :
           IF k \in Tasks /\ StillCached(k, settled[k])
           THEN settled[k] # None /\ cached[k] # Absent /\ cached'[k] = Stays(k, settled[k])
           ELSE cached'[k] = cached[k]
    BY DEF applySettled, StillCached
  <1>1. EngineTyped' /\ RunTyped' /\ WorkTyped'
        /\ Placed' /\ Helped' /\ Watched' /\ Fresh'
    <2>1. EngineTyped' /\ RunTyped' /\ WorkTyped'
      BY DEF IInv, Typed, EngineTyped, RunTyped, WorkTyped, applySettled, engine,
          stream, health, work, sync, off
    <2>2. Placed' /\ Helped' /\ Watched' /\ Fresh'
      BY DEF IInv, Typed, Placed, Helped, Watched, Fresh, Begun, Ahead, applySettled,
          engine, stream, health, work, sync, off
    <2>3. QED
      BY <2>1, <2>2
  <1>2. StoreTyped'
    <2>1. \A k \in Keys : k \in Tasks /\ StillCached(k, settled[k])
                         => Stays(k, settled[k]) \in Stored
      BY <1>a, StaysStored DEF StillCached, IInv, Typed, StoreTyped
    <2>2. cached' \in [Keys -> Stored]
      BY <2>1 DEF applySettled, IInv, Typed, StoreTyped
    <2>3. QED
      BY <2>2 DEF applySettled, IInv, Typed, EngineTyped, StoreTyped, stream
  <1>3. HelpersTyped'
    BY DEF IInv, Typed, HelpersTyped, applySettled, off, ghosts
  <1>4. Sane'
    BY DEF IInv, Sane, applySettled, engine, stream
  <1>5. Caught'
    BY WatcherAssumption DEF IInv, Caught, Past, Keys, applySettled, engine, work, sync
  <1>6. Tracked'
    BY WatcherAssumption DEF IInv, Tracked, Begun, ToCome, Keys, applySettled, engine,
        stream, work
  <1>7. Gone'
    <2>1. \A k \in Keys : got[k] = Unread /\ listed["run"][k] = Unread
      BY DEF applySettled, IInv, Placed
    <2>2. ASSUME NEW k \in dropped PROVE cached'[k] = Absent \/ k \in raced
      BY <1>b, <2>2 DEF IInv, Gone, Typed, StoreTyped
    <2>3. ASSUME NEW k \in ended, k \in Tasks, settled[k] = Absent PROVE cached'[k] = Absent
      <3>1. settled[k] # None /\ k \in Keys
        BY <2>3, WatcherAssumption DEF Absent, Stored, Keys
      <3>2. CASE cached[k] = Absent
        BY <1>b, <3>1, <3>2 DEF StillCached
      <3>3. CASE cached[k] # Absent
        <4>1. cached'[k] = Stays(k, settled[k])
          BY <1>b, <2>3, <3>1, <3>3 DEF StillCached
        <4>2. QED
          BY <2>3, <4>1 DEF Stays
      <3>4. QED
        BY <3>2, <3>3
    <2>4. \A k \in dropped' : cached'[k] = Absent \/ k \in raced
      BY <2>2, <2>3 DEF applySettled
    <2>5. dropped' \subseteq Keys
      BY DEF applySettled, IInv, Typed, EngineTyped, StoreTyped
    <2>6. QED
      BY <2>1, <2>4, <2>5 DEF applySettled, Gone, work, sync
  <1>8. QED
    BY <1>1, <1>2, <1>3, <1>4, <1>5, <1>6, <1>7 DEF IInv, Typed

LEMMA TakeRefreshKeeps ==
    ASSUME IInv, NEW c \in Callers, TakeRefresh(c)
    PROVE  IInv'
  <1>1. EngineTyped' /\ StoreTyped' /\ Sane'
    BY DEF IInv, Typed, EngineTyped, StoreTyped, Sane, TakeRefresh, engine, stream,
        ghosts
  <1>2. RunTyped'
    BY DEF IInv, Typed, RunTyped, Phases, TakeRefresh, stream, health, sync
  <1>3. WorkTyped'
    <2>1. Nothing \in [Keys -> Reads] /\ refresh[c].key \in Keys
      BY DEF Nothing, Reads, TakeRefresh, IInv, Helped
    <2>2. QED
      BY <2>1 DEF TakeRefresh, IInv, Typed, WorkTyped, sync
  <1>4. HelpersTyped'
    BY DEF IInv, Typed, HelpersTyped, TakeRefresh, Nothing, health, off, ghosts
  <1>5. Placed'
    BY DEF IInv, Placed, TakeRefresh, Nothing, sync
  <1>6. Helped'
    BY DEF IInv, Helped, TakeRefresh
  <1>7. Watched'
    BY DEF IInv, Watched, Begun, TakeRefresh, health
  <1>8. Caught'
    BY WatcherAssumption DEF IInv, Caught, Past, Keys, TakeRefresh, Nothing, engine,
        sync
  <1>9. Fresh'
    BY WatcherAssumption DEF IInv, Fresh, Ahead, Keys, TakeRefresh, Nothing, engine,
        stream, sync
  <1>10. Tracked'
    BY DEF IInv, Placed, Tracked, Begun, ToCome, TakeRefresh, engine, stream, off,
        ghosts
  <1>11. Gone'
    BY DEF IInv, Typed, StoreTyped, Gone, TakeRefresh, Nothing, work, sync, off, ghosts
  <1>12. QED
    BY <1>1, <1>2, <1>3, <1>4, <1>5, <1>6, <1>7, <1>8, <1>9, <1>10, <1>11 DEF IInv,
        Typed

LEMMA InspectKeeps ==
    ASSUME IInv, NEW k \in Keys, Inspect(k)
    PROVE  IInv'
  <1>1. EngineTyped' /\ StoreTyped' /\ RunTyped'
        /\ HelpersTyped' /\ Helped' /\ Watched' /\ Sane'
    <2>1. EngineTyped' /\ StoreTyped' /\ RunTyped' /\ HelpersTyped'
      BY DEF IInv, Typed, EngineTyped, StoreTyped, RunTyped, HelpersTyped, Inspect,
          engine, stream, health, sync, off, ghosts
    <2>2. Helped' /\ Watched' /\ Sane'
      BY DEF IInv, Typed, Helped, Watched, Sane, Begun, Inspect, engine, stream,
          health, sync, off, ghosts
    <2>3. QED
      BY <2>1, <2>2
  <1>2. WorkTyped'
    BY DEF Inspect, IInv, Typed, EngineTyped, WorkTyped, Reads, sync
  <1>3. Placed'
    BY DEF IInv, Placed, Inspect, sync
  <1>4. Caught'
    BY DEF IInv, Caught, Past, Stored, Inspect, engine, sync, off
  <1>5. Fresh'
    BY DEF IInv, Fresh, Ahead, Inspect, engine, stream, sync
  <1>6. Tracked'
    BY DEF IInv, Tracked, Begun, ToCome, Inspect, engine, stream, ghosts
  <1>7. Gone'
    BY DEF IInv, Sane, Gone, Inspect, engine, health, sync, ghosts
  <1>8. QED
    BY <1>1, <1>2, <1>3, <1>4, <1>5, <1>6, <1>7 DEF IInv, Typed

LEMMA InspectFailsKeeps ==
    ASSUME IInv, NEW k \in Keys, InspectFails(k)
    PROVE  IInv'
  <1>1. EngineTyped' /\ HelpersTyped' /\ Helped' /\ Watched'
        /\ Sane' /\ Caught' /\ Fresh' /\ Gone'
    <2>1. EngineTyped' /\ HelpersTyped'
      BY DEF IInv, Typed, EngineTyped, HelpersTyped, InspectFails, engine, stream,
          health, work, sync, off, ghosts
    <2>2. Helped' /\ Watched' /\ Sane' /\ Caught' /\ Fresh' /\ Gone'
      BY DEF IInv, Typed, Helped, Watched, Sane, Caught, Fresh, Gone, Begun, Past,
          Ahead, InspectFails, engine, stream, health, work, sync, off, ghosts
    <2>3. QED
      BY <2>1, <2>2
  <1>2. StoreTyped'
    BY DEF IInv, Typed, StoreTyped, InspectFails, stream, ghosts
  <1>3. RunTyped'
    BY WatcherAssumption DEF IInv, Typed, RunTyped, InspectFails, Fault, stream, health,
        work, sync, off, ghosts
  <1>4. WorkTyped'
    BY DEF IInv, Typed, WorkTyped, InspectFails, sync, ghosts
  <1>5. Placed'
    BY DEF IInv, Placed, InspectFails, sync
  <1>6. Tracked'
    BY DEF IInv, Tracked, Begun, ToCome, InspectFails, engine, stream
  <1>7. QED
    BY <1>1, <1>2, <1>3, <1>4, <1>5, <1>6 DEF IInv, Typed

LEMMA inspectAndApplyKeeps ==
    ASSUME IInv, NEW k \in Keys, inspectAndApply(k)
    PROVE  IInv'
  <1>a. /\ got[k] \in Stored /\ cached' = [cached EXCEPT ![k] = Stays(k, got[k])]
        /\ Stays(k, got[k]) \in Stored
    BY StaysStored DEF inspectAndApply, ApplyOne, IInv, Typed, StoreTyped, WorkTyped, Reads
  <1>1. EngineTyped' /\ RunTyped' /\ HelpersTyped' /\ Helped' /\ Watched'
    BY DEF IInv, Typed, EngineTyped, RunTyped, HelpersTyped, Helped, Watched, Begun,
        inspectAndApply, engine, stream, health, sync, off
  <1>2. StoreTyped'
    BY <1>a DEF inspectAndApply, IInv, Typed, StoreTyped, stream
  <1>3. WorkTyped'
    BY DEF IInv, Typed, WorkTyped, Reads, inspectAndApply, sync
  <1>4. Placed'
    BY DEF IInv, Typed, WorkTyped, Placed, inspectAndApply, sync
  <1>5. Sane'
    BY DEF IInv, Sane, inspectAndApply, engine, stream
  <1>6. Caught'
    BY WatcherAssumption DEF IInv, Caught, Past, inspectAndApply, ApplyOne, Stays,
        engine, sync, off
  <1>7. Fresh'
    BY WatcherAssumption DEF IInv, Fresh, Ahead, inspectAndApply, engine, stream, sync
  <1>8. Tracked'
    <2>1. ASSUME NEW o \in Objects, o \notin adrift' \cup raced', cached'[o] # real[o], Begun
          PROVE  ToCome(o)'
      <3>1. o \in Keys /\ cached \in [Keys -> Stored] /\ got \in [Keys -> Reads]
        BY DEF Keys, IInv, Typed, StoreTyped, WorkTyped
      <3>2. CASE o = k
        <4>1. got[k] # real[k]
          BY <1>a, <2>1, <3>1, <3>2, StaysTracked
        <4>2. Ahead(o)
          BY <1>a, <3>2, <4>1 DEF IInv, Fresh
        <4>3. QED
          BY <4>2 DEF Ahead, ToCome, inspectAndApply, engine, stream
      <3>3. CASE o # k
        <4>1. cached'[o] = cached[o] /\ o \notin adrift \cup raced
          BY <1>a, <2>1, <3>1, <3>3 DEF inspectAndApply
        <4>2. ToCome(o)
          BY <4>1, <2>1 DEF IInv, Tracked
        <4>3. got'[o] = got[o] /\ (o \in todo => o \in todo')
          BY <3>1, <3>3 DEF inspectAndApply
        <4>4. QED
          BY <4>2, <4>3 DEF ToCome, inspectAndApply, engine, stream
      <3>4. QED
        BY <3>2, <3>3
    <2>2. QED
      BY <2>1 DEF Tracked, Begun, inspectAndApply, engine
  <1>9. Gone'
    BY DEF IInv, Typed, StoreTyped, Placed, Gone, inspectAndApply, ApplyOne, Stays, sync
  <1>10. QED
    BY <1>1, <1>2, <1>3, <1>4, <1>5, <1>6, <1>7, <1>8, <1>9 DEF IInv, Typed

LEMMA reconcileScopesKeeps ==
    ASSUME IInv, reconcileScopes
    PROVE  IInv'
  <1>1. EngineTyped' /\ StoreTyped' /\ HelpersTyped' /\ Helped'
        /\ Sane' /\ Caught' /\ Fresh' /\ Gone'
    <2>1. EngineTyped' /\ StoreTyped' /\ HelpersTyped'
      BY DEF IInv, Typed, EngineTyped, StoreTyped, HelpersTyped, reconcileScopes,
          engine, stream, work, sync, off, ghosts
    <2>2. Helped' /\ Sane' /\ Caught' /\ Fresh' /\ Gone'
      BY DEF IInv, Typed, Helped, Sane, Caught, Fresh, Gone, Past, Ahead,
          reconcileScopes, engine, stream, work, sync, off, ghosts
    <2>3. QED
      BY <2>1, <2>2
  <1>2. RunTyped'
    BY DEF IInv, Typed, RunTyped, Phases, reconcileScopes, stream, health, off
  <1>3. WorkTyped'
    BY DEF IInv, Typed, WorkTyped, reconcileScopes
  <1>4. Placed'
    BY DEF IInv, Placed, reconcileScopes
  <1>5. Watched'
    BY DEF IInv, Watched, Begun, reconcileScopes, health
  <1>6. Tracked'
    BY DEF IInv, Tracked, Begun, ToCome, reconcileScopes, engine, stream, ghosts
  <1>7. QED
    BY <1>1, <1>2, <1>3, <1>4, <1>5, <1>6 DEF IInv, Typed

LEMMA ListTasksInKeeps ==
    ASSUME IInv, NEW s \in Objects \cup {Everything}, ListTasksIn(s)
    PROVE  IInv'
  <1>a. /\ got' \in [Keys -> Reads]
        /\ \/ got' = got /\ scope' = scope
           \/ /\ scope' = s
              /\ \A k \in Keys : IF k \in InScope(s) THEN got'[k] = real[k]
                                ELSE got'[k] = Unread
    BY DEF ListTasksIn, IInv, Typed, EngineTyped, WorkTyped, Reads
  <1>b. s # None /\ InScope(s) \subseteq Tasks /\ Tasks \subseteq Keys
    BY WatcherAssumption DEF InScope, Keys
  <1>1. EngineTyped' /\ StoreTyped' /\ HelpersTyped' /\ Helped' /\ Watched' /\ Sane'
    BY DEF IInv, Typed, EngineTyped, StoreTyped, HelpersTyped, Helped, Watched, Sane,
        Begun, ListTasksIn, engine, stream, health, off, ghosts
  <1>2. RunTyped'
    BY WatcherAssumption DEF IInv, Typed, RunTyped, ListTasksIn, Fault, stream, health,
        sync, off
  <1>3. WorkTyped'
    BY <1>a DEF ListTasksIn, IInv, Typed, WorkTyped, sync
  <1>4. Placed'
    <2>1. \A k \in Keys : real[k] # Unread
      BY WatcherAssumption DEF IInv, Typed, EngineTyped
    <2>2. \A k \in Keys : got'[k] # Unread => scope' # None /\ k \in InScope(scope')
      BY <1>a, <1>b DEF ListTasksIn, IInv, Placed
    <2>3. scope' # None => \A t \in InScope(scope') : got'[t] # Unread
      BY <1>a, <1>b, <2>1 DEF ListTasksIn
    <2>4. QED
      BY <2>2, <2>3 DEF ListTasksIn, IInv, Placed, InScope, health, sync
  <1>5. Caught'
    <2>1. \A o \in Objects : Past(o, real[o]) /\ Past(o, Unread)
      BY WatcherAssumption DEF Past, IInv, Typed, EngineTyped, Keys, Stored
    <2>2. QED
      BY <1>a, <2>1 DEF ListTasksIn, IInv, Caught, Past, Keys, engine, sync, off
  <1>6. Fresh'
    BY WatcherAssumption DEF IInv, Fresh, Ahead, Keys, ListTasksIn, engine, stream, sync
  <1>7. Tracked'
    BY DEF IInv, Tracked, Begun, ToCome, Keys, ListTasksIn, engine, stream, ghosts
  <1>8. Gone'
    BY DEF IInv, Typed, EngineTyped, Sane, Gone, Absent, ListTasksIn, Fault, sync,
        ghosts
  <1>9. QED
    BY <1>1, <1>2, <1>3, <1>4, <1>5, <1>6, <1>7, <1>8 DEF IInv, Typed

LEMMA reconcileTasksKeeps ==
    ASSUME IInv, reconcileTasks
    PROVE  IInv'
  <1>a. /\ InScope(scope) \subseteq Keys
        /\ \A k \in InScope(scope) : got[k] \in Stored /\ Stays(k, got[k]) \in Stored
    <2>1. InScope(scope) \subseteq Keys
      BY DEF InScope, Keys
    <2>2. \A k \in InScope(scope) : got[k] \in Stored /\ cached[k] \in Stored
      BY <2>1 DEF reconcileTasks, IInv, Placed, Typed, StoreTyped, WorkTyped, Reads
    <2>3. QED
      BY <2>1, <2>2, StaysStored
  <1>1. EngineTyped' /\ RunTyped' /\ HelpersTyped' /\ Helped' /\ Watched'
    BY DEF IInv, Typed, EngineTyped, RunTyped, HelpersTyped, Helped, Watched, Begun,
        reconcileTasks, engine, stream, health, sync, off
  <1>2. StoreTyped'
    <2>1. cached' \in [Keys -> Stored]
      BY <1>a DEF reconcileTasks, IInv, Typed, StoreTyped
    <2>2. QED
      BY <1>a, <2>1 DEF reconcileTasks, IInv, Typed, StoreTyped, stream
  <1>3. WorkTyped'
    BY DEF IInv, Typed, WorkTyped, Reads, reconcileTasks, Nothing, sync, ghosts
  <1>4. Placed'
    BY DEF IInv, Placed, reconcileTasks, Nothing, sync
  <1>5. Sane'
    BY DEF IInv, Sane, reconcileTasks, engine, stream
  <1>6. Caught'
    BY WatcherAssumption DEF IInv, Caught, Past, Keys, reconcileTasks, Nothing, Stays,
        engine, sync, off
  <1>7. Fresh'
    BY WatcherAssumption DEF IInv, Fresh, Ahead, Keys, reconcileTasks, Nothing, engine,
        stream, sync
  <1>8. Tracked'
    BY WatcherAssumption DEF IInv, Tracked, Begun, ToCome, Keys, reconcileTasks,
        Nothing, InScope, engine, stream
  <1>9. Gone'
    BY DEF IInv, Typed, EngineTyped, StoreTyped, Placed, Gone, reconcileTasks, Nothing,
        Stays, sync, ghosts
  <1>10. QED
    BY <1>1, <1>2, <1>3, <1>4, <1>5, <1>6, <1>7, <1>8, <1>9 DEF IInv, Typed

LEMMA RelistedKeeps ==
    ASSUME IInv, Relisted
    PROVE  IInv'
  <1>1. EngineTyped' /\ StoreTyped' /\ WorkTyped' /\ HelpersTyped'
        /\ Helped' /\ Sane' /\ Caught' /\ Fresh' /\ Gone'
    <2>1. EngineTyped' /\ StoreTyped' /\ WorkTyped' /\ HelpersTyped'
      BY DEF IInv, Typed, EngineTyped, StoreTyped, WorkTyped, HelpersTyped, Relisted,
          engine, stream, work, sync, off, ghosts
    <2>2. Helped' /\ Sane' /\ Caught' /\ Fresh' /\ Gone'
      BY DEF IInv, Typed, Helped, Sane, Caught, Fresh, Gone, Past, Ahead, Relisted,
          engine, stream, work, sync, off, ghosts
    <2>3. QED
      BY <2>1, <2>2
  <1>2. RunTyped'
    BY DEF IInv, Typed, RunTyped, Phases, Relisted, stream, health, off
  <1>3. Placed'
    BY DEF IInv, Placed, Relisted, work
  <1>4. Watched'
    BY DEF IInv, Watched, Begun, Relisted, health
  <1>5. Tracked'
    BY DEF IInv, Tracked, Begun, ToCome, Relisted, engine, stream, work, ghosts
  <1>6. QED
    BY <1>1, <1>2, <1>3, <1>4, <1>5 DEF IInv, Typed

LEMMA scheduleSettleKeeps ==
    ASSUME IInv, NEW t \in Tasks, NEW action \in Settling, scheduleSettle(t, action)
    PROVE  IInv'
  <1> DEFINE woken == [task |-> t, action |-> action, left |-> SettleAttempts, got |-> Unread,
                       st |-> "reading"]
  <1>a. woken \in Settler
    BY WatcherAssumption DEF Settler, Reads
  <1>b. settle' = settle \/ \E g \in Settlers : settle' = [settle EXCEPT ![g] = woken]
    BY DEF scheduleSettle
  <1>1. EngineTyped' /\ StoreTyped' /\ RunTyped' /\ Placed' /\ Watched'
        /\ Sane' /\ Caught' /\ Fresh' /\ Tracked' /\ Gone'
    <2>1. EngineTyped' /\ StoreTyped' /\ RunTyped'
      BY DEF IInv, Typed, EngineTyped, StoreTyped, RunTyped, scheduleSettle, engine,
          stream, health, work, sync, off, ghosts
    <2>2. Placed' /\ Watched' /\ Sane' /\ Caught' /\ Fresh' /\ Tracked' /\ Gone'
      BY DEF IInv, Typed, Placed, Watched, Sane, Caught, Fresh, Tracked, Gone, Begun,
          Past, Ahead, ToCome, scheduleSettle, engine, stream, health, work, sync,
          off, ghosts
    <2>3. QED
      BY <2>1, <2>2
  <1>2. WorkTyped'
    BY DEF IInv, Typed, WorkTyped, scheduleSettle, sync
  <1>3. HelpersTyped'
    <2> HIDE DEF woken
    <2>1. settle' \in [Settlers -> Settler]
      BY <1>a, <1>b DEF IInv, Typed, HelpersTyped
    <2>2. QED
      BY <2>1 DEF scheduleSettle, IInv, Typed, HelpersTyped
  <1>4. Helped'
    <2>1. \A g \in Settlers : settle'[g] = settle[g] \/ settle'[g] = woken
      BY <1>b DEF IInv, Typed, HelpersTyped
    <2>2. QED
      BY <2>1 DEF scheduleSettle, IInv, Helped, Attempts, off
  <1>5. QED
    BY <1>1, <1>2, <1>3, <1>4 DEF IInv, Typed

LEMMA EndBatchKeeps ==
    ASSUME IInv, EndBatch
    PROVE  IInv'
  <1>a. /\ pc' \in {"select", "backoff", "lock", "sync"}
        /\ pc' = "backoff" <=> then = "closed"
        /\ pc' = "sync" => then = "periodic" /\ syncMu = "free"
        /\ pc = "settle" /\ then # "reconnect" /\ then' = then
    BY DEF EndBatch, IInv, Typed, RunTyped, Placed
  <1>b. /\ listed' \in [{"run", "resync"} -> [Keys -> Reads \cup {Failed}]]
        /\ listed'["resync"] = listed["resync"]
        /\ \A k \in Keys : listed'["run"][k] = Unread
    <2>1. Nothing \in [Keys -> Reads \cup {Failed}] /\ \A k \in Keys : Nothing[k] = Unread
      BY DEF Nothing, Reads
    <2>2. CASE pc' = "sync"
      BY <2>1, <2>2 DEF EndBatch, IInv, Typed, WorkTyped
    <2>3. CASE pc' # "sync"
      BY <2>3, <1>a DEF EndBatch, sync, IInv, Typed, WorkTyped, Placed
    <2>4. QED
      BY <2>2, <2>3
  <1>1. EngineTyped' /\ StoreTyped' /\ HelpersTyped' /\ Helped' /\ Sane'
    BY DEF IInv, Typed, EngineTyped, StoreTyped, HelpersTyped, Helped, Sane, EndBatch,
        engine, stream, off, ghosts
  <1>2. RunTyped'
    <2>1. syncMu' \in {syncMu, "run"}
      BY DEF EndBatch, sync
    <2>2. loopRunning' \in {loopRunning, FALSE} /\ connected' \in {connected, FALSE}
      BY DEF EndBatch
    <2>3. QED
      BY <1>a, <2>1, <2>2 DEF EndBatch, IInv, Typed, RunTyped, Phases, stream, off
  <1>3. WorkTyped'
    BY <1>b DEF EndBatch, IInv, Typed, WorkTyped, work
  <1>4. Placed'
    BY <1>a, <1>b DEF EndBatch, IInv, Placed, work
  <1>5. Watched'
    BY DEF IInv, Typed, RunTyped, Placed, Watched, Begun, EndBatch
  <1>6. Caught'
    BY <1>b, WatcherAssumption DEF EndBatch, IInv, Caught, Past, Keys, engine, work, off
  <1>7. Fresh'
    BY <1>b, WatcherAssumption DEF EndBatch, IInv, Fresh, Ahead, Keys, engine, stream, work
  <1>8. Tracked'
    BY DEF IInv, Tracked, Begun, ToCome, EndBatch, engine, stream, work, ghosts
  <1>9. Gone'
    BY <1>b DEF EndBatch, IInv, Gone, Typed, StoreTyped, ghosts, work
  <1>10. QED
    BY <1>1, <1>2, <1>3, <1>4, <1>5, <1>6, <1>7, <1>8, <1>9 DEF IInv, Typed

LEMMA SettleInspectKeeps ==
    ASSUME IInv, NEW g \in Settlers, SettleInspect(g)
    PROVE  IInv'
  <1>1. EngineTyped' /\ StoreTyped' /\ WorkTyped' /\ Placed' /\ Watched'
        /\ Sane' /\ Caught' /\ Fresh' /\ Tracked' /\ Gone'
    <2>1. EngineTyped' /\ StoreTyped' /\ WorkTyped'
      BY DEF IInv, Typed, EngineTyped, StoreTyped, WorkTyped, SettleInspect, engine,
          stream, health, work, sync, off, ghosts
    <2>2. Placed' /\ Watched' /\ Sane' /\ Caught' /\ Fresh' /\ Tracked' /\ Gone'
      BY DEF IInv, Typed, Placed, Watched, Sane, Caught, Fresh, Tracked, Gone, Begun,
          Past, Ahead, ToCome, SettleInspect, engine, stream, health, work, sync, off,
          ghosts
    <2>3. QED
      BY <2>1, <2>2
  <1>2. RunTyped'
    BY WatcherAssumption DEF IInv, Typed, RunTyped, SettleInspect, Again, Fault, stream,
        health, sync
  <1>3. HelpersTyped'
    <2>1. /\ real[settle[g].task] \in Reads
          /\ settle[g] \in Settler
      BY DEF SettleInspect, IInv, Helped, Attempts, Typed, EngineTyped, HelpersTyped, Reads, Keys
    <2>2. \/ settle' = [settle EXCEPT ![g].got = real[settle[g].task]]
          \/ settle' = [settle EXCEPT ![g] = Again(g, FALSE)]
      BY DEF SettleInspect
    <2>3. settle' \in [Settlers -> Settler]
      <3>1. CASE settle' = [settle EXCEPT ![g].got = real[settle[g].task]]
        BY <2>1, <3>1 DEF IInv, Typed, HelpersTyped, Settler
      <3>2. CASE settle' = [settle EXCEPT ![g] = Again(g, FALSE)]
        BY <3>2, AgainSound DEF SettleInspect, IInv, Typed, HelpersTyped
      <3>3. QED
        BY <2>2, <3>1, <3>2
    <2>4. QED
      BY <2>3 DEF SettleInspect, IInv, Typed, HelpersTyped
  <1>4. Helped'
    <2>1. \A h \in Settlers \ {g} : settle'[h] = settle[h]
      BY DEF SettleInspect, IInv, Typed, HelpersTyped
    <2>2. CASE settle' = [settle EXCEPT ![g].got = real[settle[g].task]]
      <3>1. real[settle[g].task] # Unread
        BY WatcherAssumption DEF SettleInspect, IInv, Helped, Attempts, Typed, EngineTyped, Keys
      <3>2. /\ settle[g] \in Settler /\ settle'[g] \in Settler
            /\ settle'[g] = [settle[g] EXCEPT !.got = real[settle[g].task]]
        BY <1>3, <2>2 DEF IInv, Typed, HelpersTyped
      <3>3. Attempts(settle'[g])
        <4>1. settle'[g].left = settle[g].left /\ settle'[g].task = settle[g].task
              /\ settle'[g].got = real[settle[g].task]
          BY <3>2 DEF Settler
        <4>2. QED
          BY <3>1, <4>1 DEF SettleInspect, IInv, Helped, Attempts
      <3>4. QED
        BY <2>1, <3>3 DEF SettleInspect, IInv, Helped
    <2>3. CASE settle' = [settle EXCEPT ![g] = Again(g, FALSE)]
      <3>1. settle'[g] = Again(g, FALSE)
        BY <2>3 DEF IInv, Typed, HelpersTyped
      <3>2. Attempts(settle'[g])
        BY <3>1, AgainSound DEF SettleInspect, Attempts
      <3>3. QED
        BY <2>1, <3>2 DEF SettleInspect, IInv, Helped
    <2>4. QED
      BY <2>2, <2>3 DEF SettleInspect
  <1>5. QED
    BY <1>1, <1>2, <1>3, <1>4 DEF IInv, Typed

(* What is read goes on to the next attempt, or to sleep.                  *)
LEMMA SettlesSound ==
    ASSUME IInv, NEW g \in Settlers, settle[g].left > 0, Settles(g)
    PROVE  /\ settle' \in [Settlers -> Settler]
           /\ \A h \in Settlers : Attempts(settle'[h])
  <1>1. PICK done : settle' = [settle EXCEPT ![g] = Again(g, done)]
    BY DEF Settles
  <1>2. /\ settle' \in [Settlers -> Settler]
        /\ settle'[g] = Again(g, done) /\ \A h \in Settlers \ {g} : settle'[h] = settle[h]
    BY <1>1, AgainSound DEF IInv, Typed, HelpersTyped
  <1>3. QED
    BY <1>2, AgainSound DEF IInv, Helped, Attempts

LEMMA settleReadKeeps ==
    ASSUME IInv, NEW g \in Settlers, settleRead(g)
    PROVE  IInv'
  <1> DEFINE t == settle[g].task
             v == settle[g].got
  <1>a. settle[g].left > 0 /\ t \in Tasks /\ v \in Stored
    BY DEF settleRead, IInv, Helped, Attempts, Typed, HelpersTyped, Settler, Reads
  <1>b. settle' = [settle EXCEPT ![g].st = "beside"] \/ Settles(g)
    BY DEF settleRead
  <1>1. EngineTyped' /\ StoreTyped' /\ RunTyped' /\ WorkTyped' /\ Placed' /\ Watched'
        /\ Sane' /\ Caught' /\ Fresh' /\ Tracked' /\ Gone'
    <2>1. EngineTyped' /\ StoreTyped' /\ RunTyped' /\ WorkTyped'
      BY DEF IInv, Typed, EngineTyped, StoreTyped, RunTyped, WorkTyped, settleRead,
          engine, stream, health, work, sync, off, ghosts
    <2>2. Placed' /\ Watched' /\ Sane' /\ Caught' /\ Fresh' /\ Tracked' /\ Gone'
      BY DEF IInv, Typed, Placed, Watched, Sane, Caught, Fresh, Tracked, Gone, Begun,
          Past, Ahead, ToCome, settleRead, engine, stream, health, work, sync, off,
          ghosts
    <2>3. QED
      BY <2>1, <2>2
  <1>2. HelpersTyped'
    <2>1. settle' \in [Settlers -> Settler]
      <3>1. CASE settle' = [settle EXCEPT ![g].st = "beside"]
        <4>1. [settle[g] EXCEPT !.st = "beside"] \in Settler
          BY DEF IInv, Typed, HelpersTyped, Settler
        <4>2. QED
          BY <3>1, <4>1 DEF IInv, Typed, HelpersTyped
      <3>2. CASE Settles(g)
        BY <1>a, <3>2, SettlesSound
      <3>3. QED
        BY <1>b, <3>1, <3>2
    <2>2. settled' = settled \/ settled' = [settled EXCEPT ![t] = v]
      BY DEF settleRead, queueSettled
    <2>3. settled' \in [Tasks -> Stored \cup {None}]
      BY <1>a, <2>2 DEF IInv, Typed, HelpersTyped
    <2>4. QED
      BY <2>1, <2>3 DEF settleRead, IInv, Typed, HelpersTyped
  <1>3. Helped'
    <2>1. CASE settle' = [settle EXCEPT ![g].st = "beside"]
      BY <2>1 DEF settleRead, IInv, Helped, Attempts, Typed, HelpersTyped, Settler
    <2>2. CASE Settles(g)
      <3>1. \A h \in Settlers : Attempts(settle'[h])
        BY <1>a, <2>2, SettlesSound
      <3>2. QED
        BY <3>1 DEF settleRead, IInv, Helped, Attempts
    <2>3. QED
      BY <1>b, <2>1, <2>2
  <1>4. QED
    BY <1>1, <1>2, <1>3 DEF IInv, Typed

LEMMA applySettledReadKeeps ==
    ASSUME IInv, NEW g \in Settlers, applySettledRead(g)
    PROVE  IInv'
  <1> DEFINE t == settle[g].task
             v == settle[g].got
  <1>a. settle[g].left > 0 /\ t \in Tasks /\ t \in Keys /\ v \in Stored
    BY DEF applySettledRead, IInv, Helped, Attempts, Typed, HelpersTyped, Settler, Reads, Keys
  <1>b. cached' = [cached EXCEPT ![t] = Stays(t, v)] /\ Stays(t, v) \in Stored
    BY <1>a, StaysStored DEF applySettledRead, ApplyOne, IInv, Typed, StoreTyped
  <1>c. cached' \in [Keys -> Stored] /\ \A o \in Objects : cached'[o] = cached[o]
    BY <1>a, <1>b, WatcherAssumption DEF IInv, Typed, StoreTyped, Keys
  <1>1. EngineTyped' /\ RunTyped' /\ WorkTyped' /\ Placed' /\ Watched' /\ Sane' /\ Fresh'
    <2>1. EngineTyped' /\ RunTyped' /\ WorkTyped'
      BY DEF IInv, Typed, EngineTyped, RunTyped, WorkTyped, applySettledRead, engine,
          stream, health, work, sync, off, ghosts
    <2>2. Placed' /\ Watched' /\ Sane' /\ Fresh'
      BY DEF IInv, Typed, Placed, Watched, Sane, Fresh, Begun, Ahead,
          applySettledRead, engine, stream, health, work, sync, off, ghosts
    <2>3. QED
      BY <2>1, <2>2
  <1>2. StoreTyped'
    BY <1>a, <1>c DEF applySettledRead, IInv, Typed, StoreTyped, stream
  <1>3. HelpersTyped' /\ Helped'
    <2>1. Settles(g)
      BY DEF applySettledRead
    <2>2. /\ settle' \in [Settlers -> Settler]
          /\ \A h \in Settlers : Attempts(settle'[h])
      BY <1>a, <2>1, SettlesSound
    <2>3. QED
      BY <2>2 DEF applySettledRead, IInv, Typed, HelpersTyped, Helped, Attempts
  <1>4. Caught'
    BY <1>c DEF applySettledRead, IInv, Caught, Past, engine, work, sync
  <1>5. Tracked'
    BY <1>c DEF applySettledRead, IInv, Tracked, ToCome, Begun, engine, stream, work
  <1>6. Gone'
    <2>1. ASSUME NEW k \in dropped PROVE cached'[k] = Absent \/ k \in raced'
      BY <1>b, <2>1 DEF applySettledRead, IInv, Gone, Typed, StoreTyped
    <2>2. QED
      BY <2>1 DEF applySettledRead, IInv, Gone, work, sync
  <1>7. QED
    BY <1>1, <1>2, <1>3, <1>4, <1>5, <1>6 DEF IInv, Typed

LEMMA RefreshKeeps ==
    ASSUME IInv, NEW c \in Callers, NEW k \in Keys, Refresh(c, k)
    PROVE  IInv'
  <1>1. EngineTyped' /\ StoreTyped' /\ RunTyped' /\ WorkTyped' /\ Placed'
        /\ Watched' /\ Sane' /\ Fresh' /\ Tracked' /\ Gone'
    <2>1. EngineTyped' /\ StoreTyped' /\ RunTyped' /\ WorkTyped'
      BY DEF IInv, Typed, EngineTyped, StoreTyped, RunTyped, WorkTyped, Refresh,
          engine, stream, health, work, sync, off, ghosts
    <2>2. Placed' /\ Watched' /\ Sane' /\ Fresh' /\ Tracked' /\ Gone'
      BY DEF IInv, Typed, Placed, Watched, Sane, Fresh, Tracked, Gone, Begun, Ahead,
          ToCome, Refresh, engine, stream, health, work, sync, off, ghosts
    <2>3. QED
      BY <2>1, <2>2
  <1>2. HelpersTyped'
    BY DEF IInv, Typed, HelpersTyped, Reads, Refresh
  <1>3. Helped'
    BY DEF IInv, Helped, Refresh
  <1>4. Caught'
    BY WatcherAssumption DEF IInv, Caught, Past, Refresh, engine, work, sync
  <1>5. QED
    BY <1>1, <1>2, <1>3, <1>4 DEF IInv, Typed

LEMMA RefreshGivesUpKeeps ==
    ASSUME IInv, NEW c \in Callers, RefreshGivesUp(c)
    PROVE  IInv'
  <1>1. EngineTyped' /\ StoreTyped' /\ RunTyped' /\ WorkTyped' /\ Placed'
        /\ Watched' /\ Sane' /\ Fresh' /\ Tracked' /\ Gone'
    <2>1. EngineTyped' /\ StoreTyped' /\ RunTyped' /\ WorkTyped'
      BY DEF IInv, Typed, EngineTyped, StoreTyped, RunTyped, WorkTyped,
          RefreshGivesUp, engine, stream, health, work, sync, off, ghosts
    <2>2. Placed' /\ Watched' /\ Sane' /\ Fresh' /\ Tracked' /\ Gone'
      BY DEF IInv, Typed, Placed, Watched, Sane, Fresh, Tracked, Gone, Begun, Ahead,
          ToCome, RefreshGivesUp, engine, stream, health, work, sync, off, ghosts
    <2>3. QED
      BY <2>1, <2>2
  <1>2. HelpersTyped'
    BY DEF IInv, Typed, HelpersTyped, RefreshGivesUp
  <1>3. Helped'
    BY DEF IInv, Helped, RefreshGivesUp
  <1>4. Caught'
    BY DEF IInv, Caught, Past, RefreshGivesUp, engine, work, sync
  <1>5. QED
    BY <1>1, <1>2, <1>3, <1>4 DEF IInv, Typed

LEMMA BesideInspectKeeps ==
    ASSUME IInv, NEW c \in Callers, BesideInspect(c)
    PROVE  IInv'
  <1>a. refresh[c].key \in Keys /\ real[refresh[c].key] \in Stored
    BY DEF BesideInspect, IInv, Helped, Typed, EngineTyped
  <1>b. /\ \A d \in Callers \ {c} : refresh'[d] = refresh[d]
        /\ refresh'[c].key = refresh[c].key
        /\ \/ refresh'[c].got = Unread /\ refresh'[c].st = "done"
           \/ refresh'[c].got = real[refresh[c].key] /\ refresh'[c].st = "beside"
    BY DEF BesideInspect, IInv, Typed, HelpersTyped
  <1>1. EngineTyped' /\ StoreTyped' /\ WorkTyped' /\ Placed'
        /\ Watched' /\ Sane' /\ Fresh' /\ Tracked' /\ Gone'
    <2>1. EngineTyped' /\ StoreTyped' /\ WorkTyped'
      BY DEF IInv, Typed, EngineTyped, StoreTyped, WorkTyped, BesideInspect, engine,
          stream, health, work, sync, ghosts
    <2>2. Placed' /\ Watched' /\ Sane' /\ Fresh' /\ Tracked' /\ Gone'
      BY DEF IInv, Typed, Placed, Watched, Sane, Fresh, Tracked, Gone, Begun, Ahead,
          ToCome, BesideInspect, engine, stream, health, work, sync, ghosts
    <2>3. QED
      BY <2>1, <2>2
  <1>2. RunTyped'
    BY WatcherAssumption DEF IInv, Typed, RunTyped, BesideInspect, Fault, stream,
        health, sync
  <1>3. HelpersTyped'
    <2>1. refresh' = [refresh EXCEPT ![c].got = real[refresh[c].key]]
          \/ refresh' = [refresh EXCEPT ![c].st = "done"]
      BY DEF BesideInspect
    <2>2. real[refresh[c].key] \in Reads
      BY <1>a DEF Reads
    <2>3. QED
      BY <2>1, <2>2 DEF BesideInspect, IInv, Typed, HelpersTyped
  <1>4. Helped'
    BY <1>a, <1>b DEF BesideInspect, IInv, Helped
  <1>5. Caught'
    <2>1. \A o \in Objects : Past(o, real[o]) /\ Past(o, Unread)
      BY WatcherAssumption DEF Past, IInv, Typed, EngineTyped, Keys, Stored
    <2>2. QED
      BY <1>b, <2>1 DEF BesideInspect, IInv, Caught, Past, engine, work, sync
  <1>6. QED
    BY <1>1, <1>2, <1>3, <1>4, <1>5 DEF IInv, Typed

LEMMA applyBesideLoopKeeps ==
    ASSUME IInv, NEW c \in Callers, applyBesideLoop(c)
    PROVE  IInv'
  <1>a. /\ refresh[c].key \in Keys /\ refresh[c].got \in Stored
        /\ cached' = [cached EXCEPT ![refresh[c].key] =
                         Stays(refresh[c].key, refresh[c].got)]
    BY DEF applyBesideLoop, ApplyOne, IInv, Helped, Typed, HelpersTyped, Reads
  <1>b. cached' \in [Keys -> Stored]
    BY <1>a, StaysStored DEF IInv, Typed, StoreTyped
  <1>1. EngineTyped' /\ RunTyped' /\ WorkTyped' /\ Placed' /\ Watched' /\ Sane' /\ Fresh'
    <2>1. EngineTyped' /\ RunTyped' /\ WorkTyped'
      BY DEF IInv, Typed, EngineTyped, RunTyped, WorkTyped, applyBesideLoop, engine,
          stream, health, work, sync, off, ghosts
    <2>2. Placed' /\ Watched' /\ Sane' /\ Fresh'
      BY DEF IInv, Typed, Placed, Watched, Sane, Fresh, Begun, Ahead, applyBesideLoop,
          engine, stream, health, work, sync, off, ghosts
    <2>3. QED
      BY <2>1, <2>2
  <1>2. StoreTyped'
    BY <1>a, <1>b DEF applyBesideLoop, IInv, Typed, StoreTyped, stream
  <1>3. HelpersTyped'
    BY DEF IInv, Typed, HelpersTyped, applyBesideLoop, off, ghosts
  <1>4. Helped'
    BY DEF IInv, Typed, HelpersTyped, Helped, applyBesideLoop, off, ghosts
  <1>5. Caught'
    BY DEF IInv, Typed, HelpersTyped, Caught, applyBesideLoop, off, ghosts
  <1>6. Tracked'
    BY DEF IInv, Tracked, Begun, ToCome, applyBesideLoop, ApplyOne, Stays, engine,
        stream, work
  <1>7. Gone'
    BY DEF IInv, Typed, HelpersTyped, Gone, applyBesideLoop, off, ghosts
  <1>8. QED
    BY <1>1, <1>2, <1>3, <1>4, <1>5, <1>6, <1>7 DEF IInv, Typed

LEMMA ResyncKeeps ==
    ASSUME IInv, Resync
    PROVE  IInv'
  <1>1. EngineTyped' /\ StoreTyped' /\ WorkTyped' /\ HelpersTyped' /\ Placed' /\ Helped'
        /\ Watched' /\ Sane' /\ Caught' /\ Fresh' /\ Tracked' /\ Gone'
    <2>1. EngineTyped' /\ StoreTyped' /\ WorkTyped' /\ HelpersTyped'
      BY DEF IInv, Typed, EngineTyped, StoreTyped, WorkTyped, HelpersTyped, Resync,
          engine, stream, health, work, sync, off, ghosts
    <2>2. Placed' /\ Helped' /\ Watched' /\ Sane' /\ Caught' /\ Fresh' /\ Tracked' /\
         Gone'
      BY DEF IInv, Typed, Placed, Helped, Watched, Sane, Caught, Fresh, Tracked, Gone,
          Begun, Past, Ahead, ToCome, Resync, engine, stream, health, work, sync, off,
          ghosts
    <2>3. QED
      BY <2>1, <2>2
  <1>2. RunTyped'
    BY WatcherAssumption DEF IInv, Typed, RunTyped, Resync, stream, health, sync
  <1>3. QED
    BY <1>1, <1>2 DEF IInv, Typed

LEMMA ResyncGivesUpKeeps ==
    ASSUME IInv, ResyncGivesUp
    PROVE  IInv'
  <1>1. EngineTyped' /\ StoreTyped' /\ WorkTyped' /\ HelpersTyped' /\ Placed' /\ Helped'
        /\ Watched' /\ Sane' /\ Caught' /\ Fresh' /\ Tracked' /\ Gone'
    <2>1. EngineTyped' /\ StoreTyped' /\ WorkTyped' /\ HelpersTyped'
      BY DEF IInv, Typed, EngineTyped, StoreTyped, WorkTyped, HelpersTyped,
          ResyncGivesUp, engine, stream, health, work, sync, off, ghosts
    <2>2. Placed' /\ Helped' /\ Watched' /\ Sane' /\ Caught' /\ Fresh' /\ Tracked' /\
         Gone'
      BY DEF IInv, Typed, Placed, Helped, Watched, Sane, Caught, Fresh, Tracked, Gone,
          Begun, Past, Ahead, ToCome, ResyncGivesUp, engine, stream, health, work,
          sync, off, ghosts
    <2>3. QED
      BY <2>1, <2>2
  <1>2. RunTyped'
    BY DEF IInv, Typed, RunTyped, ResyncGivesUp, stream, health, sync
  <1>3. QED
    BY <1>1, <1>2 DEF IInv, Typed

LEMMA BesideLockKeeps ==
    ASSUME IInv, BesideLock
    PROVE  IInv'
  <1>1. EngineTyped' /\ StoreTyped' /\ HelpersTyped'
        /\ Helped' /\ Watched' /\ Sane' /\ Tracked'
    <2>1. EngineTyped' /\ StoreTyped' /\ HelpersTyped'
      BY DEF IInv, Typed, EngineTyped, StoreTyped, HelpersTyped, BesideLock, engine,
          stream, health, work, off, ghosts
    <2>2. Helped' /\ Watched' /\ Sane' /\ Tracked'
      BY DEF IInv, Typed, Helped, Watched, Sane, Tracked, Begun, ToCome, BesideLock,
          engine, stream, health, work, off, ghosts
    <2>3. QED
      BY <2>1, <2>2
  <1>2. RunTyped'
    BY DEF IInv, Typed, RunTyped, BesideLock, stream, health
  <1>3. WorkTyped'
    BY DEF IInv, Typed, WorkTyped, Reads, BesideLock, Nothing, work
  <1>4. Placed'
    BY DEF IInv, Placed, BesideLock, health, work
  <1>5. Caught'
    BY WatcherAssumption DEF IInv, Caught, Past, Keys, BesideLock, Nothing, engine, work
  <1>6. Fresh'
    BY DEF IInv, Fresh, Ahead, BesideLock, engine, stream, work
  <1>7. Gone'
    BY DEF IInv, Gone, BesideLock, work, ghosts
  <1>8. QED
    BY <1>1, <1>2, <1>3, <1>4, <1>5, <1>6, <1>7 DEF IInv, Typed

LEMMA ResyncBesideKeeps ==
    ASSUME IInv, ResyncBeside
    PROVE  IInv'
  <1> DEFINE lists == listed["resync"]
  <1>a. \A k \in Keys : lists[k] = Failed \/ lists[k] \in Stored
    BY DEF ResyncBeside, AllRead, IInv, Typed, WorkTyped, Reads
  <1>b. cached' = cached \/ cached' = [k \in Keys |-> IF lists[k] = Failed THEN cached[k]
                                                     ELSE Stays(k, lists[k])]
    BY DEF ResyncBeside, ReplaceAll
  <1>c. cached' \in [Keys -> Stored]
    <2>1. \A k \in Keys : lists[k] # Failed => Stays(k, lists[k]) \in Stored
      BY <1>a, StaysStored DEF IInv, Typed, StoreTyped
    <2>2. QED
      BY <1>b, <2>1 DEF IInv, Typed, StoreTyped
  <1>1. EngineTyped' /\ HelpersTyped' /\ Helped' /\ Watched' /\ Sane'
    BY DEF IInv, Typed, EngineTyped, HelpersTyped, Helped, Watched, Sane, Begun,
        ResyncBeside, engine, stream, health, off, ghosts
  <1>2. StoreTyped'
    BY <1>c DEF ResyncBeside, Has, IInv, Typed, StoreTyped, stream
  <1>3. RunTyped'
    BY DEF IInv, Typed, RunTyped, ResyncBeside, stream, health, off, ghosts
  <1>4. WorkTyped'
    BY DEF IInv, Typed, WorkTyped, Reads, ResyncBeside, Nothing, work, off, ghosts
  <1>5. Placed'
    BY DEF IInv, Placed, ResyncBeside, health, work
  <1>6. Caught'
    BY WatcherAssumption DEF IInv, Caught, Past, Keys, ResyncBeside, ReplaceAll, Stays,
        Nothing, engine, work
  <1>7. Fresh'
    BY DEF IInv, Fresh, Ahead, ResyncBeside, engine, stream, work
  <1>8. Tracked'
    BY DEF IInv, Tracked, Begun, ToCome, Keys, ResyncBeside, ReplaceAll, Stays, Has,
        engine, stream, work
  <1>9. Gone'
    BY DEF IInv, Typed, EngineTyped, Sane, Gone, ResyncBeside, ReplaceAll, Stays, Has,
        work, off, ghosts
  <1>10. QED
    BY <1>1, <1>2, <1>3, <1>4, <1>5, <1>6, <1>7, <1>8, <1>9 DEF IInv, Typed

LEMMA EngineKeeps ==
    ASSUME IInv, Engine
    PROVE  IInv'
  BY ChangesKeeps, VanishesKeeps, TaskChangesKeeps, ContainerEventKeeps DEF Engine

LEMMA RunKeeps ==
    ASSUME IInv, Run
    PROVE  IInv'
  BY SubscribeKeeps, LockSyncKeeps, SyncSucceedsKeeps, SyncErrsKeeps, ReadListKeeps,
     startWatchingKeeps, OpenLoopKeeps DEF Run

LEMMA BatchKeeps ==
    ASSUME IInv, Batch
    PROVE  IInv'
  BY InspectKeeps, InspectFailsKeeps, inspectAndApplyKeeps, reconcileScopesKeeps,
     ListTasksInKeeps, reconcileTasksKeeps, RelistedKeeps, scheduleSettleKeeps, EndBatchKeeps
     DEF Batch

(* The cases of the select that flush what is pending differ in what they  *)
(* do besides.                                                             *)
LEMMA FlushKeeps ==
    ASSUME IInv, DebounceFires \/ StreamError \/ TakeResync \/ SyncTick \/ RetryTick
    PROVE  IInv'
  <1>1. faults \in 0..MaxFaults /\ watching \in BOOLEAN /\ MaxFaults \in Nat
    BY WatcherAssumption DEF IInv, Typed, RunTyped
  <1>2. CASE DebounceFires
    BY <1>1, <1>2, TakePendingKeeps DEF DebounceFires
  <1>3. CASE StreamError
    <2>1. /\ TakePending("closed") /\ resync' \in {resync, "taken"}
          /\ watching' = (watching /\ "closed" # "closed")
      BY <1>3 DEF StreamError
    <2>2. faults' \in 0..MaxFaults
      BY <1>1, <1>3 DEF StreamError, Fault
    <2>3. QED
      BY <2>1, <2>2, TakePendingKeeps
  <1>4. CASE TakeResync
    BY <1>1, <1>4, TakePendingKeeps DEF TakeResync
  <1>5. CASE SyncTick
    BY <1>1, <1>5, TakePendingKeeps DEF SyncTick
  <1>6. CASE RetryTick
    BY <1>1, <1>6, TakePendingKeeps DEF RetryTick
  <1>7. QED
    BY <1>2, <1>3, <1>4, <1>5, <1>6

LEMMA SelectKeeps ==
    ASSUME IInv, Select
    PROVE  IInv'
  BY ReceiveEventKeeps, FlushKeeps, PollTickKeeps, applySettledKeeps, TakeRefreshKeeps
     DEF Select

LEMMA OffLoopKeeps ==
    ASSUME IInv, Settle \/ Beside \/ Ask
    PROVE  IInv'
  BY SettleInspectKeeps, settleReadKeeps, applySettledReadKeeps, BesideInspectKeeps, applyBesideLoopKeeps,
     BesideLockKeeps, ResyncBesideKeeps, ReadListKeeps, RefreshKeeps, RefreshGivesUpKeeps,
     ResyncKeeps, ResyncGivesUpKeeps DEF Settle, Beside, Ask

LEMMA StutterKeeps ==
    ASSUME IInv, UNCHANGED vars
    PROVE  IInv'
  <1>1. EngineTyped' /\ StoreTyped' /\ RunTyped' /\ WorkTyped' /\ HelpersTyped'
    BY DEF IInv, Typed, EngineTyped, StoreTyped, RunTyped, WorkTyped, HelpersTyped, vars, engine,
       stream, health, work, sync, off, ghosts
  <1>2. Placed' /\ Helped' /\ Watched' /\ Sane' /\ Caught'
    BY DEF IInv, Placed, Helped, Watched, Begun, Sane, Caught, Past, vars, engine, stream, health,
       work, sync, off, ghosts
  <1>3. Fresh' /\ Tracked' /\ Gone'
    BY DEF IInv, Fresh, Ahead, Tracked, ToCome, Begun, Gone, vars, engine, stream, health, work,
       sync, off, ghosts
  <1>4. QED
    BY <1>1, <1>2, <1>3 DEF IInv, Typed

LEMMA StepKeeps == IInv /\ [Next]_vars => IInv'
  BY EngineKeeps, RunKeeps, SelectKeeps, BatchKeeps, OffLoopKeeps, StutterKeeps DEF Next

(* No step forgets what the loop removed.                                  *)
LEMMA DroppedStays ==
    ASSUME Next
    PROVE  dropped \subseteq dropped'
  <1>1. CASE Engine
    BY <1>1 DEF Engine, Changes, Vanishes, ContainerEvent, Rest, ghosts
  <1>2. CASE Run
    BY <1>2 DEF Run, Subscribe, LockSync, SyncSucceeds, SyncErrs, ReadList, startWatching,
       OpenLoop, ghosts
  <1>3. CASE Select
    BY <1>3 DEF Select, ReceiveEvent, DebounceFires, StreamError, TakeResync, SyncTick, RetryTick,
       TakePending, PollTick, applySettled, TakeRefresh, ghosts
  <1>4. CASE Batch
    BY <1>4 DEF Batch, Inspect, InspectFails, inspectAndApply, reconcileScopes, ListTasksIn,
       reconcileTasks, Relisted, scheduleSettle, EndBatch, ghosts
  <1>5. CASE Settle \/ Beside \/ Ask
    BY <1>5 DEF Settle, SettleInspect, settleRead, applySettledRead, Beside, BesideInspect, applyBesideLoop,
       BesideLock, ResyncBeside, ReadList, Ask, Refresh, RefreshGivesUp, Resync, ResyncGivesUp,
       ghosts
  <1>6. QED
    BY <1>1, <1>2, <1>3, <1>4, <1>5 DEF Next

(* The invariant holds of every behavior of the watcher.                   *)
THEOREM WatcherStaysSound == Spec => []IInv
  <1>1. Init => IInv
    BY InitSound
  <1>2. IInv /\ [Next]_vars => IInv'
    BY StepKeeps
  <1>3. QED
    BY <1>1, <1>2, PTL DEF Spec

(* Watcher.Run, startWatching and the callers beside the loop: the state   *)
(* they share keeps its types, and Watching is reported only by a watcher  *)
(* that is connected and ready, whatever is lost and whoever calls.        *)
THEOREM ReportsAreSound == Spec => []ReportSound
  <1>1. IInv => TypeOK
    BY DEF IInv, Typed, EngineTyped, StoreTyped, RunTyped, WorkTyped, HelpersTyped, Settler, TypeOK,
       Event
  <1>2. IInv => WatchingIsTracked
    BY DEF IInv, Watched, WatchingIsTracked
  <1>3. QED
    BY <1>1, <1>2, WatcherStaysSound, PTL DEF ReportSound

(* Run's loop: while Watching is reported, an object the cache has wrong   *)
(* has an event ahead in the stream, pending or in the batch under way,    *)
(* unless its read failed or was overtaken beside the loop; for any number *)
(* of objects, events, callers and failures.                               *)
THEOREM NoDriftGoesUnseen == Spec => []DriftCovered
  <1>1. IInv => DriftCovered
    BY DEF IInv, Watched, Tracked, DriftCovered
  <1>2. QED
    BY <1>1, WatcherStaysSound, PTL

(* applySettled, reconcileTasks, ReplaceAll and replayed events: a step    *)
(* never brings back what the loop removed, except when a read beside the  *)
(* loop was overtaken.                                                     *)
THEOREM RemovedStaysRemoved == Spec => NoResurrection
  <1>1. IInv /\ [Next]_vars => [\A k \in dropped : cached'[k] = Absent \/ k \in raced']_vars
    <2> SUFFICES ASSUME IInv, Next
                 PROVE  \A k \in dropped : cached'[k] = Absent \/ k \in raced'
      OBVIOUS
    <2>1. dropped \subseteq dropped'
      BY DroppedStays
    <2>2. \A k \in dropped' : cached'[k] = Absent \/ k \in raced'
      BY StepKeeps DEF IInv, Gone
    <2>3. QED
      BY <2>1, <2>2
  <1>2. QED
    BY <1>1, WatcherStaysSound, PTL DEF Spec, NoResurrection
=============================================================================
