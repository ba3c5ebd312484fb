---------------------------- MODULE Broadcaster ----------------------------
(***************************************************************************)
(* Server-sent events: how a cache change reaches a browser               *)
(* (internal/api/sse).  notify appends a change to the history and hands   *)
(* it to Broadcast, in history order; fanOut copies it to the clients that *)
(* accept it; one ServeSSE handler per connection batches and writes.      *)
(* Every buffer is bounded and no sender blocks: what a full buffer drops  *)
(* is made good by a sync frame, which tells the page to refetch, and what *)
(* a lost connection drops by the replay of a Last-Event-ID cursor.        *)
(*                                                                         *)
(* A sync is not in the history; it has a number and the position it came  *)
(* at.  What a page knows is a ghost: the changes it was told of, and the  *)
(* newest sync it refetched after.                                         *)
(***************************************************************************)
EXTENDS Integers, Sequences, FiniteSets

CONSTANTS
    Browsers,             \* pages, with one EventSource each
    Handlers,             \* ServeSSE calls that can run at a time
    Owner,                \* [Browsers -> owners]: ownerOf
    Accepts,              \* [Browsers -> SUBSET Types]: the stream's match
    Replayed,             \* browsers whose stream has a replayType
    Types,                \* event types of changes
    InboxCap, EventsCap,  \* buffers of the inbox and of a client
    Size,                 \* entries of the history ring
    MaxClients, MaxClientsPerOwner,
    None,
    MaxHistory,           \* bound: history entries of a process
    MaxSyncs,             \* bound: syncs of a process
    MaxEpochs,            \* bound: processes
    MaxFaults             \* bound: lost connections and failed writes

ASSUME BroadcasterAssumption ==
    /\ Accepts \in [Browsers -> SUBSET Types]
    /\ Replayed \subseteq Browsers
    /\ DOMAIN Owner = Browsers
    /\ {InboxCap, EventsCap, Size, MaxClients, MaxClientsPerOwner,
        MaxEpochs} \subseteq Nat \ {0}
    /\ {MaxHistory, MaxSyncs, MaxFaults} \subseteq Nat
    /\ None \notin Browsers \cup Handlers
    /\ "recovered" \notin Types

VARIABLES
    epoch, closed,      \* of this process
    hist,               \* types of the entries ever appended, oldest first
    marks,              \* history position of each sync; lastSync is the last
    notifying,          \* what holds notifyMu: an event, and if the inbox is full
    inbox,
    fan,                \* the event in fanOut and the clients still to get it
    clients, owners,    \* registered handlers, how many each owner holds
    events, lagged,     \* of a client, shared with Broadcast and fanOut
    serve,              \* local state of a ServeSSE call
    wire,               \* frames written and not received
    conn, cursor,       \* of a page: its connection, the last id received
    reopening,          \* the page opens a new EventSource
    faults,
    known, refetched,   \* ghost: changes and the newest sync a page knows
    behind,             \* ghost: a page's data is of an earlier process
    missed,             \* ghost: a reconnect without an id lost something
    slipped,            \* ghost: a replay passed a sync it did not cover
    told                \* ghost: changes a connection's frames covered

source  == <<epoch, closed, hist, marks, notifying>>
queues  == <<inbox, fan>>
table   == <<clients, owners>>
shared  == <<events, lagged>>
page    == <<conn, cursor, reopening>>
ghosts  == <<known, refetched, behind, missed, slipped, told>>
vars    == <<source, queues, table, shared, serve, wire, page, faults, ghosts>>

-----------------------------------------------------------------------------
Change(i, type) == [sync |-> 0, id |-> i, type |-> type]
IsSync(e) == e.sync > 0

\* TypeMatcher, TypesFilter and the rest: a sync always passes.
accepts(b, e) == IsSync(e) \/ e.type \in Accepts[b]

Count == Len(hist)
LastSync == Len(marks)

Idle == [of |-> None, pc |-> "off", cur |-> None, batch |-> <<>>,
         skipBelow |-> 0, syncedThrough |-> 0]
Quiet == [e |-> None, full |-> FALSE]
Fan(e, to) == [e |-> IF to = {} THEN None ELSE e, to |-> to]

Larger(m, n) == IF m > n THEN m ELSE n

(***************************************************************************)
(* Cache.notify, under notifyMu: the history entry, then the listener.     *)
(***************************************************************************)
Notify(type) ==
    /\ notifying = Quiet /\ Count < MaxHistory
    /\ hist' = Append(hist, type)
    /\ notifying' = [e |-> Change(Count + 1, type), full |-> FALSE]
    /\ UNCHANGED <<epoch, closed, marks, queues, table, shared, serve, wire,
                   page, faults, ghosts>>

\* The recovered changes take the ids below their gap's; only it is told.
NotifyGap ==
    /\ notifying = Quiet /\ Count + 1 < MaxHistory
    /\ hist' = hist \o <<"recovered", "gap">>
    /\ notifying' = [e |-> Change(Count + 2, "gap"), full |-> FALSE]
    /\ UNCHANGED <<epoch, closed, marks, queues, table, shared, serve, wire,
                   page, faults, ghosts>>

\* recordSync comes before the sync is queued.
NotifySync ==
    /\ notifying = Quiet /\ LastSync < MaxSyncs
    /\ marks' = Append(marks, Count)
    /\ notifying' = [e |-> [sync |-> LastSync + 1, id |-> Count,
                            type |-> "sync"], full |-> FALSE]
    /\ UNCHANGED <<epoch, closed, hist, queues, table, shared, serve, wire,
                   page, faults, ghosts>>

Broadcast ==
    /\ notifying # Quiet /\ ~notifying.full
    /\ IF Len(inbox) < InboxCap
       THEN inbox' = Append(inbox, notifying.e) /\ notifying' = Quiet
       ELSE notifying' = [notifying EXCEPT !.full = TRUE] /\ UNCHANGED inbox
    /\ UNCHANGED <<epoch, closed, hist, marks, fan, table, shared, serve, wire,
                   page, faults, ghosts>>

Listening(e) == {h \in clients : accepts(serve[h].of, e)}

\* Mutant: a full inbox drops the event and tells nobody.
BroadcastDropsUnmarked ==
    /\ notifying.full
    /\ notifying' = Quiet
    /\ UNCHANGED <<epoch, closed, hist, marks, queues, table, shared, serve,
                   wire, page, faults, ghosts>>

\* The rest of Broadcast, the inbox full: under b.mu, every client the event
\* was for is marked.
BroadcastDrops ==
    /\ notifying.full
    /\ lagged' = [h \in Handlers |-> lagged[h]
                                     \/ h \in Listening(notifying.e)]
    /\ notifying' = Quiet
    /\ UNCHANGED <<epoch, closed, hist, marks, queues, table, events, serve,
                   wire, page, faults, ghosts>>

(***************************************************************************)
(* fanOut: the recipients are fixed under the lock, the sends are not.     *)
(***************************************************************************)
TakeInbox ==
    /\ fan.to = {} /\ inbox # <<>>
    /\ fan' = Fan(Head(inbox), Listening(Head(inbox)))
    /\ inbox' = Tail(inbox)
    /\ UNCHANGED <<source, table, shared, serve, wire, page, faults, ghosts>>

\* Mutant: the event is dropped and the client not marked.
SendOrForget(h) ==
    /\ events' = IF Len(events[h]) < EventsCap
                 THEN [events EXCEPT ![h] = Append(events[h], fan.e)]
                 ELSE events
    /\ UNCHANGED lagged

\* Mutant: the bound of the client's buffer is off by one.
SendOneMore(h) ==
    IF Len(events[h]) <= EventsCap
    THEN events' = [events EXCEPT ![h] = Append(events[h], fan.e)]
         /\ UNCHANGED lagged
    ELSE lagged' = [lagged EXCEPT ![h] = TRUE] /\ UNCHANGED events

\* A slow client loses the event and is marked.
SendOrLag(h) ==
    IF Len(events[h]) < EventsCap
    THEN events' = [events EXCEPT ![h] = Append(events[h], fan.e)]
         /\ UNCHANGED lagged
    ELSE lagged' = [lagged EXCEPT ![h] = TRUE] /\ UNCHANGED events

fanOut(h) ==
    /\ h \in fan.to
    /\ SendOrLag(h)
    /\ fan' = Fan(fan.e, fan.to \ {h})
    /\ UNCHANGED <<source, inbox, table, serve, wire, page, faults, ghosts>>

(***************************************************************************)
(* Frames.                                                                 *)
(***************************************************************************)
Ids(es) == {es[i].id : i \in 1..Len(es)}
ChangesIn(es) == {es[i].id : i \in {j \in 1..Len(es) : ~IsSync(es[j])}}
SyncsIn(es) == {es[i].sync : i \in 1..Len(es)} \ {0}
Newest(S) == CHOOSE m \in S \cup {0} : \A n \in S : n <= m

\* writeBatch: the newest id, and the last sync at that position, if any.
frame(es) ==
    LET top   == Newest(Ids(es))
        there == {i \in 1..Len(es) : es[i].id = top /\ IsSync(es[i])}
    IN [id |-> top, seen |-> IF there = {} THEN 0 ELSE es[Newest(there)].sync,
        changes |-> ChangesIn(es), refetch |-> SyncsIn(es) # {}]

\* What is written to a connection the browser has left goes nowhere.
Write(h, f) == wire' = IF conn[serve[h].of] = h
                       THEN [wire EXCEPT ![h] = Append(wire[h], f)] ELSE wire

(***************************************************************************)
(* ServeSSE.                                                               *)
(***************************************************************************)
Full(b) == Cardinality(clients) >= MaxClients
           \/ owners[Owner[b]] >= MaxClientsPerOwner

All(b) == {i \in 1..Count : hist[i] \in Accepts[b]}

\* A browser's own retry presents its cursor; a page that opens anew has none,
\* and refetches.  Without an id received so far a retry has none either.
Connect(b, h) ==
    /\ conn[b] = None
    /\ serve[h].pc = "off" /\ \A p \in Browsers : conn[p] # h
    /\ ~closed /\ ~Full(b)
    /\ clients' = clients \cup {h}
    /\ owners' = [owners EXCEPT ![Owner[b]] = @ + 1]
    /\ serve' = [serve EXCEPT ![h] = [Idle EXCEPT !.of = b, !.pc = "open",
                    !.cur = IF reopening[b] THEN None ELSE cursor[b]]]
    /\ events' = [events EXCEPT ![h] = <<>>]
    /\ lagged' = [lagged EXCEPT ![h] = FALSE]
    /\ wire' = [wire EXCEPT ![h] = <<>>]
    /\ told' = [told EXCEPT ![h] = {}]
    /\ conn' = [conn EXCEPT ![b] = h]
    /\ IF reopening[b]
       THEN /\ known' = [known EXCEPT ![b] = All(b)]
            /\ refetched' = [refetched EXCEPT ![b] = LastSync]
            /\ behind' = [behind EXCEPT ![b] = FALSE]
            /\ slipped' = [slipped EXCEPT ![b] = FALSE]
            /\ missed' = [missed EXCEPT ![b] = FALSE]
       ELSE /\ missed' = [missed EXCEPT ![b] = @ \/
                  /\ cursor[b] = None
                  /\ behind[b] \/ known[b] # All(b) \/ refetched[b] # LastSync]
            /\ UNCHANGED <<known, refetched, behind, slipped>>
    /\ reopening' = [reopening EXCEPT ![b] = FALSE]
    /\ UNCHANGED <<source, queues, cursor, faults>>

\* The EventSource gives up on a refusal, and the page opens another.
Refuse(b) ==
    /\ conn[b] = None /\ ~reopening[b]
    /\ closed \/ Full(b)
    /\ reopening' = [reopening EXCEPT ![b] = TRUE]
    /\ cursor' = [cursor EXCEPT ![b] = None]
    /\ UNCHANGED <<source, queues, table, shared, serve, wire, conn, faults,
                   ghosts>>

\* Mutant: the cursor of an earlier process is a position.
ownCursorAny(cur) == cur
ownCursor(cur) == IF cur.epoch = epoch THEN cur ELSE None

\* Mutant: a cursor at the position of a sync has seen it.
needsSyncPast(cur) ==
    /\ LastSync > 0
    /\ IF cur.seen > 0 THEN cur.seen # LastSync
                       ELSE marks[LastSync] > cur.id

needsSync(cur) ==
    /\ LastSync > 0
    /\ IF cur.seen > 0 THEN cur.seen # LastSync
                       ELSE marks[LastSync] >= cur.id

\* The head of replayEvents: what the cursor cannot be replayed from.
Open(h) ==
    LET cur == serve[h].cur
    IN /\ serve[h].pc = "open"
       /\ IF cur = None
          THEN serve' = [serve EXCEPT ![h].pc = "live"]
          ELSE IF \/ serve[h].of \notin Replayed
                  \/ ownCursor(cur) = None
                  \/ needsSync(cur)
          THEN serve' = [serve EXCEPT ![h].pc = "count"]
          ELSE serve' = [serve EXCEPT ![h].pc = "since",
                                      ![h].syncedThrough = LastSync]
       /\ UNCHANGED <<source, queues, table, shared, wire, page, faults,
                      ghosts>>

\* Mutant: an entry the ring no longer holds is not missed.
SinceWhole(after) == TRUE
\* History.Since: complete if the ring still holds the entry after it.
SinceComplete(after) == after <= Count /\ Count - after <= Size

\* The rest of replayEvents: the entries the stream accepts, in one frame.
replayEvents(h) ==
    LET after == serve[h].cur.id
        b     == serve[h].of
        ids   == {i \in All(b) : i > after /\ Count - i < Size}
        to    == Newest(ids \cup {after})
    IN /\ serve[h].pc = "since"
       /\ IF SinceComplete(after)
          THEN /\ serve' = [serve EXCEPT ![h].pc = "live",
                                         ![h].skipBelow = to]
               /\ IF ids = {} THEN UNCHANGED wire
                  ELSE Write(h, [id |-> to, seen |-> 0, changes |-> ids,
                                 refetch |-> FALSE])
               /\ told' = [told EXCEPT ![h] = ids]
               /\ slipped' = [slipped EXCEPT ![b] = @ \/
                     \E k \in (serve[h].syncedThrough + 1)..LastSync :
                         marks[k] < to]
          ELSE /\ serve' = [serve EXCEPT ![h].pc = "count"]
               /\ UNCHANGED <<wire, told, slipped>>
       /\ UNCHANGED <<source, queues, table, shared, page, faults, known,
                      refetched, behind, missed>>

\* syncFrame reads the position first.
CountFirst(h) ==
    /\ serve[h].pc = "count"
    /\ serve' = [serve EXCEPT ![h].pc = "mark", ![h].skipBelow = Count]
    /\ UNCHANGED <<source, queues, table, shared, wire, page, faults, ghosts>>

syncFrame(h) ==
    LET at == serve[h].skipBelow
    IN /\ serve[h].pc = "mark"
       /\ Write(h, [id |-> at, seen |-> LastSync, changes |-> {},
                    refetch |-> TRUE])
       /\ serve' = [serve EXCEPT ![h].pc = "live", ![h].syncedThrough =
                       Larger(@, LastSync)]
       /\ told' = [told EXCEPT ![h] = @ \cup 1..at]
       /\ UNCHANGED <<source, queues, table, shared, page, faults, known,
                      refetched, behind, missed, slipped>>

\* Mutant: the dedup window is not looked at.
SkippedSyncs(h, e) == IsSync(e) /\ e.sync <= serve[h].syncedThrough
\* A change a replay or a sync frame covered, a sync one covered.
Skipped(h, e) == IF IsSync(e) THEN e.sync <= serve[h].syncedThrough
                 ELSE e.id <= serve[h].skipBelow

TakeEvent(h) ==
    LET e == Head(events[h])
    IN /\ serve[h].pc = "live"
       /\ events[h] # <<>>
       /\ events' = [events EXCEPT ![h] = Tail(events[h])]
       /\ serve' = IF Skipped(h, e) THEN serve
                   ELSE [serve EXCEPT ![h].batch = Append(@, e),
                            ![h].skipBelow = IF IsSync(e) THEN @ ELSE 0]
       /\ UNCHANGED <<source, queues, table, lagged, wire, page, faults,
                      ghosts>>

Tick(h) ==
    /\ serve[h].pc = "live"
    /\ ~lagged[h] /\ serve[h].batch # <<>>
    /\ Write(h, frame(serve[h].batch))
    /\ told' = [told EXCEPT ![h] = @ \cup ChangesIn(serve[h].batch)]
    /\ serve' = [serve EXCEPT ![h].batch = <<>>]
    /\ UNCHANGED <<source, queues, table, shared, page, faults, known,
                   refetched, behind, missed, slipped>>

\* The tick of a lagged client: the batch gives way to a sync frame.
LaggedTick(h) ==
    /\ serve[h].pc = "live"
    /\ lagged[h]
    /\ lagged' = [lagged EXCEPT ![h] = FALSE]
    /\ serve' = [serve EXCEPT ![h].batch = <<>>, ![h].pc = "count"]
    /\ UNCHANGED <<source, queues, table, events, wire, page, faults, ghosts>>

\* Mutant: the owner's share is not given back.
DeregisterLeaks(h) ==
    /\ clients' = clients \ {h}
    /\ serve' = [serve EXCEPT ![h] = Idle]
    /\ fan' = Fan(fan.e, fan.to \ {h})
    /\ events' = [events EXCEPT ![h] = <<>>]
    /\ lagged' = [lagged EXCEPT ![h] = FALSE]
    /\ UNCHANGED owners

\* A send to a client that left lands in a buffer nobody reads.
Deregister(h) ==
    /\ clients' = clients \ {h}
    /\ owners' = [owners EXCEPT ![Owner[serve[h].of]] = @ - 1]
    /\ serve' = [serve EXCEPT ![h] = Idle]
    /\ fan' = Fan(fan.e, fan.to \ {h})
    /\ events' = [events EXCEPT ![h] = <<>>]
    /\ lagged' = [lagged EXCEPT ![h] = FALSE]

\* Mutant: the batch of a lagged client is written on the way out.
Unbroken(h) == TRUE
Whole(h) == ~lagged[h]

\* The request ended or the server closes: the batch is written, unless it
\* has a gap.
Finish(h) ==
    LET batch == serve[h].batch
    IN /\ serve[h].pc = "live"
       /\ closed \/ conn[serve[h].of] # h
       /\ IF batch # <<>> /\ Whole(h) THEN Write(h, frame(batch))
          ELSE UNCHANGED wire
       /\ Deregister(h)
       /\ UNCHANGED <<source, inbox, page, faults, ghosts>>

\* A write failed, or was blocked for writeTimeout.
WriteFails(h) ==
    /\ serve[h].pc # "off"
    /\ faults < MaxFaults /\ faults' = faults + 1
    /\ Deregister(h)
    /\ UNCHANGED <<source, inbox, wire, page, ghosts>>

(***************************************************************************)
(* The browser: external.  A sync makes the page refetch; the answer holds *)
(* whatever the cache holds by then.                                       *)
(***************************************************************************)
Receive(b) ==
    LET h == conn[b]
        f == Head(wire[h])
    IN /\ h # None
       /\ wire[h] # <<>>
       /\ wire' = [wire EXCEPT ![h] = Tail(wire[h])]
       /\ cursor' = [cursor EXCEPT ![b] =
             [epoch |-> epoch, id |-> f.id, seen |-> f.seen]]
       /\ known' = [known EXCEPT ![b] = IF f.refetch THEN All(b)
                                        ELSE @ \cup f.changes]
       /\ refetched' = [refetched EXCEPT ![b] = IF f.refetch THEN LastSync
                                                ELSE @]
       /\ behind' = [behind EXCEPT ![b] = @ /\ ~f.refetch]
       /\ slipped' = [slipped EXCEPT ![b] = @ /\ ~f.refetch]
       /\ missed' = [missed EXCEPT ![b] = @ /\ ~f.refetch]
       /\ UNCHANGED <<source, queues, table, shared, serve, conn, reopening,
                      faults, told>>

\* The connection is lost with what is in flight on it.
Lost(b) ==
    /\ conn[b] # None
    /\ faults < MaxFaults /\ faults' = faults + 1
    /\ conn' = [conn EXCEPT ![b] = None]
    /\ wire' = [wire EXCEPT ![conn[b]] = <<>>]
    /\ UNCHANGED <<source, queues, table, shared, serve, cursor, reopening,
                   ghosts>>

\* The handler returned, and everything it wrote has been read.
Ended(b) ==
    /\ conn[b] # None
    /\ serve[conn[b]].pc = "off" /\ wire[conn[b]] = <<>>
    /\ conn' = [conn EXCEPT ![b] = None]
    /\ UNCHANGED <<source, queues, table, shared, serve, wire, cursor,
                   reopening, faults, ghosts>>

(***************************************************************************)
(* The process ends, by Close or by a crash, and another begins.           *)
(***************************************************************************)
Close ==
    /\ ~closed /\ epoch < MaxEpochs
    /\ closed' = TRUE
    /\ UNCHANGED <<epoch, hist, marks, notifying, queues, table, shared, serve,
                   wire, page, faults, ghosts>>

Restart ==
    /\ epoch < MaxEpochs
    /\ epoch' = epoch + 1 /\ closed' = FALSE
    /\ hist' = <<>> /\ marks' = <<>> /\ notifying' = Quiet
    /\ inbox' = <<>> /\ fan' = Fan(None, {})
    /\ clients' = {} /\ owners' = [o \in DOMAIN owners |-> 0]
    /\ events' = [h \in Handlers |-> <<>>]
    /\ lagged' = [h \in Handlers |-> FALSE]
    /\ serve' = [h \in Handlers |-> Idle]
    /\ wire' = [h \in Handlers |-> <<>>]
    /\ conn' = [b \in Browsers |-> None]
    /\ known' = [b \in Browsers |-> {}] /\ refetched' = [b \in Browsers |-> 0]
    /\ behind' = [b \in Browsers |-> TRUE]
    /\ slipped' = [b \in Browsers |-> FALSE]
    /\ told' = [h \in Handlers |-> {}]
    /\ missed' = [b \in Browsers |-> FALSE]
    /\ UNCHANGED <<cursor, reopening, faults>>

-----------------------------------------------------------------------------
Init ==
    /\ epoch = 1 /\ closed = FALSE
    /\ hist = <<>> /\ marks = <<>> /\ notifying = Quiet
    /\ inbox = <<>> /\ fan = Fan(None, {})
    /\ clients = {} /\ owners = [o \in {Owner[b] : b \in Browsers} |-> 0]
    /\ events = [h \in Handlers |-> <<>>]
    /\ lagged = [h \in Handlers |-> FALSE]
    /\ serve = [h \in Handlers |-> Idle]
    /\ wire = [h \in Handlers |-> <<>>]
    /\ conn = [b \in Browsers |-> None]
    /\ cursor = [b \in Browsers |-> None]
    /\ reopening = [b \in Browsers |-> TRUE]
    /\ faults = 0
    /\ known = [b \in Browsers |-> {}] /\ refetched = [b \in Browsers |-> 0]
    /\ behind = [b \in Browsers |-> FALSE]
    /\ missed = [b \in Browsers |-> FALSE]
    /\ slipped = [b \in Browsers |-> FALSE]
    /\ told = [h \in Handlers |-> {}]

Notifies ==
    \/ \E type \in Types \ {"gap"} : Notify(type)
    \/ "gap" \in Types /\ NotifyGap
    \/ NotifySync

Broadcasts == Broadcast \/ BroadcastDrops

FansOut == TakeInbox \/ \E h \in Handlers : fanOut(h)

Serves(h) ==
    \/ Open(h) \/ replayEvents(h) \/ CountFirst(h) \/ syncFrame(h)
    \/ TakeEvent(h) \/ Tick(h) \/ LaggedTick(h) \/ Finish(h)

Browses(b) ==
    \/ Receive(b) \/ Ended(b) \/ Refuse(b)
    \/ \E h \in Handlers : Connect(b, h)

Fails ==
    \/ \E h \in Handlers : WriteFails(h)
    \/ \E b \in Browsers : Lost(b)
    \/ Close \/ Restart

Next ==
    \/ Notifies \/ Broadcasts \/ FansOut
    \/ \E h \in Handlers : Serves(h)
    \/ \E b \in Browsers : Browses(b)
    \/ Fails

Spec == Init /\ [][Next]_vars

\* The notifier, fanOut, every handler and the browser's retries proceed.
FairSpec ==
    /\ Spec
    /\ WF_vars(Broadcasts) /\ WF_vars(FansOut)
    /\ \A h \in Handlers : WF_vars(Serves(h))
    /\ \A b \in Browsers : WF_vars(Browses(b))

(***************************************************************************)
(* Properties.                                                             *)
(***************************************************************************)
Item == [sync: 0..MaxSyncs, id: 0..MaxHistory, type: Types \cup {"sync", "gap"}]
Frame == [id: 0..MaxHistory, seen: 0..MaxSyncs, changes: SUBSET (1..MaxHistory),
          refetch: BOOLEAN]
Cursor == [epoch: 1..MaxEpochs, id: 0..MaxHistory, seen: 0..MaxSyncs]
Serving == [of: Browsers \cup {None},
            pc: {"off", "open", "since", "count", "mark", "live"},
            cur: Cursor \cup {None}, batch: Seq(Item),
            skipBelow: 0..MaxHistory, syncedThrough: 0..MaxSyncs]

ASSUME NoneIsNothing == None \notin Item \cup Cursor

\* Every variable holds what its declaration in broadcaster.go says; no buffer
\* exceeds its capacity.
TypeOK ==
    /\ epoch \in 1..MaxEpochs /\ closed \in BOOLEAN
    /\ hist \in Seq(Types \cup {"recovered", "gap"}) /\ Count <= MaxHistory
    /\ marks \in Seq(0..MaxHistory) /\ LastSync <= MaxSyncs
    /\ notifying \in [e: Item \cup {None}, full: BOOLEAN]
    /\ inbox \in Seq(Item) /\ Len(inbox) <= InboxCap
    /\ fan \in [e: Item \cup {None}, to: SUBSET clients]
    /\ clients \subseteq Handlers
    /\ owners \in [{Owner[b] : b \in Browsers} -> Nat]
    /\ events \in [Handlers -> Seq(Item)]
    /\ \A h \in Handlers : Len(events[h]) <= EventsCap
    /\ lagged \in [Handlers -> BOOLEAN]
    /\ serve \in [Handlers -> Serving]
    /\ wire \in [Handlers -> Seq(Frame)]
    /\ conn \in [Browsers -> Handlers \cup {None}]
    /\ cursor \in [Browsers -> Cursor \cup {None}]
    /\ reopening \in [Browsers -> BOOLEAN]
    /\ faults \in 0..MaxFaults
    /\ known \in [Browsers -> SUBSET (1..MaxHistory)]
    /\ refetched \in [Browsers -> 0..MaxSyncs]
    /\ {behind, missed, slipped} \subseteq [Browsers -> BOOLEAN]
    /\ told \in [Handlers -> SUBSET (1..MaxHistory)]

\* No slot leaks and no cap is exceeded, however handlers end: what ServeSSE
\* counts for an owner is the connections it holds.
SlotsAccounted ==
    /\ clients = {h \in Handlers : serve[h].pc # "off"}
    /\ Cardinality(clients) <= MaxClients
    /\ \A o \in DOMAIN owners :
          /\ owners[o] = Cardinality({h \in clients : Owner[serve[h].of] = o})
          /\ owners[o] <= MaxClientsPerOwner

\* On its way to h's client: still with the notifier, in the inbox or in
\* fanOut, or in the client's own buffer.
InFlight(h) ==
    ({notifying.e} \cup {inbox[i] : i \in 1..Len(inbox)}
     \cup {fan.e : x \in fan.to \cap {h}}
     \cup {events[h][i] : i \in 1..Len(events[h])}) \ {None}

Refetches(h) ==
    \/ \E i \in 1..Len(wire[h]) : wire[h][i].refetch
    \/ serve[h].pc \in {"count", "mark"}
    \/ lagged[h]
    \/ SyncsIn(serve[h].batch) # {}

\* A change the page of a live connection does not know of is on its way to
\* it, past every filter still ahead of it, or the page will be told to
\* refetch; likewise a sync, and a page whose data is of an earlier process.
\* Two ways out are the code's own: a page that had no id yet when its browser
\* retried (missed), and a replay a sync overtook (slipped).
\* Nothing is lost silently between the history, the inbox, fanOut, the
\* client's buffer, the batch, the replay and the cursor.
NoSilentGap ==
    \A b \in Browsers :
        LET h == conn[b] IN
        (h # None /\ serve[h].pc = "live" /\ ~Refetches(h) /\ ~missed[b]) =>
            /\ ~behind[b]
            /\ \A i \in All(b) \ known[b] :
                  \/ \E j \in 1..Len(wire[h]) : i \in wire[h][j].changes
                  \/ i \in ChangesIn(serve[h].batch)
                  \/ \E e \in InFlight(h) : ~IsSync(e) /\ e.id = i
                                            /\ ~Skipped(h, e)
            /\ \A k \in (refetched[b] + 1)..LastSync :
                  slipped[b] \/ \E e \in InFlight(h) : e.sync >= k
                                                       /\ ~Skipped(h, e)

\* A page knows every change up to the id it would present: replay starts
\* after it.
CursorSound ==
    \A b \in Browsers : LET cur == cursor[b] IN
        cur # None /\ ~missed[b] => (cur.epoch = epoch =>
            \A i \in All(b) : i <= cur.id => i \in known[b])

\* One connection tells of a change once: neither a replayed change nor one a
\* sync frame covered comes again live.
ToldOnce ==
    \A h \in Handlers : ChangesIn(serve[h].batch) \cap told[h] = {}

\* Once changes stop, and connections hold, every page knows of every change
\* and every sync.
Told(b) == known[b] = All(b) /\ refetched[b] = LastSync /\ ~behind[b]
CatchesUp == <>[](\A b \in Browsers : slipped[b] \/ missed[b] \/ Told(b))

\* Buffers and slots stay within their limits and are all accounted for.
WithinLimits == TypeOK /\ SlotsAccounted
=============================================================================
