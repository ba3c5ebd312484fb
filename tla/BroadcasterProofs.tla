-------------------------- MODULE BroadcasterProofs --------------------------
(***************************************************************************)
(* Proofs about Broadcaster, for any pages, handlers, caps, buffers and    *)
(* number of changes, syncs, faults and restarts.  All the properties rest *)
(* on one invariant, which relates the order of the buffers, the windows   *)
(* of the handlers and what each page knows.                               *)
(***************************************************************************)
EXTENDS Broadcaster, SequencingProofs, FiniteSetTheorems, TLAPS


(***************************************************************************)
(* The inductive invariant.  What is in the buffers comes in the order of  *)
(* the history; what a frame, a replay window or a cursor passes over, the *)
(* page knows, or is told to refetch; and what the page of a live          *)
(* connection does not know is still on its way.                           *)
(***************************************************************************)
Items(s) == {s[i] : i \in 1..Len(s)}
Fanned(h) == {fan.e : x \in fan.to \cap {h}}
Notified == {notifying.e} \ {None}
Ahead(h) == Items(events[h]) \cup Fanned(h) \cup Items(inbox) \cup Notified

\* A notifier that found the inbox full, and a fan that still goes on, hold
\* an event; no cursor is of a later process.
Typed ==
    /\ TypeOK
    /\ notifying.full => notifying.e # None
    /\ fan.to # {} => fan.e # None
    /\ \A b \in Browsers : cursor[b] # None => cursor[b].epoch <= epoch

\* A connection is one page's.
Apart == \A b, p \in Browsers : conn[b] # None /\ conn[p] = conn[b] => p = b

\* Every event is of an entry of the history, or the sync of its number.
Fits(e) == IF IsSync(e) THEN e.sync <= LastSync /\ e.id = marks[e.sync]
           ELSE e.id \in 1..Count /\ hist[e.id] = e.type

\* Syncs come at growing positions.
Marked ==
    /\ \A k \in 1..LastSync : marks[k] <= Count
    /\ \A k, l \in 1..LastSync : k <= l => marks[k] <= marks[l]

\* The order of the history, syncs of one position by number.
Before(a, c) == a.id < c.id \/ (a.id = c.id /\ a.sync < c.sync)
Precede(A, C) == \A a \in A, c \in C : Before(a, c)
InOrder(s) == \A i, j \in 1..Len(s) : i < j => Before(s[i], s[j])

Queued ==
    /\ \A e \in Notified \cup Items(inbox) : Fits(e)
    /\ InOrder(inbox) /\ Precede(Items(inbox), Notified)

Serviced(h) ==
    /\ serve[h].pc # "off" => serve[h].of \in Browsers
    /\ serve[h].pc # "live" => serve[h].batch = <<>>
    /\ serve[h].pc = "off" => events[h] = <<>>
    /\ serve[h].pc = "open" => serve[h].syncedThrough = 0 /\ serve[h].skipBelow = 0
    /\ serve[h].pc = "since" => serve[h].cur # None

Ordered(h) ==
    /\ \A e \in Ahead(h) \cup Items(serve[h].batch) : Fits(e)
    /\ InOrder(events[h])
    /\ Precede(Fanned(h), Items(inbox) \cup Notified)
    /\ Precede(Items(events[h]), Fanned(h) \cup Items(inbox) \cup Notified)
    /\ Precede(Items(serve[h].batch), Ahead(h))

\* No position is past the history, and no number past the newest sync; a
\* frame that carries a number refetches.
Bounded(h) ==
    /\ serve[h].skipBelow <= Count /\ serve[h].syncedThrough <= LastSync
    /\ \A f \in Items(wire[h]) :
          f.id <= Count /\ f.seen <= LastSync /\ (f.seen > 0 => f.refetch)

\* What comes again is skipped.
Once(h) ==
    serve[h].pc # "off" =>
        /\ told[h] \subseteq 1..Count
        /\ ChangesIn(serve[h].batch) \cap told[h] = {}
        /\ \A e \in Ahead(h) :
              ~IsSync(e) /\ e.id > serve[h].skipBelow => e.id \notin told[h]

\* A page whose handler has not returned is the one it serves, and nothing
\* was written before its replay.
Paired(b) == conn[b] # None =>
    LET s == serve[conn[b]] IN
        /\ s.pc = "off" \/ s.of = b
        /\ s.pc \in {"open", "since"} =>
              wire[conn[b]] = <<>> /\ (s.cur # None => s.cur = cursor[b])
        /\ s.pc = "since" => s.cur.epoch = epoch

Within(b) ==
    /\ refetched[b] <= LastSync
    /\ cursor[b] # None /\ cursor[b].epoch = epoch =>
          cursor[b].id <= Count /\ cursor[b].seen <= LastSync

\* What the first n frames on a connection bring a page up to that knows of
\* the changes in K, or refetched after sync r.
Reached(K, w, n, i) == i \in K \/ \E m \in 1..n : w[m].refetch \/ i \in w[m].changes
Refreshed(r, w, n, k) == k <= r \/ \E m \in 1..n : w[m].refetch
UpTo(b, w, n, id) ==
    /\ \A i \in All(b) : i <= id => Reached(known[b], w, n, i)
    /\ \A k \in 1..LastSync : marks[k] < id => slipped[b] \/ Refreshed(refetched[b], w, n, k)

CursorKeeps(b) == cursor[b] # None /\ cursor[b].epoch = epoch =>
    UpTo(b, <<>>, 0, cursor[b].id) /\ cursor[b].seen <= refetched[b]

FramesKeep(b) == conn[b] # None =>
    \A j \in 1..Len(wire[conn[b]]) : UpTo(b, wire[conn[b]], j, wire[conn[b]][j].id)

\* Data of an earlier process is refetched before anything else arrives.
Outdated(b) == behind[b] =>
    /\ cursor[b] # None => cursor[b].epoch # epoch
    /\ conn[b] # None =>
          LET h == conn[b] IN
          IF wire[h] # <<>> THEN wire[h][1].refetch
          ELSE \/ serve[h].pc \in {"off", "count", "mark"}
               \/ serve[h].pc = "open" /\ serve[h].cur # None

\* What a handler skips, its page has or is told to refetch.
WindowKeeps(b) == conn[b] # None =>
    LET s == serve[conn[b]]
        w == wire[conn[b]]
    IN  /\ s.pc = "live" =>
              \A i \in All(b) : i <= s.skipBelow => Reached(known[b], w, Len(w), i)
        /\ s.pc \in {"since", "live"} =>
              \A k \in 1..s.syncedThrough :
                  slipped[b] \/ Refreshed(refetched[b], w, Len(w), k)

\* Nothing else is lost on the way to a connection that is not marked.
Listens(s) == s.pc = "live" \/ (s.pc = "open" /\ s.cur = None)
Flows(b) == conn[b] # None =>
    LET h == conn[b]
        s == serve[h]
        w == wire[h]
    IN  ~lagged[h] /\ SyncsIn(s.batch) = {} =>
        /\ Listens(s) => \A i \in All(b) :
              \/ Reached(known[b], w, Len(w), i)
              \/ i \in ChangesIn(s.batch)
              \/ \E e \in Ahead(h) : ~IsSync(e) /\ e.id = i
        /\ Listens(s) \/ s.pc = "since" =>
              \A k \in (s.syncedThrough + 1)..LastSync :
                  \/ slipped[b] \/ Refreshed(refetched[b], w, Len(w), k)
                  \/ \E e \in Ahead(h) : e.sync = k

Handled(h) == Serviced(h) /\ Ordered(h) /\ Bounded(h) /\ Once(h)
Intact(b) == CursorKeeps(b) /\ FramesKeep(b) /\ Outdated(b) /\ WindowKeeps(b) /\ Flows(b)
Paged(b) == Paired(b) /\ Within(b) /\ (~missed[b] => Intact(b))

IInv ==
    /\ Typed /\ SlotsAccounted /\ IsFiniteSet(clients)
    /\ Apart /\ Marked /\ Queued
    /\ \A h \in Handlers : Handled(h)
    /\ \A b \in Browsers : Paged(b)
(***************************************************************************)
(* Sequences, as far as the invariant sees them.                           *)
(***************************************************************************)
LEMMA ItemsAppend ==
    ASSUME NEW S, NEW s \in Seq(S), NEW x \in S
    PROVE  Append(s, x) \in Seq(S) /\ Items(Append(s, x)) = Items(s) \cup {x}
  <1>1. /\ Append(s, x) \in Seq(S) /\ Len(Append(s, x)) = Len(s) + 1 /\ Len(s) \in Nat
        /\ \A i \in 1..Len(s) : Append(s, x)[i] = s[i]
        /\ Append(s, x)[Len(s) + 1] = x
    BY AppendProperties
  <1> DEFINE t == Append(s, x)
  <1> HIDE DEF t
  <1>2. \A i \in 1..(Len(s) + 1) : i \in 1..Len(s) \/ i = Len(s) + 1
    BY <1>1
  <1>3. \A i \in 1..Len(s) : i \in 1..(Len(s) + 1)
    BY <1>1
  <1>4. Len(s) + 1 \in 1..(Len(s) + 1)
    BY <1>1
  <1>5. Items(t) = Items(s) \cup {x}
    BY <1>1, <1>2, <1>3, <1>4 DEF Items, t
  <1>6. QED
    BY <1>1, <1>5 DEF t

LEMMA ItemsTail ==
    ASSUME NEW S, NEW s \in Seq(S), s # <<>>
    PROVE  /\ Tail(s) \in Seq(S) /\ Len(Tail(s)) = Len(s) - 1 /\ Len(s) \in Nat \ {0}
           /\ Head(s) = s[1] /\ Head(s) \in S
           /\ \A i \in 1..(Len(s) - 1) : Tail(s)[i] = s[i + 1]
           /\ Items(s) = {Head(s)} \cup Items(Tail(s))
  <1>1. /\ Tail(s) \in Seq(S) /\ Len(Tail(s)) = Len(s) - 1 /\ Len(s) \in Nat \ {0}
        /\ Head(s) = s[1] /\ Head(s) \in S
        /\ \A i \in 1..(Len(s) - 1) : Tail(s)[i] = s[i + 1]
    BY HeadTailProperties
  <1> DEFINE t == Tail(s)
  <1> HIDE DEF t
  <1>2. \A i \in 1..Len(s) : i = 1 \/ (i - 1 \in 1..(Len(s) - 1) /\ i - 1 + 1 = i)
    BY <1>1
  <1>3. \A i \in 1..(Len(s) - 1) : i + 1 \in 1..Len(s)
    BY <1>1
  <1>4. 1 \in 1..Len(s)
    BY <1>1
  <1>5. ASSUME NEW x \in Items(s) PROVE x = Head(s) \/ x \in Items(t)
    <2>1. PICK i \in 1..Len(s) : x = s[i]
      BY DEF Items
    <2>2. CASE i = 1
      BY <1>1, <2>1, <2>2
    <2>3. CASE i # 1
      <3>1. i - 1 \in 1..Len(t) /\ t[i - 1] = s[i]
        BY <1>1, <1>2, <2>3 DEF t
      <3>2. QED
        BY <2>1, <3>1 DEF Items
    <2>4. QED
      BY <2>2, <2>3
  <1>6. Items(t) \subseteq Items(s) /\ Head(s) \in Items(s)
    BY <1>1, <1>3, <1>4 DEF Items, t
  <1>7. Items(s) = {Head(s)} \cup Items(t)
    BY <1>5, <1>6
  <1>8. QED
    BY <1>1, <1>7 DEF t

LEMMA ItemsNone == Items(<<>>) = {}
  BY DEF Items

LEMMA ItemsIn ==
    ASSUME NEW S, NEW s \in Seq(S)
    PROVE  /\ \A x \in Items(s) : x \in S
           /\ s # <<>> => Items(s) # {}
  <1>1. Len(s) \in Nat /\ \A i \in 1..Len(s) : s[i] \in S
    OBVIOUS
  <1>2. s # <<>> => 1 \in 1..Len(s)
    BY EmptySeq
  <1>3. QED
    BY <1>1, <1>2 DEF Items

LEMMA InOrderAppend ==
    ASSUME NEW S, NEW s \in Seq(S), NEW x \in S, InOrder(s), Precede(Items(s), {x})
    PROVE  InOrder(Append(s, x))
  <1>1. /\ Len(Append(s, x)) = Len(s) + 1 /\ Len(s) \in Nat
        /\ \A i \in 1..Len(s) : Append(s, x)[i] = s[i]
        /\ Append(s, x)[Len(s) + 1] = x
    BY AppendProperties
  <1> DEFINE t == Append(s, x)
  <1> HIDE DEF t
  <1>2. \A i \in 1..(Len(s) + 1) : i \in 1..Len(s) \/ i = Len(s) + 1
    BY <1>1
  <1>3. ASSUME NEW i \in 1..(Len(s) + 1), NEW j \in 1..(Len(s) + 1), i < j
        PROVE  Before(t[i], t[j])
    <2>1. i \in 1..Len(s)
      BY <1>1, <1>3
    <2>2. CASE j \in 1..Len(s)
      BY <1>1, <1>3, <2>1, <2>2 DEF InOrder, t
    <2>3. CASE j = Len(s) + 1
      <3>1. s[i] \in Items(s)
        BY <2>1 DEF Items
      <3>2. Before(s[i], x)
        BY <3>1 DEF Precede
      <3>3. t[i] = s[i] /\ t[j] = x
        BY <1>1, <2>1, <2>3 DEF t
      <3>4. QED
        BY <3>2, <3>3
    <2>4. QED
      BY <1>2, <2>2, <2>3
  <1>4. QED
    BY <1>1, <1>3 DEF InOrder, t

LEMMA InOrderTail ==
    ASSUME NEW S, NEW s \in Seq(S), s # <<>>, InOrder(s)
    PROVE  InOrder(Tail(s)) /\ Precede({Head(s)}, Items(Tail(s)))
  <1>1. /\ Len(Tail(s)) = Len(s) - 1 /\ Len(s) \in Nat \ {0}
        /\ Head(s) = s[1]
        /\ \A i \in 1..(Len(s) - 1) : Tail(s)[i] = s[i + 1]
    BY ItemsTail
  <1> DEFINE t == Tail(s)
  <1> HIDE DEF t
  <1>2. \A i, j \in 1..(Len(s) - 1) : i < j => i + 1 < j + 1 /\ i + 1 \in 1..Len(s)
                                               /\ j + 1 \in 1..Len(s)
    BY <1>1
  <1>3. \A i \in 1..(Len(s) - 1) : 1 < i + 1 /\ i + 1 \in 1..Len(s) /\ 1 \in 1..Len(s)
    BY <1>1
  <1>4. InOrder(t)
    BY <1>1, <1>2 DEF InOrder, t
  <1>5. \A i \in 1..Len(t) : Before(s[1], t[i])
    <2>1. Len(t) = Len(s) - 1
      BY <1>1 DEF t
    <2>2. \A i \in 1..(Len(s) - 1) : Before(s[1], s[i + 1])
      BY <1>3 DEF InOrder
    <2>3. QED
      BY <1>1, <2>1, <2>2 DEF t
  <1>6. QED
    BY <1>1, <1>4, <1>5 DEF Precede, Items, t

\* The newest of some positions is one of them, or the position before all.
LEMMA NewestIs ==
    ASSUME NEW S, S \subseteq Nat, NEW top \in Nat, \A n \in S : n <= top
    PROVE  /\ Newest(S) \in S \cup {0} /\ Newest(S) \in Nat /\ Newest(S) <= top
           /\ \A n \in S : n <= Newest(S)
  <1>1. \E m \in S \cup {0} : \A n \in S : n <= m
    <2>1. CASE S = {}
      BY <2>1
    <2>2. CASE S # {}
      BY <2>2, GreatestNatural
    <2>3. QED
      BY <2>1, <2>2
  <1>2. Newest(S) \in S \cup {0} /\ \A n \in S : n <= Newest(S)
    BY <1>1 DEF Newest
  <1>3. ASSUME NEW m, m \in S \/ m = 0 PROVE m \in Nat /\ m <= top
    <2>1. CASE m \in S
      BY <2>1
    <2>2. CASE m = 0
      BY <2>2
    <2>3. QED
      BY <1>3, <2>1, <2>2
  <1>4. QED
    BY <1>2, <1>3

(***************************************************************************)
(* Events and frames.                                                      *)
(***************************************************************************)
LEMMA ItemIs ==
    ASSUME NEW e \in Item
    PROVE  /\ e.sync \in Nat /\ e.id \in Nat /\ e.id <= MaxHistory /\ e.sync <= MaxSyncs
           /\ e # None /\ (~ IsSync(e) <=> e.sync = 0)
  BY BroadcasterAssumption, NoneIsNothing DEF Item, IsSync, BroadcasterAssumption, NoneIsNothing

LEMMA ItemsOf ==
    ASSUME NEW es \in Seq(Item)
    PROVE  /\ Ids(es) = {a.id : a \in Items(es)}
           /\ ChangesIn(es) = {a.id : a \in {x \in Items(es) : ~ IsSync(x)}}
           /\ SyncsIn(es) = {a.sync : a \in Items(es)} \ {0}
           /\ SyncsIn(es) = {} <=> \A a \in Items(es) : ~ IsSync(a)
  <1>1. Ids(es) = {a.id : a \in Items(es)}
    BY DEF Ids, Items
  <1>2. ChangesIn(es) = {a.id : a \in {x \in Items(es) : ~ IsSync(x)}}
    BY DEF ChangesIn, Items
  <1>3. SyncsIn(es) = {a.sync : a \in Items(es)} \ {0}
    BY DEF SyncsIn, Items
  <1>4. \A a \in Items(es) : ~ IsSync(a) <=> a.sync = 0
    BY ItemsIn, ItemIs
  <1>5. QED
    BY <1>1, <1>2, <1>3, <1>4

LEMMA NothingIn == ChangesIn(<<>>) = {} /\ SyncsIn(<<>>) = {}
  BY DEF ChangesIn, SyncsIn

LEMMA FrameIs ==
    ASSUME NEW es \in Seq(Item), \A a \in Items(es) : ~ IsSync(a) => a.id >= 1
    PROVE  /\ frame(es) \in Frame
           /\ frame(es).changes = ChangesIn(es)
           /\ frame(es).refetch <=> SyncsIn(es) # {}
           /\ es # <<>> => \E a \in Items(es) : a.id = frame(es).id
           /\ \A a \in Items(es) : a.id <= frame(es).id
           /\ frame(es).seen > 0 =>
                 \E a \in Items(es) : IsSync(a) /\ frame(es).seen = a.sync
  <1> DEFINE top == Newest(Ids(es))
             there == {i \in 1..Len(es) : es[i].id = top /\ IsSync(es[i])}
             seen == IF there = {} THEN 0 ELSE es[Newest(there)].sync
  <1>1. \A a \in Items(es) : a \in Item
    BY ItemsIn
  <1>2. Ids(es) \subseteq Nat /\ MaxHistory \in Nat /\ \A n \in Ids(es) : n <= MaxHistory
    BY <1>1, ItemsOf, ItemIs, BroadcasterAssumption DEF BroadcasterAssumption
  <1>3. /\ top \in Ids(es) \cup {0} /\ top \in Nat /\ top <= MaxHistory
        /\ \A n \in Ids(es) : n <= top
    BY <1>2, NewestIs
  <1>4. there \subseteq Nat /\ Len(es) \in Nat /\ \A i \in there : i <= Len(es) /\ i >= 1
    OBVIOUS
  <1>5. there # {} => Newest(there) \in there
    <2>1. Newest(there) \in there \cup {0} /\ \A i \in there : i <= Newest(there)
      BY <1>4, NewestIs
    <2>2. QED
      BY <1>4, <2>1
  <1>6. seen \in 0..MaxSyncs
        /\ (seen > 0 => \E a \in Items(es) : IsSync(a) /\ seen = a.sync)
    <2>1. CASE there = {}
      BY <2>1, BroadcasterAssumption DEF BroadcasterAssumption
    <2>2. CASE there # {}
      <3>1. PICK a \in Items(es) : IsSync(a) /\ seen = a.sync
        BY <1>5, <2>2 DEF Items
      <3>2. a \in Item
        BY <1>1
      <3>3. a.sync \in Nat /\ a.sync <= MaxSyncs /\ MaxSyncs \in Nat
        BY <3>2, ItemIs, BroadcasterAssumption DEF BroadcasterAssumption
      <3>4. a.sync \in 0..MaxSyncs
        BY <3>3
      <3>5. QED
        BY <3>1, <3>4
    <2>3. QED
      BY <2>1, <2>2
  <1>7. frame(es) = [id |-> top, seen |-> seen, changes |-> ChangesIn(es),
                     refetch |-> SyncsIn(es) # {}]
    BY DEF frame
  <1> HIDE DEF top, seen, there
  <1>8. ChangesIn(es) \in SUBSET (1..MaxHistory)
    <2>1. ASSUME NEW c \in ChangesIn(es) PROVE c \in 1..MaxHistory
      <3>1. PICK a \in Items(es) : ~ IsSync(a) /\ c = a.id
        BY ItemsOf
      <3>2. QED
        <4>1. a \in Item /\ a.id >= 1
          BY <1>1, <3>1
        <4>2. a.id \in Nat /\ a.id <= MaxHistory /\ MaxHistory \in Nat
          BY <4>1, ItemIs, BroadcasterAssumption DEF BroadcasterAssumption
        <4>3. QED
          BY <3>1, <4>1, <4>2
    <2>2. QED
      BY <2>1
  <1>9. frame(es) \in Frame
    BY <1>2, <1>3, <1>6, <1>7, <1>8 DEF Frame
  <1>10. es # <<>> => \E a \in Items(es) : a.id = top
    <2>1. SUFFICES ASSUME es # <<>> PROVE \E a \in Items(es) : a.id = top
      OBVIOUS
    <2>2. PICK a \in Items(es) : TRUE
      BY <2>1, ItemsIn
    <2>3. a.id \in Ids(es) /\ a.id \in Nat
      BY <1>1, ItemsOf, ItemIs
    <2>4. top \in Ids(es)
      BY <1>3, <2>3
    <2>5. QED
      BY <2>4, ItemsOf
  <1>11. ASSUME NEW a \in Items(es) PROVE a.id <= top
    <2>1. a.id \in Ids(es)
      BY ItemsOf
    <2>2. QED
      BY <1>3, <2>1
  <1>12. /\ frame(es).id = top /\ frame(es).seen = seen /\ frame(es).changes = ChangesIn(es)
         /\ frame(es).refetch = (SyncsIn(es) # {})
    BY <1>7
  <1>13. QED
    BY <1>6, <1>9, <1>10, <1>11, <1>12

\* What is on its way to a handler, by where it is.
LEMMA InFlightIs ==
    ASSUME NEW h
    PROVE  InFlight(h) = (Notified \cup Items(inbox) \cup Fanned(h) \cup Items(events[h])) \ {None}
  BY DEF InFlight, Notified, Items, Fanned

LEMMA Before2 ==
    ASSUME NEW a \in Item, NEW c \in Item, Before(a, c)
    PROVE  a.id <= c.id /\ (~ IsSync(c) => a.id < c.id)
  BY ItemIs DEF Before


LEMMA AheadIs ==
    ASSUME TypeOK, NEW h \in Handlers
    PROVE  InFlight(h) = Ahead(h) \ {None}
  BY InFlightIs DEF Ahead

(***************************************************************************)
(* What the types say, handler by handler and page by page.                *)
(***************************************************************************)
LEMMA HandlerTypes ==
    ASSUME TypeOK, NEW h \in Handlers
    PROVE  /\ events[h] \in Seq(Item) /\ lagged[h] \in BOOLEAN /\ wire[h] \in Seq(Frame)
           /\ serve[h] \in Serving /\ serve[h].batch \in Seq(Item)
           /\ serve[h].of \in Browsers \cup {None} /\ serve[h].cur \in Cursor \cup {None}
           /\ serve[h].skipBelow \in Nat /\ serve[h].syncedThrough \in Nat
           /\ told[h] \subseteq 1..MaxHistory
  <1>1. /\ events[h] \in Seq(Item) /\ lagged[h] \in BOOLEAN /\ wire[h] \in Seq(Frame)
        /\ serve[h] \in Serving /\ told[h] \subseteq 1..MaxHistory
    BY DEF TypeOK
  <1>2. QED
    BY <1>1 DEF Serving

LEMMA PageTypes ==
    ASSUME TypeOK, NEW b \in Browsers
    PROVE  /\ conn[b] \in Handlers \cup {None} /\ cursor[b] \in Cursor \cup {None}
           /\ (conn[b] # None => conn[b] \in Handlers)
           /\ reopening[b] \in BOOLEAN /\ known[b] \subseteq 1..MaxHistory
           /\ refetched[b] \in Nat
           /\ behind[b] \in BOOLEAN /\ missed[b] \in BOOLEAN /\ slipped[b] \in BOOLEAN
           /\ Count \in Nat /\ LastSync \in Nat /\ Count <= MaxHistory /\ LastSync <= MaxSyncs
           /\ All(b) \subseteq 1..Count
  <1>1. /\ conn[b] \in Handlers \cup {None} /\ cursor[b] \in Cursor \cup {None}
        /\ reopening[b] \in BOOLEAN /\ known[b] \subseteq 1..MaxHistory
        /\ refetched[b] \in Nat
    BY DEF TypeOK
  <1>2. behind[b] \in BOOLEAN /\ missed[b] \in BOOLEAN /\ slipped[b] \in BOOLEAN
    BY DEF TypeOK
  <1>3. Count \in Nat /\ LastSync \in Nat /\ Count <= MaxHistory /\ LastSync <= MaxSyncs
    BY DEF TypeOK, Count, LastSync
  <1>4. QED
    BY <1>1, <1>2, <1>3 DEF All

LEMMA AheadTypes ==
    ASSUME Typed, NEW h \in Handlers
    PROVE  /\ Ahead(h) \subseteq Item /\ Items(serve[h].batch) \subseteq Item
           /\ Notified \subseteq Item /\ Items(inbox) \subseteq Item /\ Fanned(h) \subseteq Item
  <1>1. Notified \subseteq Item
    BY DEF Typed, TypeOK, Notified
  <1>2. Fanned(h) \subseteq Item
    <2>1. fan.to # {} => fan.e \in Item
      BY DEF Typed, TypeOK
    <2>2. QED
      BY <2>1 DEF Fanned
  <1>3. Items(inbox) \subseteq Item
    BY ItemsIn DEF Typed, TypeOK
  <1>4. Items(events[h]) \subseteq Item /\ Items(serve[h].batch) \subseteq Item
    BY ItemsIn, HandlerTypes DEF Typed
  <1>5. QED
    BY <1>1, <1>2, <1>3, <1>4 DEF Ahead

(***************************************************************************)
(* What steps of other actors leave alone.                                 *)
(***************************************************************************)
LEMMA HandledKept ==
    ASSUME NEW h \in Handlers, Handled(h), UNCHANGED <<hist, marks, notifying, inbox>>,
           serve'[h] = serve[h], wire'[h] = wire[h], events'[h] = events[h],
           told'[h] = told[h], Fanned(h)' = Fanned(h)
    PROVE  Handled(h)'
  <1>1. Serviced(h)'
    BY DEF Handled, Serviced
  <1>2. Ahead(h)' = Ahead(h)
    BY DEF Ahead, Notified
  <1>3. Ordered(h)'
    BY <1>2 DEF Handled, Ordered, Fits, Notified, LastSync, Count
  <1>4. Bounded(h)'
    BY DEF Handled, Bounded, Count, LastSync
  <1>5. Once(h)'
    BY <1>2 DEF Handled, Once, Count
  <1>6. QED
    BY <1>1, <1>3, <1>4, <1>5 DEF Handled

LEMMA PageKept ==
    ASSUME NEW b \in Browsers, Paged(b), UNCHANGED <<epoch, hist, marks>>,
           known'[b] = known[b], refetched'[b] = refetched[b], behind'[b] = behind[b],
           missed'[b] = missed[b], slipped[b] => slipped'[b],
           cursor'[b] = cursor[b], conn'[b] = conn[b],
           conn[b] # None =>
               /\ serve'[conn[b]] = serve[conn[b]] /\ wire'[conn[b]] = wire[conn[b]]
               /\ lagged'[conn[b]] = lagged[conn[b]] /\ Ahead(conn[b])' = Ahead(conn[b])
    PROVE  Paged(b)'
  <1>1. Paired(b)' /\ Within(b)'
    BY DEF Paged, Paired, Within, Count, LastSync
  <1>2. SUFFICES ASSUME ~ missed[b] PROVE Intact(b)'
    BY <1>1 DEF Paged
  <1>3. Intact(b)
    BY <1>2 DEF Paged
  <1>4. All(b)' = All(b) /\ LastSync' = LastSync /\ Count' = Count
    BY DEF All, Count, LastSync
  <1>5. \A w, n, id : UpTo(b, w, n, id) => UpTo(b, w, n, id)'
    BY <1>4 DEF UpTo
  <1>6. CursorKeeps(b)'
    BY <1>3, <1>5 DEF Intact, CursorKeeps
  <1>7. FramesKeep(b)'
    BY <1>3, <1>5 DEF Intact, FramesKeep
  <1>8. Outdated(b)'
    BY <1>3 DEF Intact, Outdated
  <1>9. WindowKeeps(b)'
    BY <1>3, <1>4 DEF Intact, WindowKeeps
  <1>10. Flows(b)'
    <2>1. SUFFICES ASSUME conn[b] # None PROVE Flows(b)'
      BY DEF Flows
    <2>2. QED
      BY <1>3, <1>4, <2>1 DEF Intact, Flows
  <1>11. QED
    BY <1>6, <1>7, <1>8, <1>9, <1>10 DEF Intact

LEMMA FrameTypes ==
    ASSUME NEW f \in Frame
    PROVE  /\ f.id \in Nat /\ f.seen \in Nat /\ f.refetch \in BOOLEAN
           /\ f.id <= MaxHistory /\ f.seen <= MaxSyncs /\ f.changes \subseteq 1..MaxHistory
  BY BroadcasterAssumption DEF Frame, BroadcasterAssumption

LEMMA WireTypes ==
    ASSUME TypeOK, NEW h \in Handlers
    PROVE  /\ Len(wire[h]) \in Nat
           /\ \A f \in Items(wire[h]) : f \in Frame /\ f.id \in Nat /\ f.seen \in Nat
           /\ \A j \in 1..Len(wire[h]) : wire[h][j] \in Items(wire[h])
  <1>1. wire[h] \in Seq(Frame)
    BY HandlerTypes
  <1>2. \A f \in Items(wire[h]) : f \in Frame
    BY <1>1, ItemsIn
  <1>3. QED
    BY <1>1, <1>2, FrameTypes DEF Items

LEMMA MarkTypes ==
    ASSUME TypeOK
    PROVE  /\ Count \in Nat /\ LastSync \in Nat
           /\ \A k \in 1..LastSync : marks[k] \in Nat
  <1>1. marks \in Seq(0..MaxHistory) /\ hist \in Seq(Types \cup {"recovered", "gap"})
    BY DEF TypeOK
  <1>2. MaxHistory \in Nat
    BY BroadcasterAssumption DEF BroadcasterAssumption
  <1>3. \A k \in 1..Len(marks) : marks[k] \in 0..MaxHistory
    <2>1. \A S : marks \in Seq(S) => \A k \in 1..Len(marks) : marks[k] \in S
      OBVIOUS
    <2>2. QED
      BY <1>1, <2>1, Zenon
  <1>4. QED
    BY <1>1, <1>2, <1>3 DEF Count, LastSync

(***************************************************************************)
(* The notifier: what it appends is in flight, after everything else.      *)
(***************************************************************************)
LEMMA Produces ==
    ASSUME IInv, TypeOK', NEW x \in Item,
           notifying = Quiet, notifying'.e = x, ~ notifying'.full,
           UNCHANGED <<epoch, queues, table, shared, serve, wire, page,
                       known, refetched, behind, missed, slipped, told>>,
           Count <= Count', \A i \in 1..Count : hist'[i] = hist[i],
           LastSync <= LastSync', \A k \in 1..LastSync : marks'[k] = marks[k],
           \A k \in (LastSync + 1)..LastSync' :
               marks'[k] = Count /\ Count' = Count /\ x.sync = k,
           \A b \in Browsers : \A i \in All(b)' :
               i \in All(b) \/ (i > Count /\ ~ IsSync(x) /\ x.id = i),
           Fits(x)', ~ IsSync(x) => x.id > Count,
           \A e \in Item : Fits(e) => Before(e, x)
    PROVE  IInv'
  <1> USE DEF queues, table, shared, page
  <1>1. Typed /\ TypeOK
    BY DEF IInv, Typed
  <1>2. /\ Count \in Nat /\ LastSync \in Nat /\ Count' \in Nat /\ LastSync' \in Nat
        /\ \A k \in 1..LastSync : marks[k] \in Nat
    <2>1. Count' \in Nat /\ LastSync' \in Nat
      BY DEF TypeOK, Count, LastSync
    <2>2. QED
      BY <1>1, <2>1, MarkTypes
  <1>3. Notified = {} /\ Notified' = {x}
    BY NoneIsNothing DEF Notified, Quiet, NoneIsNothing
  <1>4. \A h \in Handlers : Ahead(h)' = Ahead(h) \cup {x}
    BY <1>3 DEF Ahead, Fanned, Items
  <1>5. Typed'
    BY <1>1 DEF Typed
  <1>6. SlotsAccounted' /\ IsFiniteSet(clients)' /\ Apart'
    BY DEF IInv, SlotsAccounted, Apart
  <1>7. Marked'
    <2>1. ASSUME NEW k \in 1..LastSync' PROVE marks'[k] <= Count'
      <3>1. CASE k \in 1..LastSync
        BY <1>2, <3>1 DEF IInv, Marked
      <3>2. CASE k \in (LastSync + 1)..LastSync'
        BY <1>2, <3>2
      <3>3. QED
        BY <1>2, <3>1, <3>2
    <2>2. ASSUME NEW k \in 1..LastSync', NEW l \in 1..LastSync', k <= l
          PROVE  marks'[k] <= marks'[l]
      <3>1. CASE l \in 1..LastSync
        <4>1. k \in 1..LastSync
          BY <1>2, <2>2, <3>1
        <4>2. QED
          BY <2>2, <3>1, <4>1 DEF IInv, Marked
      <3>2. CASE l \in (LastSync + 1)..LastSync'
        BY <2>1, <3>2
      <3>3. QED
        BY <1>2, <3>1, <3>2
    <2>3. QED
      BY <2>1, <2>2 DEF Marked
  <1>8. ASSUME NEW e \in Item, Fits(e) PROVE Fits(e)'
    <2>1. CASE IsSync(e)
      <3>1. e.sync \in 1..LastSync
        BY <1>2, <1>8, <2>1, ItemIs DEF Fits, IsSync
      <3>2. QED
        BY <1>2, <1>8, <2>1, <3>1 DEF Fits
    <2>2. CASE ~ IsSync(e)
      <3>1. e.id \in 1..Count'
        BY <1>2, <1>8, <2>2 DEF Fits
      <3>2. QED
        BY <1>8, <2>2, <3>1 DEF Fits
    <2>3. QED
      BY <2>1, <2>2
  <1>9. Queued'
    <2>1. \A e \in Items(inbox) : e \in Item /\ Fits(e) /\ Fits(e)' /\ Before(e, x)
      BY <1>1, <1>8, ItemsIn DEF IInv, Queued, TypeOK
    <2>2. QED
      BY <1>3, <2>1 DEF IInv, Queued, Precede, Items
  <1>10. ASSUME NEW h \in Handlers PROVE Handled(h)'
    <2>1. Handled(h)
      BY DEF IInv
    <2>2. Serviced(h)'
      BY <2>1 DEF Handled, Serviced
    <2>3. \A e \in Ahead(h) \cup Items(serve[h].batch) : e \in Item /\ Fits(e)' /\ Before(e, x)
      BY <1>1, <1>8, <2>1, AheadTypes DEF Handled, Ordered
    <2>4. Ordered(h)'
      <3>1. \A e \in Fanned(h) \cup Items(events[h]) : Before(e, x)
        BY <2>3 DEF Ahead
      <3>2. Precede(Fanned(h), Items(inbox) \cup {x})
            /\ Precede(Items(events[h]), Fanned(h) \cup Items(inbox) \cup {x})
            /\ Precede(Items(serve[h].batch), Ahead(h) \cup {x})
        BY <2>1, <2>3, <3>1 DEF Handled, Ordered, Precede
      <3>3. /\ Fanned(h)' = Fanned(h) /\ Items(inbox)' = Items(inbox)
            /\ Items(events[h])' = Items(events[h])
            /\ Items(serve[h].batch)' = Items(serve[h].batch)
        BY DEF Fanned, Items
      <3>4. InOrder(events[h])'
        BY <2>1 DEF Handled, Ordered, InOrder
      <3>5. \A e \in Ahead(h) \cup {x} \cup Items(serve[h].batch) : Fits(e)'
        BY <2>3
      <3>6. QED
        BY <1>3, <1>4, <3>2, <3>3, <3>4, <3>5 DEF Ordered
    <2>5. Bounded(h)'
      <3>1. \A f \in Items(wire[h]) : f \in Frame /\ f.id \in Nat /\ f.seen \in Nat
        BY <1>1, WireTypes
      <3>2. \A f \in Items(wire[h]) : f.id <= Count' /\ f.seen <= LastSync' /\ (f.seen > 0 => f.refetch)
        BY <1>2, <2>1, <3>1 DEF Handled, Bounded
      <3>3. serve[h].skipBelow <= Count' /\ serve[h].syncedThrough <= LastSync'
        BY <1>1, <1>2, <2>1, HandlerTypes DEF Handled, Bounded
      <3>4. Items(wire[h])' = Items(wire[h])
        BY DEF Items
      <3>5. QED
        BY <3>2, <3>3, <3>4 DEF Bounded
    <2>6. Once(h)'
      <3>1. SUFFICES ASSUME serve[h].pc # "off" PROVE Once(h)'
        BY DEF Once
      <3>2. told[h] \subseteq 1..Count /\ told[h] \subseteq 1..Count'
        BY <1>2, <2>1, <3>1 DEF Handled, Once
      <3>3. ~ IsSync(x) => x.id \notin told[h]
        BY <1>2, <3>2, ItemIs
      <3>4. QED
        BY <1>4, <2>1, <3>1, <3>2, <3>3 DEF Handled, Once
    <2>7. QED
      BY <2>2, <2>4, <2>5, <2>6 DEF Handled
  <1>11. ASSUME NEW b \in Browsers PROVE Paged(b)'
    <2>1. Paged(b) /\ (conn[b] # None => conn[b] \in Handlers /\ Handled(conn[b]))
      BY <1>1, PageTypes DEF IInv
    <2>2. refetched[b] \in Nat /\ cursor[b] \in Cursor \cup {None}
      BY <1>1, PageTypes
    <2>3. Paired(b)'
      BY <2>1 DEF Paged, Paired
    <2>4. Within(b)'
      <3>1. refetched[b] <= LastSync'
        BY <1>2, <2>1, <2>2 DEF Paged, Within
      <3>2. cursor[b] # None /\ cursor[b].epoch = epoch =>
                cursor[b].id <= Count' /\ cursor[b].seen <= LastSync'
        <4>1. cursor[b] # None => cursor[b].id \in Nat /\ cursor[b].seen \in Nat
          BY <2>2 DEF Cursor
        <4>2. QED
          BY <1>2, <2>1, <4>1 DEF Paged, Within
      <3>3. QED
        BY <3>1, <3>2 DEF Within
    <2>5. SUFFICES ASSUME ~ missed[b] PROVE Intact(b)'
      BY <2>3, <2>4 DEF Paged
    <2>6. Intact(b)
      BY <2>1, <2>5 DEF Paged
    <2>7. \A i \in All(b)' : i \in All(b) \/ (i > Count /\ ~ IsSync(x) /\ x.id = i)
      OBVIOUS
    <2>8. ASSUME NEW w, NEW n, NEW id \in Nat, id <= Count, UpTo(b, w, n, id)
          PROVE  UpTo(b, w, n, id)'
      <3>1. \A i \in All(b)' : i \in Nat
        BY <1>2 DEF All
      <3>2. \A i \in All(b)' : i <= id => Reached(known[b], w, n, i)
        BY <1>2, <2>7, <2>8, <3>1 DEF UpTo
      <3>3. ASSUME NEW k \in 1..LastSync', marks'[k] < id
            PROVE  slipped[b] \/ Refreshed(refetched[b], w, n, k)
        <4>1. k \in 1..LastSync
          BY <1>2, <2>8, <3>3
        <4>2. QED
          BY <2>8, <3>3, <4>1 DEF UpTo
      <3>4. QED
        BY <3>2, <3>3 DEF UpTo
    <2>9. CursorKeeps(b)'
      <3>1. SUFFICES ASSUME cursor[b] # None, cursor[b].epoch = epoch PROVE CursorKeeps(b)'
        BY DEF CursorKeeps
      <3>2. cursor[b].id \in Nat /\ cursor[b].id <= Count
        BY <2>1, <2>2, <3>1 DEF Paged, Within, Cursor
      <3>3. QED
        BY <2>6, <2>8, <3>1, <3>2 DEF Intact, CursorKeeps
    <2>10. FramesKeep(b)'
      <3>1. SUFFICES ASSUME conn[b] # None PROVE FramesKeep(b)'
        BY DEF FramesKeep
      <3>2. ASSUME NEW j \in 1..Len(wire[conn[b]])
            PROVE  UpTo(b, wire[conn[b]], j, wire[conn[b]][j].id)'
        <4>1. wire[conn[b]] \in Seq(Frame)
          BY <1>1, <2>1, <3>1, HandlerTypes
        <4>2. wire[conn[b]][j] \in Frame /\ wire[conn[b]][j] \in Items(wire[conn[b]])
          BY <4>1 DEF Items
        <4>3. wire[conn[b]][j].id \in Nat /\ wire[conn[b]][j].id <= Count
          BY <2>1, <3>1, <4>2 DEF Handled, Bounded, Frame
        <4>4. UpTo(b, wire[conn[b]], j, wire[conn[b]][j].id)
          BY <2>6, <3>1 DEF Intact, FramesKeep
        <4>5. QED
          BY <2>8, <4>3, <4>4
      <3>3. QED
        BY <3>1, <3>2 DEF FramesKeep
    <2>11. Outdated(b)'
      BY <2>6 DEF Intact, Outdated
    <2>12. WindowKeeps(b)'
      <3>1. SUFFICES ASSUME conn[b] # None PROVE WindowKeeps(b)'
        BY DEF WindowKeeps
      <3>2. /\ serve[conn[b]].skipBelow \in Nat /\ serve[conn[b]].skipBelow <= Count
            /\ serve[conn[b]].syncedThrough \in Nat
        BY <1>1, <2>1, <3>1, HandlerTypes DEF Handled, Bounded
      <3>3. \A i \in All(b)' : i <= serve[conn[b]].skipBelow => i \in All(b)
        BY <1>2, <2>7, <3>2 DEF All
      <3>4. QED
        BY <2>6, <3>1, <3>3 DEF Intact, WindowKeeps
    <2>13. Flows(b)'
      <3>1. SUFFICES ASSUME conn[b] # None PROVE Flows(b)'
        BY DEF Flows
      <3>2. serve[conn[b]].syncedThrough \in Nat
        BY <1>1, <2>1, <3>1, HandlerTypes
      <3>3. \A k \in (serve[conn[b]].syncedThrough + 1)..LastSync' :
               k \in (serve[conn[b]].syncedThrough + 1)..LastSync \/ x.sync = k
        BY <1>2, <3>2
      <3>4. Ahead(conn[b])' = Ahead(conn[b]) \cup {x}
        BY <1>4, <2>1, <3>1
      <3>5. QED
        BY <2>6, <2>7, <3>1, <3>3, <3>4 DEF Intact, Flows
    <2>14. QED
      BY <2>9, <2>10, <2>11, <2>12, <2>13 DEF Intact
  <1>12. QED
    BY <1>5, <1>6, <1>7, <1>9, <1>10, <1>11 DEF IInv

LEMMA NotifierIdle ==
    ASSUME TypeOK, NEW x \in Item, notifying' = [e |-> x, full |-> FALSE]
    PROVE  /\ notifying' \in [e: Item \cup {None}, full: BOOLEAN]
           /\ notifying'.e = x /\ ~ notifying'.full
  OBVIOUS

LEMMA FitsLow ==
    ASSUME TypeOK, Marked, NEW e \in Item, Fits(e)
    PROVE  e.id <= Count /\ e.sync <= LastSync
  <1>1. CASE IsSync(e)
    <2>1. e.sync \in 1..LastSync
      BY <1>1, ItemIs, MarkTypes DEF Fits, IsSync
    <2>2. QED
      BY <1>1, <2>1 DEF Fits, Marked
  <1>2. CASE ~ IsSync(e)
    BY <1>2, ItemIs, MarkTypes DEF Fits
  <1>3. QED
    BY <1>1, <1>2

LEMMA NotifyKeeps ==
    ASSUME IInv, NEW type \in Types \ {"gap"}, Notify(type)
    PROVE  IInv'
  <1>1. TypeOK /\ Marked
    BY DEF IInv, Typed
  <1>2. Count \in Nat /\ LastSync \in Nat /\ MaxHistory \in Nat /\ MaxSyncs \in Nat
    BY <1>1, MarkTypes, BroadcasterAssumption DEF BroadcasterAssumption
  <1>3. /\ hist' \in Seq(Types \cup {"recovered", "gap"})
        /\ Count' = Count + 1 /\ hist'[Count + 1] = type
        /\ \A i \in 1..Count : hist'[i] = hist[i]
    BY <1>1, AppendProperties DEF TypeOK, Notify, Count
  <1>4. PICK x \in Item : /\ x = Change(Count + 1, type)
                         /\ ~ IsSync(x) /\ x.id = Count + 1 /\ x.type = type /\ x.sync = 0
    <2>1. Change(Count + 1, type) \in Item
      BY <1>2 DEF Change, Item, IsSync, Notify
    <2>2. PICK x \in Item : x = Change(Count + 1, type)
      BY <2>1
    <2>3. QED
      BY <1>2, <2>2 DEF Change, IsSync
  <1>5. TypeOK'
    <2>1. Count' <= MaxHistory
      BY <1>2, <1>3 DEF Notify
    <2>2. notifying' \in [e: Item \cup {None}, full: BOOLEAN]
      BY <1>1, <1>4, NotifierIdle DEF Notify
    <2>3. QED
      BY <1>1, <1>3, <2>1, <2>2
         DEF TypeOK, Notify, LastSync, queues, table, shared, page, ghosts
  <1>6. \A b \in Browsers : \A i \in All(b)' : i \in All(b) \/ (i > Count /\ i = Count + 1)
    <2>1. SUFFICES ASSUME NEW b \in Browsers, NEW i \in All(b)'
                   PROVE  i \in All(b) \/ (i > Count /\ i = Count + 1)
      OBVIOUS
    <2>2. i \in 1..(Count + 1) /\ hist'[i] \in Accepts[b]
      BY <1>3 DEF All
    <2>3. CASE i \in 1..Count
      BY <1>3, <2>2, <2>3 DEF All
    <2>4. QED
      BY <1>2, <2>2, <2>3
  <1>7. Fits(x)'
    <2>1. x.id \in 1..Count'
      BY <1>2, <1>3, <1>4
    <2>2. hist'[x.id] = x.type
      BY <1>3, <1>4
    <2>3. ~ (x.sync > 0)
      BY <1>4
    <2>4. QED
      BY <2>1, <2>2, <2>3 DEF Fits, IsSync
  <1>8. ASSUME NEW e \in Item, Fits(e) PROVE Before(e, x)
    BY <1>1, <1>2, <1>4, <1>8, FitsLow, ItemIs DEF Before
  <1>9. LastSync' = LastSync
    BY DEF Notify, LastSync
  <1>10. notifying'.e = x /\ ~ notifying'.full
    BY <1>1, <1>4, NotifierIdle DEF Notify
  <1>11. QED
    <2>1. /\ notifying = Quiet
          /\ UNCHANGED <<epoch, queues, table, shared, serve, wire, page,
                         known, refetched, behind, missed, slipped, told>>
      BY DEF Notify, ghosts
    <2>2. Count <= Count' /\ LastSync <= LastSync' /\ (~ IsSync(x) => x.id > Count)
      BY <1>2, <1>3, <1>4, <1>9
    <2>3. /\ \A k \in 1..LastSync : marks'[k] = marks[k]
          /\ \A k \in (LastSync + 1)..LastSync' :
                 marks'[k] = Count /\ Count' = Count /\ x.sync = k
      BY <1>2, <1>9 DEF Notify
    <2>4. \A b \in Browsers : \A i \in All(b)' :
             i \in All(b) \/ (i > Count /\ ~ IsSync(x) /\ x.id = i)
      BY <1>4, <1>6
    <2>5. QED
      BY <1>3, <1>5, <1>7, <1>8, <1>10, <2>1, <2>2, <2>3, <2>4, Produces

LEMMA NotifyGapKeeps ==
    ASSUME IInv, "gap" \in Types, NotifyGap
    PROVE  IInv'
  <1>1. TypeOK /\ Marked
    BY DEF IInv, Typed
  <1>2. Count \in Nat /\ LastSync \in Nat /\ MaxHistory \in Nat /\ MaxSyncs \in Nat
    BY <1>1, MarkTypes, BroadcasterAssumption DEF BroadcasterAssumption
  <1>3. /\ hist' \in Seq(Types \cup {"recovered", "gap"})
        /\ Count' = Count + 2 /\ hist'[Count + 1] = "recovered" /\ hist'[Count + 2] = "gap"
        /\ \A i \in 1..Count : hist'[i] = hist[i]
    <2>1. hist \in Seq(Types \cup {"recovered", "gap"}) /\ hist' = hist \o <<"recovered", "gap">>
      BY <1>1 DEF TypeOK, NotifyGap
    <2>2. QED
      BY <2>1 DEF Count
  <1>4. PICK x \in Item : /\ x = Change(Count + 2, "gap")
                         /\ ~ IsSync(x) /\ x.id = Count + 2 /\ x.type = "gap" /\ x.sync = 0
    <2>1. Change(Count + 2, "gap") \in Item
      BY <1>2 DEF Change, Item, IsSync, NotifyGap
    <2>2. PICK x \in Item : x = Change(Count + 2, "gap")
      BY <2>1
    <2>3. QED
      BY <1>2, <2>2 DEF Change, IsSync
  <1>5. TypeOK'
    <2>1. Count' <= MaxHistory
      BY <1>2, <1>3 DEF NotifyGap
    <2>2. notifying' \in [e: Item \cup {None}, full: BOOLEAN]
      BY <1>1, <1>4, NotifierIdle DEF NotifyGap
    <2>3. QED
      BY <1>1, <1>3, <2>1, <2>2
         DEF TypeOK, NotifyGap, LastSync, queues, table, shared, page, ghosts
  <1>6. \A b \in Browsers : \A i \in All(b)' : i \in All(b) \/ (i > Count /\ i = Count + 2)
    <2>1. SUFFICES ASSUME NEW b \in Browsers, NEW i \in All(b)'
                   PROVE  i \in All(b) \/ (i > Count /\ i = Count + 2)
      OBVIOUS
    <2>2. i \in 1..(Count + 2) /\ hist'[i] \in Accepts[b] /\ Accepts[b] \subseteq Types
      BY <1>3, BroadcasterAssumption DEF All, BroadcasterAssumption
    <2>3. CASE i \in 1..Count
      BY <1>3, <2>2, <2>3 DEF All
    <2>4. i # Count + 1
      BY <1>3, <2>2, BroadcasterAssumption DEF BroadcasterAssumption
    <2>5. QED
      BY <1>2, <2>2, <2>3, <2>4
  <1>7. Fits(x)'
    <2>1. x.id \in 1..Count'
      BY <1>2, <1>3, <1>4
    <2>2. hist'[x.id] = x.type
      BY <1>3, <1>4
    <2>3. ~ (x.sync > 0)
      BY <1>4
    <2>4. QED
      BY <2>1, <2>2, <2>3 DEF Fits, IsSync
  <1>8. ASSUME NEW e \in Item, Fits(e) PROVE Before(e, x)
    BY <1>1, <1>2, <1>4, <1>8, FitsLow, ItemIs DEF Before
  <1>9. LastSync' = LastSync
    BY DEF NotifyGap, LastSync
  <1>10. notifying'.e = x /\ ~ notifying'.full
    BY <1>1, <1>4, NotifierIdle DEF NotifyGap
  <1>11. QED
    <2>1. /\ notifying = Quiet
          /\ UNCHANGED <<epoch, queues, table, shared, serve, wire, page,
                         known, refetched, behind, missed, slipped, told>>
      BY DEF NotifyGap, ghosts
    <2>2. Count <= Count' /\ LastSync <= LastSync' /\ (~ IsSync(x) => x.id > Count)
      BY <1>2, <1>3, <1>4, <1>9
    <2>3. /\ \A k \in 1..LastSync : marks'[k] = marks[k]
          /\ \A k \in (LastSync + 1)..LastSync' :
                 marks'[k] = Count /\ Count' = Count /\ x.sync = k
      BY <1>2, <1>9 DEF NotifyGap
    <2>4. \A b \in Browsers : \A i \in All(b)' :
             i \in All(b) \/ (i > Count /\ ~ IsSync(x) /\ x.id = i)
      BY <1>4, <1>6
    <2>5. QED
      BY <1>3, <1>5, <1>7, <1>8, <1>10, <2>1, <2>2, <2>3, <2>4, Produces

LEMMA NotifySyncKeeps ==
    ASSUME IInv, NotifySync
    PROVE  IInv'
  <1>1. TypeOK /\ Marked
    BY DEF IInv, Typed
  <1>2. /\ Count \in Nat /\ LastSync \in Nat /\ MaxHistory \in Nat /\ MaxSyncs \in Nat
        /\ Count <= MaxHistory
    BY <1>1, MarkTypes, BroadcasterAssumption DEF BroadcasterAssumption, TypeOK
  <1>3. /\ marks' \in Seq(0..MaxHistory)
        /\ LastSync' = LastSync + 1 /\ marks'[LastSync + 1] = Count
        /\ \A k \in 1..LastSync : marks'[k] = marks[k]
    <2>1. Count \in 0..MaxHistory
      BY <1>2
    <2>2. marks \in Seq(0..MaxHistory) /\ marks' = Append(marks, Count)
      BY <1>1 DEF TypeOK, NotifySync
    <2>3. QED
      BY <2>1, <2>2, AppendProperties DEF LastSync
  <1>4. PICK x \in Item : /\ x = [sync |-> LastSync + 1, id |-> Count, type |-> "sync"]
                         /\ IsSync(x) /\ x.id = Count /\ x.sync = LastSync + 1
    <2>1. [sync |-> LastSync + 1, id |-> Count, type |-> "sync"] \in Item
      BY <1>2 DEF Item, IsSync, NotifySync
    <2>2. PICK x \in Item : x = [sync |-> LastSync + 1, id |-> Count, type |-> "sync"]
      BY <2>1
    <2>3. QED
      BY <1>2, <2>2 DEF Change, IsSync
  <1>5. TypeOK'
    <2>1. LastSync' <= MaxSyncs
      BY <1>2, <1>3 DEF NotifySync
    <2>2. notifying' \in [e: Item \cup {None}, full: BOOLEAN]
      BY <1>1, <1>4, NotifierIdle DEF NotifySync
    <2>3. QED
      BY <1>1, <1>3, <2>1, <2>2
         DEF TypeOK, NotifySync, Count, queues, table, shared, page, ghosts
  <1>6. \A b \in Browsers : All(b)' = All(b)
    BY DEF All, Count, NotifySync
  <1>7. Fits(x)'
    BY <1>2, <1>3, <1>4 DEF Fits
  <1>8. ASSUME NEW e \in Item, Fits(e) PROVE Before(e, x)
    <2>1. e.id <= Count /\ e.sync <= LastSync /\ e.id \in Nat /\ e.sync \in Nat
      BY <1>1, <1>8, FitsLow, ItemIs
    <2>2. QED
      BY <1>2, <1>4, <2>1 DEF Before
  <1>9. Count' = Count /\ hist' = hist
    BY DEF NotifySync, Count
  <1>10. notifying'.e = x /\ ~ notifying'.full
    BY <1>1, <1>4, NotifierIdle DEF NotifySync
  <1>11. \A k \in (LastSync + 1)..LastSync' : k = LastSync + 1
    BY <1>2, <1>3
  <1>12. QED
    <2>1. /\ notifying = Quiet
          /\ UNCHANGED <<epoch, queues, table, shared, serve, wire, page,
                         known, refetched, behind, missed, slipped, told>>
      BY DEF NotifySync, ghosts
    <2>2. Count <= Count' /\ LastSync <= LastSync' /\ (~ IsSync(x) => x.id > Count)
      BY <1>2, <1>3, <1>4, <1>9
    <2>3. /\ \A i \in 1..Count : hist'[i] = hist[i]
          /\ \A k \in (LastSync + 1)..LastSync' :
                 marks'[k] = Count /\ Count' = Count /\ x.sync = k
      BY <1>3, <1>4, <1>9, <1>11
    <2>4. \A b \in Browsers : \A i \in All(b)' :
             i \in All(b) \/ (i > Count /\ ~ IsSync(x) /\ x.id = i)
      BY <1>6
    <2>5. QED
      BY <1>3, <1>5, <1>7, <1>8, <1>10, <2>1, <2>2, <2>3, <2>4, Produces

(***************************************************************************)
(* Broadcast and fanOut: an event moves on, or its clients are marked.     *)
(***************************************************************************)
LEMMA Moves ==
    ASSUME IInv, Typed', Queued',
           UNCHANGED <<epoch, hist, marks, table, serve, wire, page,
                       known, refetched, behind, missed, slipped, told>>,
           \A h \in Handlers : /\ serve[h].pc = "off" => events'[h] = <<>>
                               /\ Ordered(h)' /\ Ahead(h)' \subseteq Ahead(h)
                               /\ lagged[h] => lagged'[h],
           \A b \in Browsers, h \in Handlers : conn[b] = h /\ serve[h].pc # "off" =>
               \A e \in Ahead(h) : e \in Ahead(h)' \/ lagged'[h] \/ ~ accepts(b, e)
    PROVE  IInv'
  <1> USE DEF table, page
  <1>1. SlotsAccounted' /\ IsFiniteSet(clients)' /\ Apart' /\ Marked'
    BY DEF IInv, SlotsAccounted, Apart, Marked, Count, LastSync
  <1>2. Count' = Count /\ LastSync' = LastSync /\ \A b \in Browsers : All(b)' = All(b)
    BY DEF Count, LastSync, All
  <1>3. ASSUME NEW h \in Handlers PROVE Handled(h)'
    <2>1. Handled(h)
      BY DEF IInv
    <2>2. Serviced(h)'
      BY <2>1 DEF Handled, Serviced
    <2>3. Bounded(h)'
      BY <1>2, <2>1 DEF Handled, Bounded
    <2>4. Once(h)'
      BY <1>2, <2>1 DEF Handled, Once
    <2>5. QED
      BY <2>2, <2>3, <2>4 DEF Handled
  <1>4. ASSUME NEW b \in Browsers PROVE Paged(b)'
    <2>1. Paged(b) /\ (conn[b] # None => conn[b] \in Handlers /\ Handled(conn[b]))
      BY PageTypes DEF IInv, Typed
    <2>2. Paired(b)' /\ Within(b)'
      BY <1>2, <2>1 DEF Paged, Paired, Within
    <2>3. SUFFICES ASSUME ~ missed[b] PROVE Intact(b)'
      BY <2>2 DEF Paged
    <2>4. Intact(b)
      BY <2>1, <2>3 DEF Paged
    <2>5. \A w, n, id : UpTo(b, w, n, id) => UpTo(b, w, n, id)'
      BY <1>2 DEF UpTo
    <2>6. CursorKeeps(b)'
      BY <2>4, <2>5 DEF Intact, CursorKeeps
    <2>7. FramesKeep(b)'
      BY <2>4, <2>5 DEF Intact, FramesKeep
    <2>8. Outdated(b)'
      BY <2>4 DEF Intact, Outdated
    <2>9. WindowKeeps(b)'
      BY <1>2, <2>4 DEF Intact, WindowKeeps
    <2>10. Flows(b)'
      <3>1. SUFFICES ASSUME conn[b] # None, ~ lagged'[conn[b]],
                            SyncsIn(serve[conn[b]].batch) = {}, serve[conn[b]].pc # "off"
                     PROVE  Flows(b)'
        BY DEF Flows, Listens
      <3>2. ~ lagged[conn[b]] /\ conn[b] \in Handlers
        BY <2>1, <3>1
      <3>3. \A e \in Ahead(conn[b]) : accepts(b, e) => e \in Ahead(conn[b])'
        <4>1. PICK h \in Handlers : h = conn[b]
          BY <3>2
        <4>2. \A e \in Ahead(h) : accepts(b, e) => e \in Ahead(h)'
          BY <3>1, <4>1
        <4>3. QED
          BY <4>1, <4>2
      <3>4. ASSUME NEW i \in All(b), NEW e \in Ahead(conn[b]), ~ IsSync(e), e.id = i
            PROVE  e \in Ahead(conn[b])'
        <4>1. Fits(e)
          BY <2>1, <3>1 DEF Handled, Ordered
        <4>2. e.type \in Accepts[b]
          BY <3>4, <4>1 DEF Fits, All
        <4>3. QED
          BY <3>3, <4>2 DEF accepts
      <3>5. ASSUME NEW e \in Ahead(conn[b]), NEW k \in Nat \ {0}, e.sync = k
            PROVE  e \in Ahead(conn[b])'
        BY <3>3, <3>5 DEF accepts, IsSync
      <3>6. \A k \in (serve[conn[b]].syncedThrough + 1)..LastSync : k \in Nat \ {0}
        <4>1. serve[conn[b]].syncedThrough \in Nat
          BY <3>2, HandlerTypes DEF IInv, Typed
        <4>2. QED
          BY <4>1, MarkTypes DEF IInv, Typed
      <3>7. Listens(serve[conn[b]]) => \A i \in All(b) :
              \/ Reached(known[b], wire[conn[b]], Len(wire[conn[b]]), i)
              \/ i \in ChangesIn(serve[conn[b]].batch)
              \/ \E e \in Ahead(conn[b])' : ~ IsSync(e) /\ e.id = i
        BY <2>4, <3>1, <3>2, <3>4 DEF Intact, Flows
      <3>8. Listens(serve[conn[b]]) \/ serve[conn[b]].pc = "since" =>
              \A k \in (serve[conn[b]].syncedThrough + 1)..LastSync :
                  \/ slipped[b]
                  \/ Refreshed(refetched[b], wire[conn[b]], Len(wire[conn[b]]), k)
                  \/ \E e \in Ahead(conn[b])' : e.sync = k
        BY <2>4, <3>1, <3>2, <3>5, <3>6 DEF Intact, Flows
      <3>9. QED
        BY <1>2, <3>1, <3>7, <3>8 DEF Flows
    <2>11. QED
      BY <2>6, <2>7, <2>8, <2>9, <2>10 DEF Intact
  <1>5. QED
    BY <1>1, <1>3, <1>4 DEF IInv

\* Which handlers an event of a page's is for.
LEMMA ListeningIs ==
    ASSUME IInv, NEW b \in Browsers, NEW h \in Handlers, conn[b] = h, serve[h].pc # "off"
    PROVE  serve[h].of = b /\ \A e : accepts(b, e) => h \in Listening(e)
  <1>1. h # None
    BY BroadcasterAssumption DEF BroadcasterAssumption
  <1>2. h \in clients /\ serve[h].of = b
    BY <1>1 DEF IInv, SlotsAccounted, Paged, Paired
  <1>3. QED
    BY <1>2 DEF Listening

LEMMA BroadcastKeeps ==
    ASSUME IInv, Broadcast
    PROVE  IInv'
  <1> USE DEF table, page, shared, ghosts
  <1>1. Typed /\ TypeOK /\ Queued
    BY DEF IInv, Typed
  <1>2. CASE Len(inbox) < InboxCap
    <2>1. inbox' = Append(inbox, notifying.e) /\ notifying' = Quiet /\ ~ notifying.full
      BY <1>2 DEF Broadcast
    <2>2. notifying.e \in Item /\ notifying \in [e: Item \cup {None}, full: BOOLEAN]
      BY <1>1, <2>1 DEF TypeOK, Broadcast, Quiet
    <2>3. Notified = {notifying.e} /\ Notified' = {}
      BY <2>1, <2>2, ItemIs DEF Notified, Quiet
    <2>4. /\ inbox \in Seq(Item) /\ inbox' \in Seq(Item)
          /\ Items(inbox)' = Items(inbox) \cup {notifying.e}
          /\ Len(inbox') = Len(inbox) + 1 /\ Len(inbox) \in Nat
      <3>1. inbox \in Seq(Item)
        BY <1>1 DEF TypeOK
      <3>2. Items(Append(inbox, notifying.e)) = Items(inbox) \cup {notifying.e}
        BY <2>2, <3>1, ItemsAppend
      <3>3. Items(inbox)' = Items(Append(inbox, notifying.e))
        BY <2>1 DEF Items
      <3>4. QED
        BY <2>1, <2>2, <3>1, <3>2, <3>3, AppendProperties
    <2>5. Queued'
      <3>1. InOrder(inbox')
        BY <1>1, <2>1, <2>2, <2>3, <2>4, InOrderAppend DEF Queued
      <3>2. \A e \in Items(inbox) \cup Notified : Fits(e)'
        BY <1>1 DEF Queued, Fits, Broadcast, Count, LastSync
      <3>3. QED
        BY <2>3, <2>4, <3>1, <3>2 DEF Queued, InOrder, Precede
    <2>6. Typed'
      <3>1. Len(inbox') <= InboxCap
        BY <1>2, <2>4, BroadcasterAssumption DEF BroadcasterAssumption
      <3>2. notifying' \in [e: Item \cup {None}, full: BOOLEAN]
        BY <2>1 DEF Quiet
      <3>3. TypeOK'
        BY <1>1, <2>4, <3>1, <3>2 DEF TypeOK, Broadcast, Count, LastSync
      <3>4. QED
        BY <1>1, <2>1, <3>3 DEF Typed, Quiet, Broadcast
    <2>7. Items(inbox)' \cup Notified' = Items(inbox) \cup Notified
      BY <2>3, <2>4
    <2>8. ASSUME NEW h \in Handlers PROVE Ahead(h)' = Ahead(h) /\ Ordered(h)'
      <3>1. Ordered(h)
        BY DEF IInv, Handled
      <3>2. Fanned(h)' = Fanned(h) /\ Items(events[h])' = Items(events[h])
        BY DEF Fanned, Items, Broadcast
      <3>3. Ahead(h)' = Ahead(h)
        BY <2>7, <3>2 DEF Ahead
      <3>4. QED
        BY <2>7, <3>1, <3>2, <3>3 DEF Ordered, Fits, Broadcast, Count, LastSync
    <2>9. \A h \in Handlers : /\ serve[h].pc = "off" => events'[h] = <<>>
                              /\ Ordered(h)' /\ Ahead(h)' \subseteq Ahead(h)
                              /\ lagged[h] => lagged'[h]
      BY <2>8 DEF Broadcast, IInv, Handled, Serviced
    <2>10. QED
      BY <2>6, <2>5, <2>8, <2>9, Moves DEF Broadcast
  <1>3. CASE ~ (Len(inbox) < InboxCap)
    <2>1. inbox' = inbox /\ notifying' = [notifying EXCEPT !.full = TRUE]
      BY <1>3 DEF Broadcast
    <2>2. notifying \in [e: Item \cup {None}, full: BOOLEAN]
      BY <1>1 DEF TypeOK
    <2>3. notifying' \in [e: Item \cup {None}, full: BOOLEAN] /\ notifying'.e = notifying.e
          /\ notifying'.full
      BY <2>1, <2>2
    <2>4. notifying.e # None
      BY <2>2 DEF Broadcast, Quiet
    <2>5. Typed'
      <3>1. TypeOK'
        BY <1>1, <2>1, <2>3 DEF TypeOK, Broadcast, Count, LastSync
      <3>2. QED
        BY <1>1, <2>3, <2>4, <3>1 DEF Typed, Broadcast
    <2>6. Queued'
      BY <1>1, <2>1, <2>3
         DEF Queued, Notified, Broadcast, Fits, Count, LastSync, Items, InOrder
    <2>7. ASSUME NEW h \in Handlers PROVE Ahead(h)' = Ahead(h) /\ Ordered(h)'
      <3>1. Ordered(h)
        BY DEF IInv, Handled
      <3>2. /\ Fanned(h)' = Fanned(h) /\ Items(events[h])' = Items(events[h])
            /\ Items(inbox)' = Items(inbox) /\ Notified' = Notified
        BY <2>1, <2>3 DEF Fanned, Items, Notified, Broadcast
      <3>3. Ahead(h)' = Ahead(h)
        BY <3>2 DEF Ahead
      <3>4. QED
        BY <3>1, <3>2, <3>3 DEF Ordered, Fits, Broadcast, Count, LastSync
    <2>8. \A h \in Handlers : /\ serve[h].pc = "off" => events'[h] = <<>>
                              /\ Ordered(h)' /\ Ahead(h)' \subseteq Ahead(h)
                              /\ lagged[h] => lagged'[h]
      BY <2>7 DEF Broadcast, IInv, Handled, Serviced
    <2>9. QED
      BY <2>5, <2>6, <2>7, <2>8, Moves DEF Broadcast
  <1>4. QED
    BY <1>2, <1>3

LEMMA BroadcastDropsKeeps ==
    ASSUME IInv, BroadcastDrops
    PROVE  IInv'
  <1> USE DEF table, page, shared, queues, ghosts
  <1>1. Typed /\ TypeOK /\ Queued
    BY DEF IInv, Typed
  <1>2. Notified' = {} /\ Notified = {notifying.e}
    BY <1>1 DEF Notified, Quiet, BroadcastDrops, Typed
  <1>3. /\ \A h \in Handlers : lagged'[h] = (lagged[h] \/ h \in Listening(notifying.e))
        /\ lagged' \in [Handlers -> BOOLEAN]
    BY <1>1 DEF BroadcastDrops, TypeOK
  <1>4. Typed'
    <2>1. notifying' \in [e: Item \cup {None}, full: BOOLEAN] /\ ~ notifying'.full
      BY DEF BroadcastDrops, Quiet
    <2>2. TypeOK'
      BY <1>1, <1>3, <2>1 DEF TypeOK, BroadcastDrops, Count, LastSync
    <2>3. QED
      BY <1>1, <2>1, <2>2 DEF Typed, BroadcastDrops
  <1>5. Queued'
    BY <1>1, <1>2 DEF Queued, BroadcastDrops, Fits, Count, LastSync, Items, InOrder, Precede
  <1>6. ASSUME NEW h \in Handlers
        PROVE  Ahead(h)' = Ahead(h)' \cap Ahead(h) /\ Ahead(h) \subseteq Ahead(h)' \cup {notifying.e}
               /\ Ordered(h)'
    <2>1. Ordered(h)
      BY DEF IInv, Handled
    <2>2. /\ Fanned(h)' = Fanned(h) /\ Items(events[h])' = Items(events[h])
          /\ Items(inbox)' = Items(inbox)
      BY DEF Fanned, Items, BroadcastDrops
    <2>3. Ahead(h)' = Items(events[h]) \cup Fanned(h) \cup Items(inbox)
      BY <1>2, <2>2 DEF Ahead
    <2>4. Ahead(h)' \subseteq Ahead(h) /\ Ahead(h) \subseteq Ahead(h)' \cup {notifying.e}
      BY <1>2, <2>3 DEF Ahead
    <2>5. /\ InOrder(events[h])'
          /\ \A e \in Ahead(h)' \cup Items(serve[h].batch) : Fits(e)'
      BY <2>1, <2>4 DEF Ordered, InOrder, Fits, BroadcastDrops, Count, LastSync
    <2>6. /\ Precede(Fanned(h), Items(inbox))
          /\ Precede(Items(events[h]), Fanned(h) \cup Items(inbox))
          /\ Precede(Items(serve[h].batch), Ahead(h)')
      BY <2>1, <2>4 DEF Ordered, Precede
    <2>7. QED
      BY <1>2, <2>2, <2>4, <2>5, <2>6 DEF Ordered, BroadcastDrops
  <1>7. ASSUME NEW b \in Browsers, NEW h \in Handlers, conn[b] = h, serve[h].pc # "off",
               NEW e \in Ahead(h)
        PROVE  e \in Ahead(h)' \/ lagged'[h] \/ ~ accepts(b, e)
    <2>1. CASE e = notifying.e
      BY <1>3, <1>7, <2>1, ListeningIs
    <2>2. CASE e # notifying.e
      BY <1>6, <2>2
    <2>3. QED
      BY <2>1, <2>2
  <1>8. QED
    <2>1. \A h \in Handlers : /\ serve[h].pc = "off" => events'[h] = <<>>
                              /\ Ordered(h)' /\ Ahead(h)' \subseteq Ahead(h)
                              /\ lagged[h] => lagged'[h]
      BY <1>3, <1>6 DEF BroadcastDrops, IInv, Handled, Serviced
    <2>2. QED
      BY <1>4, <1>5, <1>7, <2>1, Moves DEF BroadcastDrops

LEMMA FanIs ==
    ASSUME NEW e, NEW to
    PROVE  /\ Fan(e, to) = [e |-> IF to = {} THEN None ELSE e, to |-> to]
           /\ Fan(e, to).to = to
           /\ to # {} => Fan(e, to).e = e
  BY DEF Fan

LEMMA FannedIs ==
    ASSUME NEW h
    PROVE  Fanned(h) = IF h \in fan.to THEN {fan.e} ELSE {}
  BY DEF Fanned

LEMMA TakeInboxKeeps ==
    ASSUME IInv, TakeInbox
    PROVE  IInv'
  <1> USE DEF source, table, page, shared, ghosts
  <1> DEFINE e == Head(inbox)
  <1>1. Typed /\ TypeOK /\ Queued /\ inbox \in Seq(Item) /\ inbox # <<>> /\ Len(inbox) <= InboxCap
    BY DEF IInv, Typed, TypeOK, TakeInbox
  <1>2. /\ inbox' = Tail(inbox) /\ inbox' \in Seq(Item)
        /\ Len(inbox') = Len(inbox) - 1 /\ Len(inbox) \in Nat /\ e \in Item
        /\ Items(inbox) = {e} \cup Items(Tail(inbox))
    BY <1>1, ItemsTail DEF TakeInbox
  <1>3. InOrder(Tail(inbox)) /\ Precede({e}, Items(Tail(inbox)))
    BY <1>1, InOrderTail DEF Queued
  <1>4. /\ fan' = Fan(e, Listening(e)) /\ fan'.to = Listening(e)
        /\ (Listening(e) # {} => fan'.e = e) /\ fan.to = {}
    BY FanIs DEF TakeInbox
  <1>5. Items(inbox)' = Items(Tail(inbox)) /\ InOrder(inbox') /\ Notified' = Notified
    BY <1>2, <1>3 DEF Items, InOrder, Notified, TakeInbox
  <1>6. Typed'
    <2>1. fan' \in [e: Item \cup {None}, to: SUBSET clients]
      <3>1. Listening(e) \subseteq clients
        BY DEF Listening
      <3>2. QED
        BY <1>2, <1>4, <3>1, FanIs
    <2>2. Len(inbox') <= InboxCap
      BY <1>1, <1>2, BroadcasterAssumption DEF BroadcasterAssumption
    <2>3. TypeOK'
      BY <1>1, <1>2, <2>1, <2>2 DEF TypeOK, TakeInbox, Count, LastSync
    <2>4. fan'.to # {} => fan'.e # None
      BY <1>2, <1>4, ItemIs
    <2>5. QED
      BY <1>1, <2>3, <2>4 DEF Typed, TakeInbox
  <1> HIDE DEF e
  <1>7. Queued'
    <2>1. \A x \in Notified \cup Items(Tail(inbox)) : Fits(x)'
      BY <1>1, <1>2 DEF Queued, Fits, TakeInbox, Count, LastSync
    <2>2. Precede(Items(Tail(inbox)), Notified)
      BY <1>1, <1>2 DEF Queued, Precede
    <2>3. QED
      BY <1>5, <2>1, <2>2 DEF Queued, InOrder
  <1>8. ASSUME NEW h \in Handlers
        PROVE  /\ Ahead(h)' \subseteq Ahead(h)
               /\ Ahead(h) \subseteq Ahead(h)' \cup {e}
               /\ h \in Listening(e) => e \in Ahead(h)'
               /\ Ordered(h)'
    <2>1. Ordered(h)
      BY DEF IInv, Handled
    <2>2. /\ Fanned(h) = {} /\ Fanned(h)' = IF h \in Listening(e) THEN {e} ELSE {}
      <3>1. h \in Listening(e) => fan'.e = e
        BY <1>4
      <3>2. fan'.to = Listening(e)
        BY <1>4
      <3>3. Fanned(h)' = IF h \in fan'.to THEN {fan'.e} ELSE {}
        BY DEF Fanned
      <3>4. QED
        BY <1>4, <3>1, <3>2, <3>3, FannedIs
    <2>3. Items(events[h])' = Items(events[h])
      BY DEF Items, TakeInbox
    <2>4. Ahead(h)' = Items(events[h]) \cup Fanned(h)' \cup Items(Tail(inbox)) \cup Notified
      BY <1>5, <2>3 DEF Ahead
    <2>5. Ahead(h)' \subseteq Ahead(h) /\ Ahead(h) \subseteq Ahead(h)' \cup {e}
      BY <1>2, <2>2, <2>4 DEF Ahead
    <2>6. \A x \in Ahead(h)' \cup Items(serve[h].batch) : Fits(x)'
      BY <2>1, <2>5 DEF Ordered, Fits, TakeInbox, Count, LastSync
    <2>7. Precede({e}, Items(Tail(inbox)) \cup Notified)
      BY <1>1, <1>2, <1>3 DEF Queued, Precede
    <2>8. /\ Precede(Fanned(h)', Items(Tail(inbox)) \cup Notified)
          /\ Precede(Items(events[h]), Fanned(h)' \cup Items(Tail(inbox)) \cup Notified)
          /\ Precede(Items(serve[h].batch), Ahead(h)')
      <3>1. Precede(Fanned(h)', Items(Tail(inbox)) \cup Notified)
        BY <2>2, <2>7 DEF Precede
      <3>2. Fanned(h)' \cup Items(Tail(inbox)) \cup Notified \subseteq
                Fanned(h) \cup Items(inbox) \cup Notified
        BY <1>2, <2>2
      <3>3. QED
        BY <2>1, <2>5, <3>1, <3>2 DEF Ordered, Precede
    <2>9. /\ Items(serve[h].batch)' = Items(serve[h].batch) /\ InOrder(events[h])'
      BY <2>1 DEF Ordered, InOrder, Items, TakeInbox
    <2>10. Ordered(h)'
      BY <1>5, <2>3, <2>6, <2>8, <2>9 DEF Ordered
    <2>11. h \in Listening(e) => e \in Ahead(h)'
      BY <2>2, <2>4
    <2>12. QED
      BY <2>5, <2>10, <2>11
  <1>9. \A b \in Browsers, h \in Handlers : conn[b] = h /\ serve[h].pc # "off" =>
            \A x \in Ahead(h) : x \in Ahead(h)' \/ lagged'[h] \/ ~ accepts(b, x)
    BY <1>8, ListeningIs
  <1>10. \A h \in Handlers : /\ serve[h].pc = "off" => events'[h] = <<>>
                             /\ Ordered(h)' /\ Ahead(h)' \subseteq Ahead(h)
                             /\ lagged[h] => lagged'[h]
    BY <1>8 DEF TakeInbox, IInv, Handled, Serviced
  <1>11. QED
    BY <1>6, <1>7, <1>9, <1>10, Moves DEF TakeInbox

LEMMA fanOutKeeps ==
    ASSUME IInv, NEW h \in Handlers, fanOut(h)
    PROVE  IInv'
  <1> USE DEF source, table, page, ghosts
  <1>1. /\ Typed /\ TypeOK /\ Queued /\ h \in fan.to /\ fan.e \in Item /\ h \in clients
        /\ fan.to \subseteq clients
        /\ events \in [Handlers -> Seq(Item)] /\ lagged \in [Handlers -> BOOLEAN]
    BY DEF IInv, Typed, TypeOK, fanOut
  <1>2. /\ fan' = Fan(fan.e, fan.to \ {h}) /\ fan'.to = fan.to \ {h}
        /\ (fan'.to # {} => fan'.e = fan.e)
    BY FanIs DEF fanOut
  <1>3. ASSUME NEW g \in Handlers
        PROVE  /\ Fanned(g)' = IF g = h THEN {} ELSE Fanned(g)
               /\ Fanned(h) = {fan.e}
    <2>1. Fanned(g)' = IF g \in fan'.to THEN {fan'.e} ELSE {}
      BY DEF Fanned
    <2>2. QED
      BY <1>1, <1>2, <2>1, FannedIs
  <1>4. Notified' = Notified /\ Items(inbox)' = Items(inbox) /\ Queued'
    BY <1>1 DEF Notified, Items, Queued, InOrder, Fits, fanOut, Count, LastSync, Precede
  <1>5. Ordered(h) /\ Serviced(h) /\ serve[h].pc # "off"
    BY <1>1 DEF IInv, Handled, SlotsAccounted
  <1>6. /\ events' \in [Handlers -> Seq(Item)] /\ lagged' \in [Handlers -> BOOLEAN]
        /\ \A g \in Handlers \ {h} : events'[g] = events[g] /\ lagged'[g] = lagged[g]
        /\ lagged[h] => lagged'[h]
        /\ Len(events'[h]) <= EventsCap
        /\ InOrder(events'[h])
        /\ \/ Items(events'[h]) = Items(events[h]) \cup {fan.e}
           \/ Items(events'[h]) = Items(events[h]) /\ lagged'[h]
    <2>1. events[h] \in Seq(Item) /\ Len(events[h]) \in Nat /\ Len(events[h]) <= EventsCap
          /\ EventsCap \in Nat
      BY <1>1, BroadcasterAssumption DEF TypeOK, BroadcasterAssumption
    <2>2. CASE Len(events[h]) < EventsCap
      <3>1. events' = [events EXCEPT ![h] = Append(events[h], fan.e)] /\ lagged' = lagged
        BY <2>2 DEF fanOut, SendOrLag
      <3>2. /\ Append(events[h], fan.e) \in Seq(Item)
            /\ Len(Append(events[h], fan.e)) = Len(events[h]) + 1
            /\ Items(Append(events[h], fan.e)) = Items(events[h]) \cup {fan.e}
        BY <1>1, <2>1, ItemsAppend, AppendProperties
      <3>3. Precede(Items(events[h]), {fan.e})
        BY <1>3, <1>5 DEF Ordered, Precede
      <3>4. InOrder(Append(events[h], fan.e))
        BY <1>1, <1>5, <2>1, <3>3, InOrderAppend DEF Ordered
      <3>5. events'[h] = Append(events[h], fan.e)
        BY <1>1, <3>1
      <3>6. Len(events'[h]) <= EventsCap
        BY <2>1, <2>2, <3>2, <3>5
      <3>7. events' \in [Handlers -> Seq(Item)] /\ \A g \in Handlers \ {h} : events'[g] = events[g]
        BY <1>1, <3>1, <3>2
      <3>8. QED
        BY <1>1, <3>1, <3>2, <3>4, <3>5, <3>6, <3>7
    <2>3. CASE ~ (Len(events[h]) < EventsCap)
      BY <1>1, <1>5, <2>1, <2>3 DEF fanOut, SendOrLag, Ordered
    <2>4. QED
      BY <2>2, <2>3
  <1>7. Typed'
    <2>1. fan' \in [e: Item \cup {None}, to: SUBSET clients]
      BY <1>1, <1>2, FanIs
    <2>2. \A g \in Handlers : Len(events'[g]) <= EventsCap
      BY <1>1, <1>6 DEF TypeOK
    <2>3. TypeOK'
      BY <1>1, <1>6, <2>1, <2>2 DEF TypeOK, fanOut, Count, LastSync
    <2>4. fan'.to # {} => fan'.e # None
      BY <1>1, <1>2, ItemIs
    <2>5. QED
      BY <1>1, <2>3, <2>4 DEF Typed, fanOut
  <1>8. ASSUME NEW g \in Handlers
        PROVE  /\ Ahead(g)' \subseteq Ahead(g)
               /\ Ahead(g) \subseteq Ahead(g)' \/ lagged'[g]
               /\ Ordered(g)'
    <2>1. Ordered(g)
      BY DEF IInv, Handled
    <2>2. Items(events[g])' = Items(events'[g]) /\ Items(serve[g].batch)' = Items(serve[g].batch)
      BY DEF Items, fanOut
    <2>3. Ahead(g)' = Items(events'[g]) \cup Fanned(g)' \cup Items(inbox) \cup Notified
      BY <1>4, <2>2 DEF Ahead
    <2>4. CASE g # h
      <3>1. events'[g] = events[g] /\ Fanned(g)' = Fanned(g)
        BY <1>3, <1>6, <2>4
      <3>2. Ahead(g)' = Ahead(g) /\ Items(events[g])' = Items(events[g])
        BY <2>2, <2>3, <3>1 DEF Ahead
      <3>3. \A x \in Ahead(g) \cup Items(serve[g].batch) : Fits(x)'
        BY <2>1 DEF Ordered, Fits, fanOut, Count, LastSync
      <3>4. InOrder(events[g])'
        BY <2>1, <3>1 DEF Ordered, InOrder
      <3>5. QED
        BY <1>4, <2>1, <2>2, <3>1, <3>2, <3>3, <3>4 DEF Ordered
    <2>5. CASE g = h
      <3>1. Fanned(h) = {fan.e} /\ Fanned(h)' = {}
        BY <1>3
      <3>2. Items(events'[h]) \subseteq Items(events[h]) \cup {fan.e}
        BY <1>6
      <3>3. Ahead(h)' \subseteq Ahead(h)
        BY <2>3, <2>5, <3>1, <3>2 DEF Ahead
      <3>4. Ahead(h) \subseteq Ahead(h)' \/ lagged'[h]
        BY <1>6, <2>3, <2>5, <3>1 DEF Ahead
      <3>5. \A x \in Ahead(h)' \cup Items(serve[h].batch) : Fits(x)'
        BY <2>1, <2>5, <3>3 DEF Ordered, Fits, fanOut, Count, LastSync
      <3>6. /\ Precede(Items(events'[h]), Items(inbox) \cup Notified)
            /\ Precede(Items(serve[h].batch), Ahead(h)')
        BY <2>1, <2>5, <3>1, <3>2, <3>3 DEF Ordered, Precede
      <3>7. InOrder(events[h])'
        BY <1>6 DEF InOrder
      <3>8. Precede(Fanned(h)', Items(inbox) \cup Notified)
        BY <3>1 DEF Precede
      <3>9. Ordered(h)'
        BY <1>4, <2>2, <2>5, <3>1, <3>5, <3>6, <3>7, <3>8 DEF Ordered
      <3>10. QED
        BY <2>5, <3>3, <3>4, <3>9
    <2>6. QED
      BY <2>4, <2>5
  <1>9. \A b \in Browsers, g \in Handlers : conn[b] = g /\ serve[g].pc # "off" =>
            \A x \in Ahead(g) : x \in Ahead(g)' \/ lagged'[g] \/ ~ accepts(b, x)
    BY <1>8
  <1>10. \A g \in Handlers : /\ serve[g].pc = "off" => events'[g] = <<>>
                             /\ Ordered(g)' /\ Ahead(g)' \subseteq Ahead(g)
                             /\ lagged[g] => lagged'[g]
    BY <1>5, <1>6, <1>8 DEF IInv, Handled, Serviced
  <1>11. QED
    BY <1>4, <1>7, <1>9, <1>10, Moves DEF fanOut

(***************************************************************************)
(* The handlers: a step of one changes its own state and the frames of the *)
(* page it serves.                                                         *)
(***************************************************************************)
LEMMA FrameAdded ==
    ASSUME NEW w \in Seq(Frame), NEW f \in Frame
    PROVE  /\ Append(w, f) \in Seq(Frame) /\ Items(Append(w, f)) = Items(w) \cup {f}
           /\ Len(Append(w, f)) = Len(w) + 1 /\ Len(w) \in Nat
           /\ Append(w, f) # <<>> /\ Append(w, f)[Len(w) + 1] = f
           /\ \A j \in 1..Len(w) : Append(w, f)[j] = w[j]
           /\ \A K, i : \A n \in 0..Len(w) :
                 Reached(K, Append(w, f), n, i) <=> Reached(K, w, n, i)
           /\ \A r, k : \A n \in 0..Len(w) :
                 Refreshed(r, Append(w, f), n, k) <=> Refreshed(r, w, n, k)
           /\ \A K, i : Reached(K, Append(w, f), Len(w) + 1, i) <=>
                 Reached(K, w, Len(w), i) \/ f.refetch \/ i \in f.changes
           /\ \A r, k : Refreshed(r, Append(w, f), Len(w) + 1, k) <=>
                 Refreshed(r, w, Len(w), k) \/ f.refetch
  <1> DEFINE v == Append(w, f)
  <1>1. /\ v \in Seq(Frame) /\ Items(v) = Items(w) \cup {f}
        /\ Len(v) = Len(w) + 1 /\ Len(w) \in Nat
        /\ \A j \in 1..Len(w) : v[j] = w[j]
        /\ v[Len(w) + 1] = f
    BY ItemsAppend, AppendProperties
  <1> HIDE DEF v
  <1>2. v # <<>>
    BY <1>1
  <1>3. ASSUME NEW n \in 0..Len(w), NEW m \in 1..n PROVE m \in 1..Len(w) /\ v[m] = w[m]
    BY <1>1
  <1>4. \A m \in 1..(Len(w) + 1) : m \in 1..Len(w) \/ m = Len(w) + 1
    BY <1>1
  <1>5. 1..Len(w) \subseteq 1..(Len(w) + 1) /\ Len(w) + 1 \in 1..(Len(w) + 1)
    BY <1>1
  <1>6. /\ \A K, i : \A n \in 0..Len(w) : Reached(K, v, n, i) <=> Reached(K, w, n, i)
        /\ \A r, k : \A n \in 0..Len(w) : Refreshed(r, v, n, k) <=> Refreshed(r, w, n, k)
    BY <1>3 DEF Reached, Refreshed
  <1>7. \A K, i : Reached(K, v, Len(w) + 1, i) <=>
                 Reached(K, w, Len(w), i) \/ f.refetch \/ i \in f.changes
    BY <1>1, <1>4, <1>5 DEF Reached
  <1>8. \A r, k : Refreshed(r, v, Len(w) + 1, k) <=>
                 Refreshed(r, w, Len(w), k) \/ f.refetch
    BY <1>1, <1>4, <1>5 DEF Refreshed
  <1>9. QED
    BY <1>1, <1>2, <1>6, <1>7, <1>8 DEF v

LEMMA WriteIs ==
    ASSUME TypeOK, NEW h \in Handlers, NEW f \in Frame, Write(h, f)
    PROVE  /\ wire' \in [Handlers -> Seq(Frame)]
           /\ \A g \in Handlers \ {h} : wire'[g] = wire[g]
           /\ Items(wire'[h]) \subseteq Items(wire[h]) \cup {f}
           /\ conn[serve[h].of] = h => wire'[h] = Append(wire[h], f)
  <1>1. wire \in [Handlers -> Seq(Frame)] /\ wire[h] \in Seq(Frame)
    BY DEF TypeOK
  <1>2. Append(wire[h], f) \in Seq(Frame) /\ Items(Append(wire[h], f)) = Items(wire[h]) \cup {f}
    BY <1>1, FrameAdded
  <1>3. CASE conn[serve[h].of] = h
    <2>1. wire' = [wire EXCEPT ![h] = Append(wire[h], f)]
      BY <1>3 DEF Write
    <2>2. wire'[h] = Append(wire[h], f)
      BY <1>1, <2>1
    <2>3. wire' \in [Handlers -> Seq(Frame)] /\ \A g \in Handlers \ {h} : wire'[g] = wire[g]
      BY <1>1, <1>2, <2>1
    <2>4. QED
      BY <1>2, <2>2, <2>3
  <1>4. CASE conn[serve[h].of] # h
    <2>1. wire' = wire
      BY <1>4 DEF Write
    <2>2. QED
      BY <1>1, <1>4, <2>1
  <1>5. QED
    BY <1>3, <1>4

LEMMA ServeStep ==
    ASSUME TypeOK, NEW h \in Handlers, NEW r \in Serving, serve' = [serve EXCEPT ![h] = r]
    PROVE  /\ serve' \in [Handlers -> Serving] /\ serve'[h] = r
           /\ \A g \in Handlers \ {h} : serve'[g] = serve[g]
  <1>1. serve \in [Handlers -> Serving]
    BY DEF TypeOK
  <1>2. QED
    BY <1>1

LEMMA HandlerTyped ==
    ASSUME Typed, UNCHANGED <<source, inbox, page, known, refetched, behind, missed>>,
           fan' \in [e: Item \cup {None}, to: SUBSET clients'],
           fan'.to # {} => fan'.e # None, clients' \subseteq Handlers,
           owners' \in [{Owner[b] : b \in Browsers} -> Nat],
           events' \in [Handlers -> Seq(Item)],
           \A h \in Handlers : Len(events'[h]) <= EventsCap,
           lagged' \in [Handlers -> BOOLEAN], serve' \in [Handlers -> Serving],
           wire' \in [Handlers -> Seq(Frame)], faults' \in 0..MaxFaults,
           slipped' \in [Browsers -> BOOLEAN], told' \in [Handlers -> SUBSET (1..MaxHistory)]
    PROVE  Typed'
  <1>1. TypeOK'
    BY DEF Typed, TypeOK, source, page, Count, LastSync
  <1>2. QED
    BY <1>1 DEF Typed, source, page

LEMMA SlotsKept ==
    ASSUME IInv, UNCHANGED <<clients, owners>>,
           \A g \in Handlers : serve'[g].of = serve[g].of /\
                               (serve'[g].pc = "off" <=> serve[g].pc = "off")
    PROVE  SlotsAccounted' /\ IsFiniteSet(clients)'
  <1>1. clients \subseteq Handlers
    BY DEF IInv, Typed, TypeOK
  <1>2. \A o : {g \in clients : Owner[serve'[g].of] = o} = {g \in clients : Owner[serve[g].of] = o}
    BY <1>1
  <1>3. clients = {g \in Handlers : serve'[g].pc # "off"}
    BY DEF IInv, SlotsAccounted
  <1>4. QED
    BY <1>2, <1>3 DEF IInv, SlotsAccounted

LEMMA OrderedKept ==
    ASSUME NEW h \in Handlers, Ordered(h), UNCHANGED <<source, queues>>, events'[h] = events[h],
           serve'[h].batch = serve[h].batch \/ serve'[h].batch = <<>>
    PROVE  Ordered(h)' /\ Ahead(h)' = Ahead(h)
  <1> USE DEF source, queues
  <1>1. /\ Fanned(h)' = Fanned(h) /\ Items(events[h])' = Items(events[h])
        /\ Items(inbox)' = Items(inbox) /\ Notified' = Notified
    BY DEF Fanned, Items, Notified
  <1>2. Ahead(h)' = Ahead(h)
    BY <1>1 DEF Ahead
  <1>3. Items(serve[h].batch)' \subseteq Items(serve[h].batch)
    BY ItemsNone DEF Items
  <1>4. \A e \in Ahead(h) \cup Items(serve[h].batch)' : Fits(e)'
    BY <1>3 DEF Ordered, Fits, Count, LastSync
  <1>5. Precede(Items(serve[h].batch)', Ahead(h))
    BY <1>3 DEF Ordered, Precede
  <1>6. InOrder(events[h])'
    BY DEF Ordered, InOrder
  <1>7. QED
    BY <1>1, <1>2, <1>4, <1>5, <1>6 DEF Ordered

LEMMA HandlerStep ==
    ASSUME IInv, NEW h \in Handlers, Typed', SlotsAccounted', IsFiniteSet(clients)',
           UNCHANGED <<source, inbox, page, known, refetched, behind, missed>>,
           \A g \in Handlers \ {h} :
               /\ serve'[g] = serve[g] /\ wire'[g] = wire[g] /\ events'[g] = events[g]
               /\ told'[g] = told[g] /\ lagged'[g] = lagged[g] /\ Fanned(g)' = Fanned(g),
           \A b \in Browsers : slipped[b] => slipped'[b],
           Handled(h)', \A b \in Browsers : conn[b] = h => Paged(b)'
    PROVE  IInv'
  <1> USE DEF source, page
  <1>1. Apart' /\ Marked' /\ Queued'
    BY DEF IInv, Apart, Marked, Queued, Count, LastSync, Notified, Items, InOrder, Fits
  <1>2. ASSUME NEW g \in Handlers PROVE Handled(g)'
    <2>1. CASE g = h
      BY <2>1
    <2>2. CASE g # h
      <3>1. Handled(g)
        BY DEF IInv
      <3>2. QED
        BY <2>2, <3>1, HandledKept
    <2>3. QED
      BY <2>1, <2>2
  <1>3. ASSUME NEW b \in Browsers PROVE Paged(b)'
    <2>1. CASE conn[b] = h
      BY <2>1
    <2>2. CASE conn[b] # h
      <3>1. Paged(b) /\ (conn[b] # None => conn[b] \in Handlers \ {h})
        BY <2>2, PageTypes DEF IInv, Typed
      <3>2. \A g \in Handlers \ {h} : Ahead(g)' = Ahead(g)
        BY DEF Ahead, Items, Notified
      <3>3. ASSUME conn[b] # None
            PROVE  /\ serve'[conn[b]] = serve[conn[b]] /\ wire'[conn[b]] = wire[conn[b]]
                   /\ lagged'[conn[b]] = lagged[conn[b]] /\ Ahead(conn[b])' = Ahead(conn[b])
        <4>1. PICK g \in Handlers \ {h} : g = conn[b]
          BY <3>1, <3>3
        <4>2. Ahead(g)' = Ahead(g)
          BY <3>2
        <4>3. QED
          BY <4>1, <4>2
      <3>4. QED
        BY <3>1, <3>3, PageKept
    <2>3. QED
      BY <2>1, <2>2
  <1>4. QED
    BY <1>1, <1>2, <1>3 DEF IInv

\* The page of the handler that takes the step.
LEMMA HandlerPage ==
    ASSUME IInv, NEW b \in Browsers, NEW h \in Handlers, conn[b] = h,
           UNCHANGED <<source, page, known, refetched, missed>>,
           slipped[b] => slipped'[b],
           Paired(b)',
           ~ missed[b] => FramesKeep(b)' /\ Outdated(b)' /\ WindowKeeps(b)' /\ Flows(b)'
    PROVE  Paged(b)'
  <1> USE DEF source, page
  <1>1. Within(b)'
    BY DEF IInv, Paged, Within, Count, LastSync
  <1>2. ASSUME ~ missed[b] PROVE CursorKeeps(b)'
    BY <1>2 DEF IInv, Paged, Intact, CursorKeeps, UpTo, All, Count, LastSync
  <1>3. QED
    BY <1>1, <1>2 DEF Paged, Intact

\* Nothing was written.
LEMMA FramesStay ==
    ASSUME IInv, NEW b \in Browsers, NEW h \in Handlers, conn[b] = h, ~ missed[b],
           UNCHANGED <<source, page, known, refetched>>,
           slipped[b] => slipped'[b], wire'[h] = wire[h]
    PROVE  FramesKeep(b)'
  BY DEF IInv, Paged, Intact, FramesKeep, UpTo, All, Count, LastSync, source, page

\* A frame that passes over nothing was written.
LEMMA FramesWritten ==
    ASSUME IInv, NEW b \in Browsers, NEW h \in Handlers, conn[b] = h, ~ missed[b],
           UNCHANGED <<source, page, known, refetched>>,
           slipped[b] => slipped'[b],
           NEW f \in Frame, wire'[h] = Append(wire[h], f),
           \A i \in All(b) : i <= f.id =>
               Reached(known[b], wire[h], Len(wire[h]), i) \/ f.refetch \/ i \in f.changes,
           \A k \in 1..LastSync : marks[k] < f.id =>
               \/ slipped'[b] \/ f.refetch
               \/ Refreshed(refetched[b], wire[h], Len(wire[h]), k)
    PROVE  FramesKeep(b)'
  <1> USE DEF source, page
  <1>1. All(b)' = All(b) /\ LastSync' = LastSync
    BY DEF All, Count, LastSync
  <1>2. wire[h] \in Seq(Frame) /\ Len(wire[h]) \in Nat
    BY HandlerTypes, WireTypes DEF IInv, Typed
  <1>3. h # None
    BY BroadcasterAssumption DEF BroadcasterAssumption
  <1>4. PICK v : v = wire'[h] /\ v = Append(wire[h], f)
    OBVIOUS
  <1>5. ASSUME NEW j \in 1..Len(wire[h]) PROVE UpTo(b, v, j, v[j].id)'
    <2>1. UpTo(b, wire[h], j, wire[h][j].id)
      BY <1>3 DEF IInv, Paged, Intact, FramesKeep
    <2>2. v[j] = wire[h][j] /\ j \in 0..Len(wire[h])
      BY <1>2, <1>4, FrameAdded
    <2>3. \A K, r, i : /\ Reached(K, v, j, i) <=> Reached(K, wire[h], j, i)
                       /\ Refreshed(r, v, j, i) <=> Refreshed(r, wire[h], j, i)
      BY <1>2, <1>4, <2>2, FrameAdded
    <2>4. UpTo(b, v, j, wire[h][j].id)
      BY <2>1, <2>3 DEF UpTo
    <2>5. QED
      BY <1>1, <2>2, <2>4 DEF UpTo
  <1>6. PICK n : n = Len(wire[h]) + 1
    OBVIOUS
  <1>7. UpTo(b, v, n, v[n].id)'
    <2>1. v[Len(wire[h]) + 1] = f
      BY <1>2, <1>4, FrameAdded
    <2>2. /\ \A K, i : Reached(K, v, Len(wire[h]) + 1, i) <=>
                 Reached(K, wire[h], Len(wire[h]), i) \/ f.refetch \/ i \in f.changes
          /\ \A r, k : Refreshed(r, v, Len(wire[h]) + 1, k) <=>
                 Refreshed(r, wire[h], Len(wire[h]), k) \/ f.refetch
      <3>1. \A K, i : Reached(K, Append(wire[h], f), Len(wire[h]) + 1, i) <=>
                 Reached(K, wire[h], Len(wire[h]), i) \/ f.refetch \/ i \in f.changes
        BY <1>2, FrameAdded, Zenon
      <3>2. \A r, k : Refreshed(r, Append(wire[h], f), Len(wire[h]) + 1, k) <=>
                 Refreshed(r, wire[h], Len(wire[h]), k) \/ f.refetch
        BY <1>2, FrameAdded, Zenon
      <3>3. QED
        BY <1>4, <3>1, <3>2, Zenon
    <2>3. UpTo(b, v, n, f.id)'
      BY <1>1, <1>6, <2>2 DEF UpTo
    <2>4. QED
      BY <1>6, <2>1, <2>3
  <1>8. \A j \in 1..Len(v) : j \in 1..Len(wire[h]) \/ j = n
    BY <1>2, <1>4, <1>6, FrameAdded
  <1>9. QED
    BY <1>4, <1>5, <1>7, <1>8 DEF FramesKeep

\* A step that takes nothing from the client's buffer.
LEMMA HandlerMoves ==
    ASSUME IInv, NEW h \in Handlers, serve[h].pc # "off",
           NEW r \in Serving, serve' = [serve EXCEPT ![h] = r], r.of = serve[h].of,
           r.pc \notin {"off", "open"}, r.batch = serve[h].batch \/ r.batch = <<>>,
           r.pc # "live" => r.batch = <<>>, r.pc = "since" => r.cur # None,
           r.skipBelow <= Count, r.syncedThrough <= LastSync,
           UNCHANGED <<source, queues, table, events, page, faults,
                       known, refetched, behind, missed>>,
           lagged' \in [Handlers -> BOOLEAN],
           \A g \in Handlers \ {h} : lagged'[g] = lagged[g],
           wire' \in [Handlers -> Seq(Frame)],
           \A g \in Handlers \ {h} : wire'[g] = wire[g],
           \A f \in Items(wire'[h]) : f \in Items(wire[h]) \/
               (f.id <= Count /\ f.seen <= LastSync /\ (f.seen > 0 => f.refetch)),
           NEW T \in SUBSET (1..Count), told' = [told EXCEPT ![h] = T],
           ChangesIn(r.batch) \cap T = {},
           \A e \in Ahead(h) : ~ IsSync(e) /\ e.id > r.skipBelow => e.id \notin T,
           slipped' \in [Browsers -> BOOLEAN], \A b \in Browsers : slipped[b] => slipped'[b],
           \A b \in Browsers : conn[b] = h =>
               /\ Paired(b)'
               /\ ~ missed[b] => FramesKeep(b)' /\ Outdated(b)' /\ WindowKeeps(b)' /\ Flows(b)'
    PROVE  IInv'
  <1> USE DEF table
  <1>1. Typed /\ TypeOK /\ Handled(h)
    BY DEF IInv, Typed
  <1>2. /\ serve' \in [Handlers -> Serving] /\ serve'[h] = r
        /\ \A g \in Handlers \ {h} : serve'[g] = serve[g]
    BY <1>1, ServeStep
  <1>3. /\ told' \in [Handlers -> SUBSET (1..MaxHistory)] /\ told'[h] = T
        /\ \A g \in Handlers \ {h} : told'[g] = told[g]
    <2>1. T \subseteq 1..MaxHistory
      <3>1. Count \in Nat /\ MaxHistory \in Nat /\ Count <= MaxHistory
        BY <1>1, MarkTypes, BroadcasterAssumption DEF TypeOK, BroadcasterAssumption
      <3>2. QED
        BY <3>1
    <2>2. told \in [Handlers -> SUBSET (1..MaxHistory)]
      BY <1>1 DEF TypeOK
    <2>3. QED
      BY <2>1, <2>2
  <1>4. Typed'
    <2>1. /\ fan \in [e: Item \cup {None}, to: SUBSET clients]
          /\ (fan.to # {} => fan.e # None) /\ clients \subseteq Handlers
          /\ owners \in [{Owner[b] : b \in Browsers} -> Nat]
          /\ events \in [Handlers -> Seq(Item)]
          /\ (\A g \in Handlers : Len(events[g]) <= EventsCap) /\ faults \in 0..MaxFaults
      BY <1>1 DEF Typed, TypeOK
    <2>2. QED
      BY <1>1, <1>2, <1>3, <2>1, HandlerTyped DEF queues
  <1>5. SlotsAccounted' /\ IsFiniteSet(clients)'
    BY <1>2, SlotsKept
  <1>6. Ordered(h)' /\ Ahead(h)' = Ahead(h)
    BY <1>1, <1>2, OrderedKept DEF Handled
  <1>7. Serviced(h)'
    BY <1>1, <1>2 DEF Handled, Serviced
  <1>8. Bounded(h)'
    <2>1. \A f \in Items(wire'[h]) :
              f.id <= Count /\ f.seen <= LastSync /\ (f.seen > 0 => f.refetch)
      BY <1>1 DEF Handled, Bounded
    <2>2. Count' = Count /\ LastSync' = LastSync /\ Items(wire[h])' = Items(wire'[h])
      BY DEF Count, LastSync, Items, source
    <2>3. QED
      BY <1>2, <2>1, <2>2 DEF Bounded
  <1>9. Once(h)'
    <2>1. Count' = Count
      BY DEF Count, source
    <2>2. QED
      BY <1>2, <1>3, <1>6, <2>1 DEF Once
  <1>10. Handled(h)'
    BY <1>6, <1>7, <1>8, <1>9 DEF Handled
  <1>11. \A b \in Browsers : conn[b] = h => Paged(b)'
    BY HandlerPage
  <1>12. \A g \in Handlers \ {h} : Fanned(g)' = Fanned(g)
    BY DEF Fanned, queues
  <1>13. QED
    BY <1>2, <1>3, <1>4, <1>5, <1>10, <1>11, <1>12, HandlerStep DEF queues

\* What the invariant says of a handler and of the page it serves.
LEMMA Serves1 ==
    ASSUME IInv, NEW h \in Handlers, serve[h].pc # "off"
    PROVE  /\ Typed /\ TypeOK /\ Handled(h) /\ serve[h] \in Serving /\ serve[h].of \in Browsers
           /\ Count \in Nat /\ LastSync \in Nat /\ h # None
           /\ serve[h].skipBelow \in Nat /\ serve[h].syncedThrough \in Nat
           /\ told[h] \subseteq 1..Count
           /\ (\A b \in Browsers : conn[b] = h =>
                 /\ serve[h].of = b /\ Paged(b) /\ Paired(b)
                 /\ (~ missed[b] => Intact(b)))
  <1>1. Typed /\ TypeOK /\ Handled(h) /\ h # None
    BY BroadcasterAssumption DEF IInv, Typed, BroadcasterAssumption
  <1>2. told[h] \subseteq 1..Count /\ serve[h].of \in Browsers
    BY <1>1 DEF Handled, Once, Serviced
  <1>3. \A b \in Browsers : conn[b] = h =>
             serve[h].of = b /\ Paged(b) /\ Paired(b) /\ (~ missed[b] => Intact(b))
    BY <1>1 DEF IInv, Paged, Paired
  <1>4. QED
    BY <1>1, <1>2, <1>3, HandlerTypes, MarkTypes

LEMMA OpenKeeps ==
    ASSUME IInv, NEW h \in Handlers, Open(h)
    PROVE  IInv'
  <1> DEFINE s == serve[h]
  <1>1. s.pc = "open" /\ UNCHANGED <<source, queues, table, shared, wire, page, faults, ghosts>>
    BY DEF Open
  <1>2. /\ Typed /\ TypeOK /\ Handled(h) /\ s \in Serving /\ s.of \in Browsers
        /\ Count \in Nat /\ LastSync \in Nat /\ h # None /\ told[h] \subseteq 1..Count
    BY <1>1, Serves1
  <1>3. /\ s.batch = <<>> /\ s.syncedThrough = 0 /\ s.skipBelow = 0
    BY <1>1, <1>2 DEF Handled, Serviced
  <1>4. LastSync \in 0..MaxSyncs /\ LastSync' = LastSync /\ \A b : All(b)' = All(b)
    <2>1. LastSync <= MaxSyncs /\ MaxSyncs \in Nat
      BY <1>2, BroadcasterAssumption DEF TypeOK, BroadcasterAssumption
    <2>2. QED
      BY <1>1, <1>2, <2>1 DEF LastSync, All, Count, source
  <1>5. PICK r \in Serving :
            /\ serve' = [serve EXCEPT ![h] = r]
            /\ r.of = s.of /\ r.batch = <<>> /\ r.skipBelow = 0 /\ r.cur = s.cur
            /\ \/ s.cur = None /\ r.pc = "live" /\ r.syncedThrough = 0
               \/ s.cur # None /\ r.pc = "count" /\ r.syncedThrough = 0
               \/ /\ s.cur # None /\ r.pc = "since" /\ r.syncedThrough = LastSync
                  /\ ownCursor(s.cur) # None /\ ~ needsSync(s.cur)
    <2>1. CASE s.cur = None
      <3>1. serve' = [serve EXCEPT ![h] = [s EXCEPT !.pc = "live"]]
        BY <2>1 DEF Open
      <3>2. [s EXCEPT !.pc = "live"] \in Serving
        BY <1>2 DEF Serving
      <3>3. QED
        BY <1>2, <1>3, <2>1, <3>1, <3>2 DEF Serving
    <2>2. CASE s.cur # None /\ (s.of \notin Replayed \/ ownCursor(s.cur) = None \/ needsSync(s.cur))
      <3>1. serve' = [serve EXCEPT ![h] = [s EXCEPT !.pc = "count"]]
        BY <2>2 DEF Open
      <3>2. [s EXCEPT !.pc = "count"] \in Serving
        BY <1>2 DEF Serving
      <3>3. QED
        BY <1>2, <1>3, <2>2, <3>1, <3>2 DEF Serving
    <2>3. CASE s.cur # None
               /\ ~ (s.of \notin Replayed \/ ownCursor(s.cur) = None \/ needsSync(s.cur))
      <3>1. serve' = [serve EXCEPT ![h] =
                         [s EXCEPT !.pc = "since", !.syncedThrough = LastSync]]
        BY <2>3 DEF Open
      <3>2. [s EXCEPT !.pc = "since", !.syncedThrough = LastSync] \in Serving
        BY <1>2, <1>4 DEF Serving
      <3>3. QED
        BY <1>2, <1>3, <2>3, <3>1, <3>2 DEF Serving
    <2>4. QED
      BY <2>1, <2>2, <2>3
  <1>6. serve'[h] = r
    BY <1>2, <1>5, ServeStep
  <1>7. ASSUME NEW b \in Browsers, conn[b] = h
        PROVE  /\ Paired(b)'
               /\ ~ missed[b] => FramesKeep(b)' /\ Outdated(b)' /\ WindowKeeps(b)' /\ Flows(b)'
    <2>1. s.of = b /\ Paired(b) /\ (~ missed[b] => Intact(b))
      BY <1>1, <1>7, Serves1
    <2>2. wire[h] = <<>> /\ (s.cur # None => s.cur = cursor[b]) /\ Len(wire[h]) = 0
      BY <1>1, <1>2, <1>7, <2>1 DEF Paired
    <2>3. /\ conn'[b] = h /\ wire'[h] = <<>> /\ lagged'[h] = lagged[h] /\ cursor' = cursor
          /\ epoch' = epoch /\ slipped' = slipped /\ known' = known
          /\ refetched' = refetched /\ behind' = behind
      BY <1>1, <1>7, <2>2 DEF page, shared, source, ghosts
    <2>4. r.pc = "since" => s.cur.epoch = epoch
      BY <1>5 DEF ownCursor
    <2>5. Paired(b)'
      BY <1>5, <1>6, <2>1, <2>2, <2>3, <2>4 DEF Paired
    <2>6. ASSUME ~ missed[b] PROVE FramesKeep(b)' /\ Outdated(b)' /\ WindowKeeps(b)' /\ Flows(b)'
      <3>1. Intact(b)
        BY <2>1, <2>6
      <3>2. FramesKeep(b)'
        BY <1>1, <1>7, <2>6, FramesStay DEF ghosts
      <3>3. Outdated(b)'
        <4>1. behind[b] => (cursor[b] # None => cursor[b].epoch # epoch) /\ s.cur # None
          BY <1>1, <1>2, <1>7, <2>2, <3>1 DEF Intact, Outdated
        <4>2. behind[b] => r.pc = "count"
          BY <1>5, <2>2, <2>4, <4>1
        <4>3. QED
          BY <1>6, <2>3, <4>1, <4>2 DEF Outdated
      <3>4. r.pc = "since" => \A k \in 1..LastSync : slipped[b] \/ k <= refetched[b]
        <4>1. SUFFICES ASSUME r.pc = "since", NEW k \in 1..LastSync, ~ slipped[b]
                       PROVE  k <= refetched[b]
          OBVIOUS
        <4>2. /\ cursor[b] # None /\ cursor[b].epoch = epoch /\ ~ needsSync(cursor[b])
              /\ LastSync > 0 /\ refetched[b] \in Nat
          BY <1>2, <1>5, <2>2, <2>4, <4>1, PageTypes
        <4>3. cursor[b].id \in Nat /\ cursor[b].seen \in Nat
          BY <1>2, <4>2, PageTypes DEF Cursor
        <4>4. UpTo(b, <<>>, 0, cursor[b].id) /\ cursor[b].seen <= refetched[b]
          BY <3>1, <4>2 DEF Intact, CursorKeeps
        <4>5. CASE cursor[b].seen > 0
          BY <1>2, <4>2, <4>3, <4>4, <4>5 DEF needsSync
        <4>6. CASE ~ (cursor[b].seen > 0)
          <5>1. ~ (marks[LastSync] >= cursor[b].id) /\ k <= LastSync /\ LastSync \in 1..LastSync
            BY <1>2, <4>2, <4>6 DEF needsSync
          <5>2. marks[k] <= marks[LastSync]
            BY <5>1 DEF IInv, Marked
          <5>3. marks[k] \in Nat /\ marks[LastSync] \in Nat
            BY <1>2, <5>1, MarkTypes
          <5>4. marks[k] < cursor[b].id
            BY <4>3, <5>1, <5>2, <5>3
          <5>5. QED
            BY <4>1, <4>4, <5>4 DEF UpTo, Refreshed
        <4>7. QED
          BY <4>5, <4>6
      <3>5. WindowKeeps(b)'
        <4>1. r.pc = "live" => \A i \in All(b) : ~ (i <= r.skipBelow)
          BY <1>5 DEF All
        <4>2. r.pc = "live" => r.syncedThrough = 0
          BY <1>5
        <4>3. r.pc \in {"since", "live"} =>
                  \A k \in 1..r.syncedThrough : slipped[b] \/ Refreshed(refetched[b], <<>>, 0, k)
          BY <1>5, <3>4, <4>2 DEF Refreshed
        <4>4. QED
          BY <1>4, <1>6, <2>2, <2>3, <4>1, <4>3 DEF WindowKeeps
      <3>6. Flows(b)'
        <4>1. Ahead(h)' = Ahead(h)
          BY <1>1, <1>2, <1>5, <1>6, OrderedKept DEF Handled, shared
        <4>2. CASE r.pc = "live"
          <5>1. s.cur = None /\ r.syncedThrough = 0 /\ s.syncedThrough = 0
            BY <1>3, <1>5, <4>2
          <5>2. Listens(s)
            BY <1>1, <5>1 DEF Listens
          <5>3. QED
            BY <1>2, <1>3, <1>4, <1>5, <1>6, <1>7, <2>2, <2>3, <3>1, <4>1, <5>1, <5>2
               DEF Intact, Flows
        <4>3. CASE r.pc # "live"
          <5>1. ~ Listens(r)
            BY <1>5, <4>3 DEF Listens
          <5>2. r.pc = "since" => \A k \in (r.syncedThrough + 1)..LastSync : FALSE
            BY <1>2, <1>5
          <5>3. QED
            BY <1>4, <1>6, <2>3, <5>1, <5>2 DEF Flows
        <4>4. QED
          BY <4>2, <4>3
      <3>7. QED
        BY <3>2, <3>3, <3>5, <3>6
    <2>7. QED
      BY <2>5, <2>6
  <1>8. /\ r.skipBelow <= Count /\ r.syncedThrough <= LastSync
        /\ (r.pc = "since" => r.cur # None)
        /\ r.pc \notin {"off", "open"} /\ ChangesIn(r.batch) \cap told[h] = {}
    BY <1>2, <1>5, NothingIn
  <1>9. /\ told' = [told EXCEPT ![h] = told[h]] /\ slipped' = slipped
        /\ UNCHANGED <<events, known, refetched, behind, missed, lagged>>
        /\ wire \in [Handlers -> Seq(Frame)] /\ lagged \in [Handlers -> BOOLEAN]
        /\ slipped \in [Browsers -> BOOLEAN] /\ wire' = wire
    BY <1>1, <1>2 DEF TypeOK, ghosts, shared
  <1>10. \A e \in Ahead(h) : ~ IsSync(e) /\ e.id > r.skipBelow => e.id \notin told[h]
    BY <1>1, <1>2, <1>3, <1>5 DEF Handled, Once
  <1> HIDE DEF s
  <1>11. serve[h].batch = <<>> /\ r.of = serve[h].of /\ serve[h].pc # "off" /\ r.batch = <<>>
         /\ told[h] \in SUBSET (1..Count)
    BY <1>1, <1>2, <1>3, <1>5 DEF s
  <1>12. PICK T \in SUBSET (1..Count) : T = told[h]
    BY <1>11
  <1>13. /\ ChangesIn(r.batch) \cap T = {} /\ told' = [told EXCEPT ![h] = T]
         /\ \A e \in Ahead(h) : ~ IsSync(e) /\ e.id > r.skipBelow => e.id \notin T
    BY <1>8, <1>9, <1>10, <1>12
  <1>14. /\ UNCHANGED <<source, queues, table, events, page, faults,
                         known, refetched, behind, missed>>
         /\ lagged' \in [Handlers -> BOOLEAN]
         /\ \A g \in Handlers \ {h} : lagged'[g] = lagged[g]
         /\ wire' \in [Handlers -> Seq(Frame)]
         /\ \A g \in Handlers \ {h} : wire'[g] = wire[g]
         /\ \A f \in Items(wire'[h]) : f \in Items(wire[h])
         /\ slipped' \in [Browsers -> BOOLEAN] /\ \A b \in Browsers : slipped[b] => slipped'[b]
    BY <1>1, <1>9
  <1>15. QED
    BY <1>5, <1>7, <1>8, <1>11, <1>13, <1>14, HandlerMoves

\* Until its sync frame a handler owes its page nothing more.
LEMMA Owing ==
    ASSUME IInv, NEW b \in Browsers, NEW h \in Handlers, conn[b] = h, serve[h].pc # "off",
           UNCHANGED <<source, page, known, refetched, behind>>,
           slipped[b] => slipped'[b], wire'[h] = wire[h],
           serve'[h].of = serve[h].of, serve'[h].pc \in {"count", "mark"}
    PROVE  /\ Paired(b)'
           /\ ~ missed[b] => FramesKeep(b)' /\ Outdated(b)' /\ WindowKeeps(b)' /\ Flows(b)'
  <1> USE DEF source, page
  <1>1. serve[h].of = b /\ (~ missed[b] => Intact(b))
    BY Serves1
  <1>2. Paired(b)'
    BY <1>1 DEF Paired
  <1>3. ASSUME ~ missed[b] PROVE FramesKeep(b)' /\ Outdated(b)' /\ WindowKeeps(b)' /\ Flows(b)'
    <2>1. FramesKeep(b)'
      BY <1>3, FramesStay
    <2>2. Outdated(b)'
      BY <1>1, <1>3 DEF Intact, Outdated
    <2>3. WindowKeeps(b)'
      BY DEF WindowKeeps
    <2>4. Flows(b)'
      BY DEF Flows, Listens
    <2>5. QED
      BY <2>1, <2>2, <2>3, <2>4
  <1>4. QED
    BY <1>2, <1>3

LEMMA CountFirstKeeps ==
    ASSUME IInv, NEW h \in Handlers, CountFirst(h)
    PROVE  IInv'
  <1>1. serve[h].pc = "count" /\ UNCHANGED <<source, queues, table, shared, wire, page, faults, ghosts>>
    BY DEF CountFirst
  <1>2. /\ Typed /\ TypeOK /\ Handled(h) /\ serve[h] \in Serving
        /\ Count \in Nat /\ LastSync \in Nat /\ h # None /\ told[h] \subseteq 1..Count
    BY <1>1, Serves1
  <1>3. PICK r \in Serving :
            /\ serve' = [serve EXCEPT ![h] = r] /\ r.of = serve[h].of /\ r.pc = "mark"
            /\ r.batch = serve[h].batch /\ r.skipBelow = Count
            /\ r.syncedThrough = serve[h].syncedThrough
    <2>1. serve' = [serve EXCEPT ![h] = [serve[h] EXCEPT !.pc = "mark", !.skipBelow = Count]]
      BY DEF CountFirst
    <2>2. Count \in 0..MaxHistory
      BY <1>2, BroadcasterAssumption DEF TypeOK, BroadcasterAssumption
    <2>3. [serve[h] EXCEPT !.pc = "mark", !.skipBelow = Count] \in Serving
      BY <1>2, <2>2 DEF Serving
    <2>4. QED
      BY <1>2, <2>1, <2>3 DEF Serving
  <1>4. serve'[h] = r
    BY <1>2, <1>3, ServeStep
  <1>5. serve[h].batch = <<>> /\ serve[h].syncedThrough <= LastSync
    BY <1>1, <1>2 DEF Handled, Serviced, Bounded
  <1>6. PICK T \in SUBSET (1..Count) : T = told[h]
    BY <1>2
  <1>7. /\ r.skipBelow <= Count /\ r.syncedThrough <= LastSync /\ r.batch = <<>>
        /\ r.pc \notin {"off", "open"} /\ ChangesIn(r.batch) \cap T = {}
        /\ r.batch = serve[h].batch /\ serve[h].pc # "off"
    BY <1>1, <1>2, <1>3, <1>5, NothingIn
  <1>8. \A e \in Ahead(h) : ~ IsSync(e) /\ e.id > r.skipBelow => e.id \notin T
    BY <1>2, <1>3, <1>6
  <1>9. /\ told' = [told EXCEPT ![h] = T]
        /\ UNCHANGED <<source, queues, table, events, page, faults,
                       known, refetched, behind, missed>>
        /\ lagged' \in [Handlers -> BOOLEAN] /\ wire' = wire
        /\ \A g \in Handlers \ {h} : lagged'[g] = lagged[g]
        /\ wire' \in [Handlers -> Seq(Frame)]
        /\ \A g \in Handlers \ {h} : wire'[g] = wire[g]
        /\ \A f \in Items(wire'[h]) : f \in Items(wire[h])
        /\ slipped' \in [Browsers -> BOOLEAN] /\ \A b \in Browsers : slipped[b] => slipped'[b]
    BY <1>1, <1>2, <1>6 DEF TypeOK, ghosts, shared
  <1>10. \A b \in Browsers : conn[b] = h =>
             /\ Paired(b)'
             /\ ~ missed[b] => FramesKeep(b)' /\ Outdated(b)' /\ WindowKeeps(b)' /\ Flows(b)'
    BY <1>3, <1>4, <1>7, <1>9, Owing
  <1>11. QED
    BY <1>3, <1>7, <1>8, <1>9, <1>10, HandlerMoves

LEMMA LaggedTickKeeps ==
    ASSUME IInv, NEW h \in Handlers, LaggedTick(h)
    PROVE  IInv'
  <1>1. /\ serve[h].pc = "live" /\ lagged' = [lagged EXCEPT ![h] = FALSE]
        /\ UNCHANGED <<source, queues, table, events, wire, page, faults, ghosts>>
    BY DEF LaggedTick
  <1>2. /\ Typed /\ TypeOK /\ Handled(h) /\ serve[h] \in Serving
        /\ Count \in Nat /\ LastSync \in Nat /\ h # None /\ told[h] \subseteq 1..Count
    BY <1>1, Serves1
  <1>3. PICK r \in Serving :
            /\ serve' = [serve EXCEPT ![h] = r] /\ r.of = serve[h].of /\ r.pc = "count"
            /\ r.batch = <<>> /\ r.skipBelow = serve[h].skipBelow
            /\ r.syncedThrough = serve[h].syncedThrough
    <2>1. serve' = [serve EXCEPT ![h] = [serve[h] EXCEPT !.batch = <<>>, !.pc = "count"]]
      BY DEF LaggedTick
    <2>2. [serve[h] EXCEPT !.batch = <<>>, !.pc = "count"] \in Serving
      <3>1. <<>> \in Seq(Item)
        OBVIOUS
      <3>2. QED
        BY <1>2, <3>1 DEF Serving
    <2>3. QED
      BY <1>2, <2>1, <2>2 DEF Serving
  <1>4. serve'[h] = r
    BY <1>2, <1>3, ServeStep
  <1>5. serve[h].skipBelow <= Count /\ serve[h].syncedThrough <= LastSync
    BY <1>2 DEF Handled, Bounded
  <1>6. PICK T \in SUBSET (1..Count) : T = told[h]
    BY <1>2
  <1>7. /\ r.skipBelow <= Count /\ r.syncedThrough <= LastSync /\ r.batch = <<>>
        /\ r.pc \notin {"off", "open"} /\ ChangesIn(r.batch) \cap T = {} /\ serve[h].pc # "off"
    BY <1>1, <1>3, <1>5, NothingIn
  <1>8. \A e \in Ahead(h) : ~ IsSync(e) /\ e.id > r.skipBelow => e.id \notin T
    BY <1>1, <1>2, <1>3, <1>6 DEF Handled, Once
  <1>9. /\ told' = [told EXCEPT ![h] = T]
        /\ UNCHANGED <<source, queues, table, events, page, faults,
                       known, refetched, behind, missed>>
        /\ lagged' \in [Handlers -> BOOLEAN] /\ wire' = wire
        /\ \A g \in Handlers \ {h} : lagged'[g] = lagged[g]
        /\ wire' \in [Handlers -> Seq(Frame)]
        /\ \A g \in Handlers \ {h} : wire'[g] = wire[g]
        /\ \A f \in Items(wire'[h]) : f \in Items(wire[h])
        /\ slipped' \in [Browsers -> BOOLEAN] /\ \A b \in Browsers : slipped[b] => slipped'[b]
    BY <1>1, <1>2, <1>6 DEF TypeOK, ghosts
  <1>10. \A b \in Browsers : conn[b] = h =>
             /\ Paired(b)'
             /\ ~ missed[b] => FramesKeep(b)' /\ Outdated(b)' /\ WindowKeeps(b)' /\ Flows(b)'
    BY <1>3, <1>4, <1>7, <1>9, Owing
  <1>11. QED
    BY <1>3, <1>7, <1>8, <1>9, <1>10, HandlerMoves

LEMMA syncFrameKeeps ==
    ASSUME IInv, NEW h \in Handlers, syncFrame(h)
    PROVE  IInv'
  <1> DEFINE s == serve[h]
  <1>1. /\ s.pc = "mark" /\ told' = [told EXCEPT ![h] = told[h] \cup 1..s.skipBelow]
        /\ UNCHANGED <<source, queues, table, shared, page, faults, known,
                       refetched, behind, missed, slipped>>
    BY DEF syncFrame
  <1>2. /\ Typed /\ TypeOK /\ Handled(h) /\ s \in Serving
        /\ Count \in Nat /\ LastSync \in Nat /\ h # None /\ told[h] \subseteq 1..Count
        /\ s.skipBelow \in Nat /\ s.syncedThrough \in Nat
    BY <1>1, Serves1
  <1>3. s.batch = <<>> /\ s.skipBelow <= Count /\ s.syncedThrough <= LastSync
    BY <1>1, <1>2 DEF Handled, Serviced, Bounded
  <1>4. LastSync \in 0..MaxSyncs /\ s.skipBelow \in 0..MaxHistory
        /\ Larger(s.syncedThrough, LastSync) = LastSync
    <2>1. LastSync <= MaxSyncs /\ MaxSyncs \in Nat /\ Count <= MaxHistory /\ MaxHistory \in Nat
      BY <1>2, BroadcasterAssumption DEF TypeOK, BroadcasterAssumption
    <2>2. QED
      BY <1>2, <1>3, <2>1 DEF Larger
  <1>5. PICK r \in Serving :
            /\ serve' = [serve EXCEPT ![h] = r] /\ r.of = s.of /\ r.pc = "live"
            /\ r.batch = <<>> /\ r.skipBelow = s.skipBelow /\ r.syncedThrough = LastSync
    <2>1. serve' = [serve EXCEPT ![h] = [s EXCEPT !.pc = "live", !.syncedThrough =
                       Larger(s.syncedThrough, LastSync)]]
      BY DEF syncFrame
    <2>2. [s EXCEPT !.pc = "live", !.syncedThrough = Larger(s.syncedThrough, LastSync)] \in Serving
      BY <1>2, <1>4 DEF Serving
    <2>3. QED
      BY <1>2, <1>3, <1>4, <2>1, <2>2 DEF Serving
  <1>6. serve'[h] = r
    BY <1>2, <1>5, ServeStep
  <1>7. PICK f \in Frame : /\ Write(h, f) /\ f.id = s.skipBelow /\ f.seen = LastSync
                           /\ f.refetch
    <2>1. [id |-> s.skipBelow, seen |-> LastSync, changes |-> {}, refetch |-> TRUE] \in Frame
      BY <1>4 DEF Frame
    <2>2. QED
      BY <2>1 DEF syncFrame
  <1>8. /\ wire' \in [Handlers -> Seq(Frame)]
        /\ \A g \in Handlers \ {h} : wire'[g] = wire[g]
        /\ Items(wire'[h]) \subseteq Items(wire[h]) \cup {f}
        /\ conn[s.of] = h => wire'[h] = Append(wire[h], f)
    BY <1>2, <1>7, WriteIs
  <1>9. ASSUME NEW b \in Browsers, conn[b] = h
        PROVE  /\ Paired(b)'
               /\ ~ missed[b] => FramesKeep(b)' /\ Outdated(b)' /\ WindowKeeps(b)' /\ Flows(b)'
    <2>1. s.of = b /\ (~ missed[b] => Intact(b))
      BY <1>1, <1>9, Serves1
    <2>2. conn'[b] = h /\ epoch' = epoch /\ cursor' = cursor /\ behind' = behind
      BY <1>1, <1>9 DEF page, source
    <2>3. Paired(b)'
      BY <1>5, <1>6, <2>1, <2>2 DEF Paired
    <2>4. PICK v : v = wire'[h] /\ v = Append(wire[h], f)
      BY <1>8, <1>9, <2>1
    <2>5. /\ v # <<>> /\ Len(v) = Len(wire[h]) + 1 /\ Len(wire[h]) \in Nat
          /\ v[Len(v)] = f /\ \A j \in 1..Len(wire[h]) : v[j] = wire[h][j]
      BY <1>2, <2>4, FrameAdded, HandlerTypes
    <2>6. \A K, i : Reached(K, v, Len(v), i) /\ Refreshed(K, v, Len(v), i)
      BY <1>7, <2>5 DEF Reached, Refreshed
    <2>7. ASSUME ~ missed[b] PROVE FramesKeep(b)' /\ Outdated(b)' /\ WindowKeeps(b)' /\ Flows(b)'
      <3>1. FramesKeep(b)'
        BY <1>1, <1>7, <1>9, <2>4, <2>7, FramesWritten
      <3>2. Outdated(b)'
        <4>1. behind[b] => v[1].refetch
          <5>1. CASE wire[h] = <<>>
            BY <1>7, <2>5, <5>1
          <5>2. CASE wire[h] # <<>>
            <6>1. behind[b] => wire[h][1].refetch
              BY <1>2, <1>9, <2>1, <2>7, <5>2 DEF Intact, Outdated
            <6>2. 1 \in 1..Len(wire[h])
              BY <1>2, <2>5, <5>2, HandlerTypes, EmptySeq
            <6>3. QED
              BY <2>5, <6>1, <6>2
          <5>3. QED
            BY <5>1, <5>2
        <4>2. behind[b] => (cursor[b] # None => cursor[b].epoch # epoch)
          BY <2>1, <2>7 DEF Intact, Outdated
        <4>3. QED
          BY <2>2, <2>4, <2>5, <4>1, <4>2 DEF Outdated
      <3>3. WindowKeeps(b)'
        BY <2>2, <2>4, <2>6 DEF WindowKeeps
      <3>4. Flows(b)'
        BY <2>2, <2>4, <2>6 DEF Flows
      <3>5. QED
        BY <3>1, <3>2, <3>3, <3>4
    <2>8. QED
      BY <2>3, <2>7
  <1>10. PICK T \in SUBSET (1..Count) : T = told[h] \cup 1..s.skipBelow
    <2>1. 1..s.skipBelow \subseteq 1..Count
      BY <1>2, <1>3
    <2>2. QED
      BY <1>2, <2>1
  <1>11. \A e \in Ahead(h) : ~ IsSync(e) /\ e.id > r.skipBelow => e.id \notin T
    <2>1. \A e \in Ahead(h) : ~ IsSync(e) /\ e.id > s.skipBelow => e.id \notin told[h]
      BY <1>1, <1>2 DEF Handled, Once
    <2>2. \A e \in Ahead(h) : e.id \in Nat
      BY <1>2, AheadTypes, ItemIs
    <2>3. QED
      BY <1>2, <1>5, <1>10, <2>1, <2>2
  <1>12. /\ r.skipBelow <= Count /\ r.syncedThrough <= LastSync
         /\ r.pc \notin {"off", "open"} /\ ChangesIn(r.batch) \cap T = {} /\ s.pc # "off"
    BY <1>1, <1>2, <1>3, <1>5, NothingIn
  <1>13. /\ told' = [told EXCEPT ![h] = T]
         /\ UNCHANGED <<source, queues, table, events, page, faults,
                        known, refetched, behind, missed>>
         /\ lagged' \in [Handlers -> BOOLEAN]
         /\ \A g \in Handlers \ {h} : lagged'[g] = lagged[g]
         /\ slipped' \in [Browsers -> BOOLEAN] /\ \A b \in Browsers : slipped[b] => slipped'[b]
    BY <1>1, <1>2, <1>10 DEF TypeOK, shared
  <1>14. \A x \in Items(wire'[h]) : x \in Items(wire[h]) \/
             (x.id <= Count /\ x.seen <= LastSync /\ (x.seen > 0 => x.refetch))
    BY <1>2, <1>3, <1>7, <1>8
  <1>15. QED
    BY <1>5, <1>8, <1>9, <1>11, <1>12, <1>13, <1>14, HandlerMoves

\* What the frames reach, with one more.
LEMMA LastFrame ==
    ASSUME NEW w \in Seq(Frame), NEW f \in Frame, NEW v, v = Append(w, f)
    PROVE  /\ \A K, i : Reached(K, v, Len(v), i) <=>
                 Reached(K, w, Len(w), i) \/ f.refetch \/ i \in f.changes
           /\ \A k, i : Refreshed(k, v, Len(v), i) <=>
                 Refreshed(k, w, Len(w), i) \/ f.refetch
  <1>1. Len(v) = Len(w) + 1
    BY FrameAdded
  <1>2. /\ \A K, i : Reached(K, Append(w, f), Len(w) + 1, i) <=>
                 Reached(K, w, Len(w), i) \/ f.refetch \/ i \in f.changes
        /\ \A r, k : Refreshed(r, Append(w, f), Len(w) + 1, k) <=>
                 Refreshed(r, w, Len(w), k) \/ f.refetch
    BY FrameAdded, Zenon
  <1>3. QED
    BY <1>1, <1>2, Zenon

\* A first frame stays first.
LEMMA FirstStays ==
    ASSUME NEW w \in Seq(Frame), NEW f \in Frame, w # <<>>
    PROVE  Append(w, f)[1] = w[1]
  <1>1. 1 \in 1..Len(w)
    BY EmptySeq
  <1>2. QED
    BY <1>1, FrameAdded

(***************************************************************************)
(* The frame of a batch passes over nothing: what is still ahead of the    *)
(* handler comes after it.                                                 *)
(***************************************************************************)
LEMMA BatchCovers ==
    ASSUME IInv, NEW b \in Browsers, NEW h \in Handlers, conn[b] = h, ~ missed[b],
           serve[h].pc = "live", ~ lagged[h], serve[h].batch # <<>>
    PROVE  LET f == frame(serve[h].batch) IN
           /\ \A i \in All(b) : i <= f.id =>
                 Reached(known[b], wire[h], Len(wire[h]), i) \/ f.refetch \/ i \in f.changes
           /\ \A k \in 1..LastSync : marks[k] < f.id =>
                 \/ slipped[b] \/ f.refetch
                 \/ Refreshed(refetched[b], wire[h], Len(wire[h]), k)
  <1> DEFINE es == serve[h].batch
             f == frame(es)
  <1>1. /\ Typed /\ TypeOK /\ Handled(h) /\ Intact(b) /\ h # None
        /\ serve[h].syncedThrough \in Nat /\ LastSync \in Nat
    BY Serves1
  <1>2. es \in Seq(Item) /\ es # <<>>
    BY <1>1, HandlerTypes
  <1>3. \A a \in Items(es) : a \in Item /\ Fits(a)
    BY <1>1, AheadTypes DEF Handled, Ordered
  <1>4. \A a \in Items(es) : ~ IsSync(a) => a.id >= 1
    BY <1>1, <1>3, MarkTypes DEF Fits
  <1>5. /\ f \in Frame /\ f.changes = ChangesIn(es) /\ (f.refetch <=> SyncsIn(es) # {})
        /\ \E a \in Items(es) : a.id = f.id
    BY <1>2, <1>4, FrameIs
  <1> HIDE DEF f
  <1>6. SUFFICES ASSUME SyncsIn(es) = {}
                 PROVE  /\ \A i \in All(b) : i <= f.id =>
                              \/ Reached(known[b], wire[h], Len(wire[h]), i)
                              \/ f.refetch \/ i \in f.changes
                        /\ \A k \in 1..LastSync : marks[k] < f.id =>
                              \/ slipped[b] \/ f.refetch
                              \/ Refreshed(refetched[b], wire[h], Len(wire[h]), k)
    BY <1>5 DEF f
  <1>7. PICK a \in Items(es) : a.id = f.id
    BY <1>5
  <1>8. ASSUME NEW e \in Ahead(h)
        PROVE  f.id <= e.id /\ (~ IsSync(e) => f.id < e.id) /\ e \in Item /\ Fits(e)
    <2>1. Before(a, e) /\ a \in Item /\ e \in Item /\ Fits(e)
      BY <1>1, <1>3, AheadTypes DEF Handled, Ordered, Precede
    <2>2. QED
      BY <1>7, <2>1, Before2
  <1>9. ASSUME NEW i \in All(b), i <= f.id
        PROVE  Reached(known[b], wire[h], Len(wire[h]), i) \/ i \in f.changes
    <2>1. \/ Reached(known[b], wire[h], Len(wire[h]), i)
          \/ i \in ChangesIn(es)
          \/ \E e \in Ahead(h) : ~ IsSync(e) /\ e.id = i
      BY <1>1, <1>6 DEF Intact, Flows, Listens
    <2>2. ASSUME NEW e \in Ahead(h), ~ IsSync(e), e.id = i PROVE FALSE
      <3>1. f.id < e.id /\ e.id \in Nat /\ f.id \in Nat
        BY <1>5, <1>8, <2>2, ItemIs, FrameTypes
      <3>2. QED
        BY <1>9, <2>2, <3>1
    <2>3. QED
      BY <1>5, <2>1, <2>2
  <1>10. ASSUME NEW k \in 1..LastSync, marks[k] < f.id
         PROVE  slipped[b] \/ Refreshed(refetched[b], wire[h], Len(wire[h]), k)
    <2>1. CASE k \in 1..serve[h].syncedThrough
      BY <1>1, <2>1 DEF Intact, WindowKeeps
    <2>2. CASE k \in (serve[h].syncedThrough + 1)..LastSync
      <3>1. \/ slipped[b] \/ Refreshed(refetched[b], wire[h], Len(wire[h]), k)
            \/ \E e \in Ahead(h) : e.sync = k
        BY <1>1, <1>6, <2>2 DEF Intact, Flows, Listens
      <3>2. ASSUME NEW e \in Ahead(h), e.sync = k PROVE FALSE
        <4>1. f.id <= e.id /\ e \in Item /\ Fits(e)
          BY <1>8
        <4>2. e.id = marks[k]
          BY <3>2, <4>1 DEF Fits, IsSync
        <4>3. marks[k] \in Nat /\ f.id \in Nat
          BY <1>1, <1>5, MarkTypes, FrameTypes
        <4>4. QED
          BY <1>10, <4>1, <4>2, <4>3
      <3>3. QED
        BY <3>1, <3>2
    <2>3. QED
      BY <1>1, <2>1, <2>2
  <1>11. QED
    BY <1>9, <1>10

\* The frame of a batch, and what it says.
LEMMA BatchFrame ==
    ASSUME IInv, NEW h \in Handlers, serve[h].pc = "live"
    PROVE  LET f == frame(serve[h].batch) IN
           /\ f \in Frame /\ f.changes = ChangesIn(serve[h].batch)
           /\ f.refetch <=> SyncsIn(serve[h].batch) # {}
           /\ serve[h].batch # <<>> =>
                 f.id <= Count /\ f.seen <= LastSync /\ (f.seen > 0 => f.refetch)
           /\ ChangesIn(serve[h].batch) \subseteq 1..Count
  <1> DEFINE es == serve[h].batch
             f == frame(es)
  <1>1. /\ Typed /\ TypeOK /\ Handled(h) /\ LastSync \in Nat /\ Count \in Nat /\ Marked
    BY Serves1 DEF IInv
  <1>2. es \in Seq(Item)
    BY <1>1, HandlerTypes
  <1>3. \A a \in Items(es) : a \in Item /\ Fits(a) /\ a.id <= Count /\ a.sync <= LastSync
    BY <1>1, AheadTypes, FitsLow DEF Handled, Ordered
  <1>4. \A a \in Items(es) : ~ IsSync(a) => a.id >= 1 /\ a.id \in 1..Count
    BY <1>1, <1>3 DEF Fits
  <1>5. /\ f \in Frame /\ f.changes = ChangesIn(es) /\ (f.refetch <=> SyncsIn(es) # {})
        /\ (es # <<>> => \E a \in Items(es) : a.id = f.id)
        /\ (f.seen > 0 => \E a \in Items(es) : IsSync(a) /\ f.seen = a.sync)
    BY <1>2, <1>4, FrameIs
  <1> HIDE DEF f
  <1>6. es # <<>> => f.id <= Count
    BY <1>3, <1>5
  <1>7. f.seen <= LastSync /\ (f.seen > 0 => f.refetch)
    <2>1. CASE f.seen > 0
      <3>1. PICK a \in Items(es) : IsSync(a) /\ f.seen = a.sync
        BY <1>5, <2>1
      <3>2. SyncsIn(es) # {}
        BY <1>2, <3>1, ItemsOf
      <3>3. QED
        BY <1>3, <1>5, <3>1, <3>2
    <2>2. CASE ~ (f.seen > 0)
      <3>1. f.seen \in Nat
        BY <1>5, FrameTypes
      <3>2. QED
        BY <1>1, <2>2, <3>1
    <2>3. QED
      BY <2>1, <2>2
  <1>8. ChangesIn(es) \subseteq 1..Count
    <2>1. ASSUME NEW c \in ChangesIn(es) PROVE c \in 1..Count
      <3>1. PICK a \in Items(es) : ~ IsSync(a) /\ c = a.id
        BY <1>2, ItemsOf
      <3>2. QED
        BY <1>4, <3>1
    <2>2. QED
      BY <2>1
  <1>9. QED
    BY <1>5, <1>6, <1>7, <1>8 DEF f

LEMMA TickKeeps ==
    ASSUME IInv, NEW h \in Handlers, Tick(h)
    PROVE  IInv'
  <1> DEFINE s == serve[h]
  <1>1. /\ s.pc = "live" /\ ~ lagged[h] /\ s.batch # <<>>
        /\ told' = [told EXCEPT ![h] = told[h] \cup ChangesIn(s.batch)]
        /\ UNCHANGED <<source, queues, table, shared, page, faults, known,
                       refetched, behind, missed, slipped>>
    BY DEF Tick
  <1>2. /\ Typed /\ TypeOK /\ Handled(h) /\ s \in Serving
        /\ Count \in Nat /\ LastSync \in Nat /\ h # None /\ told[h] \subseteq 1..Count
    BY <1>1, Serves1
  <1>3. PICK f \in Frame :
            /\ Write(h, f) /\ f = frame(s.batch) /\ f.changes = ChangesIn(s.batch)
            /\ f.refetch <=> SyncsIn(s.batch) # {}
            /\ f.id <= Count /\ f.seen <= LastSync /\ (f.seen > 0 => f.refetch)
    BY <1>1, BatchFrame DEF Tick
  <1>4. PICK r \in Serving :
            /\ serve' = [serve EXCEPT ![h] = r] /\ r.of = s.of /\ r.pc = "live"
            /\ r.batch = <<>> /\ r.skipBelow = s.skipBelow /\ r.syncedThrough = s.syncedThrough
    <2>1. serve' = [serve EXCEPT ![h] = [s EXCEPT !.batch = <<>>]]
      BY DEF Tick
    <2>2. [s EXCEPT !.batch = <<>>] \in Serving
      <3>1. <<>> \in Seq(Item)
        OBVIOUS
      <3>2. QED
        BY <1>2, <3>1 DEF Serving
    <2>3. QED
      BY <1>1, <1>2, <2>1, <2>2 DEF Serving
  <1>5. serve'[h] = r
    BY <1>2, <1>4, ServeStep
  <1>6. /\ wire' \in [Handlers -> Seq(Frame)]
        /\ \A g \in Handlers \ {h} : wire'[g] = wire[g]
        /\ Items(wire'[h]) \subseteq Items(wire[h]) \cup {f}
        /\ conn[s.of] = h => wire'[h] = Append(wire[h], f)
    <2>1. Write(h, f)
      BY <1>3
    <2>2. QED
      BY <1>2, <2>1, WriteIs
  <1>7. Ahead(h)' = Ahead(h)
    BY <1>1, <1>2, <1>4, <1>5, OrderedKept DEF Handled, shared
  <1>8. ASSUME NEW b \in Browsers, conn[b] = h
        PROVE  /\ Paired(b)'
               /\ ~ missed[b] => FramesKeep(b)' /\ Outdated(b)' /\ WindowKeeps(b)' /\ Flows(b)'
    <2>1. s.of = b /\ (~ missed[b] => Intact(b)) /\ wire[h] \in Seq(Frame)
      BY <1>1, <1>2, <1>8, Serves1, HandlerTypes
    <2>2. /\ conn'[b] = h /\ epoch' = epoch /\ cursor' = cursor /\ behind' = behind
          /\ slipped' = slipped /\ known' = known /\ refetched' = refetched
          /\ lagged' = lagged /\ All(b)' = All(b) /\ LastSync' = LastSync
      BY <1>1, <1>8 DEF page, source, shared, All, Count, LastSync
    <2>3. Paired(b)'
      BY <1>4, <1>5, <2>1, <2>2 DEF Paired
    <2>4. PICK v : v = wire'[h] /\ v = Append(wire[h], f)
      BY <1>6, <1>8, <2>1
    <2>5. v # <<>>
      BY <2>1, <2>4, FrameAdded
    <2>6. /\ \A K, i : Reached(K, v, Len(v), i) <=>
                 Reached(K, wire[h], Len(wire[h]), i) \/ f.refetch \/ i \in f.changes
          /\ \A k, i : Refreshed(k, v, Len(v), i) <=>
                 Refreshed(k, wire[h], Len(wire[h]), i) \/ f.refetch
      BY <2>1, <2>4, LastFrame
    <2>7. ASSUME ~ missed[b] PROVE FramesKeep(b)' /\ Outdated(b)' /\ WindowKeeps(b)' /\ Flows(b)'
      <3>1. FramesKeep(b)'
        <4>1. /\ \A i \in All(b) : i <= f.id =>
                   Reached(known[b], wire[h], Len(wire[h]), i) \/ f.refetch \/ i \in f.changes
              /\ \A k \in 1..LastSync : marks[k] < f.id =>
                   \/ slipped[b] \/ f.refetch
                   \/ Refreshed(refetched[b], wire[h], Len(wire[h]), k)
          BY <1>1, <1>3, <1>8, <2>7, BatchCovers
        <4>2. QED
          BY <1>1, <1>8, <2>2, <2>4, <2>7, <4>1, FramesWritten
      <3>2. Outdated(b)'
        <4>1. behind[b] => /\ wire[h] # <<>> /\ wire[h][1].refetch
                           /\ cursor[b] # None => cursor[b].epoch # epoch
          BY <1>1, <1>2, <1>8, <2>1, <2>7 DEF Intact, Outdated
        <4>2. behind[b] => v[1].refetch
          BY <2>1, <2>4, <4>1, FirstStays
        <4>3. QED
          BY <2>2, <2>4, <2>5, <4>1, <4>2 DEF Outdated
      <3>3. WindowKeeps(b)'
        <4>1. /\ \A i \in All(b) : i <= s.skipBelow => Reached(known[b], wire[h], Len(wire[h]), i)
              /\ \A k \in 1..s.syncedThrough :
                    slipped[b] \/ Refreshed(refetched[b], wire[h], Len(wire[h]), k)
          BY <1>1, <1>2, <1>8, <2>1, <2>7 DEF Intact, WindowKeeps
        <4>2. QED
          BY <1>4, <1>5, <2>2, <2>4, <2>6, <4>1 DEF WindowKeeps
      <3>4. Flows(b)'
        <4>1. CASE SyncsIn(s.batch) # {}
          BY <1>3, <2>2, <2>4, <2>6, <4>1 DEF Flows
        <4>2. CASE SyncsIn(s.batch) = {}
          <5>1. /\ \A i \in All(b) :
                      \/ Reached(known[b], wire[h], Len(wire[h]), i)
                      \/ i \in ChangesIn(s.batch)
                      \/ \E e \in Ahead(h) : ~ IsSync(e) /\ e.id = i
                /\ \A k \in (s.syncedThrough + 1)..LastSync :
                      \/ slipped[b] \/ Refreshed(refetched[b], wire[h], Len(wire[h]), k)
                      \/ \E e \in Ahead(h) : e.sync = k
            BY <1>1, <1>2, <1>8, <2>1, <2>7, <4>2 DEF Intact, Flows, Listens
          <5>2. /\ \A i \in All(b) :
                      \/ Reached(known[b], v, Len(v), i)
                      \/ \E e \in Ahead(h) : ~ IsSync(e) /\ e.id = i
                /\ \A k \in (s.syncedThrough + 1)..LastSync :
                      \/ slipped[b] \/ Refreshed(refetched[b], v, Len(v), k)
                      \/ \E e \in Ahead(h) : e.sync = k
            BY <1>3, <2>6, <5>1
          <5>3. QED
            BY <1>4, <1>5, <1>7, <2>2, <2>4, <5>2 DEF Flows
        <4>3. QED
          BY <4>1, <4>2
      <3>5. QED
        BY <3>1, <3>2, <3>3, <3>4
    <2>8. QED
      BY <2>3, <2>7
  <1>9. ChangesIn(s.batch) \subseteq 1..Count
    BY <1>1, BatchFrame
  <1>10. PICK T \in SUBSET (1..Count) : T = told[h] \cup ChangesIn(s.batch)
    BY <1>2, <1>9
  <1>11. \A e \in Ahead(h) : ~ IsSync(e) /\ e.id > r.skipBelow => e.id \notin T
    <2>1. \A e \in Ahead(h) : ~ IsSync(e) /\ e.id > s.skipBelow => e.id \notin told[h]
      BY <1>1, <1>2 DEF Handled, Once
    <2>2. ASSUME NEW e \in Ahead(h), ~ IsSync(e) PROVE e.id \notin ChangesIn(s.batch)
      <3>1. s.batch \in Seq(Item)
        BY <1>2, HandlerTypes
      <3>2. SUFFICES ASSUME NEW a \in Items(s.batch), a.id = e.id PROVE FALSE
        BY <3>1, ItemsOf
      <3>3. Before(a, e) /\ a \in Item /\ e \in Item
        BY <1>2, AheadTypes DEF Handled, Ordered, Precede
      <3>4. a.id < e.id /\ e.id \in Nat
        BY <2>2, <3>3, Before2, ItemIs
      <3>5. QED
        BY <3>2, <3>4
    <2>3. QED
      BY <1>4, <1>10, <2>1, <2>2
  <1>12. s.skipBelow <= Count /\ s.syncedThrough <= LastSync
    BY <1>2 DEF Handled, Bounded
  <1>13. /\ r.skipBelow <= Count /\ r.syncedThrough <= LastSync
         /\ r.pc \notin {"off", "open"} /\ ChangesIn(r.batch) \cap T = {} /\ s.pc # "off"
    BY <1>1, <1>4, <1>12, NothingIn
  <1>14. /\ told' = [told EXCEPT ![h] = T]
         /\ UNCHANGED <<source, queues, table, events, page, faults,
                        known, refetched, behind, missed>>
         /\ lagged' \in [Handlers -> BOOLEAN]
         /\ \A g \in Handlers \ {h} : lagged'[g] = lagged[g]
         /\ slipped' \in [Browsers -> BOOLEAN] /\ \A b \in Browsers : slipped[b] => slipped'[b]
    BY <1>1, <1>2, <1>10 DEF TypeOK, shared
  <1>15. \A x \in Items(wire'[h]) : x \in Items(wire[h]) \/
             (x.id <= Count /\ x.seen <= LastSync /\ (x.seen > 0 => x.refetch))
    BY <1>3, <1>6
  <1>16. QED
    BY <1>4, <1>6, <1>8, <1>11, <1>13, <1>14, <1>15, HandlerMoves

LEMMA replayEventsKeeps ==
    ASSUME IInv, NEW h \in Handlers, replayEvents(h)
    PROVE  IInv'
  <1> DEFINE s     == serve[h]
             after == s.cur.id
             ids   == {i \in All(s.of) : i > after /\ Count - i < Size}
             to    == Newest(ids \cup {after})
  <1>1. /\ s.pc = "since"
        /\ UNCHANGED <<source, queues, table, shared, page, faults, known,
                       refetched, behind, missed>>
    BY DEF replayEvents
  <1>2. /\ Typed /\ TypeOK /\ Handled(h) /\ s \in Serving /\ s.of \in Browsers
        /\ Count \in Nat /\ LastSync \in Nat /\ h # None /\ told[h] \subseteq 1..Count
        /\ s.skipBelow \in Nat /\ s.syncedThrough \in Nat
    BY <1>1, Serves1
  <1>3. s.batch = <<>> /\ s.skipBelow <= Count /\ s.syncedThrough <= LastSync
    BY <1>1, <1>2 DEF Handled, Serviced, Bounded
  <1>4. CASE ~ SinceComplete(after)
    <2>1. /\ serve' = [serve EXCEPT ![h] = [s EXCEPT !.pc = "count"]]
          /\ UNCHANGED <<wire, told, slipped>>
      BY <1>4 DEF replayEvents
    <2>2. PICK r \in Serving :
              /\ serve' = [serve EXCEPT ![h] = r] /\ r.of = s.of /\ r.pc = "count"
              /\ r.batch = <<>> /\ r.skipBelow = s.skipBelow
              /\ r.syncedThrough = s.syncedThrough
      <3>1. [s EXCEPT !.pc = "count"] \in Serving
        BY <1>2 DEF Serving
      <3>2. QED
        BY <1>2, <1>3, <2>1, <3>1 DEF Serving
    <2>3. serve'[h] = r
      BY <1>2, <2>2, ServeStep
    <2>4. PICK T \in SUBSET (1..Count) : T = told[h]
      BY <1>2
    <2>5. /\ r.skipBelow <= Count /\ r.syncedThrough <= LastSync
          /\ r.pc \notin {"off", "open"} /\ ChangesIn(r.batch) \cap T = {} /\ s.pc # "off"
      BY <1>1, <1>3, <2>2, NothingIn
    <2>6. \A e \in Ahead(h) : ~ IsSync(e) /\ e.id > r.skipBelow => e.id \notin T
      BY <1>1, <1>2, <2>2, <2>4 DEF Handled, Once
    <2>7. /\ told' = [told EXCEPT ![h] = T]
          /\ UNCHANGED <<source, queues, table, events, page, faults,
                         known, refetched, behind, missed>>
          /\ lagged' \in [Handlers -> BOOLEAN] /\ wire' = wire
          /\ \A g \in Handlers \ {h} : lagged'[g] = lagged[g]
          /\ wire' \in [Handlers -> Seq(Frame)]
          /\ \A g \in Handlers \ {h} : wire'[g] = wire[g]
          /\ \A f \in Items(wire'[h]) : f \in Items(wire[h])
          /\ slipped' \in [Browsers -> BOOLEAN] /\ \A b \in Browsers : slipped[b] => slipped'[b]
      BY <1>1, <1>2, <2>1, <2>4 DEF TypeOK, shared
    <2>8. \A b \in Browsers : conn[b] = h =>
               /\ Paired(b)'
               /\ ~ missed[b] => FramesKeep(b)' /\ Outdated(b)' /\ WindowKeeps(b)' /\ Flows(b)'
      BY <1>1, <2>2, <2>3, <2>5, <2>7, Owing
    <2>9. QED
      BY <2>2, <2>5, <2>6, <2>7, <2>8, HandlerMoves
  <1>5. CASE SinceComplete(after)
    <2> DEFINE overtaken == \E k \in (s.syncedThrough + 1)..LastSync : marks[k] < to
    <2>1. /\ serve' = [serve EXCEPT ![h] = [s EXCEPT !.pc = "live", !.skipBelow = to]]
          /\ told' = [told EXCEPT ![h] = ids]
          /\ slipped' = [slipped EXCEPT ![s.of] = slipped[s.of] \/ overtaken]
          /\ IF ids = {} THEN wire' = wire
             ELSE Write(h, [id |-> to, seen |-> 0, changes |-> ids, refetch |-> FALSE])
      BY <1>5 DEF replayEvents
    <2>2. s.cur \in Cursor /\ after \in Nat /\ after <= Count /\ Count - after <= Size
          /\ Size \in Nat \ {0}
      <3>1. s.cur \in Cursor
        BY <1>1, <1>2 DEF Handled, Serviced, Serving
      <3>2. QED
        BY <1>5, <3>1, BroadcasterAssumption DEF Cursor, SinceComplete, BroadcasterAssumption
    <2>3. ids \subseteq 1..Count /\ MaxHistory \in Nat /\ Count <= MaxHistory
      BY <1>2, BroadcasterAssumption DEF All, TypeOK, BroadcasterAssumption
    <2>4. /\ to \in ids \cup {after} /\ to \in Nat /\ to <= Count /\ after <= to
          /\ \A i \in ids : i <= to
      <3>1. ids \cup {after} \subseteq Nat /\ \A n \in ids \cup {after} : n <= Count
        BY <1>2, <2>2, <2>3
      <3>2. /\ to \in ids \cup {after} \cup {0} /\ to \in Nat /\ to <= Count
            /\ \A n \in ids \cup {after} : n <= to
        BY <1>2, <3>1, NewestIs
      <3>3. after <= to /\ (to = 0 => to = after)
        BY <2>2, <3>2
      <3>4. QED
        BY <3>2, <3>3
    <2>5. PICK n \in Nat, I \in SUBSET (1..Count) : n = to /\ I = ids
      BY <2>3, <2>4
    <2> HIDE DEF to
    <2>6. PICK r \in Serving :
              /\ serve' = [serve EXCEPT ![h] = r] /\ r.of = s.of /\ r.pc = "live"
              /\ r.batch = <<>> /\ r.skipBelow = to /\ r.syncedThrough = s.syncedThrough
      <3>1. to \in 0..MaxHistory
        BY <1>2, <2>3, <2>4
      <3>2. [s EXCEPT !.pc = "live", !.skipBelow = to] \in Serving
        BY <1>2, <3>1 DEF Serving
      <3>3. QED
        BY <1>2, <1>3, <2>1, <3>2 DEF Serving
    <2>7. serve'[h] = r
      BY <1>2, <2>6, ServeStep
    <2>8. PICK f \in Frame : /\ f.id = to /\ f.seen = 0 /\ f.changes = ids /\ ~ f.refetch
                             /\ (ids # {} => Write(h, f))
      <3>1. [id |-> to, seen |-> 0, changes |-> ids, refetch |-> FALSE] \in Frame
        <4>1. ids \in SUBSET (1..MaxHistory) /\ to \in 0..MaxHistory /\ 0 \in 0..MaxSyncs
          BY <1>2, <2>3, <2>4, BroadcasterAssumption DEF BroadcasterAssumption
        <4>2. QED
          BY <4>1 DEF Frame
      <3>2. QED
        BY <2>1, <3>1
    <2>9. /\ wire' \in [Handlers -> Seq(Frame)]
          /\ \A g \in Handlers \ {h} : wire'[g] = wire[g]
          /\ Items(wire'[h]) \subseteq Items(wire[h]) \cup {f}
          /\ ids = {} => wire'[h] = wire[h]
          /\ ids # {} /\ conn[s.of] = h => wire'[h] = Append(wire[h], f)
      <3>1. CASE ids = {}
        BY <1>2, <2>1, <3>1 DEF TypeOK
      <3>2. CASE ids # {}
        <4>1. Write(h, f)
          BY <2>8, <3>2
        <4>2. QED
          BY <1>2, <3>2, <4>1, WriteIs
      <3>3. QED
        BY <3>1, <3>2
    <2>10. /\ slipped' \in [Browsers -> BOOLEAN] /\ \A b \in Browsers : slipped[b] => slipped'[b]
           /\ slipped'[s.of] = (slipped[s.of] \/ overtaken)
      <3>1. slipped \in [Browsers -> BOOLEAN]
        BY <1>2 DEF TypeOK
      <3>2. (slipped[s.of] \/ overtaken) \in BOOLEAN
        BY <1>2, <3>1
      <3>3. QED
        BY <1>2, <2>1, <3>1, <3>2
    <2>11. Ahead(h)' = Ahead(h)
      BY <1>1, <1>2, <1>3, <2>6, <2>7, OrderedKept DEF Handled, shared
    <2>12. ASSUME NEW b \in Browsers, conn[b] = h
           PROVE  /\ Paired(b)'
                  /\ ~ missed[b] => FramesKeep(b)' /\ Outdated(b)' /\ WindowKeeps(b)' /\ Flows(b)'
      <3>1. s.of = b /\ (~ missed[b] => Intact(b)) /\ Paired(b)
        BY <1>1, <2>12, Serves1
      <3>2. wire[h] = <<>> /\ s.cur = cursor[b] /\ cursor[b] # None /\ cursor[b].epoch = epoch
            /\ Len(wire[h]) = 0
        BY <1>1, <1>2, <2>12, <3>1 DEF Paired, Handled, Serviced
      <3>3. /\ conn'[b] = h /\ epoch' = epoch /\ cursor' = cursor /\ behind' = behind
            /\ known' = known /\ refetched' = refetched
            /\ lagged' = lagged /\ All(b)' = All(b) /\ LastSync' = LastSync
        BY <1>1, <2>12 DEF page, source, shared, All, Count, LastSync
      <3>4. Paired(b)'
        BY <2>6, <2>7, <3>1, <3>3 DEF Paired
      <3>5. ASSUME ~ missed[b]
            PROVE  FramesKeep(b)' /\ Outdated(b)' /\ WindowKeeps(b)' /\ Flows(b)'
        <4>1. UpTo(b, <<>>, 0, after)
          BY <3>1, <3>2, <3>5 DEF Intact, CursorKeeps
        <4>2. ~ behind[b]
          BY <3>1, <3>2, <3>5 DEF Intact, Outdated
        <4>3. \A i \in All(b) : i \in known[b] \/ i \in ids
          <5>1. SUFFICES ASSUME NEW i \in All(b), i \notin known[b] PROVE i \in ids
            OBVIOUS
          <5>2. ~ (i <= after) /\ i \in Nat
            BY <1>2, <4>1, <5>1 DEF UpTo, Reached, All
          <5>3. QED
            BY <1>2, <2>2, <3>1, <5>1, <5>2
        <4>4. \A k \in 1..s.syncedThrough : slipped[b] \/ k <= refetched[b]
          BY <1>1, <2>12, <1>2, <3>1, <3>2, <3>5 DEF Intact, WindowKeeps, Refreshed
        <4>5. \A k \in 1..LastSync : marks[k] < to => slipped'[b] \/ k <= refetched[b]
          <5>1. SUFFICES ASSUME NEW k \in 1..LastSync, marks[k] < to, ~ (k <= refetched[b])
                         PROVE  slipped'[b]
            OBVIOUS
          <5>2. CASE k \in 1..s.syncedThrough
            BY <2>10, <4>4, <5>1, <5>2
          <5>3. CASE k \in (s.syncedThrough + 1)..LastSync
            BY <2>10, <3>1, <5>1, <5>3
          <5>4. QED
            BY <1>2, <5>2, <5>3
        <4>6. FramesKeep(b)'
          <5>1. CASE ids = {}
            BY <1>1, <2>9, <2>10, <2>12, <3>5, <5>1, FramesStay
          <5>2. CASE ids # {}
            <6>1. wire'[h] = Append(wire[h], f)
              BY <2>9, <2>12, <3>1, <5>2
            <6>2. \A i \in All(b) : i <= f.id =>
                      Reached(known[b], wire[h], Len(wire[h]), i) \/ f.refetch \/ i \in f.changes
              BY <2>8, <4>3 DEF Reached
            <6>3. \A k \in 1..LastSync : marks[k] < f.id =>
                      \/ slipped'[b] \/ f.refetch
                      \/ Refreshed(refetched[b], wire[h], Len(wire[h]), k)
              BY <2>8, <4>5 DEF Refreshed
            <6>4. QED
              BY <1>1, <2>10, <2>12, <3>5, <6>1, <6>2, <6>3, FramesWritten
          <5>3. QED
            BY <5>1, <5>2
        <4>7. Outdated(b)'
          BY <3>3, <4>2 DEF Outdated
        <4>8. PICK v : /\ v = wire'[h]
                       /\ \A i \in All(b) : Reached(known[b], v, Len(v), i)
                       /\ \A k : k <= refetched[b] => Refreshed(refetched[b], v, Len(v), k)
          <5>1. PICK v : v = wire'[h]
            OBVIOUS
          <5>2. \A k : k <= refetched[b] => Refreshed(refetched[b], v, Len(v), k)
            BY DEF Refreshed
          <5>3. CASE ids = {}
            BY <4>3, <5>1, <5>2, <5>3 DEF Reached
          <5>4. CASE ids # {}
            <6>1. wire[h] \in Seq(Frame) /\ v = Append(wire[h], f)
              BY <1>2, <2>9, <2>12, <3>1, <5>1, <5>4, HandlerTypes
            <6>2. \A i \in All(b) : Reached(known[b], wire[h], Len(wire[h]), i) \/ i \in f.changes
              BY <2>8, <4>3 DEF Reached
            <6>3. \A i \in All(b) : Reached(known[b], v, Len(v), i)
              BY <6>1, <6>2, LastFrame
            <6>4. QED
              BY <5>1, <5>2, <6>3
          <5>5. QED
            BY <5>3, <5>4
        <4>9. WindowKeeps(b)'
          BY <2>6, <2>7, <2>10, <3>3, <4>4, <4>8 DEF WindowKeeps
        <4>10. Flows(b)'
          <5>1. ~ lagged[h] => \A k \in (s.syncedThrough + 1)..LastSync :
                    \/ slipped[b] \/ k <= refetched[b]
                    \/ \E e \in Ahead(h) : e.sync = k
            BY <1>1, <1>2, <1>3, <2>12, <3>1, <3>2, <3>5, NothingIn DEF Intact, Flows, Refreshed
          <5>2. QED
            BY <2>6, <2>7, <2>10, <2>11, <3>3, <4>8, <5>1 DEF Flows
        <4>11. QED
          BY <4>6, <4>7, <4>9, <4>10
      <3>6. QED
        BY <3>4, <3>5
    <2>13. \A e \in Ahead(h) : ~ IsSync(e) /\ e.id > r.skipBelow => e.id \notin I
      BY <2>3, <2>4, <2>5, <2>6
    <2>14. /\ r.skipBelow <= Count /\ r.syncedThrough <= LastSync
           /\ r.pc \notin {"off", "open"} /\ ChangesIn(r.batch) \cap I = {} /\ s.pc # "off"
           /\ r.pc # "since" /\ r.pc = "live"
      BY <1>1, <1>3, <2>4, <2>6, NothingIn
    <2>15. /\ told' = [told EXCEPT ![h] = I]
           /\ UNCHANGED <<source, queues, table, events, page, faults,
                          known, refetched, behind, missed>>
           /\ lagged' \in [Handlers -> BOOLEAN]
           /\ \A g \in Handlers \ {h} : lagged'[g] = lagged[g]
      BY <1>1, <1>2, <2>1, <2>5 DEF TypeOK, shared
    <2>16. \A x \in Items(wire'[h]) : x \in Items(wire[h]) \/
               (x.id <= Count /\ x.seen <= LastSync /\ (x.seen > 0 => x.refetch))
      BY <1>2, <2>4, <2>8, <2>9
    <2>17. QED
      BY <2>6, <2>9, <2>10, <2>12, <2>13, <2>14, <2>15, <2>16, HandlerMoves
  <1>6. QED
    BY <1>4, <1>5

LEMMA TakeEventKeeps ==
    ASSUME IInv, NEW h \in Handlers, TakeEvent(h)
    PROVE  IInv'
  <1> DEFINE s == serve[h]
             e == Head(events[h])
  <1>1. /\ s.pc = "live" /\ events[h] # <<>>
        /\ events' = [events EXCEPT ![h] = Tail(events[h])]
        /\ UNCHANGED <<source, queues, table, lagged, wire, page, faults, ghosts>>
    BY DEF TakeEvent
  <1>2. /\ Typed /\ TypeOK /\ Handled(h) /\ s \in Serving
        /\ Count \in Nat /\ LastSync \in Nat /\ h # None /\ told[h] \subseteq 1..Count
        /\ s.skipBelow \in Nat /\ s.syncedThrough \in Nat
    BY <1>1, Serves1
  <1>3. events[h] \in Seq(Item) /\ s.batch \in Seq(Item) /\ wire[h] \in Seq(Frame)
    BY <1>2, HandlerTypes
  <1>4. /\ Tail(events[h]) \in Seq(Item) /\ Len(Tail(events[h])) = Len(events[h]) - 1
        /\ Len(events[h]) \in Nat /\ e \in Item
        /\ Items(events[h]) = {e} \cup Items(Tail(events[h]))
        /\ InOrder(Tail(events[h])) /\ Precede({e}, Items(Tail(events[h])))
    BY <1>1, <1>2, <1>3, ItemsTail, InOrderTail DEF Handled, Ordered
  <1> HIDE DEF e
  <1>5. PICK r \in Serving :
            /\ serve' = [serve EXCEPT ![h] = r] /\ r.of = s.of /\ r.pc = "live"
            /\ r.syncedThrough = s.syncedThrough
            /\ \/ Skipped(h, e) /\ r = s
               \/ /\ ~ Skipped(h, e) /\ r.batch = Append(s.batch, e)
                  /\ r.skipBelow = IF IsSync(e) THEN s.skipBelow ELSE 0
    <2>1. CASE Skipped(h, e)
      <3>1. serve' = [serve EXCEPT ![h] = s]
        BY <1>2, <2>1 DEF TakeEvent, TypeOK, e
      <3>2. QED
        BY <1>1, <1>2, <2>1, <3>1
    <2>2. CASE ~ Skipped(h, e)
      <3>1. serve' = [serve EXCEPT ![h] =
                         [s EXCEPT !.batch = Append(s.batch, e),
                                   !.skipBelow = IF IsSync(e) THEN s.skipBelow ELSE 0]]
        BY <2>2 DEF TakeEvent, e
      <3>2. Append(s.batch, e) \in Seq(Item) /\ 0 \in 0..MaxHistory
        BY <1>3, <1>4, AppendProperties, BroadcasterAssumption DEF BroadcasterAssumption
      <3>3. (IF IsSync(e) THEN s.skipBelow ELSE 0) \in 0..MaxHistory
        BY <1>2, <3>2 DEF Serving
      <3>4. [s EXCEPT !.batch = Append(s.batch, e),
                      !.skipBelow = IF IsSync(e) THEN s.skipBelow ELSE 0] \in Serving
        BY <1>2, <3>2, <3>3 DEF Serving
      <3>5. QED
        BY <1>1, <1>2, <2>2, <3>1, <3>4 DEF Serving
    <2>3. QED
      BY <2>1, <2>2
  <1>6. serve'[h] = r /\ serve' \in [Handlers -> Serving]
        /\ \A g \in Handlers \ {h} : serve'[g] = serve[g]
    BY <1>2, <1>5, ServeStep
  <1>7. /\ events' \in [Handlers -> Seq(Item)] /\ events'[h] = Tail(events[h])
        /\ \A g \in Handlers \ {h} : events'[g] = events[g]
        /\ \A g \in Handlers : Len(events'[g]) <= EventsCap
    <2>1. events \in [Handlers -> Seq(Item)] /\ \A g \in Handlers : Len(events[g]) <= EventsCap
      BY <1>2 DEF TypeOK
    <2>2. /\ events' \in [Handlers -> Seq(Item)] /\ events'[h] = Tail(events[h])
          /\ \A g \in Handlers \ {h} : events'[g] = events[g]
      BY <1>1, <1>4, <2>1
    <2>3. Len(events'[h]) <= EventsCap
      <3>1. EventsCap \in Nat /\ Len(events[h]) <= EventsCap
        BY <2>1, BroadcasterAssumption DEF BroadcasterAssumption
      <3>2. QED
        BY <1>4, <2>2, <3>1
    <2>4. QED
      BY <2>1, <2>2, <2>3
  <1>8. /\ Fanned(h)' = Fanned(h) /\ Items(inbox)' = Items(inbox) /\ Notified' = Notified
        /\ Items(events[h])' = Items(Tail(events[h]))
        /\ Items(serve[h].batch)' = Items(r.batch)
    BY <1>1, <1>6, <1>7 DEF Fanned, Items, Notified, source, queues
  <1>9. Ahead(h) = Ahead(h)' \cup {e}
        /\ Ahead(h)' = Items(Tail(events[h])) \cup Fanned(h) \cup Items(inbox) \cup Notified
    BY <1>4, <1>8 DEF Ahead
  <1>10. /\ \A a \in Ahead(h)' : Before(e, a) /\ a \in Item
         /\ \A a \in Items(s.batch) : Before(a, e)
         /\ Fits(e) /\ Ordered(h)
    <2>1. Ordered(h) /\ e \in Ahead(h) /\ e \in Items(events[h])
      BY <1>2, <1>4, <1>9 DEF Handled
    <2>2. \A a \in Ahead(h)' : a \in Item
      BY <1>2, <1>9, AheadTypes
    <2>3. QED
      BY <1>4, <1>9, <2>1, <2>2 DEF Ordered, Precede
  <1>11. Items(r.batch) \subseteq Items(s.batch) \cup {e} /\ r.batch \in Seq(Item)
        /\ Items(s.batch) \subseteq Items(r.batch) /\ (~ Skipped(h, e) => e \in Items(r.batch))
    <2>1. /\ Append(s.batch, e) \in Seq(Item)
          /\ Items(Append(s.batch, e)) = Items(s.batch) \cup {e}
      BY <1>3, <1>4, ItemsAppend
    <2>2. CASE Skipped(h, e)
      <3>1. r.batch = s.batch
        BY <1>5, <2>2
      <3>2. QED
        BY <1>3, <2>2, <3>1
    <2>3. CASE ~ Skipped(h, e)
      <3>1. r.batch = Append(s.batch, e)
        BY <1>5, <2>3
      <3>2. QED
        BY <2>1, <3>1
    <2>4. QED
      BY <2>2, <2>3
  <1>12. Ordered(h)'
    <2>1. \A a \in Ahead(h)' \cup Items(r.batch) : Fits(a)'
      <3>1. \A a \in Ahead(h) \cup Items(s.batch) : Fits(a)
        BY <1>10 DEF Ordered
      <3>2. \A a : Fits(a) => Fits(a)'
        BY <1>1 DEF Fits, Count, LastSync, source
      <3>3. QED
        BY <1>9, <1>11, <3>1, <3>2
    <2>2. InOrder(events[h])'
      BY <1>4, <1>7 DEF InOrder
    <2>3. /\ Precede(Fanned(h), Items(inbox) \cup Notified)
          /\ Precede(Items(Tail(events[h])), Fanned(h) \cup Items(inbox) \cup Notified)
      BY <1>4, <1>10 DEF Ordered, Precede
    <2>4. Precede(Items(r.batch), Ahead(h)')
      <3>1. Precede(Items(s.batch), Ahead(h))
        BY <1>10 DEF Ordered
      <3>2. QED
        BY <1>9, <1>10, <1>11, <3>1 DEF Precede
    <2>5. QED
      BY <1>8, <2>1, <2>2, <2>3, <2>4 DEF Ordered
  <1>13. r.skipBelow <= Count /\ r.syncedThrough <= LastSync
    BY <1>2, <1>5 DEF Handled, Bounded
  <1>14. Handled(h)'
    <2>1. Serviced(h)'
      BY <1>1, <1>2, <1>5, <1>6 DEF Handled, Serviced
    <2>2. Bounded(h)'
      <3>1. Count' = Count /\ LastSync' = LastSync /\ Items(wire[h])' = Items(wire[h])
        BY <1>1 DEF Count, LastSync, Items, source
      <3>2. QED
        BY <1>2, <1>6, <1>13, <3>1 DEF Handled, Bounded
    <2>3. Once(h)'
      <3>1. /\ ChangesIn(s.batch) \cap told[h] = {}
            /\ \A a \in Ahead(h) : ~ IsSync(a) /\ a.id > s.skipBelow => a.id \notin told[h]
        BY <1>1, <1>2 DEF Handled, Once
      <3>2. e \in Ahead(h) /\ e.id \in Nat
        BY <1>4, <1>9, ItemIs
      <3>3. ChangesIn(r.batch) \cap told[h] = {}
        <4>1. CASE r = s
          BY <3>1, <4>1
        <4>2. CASE ~ Skipped(h, e) /\ r.batch = Append(s.batch, e)
          <5>1. Items(r.batch) = Items(s.batch) \cup {e}
            BY <1>3, <1>4, <4>2, ItemsAppend
          <5>2. ASSUME NEW c \in ChangesIn(r.batch) PROVE c \notin told[h]
            <6>1. PICK a \in Items(r.batch) : ~ IsSync(a) /\ c = a.id
              BY <1>11, ItemsOf
            <6>2. CASE a = e
              <7>1. e.id > s.skipBelow
                BY <1>2, <3>2, <4>2, <6>1, <6>2 DEF Skipped
              <7>2. QED
                BY <3>1, <3>2, <6>1, <6>2, <7>1
            <6>3. CASE a \in Items(s.batch)
              <7>1. c \in ChangesIn(s.batch)
                BY <1>3, <6>1, <6>3, ItemsOf
              <7>2. QED
                BY <3>1, <7>1
            <6>4. QED
              BY <5>1, <6>1, <6>2, <6>3
          <5>3. QED
            BY <5>2
        <4>3. QED
          BY <1>5, <4>1, <4>2
      <3>4. ASSUME NEW a \in Ahead(h)', ~ IsSync(a), a.id > r.skipBelow PROVE a.id \notin told[h]
        <4>1. a \in Ahead(h) /\ a.id \in Nat /\ a \in Item /\ Before(e, a)
          BY <1>9, <1>10, <3>4, ItemIs
        <4>2. CASE r.skipBelow = s.skipBelow
          BY <3>1, <3>4, <4>1, <4>2
        <4>3. CASE ~ IsSync(e) /\ ~ Skipped(h, e)
          <5>1. e.id > s.skipBelow /\ e.id < a.id
            BY <1>2, <1>4, <3>2, <3>4, <4>1, <4>3, Before2 DEF Skipped
          <5>2. a.id > s.skipBelow
            BY <1>2, <3>2, <4>1, <5>1
          <5>3. QED
            BY <3>1, <3>4, <4>1, <5>2
        <4>4. QED
          BY <1>5, <4>2, <4>3
      <3>5. told'[h] = told[h] /\ Count' = Count
        BY <1>1 DEF ghosts, source, Count
      <3>6. QED
        BY <1>2, <1>6, <3>3, <3>4, <3>5 DEF Once
    <2>4. QED
      BY <1>12, <2>1, <2>2, <2>3 DEF Handled
  <1>15. ASSUME NEW b \in Browsers, conn[b] = h PROVE Paged(b)'
    <2>1. s.of = b /\ (~ missed[b] => Intact(b))
      BY <1>1, <1>15, Serves1
    <2>2. /\ conn'[b] = h /\ epoch' = epoch /\ cursor' = cursor /\ behind' = behind
          /\ known' = known /\ refetched' = refetched /\ wire' = wire /\ slipped' = slipped
          /\ lagged' = lagged /\ All(b)' = All(b) /\ LastSync' = LastSync
          /\ UNCHANGED <<source, page, known, refetched, missed>>
      BY <1>1, <1>15 DEF page, source, shared, All, Count, LastSync, ghosts
    <2>3. Paired(b)'
      BY <1>5, <1>6, <2>1, <2>2 DEF Paired
    <2>4. ASSUME ~ missed[b] PROVE FramesKeep(b)' /\ Outdated(b)' /\ WindowKeeps(b)' /\ Flows(b)'
      <3>1. FramesKeep(b)'
        BY <1>15, <2>2, <2>4, FramesStay
      <3>2. Outdated(b)'
        BY <1>1, <1>2, <1>15, <2>1, <2>2, <2>4 DEF Intact, Outdated
      <3>3. /\ \A i \in All(b) : i <= s.skipBelow => Reached(known[b], wire[h], Len(wire[h]), i)
            /\ \A k \in 1..s.syncedThrough :
                  slipped[b] \/ Refreshed(refetched[b], wire[h], Len(wire[h]), k)
        BY <1>1, <1>2, <1>15, <2>1, <2>4 DEF Intact, WindowKeeps
      <3>4. WindowKeeps(b)'
        <4>1. \A i \in All(b) : i <= r.skipBelow => i <= s.skipBelow
          BY <1>2, <1>5 DEF All
        <4>2. QED
          BY <1>5, <1>6, <2>2, <3>3, <4>1 DEF WindowKeeps
      <3>5. Flows(b)'
        <4>1. SUFFICES ASSUME ~ lagged[h], SyncsIn(r.batch) = {} PROVE Flows(b)'
          BY <1>6, <2>2 DEF Flows
        <4>2. SyncsIn(s.batch) = {} /\ (~ Skipped(h, e) => ~ IsSync(e))
              /\ ChangesIn(s.batch) \subseteq ChangesIn(r.batch)
              /\ (~ Skipped(h, e) => e.id \in ChangesIn(r.batch))
          <5>1. Items(s.batch) \subseteq Items(r.batch) /\ (~ Skipped(h, e) => e \in Items(r.batch))
            BY <1>11
          <5>2. \A a \in Items(r.batch) : ~ IsSync(a)
            BY <1>11, <4>1, ItemsOf
          <5>3. SyncsIn(s.batch) = {}
            BY <1>3, <5>1, <5>2, ItemsOf
          <5>4. ChangesIn(s.batch) \subseteq ChangesIn(r.batch)
            BY <1>3, <1>11, <5>1, ItemsOf
          <5>5. ~ Skipped(h, e) => e.id \in ChangesIn(r.batch)
            BY <1>11, <5>1, <5>2, ItemsOf
          <5>6. QED
            BY <5>1, <5>2, <5>3, <5>4, <5>5
        <4>3. /\ \A i \in All(b) :
                    \/ Reached(known[b], wire[h], Len(wire[h]), i)
                    \/ i \in ChangesIn(s.batch)
                    \/ \E a \in Ahead(h) : ~ IsSync(a) /\ a.id = i
              /\ \A k \in (s.syncedThrough + 1)..LastSync :
                    \/ slipped[b] \/ Refreshed(refetched[b], wire[h], Len(wire[h]), k)
                    \/ \E a \in Ahead(h) : a.sync = k
          BY <1>1, <1>2, <1>15, <2>1, <2>4, <4>1, <4>2 DEF Intact, Flows, Listens
        <4>4. ASSUME NEW i \in All(b)
              PROVE  \/ Reached(known[b], wire[h], Len(wire[h]), i)
                     \/ i \in ChangesIn(r.batch)
                     \/ \E a \in Ahead(h)' : ~ IsSync(a) /\ a.id = i
          <5>1. CASE ~ IsSync(e) /\ e.id = i
            BY <3>3, <4>2, <5>1 DEF Skipped
          <5>2. CASE ~ (~ IsSync(e) /\ e.id = i)
            BY <1>9, <4>2, <4>3, <5>2
          <5>3. QED
            BY <5>1, <5>2
        <4>5. ASSUME NEW k \in (s.syncedThrough + 1)..LastSync
              PROVE  \/ slipped[b] \/ Refreshed(refetched[b], wire[h], Len(wire[h]), k)
                     \/ \E a \in Ahead(h)' : a.sync = k
          <5>1. e.sync # k
            <6>1. SUFFICES ASSUME e.sync = k PROVE FALSE
              OBVIOUS
            <6>2. IsSync(e) /\ ~ (e.sync <= s.syncedThrough)
              BY <1>2, <6>1 DEF IsSync
            <6>3. QED
              BY <4>2, <6>2 DEF Skipped
          <5>2. QED
            BY <1>9, <4>3, <5>1
        <4>6. QED
          BY <1>5, <1>6, <2>2, <4>4, <4>5 DEF Flows
      <3>6. QED
        BY <3>1, <3>2, <3>4, <3>5
    <2>5. QED
      BY <1>15, <2>2, <2>3, <2>4, HandlerPage
  <1>16. Typed'
    <2>1. /\ fan \in [e: Item \cup {None}, to: SUBSET clients]
          /\ (fan.to # {} => fan.e # None) /\ clients \subseteq Handlers
          /\ owners \in [{Owner[b] : b \in Browsers} -> Nat]
          /\ lagged \in [Handlers -> BOOLEAN] /\ wire \in [Handlers -> Seq(Frame)]
          /\ faults \in 0..MaxFaults /\ slipped \in [Browsers -> BOOLEAN]
          /\ told \in [Handlers -> SUBSET (1..MaxHistory)]
      BY <1>2 DEF Typed, TypeOK
    <2>2. QED
      BY <1>1, <1>2, <1>6, <1>7, <2>1, HandlerTyped DEF queues, table, ghosts
  <1>17. SlotsAccounted' /\ IsFiniteSet(clients)'
    BY <1>1, <1>5, <1>6, SlotsKept DEF table
  <1>18. \A g \in Handlers \ {h} : Fanned(g)' = Fanned(g)
    BY <1>1 DEF Fanned, queues
  <1>19. QED
    BY <1>1, <1>6, <1>7, <1>14, <1>15, <1>16, <1>17, <1>18, HandlerStep DEF queues, ghosts

(***************************************************************************)
(* Slots.                                                                  *)
(***************************************************************************)
LEMMA SlotsLeft ==
    ASSUME IInv, NEW h \in Handlers, serve[h].pc # "off",
           clients' = clients \ {h},
           owners' = [owners EXCEPT ![Owner[serve[h].of]] = owners[Owner[serve[h].of]] - 1],
           serve' = [serve EXCEPT ![h] = Idle]
    PROVE  /\ SlotsAccounted' /\ IsFiniteSet(clients)'
           /\ owners' \in [{Owner[b] : b \in Browsers} -> Nat]
  <1> DEFINE held(o) == {g \in clients : Owner[serve[g].of] = o}
             heldThen(o) == {g \in clients' : Owner[serve'[g].of] = o}
             mine == Owner[serve[h].of]
  <1>1. /\ TypeOK /\ IsFiniteSet(clients) /\ SlotsAccounted /\ clients \subseteq Handlers
        /\ owners \in [{Owner[b] : b \in Browsers} -> Nat]
        /\ h \in clients /\ serve[h].of \in Browsers /\ serve \in [Handlers -> Serving]
    BY DEF IInv, Typed, TypeOK, SlotsAccounted, Handled, Serviced
  <1>2. /\ serve'[h] = Idle /\ Idle.pc = "off"
        /\ \A g \in Handlers \ {h} : serve'[g] = serve[g]
    BY <1>1 DEF Idle
  <1>3. clients' = {g \in Handlers : serve'[g].pc # "off"}
    BY <1>1, <1>2 DEF SlotsAccounted
  <1>4. IsFiniteSet(clients') /\ Cardinality(clients') = Cardinality(clients) - 1
        /\ Cardinality(clients) \in Nat
    BY <1>1, FS_RemoveElement, FS_CardinalityType
  <1>5. Cardinality(clients') <= MaxClients
    BY <1>1, <1>4, BroadcasterAssumption DEF SlotsAccounted, BroadcasterAssumption
  <1>6. \A o : heldThen(o) = held(o) \ {h}
    BY <1>1, <1>2
  <1>7. \A o : IsFiniteSet(held(o))
    BY <1>1, FS_Subset
  <1>8. h \in held(mine)
    BY <1>1
  <1> HIDE DEF held, heldThen
  <1>9. Cardinality(heldThen(mine)) = Cardinality(held(mine)) - 1
        /\ Cardinality(heldThen(mine)) \in Nat /\ Cardinality(held(mine)) \in Nat
    <2>1. IsFiniteSet(heldThen(mine))
      BY <1>6, <1>7, FS_Subset
    <2>2. QED
      BY <1>6, <1>7, <1>8, <2>1, FS_RemoveElement, FS_CardinalityType
  <1>10. \A o : o # mine => heldThen(o) = held(o)
    <2>1. \A o : o # mine => h \notin held(o)
      BY DEF held
    <2>2. QED
      BY <1>6, <2>1
  <1>11. mine \in DOMAIN owners /\ \A o \in DOMAIN owners :
             owners[o] = Cardinality(held(o)) /\ owners[o] <= MaxClientsPerOwner
    BY <1>1 DEF SlotsAccounted, held
  <1>12. /\ DOMAIN owners' = DOMAIN owners /\ owners'[mine] = owners[mine] - 1
         /\ \A o \in DOMAIN owners : o # mine => owners'[o] = owners[o]
    BY <1>1, <1>11
  <1>13. ASSUME NEW o \in DOMAIN owners
         PROVE  owners'[o] = Cardinality(heldThen(o)) /\ owners'[o] <= MaxClientsPerOwner
                /\ owners'[o] \in Nat
    <2>1. CASE o = mine
      <3>1. owners'[o] = Cardinality(heldThen(o)) /\ owners'[o] \in Nat
        BY <1>9, <1>11, <1>12, <2>1
      <3>2. owners'[o] <= MaxClientsPerOwner
        <4>1. owners[o] \in Nat /\ owners[o] <= MaxClientsPerOwner /\ MaxClientsPerOwner \in Nat
          BY <1>9, <1>11, <2>1, BroadcasterAssumption DEF BroadcasterAssumption
        <4>2. QED
          BY <1>12, <2>1, <4>1
      <3>3. QED
        BY <3>1, <3>2
    <2>2. CASE o # mine
      BY <1>1, <1>10, <1>11, <1>12, <2>2
    <2>3. QED
      BY <2>1, <2>2
  <1>14. owners' \in [{Owner[b] : b \in Browsers} -> Nat]
    BY <1>1, <1>12, <1>13
  <1>15. SlotsAccounted'
    BY <1>3, <1>5, <1>12, <1>13 DEF SlotsAccounted, heldThen
  <1>16. QED
    BY <1>4, <1>14, <1>15

LEMMA SlotsTaken ==
    ASSUME IInv, NEW h \in Handlers, NEW b \in Browsers, serve[h].pc = "off", ~ Full(b),
           clients' = clients \cup {h},
           owners' = [owners EXCEPT ![Owner[b]] = owners[Owner[b]] + 1],
           NEW r \in Serving, serve' = [serve EXCEPT ![h] = r], r.of = b, r.pc # "off"
    PROVE  /\ SlotsAccounted' /\ IsFiniteSet(clients)'
           /\ owners' \in [{Owner[p] : p \in Browsers} -> Nat]
  <1> DEFINE held(o) == {g \in clients : Owner[serve[g].of] = o}
             heldThen(o) == {g \in clients' : Owner[serve'[g].of] = o}
             mine == Owner[b]
  <1>1. /\ TypeOK /\ IsFiniteSet(clients) /\ SlotsAccounted /\ clients \subseteq Handlers
        /\ owners \in [{Owner[p] : p \in Browsers} -> Nat]
        /\ h \notin clients /\ serve \in [Handlers -> Serving]
    BY DEF IInv, Typed, TypeOK, SlotsAccounted
  <1>2. serve'[h] = r /\ \A g \in Handlers \ {h} : serve'[g] = serve[g]
    BY <1>1
  <1>3. clients' = {g \in Handlers : serve'[g].pc # "off"}
    BY <1>1, <1>2 DEF SlotsAccounted
  <1>4. IsFiniteSet(clients') /\ Cardinality(clients') = Cardinality(clients) + 1
        /\ Cardinality(clients) \in Nat
    BY <1>1, FS_AddElement, FS_CardinalityType
  <1>5. Cardinality(clients') <= MaxClients
    BY <1>4, BroadcasterAssumption DEF Full, BroadcasterAssumption
  <1>6. heldThen(mine) = held(mine) \cup {h} /\ \A o : o # mine => heldThen(o) = held(o)
    BY <1>1, <1>2
  <1>7. \A o : IsFiniteSet(held(o)) /\ Cardinality(held(o)) \in Nat
    BY <1>1, FS_Subset, FS_CardinalityType
  <1>8. h \notin held(mine)
    BY <1>1
  <1> HIDE DEF held, heldThen
  <1>9. Cardinality(heldThen(mine)) = Cardinality(held(mine)) + 1
    BY <1>6, <1>7, <1>8, FS_AddElement
  <1>10. mine \in DOMAIN owners /\ \A o \in DOMAIN owners :
             owners[o] = Cardinality(held(o)) /\ owners[o] <= MaxClientsPerOwner
    BY <1>1 DEF SlotsAccounted, held
  <1>11. /\ DOMAIN owners' = DOMAIN owners /\ owners'[mine] = owners[mine] + 1
         /\ \A o \in DOMAIN owners : o # mine => owners'[o] = owners[o]
    BY <1>1, <1>10
  <1>12. ASSUME NEW o \in DOMAIN owners
         PROVE  owners'[o] = Cardinality(heldThen(o)) /\ owners'[o] <= MaxClientsPerOwner
                /\ owners'[o] \in Nat
    <2>1. CASE o = mine
      <3>1. ~ (owners[o] >= MaxClientsPerOwner) /\ MaxClientsPerOwner \in Nat
        BY <2>1, BroadcasterAssumption DEF Full, BroadcasterAssumption
      <3>2. QED
        BY <1>7, <1>9, <1>10, <1>11, <2>1, <3>1
    <2>2. CASE o # mine
      BY <1>1, <1>6, <1>10, <1>11, <2>2
    <2>3. QED
      BY <2>1, <2>2
  <1>13. owners' \in [{Owner[p] : p \in Browsers} -> Nat]
    BY <1>1, <1>11, <1>12
  <1>14. SlotsAccounted'
    BY <1>3, <1>5, <1>11, <1>12 DEF SlotsAccounted, heldThen
  <1>15. QED
    BY <1>4, <1>13, <1>14

\* A handler returns, its last frame written or not.
LEMMA Returns ==
    ASSUME IInv, NEW h \in Handlers, serve[h].pc # "off", Deregister(h),
           UNCHANGED <<source, inbox, page, ghosts>>, faults' \in 0..MaxFaults,
           wire' \in [Handlers -> Seq(Frame)],
           \A g \in Handlers \ {h} : wire'[g] = wire[g],
           \A f \in Items(wire'[h]) : f \in Items(wire[h]) \/
               (f.id <= Count /\ f.seen <= LastSync /\ (f.seen > 0 => f.refetch)),
           \A b \in Browsers : conn[b] = h /\ ~ missed[b] =>
               FramesKeep(b)' /\ (behind[b] /\ wire'[h] # <<>> => wire'[h][1].refetch)
    PROVE  IInv'
  <1>1. /\ Typed /\ TypeOK /\ Handled(h) /\ Count \in Nat /\ LastSync \in Nat /\ h # None
    BY Serves1
  <1>2. PICK r \in Serving : /\ serve' = [serve EXCEPT ![h] = r] /\ r = Idle
    <2>1. Idle \in Serving
      <3>1. 0 \in 0..MaxHistory /\ 0 \in 0..MaxSyncs /\ <<>> \in Seq(Item)
        BY BroadcasterAssumption DEF BroadcasterAssumption
      <3>2. QED
        BY <3>1 DEF Idle, Serving
    <2>2. QED
      BY <2>1 DEF Deregister
  <1>3. /\ serve'[h] = r /\ serve' \in [Handlers -> Serving]
        /\ \A g \in Handlers \ {h} : serve'[g] = serve[g]
    BY <1>1, <1>2, ServeStep
  <1>4. /\ r.pc = "off" /\ r.batch = <<>> /\ r.skipBelow = 0 /\ r.syncedThrough = 0
    BY <1>2 DEF Idle
  <1>5. /\ SlotsAccounted' /\ IsFiniteSet(clients)'
        /\ owners' \in [{Owner[b] : b \in Browsers} -> Nat]
    BY SlotsLeft DEF Deregister
  <1>6. /\ events' \in [Handlers -> Seq(Item)] /\ events'[h] = <<>>
        /\ (\A g \in Handlers \ {h} : events'[g] = events[g] /\ lagged'[g] = lagged[g])
        /\ (\A g \in Handlers : Len(events'[g]) <= EventsCap)
        /\ lagged' \in [Handlers -> BOOLEAN]
    <2>1. /\ events \in [Handlers -> Seq(Item)] /\ lagged \in [Handlers -> BOOLEAN]
          /\ \A g \in Handlers : Len(events[g]) <= EventsCap
      BY <1>1 DEF TypeOK
    <2>2. events' = [events EXCEPT ![h] = <<>>] /\ lagged' = [lagged EXCEPT ![h] = FALSE]
      BY DEF Deregister
    <2>3. <<>> \in Seq(Item) /\ Len(<<>>) <= EventsCap
      BY BroadcasterAssumption DEF BroadcasterAssumption
    <2>4. events' \in [Handlers -> Seq(Item)] /\ events'[h] = <<>>
          /\ \A g \in Handlers \ {h} : events'[g] = events[g]
      BY <2>1, <2>2, <2>3
    <2>5. lagged' \in [Handlers -> BOOLEAN] /\ \A g \in Handlers \ {h} : lagged'[g] = lagged[g]
      BY <2>1, <2>2
    <2>6. QED
      BY <2>1, <2>3, <2>4, <2>5
  <1>7. /\ fan' \in [e: Item \cup {None}, to: SUBSET clients']
        /\ (fan'.to # {} => fan'.e # None) /\ clients' \subseteq Handlers
        /\ (\A g \in Handlers \ {h} : Fanned(g)' = Fanned(g)) /\ Fanned(h)' = {}
    <2>1. /\ fan' = Fan(fan.e, fan.to \ {h}) /\ fan'.to = fan.to \ {h}
          /\ (fan'.to # {} => fan'.e = fan.e) /\ clients' = clients \ {h}
      <3>1. fan' = Fan(fan.e, fan.to \ {h}) /\ clients' = clients \ {h}
        BY DEF Deregister
      <3>2. fan'.to = fan.to \ {h}
        BY <3>1 DEF Fan
      <3>3. fan'.to # {} => fan'.e = fan.e
        BY <3>1 DEF Fan
      <3>4. QED
        BY <3>1, <3>2, <3>3
    <2>2. /\ fan \in [e: Item \cup {None}, to: SUBSET clients] /\ clients \subseteq Handlers
          /\ (fan.to # {} => fan.e # None)
      BY <1>1 DEF Typed, TypeOK
    <2>3. fan' \in [e: Item \cup {None}, to: SUBSET clients']
      BY <2>1, <2>2, FanIs
    <2>4. \A g \in Handlers : Fanned(g)' = IF g \in fan'.to THEN {fan'.e} ELSE {}
      BY DEF Fanned
    <2>5. \A g \in Handlers \ {h} : Fanned(g)' = Fanned(g)
      BY <2>1, <2>4, FannedIs
    <2>6. QED
      BY <2>1, <2>2, <2>3, <2>4, <2>5
  <1>8. Typed'
    <2>1. slipped \in [Browsers -> BOOLEAN] /\ told \in [Handlers -> SUBSET (1..MaxHistory)]
      BY <1>1 DEF TypeOK
    <2>2. slipped' = slipped /\ told' = told /\ UNCHANGED <<known, refetched, behind, missed>>
      BY DEF ghosts
    <2>3. QED
      BY <1>1, <1>3, <1>5, <1>6, <1>7, <2>1, <2>2, HandlerTyped
  <1>9. Handled(h)'
    <2>1. /\ Items(inbox)' = Items(inbox) /\ Notified' = Notified
          /\ Items(events[h])' = {} /\ Items(serve[h].batch)' = {}
      BY <1>3, <1>4, <1>6, ItemsNone DEF Items, Notified, source
    <2>2. Ahead(h)' = Items(inbox) \cup Notified
      BY <1>7, <2>1 DEF Ahead
    <2>3. Ordered(h)'
      <3>1. \A e \in Items(inbox) \cup Notified : Fits(e)'
        BY DEF IInv, Queued, Fits, Count, LastSync, source
      <3>2. InOrder(events[h])'
        BY <1>6 DEF InOrder
      <3>3. QED
        BY <1>7, <2>1, <2>2, <3>1, <3>2 DEF Ordered, Precede
    <2>4. Bounded(h)'
      <3>1. Count' = Count /\ LastSync' = LastSync /\ Items(wire[h])' = Items(wire'[h])
        BY DEF Count, LastSync, Items, source
      <3>2. QED
        BY <1>1, <1>3, <1>4, <3>1 DEF Handled, Bounded
    <2>5. Serviced(h)' /\ Once(h)'
      BY <1>3, <1>4, <1>6 DEF Serviced, Once
    <2>6. QED
      BY <2>3, <2>4, <2>5 DEF Handled
  <1>10. ASSUME NEW b \in Browsers, conn[b] = h PROVE Paged(b)'
    <2>1. /\ conn'[b] = h /\ epoch' = epoch /\ cursor' = cursor /\ behind' = behind
          /\ slipped' = slipped /\ UNCHANGED <<source, page, known, refetched, missed>>
      BY <1>10 DEF page, source, ghosts
    <2>2. Paired(b)'
      BY <1>3, <1>4, <2>1 DEF Paired
    <2>3. ASSUME ~ missed[b] PROVE FramesKeep(b)' /\ Outdated(b)' /\ WindowKeeps(b)' /\ Flows(b)'
      <3>1. FramesKeep(b)' /\ (behind[b] /\ wire'[h] # <<>> => wire'[h][1].refetch)
            /\ (behind[b] => (cursor[b] # None => cursor[b].epoch # epoch))
        BY <1>10, <2>3, Serves1 DEF Intact, Outdated
      <3>2. Outdated(b)'
        BY <1>3, <1>4, <2>1, <3>1 DEF Outdated
      <3>3. WindowKeeps(b)' /\ Flows(b)'
        BY <1>3, <1>4, <2>1 DEF WindowKeeps, Flows, Listens
      <3>4. QED
        BY <3>1, <3>2, <3>3
    <2>4. QED
      BY <1>10, <2>1, <2>2, <2>3, HandlerPage
  <1>11. /\ \A b \in Browsers : slipped[b] => slipped'[b]
         /\ \A g \in Handlers \ {h} : told'[g] = told[g]
         /\ UNCHANGED <<source, inbox, page, known, refetched, behind, missed>>
    BY DEF ghosts
  <1>12. QED
    BY <1>3, <1>5, <1>6, <1>7, <1>8, <1>9, <1>10, <1>11, HandlerStep

LEMMA FinishKeeps ==
    ASSUME IInv, NEW h \in Handlers, Finish(h)
    PROVE  IInv'
  <1> DEFINE s == serve[h]
  <1>1. /\ s.pc = "live" /\ Deregister(h) /\ UNCHANGED <<source, inbox, page, faults, ghosts>>
    BY DEF Finish
  <1>2. /\ Typed /\ TypeOK /\ Count \in Nat /\ LastSync \in Nat
        /\ wire \in [Handlers -> Seq(Frame)] /\ wire[h] \in Seq(Frame) /\ faults \in 0..MaxFaults
    BY <1>1, Serves1 DEF TypeOK
  <1>3. /\ UNCHANGED <<source, page, known, refetched>> /\ slipped' = slipped
        /\ faults' \in 0..MaxFaults
    BY <1>1, <1>2 DEF ghosts
  <1>4. ASSUME NEW b \in Browsers, conn[b] = h, ~ missed[b]
        PROVE  behind[b] => wire[h] # <<>> /\ wire[h][1].refetch
    <2>1. Intact(b) /\ h # None
      BY <1>1, <1>4, Serves1
    <2>2. QED
      BY <1>1, <1>4, <2>1 DEF Intact, Outdated
  <1>5. CASE s.batch = <<>> \/ lagged[h]
    <2>1. wire' = wire
      BY <1>5 DEF Finish, Whole
    <2>2. \A b \in Browsers : conn[b] = h /\ ~ missed[b] =>
              FramesKeep(b)' /\ (behind[b] /\ wire'[h] # <<>> => wire'[h][1].refetch)
      BY <1>3, <1>4, <2>1, FramesStay
    <2>3. QED
      BY <1>1, <1>2, <1>3, <2>1, <2>2, Returns
  <1>6. CASE s.batch # <<>> /\ ~ lagged[h]
    <2>1. PICK f \in Frame :
              /\ Write(h, f) /\ f = frame(s.batch)
              /\ f.id <= Count /\ f.seen <= LastSync /\ (f.seen > 0 => f.refetch)
      BY <1>1, <1>6, BatchFrame DEF Finish, Whole
    <2>2. /\ wire' \in [Handlers -> Seq(Frame)]
          /\ \A g \in Handlers \ {h} : wire'[g] = wire[g]
          /\ Items(wire'[h]) \subseteq Items(wire[h]) \cup {f}
          /\ conn[s.of] = h => wire'[h] = Append(wire[h], f)
      <3>1. Write(h, f)
        BY <2>1
      <3>2. QED
        BY <1>2, <3>1, WriteIs
    <2>3. ASSUME NEW b \in Browsers, conn[b] = h, ~ missed[b]
          PROVE  FramesKeep(b)' /\ (behind[b] /\ wire'[h] # <<>> => wire'[h][1].refetch)
      <3>1. wire'[h] = Append(wire[h], f)
        BY <1>1, <2>2, <2>3, Serves1
      <3>2. /\ \A i \in All(b) : i <= f.id =>
                 Reached(known[b], wire[h], Len(wire[h]), i) \/ f.refetch \/ i \in f.changes
            /\ \A k \in 1..LastSync : marks[k] < f.id =>
                 \/ slipped[b] \/ f.refetch
                 \/ Refreshed(refetched[b], wire[h], Len(wire[h]), k)
        BY <1>1, <1>6, <2>1, <2>3, BatchCovers
      <3>3. FramesKeep(b)'
        BY <1>3, <2>3, <3>1, <3>2, FramesWritten
      <3>4. behind[b] => wire'[h][1].refetch
        BY <1>2, <1>4, <2>3, <3>1, FirstStays
      <3>5. QED
        BY <3>3, <3>4
    <2>4. \A x \in Items(wire'[h]) : x \in Items(wire[h]) \/
              (x.id <= Count /\ x.seen <= LastSync /\ (x.seen > 0 => x.refetch))
      BY <2>1, <2>2
    <2>5. QED
      BY <1>1, <1>3, <2>2, <2>3, <2>4, Returns
  <1>7. QED
    BY <1>5, <1>6

LEMMA WriteFailsKeeps ==
    ASSUME IInv, NEW h \in Handlers, WriteFails(h)
    PROVE  IInv'
  <1>1. /\ serve[h].pc # "off" /\ Deregister(h)
        /\ UNCHANGED <<source, inbox, wire, page, ghosts>>
        /\ faults < MaxFaults /\ faults' = faults + 1
    BY DEF WriteFails
  <1>2. wire \in [Handlers -> Seq(Frame)] /\ faults' \in 0..MaxFaults
    <2>1. wire \in [Handlers -> Seq(Frame)] /\ faults \in 0..MaxFaults
      BY DEF IInv, Typed, TypeOK
    <2>2. MaxFaults \in Nat
      BY BroadcasterAssumption DEF BroadcasterAssumption
    <2>3. QED
      BY <1>1, <2>1, <2>2
  <1>3. /\ UNCHANGED <<source, page, known, refetched>> /\ slipped' = slipped
    BY <1>1 DEF ghosts
  <1>4. ASSUME NEW b \in Browsers, conn[b] = h, ~ missed[b]
        PROVE  FramesKeep(b)' /\ (behind[b] /\ wire'[h] # <<>> => wire'[h][1].refetch)
    <2>1. Intact(b) /\ h # None
      BY <1>1, <1>4, Serves1
    <2>2. FramesKeep(b)'
      BY <1>1, <1>3, <1>4, FramesStay
    <2>3. behind[b] /\ wire[h] # <<>> => wire[h][1].refetch
      BY <1>4, <2>1 DEF Intact, Outdated
    <2>4. QED
      BY <1>1, <2>2, <2>3
  <1>5. QED
    BY <1>1, <1>2, <1>4, Returns

(***************************************************************************)
(* The pages: a step of one leaves the handlers and the other pages alone. *)
(***************************************************************************)
LEMMA PageStep ==
    ASSUME IInv, Typed', NEW b \in Browsers,
           UNCHANGED <<source, queues, table, shared, serve, told>>,
           conn'[b] = conn[b] \/ conn'[b] = None,
           \A p \in Browsers \ {b} :
               /\ conn'[p] = conn[p] /\ cursor'[p] = cursor[p] /\ known'[p] = known[p]
               /\ refetched'[p] = refetched[p] /\ behind'[p] = behind[p]
               /\ missed'[p] = missed[p] /\ slipped'[p] = slipped[p],
           \A h \in Handlers : conn[b] # h => wire'[h] = wire[h],
           \A h \in Handlers : Items(wire'[h]) \subseteq Items(wire[h]),
           Paged(b)'
    PROVE  IInv'
  <1> USE DEF source, queues, table, shared
  <1>1. Typed /\ TypeOK
    BY DEF IInv, Typed
  <1>2. SlotsAccounted' /\ IsFiniteSet(clients)' /\ Marked' /\ Queued'
    BY DEF IInv, SlotsAccounted, Marked, Queued, Count, LastSync, Notified, Items, InOrder, Fits
  <1>3. Apart'
    <2>1. \A p \in Browsers : conn'[p] = conn[p] \/ conn'[p] = None
      OBVIOUS
    <2>2. QED
      BY <2>1 DEF IInv, Apart
  <1>4. /\ Count' = Count /\ LastSync' = LastSync
        /\ \A h \in Handlers : Ahead(h)' = Ahead(h) /\ Ordered(h)'
    <2>1. \A h \in Handlers : Ordered(h)
      BY DEF IInv, Handled
    <2>2. \A h \in Handlers : Ahead(h)' = Ahead(h) /\ Ordered(h)'
      BY <2>1, OrderedKept
    <2>3. QED
      BY <2>2 DEF Count, LastSync
  <1>5. ASSUME NEW h \in Handlers PROVE Handled(h)'
    <2>1. Handled(h)
      BY DEF IInv
    <2>2. Serviced(h)' /\ Once(h)'
      BY <1>4, <2>1 DEF Handled, Serviced, Once
    <2>3. Bounded(h)'
      <3>1. Items(wire[h])' = Items(wire'[h])
        BY DEF Items
      <3>2. QED
        BY <1>4, <2>1, <3>1 DEF Handled, Bounded
    <2>4. QED
      BY <1>4, <2>2, <2>3 DEF Handled
  <1>6. ASSUME NEW p \in Browsers PROVE Paged(p)'
    <2>1. CASE p = b
      BY <2>1
    <2>2. CASE p # b
      <3>1. Paged(p)
        BY DEF IInv
      <3>2. conn[p] # None =>
                /\ serve'[conn[p]] = serve[conn[p]] /\ wire'[conn[p]] = wire[conn[p]]
                /\ lagged'[conn[p]] = lagged[conn[p]] /\ Ahead(conn[p])' = Ahead(conn[p])
        <4>1. SUFFICES ASSUME NEW h \in Handlers, conn[p] = h, conn[p] # None
                       PROVE  wire'[h] = wire[h] /\ Ahead(h)' = Ahead(h)
          <5>1. conn[p] # None => conn[p] \in Handlers
            BY <1>1, PageTypes
          <5>2. conn'[p] = conn[p]
            BY <2>2
          <5>3. QED
            BY <5>1, <5>2
        <4>2. conn[b] # h
          BY <2>2, <4>1 DEF IInv, Apart
        <4>3. QED
          BY <1>4, <4>2
      <3>3. QED
        BY <2>2, <3>1, <3>2, PageKept
    <2>3. QED
      BY <2>1, <2>2
  <1>7. QED
    BY <1>2, <1>3, <1>5, <1>6 DEF IInv

LEMMA RefuseKeeps ==
    ASSUME IInv, NEW b \in Browsers, Refuse(b)
    PROVE  IInv'
  <1>1. /\ conn[b] = None /\ reopening' = [reopening EXCEPT ![b] = TRUE]
        /\ cursor' = [cursor EXCEPT ![b] = None]
        /\ UNCHANGED <<source, queues, table, shared, serve, wire, conn, faults, ghosts>>
    BY DEF Refuse
  <1>2. /\ Typed /\ TypeOK /\ cursor \in [Browsers -> Cursor \cup {None}]
        /\ reopening \in [Browsers -> BOOLEAN] /\ Paged(b)
    BY DEF IInv, Typed, TypeOK
  <1>3. /\ cursor'[b] = None /\ \A p \in Browsers \ {b} : cursor'[p] = cursor[p]
        /\ cursor' \in [Browsers -> Cursor \cup {None}]
        /\ reopening' \in [Browsers -> BOOLEAN]
    BY <1>1, <1>2
  <1>4. Typed'
    <2>1. TypeOK'
      BY <1>1, <1>2, <1>3
         DEF TypeOK, source, queues, table, shared, ghosts, Count, LastSync
    <2>2. QED
      BY <1>1, <1>2, <1>3, <2>1 DEF Typed, source, queues
  <1>5. Paged(b)'
    <2>1. conn'[b] = None /\ cursor'[b] = None
      BY <1>1, <1>3
    <2>2. Paired(b)' /\ CursorKeeps(b)' /\ FramesKeep(b)' /\ Outdated(b)' /\ WindowKeeps(b)'
          /\ Flows(b)'
      BY <2>1 DEF Paired, CursorKeeps, FramesKeep, Outdated, WindowKeeps, Flows
    <2>3. Within(b)'
      BY <1>1, <1>2, <2>1 DEF Paged, Within, source, ghosts, LastSync
    <2>4. QED
      BY <2>2, <2>3 DEF Paged, Intact
  <1>6. QED
    BY <1>1, <1>3, <1>4, <1>5, PageStep DEF ghosts

LEMMA Leaving ==
    ASSUME IInv, NEW b \in Browsers, conn[b] # None, conn' = [conn EXCEPT ![b] = None],
           UNCHANGED <<source, queues, table, shared, serve, cursor, reopening, ghosts>>,
           faults' \in 0..MaxFaults, wire' \in [Handlers -> Seq(Frame)],
           \A h \in Handlers : conn[b] # h => wire'[h] = wire[h],
           \A h \in Handlers : Items(wire'[h]) \subseteq Items(wire[h])
    PROVE  IInv'
  <1>1. /\ Typed /\ TypeOK /\ conn \in [Browsers -> Handlers \cup {None}] /\ Paged(b)
    BY DEF IInv, Typed, TypeOK
  <1>2. /\ conn'[b] = None /\ \A p \in Browsers \ {b} : conn'[p] = conn[p]
        /\ conn' \in [Browsers -> Handlers \cup {None}]
    BY <1>1
  <1>3. Typed'
    <2>1. TypeOK'
      BY <1>1, <1>2 DEF TypeOK, source, queues, table, shared, ghosts, Count, LastSync
    <2>2. QED
      BY <1>1, <2>1 DEF Typed, source, queues
  <1>4. Paged(b)'
    <2>1. Paired(b)' /\ FramesKeep(b)' /\ WindowKeeps(b)' /\ Flows(b)'
      BY <1>2 DEF Paired, FramesKeep, WindowKeeps, Flows
    <2>2. Within(b)'
      BY <1>1 DEF Paged, Within, source, ghosts, LastSync, Count
    <2>3. ~ missed[b] => CursorKeeps(b)' /\ Outdated(b)'
      BY <1>1, <1>2 DEF Paged, Intact, CursorKeeps, UpTo, Outdated, All, Count, LastSync,
                        source, ghosts
    <2>4. missed' = missed
      BY DEF ghosts
    <2>5. QED
      BY <2>1, <2>2, <2>3, <2>4 DEF Paged, Intact
  <1>5. QED
    BY <1>2, <1>3, <1>4, PageStep DEF ghosts

LEMMA LostKeeps ==
    ASSUME IInv, NEW b \in Browsers, Lost(b)
    PROVE  IInv'
  <1>1. /\ conn[b] # None /\ conn' = [conn EXCEPT ![b] = None]
        /\ wire' = [wire EXCEPT ![conn[b]] = <<>>]
        /\ faults < MaxFaults /\ faults' = faults + 1
        /\ UNCHANGED <<source, queues, table, shared, serve, cursor, reopening, ghosts>>
    BY DEF Lost
  <1>2. /\ wire \in [Handlers -> Seq(Frame)] /\ faults \in 0..MaxFaults /\ MaxFaults \in Nat
    BY BroadcasterAssumption DEF IInv, Typed, TypeOK, BroadcasterAssumption
  <1>3. faults' \in 0..MaxFaults
    BY <1>1, <1>2
  <1>4. /\ wire' \in [Handlers -> Seq(Frame)]
        /\ \A h \in Handlers : wire'[h] = IF conn[b] = h THEN <<>> ELSE wire[h]
    <2>1. <<>> \in Seq(Frame)
      OBVIOUS
    <2>2. QED
      BY <1>1, <1>2, <2>1
  <1>5. \A h \in Handlers : Items(wire'[h]) \subseteq Items(wire[h])
    BY <1>4, ItemsNone
  <1>6. QED
    BY <1>1, <1>3, <1>4, <1>5, Leaving

LEMMA EndedKeeps ==
    ASSUME IInv, NEW b \in Browsers, Ended(b)
    PROVE  IInv'
  <1>1. /\ conn[b] # None /\ conn' = [conn EXCEPT ![b] = None]
        /\ UNCHANGED <<source, queues, table, shared, serve, wire, cursor, reopening, faults, ghosts>>
    BY DEF Ended
  <1>2. /\ wire \in [Handlers -> Seq(Frame)] /\ faults \in 0..MaxFaults
    BY DEF IInv, Typed, TypeOK
  <1>3. \A h \in Handlers : Items(wire'[h]) \subseteq Items(wire[h])
    BY <1>1
  <1>4. QED
    BY <1>1, <1>2, <1>3, Leaving

\* Frames one place on.
LEMMA FrameTaken ==
    ASSUME NEW w \in Seq(Frame), w # <<>>
    PROVE  /\ Len(Tail(w)) \in Nat /\ Len(Tail(w)) + 1 = Len(w) /\ Head(w) = w[1] /\ Head(w) \in Frame
           /\ Tail(w) \in Seq(Frame) /\ Items(w) = {Head(w)} \cup Items(Tail(w))
           /\ \A j \in 1..Len(Tail(w)) : Tail(w)[j] = w[j + 1] /\ j + 1 \in 1..Len(w)
           /\ 1 \in 1..Len(w)
           /\ ~ Head(w).refetch => \A n \in 0..Len(Tail(w)) :
                 /\ \A K, i : Reached(K, w, n + 1, i) =>
                        Reached(K \cup Head(w).changes, Tail(w), n, i)
                 /\ \A r, k : Refreshed(r, w, n + 1, k) => Refreshed(r, Tail(w), n, k)
  <1> DEFINE t == Tail(w)
             f == Head(w)
  <1>1. /\ Len(t) \in Nat /\ Len(t) + 1 = Len(w) /\ f = w[1] /\ f \in Frame /\ t \in Seq(Frame)
        /\ Items(w) = {f} \cup Items(t)
        /\ \A j \in 1..Len(t) : t[j] = w[j + 1]
    BY ItemsTail
  <1> HIDE DEF t, f
  <1>2. \A j \in 1..Len(t) : j + 1 \in 1..Len(w)
    BY <1>1
  <1>3. ASSUME ~ f.refetch, NEW n \in 0..Len(t)
        PROVE  /\ \A K, i : Reached(K, w, n + 1, i) => Reached(K \cup f.changes, t, n, i)
               /\ \A r, k : Refreshed(r, w, n + 1, k) => Refreshed(r, t, n, k)
    <2>1. ASSUME NEW m \in 1..(n + 1) PROVE m = 1 \/ (m - 1 \in 1..n /\ t[m - 1] = w[m])
      <3>1. CASE m = 1
        BY <3>1
      <3>2. CASE m # 1
        <4>1. m - 1 \in 1..n /\ m - 1 \in 1..Len(t) /\ m - 1 + 1 = m
          BY <1>1, <3>2
        <4>2. QED
          BY <1>1, <4>1
      <3>3. QED
        BY <3>1, <3>2
    <2>2. ASSUME NEW K, NEW i, Reached(K, w, n + 1, i) PROVE Reached(K \cup f.changes, t, n, i)
      <3>1. CASE i \in K
        BY <3>1 DEF Reached
      <3>2. CASE \E m \in 1..(n + 1) : w[m].refetch \/ i \in w[m].changes
        <4>1. PICK m \in 1..(n + 1) : w[m].refetch \/ i \in w[m].changes
          BY <3>2
        <4>2. QED
          BY <1>1, <1>3, <2>1, <4>1 DEF Reached
      <3>3. QED
        BY <2>2, <3>1, <3>2 DEF Reached
    <2>3. ASSUME NEW r, NEW k, Refreshed(r, w, n + 1, k) PROVE Refreshed(r, t, n, k)
      <3>1. CASE k <= r
        BY <3>1 DEF Refreshed
      <3>2. CASE \E m \in 1..(n + 1) : w[m].refetch
        <4>1. PICK m \in 1..(n + 1) : w[m].refetch
          BY <3>2
        <4>2. QED
          BY <1>1, <1>3, <2>1, <4>1 DEF Refreshed
      <3>3. QED
        BY <2>3, <3>1, <3>2 DEF Refreshed
    <2>4. QED
      BY <2>2, <2>3
  <1>4. 1 \in 1..Len(w)
    BY <1>1
  <1>5. QED
    BY <1>1, <1>2, <1>3, <1>4 DEF t, f

LEMMA ReceiveKeeps ==
    ASSUME IInv, NEW b \in Browsers, Receive(b)
    PROVE  IInv'
  <1>1. PICK h \in Handlers : conn[b] = h /\ h # None
    BY PageTypes DEF Receive, IInv, Typed
  <1>2. PICK f : f = Head(wire[h])
    OBVIOUS
  <1>3. /\ wire[h] # <<>> /\ wire' = [wire EXCEPT ![h] = Tail(wire[h])]
        /\ cursor' = [cursor EXCEPT ![b] = [epoch |-> epoch, id |-> f.id, seen |-> f.seen]]
        /\ known' = [known EXCEPT ![b] = IF f.refetch THEN All(b) ELSE known[b] \cup f.changes]
        /\ refetched' = [refetched EXCEPT ![b] = IF f.refetch THEN LastSync ELSE refetched[b]]
        /\ behind' = [behind EXCEPT ![b] = behind[b] /\ ~ f.refetch]
        /\ slipped' = [slipped EXCEPT ![b] = slipped[b] /\ ~ f.refetch]
        /\ missed' = [missed EXCEPT ![b] = missed[b] /\ ~ f.refetch]
        /\ UNCHANGED <<source, queues, table, shared, serve, conn, reopening, faults, told>>
    BY <1>1, <1>2 DEF Receive
  <1>4. /\ Typed /\ TypeOK /\ Handled(h) /\ Paged(b) /\ wire[h] \in Seq(Frame)
        /\ Count \in Nat /\ LastSync \in Nat /\ LastSync <= MaxSyncs /\ Count <= MaxHistory
        /\ MaxSyncs \in Nat /\ MaxHistory \in Nat
        /\ known[b] \subseteq 1..MaxHistory /\ refetched[b] \in Nat /\ All(b) \subseteq 1..Count
    BY PageTypes, HandlerTypes, BroadcasterAssumption DEF IInv, Typed, BroadcasterAssumption
  <1>5. PICK v : v = Tail(wire[h])
    OBVIOUS
  <1>6. /\ v \in Seq(Frame) /\ Len(v) \in Nat /\ Len(v) + 1 = Len(wire[h])
        /\ f = wire[h][1] /\ f \in Frame /\ Items(wire[h]) = {f} \cup Items(v)
        /\ \A j \in 1..Len(v) : v[j] = wire[h][j + 1] /\ j + 1 \in 1..Len(wire[h])
        /\ 1 \in 1..Len(wire[h])
    BY <1>2, <1>3, <1>4, <1>5, FrameTaken
  <1>7. ~ f.refetch => \A n \in 0..Len(v) :
              /\ \A K, i : Reached(K, wire[h], n + 1, i) => Reached(K \cup f.changes, v, n, i)
              /\ \A r, k : Refreshed(r, wire[h], n + 1, k) => Refreshed(r, v, n, k)
    BY <1>2, <1>3, <1>4, <1>5, FrameTaken, Zenon
  <1>8. /\ f.id \in Nat /\ f.seen \in Nat /\ f.refetch \in BOOLEAN /\ f.changes \subseteq 1..MaxHistory
        /\ f.id <= Count /\ f.seen <= LastSync /\ (f.seen > 0 => f.refetch)
    BY <1>4, <1>6, FrameTypes DEF Handled, Bounded
  <1>9. /\ wire' \in [Handlers -> Seq(Frame)] /\ wire'[h] = v
        /\ \A g \in Handlers \ {h} : wire'[g] = wire[g]
    BY <1>3, <1>4, <1>5, <1>6 DEF TypeOK
  <1>10. PICK c \in Cursor : c = [epoch |-> epoch, id |-> f.id, seen |-> f.seen]
    <2>1. epoch \in 1..MaxEpochs /\ f.id \in 0..MaxHistory /\ f.seen \in 0..MaxSyncs
      <3>1. epoch \in 1..MaxEpochs
        BY <1>4 DEF TypeOK
      <3>2. QED
        BY <1>6, <3>1 DEF Frame
    <2>2. [epoch |-> epoch, id |-> f.id, seen |-> f.seen] \in Cursor
      BY <2>1 DEF Cursor
    <2>3. QED
      BY <2>2
  <1>11. c # None /\ c.epoch = epoch /\ c.id = f.id /\ c.seen = f.seen
    BY <1>10, NoneIsNothing DEF NoneIsNothing
  <1>12. /\ cursor' \in [Browsers -> Cursor \cup {None}] /\ cursor'[b] = c
         /\ known' \in [Browsers -> SUBSET (1..MaxHistory)]
         /\ refetched' \in [Browsers -> 0..MaxSyncs]
         /\ known'[b] = (IF f.refetch THEN All(b) ELSE known[b] \cup f.changes)
         /\ refetched'[b] = (IF f.refetch THEN LastSync ELSE refetched[b])
         /\ \A p \in Browsers \ {b} : /\ cursor'[p] = cursor[p] /\ known'[p] = known[p]
                                      /\ refetched'[p] = refetched[p]
    <2>1. /\ cursor \in [Browsers -> Cursor \cup {None}]
          /\ known \in [Browsers -> SUBSET (1..MaxHistory)]
          /\ refetched \in [Browsers -> 0..MaxSyncs]
      BY <1>4 DEF TypeOK
    <2>2. cursor' = [cursor EXCEPT ![b] = c]
      BY <1>3, <1>10
    <2>3. (IF f.refetch THEN All(b) ELSE known[b] \cup f.changes) \in SUBSET (1..MaxHistory)
          /\ (IF f.refetch THEN LastSync ELSE refetched[b]) \in 0..MaxSyncs
      BY <1>4, <1>8, <2>1
    <2>4. /\ cursor' \in [Browsers -> Cursor \cup {None}] /\ cursor'[b] = c
          /\ \A p \in Browsers \ {b} : cursor'[p] = cursor[p]
      BY <2>1, <2>2
    <2>5. /\ known' \in [Browsers -> SUBSET (1..MaxHistory)]
          /\ known'[b] = (IF f.refetch THEN All(b) ELSE known[b] \cup f.changes)
          /\ \A p \in Browsers \ {b} : known'[p] = known[p]
      BY <1>3, <2>1, <2>3
    <2>6. /\ refetched' \in [Browsers -> 0..MaxSyncs]
          /\ refetched'[b] = (IF f.refetch THEN LastSync ELSE refetched[b])
          /\ \A p \in Browsers \ {b} : refetched'[p] = refetched[p]
      BY <1>3, <2>1, <2>3
    <2>7. QED
      BY <2>4, <2>5, <2>6
  <1>13. /\ {behind', missed', slipped'} \subseteq [Browsers -> BOOLEAN]
         /\ behind'[b] = (behind[b] /\ ~ f.refetch) /\ slipped'[b] = (slipped[b] /\ ~ f.refetch)
         /\ missed'[b] = (missed[b] /\ ~ f.refetch)
         /\ \A p \in Browsers \ {b} : /\ behind'[p] = behind[p] /\ slipped'[p] = slipped[p]
                                      /\ missed'[p] = missed[p]
    <2>1. {behind, missed, slipped} \subseteq [Browsers -> BOOLEAN]
      BY <1>4 DEF TypeOK
    <2>2. behind \in [Browsers -> BOOLEAN] /\ missed \in [Browsers -> BOOLEAN]
          /\ slipped \in [Browsers -> BOOLEAN]
      BY <2>1
    <2>3. /\ behind' \in [Browsers -> BOOLEAN] /\ behind'[b] = (behind[b] /\ ~ f.refetch)
          /\ \A p \in Browsers \ {b} : behind'[p] = behind[p]
      BY <1>3, <2>2
    <2>4. /\ missed' \in [Browsers -> BOOLEAN] /\ missed'[b] = (missed[b] /\ ~ f.refetch)
          /\ \A p \in Browsers \ {b} : missed'[p] = missed[p]
      BY <1>3, <2>2
    <2>5. /\ slipped' \in [Browsers -> BOOLEAN] /\ slipped'[b] = (slipped[b] /\ ~ f.refetch)
          /\ \A p \in Browsers \ {b} : slipped'[p] = slipped[p]
      BY <1>3, <2>2
    <2>6. QED
      BY <2>3, <2>4, <2>5
  <1>14. Typed'
    <2>1. TypeOK'
      BY <1>3, <1>4, <1>9, <1>12, <1>13
         DEF TypeOK, source, queues, table, shared, Count, LastSync
    <2>2. \A p \in Browsers : cursor'[p] # None => cursor'[p].epoch <= epoch
      <3>1. epoch <= epoch
        BY <1>4, BroadcasterAssumption DEF TypeOK, BroadcasterAssumption
      <3>2. QED
        BY <1>4, <1>11, <1>12, <3>1 DEF Typed
    <2>3. QED
      BY <1>3, <1>4, <2>1, <2>2 DEF Typed, source, queues
  <1>15. /\ conn' = conn /\ epoch' = epoch /\ All(b)' = All(b) /\ LastSync' = LastSync
         /\ Count' = Count /\ marks' = marks /\ lagged' = lagged /\ serve' = serve
    BY <1>3 DEF source, shared, All, Count, LastSync
  <1>16. Within(b)'
    <2>1. refetched'[b] <= LastSync
      BY <1>4, <1>12 DEF Paged, Within
    <2>2. QED
      BY <1>8, <1>11, <1>12, <1>15, <2>1 DEF Within
  <1>17. Paired(b)'
    <2>1. serve[h].pc \notin {"open", "since"} /\ (serve[h].pc = "off" \/ serve[h].of = b)
      BY <1>1, <1>3, <1>4 DEF Paged, Paired
    <2>2. QED
      BY <1>1, <1>15, <2>1 DEF Paired
  <1>18. CASE f.refetch
    <2>1. \A w, n : /\ \A i \in All(b) : Reached(known'[b], w, n, i)
                    /\ \A k \in 1..LastSync : Refreshed(refetched'[b], w, n, k)
      BY <1>4, <1>12, <1>18 DEF Reached, Refreshed
    <2>2. \A w, n, id : UpTo(b, w, n, id)'
      <3>1. SUFFICES ASSUME NEW w, NEW n, NEW id PROVE UpTo(b, w, n, id)'
        OBVIOUS
      <3>2. QED
        BY <1>15, <2>1 DEF UpTo
    <2>3. CursorKeeps(b)'
      BY <1>8, <1>11, <1>12, <1>18, <2>2 DEF CursorKeeps
    <2>4. FramesKeep(b)'
      BY <2>2 DEF FramesKeep
    <2>5. Outdated(b)'
      BY <1>13, <1>18 DEF Outdated
    <2>6. WindowKeeps(b)'
      <3>1. \A k \in 1..serve[h].syncedThrough : k \in 1..LastSync
        <4>1. serve[h].syncedThrough \in Nat /\ serve[h].syncedThrough <= LastSync
          BY <1>4, HandlerTypes DEF Handled, Bounded
        <4>2. QED
          BY <1>4, <4>1
      <3>2. QED
        BY <1>1, <1>15, <2>1, <3>1 DEF WindowKeeps
    <2>7. Flows(b)'
      <3>1. \A k \in (serve[h].syncedThrough + 1)..LastSync : k \in 1..LastSync
        <4>1. serve[h].syncedThrough \in Nat
          BY <1>4, HandlerTypes
        <4>2. QED
          BY <1>4, <4>1
      <3>2. QED
        BY <1>1, <1>15, <2>1, <3>1 DEF Flows
    <2>8. Paged(b)'
      BY <1>16, <1>17, <2>3, <2>4, <2>5, <2>6, <2>7 DEF Paged, Intact
    <2>9. QED
      BY <1>1, <1>3, <1>6, <1>9, <1>12, <1>13, <1>14, <2>8, PageStep
  <1>19. CASE ~ f.refetch
    <2>1. ASSUME ~ missed[b] PROVE Intact(b)'
      <3>1. Intact(b)
        BY <1>4, <2>1 DEF Paged
      <3>2. /\ known'[b] = known[b] \cup f.changes /\ refetched'[b] = refetched[b]
            /\ behind'[b] = behind[b] /\ slipped'[b] = slipped[b] /\ f.seen = 0
        BY <1>4, <1>8, <1>12, <1>13, <1>19, PageTypes
      <3>3. ASSUME NEW n \in 0..Len(v), NEW id, UpTo(b, wire[h], n + 1, id)
            PROVE  UpTo(b, v, n, id)'
        <4>1. \A i \in All(b) : i <= id => Reached(known'[b], v, n, i)
          BY <1>7, <1>19, <3>2, <3>3 DEF UpTo
        <4>2. \A k \in 1..LastSync : marks[k] < id => slipped[b] \/ Refreshed(refetched[b], v, n, k)
          BY <1>7, <1>19, <3>3 DEF UpTo
        <4>3. QED
          BY <1>15, <3>2, <4>1, <4>2 DEF UpTo
      <3>4. \A j \in 1..Len(wire[h]) : UpTo(b, wire[h], j, wire[h][j].id)
        BY <1>1, <3>1 DEF Intact, FramesKeep
      <3>5. CursorKeeps(b)'
        <4>1. UpTo(b, wire[h], 0 + 1, f.id) /\ 0 \in 0..Len(v)
          BY <1>6, <3>4
        <4>2. UpTo(b, v, 0, f.id)'
          BY <3>3, <4>1
        <4>3. UpTo(b, <<>>, 0, f.id)'
          BY <4>2 DEF UpTo, Reached, Refreshed
        <4>4. QED
          BY <1>4, <1>11, <1>12, <3>2, <4>3 DEF CursorKeeps
      <3>6. FramesKeep(b)'
        <4>1. ASSUME NEW j \in 1..Len(v) PROVE UpTo(b, v, j, v[j].id)'
          <5>1. /\ j \in 0..Len(v) /\ j + 1 \in 1..Len(wire[h])
                /\ v[j] = wire[h][j + 1]
            BY <1>6
          <5>2. UpTo(b, wire[h], j + 1, wire[h][j + 1].id)
            BY <3>4, <5>1, Zenon
          <5>3. QED
            BY <3>3, <5>1, <5>2
        <4>2. QED
          BY <1>1, <1>9, <1>15, <4>1 DEF FramesKeep
      <3>7. Outdated(b)'
        <4>1. ~ behind[b]
          BY <1>1, <1>3, <1>6, <1>19, <3>1 DEF Intact, Outdated
        <4>2. QED
          BY <3>2, <4>1 DEF Outdated
      <3>8. Len(v) \in 0..Len(v)
        BY <1>6
      <3>9. /\ \A i : Reached(known[b], wire[h], Len(wire[h]), i) => Reached(known'[b], v, Len(v), i)
            /\ \A k : Refreshed(refetched[b], wire[h], Len(wire[h]), k) =>
                          Refreshed(refetched'[b], v, Len(v), k)
        <4>1. /\ \A K, i : Reached(K, wire[h], Len(v) + 1, i) =>
                               Reached(K \cup f.changes, v, Len(v), i)
              /\ \A r, k : Refreshed(r, wire[h], Len(v) + 1, k) => Refreshed(r, v, Len(v), k)
          BY <1>7, <1>19, <3>8, Zenon
        <4>2. /\ \A K, i : Reached(K, wire[h], Len(wire[h]), i) =>
                               Reached(K \cup f.changes, v, Len(v), i)
              /\ \A r, k : Refreshed(r, wire[h], Len(wire[h]), k) => Refreshed(r, v, Len(v), k)
          BY <1>6, <4>1
        <4>3. QED
          BY <3>2, <4>2, Zenon
      <3>10. WindowKeeps(b)'
        <4>1. /\ serve[h].pc = "live" => \A i \in All(b) : i <= serve[h].skipBelow =>
                    Reached(known[b], wire[h], Len(wire[h]), i)
              /\ serve[h].pc \in {"since", "live"} => \A k \in 1..serve[h].syncedThrough :
                    slipped[b] \/ Refreshed(refetched[b], wire[h], Len(wire[h]), k)
          BY <1>1, <3>1 DEF Intact, WindowKeeps
        <4>2. QED
          BY <1>1, <1>9, <1>15, <3>2, <3>9, <4>1 DEF WindowKeeps
      <3>11. Flows(b)'
        <4>1. Ahead(h)' = Ahead(h)
          BY <1>3, <1>4, OrderedKept DEF Handled, shared
        <4>2. ~ lagged[h] /\ SyncsIn(serve[h].batch) = {} =>
                /\ Listens(serve[h]) => \A i \in All(b) :
                      \/ Reached(known[b], wire[h], Len(wire[h]), i)
                      \/ i \in ChangesIn(serve[h].batch)
                      \/ \E e \in Ahead(h) : ~ IsSync(e) /\ e.id = i
                /\ Listens(serve[h]) \/ serve[h].pc = "since" =>
                      \A k \in (serve[h].syncedThrough + 1)..LastSync :
                          \/ slipped[b] \/ Refreshed(refetched[b], wire[h], Len(wire[h]), k)
                          \/ \E e \in Ahead(h) : e.sync = k
          BY <1>1, <3>1 DEF Intact, Flows
        <4>3. ~ lagged[h] /\ SyncsIn(serve[h].batch) = {} =>
                /\ Listens(serve[h]) => \A i \in All(b) :
                      \/ Reached(known'[b], v, Len(v), i)
                      \/ i \in ChangesIn(serve[h].batch)
                      \/ \E e \in Ahead(h) : ~ IsSync(e) /\ e.id = i
                /\ Listens(serve[h]) \/ serve[h].pc = "since" =>
                      \A k \in (serve[h].syncedThrough + 1)..LastSync :
                          \/ slipped[b] \/ Refreshed(refetched'[b], v, Len(v), k)
                          \/ \E e \in Ahead(h) : e.sync = k
          BY <3>9, <4>2, Zenon
        <4>4. conn'[b] = h /\ wire'[h] = v /\ slipped'[b] = slipped[b]
          BY <1>1, <1>9, <1>15, <3>2
        <4>5. QED
          BY <1>15, <4>1, <4>3, <4>4 DEF Flows
      <3>12. QED
        BY <3>5, <3>6, <3>7, <3>10, <3>11 DEF Intact
    <2>2. Paged(b)'
      BY <1>13, <1>16, <1>17, <1>19, <2>1 DEF Paged
    <2>3. QED
      BY <1>1, <1>3, <1>6, <1>9, <1>12, <1>13, <1>14, <2>2, PageStep
  <1>20. QED
    BY <1>18, <1>19

(***************************************************************************)
(* A connection begins.                                                    *)
(***************************************************************************)
LEMMA Connected ==
    ASSUME IInv, NEW b \in Browsers, NEW h \in Handlers, Connect(b, h)
    PROVE  /\ conn[b] = None /\ h # None /\ serve[h].pc = "off" /\ ~ Full(b)
           /\ \A p \in Browsers : conn[p] # h
           /\ conn' \in [Browsers -> Handlers \cup {None}] /\ conn'[b] = h
           /\ \A p \in Browsers \ {b} : conn'[p] = conn[p]
           /\ reopening' \in [Browsers -> BOOLEAN]
           /\ events' \in [Handlers -> Seq(Item)] /\ events'[h] = <<>>
           /\ lagged' \in [Handlers -> BOOLEAN] /\ lagged'[h] = FALSE
           /\ wire' \in [Handlers -> Seq(Frame)] /\ wire'[h] = <<>>
           /\ told' \in [Handlers -> SUBSET (1..MaxHistory)] /\ told'[h] = {}
           /\ \A g \in Handlers \ {h} : /\ events'[g] = events[g] /\ lagged'[g] = lagged[g]
                                        /\ wire'[g] = wire[g] /\ told'[g] = told[g]
           /\ clients' = clients \cup {h}
           /\ owners' = [owners EXCEPT ![Owner[b]] = owners[Owner[b]] + 1]
           /\ UNCHANGED <<source, queues, cursor, faults>>
  <1>1. /\ events \in [Handlers -> Seq(Item)] /\ lagged \in [Handlers -> BOOLEAN]
        /\ wire \in [Handlers -> Seq(Frame)] /\ told \in [Handlers -> SUBSET (1..MaxHistory)]
        /\ conn \in [Browsers -> Handlers \cup {None}] /\ reopening \in [Browsers -> BOOLEAN]
    BY DEF IInv, Typed, TypeOK
  <1>2. <<>> \in Seq(Item) /\ <<>> \in Seq(Frame)
    OBVIOUS
  <1>3. /\ events' = [events EXCEPT ![h] = <<>>] /\ wire' = [wire EXCEPT ![h] = <<>>]
        /\ lagged' = [lagged EXCEPT ![h] = FALSE] /\ told' = [told EXCEPT ![h] = {}]
        /\ conn' = [conn EXCEPT ![b] = h] /\ reopening' = [reopening EXCEPT ![b] = FALSE]
    BY DEF Connect
  <1>4. /\ events' \in [Handlers -> Seq(Item)] /\ events'[h] = <<>>
        /\ wire' \in [Handlers -> Seq(Frame)] /\ wire'[h] = <<>>
        /\ \A g \in Handlers \ {h} : events'[g] = events[g] /\ wire'[g] = wire[g]
    BY <1>1, <1>2, <1>3
  <1>5. /\ lagged' \in [Handlers -> BOOLEAN] /\ lagged'[h] = FALSE
        /\ told' \in [Handlers -> SUBSET (1..MaxHistory)] /\ told'[h] = {}
        /\ \A g \in Handlers \ {h} : lagged'[g] = lagged[g] /\ told'[g] = told[g]
    BY <1>1, <1>3
  <1>6. /\ conn' \in [Browsers -> Handlers \cup {None}] /\ conn'[b] = h
        /\ \A p \in Browsers \ {b} : conn'[p] = conn[p]
        /\ reopening' \in [Browsers -> BOOLEAN]
    BY <1>1, <1>3
  <1>7. h # None
    BY BroadcasterAssumption DEF BroadcasterAssumption
  <1>8. /\ conn[b] = None /\ serve[h].pc = "off" /\ ~ Full(b) /\ \A p \in Browsers : conn[p] # h
        /\ clients' = clients \cup {h}
        /\ owners' = [owners EXCEPT ![Owner[b]] = owners[Owner[b]] + 1]
        /\ UNCHANGED <<source, queues, cursor, faults>>
    BY DEF Connect
  <1>9. QED
    BY <1>4, <1>5, <1>6, <1>7, <1>8

\* What the page knows by then: all of it, if it opened anew; else what it did.
LEMMA Reconnected ==
    ASSUME IInv, NEW b \in Browsers, NEW h \in Handlers, Connect(b, h)
    PROVE  /\ known' \in [Browsers -> SUBSET (1..MaxHistory)]
           /\ refetched' \in [Browsers -> 0..MaxSyncs]
           /\ {behind', missed', slipped'} \subseteq [Browsers -> BOOLEAN]
           /\ \A p \in Browsers \ {b} :
                 /\ known'[p] = known[p] /\ refetched'[p] = refetched[p]
                 /\ behind'[p] = behind[p] /\ missed'[p] = missed[p] /\ slipped'[p] = slipped[p]
           /\ reopening[b] =>
                 known'[b] = All(b) /\ refetched'[b] = LastSync /\ behind'[b] = FALSE
           /\ ~ reopening[b] =>
                 /\ UNCHANGED <<known, refetched, behind, slipped>>
                 /\ ~ missed'[b] =>
                       /\ ~ missed[b]
                       /\ cursor[b] = None => ~ behind[b] /\ known[b] = All(b)
                                              /\ refetched[b] = LastSync
  <1>1. /\ known \in [Browsers -> SUBSET (1..MaxHistory)] /\ refetched \in [Browsers -> 0..MaxSyncs]
        /\ behind \in [Browsers -> BOOLEAN] /\ missed \in [Browsers -> BOOLEAN]
        /\ slipped \in [Browsers -> BOOLEAN]
    BY DEF IInv, Typed, TypeOK
  <1>2. CASE reopening[b]
    <2>1. /\ known' = [known EXCEPT ![b] = All(b)] /\ refetched' = [refetched EXCEPT ![b] = LastSync]
          /\ behind' = [behind EXCEPT ![b] = FALSE] /\ slipped' = [slipped EXCEPT ![b] = FALSE]
          /\ missed' = [missed EXCEPT ![b] = FALSE]
      BY <1>2 DEF Connect
    <2>2. All(b) \in SUBSET (1..MaxHistory) /\ LastSync \in 0..MaxSyncs
      <3>1. All(b) \subseteq 1..Count /\ Count \in Nat /\ Count <= MaxHistory
            /\ LastSync \in Nat /\ LastSync <= MaxSyncs
            /\ MaxHistory \in Nat /\ MaxSyncs \in Nat
        BY PageTypes, BroadcasterAssumption DEF IInv, Typed, BroadcasterAssumption
      <3>2. QED
        BY <3>1
    <2>3. /\ known' \in [Browsers -> SUBSET (1..MaxHistory)] /\ known'[b] = All(b)
          /\ refetched' \in [Browsers -> 0..MaxSyncs] /\ refetched'[b] = LastSync
          /\ \A p \in Browsers \ {b} : known'[p] = known[p] /\ refetched'[p] = refetched[p]
      BY <1>1, <2>1, <2>2
    <2>4. /\ behind' \in [Browsers -> BOOLEAN] /\ missed' \in [Browsers -> BOOLEAN]
          /\ slipped' \in [Browsers -> BOOLEAN] /\ behind'[b] = FALSE
          /\ \A p \in Browsers \ {b} : /\ behind'[p] = behind[p] /\ missed'[p] = missed[p]
                                       /\ slipped'[p] = slipped[p]
      BY <1>1, <2>1
    <2>5. QED
      BY <1>2, <2>3, <2>4
  <1>3. CASE ~ reopening[b]
    <2>1. UNCHANGED <<known, refetched, behind, slipped>>
      BY <1>3 DEF Connect
    <2>2. missed' = [missed EXCEPT ![b] = missed[b] \/
              (cursor[b] = None /\ (behind[b] \/ known[b] # All(b) \/ refetched[b] # LastSync))]
      BY <1>3 DEF Connect
    <2>3. /\ missed' \in [Browsers -> BOOLEAN]
          /\ missed'[b] = (missed[b] \/
              (cursor[b] = None /\ (behind[b] \/ known[b] # All(b) \/ refetched[b] # LastSync)))
          /\ \A p \in Browsers \ {b} : missed'[p] = missed[p]
      BY <1>1, <2>2
    <2>4. QED
      BY <1>1, <1>3, <2>1, <2>3
  <1>4. QED
    BY <1>2, <1>3

LEMMA ConnectKeeps ==
    ASSUME IInv, NEW b \in Browsers, NEW h \in Handlers, Connect(b, h)
    PROVE  IInv'
  <1>1. Typed /\ TypeOK /\ Paged(b) /\ Queued /\ h \notin clients
    BY Connected DEF IInv, Typed, SlotsAccounted
  <1>2. /\ conn[b] = None /\ h # None /\ \A p \in Browsers : conn[p] # h
        /\ conn'[b] = h /\ \A p \in Browsers \ {b} : conn'[p] = conn[p]
        /\ events'[h] = <<>> /\ lagged'[h] = FALSE /\ wire'[h] = <<>> /\ told'[h] = {}
        /\ \A g \in Handlers \ {h} : /\ events'[g] = events[g] /\ lagged'[g] = lagged[g]
                                     /\ wire'[g] = wire[g] /\ told'[g] = told[g]
        /\ UNCHANGED <<source, queues, cursor, faults>>
    <2>1. /\ conn[b] = None /\ h # None /\ \A p \in Browsers : conn[p] # h
          /\ conn'[b] = h /\ \A p \in Browsers \ {b} : conn'[p] = conn[p]
      <3>1. conn[b] = None /\ h # None /\ \A p \in Browsers : conn[p] # h
        BY BroadcasterAssumption DEF Connect, BroadcasterAssumption
      <3>2. conn'[b] = h /\ \A p \in Browsers \ {b} : conn'[p] = conn[p]
        BY Connected
      <3>3. QED
        BY <3>1, <3>2
    <2>2. /\ events'[h] = <<>> /\ lagged'[h] = FALSE /\ wire'[h] = <<>> /\ told'[h] = {}
          /\ \A g \in Handlers \ {h} : /\ events'[g] = events[g] /\ lagged'[g] = lagged[g]
                                       /\ wire'[g] = wire[g] /\ told'[g] = told[g]
      BY Connected
    <2>3. UNCHANGED <<source, queues, cursor, faults>>
      BY Connected
    <2>4. QED
      BY <2>1, <2>2, <2>3
  <1>3. PICK cur \in Cursor \cup {None} : cur = (IF reopening[b] THEN None ELSE cursor[b])
    <2>1. cursor[b] \in Cursor \cup {None}
      BY <1>1, PageTypes
    <2>2. QED
      BY <2>1
  <1>4. PICK r \in Serving : /\ r.of = b /\ r.pc = "open" /\ r.cur = cur /\ r.batch = <<>>
                             /\ r.skipBelow = 0 /\ r.syncedThrough = 0
                             /\ serve' = [serve EXCEPT ![h] = r]
    <2>1. serve' = [serve EXCEPT ![h] = [Idle EXCEPT !.of = b, !.pc = "open", !.cur = cur]]
      BY <1>3 DEF Connect
    <2>2. PICK r : r = [Idle EXCEPT !.of = b, !.pc = "open", !.cur = cur]
      OBVIOUS
    <2>3. Idle \in Serving
      <3>1. <<>> \in Seq(Item) /\ 0 \in 0..MaxHistory /\ 0 \in 0..MaxSyncs
        BY BroadcasterAssumption DEF BroadcasterAssumption
      <3>2. QED
        BY <3>1 DEF Serving, Idle
    <2>4. r \in Serving /\ r.of = b /\ r.pc = "open" /\ r.cur = cur
      BY <2>2, <2>3 DEF Serving
    <2>5. r.batch = <<>> /\ r.skipBelow = 0 /\ r.syncedThrough = 0
      BY <2>2 DEF Idle
    <2>6. QED
      BY <2>1, <2>2, <2>4, <2>5
  <1>5. /\ serve' \in [Handlers -> Serving] /\ serve'[h] = r
        /\ \A g \in Handlers \ {h} : serve'[g] = serve[g]
    BY <1>1, <1>4 DEF TypeOK
  <1>6. SlotsAccounted' /\ IsFiniteSet(clients)' /\ owners' \in [{Owner[p] : p \in Browsers} -> Nat]
    <2>1. /\ serve[h].pc = "off" /\ ~ Full(b) /\ clients' = clients \cup {h}
          /\ owners' = [owners EXCEPT ![Owner[b]] = owners[Owner[b]] + 1]
      BY Connected
    <2>2. r.of = b /\ r.pc # "off"
      BY <1>4
    <2>3. QED
      BY <1>4, <2>1, <2>2, SlotsTaken
  <1>7. /\ Count' = Count /\ LastSync' = LastSync /\ All(b)' = All(b) /\ marks' = marks
        /\ epoch' = epoch /\ hist' = hist /\ notifying' = notifying /\ inbox' = inbox
        /\ fan' = fan /\ cursor' = cursor /\ cursor'[b] = cursor[b]
    BY <1>2 DEF source, queues, Count, LastSync, All
  <1>8. Typed'
    <2>1. fan \in [e: Item \cup {None}, to: SUBSET clients'] /\ clients' \subseteq Handlers
      <3>1. clients' = clients \cup {h}
        BY Connected
      <3>2. fan \in [e: Item \cup {None}, to: SUBSET clients] /\ clients \subseteq Handlers
        BY <1>1 DEF TypeOK
      <3>3. QED
        BY <3>1, <3>2
    <2>2. \A g \in Handlers : Len(events'[g]) <= EventsCap
      <3>1. Len(<<>>) <= EventsCap
        BY BroadcasterAssumption DEF BroadcasterAssumption
      <3>2. \A g \in Handlers : Len(events[g]) <= EventsCap
        BY <1>1 DEF TypeOK
      <3>3. QED
        BY <1>2, <3>1, <3>2
    <2>3. TypeOK'
      <3>1. /\ epoch \in 1..MaxEpochs /\ closed \in BOOLEAN
            /\ hist \in Seq(Types \cup {"recovered", "gap"}) /\ Count <= MaxHistory
            /\ marks \in Seq(0..MaxHistory) /\ LastSync <= MaxSyncs
            /\ notifying \in [e: Item \cup {None}, full: BOOLEAN]
            /\ inbox \in Seq(Item) /\ Len(inbox) <= InboxCap
            /\ cursor \in [Browsers -> Cursor \cup {None}] /\ faults \in 0..MaxFaults
        BY <1>1 DEF TypeOK
      <3>2. closed' = closed /\ faults' = faults
        BY <1>2 DEF source
      <3>3. /\ events' \in [Handlers -> Seq(Item)] /\ lagged' \in [Handlers -> BOOLEAN]
            /\ wire' \in [Handlers -> Seq(Frame)]
            /\ conn' \in [Browsers -> Handlers \cup {None}]
            /\ reopening' \in [Browsers -> BOOLEAN]
            /\ told' \in [Handlers -> SUBSET (1..MaxHistory)]
        BY Connected
      <3>4. /\ known' \in [Browsers -> SUBSET (1..MaxHistory)]
            /\ refetched' \in [Browsers -> 0..MaxSyncs]
            /\ {behind', missed', slipped'} \subseteq [Browsers -> BOOLEAN]
        BY Reconnected
      <3>5. QED
        BY <1>5, <1>6, <1>7, <2>1, <2>2, <3>1, <3>2, <3>3, <3>4 DEF TypeOK
    <2>4. QED
      BY <1>1, <1>7, <2>3 DEF Typed
  <1>9. Apart' /\ Marked' /\ Queued'
    <2>1. Apart'
      BY <1>2 DEF IInv, Apart
    <2>2. Marked' /\ Queued'
      BY <1>7 DEF IInv, Marked, Queued, Count, LastSync, Notified, Items, InOrder, Fits
    <2>3. QED
      BY <2>1, <2>2
  <1>10. Fanned(h)' = {} /\ Items(events[h])' = {}
    <2>1. h \notin fan.to
      BY <1>1 DEF TypeOK
    <2>2. QED
      BY <1>2, <1>7, <2>1, ItemsNone DEF Fanned, Items
  <1>11. Handled(h)'
    <2>1. Ahead(h)' = Items(inbox) \cup Notified
      BY <1>7, <1>10 DEF Ahead, Notified, Items
    <2>2. Items(<<>>) = {} /\ ChangesIn(<<>>) = {}
      BY ItemsNone, NothingIn
    <2>3. Serviced(h)'
      BY <1>4, <1>5 DEF Serviced
    <2>4. Ordered(h)'
      <3>1. Items(serve[h].batch)' = {}
        BY <1>4, <1>5, <2>2 DEF Items
      <3>2. \A e \in Ahead(h)' : Fits(e)'
        BY <1>1, <1>7, <2>1 DEF Queued, Fits, Count, LastSync
      <3>3. InOrder(events[h])'
        BY <1>2 DEF InOrder
      <3>4. QED
        BY <1>10, <3>1, <3>2, <3>3 DEF Ordered, Precede
    <2>5. Bounded(h)'
      <3>1. Count \in Nat /\ LastSync \in Nat /\ Items(wire[h])' = {}
        BY <1>1, <1>2, <2>2, PageTypes DEF Items
      <3>2. QED
        BY <1>4, <1>5, <1>7, <3>1 DEF Bounded
    <2>6. Once(h)'
      BY <1>2 DEF Once
    <2>7. QED
      BY <2>3, <2>4, <2>5, <2>6 DEF Handled
  <1>12. Paired(b)' /\ Within(b)'
    <2>1. Paired(b)'
      BY <1>2, <1>3, <1>4, <1>5, <1>7 DEF Paired
    <2>2. refetched'[b] <= LastSync
      <3>1. refetched[b] <= LastSync /\ LastSync \in Nat
        BY <1>1, PageTypes DEF Paged, Within
      <3>2. refetched'[b] = LastSync \/ refetched'[b] = refetched[b]
        BY Reconnected
      <3>3. QED
        BY <3>1, <3>2
    <2>3. QED
      BY <1>1, <1>7, <2>1, <2>2 DEF Paged, Within
  <1>13. FramesKeep(b)' /\ WindowKeeps(b)'
    BY <1>2, <1>4, <1>5 DEF FramesKeep, WindowKeeps
  <1>14. known'[b] = All(b) /\ refetched'[b] = LastSync => Flows(b)'
    <2>1. ASSUME known'[b] = All(b), refetched'[b] = LastSync
          PROVE  /\ \A i \in All(b) : Reached(known'[b], <<>>, 0, i)
                 /\ \A k \in 1..LastSync : Refreshed(refetched'[b], <<>>, 0, k)
      <3>1. LastSync \in Nat
        BY <1>1, PageTypes
      <3>2. QED
        BY <2>1, <3>1 DEF Reached, Refreshed
    <2>2. QED
      BY <1>2, <1>4, <1>5, <1>7, <2>1 DEF Flows
  <1>15. ASSUME ~ missed'[b] PROVE CursorKeeps(b)' /\ Outdated(b)' /\ Flows(b)'
    <2>1. CASE reopening[b]
      <3>1. known'[b] = All(b) /\ refetched'[b] = LastSync /\ behind'[b] = FALSE
        BY <2>1, Reconnected
      <3>2. CursorKeeps(b)'
        <4>1. LastSync \in Nat
          BY <1>1, PageTypes
        <4>2. \A id : UpTo(b, <<>>, 0, id)'
          BY <1>7, <3>1, <4>1 DEF UpTo, Reached, Refreshed
        <4>3. QED
          BY <1>1, <1>7, <3>1, <4>2 DEF CursorKeeps, Paged, Within
      <3>3. QED
        BY <1>14, <3>1, <3>2 DEF Outdated
    <2>2. CASE ~ reopening[b]
      <3>1. /\ UNCHANGED <<known, refetched, behind, slipped>> /\ ~ missed[b]
            /\ cursor[b] = None => ~ behind[b] /\ known[b] = All(b) /\ refetched[b] = LastSync
        BY <1>15, <2>2, Reconnected
      <3>2. CursorKeeps(b) /\ Outdated(b)
        BY <1>1, <3>1 DEF Paged, Intact
      <3>3. CursorKeeps(b)'
        BY <1>7, <3>1, <3>2 DEF CursorKeeps, UpTo
      <3>4. Outdated(b)'
        BY <1>2, <1>3, <1>4, <1>5, <1>7, <2>2, <3>1, <3>2 DEF Outdated
      <3>5. Flows(b)'
        <4>1. CASE cursor[b] = None
          BY <1>14, <3>1, <4>1
        <4>2. CASE cursor[b] # None
          BY <1>2, <1>3, <1>4, <1>5, <2>2, <4>2 DEF Flows, Listens
        <4>3. QED
          BY <4>1, <4>2
      <3>6. QED
        BY <3>3, <3>4, <3>5
    <2>3. QED
      BY <2>1, <2>2
  <1>16. Paged(b)'
    BY <1>12, <1>13, <1>15 DEF Paged, Intact
  <1>17. \A g \in Handlers \ {h} : Fanned(g)' = Fanned(g)
    BY <1>7 DEF Fanned
  <1>18. ASSUME NEW g \in Handlers PROVE Handled(g)'
    <2>1. CASE g = h
      BY <1>11, <2>1
    <2>2. CASE g # h
      BY <1>2, <1>5, <1>7, <1>17, <2>2, HandledKept DEF IInv
    <2>3. QED
      BY <2>1, <2>2
  <1>19. ASSUME NEW p \in Browsers PROVE Paged(p)'
    <2>1. CASE p = b
      BY <1>16, <2>1
    <2>2. CASE p # b
      <3>1. \A g \in Handlers \ {h} : Ahead(g)' = Ahead(g)
        BY <1>2, <1>7, <1>17 DEF Ahead, Notified, Items
      <3>2. conn[p] # None => conn[p] \in Handlers \ {h}
        BY <1>1, <1>2, PageTypes
      <3>3. Paged(p)
        BY DEF IInv
      <3>4. /\ known'[p] = known[p] /\ refetched'[p] = refetched[p] /\ behind'[p] = behind[p]
            /\ missed'[p] = missed[p] /\ slipped'[p] = slipped[p] /\ cursor'[p] = cursor[p]
            /\ conn'[p] = conn[p]
        <4>1. /\ known'[p] = known[p] /\ refetched'[p] = refetched[p] /\ behind'[p] = behind[p]
              /\ missed'[p] = missed[p] /\ slipped'[p] = slipped[p]
          BY <2>2, Reconnected
        <4>2. QED
          BY <1>2, <1>7, <2>2, <4>1
      <3>5. conn[p] # None =>
               /\ serve'[conn[p]] = serve[conn[p]] /\ wire'[conn[p]] = wire[conn[p]]
               /\ lagged'[conn[p]] = lagged[conn[p]] /\ Ahead(conn[p])' = Ahead(conn[p])
        <4>1. SUFFICES ASSUME NEW g \in Handlers \ {h}, conn[p] = g, conn[p] # None
                       PROVE  /\ serve'[g] = serve[g] /\ wire'[g] = wire[g]
                              /\ lagged'[g] = lagged[g] /\ Ahead(g)' = Ahead(g)
          BY <3>2, <3>4
        <4>2. QED
          BY <1>2, <1>5, <3>1
      <3>6. QED
        BY <1>7, <3>3, <3>4, <3>5, PageKept
    <2>3. QED
      BY <2>1, <2>2
  <1>20. QED
    BY <1>6, <1>8, <1>9, <1>18, <1>19 DEF IInv

(***************************************************************************)
(* A process begins.                                                       *)
(***************************************************************************)
Fresh ==
    /\ TypeOK
    /\ hist = <<>> /\ marks = <<>> /\ notifying = Quiet
    /\ inbox = <<>> /\ fan = Fan(None, {})
    /\ clients = {} /\ \A o \in DOMAIN owners : owners[o] = 0
    /\ \A h \in Handlers : events[h] = <<>> /\ serve[h] = Idle /\ wire[h] = <<>>
    /\ \A b \in Browsers :
          /\ conn[b] = None /\ refetched[b] = 0
          /\ cursor[b] # None => cursor[b].epoch <= epoch
          /\ cursor[b] # None => cursor[b].epoch # epoch

LEMMA FreshIs == Fresh => IInv
  <1> SUFFICES ASSUME Fresh PROVE IInv
    OBVIOUS
  <1>1. Typed
    BY DEF Fresh, Typed, Quiet, Fan
  <1>2. SlotsAccounted /\ IsFiniteSet(clients)
    <2>1. IsFiniteSet({}) /\ Cardinality({}) = 0
      BY FS_EmptySet
    <2>2. clients = {h \in Handlers : serve[h].pc # "off"}
      BY DEF Fresh, Idle
    <2>3. \A o \in DOMAIN owners : {h \in clients : Owner[serve[h].of] = o} = {}
      BY DEF Fresh
    <2>4. 0 <= MaxClients /\ 0 <= MaxClientsPerOwner
      BY BroadcasterAssumption DEF BroadcasterAssumption
    <2>5. QED
      BY <2>1, <2>2, <2>3, <2>4 DEF Fresh, SlotsAccounted
  <1>3. Apart
    BY DEF Fresh, Apart
  <1>4. Count = 0 /\ LastSync = 0 /\ Items(inbox) = {} /\ Notified = {}
    BY ItemsNone DEF Fresh, Count, LastSync, Notified, Quiet
  <1>5. Marked /\ Queued
    <2>1. InOrder(inbox)
      BY DEF Fresh, InOrder
    <2>2. QED
      BY <1>4, <2>1 DEF Marked, Queued, Precede
  <1>6. ASSUME NEW h \in Handlers PROVE Handled(h)
    <2>1. /\ serve[h].pc = "off" /\ serve[h].batch = <<>> /\ serve[h].skipBelow = 0
          /\ serve[h].syncedThrough = 0 /\ events[h] = <<>>
      BY DEF Fresh, Idle
    <2>2. Items(events[h]) = {} /\ Items(wire[h]) = {} /\ Items(serve[h].batch) = {}
      BY <2>1, ItemsNone DEF Fresh
    <2>3. Fanned(h) = {}
      BY DEF Fresh, Fan, Fanned
    <2>4. Ordered(h)
      BY <1>4, <2>1, <2>2, <2>3 DEF Ordered, Ahead, InOrder, Precede
    <2>5. QED
      BY <1>4, <2>1, <2>2, <2>4 DEF Handled, Serviced, Bounded, Once
  <1>7. ASSUME NEW b \in Browsers PROVE Paged(b)
    <2>1. /\ conn[b] = None /\ refetched[b] = 0
          /\ (cursor[b] # None => cursor[b].epoch # epoch)
      BY DEF Fresh
    <2>2. QED
      BY <1>4, <2>1 DEF Paged, Paired, Within, Intact, CursorKeeps, FramesKeep, Outdated,
                        WindowKeeps, Flows
  <1>8. QED
    BY <1>1, <1>2, <1>3, <1>5, <1>6, <1>7 DEF IInv

LEMMA QuietIsTyped ==
    /\ <<>> \in Seq(Item) /\ <<>> \in Seq(Frame) /\ Idle \in Serving
    /\ Len(<<>>) = 0 /\ <<>> \in Seq(0..MaxHistory)
    /\ <<>> \in Seq(Types \cup {"recovered", "gap"})
    /\ Quiet \in [e: Item \cup {None}, full: BOOLEAN]
    /\ Fan(None, {}) \in [e: Item \cup {None}, to: SUBSET {}]
    /\ 0 <= MaxHistory /\ 0 <= MaxSyncs /\ 0 <= InboxCap /\ 0 <= EventsCap
    /\ 0 \in 0..MaxSyncs /\ 0 \in 0..MaxFaults /\ 1 \in 1..MaxEpochs
  <1>1. /\ <<>> \in Seq(Item) /\ <<>> \in Seq(Frame) /\ <<>> \in Seq(0..MaxHistory)
        /\ <<>> \in Seq(Types \cup {"recovered", "gap"}) /\ Len(<<>>) = 0
    OBVIOUS
  <1>2. /\ 0 <= MaxHistory /\ 0 <= MaxSyncs /\ 0 <= InboxCap /\ 0 <= EventsCap
        /\ 0 \in 0..MaxHistory /\ 0 \in 0..MaxSyncs /\ 0 \in 0..MaxFaults /\ 1 \in 1..MaxEpochs
    BY BroadcasterAssumption DEF BroadcasterAssumption
  <1>3. Idle \in Serving
    BY <1>1, <1>2 DEF Idle, Serving
  <1>4. QED
    BY <1>1, <1>2, <1>3 DEF Quiet, Fan

LEMMA InitFresh == Init => Fresh
  <1> SUFFICES ASSUME Init PROVE Fresh
    OBVIOUS
  <1>1. TypeOK
    <2>1. /\ epoch \in 1..MaxEpochs /\ closed \in BOOLEAN /\ faults \in 0..MaxFaults
          /\ hist \in Seq(Types \cup {"recovered", "gap"}) /\ Count <= MaxHistory
          /\ marks \in Seq(0..MaxHistory) /\ LastSync <= MaxSyncs
          /\ notifying \in [e: Item \cup {None}, full: BOOLEAN]
          /\ inbox \in Seq(Item) /\ Len(inbox) <= InboxCap
          /\ fan \in [e: Item \cup {None}, to: SUBSET clients]
          /\ clients \subseteq Handlers
      BY QuietIsTyped DEF Init, Count, LastSync
    <2>2. /\ owners \in [{Owner[b] : b \in Browsers} -> Nat]
          /\ conn \in [Browsers -> Handlers \cup {None}]
          /\ cursor \in [Browsers -> Cursor \cup {None}]
          /\ reopening \in [Browsers -> BOOLEAN]
          /\ known \in [Browsers -> SUBSET (1..MaxHistory)]
          /\ refetched \in [Browsers -> 0..MaxSyncs]
          /\ told \in [Handlers -> SUBSET (1..MaxHistory)]
          /\ lagged \in [Handlers -> BOOLEAN]
      BY QuietIsTyped DEF Init
    <2>3. /\ events \in [Handlers -> Seq(Item)] /\ wire \in [Handlers -> Seq(Frame)]
          /\ serve \in [Handlers -> Serving]
          /\ \A h \in Handlers : Len(events[h]) <= EventsCap
      BY QuietIsTyped DEF Init
    <2>4. {behind, missed, slipped} \subseteq [Browsers -> BOOLEAN]
      BY DEF Init
    <2>5. QED
      BY <2>1, <2>2, <2>3, <2>4 DEF TypeOK
  <1>2. QED
    BY <1>1 DEF Init, Fresh

LEMMA RestartFresh ==
    ASSUME IInv, Restart
    PROVE  Fresh'
  <1>1. /\ Typed /\ TypeOK /\ epoch \in 1..MaxEpochs /\ epoch' = epoch + 1 /\ epoch < MaxEpochs
        /\ MaxEpochs \in Nat
    BY BroadcasterAssumption DEF IInv, Typed, TypeOK, Restart, BroadcasterAssumption
  <1>2. TypeOK'
    <2>1. /\ epoch' \in 1..MaxEpochs /\ closed' \in BOOLEAN /\ faults' \in 0..MaxFaults
          /\ hist' \in Seq(Types \cup {"recovered", "gap"}) /\ Len(hist') <= MaxHistory
          /\ marks' \in Seq(0..MaxHistory) /\ Len(marks') <= MaxSyncs
          /\ notifying' \in [e: Item \cup {None}, full: BOOLEAN]
          /\ inbox' \in Seq(Item) /\ Len(inbox') <= InboxCap
          /\ clients' \subseteq Handlers
      <3>1. epoch' \in 1..MaxEpochs /\ faults' = faults /\ faults \in 0..MaxFaults
        BY <1>1 DEF Restart, TypeOK
      <3>2. QED
        BY <3>1, QuietIsTyped DEF Restart
    <2>2. fan' \in [e: Item \cup {None}, to: SUBSET clients']
      BY QuietIsTyped DEF Restart
    <2>3. /\ conn' \in [Browsers -> Handlers \cup {None}]
          /\ known' \in [Browsers -> SUBSET (1..MaxHistory)]
          /\ refetched' \in [Browsers -> 0..MaxSyncs]
          /\ told' \in [Handlers -> SUBSET (1..MaxHistory)]
          /\ lagged' \in [Handlers -> BOOLEAN]
      BY QuietIsTyped DEF Restart
    <2>4. /\ cursor' \in [Browsers -> Cursor \cup {None}]
          /\ reopening' \in [Browsers -> BOOLEAN]
          /\ owners' \in [{Owner[b] : b \in Browsers} -> Nat]
      BY <1>1 DEF Restart, TypeOK
    <2>5. /\ events' \in [Handlers -> Seq(Item)] /\ wire' \in [Handlers -> Seq(Frame)]
          /\ serve' \in [Handlers -> Serving]
          /\ \A h \in Handlers : Len(events'[h]) <= EventsCap
      BY QuietIsTyped DEF Restart
    <2>6. {behind', missed', slipped'} \subseteq [Browsers -> BOOLEAN]
      <3>1. behind' \in [Browsers -> BOOLEAN] /\ missed' \in [Browsers -> BOOLEAN]
            /\ slipped' \in [Browsers -> BOOLEAN]
        BY DEF Restart
      <3>2. QED
        BY <3>1
    <2>7. QED
      BY <2>1, <2>2, <2>3, <2>4, <2>5, <2>6 DEF TypeOK, Count, LastSync
  <1>3. \A b \in Browsers : cursor'[b] # None => cursor'[b].epoch <= epoch'
                                                 /\ cursor'[b].epoch # epoch'
    <2>1. ASSUME NEW b \in Browsers, cursor[b] # None
          PROVE  cursor[b].epoch <= epoch' /\ cursor[b].epoch # epoch'
      <3>1. cursor[b] \in Cursor /\ cursor[b].epoch <= epoch
        BY <1>1, <2>1, PageTypes DEF Typed
      <3>2. cursor[b].epoch \in Nat /\ epoch \in Nat
        BY <1>1, <3>1 DEF Cursor
      <3>3. QED
        BY <1>1, <3>1, <3>2
    <2>2. cursor' = cursor
      BY DEF Restart
    <2>3. QED
      BY <2>1, <2>2
  <1>4. /\ hist' = <<>> /\ marks' = <<>> /\ notifying' = Quiet /\ inbox' = <<>>
        /\ fan' = Fan(None, {}) /\ clients' = {} /\ \A o \in DOMAIN owners' : owners'[o] = 0
        /\ \A h \in Handlers : events'[h] = <<>> /\ serve'[h] = Idle /\ wire'[h] = <<>>
        /\ \A b \in Browsers : conn'[b] = None /\ refetched'[b] = 0
    BY DEF Restart
  <1>5. QED
    BY <1>2, <1>3, <1>4 DEF Fresh

\* A process that closes takes no more connections; all else stays.
LEMMA ClosingKeeps ==
    ASSUME IInv, closed' \in BOOLEAN,
           UNCHANGED <<epoch, hist, marks, notifying, queues, table, shared, serve,
                       wire, page, faults, ghosts>>
    PROVE  IInv'
  <1> USE DEF queues, table, shared, page, ghosts
  <1>1. Typed'
    BY DEF IInv, Typed, TypeOK, Count, LastSync
  <1>2. SlotsAccounted' /\ IsFiniteSet(clients)' /\ Apart' /\ Marked' /\ Queued'
    BY DEF IInv, SlotsAccounted, Apart, Marked, Queued, Count, LastSync, Notified, Items,
           InOrder, Fits
  <1>3. \A h \in Handlers : Fanned(h)' = Fanned(h) /\ Ahead(h)' = Ahead(h)
    BY DEF Fanned, Ahead, Notified, Items
  <1>4. \A h \in Handlers : Handled(h)'
    BY <1>3, HandledKept DEF IInv
  <1>5. ASSUME NEW b \in Browsers PROVE Paged(b)'
    <2>1. Paged(b) /\ (conn[b] # None => conn[b] \in Handlers)
      BY PageTypes DEF IInv, Typed
    <2>2. conn[b] # None => Ahead(conn[b])' = Ahead(conn[b])
      <3>1. SUFFICES ASSUME NEW h \in Handlers, conn[b] = h PROVE Ahead(h)' = Ahead(h)
        BY <2>1
      <3>2. QED
        BY <1>3
    <2>3. QED
      BY <2>1, <2>2, PageKept
  <1>6. QED
    BY <1>1, <1>2, <1>4, <1>5 DEF IInv

(***************************************************************************)
(* Every step.                                                             *)
(***************************************************************************)
LEMMA NotifiesKeep == IInv /\ Notifies => IInv'
  BY NotifyKeeps, NotifyGapKeeps, NotifySyncKeeps DEF Notifies

LEMMA BroadcastsKeep == IInv /\ (Broadcasts \/ FansOut) => IInv'
  BY BroadcastKeeps, BroadcastDropsKeeps, TakeInboxKeeps, fanOutKeeps DEF Broadcasts, FansOut

LEMMA ServesKeep ==
    ASSUME IInv, NEW h \in Handlers, Serves(h)
    PROVE  IInv'
  BY OpenKeeps, replayEventsKeeps, CountFirstKeeps, syncFrameKeeps, TakeEventKeeps, TickKeeps,
     LaggedTickKeeps, FinishKeeps DEF Serves

LEMMA BrowsesKeep ==
    ASSUME IInv, NEW b \in Browsers, Browses(b)
    PROVE  IInv'
  BY ReceiveKeeps, EndedKeeps, RefuseKeeps, ConnectKeeps DEF Browses

LEMMA CloseKeeps ==
    ASSUME IInv, Close
    PROVE  IInv'
  <1>1. /\ closed' \in BOOLEAN
        /\ UNCHANGED <<epoch, hist, marks, notifying, queues, table, shared, serve,
                       wire, page, faults, ghosts>>
    BY DEF Close
  <1>2. QED
    BY <1>1, ClosingKeeps

LEMMA StepKeeps == IInv /\ ~ Restart /\ [Next]_vars => IInv'
  <1> SUFFICES ASSUME IInv, ~ Restart, [Next]_vars PROVE IInv'
    OBVIOUS
  <1>1. CASE Notifies \/ Broadcasts \/ FansOut
    BY <1>1, NotifiesKeep, BroadcastsKeep
  <1>2. CASE \E h \in Handlers : Serves(h)
    BY <1>2, ServesKeep
  <1>3. CASE \E b \in Browsers : Browses(b)
    BY <1>3, BrowsesKeep
  <1>4. CASE Fails
    BY <1>4, WriteFailsKeeps, LostKeeps, CloseKeeps DEF Fails
  <1>5. CASE UNCHANGED vars
    <2>1. closed \in BOOLEAN
      BY DEF IInv, Typed, TypeOK
    <2>2. /\ closed' \in BOOLEAN
          /\ UNCHANGED <<epoch, hist, marks, notifying, queues, table, shared, serve,
                         wire, page, faults, ghosts>>
      BY <1>5, <2>1 DEF vars, source
    <2>3. QED
      BY <2>2, ClosingKeeps
  <1>6. QED
    BY <1>1, <1>2, <1>3, <1>4, <1>5 DEF Next

LEMMA RestartStarts == IInv /\ Restart => Fresh'
  BY RestartFresh

\* Whatever the notifier, fanOut, the handlers, the browsers and the failures
\* do, and in whatever order: the buffers keep the order of the history, no
\* window passes over what its page neither has nor is told to refetch, and
\* what a live page does not know is still on its way to it.
THEOREM StreamsStayWhole == Spec => []IInv
  <1>1. Init => IInv
    BY InitFresh, FreshIs
  <1>2. IInv /\ [Next]_vars => IInv'
    <2>1. IInv /\ Restart => IInv'
      BY FreshIs, RestartStarts, PTL
    <2>2. QED
      BY <2>1, StepKeeps
  <1>3. QED
    BY <1>1, <1>2, PTL DEF Spec

(***************************************************************************)
(* What follows from it.                                                   *)
(***************************************************************************)
\* The inbox and every client's buffer stay within their capacities, however
\* events, drops and handlers interleave; and what ServeSSE counts, in all and
\* for each owner, is the handlers that run, however each of them ended.
THEOREM LimitsHold == Spec => []WithinLimits
  <1>1. IInv => WithinLimits
    BY DEF IInv, Typed, WithinLimits
  <1>2. QED
    BY <1>1, StreamsStayWhole, PTL

\* The position a browser would present as its Last-Event-ID is one its page
\* is caught up to, so that replayEvents, which starts after it, leaves
\* nothing out; unless the page was already known to have missed something.
THEOREM CursorsAreSound == Spec => []CursorSound
  <1>1. IInv => CursorSound
    <2>1. SUFFICES ASSUME IInv, NEW b \in Browsers, cursor[b] # None, ~ missed[b],
                          cursor[b].epoch = epoch, NEW i \in All(b), i <= cursor[b].id
                   PROVE  i \in known[b]
      BY DEF CursorSound
    <2>2. UpTo(b, <<>>, 0, cursor[b].id)
      BY <2>1 DEF IInv, Paged, Intact, CursorKeeps
    <2>3. Reached(known[b], <<>>, 0, i)
      BY <2>1, <2>2 DEF UpTo
    <2>4. QED
      BY <2>3 DEF Reached
  <1>2. QED
    BY <1>1, StreamsStayWhole, PTL

\* What a replay or a sync frame covered does not come again in a batch of the
\* same connection, whichever way the live events of it raced the read of the
\* history.
THEOREM NothingToldTwice == Spec => []ToldOnce
  <1>1. IInv => ToldOnce
    <2>1. SUFFICES ASSUME IInv, NEW h \in Handlers
                   PROVE  ChangesIn(serve[h].batch) \cap told[h] = {}
      BY DEF ToldOnce
    <2>2. Serviced(h) /\ Once(h)
      <3>1. Handled(h)
        BY <2>1 DEF IInv
      <3>2. QED
        BY <3>1 DEF Handled
    <2>3. CASE serve[h].pc = "off"
      BY <2>2, <2>3, NothingIn DEF Serviced
    <2>4. CASE serve[h].pc # "off"
      BY <2>2, <2>4 DEF Once
    <2>5. QED
      BY <2>3, <2>4
  <1>2. QED
    BY <1>1, StreamsStayWhole, PTL

\* A change the page of a live connection does not know of is in a frame, in
\* its handler's batch, or ahead of the handler and past its dedup windows; a
\* sync likewise; or the page will be told to refetch.  No drop of a full
\* buffer, no replay and no cursor loses one silently.
THEOREM NothingLostSilently == Spec => []NoSilentGap
  <1>1. IInv => NoSilentGap
    <2>1. SUFFICES ASSUME IInv, NEW b \in Browsers, NEW h \in Handlers, h = conn[b], h # None,
                          serve[h].pc = "live", ~ Refetches(h), ~ missed[b]
                   PROVE
            /\ ~ behind[b]
            /\ \A i \in All(b) \ known[b] :
                  \/ \E j \in 1..Len(wire[h]) : i \in wire[h][j].changes
                  \/ i \in ChangesIn(serve[h].batch)
                  \/ \E e \in InFlight(h) : ~ IsSync(e) /\ e.id = i /\ ~ Skipped(h, e)
            /\ \A k \in (refetched[b] + 1)..LastSync :
                  slipped[b] \/ \E e \in InFlight(h) : e.sync >= k /\ ~ Skipped(h, e)
      <3>1. IInv => \A b \in Browsers : conn[b] # None => conn[b] \in Handlers
        BY PageTypes DEF IInv, Typed
      <3>2. QED
        BY <3>1 DEF NoSilentGap
    <2> DEFINE s == serve[h]
               w == wire[h]
    <2>2. /\ Typed /\ TypeOK /\ Outdated(b) /\ WindowKeeps(b) /\ Flows(b)
      BY <2>1 DEF IInv, Paged, Intact, Typed
    <2>3. /\ \A j \in 1..Len(w) : ~ w[j].refetch
          /\ ~ lagged[h] /\ SyncsIn(s.batch) = {}
      BY <2>1 DEF Refetches
    <2>4. /\ s.skipBelow \in Nat /\ s.syncedThrough \in Nat /\ refetched[b] \in Nat
          /\ LastSync \in Nat /\ Count \in Nat /\ All(b) \subseteq 1..Count /\ w \in Seq(Frame)
      BY <2>2, HandlerTypes, PageTypes
    <2>5. \A e \in Ahead(h) : e \in InFlight(h) /\ e.sync \in Nat /\ (IsSync(e) <=> e.sync > 0)
      <3>1. \A e \in Ahead(h) : e \in Item
        BY <2>2, AheadTypes
      <3>2. QED
        BY <2>2, <3>1, AheadIs, ItemIs DEF IsSync
    <2>6. ~ behind[b]
      <3>1. w # <<>> => ~ w[1].refetch
        BY <2>3, <2>4
      <3>2. QED
        BY <2>1, <2>2, <3>1 DEF Outdated
    <2>7. ASSUME NEW i \in All(b) \ known[b]
          PROVE  \/ \E j \in 1..Len(w) : i \in w[j].changes
                 \/ i \in ChangesIn(s.batch)
                 \/ \E e \in InFlight(h) : ~ IsSync(e) /\ e.id = i /\ ~ Skipped(h, e)
      <3>1. Reached(known[b], w, Len(w), i) => \E j \in 1..Len(w) : i \in w[j].changes
        BY <2>3, <2>7 DEF Reached
      <3>2. i <= s.skipBelow => Reached(known[b], w, Len(w), i)
        BY <2>1, <2>2, <2>7 DEF WindowKeeps
      <3>3. \/ Reached(known[b], w, Len(w), i)
            \/ i \in ChangesIn(s.batch)
            \/ \E e \in Ahead(h) : ~ IsSync(e) /\ e.id = i
        BY <2>1, <2>2, <2>3, <2>7 DEF Flows, Listens
      <3>4. ASSUME NEW e \in Ahead(h), ~ IsSync(e), e.id = i, ~ (i <= s.skipBelow)
            PROVE  e \in InFlight(h) /\ ~ Skipped(h, e)
        BY <2>5, <3>4 DEF Skipped
      <3>5. QED
        BY <3>1, <3>2, <3>3, <3>4
    <2>8. ASSUME NEW k \in (refetched[b] + 1)..LastSync
          PROVE  slipped[b] \/ \E e \in InFlight(h) : e.sync >= k /\ ~ Skipped(h, e)
      <3>1. k \in Nat /\ k > 0 /\ ~ (k <= refetched[b])
        BY <2>4
      <3>2. ~ Refreshed(refetched[b], w, Len(w), k)
        BY <2>3, <3>1 DEF Refreshed
      <3>3. CASE k <= s.syncedThrough
        <4>1. k \in 1..s.syncedThrough
          BY <2>4, <3>1, <3>3
        <4>2. QED
          BY <2>1, <2>2, <3>2, <4>1 DEF WindowKeeps
      <3>4. CASE ~ (k <= s.syncedThrough)
        <4>1. k \in (s.syncedThrough + 1)..LastSync
          BY <2>4, <3>1, <3>4
        <4>2. slipped[b] \/ \E e \in Ahead(h) : e.sync = k
          BY <2>1, <2>2, <2>3, <3>2, <4>1 DEF Flows, Listens
        <4>3. ASSUME NEW e \in Ahead(h), e.sync = k
              PROVE  e \in InFlight(h) /\ e.sync >= k /\ ~ Skipped(h, e)
          <5>1. e \in InFlight(h) /\ IsSync(e) /\ e.sync >= k
            BY <2>5, <3>1, <4>3
          <5>2. QED
            BY <3>4, <4>3, <5>1 DEF Skipped
        <4>4. QED
          BY <4>2, <4>3
      <3>5. QED
        BY <3>3, <3>4
    <2>9. QED
      BY <2>6, <2>7, <2>8
  <1>2. QED
    BY <1>1, StreamsStayWhole, PTL
=============================================================================
