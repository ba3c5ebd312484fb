------------------------------- MODULE History -------------------------------
(***************************************************************************)
(* Reading the timeline (internal/cache history.go and annotations.go,     *)
(* internal/cluster timeline.go and history.go, internal/api               *)
(* history_handlers.go, feed_handlers.go): the ring of changes and gaps,   *)
(* the index of the last entries about each record, the query that is      *)
(* answered from the index if that reaches far enough and from the ring    *)
(* otherwise, the merge with the annotations, and the pages of it.         *)
(*                                                                         *)
(* An entry has its id, kind, the type, id and name of what it is about,   *)
(* the service if that is a task, the stack, when it was and until when,   *)
(* and who did it.  A query's `reads` are the resources its caller may     *)
(* read; a word of a search stands for the names that contain it.          *)
(***************************************************************************)
EXTENDS Integers, Sequences, FiniteSets, FiniteSetsExt, SequencesExt, Functions, TLC

An == INSTANCE Annotations

KindChange == "change"
KindGap == "gap"
KindAnnotation == "annotation"
Kinds == {KindChange, KindGap, KindAnnotation}
NoEntry == [id |-> 0, kind |-> "", type |-> "", resource |-> "", name |-> "", service |-> "",
            serviceName |-> "", stack |-> "", action |-> "", at |-> 0, until |-> 0, actor |-> ""]

----------------------------------------------------------------------------
(* The ring, and the index rings of the slots about each id *)

NewHistory(size, indexRingSize) ==
  [entries |-> [i \in 0..(size - 1) |-> NoEntry], size |-> size, cursor |-> 0, full |-> FALSE,
   count |-> 0, byResource |-> <<>>, indexRingSize |-> indexRingSize]

Ring(n) == [indices |-> [i \in 0..(n - 1) |-> 0], cursor |-> 0, full |-> FALSE]
push(ring, idx) ==
  LET n == Cardinality(DOMAIN ring.indices)
  IN  [indices |-> [ring.indices EXCEPT ![ring.cursor] = idx], cursor |-> (ring.cursor + 1) % n,
       full |-> ring.full \/ ring.cursor + 1 = n]
newest(ring) ==
  LET n == Cardinality(DOMAIN ring.indices)
  IN  ring.indices[(ring.cursor + n - 1) % n]

index(byResource, id, h) ==
  LET ring == IF id \in DOMAIN byResource THEN byResource[id] ELSE Ring(h.indexRingSize)
  IN  (id :> push(ring, h.cursor)) @@ byResource

EvictAny(h) ==
  LET evicted == h.entries[h.cursor]
  IN  IF ~ h.full THEN h.byResource
      ELSE Restrict(h.byResource, DOMAIN h.byResource \ {evicted.resource, evicted.service})

(* Of Append: the index of an id whose newest entry is overwritten goes.   *)
Evict(h) ==
  LET evicted == h.entries[h.cursor]
      gone == {id \in {evicted.resource, evicted.service} \cap DOMAIN h.byResource :
                 newest(h.byResource[id]) = h.cursor}
  IN  IF ~ h.full THEN h.byResource ELSE Restrict(h.byResource, DOMAIN h.byResource \ gone)

AppendEntry(h, entry) ==
  LET e == [entry EXCEPT !.id = h.count + 1]
      own == IF e.kind = KindAnnotation THEN Evict(h) ELSE index(Evict(h), e.resource, h)
  IN  [h EXCEPT !.count = @ + 1, !.entries[h.cursor] = e,
                !.byResource = IF e.kind = KindAnnotation \/ e.service = "" THEN own
                               ELSE index(own, e.service, h),
                !.cursor = (@ + 1) % h.size, !.full = @ \/ h.cursor + 1 = h.size]

(* The slots in use, newest first. *)
Slots(h) == [i \in 1..(IF h.full THEN h.size ELSE h.cursor) |-> (h.cursor + h.size - i) % h.size]

----------------------------------------------------------------------------
(* What a query asks for *)

about(e, id) == e.resource = id \/ e.service = id
end(e) == IF e.until = 0 THEN e.at ELSE e.until

wantsKind(q, kind) == q.kinds = {} \/ kind \in q.kinds

matchesResource(q, e) ==
  LET member == e.type = "service" /\ e.resource \in q.members
  IN  /\ q.id = "" \/ about(e, q.id) \/ member
      /\ q.type = "" \/ e.type = q.type \/ member
      /\ q.types = {} \/ e.type \in q.types \/ member

(* readableEntryTaskName, ReadableTaskNames: a task goes by its service's  *)
(* name only where the caller may read that, of the cache or, once it is   *)
(* gone, of the entry.                                                     *)
taskName(e, services, reads) ==
  LET cached == {s \in services : s.id = e.service}
      name == IF cached = {} THEN e.serviceName ELSE (CHOOSE s \in cached : TRUE).name
  IN  IF name # "" /\ <<"service", name>> \in reads THEN <<name, e.resource>> ELSE <<e.resource>>

(* matchesText, of a title and of the words of a search *)
matchesText(q, e) ==
  LET shown == IF e.type = "task" THEN ToSet(taskName(e, q.services, q.reads)) ELSE {e.name}
  IN  /\ q.title # "" => q.title \in shown
      /\ q.search # "" => q.search \in shown \cup {e.resource, e.type, e.action, e.actor}

(* HistoryReadable *)
HistoryReadable(q, e) == e.kind = KindGap \/ <<e.type, e.name>> \in q.reads

matches(q, e) ==
  /\ e.kind # KindAnnotation /\ wantsKind(q, e.kind)
  /\ q.before = 0 \/ e.at <= q.before
  /\ e.kind = KindChange => q.tags = {} /\ An!matchesAuthor(q, e.actor)
  /\ e.kind # KindGap => matchesResource(q, e)
  /\ HistoryReadable(q, e) /\ (e.kind = KindGap \/ matchesText(q, e))

(* TimelineScope.Query: a service's timeline has its tasks' entries too    *)
(* unless the caller says not; an id that names nothing it may read is     *)
(* left as it is.                                                          *)
Query(scope, caller) ==
  LET type == IF scope.type = "" /\ Cardinality(scope.types) = 1 THEN CHOOSE t \in scope.types : TRUE
              ELSE scope.type
      types == IF type # scope.type THEN {} ELSE scope.types
      withTasks == scope.tasks /\ type = "service" /\ scope.id # ""
  IN  [type |-> IF withTasks THEN "" ELSE type, types |-> IF withTasks THEN {"service", "task"} ELSE types,
       id |-> scope.id, after |-> scope.after, before |-> scope.before, title |-> "", search |-> scope.search,
       kinds |-> scope.kinds, tags |-> scope.tags, authors |-> scope.authors, matchAny |-> scope.matchAny,
       members |-> {}, services |-> {}, reads |-> caller.reads, cursor |-> 0, limit |-> 0]

----------------------------------------------------------------------------
(* List *)

Below(q, e) == q.cursor = 0 \/ e.id < q.cursor
Ended(q, e) == q.after # 0 /\ end(e) <= q.after

(* What a walk newest first collects until it is full or before the window. *)
Collect(q, entries) ==
  FoldLeft(LAMBDA w, e : IF w.done \/ ~ Below(q, e) THEN w
                         ELSE IF Ended(q, e) THEN [w EXCEPT !.done = TRUE]
                         ELSE IF ~ matches(q, e) THEN w
                         ELSE [got |-> Append(w.got, e), done |-> Len(w.got) + 1 = q.limit],
           [got |-> <<>>, done |-> FALSE], entries)

(* indexCursor: the entries an index ring still leads to; a slot that was  *)
(* overwritten since leads to another's entry, or to a later one.  The     *)
(* index of the gaps is under "".                                          *)
indexCursor(h, id) ==
  LET Belongs(e) == IF id = "" THEN e.kind = KindGap ELSE about(e, id)
      known == id \in DOMAIN h.byResource
      ring == h.byResource[id]
      total == IF ring.full THEN h.indexRingSize ELSE ring.cursor
      slot(i) == ring.indices[(ring.cursor + h.indexRingSize - i) % h.indexRingSize]
      walk == FoldLeft(LAMBDA got, i :
                         LET e == h.entries[slot(i)]
                         IN  IF Belongs(e) /\ (got = <<>> \/ e.id < Last(got).id) THEN Append(got, e) ELSE got,
                       <<>>, [i \in 1..total |-> i])
  IN  [entries |-> IF known THEN walk ELSE <<>>, whole |-> ~ known \/ ~ ring.full]

ListByOwn(h, q) ==
  LET own == indexCursor(h, q.id)
      walk == Collect(q, own.entries)
  IN  [entries |-> walk.got, complete |-> walk.done \/ own.whole]

(* listByResource: the entries about the id and the gaps, newest first, as *)
(* far as both indexes reach; complete if that was far enough.             *)
AsFarAsBoth(q, own, gaps) ==
  LET short == {c \in {own, gaps} : ~ c.whole}
      reach(e) == \A c \in short : c.entries # <<>> /\ e.id >= Last(c.entries).id
      both == SortSeq(own.entries \o gaps.entries, LAMBDA a, b : a.id > b.id)
      found(walk) == [entries |-> walk.got, complete |-> walk.done \/ short = {}]
  IN  found(Collect(q, SelectSeq(both, reach)))
listByResource(h, q) ==
  AsFarAsBoth(q, indexCursor(h, q.id), IF wantsKind(q, KindGap) THEN indexCursor(h, "")
                                       ELSE [entries |-> <<>>, whole |-> TRUE])

List(h, query) ==
  LET q == [query EXCEPT !.limit = IF @ <= 0 THEN 50 ELSE @]
      either(indexed) ==
        IF q.id # "" /\ q.members = {} /\ indexed.complete THEN indexed.entries
        ELSE Collect(q, [i \in DOMAIN Slots(h) |-> h.entries[Slots(h)[i]]]).got
  IN  either(listByResource(h, q))

----------------------------------------------------------------------------
(* The timeline: the ring and the annotations *)

(* stackMembers: of a stack that is cached and, removed from it, of the    *)
(* history.                                                                *)
stackMembers(h, services, stack) ==
  {e.resource : e \in {x \in Range(h.entries) : x.type = "service" /\ x.action = "remove" /\ x.stack = stack}}
  \cup {s.id : s \in {x \in services : x.stack = stack}}

(* serviceStack: a removed service's is in its last entry. *)
StackOf(entries) == IF entries = <<>> THEN "" ELSE entries[1].stack
serviceStack(h, services, id) ==
  LET cached == {s \in services : s.id = id}
      all == [Query([type |-> "service", types |-> {}, id |-> id, tasks |-> FALSE, after |-> 0, before |-> 0,
                     search |-> "", kinds |-> {KindChange}, tags |-> {}, authors |-> {}, matchAny |-> FALSE],
                    [reads |-> {}]) EXCEPT !.limit = 1, !.reads = {<<e.type, e.name>> : e \in Range(h.entries)}]
      last == List(h, all)
  IN  IF id = "" THEN "" ELSE IF cached # {} THEN (CHOOSE s \in cached : TRUE).stack
      ELSE StackOf(last)

subjectType(q) ==
  IF q.type # "" THEN q.type ELSE IF Cardinality(q.types) = 1 THEN CHOOSE t \in q.types : TRUE ELSE ""

MergeUncut(ring, notes, limit) == SortSeq(ring \o notes, LAMBDA a, b : a.id > b.id)

(* Of Timeline: the newest of both, as many as asked for. *)
Merge(ring, notes, limit) ==
  LET both == SortSeq(ring \o notes, LAMBDA a, b : a.id > b.id)
  IN  SubSeq(both, 1, Min({limit, Len(both)}))

EntryOfNote(note) == [NoEntry EXCEPT !.id = note.id, !.kind = KindAnnotation, !.at = note.at, !.until = note.until,
                                     !.actor = note.actor.subject]

EntriesOfNotes(noted) == [i \in DOMAIN noted |-> EntryOfNote(noted[i])]

annotationsOf(h, notes, services, q, caller) ==
  LET stack == IF subjectType(q) \in {"", "service"} THEN serviceStack(h, services, q.id) ELSE ""
  IN  EntriesOfNotes(An!annotationEntries(notes, [q EXCEPT !.type = subjectType(q)], caller, stack))

Timeline(h, notes, services, query, caller) ==
  LET q == [query EXCEPT !.limit = IF @ <= 0 THEN 50 ELSE @, !.services = services,
                         !.members = IF query.id # "" /\ (query.type = "stack" \/ "stack" \in query.types)
                                     THEN stackMembers(h, services, query.id) ELSE @]
  IN  Merge(IF q.kinds = {KindAnnotation} THEN <<>> ELSE List(h, q),
            IF wantsKind(q, KindAnnotation) THEN annotationsOf(h, notes, services, q, caller) ELSE <<>>,
            q.limit)

----------------------------------------------------------------------------
(* The handlers *)

(* parseFeedPagination: 50 unless a limit is given (here 0 if it is not),  *)
(* and never over 200.                                                     *)
parseFeedPagination(q) ==
  [code |-> IF "page" \in q.faults THEN "API016" ELSE "", cursor |-> q.before,
   limit |-> IF q.limit = 0 THEN 50 ELSE Min({q.limit, 200})]

(* HandleHistory and HandleAnnotations (timelineQuery, timelineScope); a   *)
(* table without a limit has everything.                                   *)
HandleHistory(q, h, notes, services, caller, only) ==
  LET page == parseFeedPagination(q)
      query == [Query(q.scope, caller) EXCEPT
                  !.cursor = page.cursor, !.limit = IF q.csv /\ q.limit = 0 THEN h.size + Len(notes) ELSE page.limit,
                  !.kinds = IF only THEN {KindAnnotation} ELSE @]
      code == CASE ~ caller.anyGrant -> "ACL001"
                [] only /\ q.scope.kinds # {} -> "API016"
                [] page.code # "" -> page.code
                [] ~ q.scope.kinds \subseteq Kinds -> "API016"
                [] OTHER -> ""
  IN  [code |-> code, limit |-> query.limit,
       entries |-> IF code = "" THEN Timeline(h, notes, services, query, caller) ELSE <<>>]

(* linkNextTimelinePage, and atomPaginationLinks of a feed: a page that is *)
(* full may not be the last.                                               *)
linkNextTimelinePage(answer) ==
  IF answer.entries = <<>> \/ Len(answer.entries) < answer.limit THEN 0 ELSE Last(answer.entries).id

(* queryHistoryFeed and the feeds made of it: of all, of a type, of one    *)
(* record, of a search, and of a timeline.                                 *)
queryHistoryFeed(q, h, notes, services, caller, query) ==
  LET page == parseFeedPagination(q)
  IN  [code |-> IF ~ caller.anyGrant THEN "ACL001" ELSE page.code, limit |-> page.limit,
       entries |-> IF caller.anyGrant /\ page.code = ""
                   THEN Timeline(h, notes, services, [query EXCEPT !.cursor = page.cursor, !.limit = page.limit],
                                 caller)
                   ELSE <<>>]
=============================================================================
