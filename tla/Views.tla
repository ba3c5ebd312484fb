------------------------------- MODULE Views -------------------------------
(***************************************************************************)
(* What a caller is shown of the cluster: one record (api/representations, *)
(* mcp/resources.go, describe.go and projection/), a table of them         *)
(* (cluster/view.go, enrich.go, mcp/find.go, completion.go) and what a     *)
(* search finds (cluster/search.go, api/search_handlers.go).               *)
(*                                                                         *)
(* A world is the set of records of the cache; a caller is the set of      *)
(* resources it may read.  A query is the set of texts it matches; how     *)
(* that is decided, letter by letter, is SegmentPrefixMatch below.  Times, *)
(* labels, limits and the rest of a record's own data are left out: they   *)
(* are sent whole with the record.                                         *)
(***************************************************************************)
EXTENDS Integers, Sequences, FiniteSets, FiniteSetsExt, SequencesExt, TLC

Rq == INSTANCE Requests
Vs == INSTANCE Versions
Ad == INSTANCE Addresses WITH None <- 0

----------------------------------------------------------------------------
(* Records and who may read them *)

(* NodeACLName: a node is granted by its hostname, one without by its id.  *)
NodeACLName(n) == IF n.name # "" THEN n.name ELSE n.id
Resource(r) == <<r.kind, IF r.kind = "task" THEN r.id ELSE IF r.kind = "node" THEN NodeACLName(r)
                         ELSE r.name>>
Readable(r, reads) == Resource(r) \in reads

(* filterNodes, filterServices and so on *)
filter(world, kind, reads) == {r \in world : r.kind = kind /\ Readable(r, reads)}

Get(world, kind, id) == {r \in world : r.kind = kind /\ r.id = id}
(* readableService and readableNode: none, or the one. *)
readable(world, kind, id, reads) == {r \in Get(world, kind, id) : Readable(r, reads)}
NameOf(records) == IF records = {} THEN "" ELSE (CHOOSE r \in records : TRUE).name
TasksOf(world, svc) == {t \in world : t.kind = "task" /\ t.serviceID = svc.id}

(* ServicesUsingConfig and the others; a rollback needs what the previous  *)
(* spec alone names.                                                       *)
ServicesUsing(world, r) ==
  LET services == {s \in world : s.kind = "service"}
      ref(s, rollback) == [id |-> s.id, name |-> s.name, rollback |-> rollback]
  IN  IF r.kind = "network" THEN {ref(s, FALSE) : s \in {x \in services : r.id \in x.nets}}
      ELSE {ref(s, <<r.kind, r.id>> \notin s.uses) : s \in {x \in services : <<r.kind, r.id>> \in x.uses \cup x.previous}}
(* filterServiceRefs *)
filterServiceRefs(refs, reads) == {u \in refs : <<"service", u.name>> \in reads}

(* Which configs and secrets have versions, and what uses each of them.    *)
Versioned == {"config", "secret"}
UsesOf(world) ==
  UNION {{[of |-> r.id, by |-> u.name, rollback |-> u.rollback] : u \in ServicesUsing(world, r)}
           : r \in {x \in world : x.kind \in Versioned}}

(* Cache.NetworkAddresses: a service holds an address in each network it   *)
(* has a VIP in, a task one in each it joins.                              *)
NetworkAddresses(world) ==
  LET counted == {n \in world : n.kind = "network" /\ n.counted}
      one(r, nets) == [n \in {x.id : x \in counted} |-> IF n \in nets THEN {r.id} ELSE {}]
      services == {[addresses |-> one(s, s.vips)] : s \in {x \in world : x.kind = "service"}}
      tasks == {[state |-> t.state, joined |-> t.nets, node |-> t.node, addresses |-> one(t, t.nets)]
                  : t \in {x \in world : x.kind = "task"}}
      pool(n) == [id |-> n.id, ingress |-> n.ingress, pools |-> {}, attachable |-> FALSE]
  IN  [id \in {n.id : n \in counted} |->
         Ad!Count(pool(CHOOSE n \in counted : n.id = id), services, tasks,
                  Cardinality({d \in world : d.kind = "node"}))]
(* NetworkAddressesOf: none, or the figure. *)
NetworkAddressesOf(figures, id) == {figures[n] : n \in {id} \cap DOMAIN figures}

----------------------------------------------------------------------------
(* States *)

(* cache: TaskIsLive, CountsAsRunningReplica, CountsAsJobCompletion *)
TaskIsLive(t) == t.live
CountsAsRunningReplica(t) == t.state = "running" /\ TaskIsLive(t)
CountsAsJobCompletion(svc, t) == svc.mode = "job" /\ t.state = "complete"
Running(svc, tasks) == Cardinality({t \in tasks : t.serviceID = svc.id /\ CountsAsRunningReplica(t)})
Completed(svc, tasks) == Cardinality({t \in tasks : t.serviceID = svc.id /\ CountsAsJobCompletion(svc, t)})

(* EligibleNodeCounts: how many nodes could run a global service's task;   *)
(* of any other service nothing is known.                                  *)
NotCounted == -1
Schedulable(n) == n.state = "ready" /\ n.availability = "active"
EligibleNodeCounts(world, svc) ==
  IF svc.mode # "global" THEN NotCounted
  ELSE Cardinality({n \in world : n.kind = "node" /\ Schedulable(n) /\ n.id \in svc.fits})

DeriveServiceState(svc, running, completed, eligible) ==
  IF svc.updating THEN "updating"
  ELSE IF svc.mode = "job"
       THEN IF running > 0 THEN "running"
            ELSE IF completed >= Max({svc.want, 1}) THEN "completed" ELSE "failed"
  ELSE IF svc.mode = "global" /\ running = 0 /\ eligible # 0 THEN "pending"
  ELSE IF svc.mode = "replicated" /\ svc.want > 0 /\ running = 0 THEN "failed"
  ELSE IF svc.mode = "replicated" /\ running < svc.want THEN "pending"
  ELSE IF svc.flapping THEN "flapping"
  ELSE "running"

DeriveNodeState(n) ==
  IF n.state # "ready" THEN n.state ELSE IF n.availability # "active" THEN n.availability ELSE "ready"

(* The state shown of a service, of the tasks a view counts. *)
StateOf(world, svc, tasks) ==
  DeriveServiceState(svc, Running(svc, tasks), Completed(svc, tasks), EligibleNodeCounts(world, svc))
AllTasks(world) == {t \in world : t.kind = "task"}

----------------------------------------------------------------------------
(* Tasks with their parents *)

NamedRegardless(world, t, reads) ==
  [task |-> t, service |-> NameOf(Get(world, "service", t.serviceID)),
   node |-> NameOf(Get(world, "node", t.node))]

(* EnrichTask: the parents' names, of the parents the caller may read. *)
EnrichTask(world, t, reads) ==
  [task |-> t, service |-> NameOf(readable(world, "service", t.serviceID, reads)),
   node |-> NameOf(readable(world, "node", t.node, reads))]
EnrichTasks(world, tasks, reads) == {EnrichTask(world, t, reads) : t \in tasks}

(* EnrichTasksWithin, of lists that are filtered already *)
EnrichTasksWithin(tasks, services, nodes) ==
  {[task |-> t, service |-> NameOf({s \in services : s.id = t.serviceID}),
    node |-> NameOf({n \in nodes : n.id = t.node})] : t \in tasks}

(* readableEnrichedTasks *)
readableEnrichedTasks(world, tasks, reads) ==
  EnrichTasksWithin({t \in tasks : Readable(t, reads)}, filter(world, "service", reads),
                    filter(world, "node", reads))

(* TaskName, as the service's name and what tells its tasks apart *)
TaskName(t, service) ==
  IF service = {} THEN <<t.id, "">>
  ELSE LET svc == CHOOSE s \in service : TRUE
       IN  <<svc.name, IF svc.mode = "global" THEN t.node ELSE t.slot>>

(* RedactSecret *)
RedactSecret(r) == IF r.kind = "secret" THEN [r EXCEPT !.data = ""] ELSE r

----------------------------------------------------------------------------
(* Rows *)

Row(r, name, state, detail, desired, running) ==
  [id |-> r.id, name |-> name, type |-> r.kind, state |-> state, detail |-> detail, desired |-> desired,
   running |-> running, stack |-> IF r.kind \in {"task", "node", "stack"} THEN "" ELSE r.stack,
   order |-> r.order]

RowsForTasks(tasks, services) ==
  {Row(e.task, TaskName(e.task, {s \in services : s.id = e.task.serviceID}), e.task.state,
       IF e.node # "" THEN e.node ELSE e.task.node, 0, 0) : e \in tasks}

(* enrichedTaskRows: the parents of the tasks that name them. *)
enrichedTaskRows(world, tasks) ==
  RowsForTasks(tasks, {s \in world : s.kind = "service"
                                     /\ \E e \in tasks : e.service # "" /\ e.task.serviceID = s.id})

Plain(r) == <<r.name, "">>
RowsForServices(world, services) ==
  {Row(s, Plain(s), StateOf(world, s, AllTasks(world)), s.image, IF s.mode = "replicated" THEN s.want ELSE 0,
       Running(s, AllTasks(world))) : s \in services}
RowsForNodes(nodes) == {Row(n, Plain(n), DeriveNodeState(n), n.role, 0, 0) : n \in nodes}
RowsForStacks(world, stacks) ==
  {Row(k, Plain(k), "", "", Cardinality({s \in world : s.kind = "service" /\ s.stack = k.name}), 0)
     : k \in stacks}
(* RowsForConfigs, RowsForSecrets, RowsForNetworks, RowsForVolumes *)
RowsForStored(records) == {Row(r, Plain(r), "", r.driver, 0, 0) : r \in records}

(* rowsFor, of what lookupResource lists *)
rowsFor(world, kind, reads) ==
  LET listed == filter(world, kind, reads)
  IN  CASE kind = "service" -> RowsForServices(world, listed)
        [] kind = "node" -> RowsForNodes(listed)
        [] kind = "task" -> RowsForTasks(readableEnrichedTasks(world, AllTasks(world), reads),
                                         filter(world, "service", reads))
        [] kind = "stack" -> RowsForStacks(world, listed)
        [] OTHER -> RowsForStored(listed)

(* SortRows: by name, which the model keeps as a rank. *)
SortRows(rows) ==
  [i \in 1..Cardinality(rows) |->
     CHOOSE r \in rows : Cardinality({x \in rows : x.order < r.order}) = i - 1]

(* labelsFor; none are looked up for who does not filter by them. *)
labelsFor(listed) == [id \in {r.id : r \in listed} |-> (CHOOSE r \in listed : r.id = id).label]

(* filterRows; a filter of {} is none, and a node or an image is looked    *)
(* for in what the row says besides.                                       *)
NoFilter == [query |-> {}, state |-> {}, stack |-> {}, detail |-> {}, label |-> {}]
filterRows(rows, f, labels) ==
  {r \in rows : /\ f.query # {} => r.name[1] \in f.query
                /\ f.state # {} => r.state \in f.state
                /\ f.stack # {} => r.stack \in f.stack
                /\ f.detail # {} => r.detail \in f.detail
                /\ f.label # {} => labels[r.id] \in f.label}

(* paginate *)
defaultListLimit == 200
paginate(rows, offset, limit) ==
  LET from == Min({Max({offset, 0}), Len(rows)})
      size == IF limit <= 0 \/ limit > defaultListLimit THEN defaultListLimit ELSE limit
  IN  SubSeq(rows, from + 1, Min({from + size, Len(rows)}))

(* A record as a list sends it raw: a task with its parents, a network     *)
(* with its figure.                                                        *)
ListedRecord(world, figures, r, reads) ==
  CASE r.kind = "task" -> EnrichTask(world, r, reads)
    [] r.kind = "network" -> [of |-> r, addresses |-> NetworkAddressesOf(figures, r.id)]
    [] OTHER -> RedactSecret(r)

(* toolFind of a type: of the configs or secrets the versions asked for,   *)
(* then those that pass the filters; each row of the page is placed among  *)
(* its versions, and its record is sent too if raw ones are asked for.     *)
toolFind(world, figures, kind, f, versions, offset, limit, reads) ==
  LET sel == Vs!ParseVersionSelection(versions, "", f.query # {} \/ f.label # {})
      listed == filter(world, kind, reads)
      uses == UsesOf(world)
      selected == IF kind \in Versioned THEN ToSet(Vs!SelectVersions(listed, uses, reads, sel)) ELSE listed
      chosen == {row \in rowsFor(world, kind, reads) : \E r \in selected : r.id = row.id}
      rows == filterRows(chosen, f, labelsFor(listed))
      page == paginate(SortRows(rows), offset, limit)
      record(row) == CHOOSE r \in listed : r.id = row.id
      placed(row) == IF kind \in Versioned THEN row @@ [version |-> Vs!Fields(listed, uses, reads, record(row))]
                     ELSE row
  IN  IF sel.of = "unknown" THEN [code |-> "unknown versions"]
      ELSE [code |-> "200", items |-> [i \in DOMAIN page |-> placed(page[i])], total |-> Cardinality(rows),
            raw |-> {ListedRecord(world, figures, record(page[i]), reads) : i \in DOMAIN page}]

(* versionedListing, of cetacean://configs and the other lists: what find  *)
(* lists by default.                                                       *)
readListing(world, figures, kind, reads) ==
  LET listed == filter(world, kind, reads)
      newest == [all |-> FALSE, of |-> ""]
      uses == UsesOf(world)
      shown == IF kind \in Versioned THEN ToSet(Vs!SelectVersions(listed, uses, reads, newest)) ELSE listed
      fields(r) == IF kind \in Versioned THEN Vs!Fields(listed, uses, reads, r) ELSE <<>>
  IN  {[id |-> r.id, record |-> ListedRecord(world, figures, r, reads), version |-> fields(r)] : r \in shown}

(* completeResourceNames *)
maxCompletionValues == 100
completeResourceNames(world, kind, typed, reads) ==
  LET values == {r.name : r \in filterRows(rowsFor(world, kind, reads), [NoFilter EXCEPT !.query = typed], <<>>)}
                \ {<<"", "">>}
  IN  [values |-> values, total |-> Cardinality(values), more |-> Cardinality(values) > maxCompletionValues]

----------------------------------------------------------------------------
(* Search *)

searchLimit(limit) == IF limit <= 0 \/ limit > 1000 THEN 1000 ELSE limit

MatchedByAnyParent(world, t, q, reads) ==
  NameOf(Get(world, "service", t.serviceID)) \in q \/ t.image \in q

(* A task is found by its service's name, if that is readable, or by its   *)
(* image.                                                                  *)
taskMatches(world, t, q, reads) ==
  NameOf(readable(world, "service", t.serviceID, reads)) \in q \/ t.image \in q

Matches(world, r, q, reads) ==
  CASE r.kind = "service" -> {r.name, r.image} \cap q # {}
    [] r.kind = "task" -> taskMatches(world, r, q, reads)
    [] OTHER -> r.name \in q

(* What Search builds of a hit. *)
Result(world, r, reads) ==
  [id |-> r.id, type |-> r.kind,
   name |-> IF r.kind = "task" THEN TaskName(r, readable(world, "service", r.serviceID, reads))
            ELSE <<r.name, "">>,
   state |-> CASE r.kind = "service" -> StateOf(world, r, AllTasks(world))
               [] r.kind = "node" -> DeriveNodeState(r)
               [] r.kind = "task" -> r.state [] OTHER -> ""]

(* searchType and readable: the hits are those the caller may read, all    *)
(* counted, and sent as far as the limit goes.  The cache is walked in no  *)
(* order, so which are sent is any choice of that many.                    *)
searchType(world, kind, q, limit, reads) ==
  LET hits == {r \in world : r.kind = kind /\ Matches(world, r, q, reads) /\ Readable(r, reads)}
      sent == Min({Cardinality(hits), searchLimit(limit)})
  IN  [results |-> {{Result(world, r, reads) : r \in some} : some \in kSubset(sent, hits)},
       count |-> Cardinality(hits)]

searchedKinds == {"service", "stack", "node", "task", "config", "secret", "network", "volume"}

(* Search: the types something is found of, and how much in all. *)
Search(world, q, limit, reads) ==
  LET all == [k \in searchedKinds |-> searchType(world, k, q, limit, reads)]
      found == {k \in searchedKinds : all[k].count > 0}
  IN  [hits |-> [k \in found |-> all[k]], total |-> MapThenSumSet(LAMBDA k : all[k].count, found)]

(* HandleSearch and findAcrossTypes; -1 is a limit that is not given or    *)
(* does not parse.                                                         *)
HandleSearch(world, q, limit, reads, granted) ==
  IF ~ granted THEN [code |-> "ACL001"]
  ELSE IF q = {} THEN [code |-> "SEA001"]
  ELSE Search(world, q, IF limit = -1 THEN 3 ELSE limit, reads) @@ [code |-> "200"]
findAcrossTypes(world, q, limit, reads) ==
  IF q = {} THEN [code |-> "query required"]
  ELSE Search(world, q, IF limit < 0 THEN 3 ELSE limit, reads) @@ [code |-> "200"]

----------------------------------------------------------------------------
(* How a text matches, in letters *)

Separators == {"_", "-"}
Includes(s, q) == \E i \in 0..(Len(s) - Len(q)) : SubSeq(s, i + 1, i + Len(q)) = q

stripSeparators(q) == SelectSeq(q, LAMBDA c : c \notin Separators)

(* appendSegmentBounds: the runs between separators, as <<first, last>>. *)
appendSegmentBounds(s) ==
  LET starts == {i \in DOMAIN s : s[i] \notin Separators /\ (i = 1 \/ s[i - 1] \in Separators)}
      last(i) == Max({j \in i..Len(s) : \A k \in i..j : s[k] \notin Separators})
  IN  [n \in 1..Cardinality(starts) |->
         LET i == CHOOSE i \in starts : Cardinality({x \in starts : x < i}) = n - 1 IN <<i, last(i)>>]

GreedyWalk(query, target, bounds) ==
  LET walk[k \in (1..Len(query) + 1) \X (1..Len(bounds) + 1)] ==
        LET common(s) == Max({n \in 0..(bounds[s][2] - bounds[s][1] + 1) :
                                /\ k[1] + n - 1 <= Len(query)
                                /\ \A i \in 0..n - 1 : query[k[1] + i] = target[bounds[s][1] + i]})
        IN  \/ k[1] > Len(query)
            \/ \E s \in k[2]..Len(bounds) : common(s) > 0 /\ walk[<<k[1] + common(s), s + 1>>]
  IN  walk[<<1, 1>>]

(* segmentWalk: from a letter of the query and a segment, some segment     *)
(* from there on takes one or more letters, and the rest goes on after it. *)
(* The memo keeps what each such pair answered.                            *)
segmentWalk(query, target, bounds) ==
  LET walk[k \in (1..Len(query) + 1) \X (1..Len(bounds) + 1)] ==
        LET common(s) == Max({n \in 0..(bounds[s][2] - bounds[s][1] + 1) :
                                /\ k[1] + n - 1 <= Len(query)
                                /\ \A i \in 0..n - 1 : query[k[1] + i] = target[bounds[s][1] + i]})
        IN  \/ k[1] > Len(query)
            \/ \E s \in k[2]..Len(bounds) : \E take \in 1..common(s) : walk[<<k[1] + take, s + 1>>]
  IN  walk[<<1, 1>>]

(* SegmentPrefixMatch *)
SegmentPrefixMatch(target, query) ==
  LET letters == stripSeparators(query)
      bounds == appendSegmentBounds(target)
  IN  letters = <<>> \/ (Len(bounds) > 1 /\ segmentWalk(letters, target, bounds))

(* ContainsFold; both sides are lowered already. *)
ContainsFold(s, q) == Includes(s, q) \/ ((\E i \in DOMAIN s : s[i] \in Separators) /\ SegmentPrefixMatch(s, q))

----------------------------------------------------------------------------
(* One record over HTTP *)

(* GetStackDetail: every record labelled with the stack. *)
GetStackDetail(world, k) ==
  {RedactSecret(r) : r \in {x \in world : x.stack = k.name /\ x.kind \notin {"task", "node", "stack"}}}

Users(world, r, reads) == filterServiceRefs(ServicesUsing(world, r), reads)
(* ConfigVersion, SecretVersion and Detail: the version among those the    *)
(* caller may read, and how many services it may read use it.              *)
VersionDetail(world, r, reads) ==
  <<Vs!IndexedVersion(world, UsesOf(world), reads, r), Cardinality(Users(world, r, reads))>>

(* serviceRepresentation, configBody and so on: the record itself, and     *)
(* what belongs to it.                                                     *)
representation(world, figures, r, reads) ==
  CASE r.kind = "task" -> EnrichTask(world, r, reads)
    [] r.kind = "stack" -> [of |-> r, members |-> GetStackDetail(world, r)]
    [] r.kind \in Versioned
         -> [of |-> RedactSecret(r), users |-> Users(world, r, reads), version |-> VersionDetail(world, r, reads)]
    [] r.kind = "network"
         -> [of |-> r, users |-> Users(world, r, reads), addresses |-> NetworkAddressesOf(figures, r.id)]
    [] r.kind = "volume" -> [of |-> r, users |-> Users(world, r, reads)]
    [] OTHER -> [of |-> r]

(* lookupACL *)
lookupACL(world, kind, id, reads) ==
  LET found == Get(world, kind, id)
  IN  IF found = {} THEN Rq!notFoundCodes[kind]
      ELSE IF ~ Readable(CHOOSE r \in found : TRUE, reads) THEN "ACL001" ELSE "200"

(* representationOr404 and the HandleGet of each kind *)
HandleGet(world, figures, kind, id, reads) ==
  LET code == lookupACL(world, kind, id, reads)
  IN  IF code # "200" THEN [code |-> code]
      ELSE [code |-> code,
            body |-> representation(world, figures, CHOOSE r \in Get(world, kind, id) : TRUE, reads)]

(* HandleServiceTasks sends every task of a service that is readable,      *)
(* HandleNodeTasks those of a node that are themselves.                    *)
HandleServiceTasks(world, id, reads) ==
  LET s == Get(world, "service", id)
  IN  IF s = {} THEN [code |-> Rq!notFoundCodes["service"]]
      ELSE IF readable(world, "service", id, reads) = {} THEN [code |-> "ACL001"]
      ELSE [code |-> "200", tasks |-> EnrichTasks(world, {t \in AllTasks(world) : t.serviceID = id}, reads)]
HandleNodeTasks(world, id, reads) ==
  LET n == Get(world, "node", id)
  IN  IF n = {} THEN [code |-> Rq!notFoundCodes["node"]]
      ELSE IF readable(world, "node", id, reads) = {} THEN [code |-> "ACL001"]
      ELSE [code |-> "200",
            tasks |-> EnrichTasks(world, {t \in filter(world, "task", reads) : t.node = id}, reads)]

----------------------------------------------------------------------------
(* One record as a digest *)

Related(id, name, type, relation) ==
  [id |-> id, name |-> IF name = "" THEN id ELSE name, type |-> type, relation |-> relation]

NetworksRegardless(world, svc, reads) == {n \in world : n.kind = "network" /\ n.id \in svc.nets}

(* readableAttachedNetworks *)
readableAttachedNetworks(world, svc, reads) ==
  {n \in filter(world, "network", reads) : n.id \in svc.nets}

(* ServiceDigest with serviceRelated; of the failures the newest five are  *)
(* sent, more than the model has.                                          *)
ServiceDigest(world, svc, reads) ==
  LET tasks == {t \in TasksOf(world, svc) : Readable(t, reads)}
      networks == readableAttachedNetworks(world, svc, reads)
  IN  [of |-> svc, state |-> StateOf(world, svc, tasks),
       failures |-> {t.id : t \in {x \in tasks : x.state = "failed"}},
       related |-> {Related(n, NameOf({w \in networks : w.id = n}), "network", "attached-to") : n \in svc.nets}
                   \cup {Related(u[2], "", "volume", "mounts") : u \in {x \in svc.uses : x[1] = "volume"}}]

(* NodeDigest: what runs there, under its name or its id. *)
NodeDigest(world, n, reads) ==
  LET tasks == {t \in filter(world, "task", reads) : t.node = n.id /\ TaskIsLive(t)}
  IN  [of |-> n, state |-> DeriveNodeState(n), failures |-> {},
       related |-> {Related(t.serviceID, NameOf(readable(world, "service", t.serviceID, reads)), "service",
                            "runs") : t \in tasks}]

(* TaskDigest *)
TaskDigest(world, t, reads) ==
  LET service == readable(world, "service", t.serviceID, reads)
  IN  [of |-> t, name |-> TaskName(t, service), state |-> t.state, failures |-> {},
       related |-> {Related(t.serviceID, NameOf(service), "service", "instance-of"),
                    Related(t.node, NameOf(readable(world, "node", t.node, reads)), "node", "runs-on")}]

(* StackDigest: the worst state among its services, and its members. *)
stackStateRank ==
  [failed |-> 0, updating |-> 1, pending |-> 2, flapping |-> 3, running |-> 4, completed |-> 4]
StackDigest(world, k, reads) ==
  LET members == GetStackDetail(world, k)
      services == {s \in members : s.kind = "service"}
      tasks == filter(world, "task", reads)
      states == {StateOf(world, s, tasks) : s \in services}
      worst == {s \in states : \A x \in states : stackStateRank[s] <= stackStateRank[x]}
  IN  [of |-> k, failures |-> {},
       state |-> IF services = {} \/ worst \cap {"running", "completed"} # {} THEN "running"
                 ELSE CHOOSE s \in worst : TRUE,
       running |-> MapThenSumSet(LAMBDA s : Running(s, tasks), services),
       related |-> {Related(r.id, r.name, r.kind, "contains") : r \in members}]

(* usersRelated *)
usersRelated(users, relation) ==
  {Related(u.id, u.name, "service", IF u.rollback THEN "used-by-rollback" ELSE relation) : u \in users}
StoredDigest(r, details, related) ==
  [of |-> RedactSecret(r), state |-> "", failures |-> {}, details |-> details, related |-> related]

(* ConfigDigest and SecretDigest, withVersion: the version and the count   *)
(* of users are among the details.                                         *)
VersionedDigest(world, r, reads) ==
  StoredDigest(r, [version |-> VersionDetail(world, r, reads)], usersRelated(Users(world, r, reads), "used-by"))
(* NetworkDigest; the figure counts everyone's addresses. *)
NetworkDigest(world, figures, n, reads) ==
  StoredDigest(n, [addresses |-> NetworkAddressesOf(figures, n.id)],
               usersRelated(Users(world, n, reads), "attached-by"))
VolumeDigest(world, v, reads) ==
  StoredDigest(v, <<>>, usersRelated(Users(world, v, reads), "mounted-by"))

digestOf(world, figures, r, reads) ==
  CASE r.kind = "service" -> ServiceDigest(world, r, reads)
    [] r.kind = "node" -> NodeDigest(world, r, reads)
    [] r.kind = "task" -> TaskDigest(world, r, reads)
    [] r.kind = "stack" -> StackDigest(world, r, reads)
    [] r.kind \in Versioned -> VersionedDigest(world, r, reads)
    [] r.kind = "network" -> NetworkDigest(world, figures, r, reads)
    [] r.kind = "volume" -> VolumeDigest(world, r, reads)

(* lookupResource of one record, with visibleAmbiguity, resolved and       *)
(* checkReadable: what may not be read is answered as what is not there.   *)
NotFound == [code |-> "not found"]
lookupResource(world, kind, key, reads) ==
  LET found == Rq!LookupAs(world, kind, key, reads)
  IN  IF found.ambiguous /\ (kind \in {"node", "network"} => <<kind, key>> \in reads)
      THEN [code |-> "ambiguous"]
      ELSE IF ~ found.found \/ ~ Readable(found.record, reads) THEN NotFound
      ELSE [code |-> "200", record |-> found.record]

(* toolDescribe and a resource read *)
toolDescribe(world, figures, kind, key, reads) ==
  LET found == lookupResource(world, kind, key, reads)
  IN  IF found.code # "200" THEN found
      ELSE [code |-> "200", digest |-> digestOf(world, figures, found.record, reads)]
=============================================================================
