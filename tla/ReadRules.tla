----------------------------- MODULE ReadRules -----------------------------
(***************************************************************************)
(* The questions about what a caller is told and what it reads in pages,   *)
(* asked one at a time.  The rules themselves are in Access,               *)
(* Subscriptions, Versions, Annotations, History, Lists and Logs.          *)
(***************************************************************************)
EXTENDS Integers, Sequences, FiniteSets, Bags, FiniteSetsExt, SequencesExt, Functions, TLC

CONSTANTS   \* the limits on reading logs, as in Logs
  logResumeTail, defaultLogLimit, maxLogLimit, defaultLogTail, maxLogTail, scopedTailPerService,
  maxScopedServices, Widening

ASSUME LimitsAssumption ==
  {logResumeTail, defaultLogLimit, maxLogLimit, defaultLogTail, maxLogTail, scopedTailPerService,
   maxScopedServices, Widening} \subseteq Nat \ {0}

VARIABLE asked   \* the question, and first what it will be about

Rq == INSTANCE Requests
Acl == INSTANCE Access
Sb == INSTANCE Subscriptions
Vs == INSTANCE Versions
An == INSTANCE Annotations
Hi == INSTANCE History
Ls == INSTANCE Lists
Lg == INSTANCE Logs

----------------------------------------------------------------------------
(* Who asks *)

Everything == {<<"*">>}
Grant(expressions, permissions) ==
  [resources |-> expressions, audience |-> {<<"user", {"u"}>>}, permissions |-> permissions]
Identity == [subject |-> "u", email |-> "e", groups |-> {"g"}, granted |-> <<>>, token |-> FALSE]
Enforced(policy) ==
  [enabled |-> TRUE, policy |-> policy, claims |-> {"sub", "email"}, source |-> FALSE]

(* The view of the cache access control takes: a task's service, and the   *)
(* stack a record is labelled with.                                        *)
ResolverOf(world, names) ==
  LET the(records) == IF records = {} THEN Rq!NoRecord ELSE CHOOSE r \in records : TRUE
  IN  [service |-> [n \in names |-> the({r \in world : r.kind = "task" /\ r.id = n}).service],
       stack |-> [res \in Acl!validResourceTypes \X names |->
                    the({r \in world : Rq!Resource(r) = res}).stack]]

----------------------------------------------------------------------------
(* A small cluster *)

Record(kind, id, name, stack) ==
  [kind |-> kind, id |-> id, name |-> name, stack |-> stack, service |-> "", serviceID |-> "",
   node |-> "", nets |-> {}, counted |-> FALSE, ingress |-> FALSE, declared |-> "", stem |-> "",
   created |-> 0, order |-> 0]
TheService(stack) == Record("service", "s1", "web", stack)
TheNode == Record("node", "d1", "host", "")
TheTask(service, stack) ==
  [Record("task", "t1", "web.1", stack) EXCEPT !.service = service, !.serviceID = "s1", !.node = "d1",
                                               !.nets = {"w1"}]
TheNetwork(stack, kind) ==
  [Record("network", "w1", "net", stack) EXCEPT !.counted = kind = "counted", !.ingress = kind = "ingress"]
TheConfig(n, stack) ==
  [Record("config", <<"c1", "c2">>[n], <<"cfg_v1", "cfg_v2">>[n], stack) EXCEPT
     !.stem = "cfg", !.created = n, !.order = n]
TheStack == Record("stack", "k1", "k1", "")

Cluster(stack, network) ==
  {TheService(stack), TheNode, TheTask("web", stack), TheNetwork(stack, network),
   TheConfig(1, stack), TheConfig(2, stack)} \cup (IF stack = "" THEN {} ELSE {TheStack})
ClusterNames == {"s1", "web", "d1", "host", "t1", "web.1", "w1", "net", "c1", "c2", "cfg_v1", "cfg_v2",
                 "k1", ""}

(* What a caller holding these grants may read in a world, of the records  *)
(* of a cluster.                                                           *)
ReadsIn(world, cluster, grants) ==
  LET resolver == ResolverOf(world, ClusterNames)
  IN  {res \in {Rq!Resource(r) : r \in cluster} :
         Acl!Can(Enforced(grants), resolver, Identity, "read", res[1], res[2])}

----------------------------------------------------------------------------
(* A change of the cluster, and who listens *)

ReadGrants ==
  {<<Grant({e}, {"read"})>> : e \in {<<"*">>, <<"service", {"web"}>>, <<"stack", {"k1"}>>, <<"task", {"t1"}>>,
                                     <<"node", {"host"}>>, <<"network", {"net"}>>, <<"config", {"cfg_v1"}>>}}
  \cup {<<Grant({<<"service", {"web"}>>, <<"node", {"host"}>>}, {"read"})>>,
        <<Grant({<<"config", {"cfg_v1", "cfg_v2"}>>}, {"read"})>>, <<>>}

URIs == {<<r.kind, n>> : r \in {TheService(""), TheNode, TheNetwork("", ""), TheStack, TheConfig(2, "")},
                         n \in {"s1", "web", "d1", "host", "w1", "net", "k1", "c2", "cfg_v2"}}
NamedBy(uri) == {r \in Cluster("k1", "") : r.kind = uri[1] /\ uri[2] \in {r.id, r.name}}
Named == {uri \in URIs : NamedBy(uri) # {}} \cup {<<"task", "t1">>, <<"task", "web.1">>}

AskEvent(kind) ==
  \E stack \in {"", "k1"}, network \in {"counted", "ingress"}, uri \in Named, grants \in ReadGrants,
     action \in {"update", "remove"}, gone \in BOOLEAN, life \in {"listens", "again", "beside", "left"} :
    /\ (gone => kind = "task") /\ (kind = "stack" => stack = "k1")
    /\ asked' = [about |-> "event", kind |-> kind, stack |-> stack, network |-> network, uri |-> uri,
                 grants |-> grants, action |-> action, gone |-> gone, life |-> life]

Changed(ask, world) == CHOOSE r \in world : r.kind = ask.kind /\ r.id # "c2"
Before(ask) ==
  LET all == Cluster(ask.stack, ask.network)
  IN  IF ~ ask.gone THEN all
      ELSE {r \in all : r.kind \notin {"service", "task", "stack"}} \cup {TheTask("", ask.stack)}
After(ask) ==
  IF ask.action = "remove" THEN Before(ask) \ {Changed(ask, Before(ask))} ELSE Before(ask)

(* The manager after the sessions came, subscribed anew, and left.         *)
Listening(ask, reads) ==
  LET world == Before(ask)
      new == Sb!NewNotificationManager
      one == Sb!Listen(new, "a", <<ask.uri>>, reads, TRUE, world)
      other == <<"network", "net">>
  IN  CASE ask.life = "listens" -> one
        [] ask.life = "again"
             -> Sb!Listen(Sb!Listen(new, "a", <<ask.uri, other>>, reads, TRUE, {}), "a",
                          <<ask.uri, other>>, reads, TRUE, world)
        [] ask.life = "beside" -> Sb!RemoveSession(Sb!Listen(one, "b", <<ask.uri>>, {}, FALSE, world), "b")
        [] ask.life = "left"
             -> Sb!Unsubscribe(Sb!Listen(new, "a", <<other, ask.uri>>, reads, TRUE, world), "a",
                               IF ask.uri = other THEN <<"node", "host">> ELSE other)

(* A change tells who asked about the record, or about what holds it: its  *)
(* service, node and stack if it is a task, its stack, and the networks    *)
(* whose addresses it may take.                                            *)
Holds(target, r, world) ==
  LET held == {x \in world : x.kind = target[1] /\ target[2] \in {x.id, x.name}}
  IN  \E x \in held : \/ x.id = r.id
                      \/ r.kind = "task" /\ x.id \in {r.serviceID, r.node}
                      \/ x.kind = "stack" /\ r.stack = x.name /\ r.kind # "node"
Addressed(target, r, world) ==
  \E x \in world : /\ x.kind = "network" /\ target \in {<<"network", x.id>>, <<"network", x.name>>}
                   /\ \/ r.kind = "task" /\ x.id \in r.nets
                      \/ r.kind = "service" /\ x.counted
                      \/ r.kind = "node" /\ x.ingress

(* Of one change: who is told, and what the index and its counts are. *)
TellingSound(r, belonged, before, after, mayRead, reads, told) ==
  /\ told => \/ Rq!Resource(r) \in belonged
             \/ Addressed(asked.uri, r, after) /\ Sb!targetReadable(asked.uri, reads, after)
  /\ /\ Sb!targetReadable(asked.uri, mayRead, before)
     /\ Rq!Resource(r) \in mayRead /\ Holds(asked.uri, r, before)
     => told
  /\ Addressed(asked.uri, r, after) /\ Sb!targetReadable(asked.uri, reads, after) => told
ListsTold(nm, r, belonged, event) ==
  Sb!IsListChange(event) /\ Rq!Resource(r) \in belonged =>
    "a" \in Sb!listChangedTargets(nm, event, [s \in DOMAIN nm.sessions |->
              {t \in Acl!validResourceTypes : Acl!TypeAccess(Enforced(asked.grants), Identity, "read", t)}])
IndexSound(nm) ==
  LET entries == UNION {{s} \X DOMAIN nm.sessions[s].uris : s \in DOMAIN nm.sessions}
      sub(e) == nm.sessions[e[1]].uris[e[2]]
  IN  /\ nm.index = UNION {Sb!Keys(sub(e)) \X {e} : e \in entries}
      /\ nm.networks = FoldLeft(LAMBDA b, e : b (+) Sb!networkKeys(sub(e)), EmptyBag, SetToSeq(entries))
      /\ nm.versioned = Cardinality({e \in entries : Sb!isVersioned(sub(e))})

(* Who listens for a record it may read is told of every change that shows *)
(* there, and nobody of a change of a record it may not read, though a     *)
(* removal is told after the cache forgot what the record belonged to, and *)
(* though a name is looked up when it is subscribed to, not when it is     *)
(* told; who could read what left a list is told that the list changed;    *)
(* and the index and its counts are what the sessions hold.                *)
SubscribersTold ==
  asked.about = "event" =>
    \A all \in {Cluster(asked.stack, asked.network)}, before \in {Before(asked)}, after \in {After(asked)} :
      \A mayRead \in {ReadsIn(before, all, asked.grants)}, reads \in {ReadsIn(after, all, asked.grants)},
         belonged \in {ReadsIn(all, all, asked.grants)} :
        \A nm \in {Listening(asked, mayRead)} :
          LET r == Changed(asked, before)
              event == Sb!EventOf(r, r, asked.action, IF asked.gone THEN all ELSE after)
              at == [s \in DOMAIN nm.sessions |-> [nm.sessions[s] EXCEPT !.reads = reads]]
              told == <<"a", asked.uri>> \in Sb!dispatchCacheEvent([nm EXCEPT !.sessions = at], event, after)
          IN  /\ TellingSound(r, belonged, before, after, mayRead, reads, told)
              /\ ListsTold(nm, r, belonged, event)
              /\ IndexSound(nm)

----------------------------------------------------------------------------
(* Versions of configs *)

Item(n, stem, declared, created) ==
  [Record("config", <<"c1", "c2", "c3">>[n], <<"n1", "n2", "n3">>[n], "") EXCEPT
     !.stem = stem, !.declared = declared, !.created = created, !.order = n]
Use(of, by, rollback) == [of |-> of, by |-> by, rollback |-> rollback]

AskVersions(stem) ==
  \E stem2 \in {"x", "y"}, stem3 \in {"x", "y"}, declared \in {"", "x"}, created \in {1, 2},
     readable \in SUBSET {"n1", "n2", "n3"}, services \in SUBSET {"web", "db"}, to \in {"x", "y", "gone"},
     uses \in {{}, {Use("c1", "web", FALSE)}, {Use("c1", "web", TRUE), Use("c2", "db", FALSE)},
               {Use("c1", "web", FALSE), Use("c2", "web", FALSE), Use("c3", "db", TRUE)}} :
    asked' = [about |-> "versions", to |-> to, uses |-> uses,
              items |-> {Item(1, stem, "", 1), Item(2, stem2, declared, created), Item(3, stem3, "", 2)},
              reads |-> ({"config"} \X readable) \cup ({"service"} \X services)]

(* Of the versions a caller may read, a list shows or counts each, once;   *)
(* all of them are listed of whichever is asked for; the record itself     *)
(* says of its versions what the list says; and when one of them comes,    *)
(* goes or changes what it is a version of, every record that then answers *)
(* differently is among those the change is said to touch.                 *)
VersionsCounted ==
  asked.about = "versions" =>
    LET uses == asked.uses
        reads == asked.reads
        mine == {x \in asked.items : <<"config", x.name>> \in reads}
        version(x) == Vs!Version(mine, uses, reads, x)
        listed == ToSet(Vs!SelectVersions(mine, uses, reads, Vs!ParseVersionSelection("", "", FALSE)))
        counted == MapThenSumSet(LAMBDA x : version(x).older, listed)
        was == CHOOSE x \in asked.items : x.id = "c2"
        now == [was EXCEPT !.stem = IF asked.to = "gone" THEN @ ELSE asked.to]
        then == (asked.items \ {was}) \cup (IF asked.to = "gone" THEN {} ELSE {now})
    IN  /\ Cardinality(listed) + counted = Cardinality(mine)
        /\ \A x \in mine :
             LET others == Vs!SelectVersions(mine, uses, reads, Vs!ParseVersionSelection("all", x.id, FALSE))
             IN  /\ x \in ToSet(others) /\ version(Head(others)).newest
                 /\ \A y \in mine : y \in ToSet(others) <=> y = x \/ (version(y).of = version(x).of
                                                                     /\ version(x).of # <<>>)
                 /\ Vs!IndexedVersion(asked.items, uses, reads, x) = version(x)
        /\ \A x \in then \ {now} :
             Vs!IndexedVersion(asked.items, uses, reads, x) # Vs!IndexedVersion(then, uses, reads, x)
               => x \in Vs!digestsTouchedBy(then, now, was)

----------------------------------------------------------------------------
(* Annotations *)

AboutService(stack) == [type |-> "service", id |-> "s1", name |-> "web", service |-> "web", stack |-> stack]
AboutNode == [type |-> "node", id |-> "d1", name |-> "host", service |-> "", stack |-> ""]
AboutNone == [type |-> "service", id |-> "s0", name |-> "old", service |-> "old", stack |-> "k1"]
Note(version, resources) ==
  [id |-> 1, version |-> version, text |-> "said", at |-> 3, until |-> 0, tags |-> "t1",
   resources |-> resources, actor |-> [subject |-> "u", provider |-> "oidc"], editor |-> ""]
Subjects == {<<>>, <<AboutService("k1")>>, <<AboutNode>>, <<AboutNone, AboutNode>>}

Keep == [text |-> "keep", tags |-> "keep", at |-> 0, until |-> 0, named |-> FALSE, resources |-> <<>>]
Ref(type, id) == [type |-> type, id |-> id]
Patches ==
  {Keep, [Keep EXCEPT !.until = 2], [Keep EXCEPT !.until = 9]}
  \cup {[Keep EXCEPT !.tags = t] : t \in {"t2", "twice"}}
  \cup {[Keep EXCEPT !.named = TRUE, !.resources = refs] :
           refs \in {<<>>, <<Ref("service", "web")>>, <<Ref("service", "s1"), Ref("service", "web")>>,
                     <<Ref("service", "old"), Ref("node", "host")>>, <<Ref("task", "t1")>>}}
NoteGrants ==
  {<<>>, <<Grant(Everything, {"write"})>>, <<Grant(Everything, {"read"})>>}
  \cup {<<Grant({e}, {p})>> : p \in {"read", "write"},
           e \in {<<"service", {"web"}>>, <<"node", {"host"}>>, <<"stack", {"k1"}>>}}
  \cup {<<Grant({<<"service", {"web"}>>}, {"write"}), Grant({<<"node", {"host"}>>}, {"read"})>>}

AskNote(resources) ==
  \E others \in Subjects, moved \in {"still", "moved", "gone"}, patch \in Patches, grants \in NoteGrants,
     who \in {<<"u", "oidc">>, <<"u", "token">>, <<"u", "headers">>, <<"v", "oidc">>}, matches \in {0, 1, 2} :
    /\ moved # "moved" => others = resources
    /\ asked' = [about |-> "note", read |-> Note(1, resources), patch |-> patch, grants |-> grants, who |-> who,
                 matches |-> matches, found |-> CASE moved = "still" -> Note(1, resources)
                                                 [] moved = "moved" -> [Note(2, others) EXCEPT !.tags = "t3"]
                                                 [] OTHER -> An!NoNote]

CallerOf(world, grants, who) ==
  LET resolver == ResolverOf(world, ClusterNames \cup {"old", "s0"})
      may(permission) ==
        {res \in {<<"service", "web">>, <<"service", "old">>, <<"node", "host">>, <<"stack", "k1">>} :
           Acl!Can(Enforced(grants), resolver, Identity, permission, res[1], res[2])}
  IN  [reads |-> may("read"), writes |-> may("write"), anyGrant |-> Acl!HasAnyGrant(Enforced(grants), Identity),
       writesEverything |-> Acl!canEverything(Enforced(grants), Identity, "write"),
       subject |-> who[1], provider |-> who[2]]

(* What may be said of an edit that was asked for, and of its answer. *)
Allowed(caller, found) ==
  /\ found # An!NoNote /\ An!MayRead(caller, found) /\ An!MayEdit(caller, found)
  /\ asked.matches \in {0, found.version}
EditSound(caller, found, answer) ==
  answer.code = "done" =>
    /\ Allowed(caller, found) /\ An!MayRead(caller, answer.note)
    /\ answer.note.actor = found.actor
    /\ asked.patch.tags = "keep" => answer.note.tags = found.tags
    /\ asked.patch.named => An!mayCreate(caller, answer.note.resources)
    /\ ~ asked.patch.named => answer.note.resources = found.resources
HiddenAlike(srv, caller, world, answer, deleted) ==
  ~ An!MayRead(caller, asked.read) =>
    /\ answer = An!Update(srv, caller, An!NoNote, An!NoNote, asked.patch, asked.matches, world)
    /\ deleted = An!Delete(srv, caller, An!NoNote, An!NoNote, asked.matches)
    /\ An!HandleGetAnnotation(caller, asked.read) = An!HandleGetAnnotation(caller, An!NoNote)
    /\ An!readAnnotation(srv, caller, asked.read) = An!readAnnotation(srv, caller, An!NoNote)
CreateSound(caller, answer) ==
  answer.code = "done" => An!MayRead(caller, answer.note) /\ An!MayEdit(caller, answer.note)
WaysAgree(srv, caller, world, said) ==
  LET q == [faults |-> {}, patch |-> asked.patch, matches |-> asked.matches, in |-> said]
  IN  /\ An!HandleCreateAnnotation(q, srv, caller, world)
           = An!writeAnnotationError[An!toolAddAnnotation(q, srv, caller, world)]
      /\ An!HandlePatchAnnotation(q, srv, caller, asked.read, asked.found, world)
           = An!writeAnnotationError[An!toolUpdateAnnotation(q, srv, caller, asked.read, asked.found, world)]
      /\ An!HandleDeleteAnnotation(q, srv, caller, asked.read, asked.found)
           = An!writeAnnotationError[An!toolDeleteAnnotation(q, srv, caller, asked.read, asked.found)]

(* Whoever writes an annotation between an editor's reading and storing    *)
(* it, what is stored replaces the version that editor was allowed and     *)
(* asked to replace, keeps what the patch leaves out, names nothing the    *)
(* editor may not write and stays readable to it; a note that cannot be    *)
(* read is answered like one that is not there; REST and MCP answer alike. *)
NotesGuarded ==
  asked.about = "note" =>
    LET world == Cluster("k1", "")
        srv == [on |-> TRUE, next |-> 7, count |-> 1]
        said == [text |-> "said", at |-> 3, until |-> 0, tags |-> "t1", resources |-> asked.patch.resources]
    IN  \A caller \in {CallerOf(world, asked.grants, asked.who)} :
          /\ \A answer \in {An!Update(srv, caller, asked.read, asked.found, asked.patch, asked.matches, world)},
                deleted \in {An!Delete(srv, caller, asked.read, asked.found, asked.matches)} :
               /\ EditSound(caller, asked.found, answer)
               /\ deleted = "done" => Allowed(caller, asked.found)
               /\ HiddenAlike(srv, caller, world, answer, deleted)
          /\ CreateSound(caller, An!Create(srv, caller, said, world))
          /\ WaysAgree(srv, caller, world, said)

----------------------------------------------------------------------------
(* The timeline *)

(* Entries: of a service, of a task of it, of its removal, a gap, and an   *)
(* annotation, of a node or of the service's stack.                        *)
Entry(what, n) ==
  LET of(type, id, name) == [Hi!NoEntry EXCEPT !.kind = Hi!KindChange, !.type = type, !.resource = id,
                                               !.name = name, !.action = "update", !.at = n, !.actor = "u"]
  IN  CASE what = "service" -> [of("service", "s1", "web") EXCEPT !.stack = "k1"]
        [] what = "removed" -> [of("service", "s1", "web") EXCEPT !.stack = "k1", !.action = "remove"]
        [] what = "task" -> [of("task", "t1", "t1") EXCEPT !.service = "s1", !.serviceName = "web"]
        [] what = "gap" -> [Hi!NoEntry EXCEPT !.kind = Hi!KindGap, !.at = n - 1, !.until = n]
        [] OTHER -> [Hi!NoEntry EXCEPT !.kind = Hi!KindAnnotation, !.at = n]
NoteAt(what, n) ==
  [Note(n, IF what = "noted" THEN <<AboutNode>> ELSE <<[AboutService("k1") EXCEPT !.type = "stack", !.id = "k1",
                                                                                  !.name = "k1"]>>)
     EXCEPT !.id = n, !.at = n]
Written(whats) ==
  [history |-> FoldLeftDomain(LAMBDA h, i : Hi!AppendEntry(h, Entry(whats[i], i)), Hi!NewHistory(3, 2), whats),
   notes |-> SelectSeq([i \in DOMAIN whats |-> NoteAt(whats[i], i)],
                       LAMBDA x : whats[x.id] \in {"noted", "stacked"})]

AnyScope == [type |-> "", types |-> {}, id |-> "", tasks |-> TRUE, after |-> 0, before |-> 0, search |-> "",
             kinds |-> {}, tags |-> {}, authors |-> {}, matchAny |-> FALSE]
Scopes ==
  {AnyScope, [AnyScope EXCEPT !.type = "service", !.id = "s1"], [AnyScope EXCEPT !.id = "t1"],
   [AnyScope EXCEPT !.type = "service", !.id = "s1", !.tasks = FALSE, !.kinds = {"change"}],
   [AnyScope EXCEPT !.type = "stack", !.id = "k1"], [AnyScope EXCEPT !.id = "s1", !.after = 2],
   [AnyScope EXCEPT !.search = "web"], [AnyScope EXCEPT !.kinds = {"annotation"}]}
Whats == {"service", "task", "removed", "gap", "noted", "stacked"}

AskTimeline(first) ==
  \E second \in Whats \ {"noted", "stacked"}, third, fourth \in Whats, fifth \in {"service", "task", "stacked"}, scope \in Scopes,
     grants \in {<<Grant(Everything, {"read"})>>, <<Grant({<<"task", {"t1"}>>, <<"node", {"host"}>>}, {"read"})>>} :
    asked' = [about |-> "timeline", whats |-> <<first, second, third, fourth, fifth>>, scope |-> scope,
              grants |-> grants]

(* What a scope asks for, of the entries the ring keeps and the notes.     *)
InScope(scope, services, e) ==
  LET about == IF scope.id = "" THEN TRUE
               ELSE CASE scope.type = "stack" -> e.type = "service" /\ e.stack = scope.id
                      [] scope.id = "s1" -> e.resource = "s1" \/ (e.service = "s1" /\ scope.tasks)
                      [] OTHER -> e.resource = scope.id
  IN  e.kind = "gap" \/ about

(* The service's last entry says whether it is still there. *)
Removed(whats) ==
  LET last == SelectLastInSeq(whats, LAMBDA w : w \in {"service", "removed"})
  IN  last # 0 /\ whats[last] = "removed"

TimelineReader(world) ==
  LET task == {<<"task", "t1">>}
      resolver == ResolverOf(world, ClusterNames)
  IN  [CallerOf(world, asked.grants, <<"u", "oidc">>) EXCEPT
         !.reads = @ \cup {res \in task : Acl!Can(Enforced(asked.grants), resolver, Identity, "read", res[1], res[2])}]

Wanted(services, as, i) ==
  LET whats == asked.whats
      scope == asked.scope
      e == [Entry(whats[i], i) EXCEPT !.id = i]
      kept == {j \in DOMAIN whats : j > Len(whats) - 3}
      knows == services # {} \/ \E j \in kept : whats[j] \in {"service", "removed"}
  IN  /\ e.kind \in (IF scope.kinds = {} THEN Hi!Kinds ELSE scope.kinds) /\ (scope.after = 0 \/ i > scope.after)
      /\ IF e.kind = "annotation"
         THEN /\ An!MayRead(as, NoteAt(whats[i], i)) /\ scope.search = ""
              /\ scope.id = "" \/ (whats[i] = "stacked" /\ (scope.id = "s1" => knows) /\ scope.id # "t1")
         ELSE /\ i \in kept /\ InScope(scope, services, e)
              /\ e.kind = "gap" \/ <<e.type, e.name>> \in as.reads
              /\ (scope.search = "web" /\ e.kind # "gap") =>
                   e.name = "web" \/ (e.type = "task" /\ <<"service", "web">> \in as.reads)

PageOf(before, limit) == [before |-> before, limit |-> limit, csv |-> FALSE, scope |-> asked.scope, faults |-> {}]
IdsOf(answer) == [i \in DOMAIN answer.entries |-> answer.entries[i].id]

(* The pages of so many, one after the other. *)
Followed(written, services, as, limit) ==
  LET follow[before \in {0} \cup DOMAIN asked.whats] ==
        LET from(a) == IdsOf(a) \o IF Hi!linkNextTimelinePage(a) = 0 THEN <<>> ELSE follow[Hi!linkNextTimelinePage(a)]
        IN  from(Hi!HandleHistory(PageOf(before, limit), written.history, written.notes, services, as, FALSE))
  IN  follow[0]

(* Whoever pages through a timeline meets every entry and annotation of    *)
(* its scope it may read, once, newest first, though the ring has dropped  *)
(* old entries, an index reaches less far than the ring and leads to slots *)
(* written since, and notes come from another store; and nobody finds a    *)
(* task by the name of a service it may not read (history.go List,         *)
(* annotations.go Timeline, history_handlers.go).                          *)
TimelineComplete ==
  asked.about = "timeline" =>
    \A services \in {IF Removed(asked.whats) THEN {} ELSE {TheService("k1")}}, written \in {Written(asked.whats)} :
      \A as \in {TimelineReader(services \cup (Cluster("k1", "") \ {TheService("k1")}))} :
        LET page(limit) ==
              Hi!HandleHistory(PageOf(0, limit), written.history, written.notes, services, as, FALSE)
            feed == Hi!queryHistoryFeed(PageOf(0, 2), written.history, written.notes, services, as,
                                        Hi!Query(asked.scope, as))
        IN  as.anyGrant =>
              /\ IdsOf(feed) = IdsOf(page(2))
              /\ \A expected \in {SelectSeq(Reverse([i \in DOMAIN asked.whats |-> i]),
                                            LAMBDA i : Wanted(services, as, i))} :
                   /\ IdsOf(page(0)) = expected
                   /\ \A limit \in {1, 2} : Followed(written, services, as, limit) = expected

----------------------------------------------------------------------------
(* A list, asked for and asked for again *)

Row(n, key) == [Item(1, "x", "", n) EXCEPT !.id = n, !.name = n, !.order = n] @@ [key |-> key]
Rows(total) == [n \in 1..total |-> Row(n, n % 2)]
Server(total, generation) == [items |-> Rows(total), generation |-> generation, flapping |-> {}, digests |-> 0]

ListQuery ==
  [limit |-> 0, offset |-> -1, range |-> Ls!NoRange, sort |-> "", dir |-> "asc", search |-> {}, filter |-> "",
   versions |-> "", versioned |-> FALSE, type |-> "json", faults |-> {}, codings |-> [gzip |-> 10],
   uncoded |-> FALSE, ifMatch |-> Ls!NoTags, ifNoneMatch |-> Ls!NoTags, ifRange |-> Ls!NoTags,
   unmodifiedSince |-> 0, modifiedSince |-> 0, query |-> <<>>]
Pagings ==
  {[ListQuery EXCEPT !.limit = n, !.offset = o] : n \in {0, 1, 2, 3}, o \in {-1, 0, 1, 3, 5}}
  \cup {[ListQuery EXCEPT !.range = r] : r \in {<<0, 0>>, <<1, 2>>, <<0, 9>>, <<4, 5>>, <<3, 1>>}}
  \cup {[ListQuery EXCEPT !.limit = 250]}
ListQueries(q) ==
  {q, [q EXCEPT !.faults = {"sort"}], [q EXCEPT !.versioned = TRUE], [q EXCEPT !.type = "csv"]}
  \cup {[q EXCEPT !.sort = "key", !.dir = d] : d \in {"asc", "desc"}}
  \cup {[q EXCEPT !.filter = f, !.search = w] : f \in {"", "odd", "FLT002", "FLT003"}, w \in {{}, {2, 3}}}

(* What happens between the validator and the items, and until the client  *)
(* asks again, perhaps with another coding, for a part of it, or when what *)
(* it may read has changed.                                                *)
AskList(paging) ==
  \E q \in IF paging.limit = 250 THEN {paging} ELSE ListQueries(paging),
     total \in IF paging.limit = 250 THEN {201} ELSE {0, 4},
     reads \in IF paging.limit = 250 THEN {1..201} ELSE {1..4, {1, 3}, {}},
     meanwhile \in {"nothing", "written", "flapping", "image"}, later \in {"nothing", "written", "granted"},
     again \in {"same", "identity", "weak", "range", "match"} :
    /\ meanwhile \in {"flapping", "image"} => later = "nothing"
    /\ asked' =
         [about |-> "list", q |-> [q EXCEPT !.query = <<q.limit, q.offset, q.sort, q.dir, q.search, q.filter>>],
          reads |-> reads, total |-> total, meanwhile |-> meanwhile, later |-> later, again |-> again]

Meanwhile(srv, what) ==
  CASE what = "written" -> [srv EXCEPT !.generation = @ + 1, !.items = Append(@, Row(Len(@) + 1, 1))]
    [] what = "flapping" -> [srv EXCEPT !.flapping = {1}]
    [] what = "image" -> [srv EXCEPT !.digests = @ + 1]
    [] OTHER -> srv

(* The same again, by one that holds the tag it was given. *)
Again(q, tag) ==
  LET tags == [any |-> FALSE, tags |-> {Ls!Candidate(tag, asked.again = "weak")}]
  IN  CASE asked.again = "range" -> [q EXCEPT !.ifRange = tags, !.range = <<1, 1>>]
        [] asked.again = "match" -> [q EXCEPT !.ifMatch = tags, !.ifNoneMatch = tags]
        [] asked.again = "identity" -> [q EXCEPT !.ifNoneMatch = tags, !.codings = <<>>]
        [] OTHER -> [q EXCEPT !.ifNoneMatch = tags]

(* What a list shows, and the items met by following its links. *)
Rendered(q, c, srv) == <<Ls!prepareList(q, c, srv.items).items, srv.flapping, srv.digests>>
Linked(q, caller, srv) ==
  LET follow[offset \in -1..(asked.total + 2)] ==
        LET next(a) == {l[2] : l \in {x \in a.links : x[1] = "next"}}
            from(a) == a.items \o IF next(a) = {} THEN <<>> ELSE follow[CHOOSE n \in next(a) : TRUE]
        IN  from(Ls!handleListOf([q EXCEPT !.range = Ls!NoRange, !.offset = offset, !.type = "json"],
                                 caller, srv, srv))
  IN  follow[-1]

(* What the two answers say of what was shown and what is. *)
StillSo(q, caller, late, then, now, first, second) ==
  LET good == {"200", "206"}
      same == Rendered(q, then, now) = Rendered(q, caller, late)
  IN  /\ second.status = "304" =>
           first.status \in good /\ Ls!handleListOf(q, then, now, now).items = first.items
      /\ \/ second.status = "304" /\ q.type = "json"
         \/ asked.again = "range" /\ first.status \in good /\ second.status = "206"
         \/ /\ asked.again = "match" /\ first.status \in good /\ q.type = "json"
            /\ second.status \in good \cup {"304"}
         => same
ListedOnce(q, caller, late, list) ==
  /\ list.code = "" => Linked(q, caller, late) = list.items
  /\ \A i, j \in DOMAIN list.items : i < j /\ q.sort # "" /\ list.items[i].key = list.items[j].key
                                     => list.items[i].order < list.items[j].order
Unseen(q, caller, early, late) ==
  LET seen(srv) == [srv EXCEPT !.items = Ls!readable(@, caller)]
  IN  Ls!handleListOf(q, caller, seen(early), seen(late))

(* What a client has of a list is what it is told is still so: a tag it    *)
(* holds is confirmed only while asking without it would bring the same,   *)
(* though a write lands between the validator and the items, somebody's    *)
(* grants change, or another coding is asked for; a part is only ever      *)
(* added to the list it is a part of; following the links, each item of    *)
(* the list is met once, in its order; and what a caller may not read      *)
(* changes nothing it is answered.                                         *)
ListsHonest ==
  asked.about = "list" =>
    LET q == asked.q
        caller == [reads |-> asked.reads, fingerprint |-> 1]
        early == Server(asked.total, 1)
        then == IF asked.later = "granted" THEN [reads |-> asked.reads \cup {1, 4}, fingerprint |-> 2] ELSE caller
    IN  \A late \in {Meanwhile(early, asked.meanwhile)} :
          LET now == Meanwhile(late, IF asked.later = "written" THEN "written" ELSE "nothing")
          IN  /\ \A first \in {Ls!handleListOf(q, caller, early, late)} :
                   /\ StillSo(q, caller, late, then, now, first,
                              Ls!handleListOf(Again(q, first.tag), then, now, now))
                   /\ Unseen(q, caller, early, late) = first
              /\ ListedOnce(q, caller, late, Ls!prepareList(q, caller, late.items))

----------------------------------------------------------------------------
(* Output of two tasks *)

(* What the tasks print, in the order it happens; each stamps it with its  *)
(* own node's clock.  The second frame may go on for another line, and may *)
(* be unstamped.                                                           *)
Raw(task, n, at) == [at |-> at, task |-> task, details |-> "docker", level |-> IF n = 2 THEN "error" ELSE "", n |-> n]
Printed(tasks, behind, step, odd) ==
  LET clock(t, i) == 100 + step * i - IF t = "b" THEN behind ELSE 0
      frame(i) ==
        [size |-> "ok", stream |-> IF i = 3 /\ odd = "stderr" THEN "stderr" ELSE "stdout",
         lines |-> <<Raw(tasks[i], i, IF odd = "unstamped" /\ i = 2 THEN 0 ELSE clock(tasks[i], i))>>
                   \o IF odd = "goes on" /\ i = 2 THEN <<Raw(tasks[i], 9, 0)>> ELSE <<>>]
  IN  Lg!readDockerLogFrames([framed |-> TRUE, frames |-> [i \in DOMAIN tasks |-> frame(i)], end |-> "eof"]).lines
Grouped(log, regroup) ==
  IF ~ regroup THEN log
  ELSE SelectSeq(log, LAMBDA l : l.task = "b") \o SelectSeq(log, LAMBDA l : l.task # "b")

LogQuery ==
  [stream |-> "", after |-> <<>>, before |-> <<>>, lastEventID |-> <<>>, sse |-> TRUE, method |-> "GET", now |-> 300,
   limit |-> 0, streams |-> 0, reads |-> 0, faults |-> {}]
Options == [tail |-> 0, since |-> <<>>, level |-> "", contains |-> {}]

Outputs == [1..4 -> {"a", "b"}]

(* The client is connected, away, connected, away, and connected. *)
AskFollow(tasks) ==
  \E behind \in {0, 25, 60}, step \in {20, 45}, odd \in {"", "unstamped", "goes on", "stderr"},
     regroup \in BOOLEAN, breaks \in [1..4 -> 0..4] :
    /\ \A i \in 1..3 : breaks[i] <= breaks[i + 1]
    /\ odd # "" => behind # 25
    /\ asked' = [about |-> "follow", log |-> Printed(tasks, behind, step, odd), breaks |-> breaks,
                 regroup |-> regroup,
                 q |-> [LogQuery EXCEPT !.stream = IF odd = "stderr" THEN "stdout" ELSE ""]]

(* The first page is the newest, or what is before an instant. *)
AskPages(tasks) ==
  \E behind \in {0, 25}, stream \in {"", "stdout"}, limit \in {0, 1, 2, 9}, odd \in {"", "stderr"},
     more \in 0..3, before \in {<<>>, <<"at", 999>>} :
    /\ before = <<>> => stream = ""
    /\ asked' = [about |-> "page", log |-> Printed(tasks \o [i \in 1..more |-> "a"], behind, 20, odd),
                 q |-> [LogQuery EXCEPT !.sse = FALSE, !.stream = stream, !.limit = limit, !.before = before]]

(* One service runs each task, and others nothing that prints; somebody    *)
(* reads the logs of the stack, or of the service that prints most, three  *)
(* times.                                                                  *)
AskScope(tasks) ==
  \E behind \in {0, 25}, tail \in {0, 1, 2, 9}, level \in {"", "error", "loud"}, contains \in {{}, {1, 4}},
     seen \in {0, 2}, fails \in {"", "a", "b"}, denied \in {"", "b"}, more \in {0, 2, 9}, quiet \in {{}, {"0"}} :
    /\ more # 0 \/ quiet # {} => fails = "" /\ denied = "" /\ behind = 0
    /\ asked' = [about |-> "scope", log |-> Printed(tasks \o [i \in 1..more |-> "a"], behind, 20, ""), seen |-> seen,
                 fails |-> fails, quiet |-> quiet, reads |-> ({"a", "b"} \ {denied}) \cup quiet,
                 opts |-> [Options EXCEPT !.tail = tail, !.level = level, !.contains = contains]]

Missing(log, sent) == {x \in ToSet(log) : x \notin ToSet(sent)}
LaterThan(x, y) == y.task = x.task /\ x.at # 0 /\ y.at # 0 /\ y.at < x.at

First(log, n) == SubSeq(log, 1, Min({n, Len(log)}))

(* What a client that resumed twice has.  What a resume replays ends short *)
(* of a line printed while it was away if as many of its task came after.  *)
Connected(id, from, until) ==
  Lg!serveLogs([asked.q EXCEPT !.lastEventID = IF id = 0 THEN <<>> ELSE <<"at", id>>],
               Grouped(First(asked.log, from), asked.regroup), SubSeq(asked.log, from + 1, until))
PastBacklog(x, from, until) ==
  \E i \in from + 1..Min({until, Len(asked.log)}) :
    /\ asked.log[i] = x
    /\ Cardinality({j \in i + 1..until : j <= Len(asked.log) /\ asked.log[j].task = x.task}) >= logResumeTail
FollowResumes ==
  \A one \in {Connected(0, 0, asked.breaks[1])} :
    \A two \in {Connected(one.id, asked.breaks[2], asked.breaks[3])} :
      \A three \in {Connected(IF two.id = 0 THEN one.id ELSE two.id, asked.breaks[4], Len(asked.log))} :
        LET sent == one.sent \o two.sent \o three.sent
        IN  \A x \in Missing(asked.log, sent) : asked.q.stream \in {"", x.stream} =>
              \/ \A y \in ToSet(sent) : ~ LaterThan(x, y)
              \/ \E y \in ToSet(sent) : y.task = x.task /\ y.at = x.at
              \/ PastBacklog(x, asked.breaks[1], asked.breaks[2])
              \/ PastBacklog(x, asked.breaks[3], asked.breaks[4])

(* Who pages back meets once all that is within the window of a page.      *)
PagesMeetAll ==
  LET log == asked.log
      limit == Min({IF asked.q.limit = 0 THEN defaultLogLimit ELSE asked.q.limit, maxLogLimit})
      window == Min({limit * Widening, maxLogLimit})
      page(before) == Lg!serveLogs([asked.q EXCEPT !.before = before], log, <<>>)
      onto(met, answer) ==
        [lines |-> answer.lines \o met.lines, told |-> IF met.before = <<>> THEN {} ELSE {answer.more},
         before |-> IF answer.lines = <<>> THEN met.before ELSE <<"at", answer.lines[1].at>>,
         honest |-> met.honest /\ met.told \subseteq {answer.lines # <<>>}]
      back[n \in 0..Len(log) + 1] ==
        IF n = 0 THEN [lines |-> <<>>, told |-> {}, before |-> asked.q.before, honest |-> TRUE]
        ELSE onto(back[n - 1], page(back[n - 1].before))
      reached == SelectSeq(Lg!TailPerTask(log, window), LAMBDA l : asked.q.stream \in {"", l.stream})
  IN  Cardinality({x.at : x \in ToSet(log)}) = Len(log) =>
        back[Len(log) + 1].lines = Lg!Sorted(reached) /\ back[Len(log) + 1].honest

(* What somebody reads, from a cursor, once n lines are printed and while  *)
(* a service may fail.                                                     *)
Printers == {"a", "b", "0"}
OfTask(lines) == [t \in Printers |-> SelectSeq(lines, LAMBDA l : l.task = t)]
ServiceOf(t) == [id |-> t, stack |-> "k1", order |-> CASE t = "0" -> 0 [] t = "a" -> 1 [] t = "b" -> 2]
ReadOf(scope, cursor, n, failing) ==
  [n |-> n,
   got |-> Lg!toolGetLogs([scopes |-> {scope}, reads |-> 0, opts |-> [asked.opts EXCEPT !.since = cursor]],
                          {ServiceOf(t) : t \in {"a", "b"} \cup asked.quiet}, asked.reads,
                          OfTask(First(asked.log, n)),
                          [t \in Printers |-> IF failing /\ t = asked.fails THEN "fetch" ELSE ""])]
LinesOf(read) == {[l EXCEPT !.service = Lg!None] : l \in ToSet(read.got.lines)}

(* A read passes a line by if it shows a later one of the service, and     *)
(* either says that it was cut or had as many later ones as it keeps.      *)
PassesBy(read, x, matching, keeps) ==
  /\ \E y \in LinesOf(read) : LaterThan(y, x)
  /\ \/ read.got.truncated
     \/ Cardinality({i \in DOMAIN matching : /\ LaterThan(matching[i], x)
                                             /\ matching[i] \in ToSet(First(asked.log, read.n))}) >= keeps
(* What a cursor is not past can still be read, by one that is told that   *)
(* it was cut or that there are more services than were read.              *)
StillToCome(read, x) ==
  LET cursor == read.got.cursor
  IN  /\ cursor # <<>> => CASE cursor[1] = "at" -> cursor[2] < x.at
                            [] cursor[1] = "scoped" -> x.task \in DOMAIN cursor[2] => cursor[2][x.task] < x.at
      /\ read.got.truncated \/ read.got.unread > 0
ScopeResumes(matching) ==
  \A one \in {ReadOf(<<"stack", "k1">>, <<>>, asked.seen, FALSE)} :
    \A two \in {ReadOf(<<"stack", "k1">>, one.got.cursor, asked.seen + 1, TRUE)} :
      \A three \in {ReadOf(<<"stack", "k1">>, two.got.cursor, Len(asked.log), FALSE)} :
        LET reads == {one, two, three}
            sent == UNION {LinesOf(read) : read \in reads}
        IN  /\ \A x \in sent : x.task \in asked.reads
            /\ \A x \in ToSet(matching) : x.task \in asked.reads /\ x \notin sent =>
                 \/ StillToCome(three, x)
                 \/ \E read \in reads : PassesBy(read, x, matching, scopedTailPerService)
            /\ (asked.fails \in asked.reads /\ two.got.error = "") => two.got.errors = {asked.fails}
OneResumes(matching) ==
  \A one \in {ReadOf(<<"service", "a">>, <<>>, asked.seen, FALSE)} :
    \A two \in {ReadOf(<<"service", "a">>, one.got.cursor, Len(asked.log), FALSE)} :
      \A x \in ToSet(OfTask(matching)["a"]) : x \notin LinesOf(one) \cup LinesOf(two) =>
        \/ StillToCome(two, x)
        \/ \E read \in {one, two} : PassesBy(read, x, matching, Lg!boundLogTail(asked.opts.tail))

(* Whoever follows output and resumes with the id it was last sent gets    *)
(* every line later than one it has of the same task (but for the rest of  *)
(* a frame it was cut off in, whose lines share a stamp, and what is       *)
(* behind the last lines of the task that a resume replays), though the    *)
(* tasks' clocks differ, as far as a minute, and the engine replays them   *)
(* in another order (logs.go ResumeCursor, BacklogFilter).  Who pages back *)
(* meets once every line that is among the newest of its task a page       *)
(* fetches, and from the second page on is told truly whether there is     *)
(* another (log_handlers.go).  Who resumes a read of one or several        *)
(* services misses a line only where an answer showed a later one of that  *)
(* service and said it was cut, or kept the newest of the service because  *)
(* there were more than it keeps; the line of a service that failed, or    *)
(* that the merged cut left out, is read from where it was (logs_scope.go);*)
(* and nobody is shown a line of a service it may not read.                *)
LogsResume ==
  /\ asked.about = "follow" => FollowResumes
  /\ asked.about = "page" => PagesMeetAll
  /\ asked.about = "scope" =>
       \A matching \in {Lg!filterLogContains(Lg!filterLogLines(asked.log, asked.opts.level), asked.opts.contains)} :
         ScopeResumes(matching) /\ OneResumes(matching)
=============================================================================
