----------------------------- MODULE ViewRules -----------------------------
(***************************************************************************)
(* The questions about what a caller is shown of the cluster, through      *)
(* every view there is of it.  The rules themselves are in Views, Topology *)
(* and Access.                                                             *)
(***************************************************************************)
EXTENDS ReadRules

Rt == INSTANCE Routes
V == INSTANCE Views
T == INSTANCE Topology

----------------------------------------------------------------------------
(* A cluster with something of every kind *)

Thing(kind, id, name, stack, order) ==
  [Record(kind, id, name, stack) EXCEPT !.order = order]
  @@ [live |-> TRUE, state |-> "", slot |-> "", image |-> "", ports |-> {}, mode |-> "", want |-> 0,
      max |-> 0, fits |-> {}, vips |-> {}, uses |-> {}, updating |-> FALSE, flapping |-> FALSE,
      availability |-> "active", role |-> "", driver |-> "", data |-> "", label |-> "", previous |-> {}]

ViewedNodes == {"d1", "d2", "d3"}
Computer(id, name, order, condition) ==
  [Thing("node", id, name, "", order) EXCEPT
     !.state = IF condition = "down" THEN "down" ELSE "ready", !.role = "worker",
     !.availability = IF condition = "drain" THEN "drain" ELSE "active"]
Job(id, name, svc, node, order, state) ==
  [Thing("task", id, name, svc.stack, order) EXCEPT
     !.service = svc.name, !.serviceID = svc.id, !.node = node, !.state = state, !.slot = id,
     !.live = state \in {"running", "pending"}, !.image = svc.image, !.nets = svc.nets,
     !.ports = IF svc.id = "s2" THEN {81} ELSE {}]

(* The config and the secret have two versions each.  The old config is    *)
(* what the second service uses and the first would roll back to; the old  *)
(* secret only the rollback of the first needs.                            *)
TheVersion(kind, n, ids, names, stem, p) ==
  [Thing(kind, ids[n], names[n], p.stack, n) EXCEPT
     !.stem = stem, !.created = n, !.data = "text", !.label = IF n = 1 THEN "old" ELSE ""]

(* What varies: the stack, how the second service is deployed and where it *)
(* may run, how its task fares, where another runs, and a node's state.    *)
Web(p) ==
  [Thing("service", "s1", "web", p.stack, 1) EXCEPT
     !.mode = "replicated", !.want = 2, !.max = p.max, !.fits = p.fits, !.nets = {"w1"}, !.image = "nginx",
     !.uses = {<<"config", "c2">>, <<"secret", "e2">>, <<"volume", "data">>}, !.ports = {80},
     !.previous = {<<"config", "c1">>, <<"secret", "e1">>}]
Database(p) ==
  [Thing("service", "s2", "db", "", 2) EXCEPT
     !.mode = p.mode, !.want = 1, !.fits = ViewedNodes, !.nets = {"w1"}, !.vips = {"w2"}, !.image = "pg",
     !.uses = {<<"config", "c1">>, <<"secret", "e2">>}]
Viewed(p) ==
  {Web(p), Database(p), Computer("d1", "host", 1, "ready"), Computer("d2", "", 2, p.node),
   Computer("d3", "box", 3, "ready"), Job("t1", "web.1", Web(p), "d1", 1, "running"),
   Job("t2", "web.2", Web(p), p.on, 2, "running"), Job("t3", "db.1", Database(p), "d2", 3, p.state),
   [Thing("network", "w1", "net", p.stack, 1) EXCEPT !.driver = "overlay", !.counted = TRUE],
   [Thing("network", "w2", "back", "", 2) EXCEPT !.driver = "overlay", !.counted = TRUE],
   Thing("volume", "data", "data", p.stack, 1)}
  \cup {TheVersion("config", n, <<"c1", "c2">>, <<"cfg_v1", "cfg_v2">>, "cfg", p) : n \in 1..2}
  \cup {TheVersion("secret", n, <<"e1", "e2">>, <<"key_v1", "key_v2">>, "key", p) : n \in 1..2}
  \cup (IF p.stack = "" THEN {} ELSE {Thing("stack", "k1", "k1", "", 1)})
ViewedNames == {"s1", "web", "s2", "db", "d1", "host", "d2", "d3", "box", "t1", "t2", "t3", "web.1", "w1", "net",
                "w2", "back", "c1", "cfg_v1", "c2", "cfg_v2", "e1", "key_v1", "e2", "key_v2", "data",
                "k1", "cluster", ""}

(* What the holders of a policy's grants may do with the records of a      *)
(* world, and with the swarm.                                              *)
MayIn(world, policy, id, permission) ==
  LET resolver == ResolverOf(world, ViewedNames)
  IN  {res \in {V!Resource(r) : r \in world} \cup {<<"swarm", "cluster">>} :
         Acl!Can(Enforced(policy), resolver, id, permission, res[1], res[2])}

Viewers ==
  {<<Grant(g, {p})>> :
     p \in {"read", "write"}, g \in {Everything, {<<"stack", {"k1"}>>}, {<<"swarm", {"cluster"}>>}}}
  \cup {<<Grant(g, {"read"})>> :
     g \in {{<<"secret", {"key_v1"}>>, <<"volume", {"data"}>>},
            {<<"service", {"web"}>>}, {<<"service", {"db"}>>, <<"network", {"net"}>>},
            {<<"task", {"t1", "t3"}>>, <<"node", {"host"}>>}, {<<"node", {"host", "d2"}>>},
            {<<"service", {"web", "db"}>>, <<"node", {"host", "box"}>>, <<"network", {"back"}>>},
            {<<"node", {"host", "d2", "box"}>>, <<"service", {"web"}>>, <<"config", {"cfg_v1", "cfg_v2"}>>}}}
  \cup {<<>>}

AskView(policy) ==
  \E stack \in {"", "k1"}, max \in 0..2, fits \in {ViewedNodes, {"d1", "d3"}}, on \in {"d1", "d3"},
     mode \in {"global", "replicated"}, state \in {"running", "failed"}, node \in {"ready", "down", "drain"} :
    asked' = [about |-> "view", policy |-> policy,
              world |-> [stack |-> stack, max |-> max, fits |-> fits, on |-> on, mode |-> mode,
                         state |-> state, node |-> node]]

(* The world without what a caller may not read.  Of a node it may not     *)
(* read, that it is there and whether it takes tasks is left: a global     *)
(* service's state and the count of hidden nodes tell that much of it.     *)
Masked(world, reads) ==
  {V!RedactSecret(r) : r \in {x \in world : V!Readable(x, reads)}}
  \cup {[Thing("node", n.id, "hidden", "", 0) EXCEPT !.state = n.state, !.availability = n.availability]
          : n \in {x \in world : x.kind = "node" /\ ~ V!Readable(x, reads)}}

Keys(world) == {<<r.kind, n>> : r \in world, n \in ViewedNames \ {""}}
Listable == V!searchedKinds

(* What a type is listed by: a filter, the versions wanted, and a page. *)
Asks ==
  [plain |-> <<V!NoFilter, "", 0, 0>>, all |-> <<V!NoFilter, "all", 0, 0>>,
   named |-> <<[V!NoFilter EXCEPT !.query = {"key_v1", "cfg_v1"}], "", 0, 0>>,
   labelled |-> <<[V!NoFilter EXCEPT !.label = {"old"}], "", 0, 0>>,
   newest |-> <<[V!NoFilter EXCEPT !.label = {"old"}], "newest", 0, 0>>,
   other |-> <<V!NoFilter, "other", 0, 0>>,
   paged |-> <<[V!NoFilter EXCEPT !.state = {"running", "failed"}], "", 1, 1>>]

(* Everything a caller can ask of a world, each through its transport. *)
Shown(world, figures, reads, keys) ==
  [find |-> [a \in DOMAIN Asks |->
               [k \in Listable |->
                  V!toolFind(world, figures, k, Asks[a][1], Asks[a][2], Asks[a][3], Asks[a][4], reads)]],
   listings |-> [k \in Listable |-> V!readListing(world, figures, k, reads)],
   names |-> [k \in Listable |-> V!completeResourceNames(world, k, {"web", "net", "key_v1", "host"}, reads)],
   search |-> {V!HandleSearch(world, q, limit, reads, TRUE) : q \in {{"web", "net"}, {"nginx", "key_v1"}},
                                                              limit \in {-1, 1}},
   across |-> V!findAcrossTypes(world, {"db", "pg"}, 2, reads),
   digests |-> [k \in keys |-> V!toolDescribe(world, figures, k[1], k[2], reads)],
   ports |-> T!toolGetPublishedPorts(world, 0, reads, TRUE),
   document |-> T!HandleTopology(world, reads, TRUE),
   graphs |-> [v \in {"network", "placement"} |-> T!toolGetTopology(world, v, "", reads)],
   drains |-> [k \in {"d1", "d2", "host"} |-> T!toolGetTopology(world, "drain-impact", k, reads)]]
Fetched(world, figures, reads, r) ==
  <<V!HandleGet(world, figures, r.kind, r.id, reads), V!HandleServiceTasks(world, r.id, reads),
    V!HandleNodeTasks(world, r.id, reads)>>

(* Whether a version is old, of those one may read, and no service one may *)
(* read runs with it.                                                      *)
Superseded(world, r, visible) ==
  /\ r.kind \in V!Versioned
  /\ \E x \in visible : x.kind = r.kind /\ Vs!Key(x) = Vs!Key(r) /\ x.created > r.created
  /\ \A s \in visible : s.kind = "service" => <<r.kind, r.id>> \notin s.uses

(* No view shows or hints at what the caller may not read: each answers as *)
(* it would of a cluster without it, though they filter what they list at  *)
(* different places, and some count tasks and members they never filter    *)
(* because who reads a service or a stack reads those too (cluster/acl.go, *)
(* enrich.go, api/representations.go, mcp/acl.go).  The one thing all      *)
(* callers share by design is how many addresses of a network are taken,   *)
(* counted over everyone's services and tasks (cache/addresses.go 17-19):  *)
(* figures is that count, of the whole cluster on both sides.              *)
(*   And nothing readable is lost: one transport serves what the other     *)
(* lists, in the same state and the same place among its versions; a list  *)
(* leaves out a version only if a newer one is there and nothing the       *)
(* caller may read runs with it, and finds that one too by its name, its   *)
(* label or when all are asked for (find.go 79-133, cluster/versions.go).  *)
(* Join tokens are for who could rotate them.                              *)
ShownIsReadable ==
  asked.about = "view" =>
    LET world == Viewed(asked.world)
        figures == V!NetworkAddresses(world)
        reads == MayIn(world, asked.policy, Identity, "read")
        writes == MayIn(world, asked.policy, Identity, "write")
        masked == Masked(world, reads)
        visible == {r \in world : V!Readable(r, reads)}
        old == {r \in visible : r.label = "old"}
        keys == Keys(world)
        rotate == CHOOSE w \in Rt!writeRoutes : w.path = <<"swarm", "rotate-token">>
        ids(kind, records) == {r.id : r \in {x \in records : x.kind = kind}}
    IN  /\ \A shown \in {Shown(world, figures, reads, keys)} :
             LET rows(ask, kind) == ToSet(shown.find[ask][kind].items)
                 digest(row) == shown.digests[<<row.type, row.id>>].digest
             IN  /\ shown = Shown(masked, figures, reads, keys)
                 /\ \A r \in world : (r \in visible) = (shown.digests[<<r.kind, r.id>>].code = "200")
                 /\ \A kind \in Listable :
                      /\ {row.id : row \in rows("all", kind)} = ids(kind, visible)
                      /\ {row.id : row \in rows("plain", kind)}
                         = ids(kind, {r \in visible : ~ Superseded(world, r, visible)})
                      /\ {l.id : l \in shown.listings[kind]} = {row.id : row \in rows("plain", kind)}
                      /\ \A ask \in {"named", "labelled"} : {row.id : row \in rows(ask, kind)} = ids(kind, old)
                      /\ \A row \in rows("all", kind) :
                           /\ kind \in {"service", "node", "task"} => row.state = digest(row).state
                           /\ kind \in V!Versioned => row.version = digest(row).details.version
                      /\ \A l \in shown.listings[kind] :
                           kind \in V!Versioned =>
                             \E row \in rows("all", kind) : row.id = l.id /\ row.version = l.version
                 /\ \A port \in shown.ports.items : \A id \in port.nodes :
                      V!readable(world, "node", id, reads) # {}
        /\ \A r \in world :
             /\ r \in visible => Fetched(world, figures, reads, r) = Fetched(masked, figures, reads, r)
             /\ (r \in visible) = (V!HandleGet(world, figures, r.kind, r.id, reads).code = "200")
        /\ \A level \in 0..3 :
             T!HandleSwarm("ok", reads, writes, level, TRUE).tokens
             = (level >= rotate.level /\ <<"swarm", "cluster">> \in writes)

----------------------------------------------------------------------------
(* Pictures *)

(* Whether the tasks a service has on a node could all run elsewhere, as a *)
(* placement of each of them.                                              *)
CouldMove(svc, target, tasks, nodes) ==
  LET held(n) == Cardinality({t \in tasks : t.serviceID = svc.id /\ t.live /\ t.node = n.id})
      moving == {t \in tasks : t.serviceID = svc.id /\ t.live /\ t.node = target.id}
      takes == {n \in nodes : n.id # target.id /\ n.state = "ready" /\ n.availability = "active" /\ n.id \in svc.fits}
  IN  \E to \in [moving -> takes] :
        \A n \in takes : svc.max = 0 \/ held(n) + Cardinality({t \in moving : to[t] = n}) <= svc.max
           \/ n \notin {to[t] : t \in moving}

(* The graphs the two transports draw of one cluster, each its own way     *)
(* (api/topology.go, cluster/topology.go), say the same: the services a    *)
(* network joins, and what runs where, on nodes that are shown.  A drain   *)
(* is foretold alike, and a service it says can move really has room for   *)
(* every task that leaves, one it says is stranded has not                 *)
(* (cluster/drainimpact.go placementFor).                                  *)
GraphsAgree ==
  asked.about = "view" =>
    LET world == Viewed(asked.world)
        reads == MayIn(world, asked.policy, Identity, "read")
        see(kind) == V!filter(world, kind, reads)
        document == T!HandleTopology(world, reads, TRUE)
        network == T!toolGetTopology(world, "network", "", reads)
        placement == T!toolGetTopology(world, "placement", "", reads)
        joined(n) == {e[1] : e \in {x \in network.edges : x[2] = n}}
    IN  /\ \A a, b \in see("service") :
             a.id # b.id =>
               {n[1] : n \in UNION {e.networks : e \in {x \in document.network.edges : x.ends = {a.id, b.id}}}}
               = {n.id : n \in {x \in see("network") : {a.id, b.id} \subseteq joined(x.id)}}
        /\ {<<e.node, e.service, e.total>> : e \in placement.edges}
           = UNION {{<<n, h.service, Cardinality({t \in h.tasks : t[2] = n})>> : n \in h.nodes}
                      : h \in document.placement.hyperedges}
        /\ \A h \in document.placement.hyperedges : h.nodes \subseteq {n.id : n \in see("node")}
        /\ \A n \in see("node") :
             LET drain == T!HandleNodeDrainImpact(world, n.id, reads)
                 verdict(s) == {v.state : v \in {x \in drain.nodes : x.id = s.id}}
             IN  /\ drain = T!toolGetTopology(world, "drain-impact", n.id, reads)
                 /\ \A s \in see("service") :
                      s.mode # "global" /\ verdict(s) # {} =>
                        verdict(s) = {IF CouldMove(s, n, see("task"), see("node")) THEN "movable" ELSE "stranded"}

----------------------------------------------------------------------------
(* A rendered document, shared *)

(* One policy grants two callers; a node goes down; two requests overlap,  *)
(* each reading its key before and its lists after it or both on one side, *)
(* and a third follows them.                                               *)
Reader(name) == [Identity EXCEPT !.subject = name]
GrantTo(name, grants) == [grants EXCEPT !.audience = {<<"user", {name}>>}]
AskShared(policy) ==
  \E other \in {v \in Viewers : v # <<>> /\ v[1].permissions = {"read"}}, who \in {w \in [1..3 -> {"u", "v"}] : w[3] = "u"}, size \in 1..2, firstPut \in 1..2,
     keyed \in {<<1, 1, 1>>, <<1, 2, 2>>, <<2, 1, 2>>, <<1, 1, 2>>, <<2, 2, 2>>},
     listed \in {<<1, 1>>, <<1, 2>>, <<2, 1>>, <<2, 2>>} :
    /\ policy # <<>>
    /\ \A i \in 1..2 : keyed[i] <= listed[i] /\ listed[i] <= keyed[3]
    /\ asked' = [about |-> "shared", policy |-> <<GrantTo("u", policy[1]), GrantTo("v", other[1])>>,
                 who |-> who, size |-> size, first |-> firstPut, keyed |-> keyed, listed |-> listed]

Generations ==
  LET p(node) == [stack |-> "k1", max |-> 0, fits |-> ViewedNodes, on |-> "d3", mode |-> "replicated",
                  state |-> "running", node |-> node]
  IN  <<Viewed(p("ready")), Viewed(p("down"))>>

(* A document rendered once and handed to others (projectioncache.go) is   *)
(* the one each would have been rendered, of the cluster as it was at its  *)
(* request or later.                                                       *)
SharedIsOwn ==
  asked.about = "shared" =>
    LET reads(i, g) == MayIn(Generations[g], asked.policy, Reader(asked.who[i]), "read")
        key(i) == T!projectionKey(asked.keyed[i],
                                  Acl!Fingerprint(Enforced(asked.policy), 1, Reader(asked.who[i])), "topology")
        own(i, g) == T!Document(Generations[g], reads(i, g))
        doc(i) == own(i, asked.listed[i])
        second == 3 - asked.first
        stored == T!put(T!put(T!EmptyMemo, key(asked.first), doc(asked.first), asked.size),
                        key(second), doc(second), asked.size)
        answer == T!Shared(stored, key(3), own(3, asked.keyed[3]), asked.size).answer
    IN  /\ \E g \in asked.keyed[3]..2 : answer = own(3, g)
        /\ Len(stored) <= asked.size

----------------------------------------------------------------------------
(* What is typed into a search box *)

Typed == UNION {[1..n -> {"a", "b", "-"}] : n \in 1..3}
AskTyped(query) ==
  \E n \in 1..6 : \E text \in [1..n -> {"a", "b", "-"}] :
    asked' = [about |-> "typed", query |-> query, text |-> text]

(* A query finds a text that has it, and one whose parts, taken in order   *)
(* and each by some first letters, spell it: the walk over parts, which    *)
(* memoises, misses no way to spell it and makes up none (cluster/search.go *)
(* segmentWalk).                                                           *)
TypedIsFound ==
  asked.about = "typed" =>
    LET text == asked.text
        letters == SelectSeq(asked.query, LAMBDA c : c # "-")
        parts == {<<i, j>> \in (DOMAIN text) \X (DOMAIN text) :
                    /\ i <= j /\ \A k \in i..j : text[k] # "-"
                    /\ (i = 1 \/ text[i - 1] = "-") /\ (j = Len(text) \/ text[j + 1] = "-")}
        firsts == [p \in parts |-> 0..(p[2] - p[1] + 1)]
        spelled(take) ==
          LET chosen == {k \in DOMAIN text : \E p \in parts : k \in p[1]..(p[1] + take[p] - 1)}
          IN  FoldLeft(LAMBDA s, k : IF k \in chosen THEN Append(s, text[k]) ELSE s, <<>>,
                       [k \in DOMAIN text |-> k])
        has == \E i \in 0..(Len(text) - Len(asked.query)) :
                 SubSeq(text, i + 1, i + Len(asked.query)) = asked.query
        takes == {t \in [parts -> 0..Len(text)] : \A p \in parts : t[p] \in firsts[p]}
    IN  V!ContainsFold(text, asked.query) =
          \/ has
          \/ Contains(text, "-") /\ (letters = <<>> \/ (Cardinality(parts) > 1 /\ \E t \in takes : spelled(t) = letters))
=============================================================================
