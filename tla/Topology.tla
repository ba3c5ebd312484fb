------------------------------ MODULE Topology ------------------------------
(***************************************************************************)
(* The pictures of the cluster (cluster/topology.go, drainimpact.go,       *)
(* ports.go, api/topology.go, mcp/topology.go, ports.go): who shares a     *)
(* network, what runs where, what a drain would move, which ports are      *)
(* published; the cluster's own facts (api/cluster_handlers.go); and the   *)
(* rendered documents shared between callers (api/projectioncache.go).     *)
(*                                                                         *)
(* Worlds, records and callers are those of Views.                         *)
(***************************************************************************)
EXTENDS Integers, Sequences, FiniteSets, FiniteSetsExt, SequencesExt, TLC

V == INSTANCE Views

----------------------------------------------------------------------------
(* Networks *)

(* OverlayNetworks, ServiceAttachments *)
OverlayNetworks(networks) == {n \in networks : n.driver = "overlay"}
ServiceAttachments(svc, overlays) == {n \in overlays : n.id \in svc.nets \cup svc.vips}

(* serviceNode and the other vertices *)
Vertex(r, state) == [id |-> r.id, label |-> r.name, type |-> r.kind, state |-> state,
                     group |-> IF r.kind = "node" THEN "" ELSE r.stack]

(* NetworkGraph: services and the networks they are on. *)
NetworkGraph(services, networks) ==
  LET overlays == OverlayNetworks(networks)
      attached == UNION {ServiceAttachments(s, overlays) : s \in services}
  IN  [nodes |-> {Vertex(s, "") : s \in services} \cup {Vertex(n, "") : n \in attached},
       edges |-> UNION {{s.id} \X {n.id : n \in ServiceAttachments(s, overlays)} : s \in services}]

(* buildNetworkJGF: two services are joined by the networks they share,    *)
(* and those of a stack are held together.                                 *)
buildNetworkJGF(services, overlays, tasks) ==
  LET shared(a, b) == ServiceAttachments(a, overlays) \cap ServiceAttachments(b, overlays)
      stacks == {s.stack : s \in services} \ {""}
  IN  [nodes |-> {[id |-> s.id, label |-> s.name, running |-> V!Running(s, tasks)] : s \in services},
       edges |-> {[ends |-> {p[1].id, p[2].id}, networks |-> {<<n.id, n.name>> : n \in shared(p[1], p[2])}]
                    : p \in {q \in services \X services : q[1].id # q[2].id /\ shared(q[1], q[2]) # {}}},
       hyperedges |-> {[stack |-> k, members |-> {s.id : s \in {x \in services : x.stack = k}}] : k \in stacks}]

----------------------------------------------------------------------------
(* Placement *)

PlacedAnywhere(tasks, nodes, services) ==
  {t \in tasks : V!TaskIsLive(t) /\ t.serviceID \in {s.id : s \in services}}

(* The tasks both pictures place: live, on a node and of a service that    *)
(* are shown.                                                              *)
Placed(tasks, nodes, services) ==
  {t \in tasks : /\ V!TaskIsLive(t)
                 /\ t.node \in {n.id : n \in nodes}
                 /\ t.serviceID \in {s.id : s \in services}}

(* PlacementGraph: an edge says how many tasks of a service a node has,    *)
(* and how many of them run; a service's state is of the tasks placed.     *)
PlacementGraph(world, nodes, tasks, services) ==
  LET placed == Placed(tasks, nodes, services)
      at(s, n) == {t \in placed : t.serviceID = s.id /\ t.node = n.id}
      running(some) == Cardinality({t \in some : t.state = "running"})
  IN  [nodes |-> {Vertex(n, V!DeriveNodeState(n)) : n \in nodes}
                 \cup {Vertex(s, V!StateOf(world, s, placed)) : s \in services},
       edges |-> {[node |-> p[1].id, service |-> p[2].id, total |-> Cardinality(at(p[2], p[1])),
                   running |-> running(at(p[2], p[1]))]
                    : p \in {q \in nodes \X services : at(q[2], q[1]) # {}}}]

(* buildPlacementJGF: a service that runs on some node, with its networks  *)
(* and its tasks.                                                          *)
buildPlacementJGF(nodes, tasks, services, overlays) ==
  LET placed == Placed(tasks, nodes, services)
      of(s) == {t \in placed : t.serviceID = s.id}
      running == {s \in services : of(s) # {}}
  IN  [nodes |-> {Vertex(n, n.state) : n \in nodes},
       services |-> {[id |-> s.id, label |-> s.name,
                      networks |-> {<<n.id, n.name>> : n \in ServiceAttachments(s, overlays)}] : s \in running},
       hyperedges |-> {[service |-> s.id, nodes |-> {t.node : t \in of(s)},
                        tasks |-> {<<t.id, t.node, t.state>> : t \in of(s)}] : s \in running}]

(* HandleTopology, HandleTopologyGraphML and HandleTopologyDOT *)
Document(world, reads) ==
  LET services == V!filter(world, "service", reads)
      overlays == OverlayNetworks(V!filter(world, "network", reads))
  IN  [network |-> buildNetworkJGF(services, overlays, V!AllTasks(world)),
       placement |-> buildPlacementJGF(V!filter(world, "node", reads), V!AllTasks(world), services, overlays)]
HandleTopology(world, reads, granted) ==
  IF granted THEN Document(world, reads) @@ [code |-> "200"] ELSE [code |-> "ACL001"]

----------------------------------------------------------------------------
(* A drain *)

(* nodeCanHost: its constraints and platform allow the node, which fits    *)
(* says, and it is not full.                                               *)
nodeCanHost(n, svc, held) == n.id \in svc.fits /\ (svc.max > 0 => held < svc.max)

RoomOnSome(svc, running, candidates, held) ==
  LET accepted == {n \in candidates : nodeCanHost(n, svc, held[n.id])}
  IN  IF svc.mode = "global" THEN [state |-> "global", accepted |-> {}]
      ELSE IF accepted = {} THEN [state |-> "stranded", accepted |-> {}]
      ELSE [state |-> "movable", accepted |-> {n.id : n \in accepted}]

(* placementFor *)
placementFor(svc, running, candidates, held) ==
  LET accepted == {n \in candidates : nodeCanHost(n, svc, held[n.id])}
      free == MapThenSumSet(LAMBDA n : svc.max - held[n.id], accepted)
  IN  IF svc.mode = "global" THEN [state |-> "global", accepted |-> {}]
      ELSE IF accepted = {} \/ (svc.max > 0 /\ free < running) THEN [state |-> "stranded", accepted |-> {}]
      ELSE [state |-> "movable", accepted |-> {n.id : n \in accepted}]

(* DrainImpactGraph: what runs on the node, and what else could host it.   *)
DrainImpactGraph(target, nodes, tasks, services) ==
  LET live == {t \in tasks : V!TaskIsLive(t)}
      on(s, n) == Cardinality({t \in live : t.serviceID = s.id /\ t.node = n.id})
      candidates == {n \in nodes : n.id # target.id /\ V!Schedulable(n)}
      moved == {s \in services : on(s, target) > 0}
      place(s) == placementFor(s, on(s, target), candidates,
                               [id \in {n.id : n \in candidates} |->
                                  on(s, CHOOSE n \in candidates : n.id = id)])
  IN  [subject |-> target.name,
       nodes |-> {Vertex(n, V!DeriveNodeState(n)) : n \in candidates}
                 \cup {Vertex(s, place(s).state) : s \in moved},
       edges |-> UNION {{s.id} \X place(s).accepted : s \in moved}]

(* HandleNodeDrainImpact and drainImpact, each with NoteHiddenNodes *)
drainImpactOf(world, target, reads) ==
  LET nodes == V!filter(world, "node", reads)
  IN  DrainImpactGraph(target, nodes, V!filter(world, "task", reads), V!filter(world, "service", reads))
      @@ [hidden |-> Cardinality({n \in world : n.kind = "node"}) - Cardinality(nodes)]
HandleNodeDrainImpact(world, id, reads) ==
  LET code == V!lookupACL(world, "node", id, reads)
  IN  IF code # "200" THEN [code |-> code]
      ELSE drainImpactOf(world, CHOOSE n \in V!Get(world, "node", id) : TRUE, reads) @@ [code |-> "200"]
drainImpact(world, key, reads) ==
  LET found == V!lookupResource(world, "node", key, reads)
  IN  IF found.code # "200" THEN found
      ELSE drainImpactOf(world, found.record, reads) @@ [code |-> "200"]

(* toolGetTopology *)
toolGetTopology(world, view, key, reads) ==
  LET services == V!filter(world, "service", reads)
  IN  CASE view = "network" -> NetworkGraph(services, V!filter(world, "network", reads))
        [] view = "placement" -> PlacementGraph(world, V!filter(world, "node", reads), V!AllTasks(world), services)
        [] view = "drain-impact" -> drainImpact(world, key, reads)

----------------------------------------------------------------------------
(* Published ports *)

(* ListPublishedPorts: those a service publishes on every node, and those  *)
(* its tasks hold on theirs.                                               *)
ListPublishedPorts(world) ==
  LET services == {s \in world : s.kind = "service"}
      port(s, p, nodes) == [port |-> p, serviceID |-> s.id, service |-> s.name, stack |-> s.stack, nodes |-> nodes]
      holders(s, p) == {t \in V!TasksOf(world, s) : t.state \in {"running", "starting"} /\ p \in t.ports}
  IN  UNION {{port(s, p, {}) : p \in s.ports} : s \in services}
      \cup UNION {{port(s, p, {t.node : t \in holders(s, p)}) : p \in UNION {t.ports : t \in
                     {x \in V!TasksOf(world, s) : x.state \in {"running", "starting"}}}} : s \in services}

PortsOnEveryNode(world, reads) == ListPublishedPorts(world)

(* PublishedPorts, and the filter by service of portList and of            *)
(* toolGetPublishedPorts                                                   *)
PublishedPorts(world, reads) ==
  {[p EXCEPT !.nodes = {id \in @ : V!readable(world, "node", id, reads) # {}}] : p \in ListPublishedPorts(world)}
readablePorts(world, reads) == {p \in PublishedPorts(world, reads) : <<"service", p.service>> \in reads}

(* portArgument and toolGetPublishedPorts; 0 is none given. *)
toolGetPublishedPorts(world, port, reads, granted) ==
  IF ~ granted THEN [code |-> "no grants"]
  ELSE IF port \notin 0..65535 THEN [code |-> "bad port"]
  ELSE [code |-> "200", items |-> {p \in readablePorts(world, reads) : port # 0 => p.port = port}]

----------------------------------------------------------------------------
(* The cluster's own facts *)

(* HandleCluster and newClusterOverview: counts, for who holds any grant. *)
HandleCluster(world, granted) ==
  LET of(kind) == {r \in world : r.kind = kind}
      states == [s \in of("service") |-> V!StateOf(world, s, V!AllTasks(world))]
  IN  IF ~ granted THEN [code |-> "ACL001"]
      ELSE [code |-> "200", nodes |-> Cardinality(of("node")), services |-> Cardinality(of("service")),
            tasks |-> Cardinality(of("task")), stacks |-> Cardinality(of("stack")),
            ready |-> Cardinality({n \in of("node") : V!DeriveNodeState(n) = "ready"}),
            converged |-> Cardinality({s \in of("service") : states[s] \in {"running", "completed"}}),
            degraded |-> Cardinality({s \in of("service") : states[s] \in {"failed", "pending", "flapping"}})]

TokensByLevel(reads, writes, level) == level >= 3

(* HandleSwarm: its join tokens are blank for who could not rotate them. *)
showsTokens(reads, writes, level) == level >= 3 /\ <<"swarm", "cluster">> \in writes
HandleSwarm(engine, reads, writes, level, granted) ==
  IF ~ granted THEN [code |-> "ACL001"]
  ELSE IF engine = "absent" THEN [code |-> "SWM001"]
  ELSE IF engine = "fails" THEN [code |-> "SWM002"]
  ELSE [code |-> "200", tokens |-> showsTokens(reads, writes, level)]

----------------------------------------------------------------------------
(* Documents shared between callers *)

EmptyMemo == <<>>
KeyOfGeneration(generation, fingerprint, scope) ==
  [generation |-> generation, fingerprint |-> <<>>, scope |-> scope]

projectionKey(generation, fingerprint, scope) ==
  [generation |-> generation, fingerprint |-> fingerprint, scope |-> scope]

get(memo, key) == {memo[i].doc : i \in {j \in DOMAIN memo : memo[j].key = key}}

(* put: the first document of a key stays, those of earlier generations    *)
(* go, and the oldest when it is full.                                     *)
put(memo, key, doc, size) ==
  LET kept == SelectSeq(memo, LAMBDA e : e.key.generation >= key.generation)
      room == IF Len(kept) >= size THEN Tail(kept) ELSE kept
  IN  IF get(memo, key) # {} THEN memo ELSE Append(room, [key |-> key, doc |-> doc])

(* A request that read its key in one world and listed in another, as      *)
(* HandleTopology and HandleGetStack may: what it answers, and the memo    *)
(* after it.                                                               *)
Shared(memo, key, doc, size) ==
  LET held == get(memo, key)
  IN  IF held # {} THEN [answer |-> CHOOSE d \in held : TRUE, memo |-> memo]
      ELSE [answer |-> doc, memo |-> put(memo, key, doc, size)]
=============================================================================
