---------------------------- MODULE AdviceRules ----------------------------
(***************************************************************************)
(* The questions about what is recommended: whether following it helps,    *)
(* who is told, and whether what it rests on is counted right.  The rules  *)
(* themselves are in Recommendations, Restarts and Addresses.              *)
(***************************************************************************)
EXTENDS ViewRules

Rc == INSTANCE Recommendations
Ad == INSTANCE Addresses WITH None <- 0

Horizon == 6
Bucket == 2
Loop == 3
LoopWindow == 4
Rs == INSTANCE Restarts WITH horizon <- Horizon, bucket <- Bucket, flappingRestarts <- Loop,
                             flappingWindow <- LoopWindow

----------------------------------------------------------------------------
(* A service and what was measured of it *)

Sizes == {[headroom |-> 200, over |-> 20, approaching |-> 80, at |-> 95],
          [headroom |-> 300, over |-> 30, approaching |-> 60, at |-> 60],
          [headroom |-> 100, over |-> 90, approaching |-> 80, at |-> 95]}
Pair(cpu, memory) == [r \in {"cpu", "memory"} |-> IF r = "cpu" THEN cpu ELSE memory]
Sized(limit, reservation) ==
  [id |-> "s1", name |-> "web", limit |-> limit, reservation |-> reservation]
SeriesOf(usage) == [r \in {"cpu", "memory"} |-> <<[s \in {"web"} |-> usage[r]]>>]
Silent == [s \in {"other"} |-> 0]

AskSize(cfg) ==
  \E cpu \in {0, 5, 100}, memory \in {0, 4, 32}, held \in {0, 5, 50}, kept \in {0, 4, 16},
     usage \in {0, 2, 41, 49, 96, 200}, resident \in {0, 1, 26, 31, 40},
     gone \in {"", "cpu fails", "memory fails", "cpu is silent", "memory is silent"} :
    asked' = [about |-> "size", cfg |-> cfg, svc |-> Sized(Pair(cpu, memory), Pair(held, kept)),
              usage |-> Pair(usage, resident), gone |-> gone]

Answered(usage, gone) ==
  CASE gone = "cpu fails" -> [SeriesOf(usage) EXCEPT !["cpu"] = <<>>]
    [] gone = "memory fails" -> [SeriesOf(usage) EXCEPT !["memory"] = <<>>]
    [] gone = "cpu is silent" -> [SeriesOf(usage) EXCEPT !["cpu"] = <<Silent>>]
    [] gone = "memory is silent" -> [SeriesOf(usage) EXCEPT !["memory"] = <<Silent>>]
    [] OTHER -> SeriesOf(usage)

(* Whoever applies a suggested limit is not told of that limit again while *)
(* the use stays as it is, if the headroom is the default or more; a       *)
(* suggested reservation is lower, or the smallest there is, covers the    *)
(* use and is not suggested to be changed again (sizing_evaluate.go).      *)
(* Without a measurement of both resources nothing measured is said of     *)
(* either (sizing_checker.go measured).                                    *)
SizingSettles ==
  asked.about = "size" =>
    LET measured == Answered(asked.usage, asked.gone)
        hints(svc) == Rc!evaluate(svc, measured, measured, asked.cfg)
        limits(svc, r) == {h \in hints(svc) : r \in h.resources /\ h.category \in {"at-limit", "approaching-limit"}}
        over(svc, r) == {h \in hints(svc) : r \in h.resources /\ h.category = "over-provisioned"}
    IN  IF ~ Rc!LoadSizing(asked.cfg) THEN TRUE
        ELSE /\ asked.gone # "" => hints(asked.svc) = Rc!evaluateConfig(asked.svc)
             /\ \A r \in {"cpu", "memory"} :
                  /\ Cardinality(limits(asked.svc, r)) <= 1
                  /\ \A h \in limits(asked.svc, r) :
                       h.resources = {r} /\ asked.cfg.headroom >= 200 =>
                         /\ h.suggested > h.configured
                         /\ limits([asked.svc EXCEPT !.limit[r] = h.suggested], r) = {}
                  /\ \A h \in over(asked.svc, r) :
                       LET then == [asked.svc EXCEPT !.reservation[r] = h.suggested]
                       IN  /\ h.suggested < h.configured \/ h.suggested = Rc!Suggested(r, 0, asked.cfg)
                           /\ asked.cfg.headroom >= 200 => h.suggested >= asked.usage[r]
                           /\ \A again \in over(then, r) : again.suggested = h.suggested

----------------------------------------------------------------------------
(* Nodes *)

NodeKinds ==
  {[role |-> IF m = "" THEN "worker" ELSE "manager", manager |-> m, state |-> s, availability |-> a] :
     m \in {"", "reachable", "unreachable"}, s \in {"ready", "down"}, a \in {"active"}}
  \cup {[role |-> "manager", manager |-> "unknown", state |-> "ready", availability |-> "drain"],
        [role |-> "manager", manager |-> "", state |-> "ready", availability |-> "active"],
        [role |-> "worker", manager |-> "", state |-> "ready", availability |-> "drain"]}
AskQuorum(count) ==
  \E kinds \in [1..count -> NodeKinds] :
    asked' = [about |-> "quorum",
              nodes |-> {kinds[i] @@ [id |-> <<"d1", "d2", "d3", "d4">>[i], name |-> "", order |-> i] : i \in 1..count}]

(* What is said of the managers is what losing, adding and draining them   *)
(* would do (internal/quorum, cluster_checker.go): whether one more loss   *)
(* stops the swarm, whether one manager fewer would bear as many losses,   *)
(* whether there are two nodes to promote, and draining every manager it   *)
(* says takes work leaves a node that does.                                *)
QuorumForetold ==
  asked.about = "quorum" =>
    LET nodes == asked.nodes
        managers == Rc!Managers(nodes)
        reachable == Rc!Reachable(nodes)
        enough(some, of) == 2 * Cardinality(some) > Cardinality(of)
        bears(n) == Cardinality({k \in 1..n : 2 * (n - k) > n})
        missing == managers \ reachable
        fragile == \E m \in reachable : ~ enough(reachable \ {m}, managers)
        findings == Rc!ClusterCheck({}, nodes, {}, {}, <<>>)
        said == {<<f.category, f.severity>> : f \in findings}
        drained == {n \in nodes : \E f \in findings : f.category = "manager-has-workloads" /\ f.id = n.id}
    IN  /\ (<<"quorum-at-risk", "critical">> \in said)
           = (managers # {} /\ (~ enough(reachable, managers) \/ (missing # {} /\ fragile)))
        /\ (<<"quorum-at-risk", "warning">> \in said)
           = (missing # {} /\ enough(reachable, managers) /\ ~ fragile)
        /\ (<<"even-managers", "warning">> \in said)
           = (Cardinality(managers) >= 2 /\ bears(Cardinality(managers)) = bears(Cardinality(managers) - 1))
        /\ <<"single-manager", "warning">> \in said =>
             \E others \in SUBSET {n \in nodes \ managers : n.state = "ready"} :
               Cardinality(others) = 2 /\ bears(Cardinality(managers \cup others)) > 0
        /\ drained # {} => \E n \in nodes \ drained : Rc!TakesWork(n)

AskLoad(busiest) ==
  \E other \in 0..busiest, third \in 0..busiest :
    asked' = [about |-> "load", loads |-> <<busiest, other, third>>]
Flagged(loads) ==
  LET on(i) == {[id |-> <<i, j>>, node |-> <<"d1", "d2", "d3">>[i], state |-> "running"] : j \in 1..loads[i]}
  IN  Rc!ClusterCheck({}, {}, UNION {on(i) : i \in 1..3}, {}, <<>>) # {}
Quietest(loads) == Min(Range(loads) \ {0})

(* Tasks are said to be spread unevenly only over nodes of which one runs  *)
(* more than three times what another does, and whenever one runs four     *)
(* times as many (cluster_checker.go).                                     *)
UnevenIsUneven ==
  asked.about = "load" =>
    /\ Flagged(asked.loads) => asked.loads[1] > 3 * Quietest(asked.loads)
    /\ asked.loads[1] >= 4 * Quietest(asked.loads) => Flagged(asked.loads)

----------------------------------------------------------------------------
(* Old versions *)

(* Who deletes every version said to be unused breaks no service, nor what *)
(* a rollback of one would restore, keeps the newest of each, and is told  *)
(* of no more (config_checker.go unusedVersions).                          *)
VersionsExpendable ==
  asked.about = "versions" =>
    LET unused == {f.id : f \in Rc!unusedVersions("config", asked.items, asked.uses)}
        left == {x \in asked.items : x.id \notin unused}
    IN  /\ \A u \in asked.uses : u.of \notin unused
        /\ \A x \in asked.items : \E y \in left : Vs!Key(y) = Vs!Key(x) /\ (y = x \/ ~ Vs!Newer(x, y))
        /\ Rc!unusedVersions("config", left, asked.uses) = {}

----------------------------------------------------------------------------
(* Who is told *)

(* Three managers that take work beside a worker, one of them full, a      *)
(* failing service that runs once, a network nearly used up and secrets    *)
(* of which the older is not used.                                         *)
AdvisedNode(i, name, role) ==
  Thing("node", <<"d1", "d2", "d3">>[i], name, "", i)
  @@ [addr |-> <<"10.1", "10.2", "">>[i], manager |-> IF role = "manager" THEN "reachable" ELSE ""]
Advised(p) ==
  LET node(i) == [AdvisedNode(i, p.names[i], p.roles[i]) EXCEPT !.role = p.roles[i], !.state = "ready"]
      svc == Sized(Pair(0, 0), Pair(0, 0))
             @@ [replicas |-> 1, health |-> "", restart |-> "none", newer |-> TRUE, failures |-> 6]
      secret(n) == [Thing("secret", <<"e1", "e2">>[n], <<"key_v1", "key_v2">>[n], "", n) EXCEPT
                      !.stem = "key", !.created = n]
  IN  [services |-> {svc}, nodes |-> {node(i) : i \in 1..3}, items |-> {secret(1), secret(2)},
       networks |-> {[id |-> "w1", name |-> "net"]},
       counts |-> [w \in {"w1"} |-> [used |-> 9, usable |-> 10]],
       series |-> {[key |-> k[1], host |-> k[2], usage |-> 95] :
                     k \in {<<"10.1:9", "10.1">>, <<"box:9", "box">>, <<"away:9", "away">>}}]
Findings(w) ==
  Rc!ConfigCheck(w.services, w.items, {})
  \cup Rc!ClusterCheck(w.services, w.nodes, {}, w.networks, w.counts)
  \cup Rc!OperationalCheck(w.services, w.nodes, <<w.series>>, <<>>)
  \cup Rc!ImageCheck(w.services)
  \cup Rc!SizingCheck(w.services, Pair(<<>>, <<>>), Pair(<<>>, <<>>), CHOOSE c \in Sizes : Rc!LoadSizing(c))

Advisable == ({"service", "node", "network", "secret", "swarm"}
              \X {"web", "host", "box", "", "d1", "d2", "d3", "away:9", "net", "key_v1", "key_v2", "cluster"})
Advisees ==
  {<<Grant(Everything, {"read"})>>, <<>>, <<Grant({<<"swarm", {"cluster"}>>}, {"read"})>>,
   <<Grant({<<"service", {"web"}>>, <<"secret", {"key_v1"}>>}, {"read"})>>,
   <<Grant({<<"secret", {"key_v1", "key_v2"}>>, <<"network", {"net"}>>}, {"read"})>>,
   <<Grant({<<"node", {"host", "d2"}>>}, {"read"})>>,
   <<Grant({<<"node", {"host", "box", "", "d1", "d2", "d3", "away:9"}>>}, {"read"})>>}
AskAdvice(policy) ==
  \E names \in [1..3 -> {"host", "box", ""}], roles \in [1..3 -> {"manager", "worker"}] :
    asked' = [about |-> "advice", policy |-> policy, world |-> [names |-> names, roles |-> roles]]

(* A finding is shown to who may read what it is about and what it lets    *)
(* guess, and to no one else, by the page and the tool alike, which count  *)
(* only what they show (recommendations/acl.go, mcp/recommendations.go).   *)
(* Of a node without a host name, which access control knows by its id,    *)
(* and of a host that is no node, only who reads any node is told.         *)
AdviceIsReadable ==
  asked.about = "advice" =>
    LET world == Advised(asked.world)
        resolver == ResolverOf({}, {r[2] : r \in Advisable})
        reads == {r \in Advisable : Acl!Can(Enforced(asked.policy), resolver, Identity, "read", r[1], r[2])}
        findings == Findings(world)
        page == Rc!HandleRecommendations(findings, Acl!HasAnyGrant(Enforced(asked.policy), Identity), reads)
        tool(severity) == Rc!toolGetRecommendations(findings, severity, reads)
        known(f) == CASE f.scope = "node" -> {n \in world.nodes : n.id = f.id}
                      [] f.scope = "secret" -> {x \in world.items : x.id = f.id}
                      [] OTHER -> {}
        target(f) == IF f.scope = "cluster" THEN <<"swarm", "cluster">>
                     ELSE IF known(f) = {} THEN <<f.scope, f.name>>
                     ELSE V!Resource(CHOOSE r \in known(f) : TRUE)
        open(f) == /\ target(f) \in reads
                   /\ f.category = "unused-version" => <<"secret", "key_v2">> \in reads
    IN  /\ \A f \in findings :
             /\ f \in page.items => open(f)
             /\ open(f) /\ f.name # "" => f \in page.items
             /\ open(f) /\ f.scope = "cluster" => f \in page.items
        /\ tool("").items = page.items
        /\ tool("").total = tool("critical").total + tool("warning").total + tool("info").total
        /\ \A s \in {"critical", "warning", "info"} : tool(s).total = tool("").summary[s]

----------------------------------------------------------------------------
(* When it is found *)

Checkers == {"cluster", "sizing"}
Tick == 4
Intervals == [c \in Checkers |-> IF c = "cluster" THEN Tick ELSE 3 * Tick]
AskTicks(late) ==
  \E delays \in [1..6 -> 0..1], ready \in BOOLEAN :
    asked' = [about |-> "ticks", ready |-> ready, ticks |-> [i \in 1..6 |-> late + Tick * i + delays[i]]]

(* What is shown is what each checker found last, and nothing it found     *)
(* before; no checker runs again before its interval has passed or later   *)
(* than a tick after, ticks that come late included; and nothing is found  *)
(* of a cache that is not filled (engine.go tick, RunAfter).               *)
AdviceIsRecent ==
  asked.about = "ticks" =>
    LET found == [now \in {0} \cup Range(asked.ticks) |-> [c \in Checkers |-> {<<c, now>>}]]
        after(n) == Rc!RunAfter(Checkers, Intervals, asked.ready, SubSeq(asked.ticks, 1, n), found)
    IN  IF ~ asked.ready THEN after(6).results = {}
        ELSE \A n \in 1..6 :
               /\ after(n).results = {<<c, after(n).ran[c]>> : c \in Checkers}
               /\ \A c \in Checkers :
                    LET between == after(n).ran[c] - after(n - 1).ran[c]
                    IN  /\ between = 0 \/ between >= Intervals[c]
                        /\ asked.ticks[n] - after(n).ran[c] <= Intervals[c]
                        /\ between <= Intervals[c] + Tick + 2

----------------------------------------------------------------------------
(* Failures *)

(* Up to four failures, each seen to happen or found afterwards, told of   *)
(* in any order; the process may restart between, keeping the counts.      *)
FailureTimes == {8, 10, 11, 13}
AskFailures(restart) ==
  \E n \in 1..4 : \E failures \in [1..n -> FailureTimes \X BOOLEAN] :
    asked' = [about |-> "failures", failures |-> failures, restart |-> restart]
Now == 14

(* A count covers its window, to the bucket, and no failure twice, over a  *)
(* restart too, and is not said to cover less than the counts that were    *)
(* kept; and a service is in a restart loop when as many failures as make  *)
(* one are recent, whatever order they became known in                     *)
(* (cache/restarts.go).                                                    *)
RestartsCounted ==
  asked.about = "failures" =>
    LET n == Len(asked.failures)
        r == asked.restart
        when(i) == asked.failures[i][1]
        seen == {i \in 1..n : asked.failures[i][2]}
        tell(rt, i) == IF i \in seen THEN Rs!Record(rt, when(i), Now) ELSE Rs!Backfill(rt, when(i))
        told(rt, some) == FoldLeft(tell, rt, some)
        first == told(Rs!NewRestartTracker(0), [i \in 1..Min({r, n}) |-> i])
        begun == IF r >= n THEN first ELSE Rs!Restore(Rs!NewRestartTracker(Now), Rs!Snapshot(first), Now)
        rt == told(begun, [i \in 1..(n - Min({r, n})) |-> r + i])
        known == {i \in 1..n : r >= n \/ i > r}
        within(some, t) == Cardinality({i \in some : when(i) >= t})
    IN  /\ \A lookback \in 1..Horizon + 1 :
             LET since == Now - Min({lookback, Horizon})
             IN  /\ Rs!Count(rt, lookback, Now) >= within(seen, since)
                 /\ Rs!Count(rt, lookback, Now) <= within(seen, since - Bucket + 1)
        /\ \A i \in seen : i <= r /\ when(i) >= Now - Horizon => Rs!TrackingSince(rt, Now) <= when(i)
        /\ Rs!isFlapping(rt, Now) = (within(known, Now - LoopWindow + 1) >= Loop)
        /\ Rs!Count(Rs!Forget(rt), Horizon, Now) = 0 /\ ~ Rs!isFlapping(Rs!Forget(rt), Now)

----------------------------------------------------------------------------
(* Addresses *)

Subnets == {1..1, 1..2, 1..4, 1..8}
PoolOf(subnet, range, gateway) ==
  [family |-> "IPv4", subnet |-> subnet, range |-> range, gateway |-> gateway,
   keepsEnds |-> Cardinality(subnet) > 2]
AskPool(subnet) ==
  \/ \E range \in {{}, 1..2, 3..4, 3..8, 5..8}, gateway \in {0, 1, 3, 8} :
       asked' = [about |-> "pool", pool |-> PoolOf(subnet, range, gateway), vips |-> {3}, first |-> {4},
                 second |-> {}, state |-> "running", ingress |-> FALSE, on |-> "d1"]
  \/ \E vips \in SUBSET {3, 4}, first \in {{}, {3}, {5}}, second \in {{4}, {5, 6}},
        state \in {"running", "failed"}, ingress \in BOOLEAN, on \in {"d1", "d2", ""} :
       asked' = [about |-> "pool", pool |-> PoolOf(subnet, {}, 0), vips |-> vips, first |-> first,
                 second |-> second, state |-> state, ingress |-> ingress, on |-> on]

(* The addresses of a pool are those the allocator can give out; one that  *)
(* several hold counts once, one a task let go of not at all, and each     *)
(* node that takes part needs one besides (ipam.go).  A count shared by    *)
(* requests that overlap is never older than the cluster each asked about, *)
(* and the newest is kept (cache/addresses.go).                            *)
AddressesCounted ==
  asked.about = "pool" =>
    LET pool == asked.pool
        inRange == IF pool.range = {} THEN pool.subnet ELSE pool.subnet \cap pool.range
        open == {a \in inRange : pool.keepsEnds => a \notin {Min(pool.subnet), Max(pool.subnet)}}
        given == {a \in open : IF pool.gateway # 0 THEN a # pool.gateway ELSE a # Min(open)}
        net == [id |-> "w1", scope |-> "swarm", driver |-> "", pools |-> {pool}, ingress |-> asked.ingress,
                attachable |-> FALSE]
        job(addresses, state, on) ==
          [joined |-> {"w1"}, addresses |-> [w \in {"w1"} |-> addresses], state |-> state, node |-> on]
        tasks == {job(asked.first, "running", "d1"), job(asked.second, asked.state, asked.on)}
        holding == {t \in tasks : t.state = "running"}
        c == Ad!Count(net, {[addresses |-> [w \in {"w1"} |-> asked.vips]]}, tasks, 3)
    IN  /\ Ad!usable(pool) = Cardinality(given)
        /\ c.used - c.balancers = Cardinality(asked.vips \cup UNION {t.addresses["w1"] : t \in holding})
        /\ c.balancers = IF asked.ingress THEN 3 ELSE Cardinality({"d1"} \cup ({t.node : t \in holding} \ {""}))
        /\ \A keys \in [1..2 -> 1..2], counted \in [1..2 -> 1..2], third \in 1..2 :
             (\A i \in 1..2 : keys[i] <= counted[i] /\ keys[i] <= third) =>
               LET memo == Ad!storeAddresses(Ad!storeAddresses(Ad!NoMemo, keys[1], counted[1]), keys[2], counted[2])
               IN  /\ Ad!NetworkAddresses(memo, third, third) >= third
                   /\ memo.generation = Max({keys[1], keys[2]})

----------------------------------------------------------------------------
(* All of it *)

AdviceSound ==
  /\ SizingSettles /\ QuorumForetold /\ UnevenIsUneven /\ VersionsExpendable /\ AdviceIsReadable
  /\ AdviceIsRecent /\ RestartsCounted /\ AddressesCounted
=============================================================================
