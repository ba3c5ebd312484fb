--------------------------- MODULE Recommendations ---------------------------
(***************************************************************************)
(* What is found wrong with the cluster, by checkers that run on their own *)
(* intervals, and who is shown it (internal/recommendations,               *)
(* internal/quorum).                                                       *)
(*                                                                         *)
(* A service has what it asks for (limit, reservation, each of "cpu" and   *)
(* "memory", 0 for none), replicas (0 when it runs everywhere), health and *)
(* restart, whether a newer image of its tag exists, and its failures; CPU *)
(* is in percents of a core and memory in sixteens of megabytes, so that   *)
(* suggestions are multiples of 5 and of 4.  A measurement is a number for *)
(* each service that has a series.  A node has its role, availability,     *)
(* state, addr and order in a list, and manager, which is its reachability *)
(* or "" of one that is none.                                              *)
(***************************************************************************)
EXTENDS Integers, Sequences, FiniteSets, FiniteSetsExt, SequencesExt

Vs == INSTANCE Versions

Finding(category, severity, scope, id, name) ==
  [category |-> category, severity |-> severity, scope |-> scope, id |-> id, name |-> name,
   resources |-> {}, current |-> 0, configured |-> 0, suggested |-> 0, reveals |-> {}]
About(svc, category, severity) == Finding(category, severity, "service", svc.id, svc.name)

----------------------------------------------------------------------------
(* Sizing *)

Resources == {"cpu", "memory"}

(* LoadSizing, in percents: a configuration it refuses starts nothing. *)
LoadSizing(cfg) ==
  /\ 100 <= cfg.headroom /\ cfg.headroom <= 1000
  /\ 0 <= cfg.over /\ cfg.over <= cfg.approaching /\ cfg.approaching <= cfg.at /\ cfg.at <= 100

(* roundCPU goes to the nearest step, roundMemory up, and neither below a  *)
(* step; n is in hundredths of the unit.                                   *)
roundCPU(n) == Max({5, 5 * ((n + 250) \div 500)})
roundMemory(n) == Max({4, 4 * ((n + 399) \div 400)})
Suggested(r, usage, cfg) ==
  IF r = "cpu" THEN roundCPU(usage * cfg.headroom) ELSE roundMemory(usage * cfg.headroom)

Hint(svc, category, severity, r, usage, configured, cfg) ==
  [About(svc, category, severity) EXCEPT
     !.resources = {r}, !.current = usage, !.configured = configured, !.suggested = Suggested(r, usage, cfg)]

(* evaluate, without measurements: what has no limit, and what has one but *)
(* reserves nothing; both resources make one finding.                      *)
Unset(svc, category, severity, rs) ==
  IF rs = {} THEN {} ELSE {[About(svc, category, severity) EXCEPT !.resources = rs]}
Unlimited(svc) == {r \in Resources : svc.limit[r] = 0}
Unreserved(svc) == {r \in Resources \ Unlimited(svc) : svc.reservation[r] = 0}
evaluateConfig(svc) ==
  Unset(svc, "no-limits", "warning", Unlimited(svc)) \cup Unset(svc, "no-reservations", "info", Unreserved(svc))

(* evaluate: the rate of now against a limit, and the p95 of the lookback  *)
(* against a reservation of what has a limit too.                          *)
Above(usage, percent, of) == usage * 100 > percent * of
evaluateLimit(svc, instant, cfg) ==
  {Hint(svc, "at-limit", "critical", r, instant[r], svc.limit[r], cfg) :
     r \in {x \in Resources \ Unlimited(svc) : Above(instant[x], cfg.at, svc.limit[x])}}
  \cup {Hint(svc, "approaching-limit", "warning", r, instant[r], svc.limit[r], cfg) :
          r \in {x \in Resources \ Unlimited(svc) : /\ ~ Above(instant[x], cfg.at, svc.limit[x])
                                                    /\ Above(instant[x], cfg.approaching, svc.limit[x])}}
evaluateReservation(svc, p95, cfg) ==
  {Hint(svc, "over-provisioned", "info", r, p95[r], svc.reservation[r], cfg) :
     r \in {x \in Resources \ (Unlimited(svc) \cup Unreserved(svc)) :
              p95[x] * 100 < cfg.over * svc.reservation[x]}}

measuredAlone(answers, name) ==
  /\ \A r \in Resources : answers[r] # <<>>
  /\ \E r \in Resources : name \in DOMAIN answers[r][1]

(* measured: one series without the other is silence. A query that fails   *)
(* is <<>>, one that answers <<a number for each service with a series>>.  *)
measured(answers, name) ==
  \A r \in Resources : answers[r] # <<>> /\ name \in DOMAIN answers[r][1]
Reading(answers, name) ==
  [r \in Resources |-> IF answers[r] # <<>> /\ name \in DOMAIN answers[r][1] THEN answers[r][1][name] ELSE 0]

(* evaluate, and SizingChecker.Check *)
evaluate(svc, instant, p95, cfg) ==
  evaluateConfig(svc)
  \cup (IF measured(instant, svc.name) THEN evaluateLimit(svc, Reading(instant, svc.name), cfg) ELSE {})
  \cup (IF measured(p95, svc.name) THEN evaluateReservation(svc, Reading(p95, svc.name), cfg) ELSE {})
SizingCheck(services, instant, p95, cfg) == UNION {evaluate(s, instant, p95, cfg) : s \in services}

----------------------------------------------------------------------------
(* The cluster *)

(* quorum.Of: only a manager found unreachable counts against it. *)
Managers(nodes) == {n \in nodes : n.manager # ""}
Reachable(nodes) == {n \in Managers(nodes) : n.manager # "unreachable"}
QuorumOf(nodes) ==
  LET managers == Cardinality(Managers(nodes))
      reachable == Cardinality(Reachable(nodes))
      size == IF managers = 0 THEN 0 ELSE managers \div 2 + 1
  IN  [managers |-> managers, reachable |-> reachable, size |-> size,
       held |-> managers > 0 /\ reachable >= size, canLose |-> Max({reachable - size, 0})]

OfCluster(category, severity) == Finding(category, severity, "cluster", "", "")
quorumRecommendations(nodes) ==
  LET q == QuorumOf(nodes)
      ready == Cardinality({n \in nodes : n.state = "ready"})
      lost == q.managers > 0 /\ ~ q.held
      fewer == ~ lost /\ q.reachable < q.managers
  IN  {f \in {OfCluster("single-manager", "warning")} : q.managers = 1 /\ ready >= 3}
      \cup {f \in {OfCluster("even-managers", "warning")} : q.managers >= 2 /\ q.managers % 2 = 0}
      \cup {f \in {OfCluster("quorum-at-risk", "critical")} : lost \/ (fewer /\ q.canLose = 0)}
      \cup {f \in {OfCluster("quorum-at-risk", "warning")} : fewer /\ q.canLose > 0}

(* addressRecommendations, of networks that have a figure; what is in use  *)
(* may pass what is usable.                                                *)
addressRecommendations(networks, counts) ==
  {Finding("network-addresses-low",
           IF counts[n.id].used * 100 >= counts[n.id].usable * 95 THEN "critical" ELSE "warning",
           "network", n.id, n.name) :
     n \in {x \in networks : /\ x.id \in DOMAIN counts /\ counts[x.id].usable # 0
                             /\ counts[x.id].used * 100 >= counts[x.id].usable * 80}}

(* ClusterChecker.Check: of the nodes that run anything, the busiest runs  *)
(* four times what the quietest does or more; the division drops the rest. *)
uneven(tasks) ==
  LET busy == {t.node : t \in {x \in tasks : x.state = "running"}}
      load == {Cardinality({t \in tasks : t.state = "running" /\ t.node = n}) : n \in busy}
  IN  Cardinality(busy) >= 2 /\ Max(load) \div Min(load) > 3
TakesWork(n) == n.availability = "active" /\ n.state = "ready"
managersWithWork(nodes) ==
  IF \E n \in nodes : n.role = "worker" /\ TakesWork(n)
  THEN {n \in nodes : n.role = "manager" /\ n.availability = "active"}
  ELSE {}
ClusterCheck(services, nodes, tasks, networks, counts) ==
  {[About(s, "single-replica", "info") EXCEPT !.suggested = 2] : s \in {x \in services : x.replicas = 1}}
  \cup {Finding("manager-has-workloads", "warning", "node", n.id, n.name) : n \in managersWithWork(nodes)}
  \cup quorumRecommendations(nodes) \cup addressRecommendations(networks, counts)
  \cup {f \in {OfCluster("uneven-distribution", "info")} : uneven(tasks)}

----------------------------------------------------------------------------
(* Configuration, images, operation *)

(* unusedVersions: of the items of one kind, an older version nothing      *)
(* uses, a previous spec counted; it discloses the newest.                 *)
unusedVersions(kind, items, uses) ==
  {[Finding("unused-version", "info", kind, it.id, it.name) EXCEPT
      !.reveals = {<<kind, x.name>> : x \in {y \in Vs!Versions(items, it) : Vs!Rank(items, y) = 0}}] :
     it \in {x \in items : /\ Vs!Grouped(items, x) /\ Vs!Rank(items, x) > 0
                           /\ ~ \E u \in uses : u.of = x.id}}

(* ConfigChecker.Check *)
ConfigCheck(services, items, uses) ==
  {About(s, "no-healthcheck", "warning") : s \in {x \in services : x.health \in {"", "NONE"}}}
  \cup {About(s, "no-restart-policy", "warning") : s \in {x \in services : x.restart = "none"}}
  \cup UNION {unusedVersions(k, {it \in items : it.kind = k}, uses) : k \in {"secret", "config"}}

(* ImageChecker.Check *)
ImageCheck(services) == {About(s, "newer-image", "info") : s \in {x \in services : x.newer}}

(* nodeRecs: a series names a host, by its address first; of two nodes at  *)
(* one address or of one name the later is taken, and a host that is no    *)
(* node's keeps the series' own name.                                      *)
nodeRecs(nodes, series, category) ==
  LET last(some) == {n \in some : \A m \in some : m.order <= n.order}
      at(host) == last({n \in nodes : n.addr = host /\ host # ""})
      called(host) == last({n \in nodes : n.name = host /\ host # ""})
      target(e) == IF at(e.host) # {} THEN at(e.host) ELSE called(e.host)
      found(e) == IF target(e) = {} THEN {[id |-> "", name |-> e.key]}
                  ELSE {[id |-> n.id, name |-> n.name] : n \in target(e)}
  IN  UNION {{Finding(category, "critical", "node", t.id, t.name) : t \in found(e)} :
               e \in {x \in series : x.usage > 90}}

(* OperationalChecker.Check: failures need no measurements. *)
flakyServiceRecs(services) == {About(s, "flaky-service", "warning") : s \in {x \in services : x.failures > 5}}
OperationalCheck(services, nodes, disk, memory) ==
  flakyServiceRecs(services)
  \cup (IF disk = <<>> THEN {} ELSE nodeRecs(nodes, disk[1], "node-disk-full"))
  \cup (IF memory = <<>> THEN {} ELSE nodeRecs(nodes, memory[1], "node-memory-pressure"))

----------------------------------------------------------------------------
(* The engine *)

(* NewEngine, and what it keeps of each checker: nothing has run. *)
Never == -1
NewEngine(checkers) ==
  [last |-> [c \in checkers |-> {}], ran |-> [c \in checkers |-> Never], results |-> {}, lastTick |-> Never]

(* tick: those whose interval has passed run, and the rest keep what they  *)
(* found; found gives what each would find now.                            *)
due(e, interval, now, force) ==
  {c \in DOMAIN e.last : force \/ now - e.ran[c] >= interval[c]}
tick(e, interval, now, force, found) ==
  LET toRun == due(e, interval, now, force)
      last == [c \in DOMAIN e.last |-> IF c \in toRun THEN found[c] ELSE e.last[c]]
  IN  IF toRun = {} THEN e
      ELSE [last |-> last, ran |-> [c \in DOMAIN e.ran |-> IF c \in toRun THEN now ELSE e.ran[c]],
            results |-> UNION {last[c] : c \in DOMAIN last}, lastTick |-> now]

(* RunAfter: nothing runs before the cache is filled, then everything at   *)
(* once, then what is due at each tick; found is a function of the instant. *)
RunAfter(checkers, interval, ready, ticks, found) ==
  IF ~ ready THEN NewEngine(checkers)
  ELSE FoldLeft(LAMBDA e, now : tick(e, interval, now, FALSE, found[now]),
                tick(NewEngine(checkers), interval, 0, TRUE, found[0]), ticks)

----------------------------------------------------------------------------
(* Who is shown it *)

(* ACLResource, Readable *)
ACLResource(f) ==
  IF f.scope = "cluster" THEN <<"swarm", "cluster">> ELSE <<f.scope, f.name>>
ReadableTargets(findings, reads) == {f \in findings : ACLResource(f) \in reads}
Readable(findings, reads) ==
  {f \in findings : ACLResource(f) \in reads /\ f.reveals \subseteq reads}

(* ComputeSummary *)
ComputeSummary(findings) ==
  [s \in {"critical", "warning", "info"} |-> Cardinality({f \in findings : f.severity = s})]

(* HandleRecommendations, of who holds any grant *)
HandleRecommendations(findings, granted, reads) ==
  IF ~ granted THEN [code |-> "ACL001", items |-> {}]
  ELSE [code |-> "200", items |-> Readable(findings, reads)]

(* toolGetRecommendations counts what is left of what the caller may see.  *)
toolGetRecommendations(findings, severity, reads) ==
  LET items == {f \in Readable(findings, reads) : severity = "" \/ f.severity = severity}
  IN  [items |-> items, total |-> Cardinality(items), summary |-> ComputeSummary(items)]
=============================================================================
