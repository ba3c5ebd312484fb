------------------------------- MODULE Routes -------------------------------
(***************************************************************************)
(* The routes the API registers (api/router.go), the operations level and  *)
(* the grant each write needs (cluster/operations.go, api/allow.go), and   *)
(* the two places that tell a caller which methods are open to it: the     *)
(* Allow a GET sends, and the one OPTIONS and a 405 send.                  *)
(*                                                                         *)
(* A path is the sequence of its segments; "{}" is a wildcard.  A write    *)
(* route has                                                               *)
(*   gate  whose grant it takes: the record the id resolves to, the name   *)
(*         in the path, the type, the swarm, the created name, the exec    *)
(*         grant, or the annotation use case's own rule;                   *)
(*   cond  its precondition: "matched" and "timed" compare with the        *)
(*         representation a GET of the same path serves, "bare" writes     *)
(*         have none, and "none" is not conditional;                       *)
(*   body  "json", "always" (whatever Prefer says), or "empty" (a 204);    *)
(*   both  whether a PATCH takes JSON Patch beside merge patch.            *)
(***************************************************************************)
EXTENDS Integers, Sequences, FiniteSets, FiniteSetsExt, SequencesExt, TLC

Wild == "{}"

(* operationTiers, and Tier: an operation missing from the table needs the *)
(* highest level.                                                          *)
operationTiers ==
  [op \in {"service.scale", "service.image", "service.rollback", "service.restart"} |-> 1]
  @@ [op \in {"service.update", "service.secrets", "service.configs",
              "service.mounts", "node.labels", "config.create",
              "secret.create"} |-> 2]
  @@ [op \in {"service.remove", "node.update", "task.remove", "config.remove", "secret.remove",
              "network.remove", "volume.remove", "exec.open", "exec.end"} |-> 3]
Tier(op) == IF op \in DOMAIN operationTiers THEN operationTiers[op] ELSE 3

Write(method, path, gate, level, cond, body) ==
  [method |-> method, path |-> path, gate |-> gate, level |-> level, cond |-> cond,
   body |-> body, both |-> FALSE]
TakesJSONPatch(route) == [route EXCEPT !.both = TRUE]

(* A read: what it serves beside JSON and HTML, and whose Allow it sends:  *)
(* "own" writes of the path under the gate named, "reads" for GET and HEAD *)
(* alone, "silent" for none.                                               *)
Read(path, feeds, allow, gate) ==
  [method |-> "GET", path |-> path, feeds |-> feeds, allow |-> allow, gate |-> gate]
Reads(paths, feeds) == {Read(p, feeds, "reads", "none") : p \in paths}
ListFeeds == {"SSE", "Atom", "JSONFeed", "CSV"}
DetailFeeds == {"SSE", "Atom", "JSONFeed"}

----------------------------------------------------------------------------
(* routes.meta: who is asking, health, licences, metrics, and the resync,  *)
(* which any grant may ask for and no level closes.                        *)
meta == [reads |-> Reads({<<"-", "health">>, <<"-", "ready">>, <<"-", "docker-latest-version">>,
                          <<"-", "licenses">>, <<"-", "licenses", "texts", Wild>>,
                          <<"-", "notices">>, <<"-", "sbom.cdx">>, <<"-", "metrics">>,
                          <<"auth", "whoami">>, <<"metrics", "status">>, <<"metrics", "labels">>,
                          <<"metrics", "labels", Wild>>}, {})
                   \cup Reads({<<"metrics">>}, {"SSE"}),
         writes |-> {},
         ungated |-> {<<"POST", <<"-", "resync">>>>}]

(* routes.docs *)
docs == [reads |-> Reads({<<"api">>, <<"api", "openapi.yaml">>, <<"api", "scalar.js">>,
                          <<"api", "context.jsonld">>, <<"api", "asyncapi">>,
                          <<"api", "asyncapi.yaml">>, <<"opensearch.xml">>,
                          <<".well-known", "api-catalog">>, <<"api", "errors">>,
                          <<"api", "errors", Wild>>}, {}),
         writes |-> {}, ungated |-> {}]

(* routes.events *)
events == [reads |-> Reads({<<"events">>}, DetailFeeds), writes |-> {}, ungated |-> {}]

(* routes.cluster *)
cluster ==
  [reads |-> Reads({<<"cluster">>, <<"cluster", "metrics">>, <<"cluster", "capacity">>,
                    <<"disk-usage">>}, {})
             \cup {Read(<<"swarm">>, {}, "own", "swarm")},
   writes |->
     {Write("PATCH", <<"swarm", part>>, "swarm", 2, "bare", "json")
        : part \in {"orchestration", "raft", "dispatcher"}}
     \cup {Write("PATCH", <<"swarm", part>>, "swarm", 3, "bare", "json")
        : part \in {"ca", "encryption"}}
     \cup {Write("POST", <<"swarm", verb>>, "swarm", 3, "bare", "empty")
        : verb \in {"rotate-token", "rotate-unlock-key", "force-rotate-ca", "unlock"}}
     \cup {Write("GET", <<"swarm", "unlock-key">>, "swarm", 3, "none", "json"),
           Write("DELETE", <<"tokens", Wild>>, "swarm", 3, "bare", "empty")},
   ungated |-> {}]

(* routes.plugins *)
plugins ==
  [reads |-> {Read(<<"plugins">>, {}, "own", "type"), Read(<<"plugins", Wild>>, {}, "own", "path"),
              Read(<<"swarm", "plugins">>, {}, "own", "type")},
   writes |->
     {Write("POST", <<"plugins", "privileges">>, "type", 3, "bare", "always"),
      Write("POST", <<"plugins">>, "type", 3, "none", "always"),
      Write("POST", <<"plugins", Wild, "enable">>, "path", 2, "bare", "empty"),
      Write("POST", <<"plugins", Wild, "disable">>, "path", 2, "bare", "empty"),
      Write("DELETE", <<"plugins", Wild>>, "path", 3, "matched", "empty"),
      Write("POST", <<"plugins", Wild, "upgrade">>, "path", 3, "bare", "json"),
      Write("PATCH", <<"plugins", Wild, "settings">>, "path", 2, "bare", "json")},
   ungated |-> {}]

(* routes.nodes *)
nodes ==
  [reads |-> {Read(<<"nodes">>, ListFeeds, "own", "none"),
              Read(<<"nodes", Wild>>, DetailFeeds, "own", "record"),
              Read(<<"nodes", Wild, "tasks">>, {"CSV"}, "reads", "none"),
              Read(<<"nodes", Wild, "drain-impact">>, {}, "reads", "none"),
              Read(<<"nodes", Wild, "labels">>, {}, "own", "record"),
              Read(<<"nodes", Wild, "role">>, {}, "own", "record")},
   writes |->
     {Write("PUT", <<"nodes", Wild, "availability">>, "record", Tier("node.update"), "bare", "json"),
      TakesJSONPatch(Write("PATCH", <<"nodes", Wild, "labels">>, "record",
                           Tier("node.labels"), "matched", "json")),
      Write("PUT", <<"nodes", Wild, "role">>, "record", Tier("node.update"), "matched", "json"),
      Write("DELETE", <<"nodes", Wild>>, "record", 3, "timed", "empty")},
   ungated |-> {}]

(* routes.services, its reads and its tier 1 writes *)
serviceReads ==
  {Read(<<"services">>, ListFeeds, "own", "none"),
   Read(<<"services", Wild>>, DetailFeeds \cup {"YAML"}, "own", "record"),
   Read(<<"services", Wild, "tasks">>, {"CSV"}, "reads", "none"),
   Read(<<"services", Wild, "logs">>, {"SSE"}, "reads", "none")}
  \cup {Read(<<"services", Wild, part>>, {}, "own", "record")
          : part \in {"env", "labels", "resources", "healthcheck", "placement", "ports",
                      "update-policy", "rollback-policy", "log-driver", "configs", "secrets",
                      "networks", "mounts", "container-config", "mode", "endpoint-mode"}}
  \cup Reads({<<"services", Wild, doc>> : doc \in {"provenance", "sbom", "dockerfile"}}, {})
serviceOperations ==
  {Write("PUT", <<"services", Wild, "scale">>, "record", Tier("service.scale"), "bare", "json"),
   Write("PUT", <<"services", Wild, "image">>, "record", Tier("service.image"), "bare", "json"),
   Write("POST", <<"services", Wild, "rollback">>, "record", Tier("service.rollback"), "bare", "json"),
   Write("POST", <<"services", Wild, "restart">>, "record", Tier("service.restart"), "bare", "json")}

(* routes.services, the writes of a part of the service's specification *)
serviceSections ==
  LET section(method, part, level) ==
        Write(method, <<"services", Wild, part>>, "record", level, "matched", "json")
  IN  {TakesJSONPatch(section("PATCH", part, Tier("service.update"))) : part \in {"env", "labels"}}
      \cup {section("PATCH", part, Tier("service.update"))
              : part \in {"resources", "healthcheck", "ports", "update-policy", "rollback-policy",
                          "log-driver", "container-config"}}
      \cup {section("PUT", part, Tier("service.update")) : part \in {"healthcheck", "placement"}}
      \cup {section("PATCH", "configs", Tier("service.configs")),
            section("PATCH", "secrets", Tier("service.secrets")),
            section("PATCH", "networks", 2),
            section("PATCH", "mounts", Tier("service.mounts")),
            section("PUT", "endpoint-mode", 3)}
services ==
  [reads |-> serviceReads,
   writes |-> serviceOperations \cup serviceSections
              \cup {Write("DELETE", <<"services", Wild>>, "record", Tier("service.remove"),
                          "timed", "empty")},
   ungated |-> {}]

(* routes.tasks *)
tasks ==
  [reads |-> {Read(<<"tasks">>, ListFeeds, "own", "none"),
              Read(<<"tasks", Wild>>, DetailFeeds, "own", "record"),
              Read(<<"tasks", Wild, "logs">>, {"SSE"}, "reads", "none")}
             \cup Reads({<<"tasks", Wild, doc>> : doc \in {"provenance", "sbom", "dockerfile"}}, {}),
   writes |-> {Write("DELETE", <<"tasks", Wild>>, "record", Tier("task.remove"), "matched", "empty")},
   ungated |-> {}]

(* routes.exec, registered once exec is enabled.  The level of an opening  *)
(* is checked, and its refusal audited, in execDecision.                   *)
exec ==
  [reads |-> {Read(<<"tasks", Wild, "exec">>, {}, "own", "exec"),
              Read(<<"exec">>, {}, "reads", "none"),
              Read(<<"exec", Wild>>, {}, "own", "exec")},
   writes |-> {Write("POST", <<"tasks", Wild, "exec">>, "exec", Tier("exec.open"), "none", "json"),
               Write("DELETE", <<"exec", Wild>>, "exec", Tier("exec.end"), "none", "empty")},
   ungated |-> {}]

(* routes.stacks *)
stacks ==
  [reads |-> {Read(<<"stacks">>, ListFeeds, "own", "none"),
              Read(<<"stacks", "summary">>, {}, "reads", "none"),
              Read(<<"stacks", Wild>>, DetailFeeds \cup {"YAML"}, "own", "path")},
   writes |-> {Write("DELETE", <<"stacks", Wild>>, "path", 3, "matched", "json")},
   ungated |-> {}]

(* routes.configs and routes.secrets: a create checks its grant on the     *)
(* name in the body.                                                       *)
createOp(root, op) == Write("POST", <<root>>, "created", Tier(op), "none", "json")
versioned(root, removal, create) ==
  [reads |-> {Read(<<root>>, ListFeeds, "own", "created"),
              Read(<<root, Wild>>, DetailFeeds, "own", "record"),
              Read(<<root, Wild, "labels">>, {}, "own", "record")},
   writes |-> {Write("DELETE", <<root, Wild>>, "record", Tier(removal), "matched", "empty"),
               createOp(root, create),
               TakesJSONPatch(Write("PATCH", <<root, Wild, "labels">>, "record", 2, "matched",
                                    "json"))},
   ungated |-> {}]
configs == versioned("configs", "config.remove", "config.create")
secrets ==
  LET v == versioned("secrets", "secret.remove", "secret.create")
  IN  [v EXCEPT !.reads = @ \cup Reads({<<"secret-entries", Wild>>}, {})]

(* routes.networks, routes.volumes *)
networks ==
  [reads |-> {Read(<<"networks">>, ListFeeds, "own", "none"),
              Read(<<"networks", Wild>>, DetailFeeds, "own", "record")},
   writes |-> {Write("DELETE", <<"networks", Wild>>, "record", Tier("network.remove"), "matched",
                     "empty")},
   ungated |-> {}]
volumes ==
  [reads |-> {Read(<<"volumes">>, ListFeeds, "own", "none"),
              Read(<<"volumes", Wild>>, DetailFeeds, "own", "path")},
   writes |-> {Write("DELETE", <<"volumes", Wild>>, "path", Tier("volume.remove"), "matched",
                     "empty")},
   ungated |-> {}]

(* routes.annotations: no level gates them. *)
annotations ==
  [reads |-> {Read(<<"annotations">>, {"Atom", "JSONFeed", "CSV"}, "own", "annotate"),
              Read(<<"annotations", "tags">>, {"CSV"}, "reads", "none"),
              Read(<<"annotations", Wild>>, {}, "own", "edit")},
   writes |-> {Write("POST", <<"annotations">>, "annotate", 0, "none", "always"),
               Write("PATCH", <<"annotations", Wild>>, "edit", 0, "timed", "json"),
               Write("DELETE", <<"annotations", Wild>>, "edit", 0, "timed", "empty")},
   ungated |-> {}]

(* routes.views, and the paths of two removed projections, answered 410. *)
views ==
  [reads |-> Reads({<<"ports">>}, {"CSV"})
             \cup Reads({<<"recommendations">>, <<"history">>}, {"Atom", "JSONFeed", "CSV"})
             \cup Reads({<<"search">>}, {"Atom", "JSONFeed"})
             \cup Reads({<<"profile">>}, {})
             \cup Reads({<<"topology">>}, {"JGF", "GraphML", "DOT"})
             \cup {Read(<<"topology", gone>>, {}, "silent", "none")
                     : gone \in {"networks", "placement"}},
   writes |-> {}, ungated |-> {}]

(* routes.mounts: the entry point, under its two names. *)
mounts == [reads |-> Reads({<<>>, <<"index">>}, {}), writes |-> {}, ungated |-> {}]

(* newRouter registers every area; which exist does not vary by caller. *)
areas == {meta, docs, events, cluster, plugins, nodes, services, tasks, exec, stacks, configs,
          secrets, networks, volumes, views, annotations, mounts}
readRoutes == UNION {a.reads : a \in areas}
writeRoutes == UNION {a.writes : a \in areas}
ungatedRoutes == UNION {a.ungated : a \in areas}

----------------------------------------------------------------------------
(* The mux *)

Methods == {"GET", "HEAD", "POST", "PUT", "PATCH", "DELETE"}
writeMethods == {"PUT", "POST", "PATCH", "DELETE"}

MatchesPath(pattern, path) ==
  Len(pattern) = Len(path) /\ \A i \in DOMAIN path : pattern[i] \in {Wild, path[i]}

(* Patterns with their methods; a GET pattern answers HEAD as well. *)
patterns == {<<r.method, r.path>> : r \in readRoutes \cup writeRoutes} \cup ungatedRoutes
Answers(p, method) == p[1] = method \/ (p[1] = "GET" /\ method = "HEAD")

(* The most specific of the patterns that match: the one with literals     *)
(* where the others have wildcards.                                        *)
MostSpecificOf(matching) == {p \in matching : \A o \in matching : MatchesPath(o[2], p[2])}
route(method, path) ==
  MostSpecificOf({p \in patterns : Answers(p, method) /\ MatchesPath(p[2], path)})
serves(method, path) == route(method, path) # {}

(* routeRecorder.allows *)
AndOptions(own) == IF own = {} THEN {} ELSE own \cup {"OPTIONS"}
allows(path) == AndOptions({m \in Methods : serves(m, path)})

(* A caller: its level, and the gates whose grant it holds for the target. *)
Permits(r, caller) == r.gate \in caller.grants
Reaches(r, caller) == caller.level >= r.level

OpenAtLevel(path, caller) ==
  {m \in allows(path) :
     \A p \in route(m, path) : \A r \in writeRoutes :
       r.method = m /\ r.path = p[2] => Reaches(r, caller)}

(* routeRecorder.open: allows, less the writes the level or grant closes. *)
open(path, caller) ==
  {m \in allows(path) :
     \A p \in route(m, path) : \A r \in writeRoutes :
       r.method = m /\ r.path = p[2] => Reaches(r, caller) /\ Permits(r, caller)}

(* open's Accept-Patch: of the PATCH among them. *)
acceptPatch(path, caller) ==
  LET patches == {r \in writeRoutes : r.method = "PATCH" /\ <<"PATCH", r.path>> \in route("PATCH", path)}
  IN  IF "PATCH" \notin open(path, caller) THEN {}
      ELSE UNION {IF r.both THEN {"json-patch", "merge-patch"} ELSE {"merge-patch"} : r \in patches}

(* routedWrites: the methods routed at the pattern a GET of path matches.  *)
routedWrites(pattern, caller) ==
  {r.method : r \in {w \in writeRoutes : w.method \in writeMethods /\ w.path = pattern
                                         /\ Reaches(w, caller)}}

(* routedWrites' below: the sub-resources directly under it that route a   *)
(* write, which a detail's response links.                                 *)
editLinks(pattern, caller) ==
  {w.path[Len(w.path)] : w \in {x \in writeRoutes :
     /\ x.method \in writeMethods /\ Reaches(x, caller)
     /\ Len(x.path) = Len(pattern) + 1 /\ SubSeq(x.path, 1, Len(pattern)) = pattern
     /\ x.path[Len(x.path)] # Wild}}

(* setAllow, setAllowSubResource, setAllowList, allowReads, and what the   *)
(* annotation and exec handlers answer: the Allow of a GET.                *)
AllowOf(read, caller) ==
  {"GET", "HEAD"} \cup
  (IF read.allow = "own" /\ read.gate \in caller.grants
   THEN routedWrites(read.path, caller) ELSE {})
=============================================================================
