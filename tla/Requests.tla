------------------------------ MODULE Requests ------------------------------
(***************************************************************************)
(* One request through the API: the middleware every request passes        *)
(* (api/router.go newRouter, in its order), the gates of a write route     *)
(* (api/allow.go, write_middleware.go, precondition.go), what each write   *)
(* handler checks, and how a refusal of the use case or of the engine is   *)
(* answered.                                                               *)
(*                                                                         *)
(* An answer is a problem's code, "307", "204 preflight", "login" (the     *)
(* provider has redirected), "handler" (a read reaches its handler) or     *)
(* "done".  A step of the chain is <<whether it lets the request pass, its *)
(* answer when it does not>>.                                              *)
(*                                                                         *)
(* A world is the set of records the cache holds, each a kind, an id, a    *)
(* name, the service a task belongs to and the stack.  A caller has the    *)
(* resources it may read and those it may write, and its level.            *)
(***************************************************************************)
EXTENDS Integers, Sequences, FiniteSets, FiniteSetsExt, SequencesExt, TLC

Neg == INSTANCE Negotiation
Rt == INSTANCE Routes

Passes == ""
FirstAnswer(steps) ==
  LET refusing == {i \in DOMAIN steps : ~ steps[i][1]}
  IN  IF refusing = {} THEN Passes ELSE steps[Min(refusing)][2]

isSafeMethod(method) == method \in {"GET", "HEAD"}

----------------------------------------------------------------------------
(* Who is asking, and from where *)

Peer == "peer"
Garbled == "garbled"

ResolveFirst(net, trusted) ==
  LET nodes == IF net.style = "rfc7239" THEN net.forwarded ELSE net.xff
  IN  IF net.peer \notin trusted \/ nodes = <<>> THEN net.peer ELSE nodes[1]

(* resolveClientIP over the forwarding header the configured proxies write *)
(* (dropUnwrittenForwarding deletes the other): the last hop that is not a *)
(* trusted proxy; an unreadable hop ends the walk at the peer.             *)
resolveClientIP(net, trusted) ==
  LET nodes == IF net.style = "rfc7239" THEN net.forwarded ELSE net.xff
      hops == {i \in DOMAIN nodes : nodes[i] \notin trusted}
  IN  IF net.peer \notin trusted \/ hops = {} \/ nodes[Max(hops)] = Garbled
      THEN net.peer ELSE nodes[Max(hops)]

(* hostGuard *)
isProbe(method, path) ==
  isSafeMethod(method) /\ path \in {<<"-", "health">>, <<"-", "ready">>, <<"-", "metrics">>}
hostGuard(q, cfg) == isProbe(q.method, q.path) \/ q.peer \in cfg.proxies \/ q.host \in cfg.hosts

(* cors: a preflight from an origin it lists is answered here. *)
Wildcard(cfg) == "*" \in cfg.origins
preflight(q, cfg) ==
  /\ cfg.origins # {} /\ q.path # <<"oauth", "authorize">>
  /\ q.origin # "" /\ (Wildcard(cfg) \/ q.origin \in cfg.origins)
  /\ q.method = "OPTIONS"

(* crossOriginProtection.  The check itself is net/http's: a safe method,  *)
(* the browser's word that the site is the same, or a trusted origin.      *)
carriesItsOwnProof(path) ==
  path \in {<<"mcp">>, <<"oauth", "token">>, <<"oauth", "revoke">>, <<"oauth", "register">>}
trustedOrigins(cfg) ==
  (IF Wildcard(cfg) THEN {} ELSE cfg.origins) \cup (cfg.publicURL \ {""})
crossOriginProtection(q, cfg) ==
  \/ carriesItsOwnProof(q.path)
  \/ isSafeMethod(q.method) \/ q.method = "OPTIONS"
  \/ q.fetchSite \in {"same-origin", "none"}
  \/ q.fetchSite = "" /\ q.origin \in {"", q.host}
  \/ q.origin \in trustedOrigins(cfg)

ExemptMeta(path) ==
  /\ path # <<>>
  /\ \/ path[1] \in {"-", "api", "assets", "auth", ".well-known", "metrics"}
     \/ path = <<"mcp">>

(* auth.isExempt, and Middleware with writeAuthFailure: a provider's own   *)
(* code wins; a challenge, its own or the resource's, makes it a 401.      *)
isExempt(path) ==
  /\ path # <<"-", "resync">> /\ path # <<>>
  /\ \/ path[1] \in {"-", "api", "assets", "auth", ".well-known"}
     \/ path = <<"mcp">>
     \/ path[1] = "oauth" /\ path \in {<<"oauth", e>> : e \in {"token", "revoke", "register", "jwks"}}
authFailure(q) ==
  LET resourceChallenge == ~ q.auth.bearer /\ (q.path = <<>> \/ q.path[1] # "oauth")
  IN  IF q.auth.code # "" THEN q.auth.code
      ELSE IF q.auth.challenge \/ resourceChallenge THEN "AUT001" ELSE "AUT006"

(* readsClusterState and requireReady *)
readsClusterState(q) ==
  /\ Rt!serves(q.method, q.path)
  /\ q.path \notin {<<>>, <<"index">>, <<"opensearch.xml">>, <<"profile">>, <<"metrics">>}
  /\ q.path[1] \notin {"-", "api", "auth", "oauth", ".well-known"}
  /\ ~ (Len(q.path) > 1 /\ q.path[1] = "metrics" /\ q.path[2] = "labels")
requireReady(q, srv) ==
  \/ srv.ready
  \/ isSafeMethod(q.method) /\ srv.populated
  \/ ~ readsClusterState(q)
  \/ Neg!Negotiated(q.accept, q.suffix) \in {"HTML", "SSE", Neg!Unsupported}

(* The chain up to the canonical redirect. *)
Arrival(q, cfg, srv) ==
  FirstAnswer(<<<<q.clean, "307">>, <<hostGuard(q, cfg), "CSR002">>,
                <<~ preflight(q, cfg), "204 preflight">>,
                <<crossOriginProtection(q, cfg), "CSR001">>,
                <<isExempt(q.path) \/ q.auth.how # "refused", authFailure(q)>>,
                <<isExempt(q.path) \/ q.auth.how # "redirected", "login">>,
                <<requireReady(q, srv), "ENG001">>>>)

----------------------------------------------------------------------------
(* Records *)

NoRecord == [kind |-> "", id |-> "", name |-> "", service |-> "", stack |-> ""]
Resource(record) == <<record.kind, IF record.kind = "task" THEN record.id ELSE record.name>>
(* Record.WriteResource: a task is written as its service. *)
WriteResource(record) ==
  IF record.kind = "task" /\ record.service # "" THEN <<"service", record.service>>
  ELSE Resource(record)

(* resolveIn and LookupAs: an id first, then a name if it names only one.  *)
(* A task's name resolves for who may read its service.                    *)
LookupAs(world, kind, key, reads) ==
  LET byID == {r \in world : r.kind = kind /\ r.id = key}
      byName == {r \in world : r.kind = kind /\ r.name = key}
      visible == {r \in byName : kind # "task" \/ <<"service", r.service>> \in reads}
  IN  IF byID # {} THEN [found |-> TRUE, ambiguous |-> FALSE, record |-> CHOOSE r \in byID : TRUE]
      ELSE IF Cardinality(byName) > 1
           THEN [found |-> FALSE, ambiguous |-> TRUE, record |-> NoRecord]
      ELSE IF visible = {} THEN [found |-> FALSE, ambiguous |-> FALSE, record |-> NoRecord]
      ELSE [found |-> TRUE, ambiguous |-> FALSE, record |-> CHOOSE r \in visible : TRUE]

canonicalKinds == {"service", "node", "task", "config", "secret", "network"}
resolvableKinds == canonicalKinds \cup {"stack", "volume"}

(* canonicalIdentifier and reportAmbiguousName: a readable record asked    *)
(* for by its name is redirected to its id.                                *)
canonicalIdentifier(q, caller, world) ==
  LET found == LookupAs(world, q.kind, q.key, caller.reads)
  IN  IF Neg!Negotiated(q.accept, q.suffix) = "HTML" \/ q.kind \notin canonicalKinds \/ q.key = ""
      THEN Passes
      ELSE IF found.ambiguous
           THEN IF q.kind # "task" /\ <<q.kind, q.key>> \in caller.reads THEN "API015" ELSE Passes
      ELSE IF found.found /\ found.record.id # q.key /\ Resource(found.record) \in caller.reads
           THEN "307" ELSE Passes

----------------------------------------------------------------------------
(* The gates of a write *)

notFoundCodes == [service |-> "SVC003", node |-> "NOD003", task |-> "TSK002", volume |-> "VOL002",
                  network |-> "NET002", config |-> "CFG002", secret |-> "SEC002",
                  plugin |-> "PLG004", stack |-> "STK001"]

WriteAsNamed(q, caller, world) ==
  LET found == LookupAs(world, q.kind, q.key, caller.reads)
  IN  CASE q.route.gate = "record" /\ found.found -> Resource(found.record)
        [] q.route.gate = "swarm" -> <<"swarm", "cluster">>
        [] q.route.gate = "type" -> <<q.kind, "*">>
        [] OTHER -> <<q.kind, q.key>>

(* writeResource, pathResource, wildcardResource and swarmResource *)
writeResource(q, caller, world) ==
  LET found == LookupAs(world, q.kind, q.key, caller.reads)
  IN  CASE q.route.gate = "record" /\ found.found -> WriteResource(found.record)
        [] q.route.gate = "swarm" -> <<"swarm", "cluster">>
        [] q.route.gate = "type" -> <<q.kind, "*">>
        [] OTHER -> <<q.kind, q.key>>

HiddenIfAbsent(q, caller, world) ==
  LET found == LookupAs(world, q.kind, q.key, caller.reads)
  IN  /\ q.key # "" /\ q.kind \in DOMAIN notFoundCodes
      /\ ~ found.ambiguous /\ ~ found.found

(* hiddenTarget: the record the path addresses is one the caller cannot    *)
(* read, or is not there.  A plugin is asked of the engine, which is the   *)
(* world too.                                                              *)
hiddenTarget(q, caller, world) ==
  LET found == LookupAs(world, q.kind, q.key, caller.reads)
  IN  /\ q.key # "" /\ q.kind \in DOMAIN notFoundCodes
      /\ IF q.kind = "plugin" THEN <<"plugin", q.key>> \notin caller.reads \/ ~ found.found
         ELSE ~ found.ambiguous /\ (~ found.found \/ Resource(found.record) \notin caller.reads)

(* requireWriteACL; a create's grant is checked on the name in its body.   *)
requireWriteACL(q, caller, world) ==
  IF q.route.gate = "created" \/ writeResource(q, caller, world) \in caller.writes THEN Passes
  ELSE IF hiddenTarget(q, caller, world) THEN notFoundCodes[q.kind]
  ELSE "ACL002"

(* acceptsJSONAnswer *)
acceptsJSONAnswer(q) ==
  \/ q.route.body = "empty"
  \/ q.route.body # "always" /\ "minimal" \in q.prefer /\ {"wait", "respond-async"} \cap q.prefer = {}
  \/ Neg!acceptable(q.accept, q.suffix, {"JSON"})
  \/ Neg!acceptsProblem(q.accept)

preconditionSubjects == {"service", "node", "task", "config", "secret", "network", "volume"}

(* conditional: the subject is read from the engine first; one that has no *)
(* representation left goes on, to be answered as not found.               *)
conditional(q, world) ==
  LET present == q.kind = "swarm" \/ \E r \in world : r.kind = q.kind /\ r.id = q.key
      conditions == {q.ifMatch, q.ifNoneMatch, q.ifUnmodified} # {""}
  IN  IF q.route.cond = "none" \/ ~ conditions THEN Passes
      ELSE IF q.key # "" /\ q.kind \in preconditionSubjects /\ q.refresh # "ok"
           THEN IF q.refresh = "unavailable" THEN "ENG001" ELSE "ENG004"
      ELSE IF q.key # "" /\ ~ present THEN Passes
      ELSE IF q.route.cond = "bare" THEN IF q.ifMatch # "" THEN "API013" ELSE Passes
      ELSE IF \/ q.ifMatch = "other"
              \/ q.ifMatch = "" /\ q.route.cond = "timed" /\ q.ifUnmodified = "passed"
              \/ q.ifNoneMatch \in {"current", "*"}
           THEN "API013" ELSE Passes

----------------------------------------------------------------------------
(* What each handler checks, in its order: <<fault, code>>.  "unknown" is  *)
(* the record missing from the cache by its id; the others are faults of   *)
(* the body.                                                               *)

Fails(fault, code) == <<fault, code>>
Unknown(kind) == Fails("unknown", notFoundCodes[kind])
Media == Fails("media", "API004")
decodeJSON == Fails("body", "API006")
decodeMergePatch == Fails("body", "API008")
Handler(checks, conflict, way) == [checks |-> checks, conflict |-> conflict, way |-> way]

(* parsePatchMutator and writePatchError: what a patch of a map meets. *)
patchMap(kind) ==
  <<Unknown(kind), Media, Fails("unread", "API007"), decodeJSON, Fails("test", "API010"),
    Fails("apply", "API011")>>

(* patchServiceSpecField with structMergePatch *)
patchServiceSpecField(code) ==
  Handler(<<Unknown("service"), Media, Fails("unread", "API007"), decodeMergePatch,
            Fails("value", code)>>, "SVC001", "use case")

(* A list of references, given whole by a merge patch; a patch without the *)
(* member changes nothing.                                                 *)
patchList(checks) ==
  Handler(<<Media, Unknown("service"), decodeMergePatch>> \o checks, "SVC001", "list")

(* HandleScaleService to HandleRestartService *)
serviceOperations ==
  ("scale" :> Handler(<<decodeJSON, Fails("value", "SVC004")>>, "SVC001", "use case"))
  @@ ("endpoint-mode" :> Handler(<<decodeJSON, Fails("value", "SVC010"), Unknown("service")>>,
                                 "SVC001", "checked"))
  @@ ("image" :> Handler(<<decodeJSON, Fails("value", "SVC006")>>, "SVC001", "use case"))
  @@ ("rollback" :> Handler(<<>>, "SVC001", "use case"))
  @@ ("restart" :> Handler(<<>>, "SVC001", "use case"))
  @@ ("remove" :> Handler(<<Unknown("service")>>, "SVC002", "removal"))

(* HandlePatchServiceEnv to HandlePatchServiceResources *)
serviceMaps ==
  [part \in {"env", "labels"} |-> Handler(patchMap("service"), "SVC001", "use case")]
  @@ ("resources" :> patchServiceSpecField("SVC011"))

(* HandlePatchServicePorts to HandlePutServicePlacement *)
servicePlacement ==
  ("ports" :> patchList(<<Fails("value", "SVC020")>>))
  @@ [part \in {"put healthcheck", "placement"} |->
        Handler(<<Unknown("service"), decodeJSON>>, "SVC001", "use case")]

(* HandlePatchServiceUpdatePolicy to HandlePatchServiceHealthcheck *)
servicePolicies ==
  ("update-policy" :> patchServiceSpecField("SVC012"))
  @@ ("rollback-policy" :> patchServiceSpecField("SVC013"))
  @@ ("log-driver" :> patchServiceSpecField("SVC019"))
  @@ ("healthcheck" :> patchServiceSpecField("SVC014"))

(* HandlePatchServiceContainerConfig *)
serviceContainer == "container-config" :> patchServiceSpecField("SVC018")

(* HandlePatchServiceConfigs, HandlePatchServiceSecrets *)
serviceReferences ==
  ("configs" :> patchList(<<Fails("value", "SVC015"), Fails("refs", "SVC021")>>))
  @@ ("secrets" :> patchList(<<Fails("value", "SVC016"), Fails("refs", "SVC021")>>))

(* HandlePatchServiceNetworks, HandlePatchServiceMounts *)
serviceAttachments ==
  ("networks" :> patchList(<<Fails("value", "SVC017"), Fails("ambiguous", "API015"),
                             Fails("refs", "SVC021")>>))
  @@ ("mounts" :> patchList(<<>>))

serviceHandlers == serviceOperations @@ serviceMaps @@ servicePlacement @@ servicePolicies
                   @@ serviceContainer @@ serviceReferences @@ serviceAttachments

(* write_node_handlers.go *)
nodeHandlers ==
  ("availability" :> Handler(<<decodeJSON, Fails("value", "NOD004"), Unknown("node")>>, "NOD002",
                             "use case"))
  @@ ("role" :> Handler(<<decodeJSON, Fails("value", "NOD005"), Unknown("node")>>, "NOD002",
                        "use case"))
  @@ ("labels" :> Handler(patchMap("node"), "NOD002", "use case"))
  @@ ("remove" :> Handler(<<Unknown("node")>>, "NOD001", "direct removal"))

(* handleCreateDataResource; an entry is a secret an MCP client asked its  *)
(* user to type in.                                                        *)
createDataResource(invalid, conflict, entries) ==
  Handler(<<decodeJSON>>
          \o (IF entries THEN <<Fails("no entry", "SEC006"), Fails("not their entry", "SEC007"),
                                Fails("entry name", invalid)>>
              ELSE <<Fails("no entry", invalid)>>)
          \o <<Fails("value", invalid), Fails("grant", "ACL002"), Fails("data", invalid)>>,
          conflict, "create")

(* write_config_handlers.go, write_secret_handlers.go: GuardStackLabel     *)
(* refuses a label that moves it into a stack the caller cannot write.     *)
configHandlers ==
  ("remove" :> Handler(<<Unknown("config")>>, "CFG001", "removal"))
  @@ ("create" :> createDataResource("CFG004", "CFG003", FALSE))
  @@ ("labels" :> Handler(patchMap("config") \o <<Fails("stack", "ACL002")>>, "CFG005", "direct"))
secretHandlers ==
  ("remove" :> Handler(<<Unknown("secret")>>, "SEC001", "removal"))
  @@ ("create" :> createDataResource("SEC004", "SEC003", TRUE))
  @@ ("labels" :> Handler(patchMap("secret") \o <<Fails("stack", "ACL002")>>, "SEC005", "direct"))

(* write_resource_handlers.go; HandleRemoveStack removes what it can and   *)
(* lists what it could not.                                                *)
removalHandlers ==
  [task |-> Handler(<<Unknown("task")>>, "TSK001", "removal"),
   network |-> Handler(<<Unknown("network")>>, "NET001", "removal"),
   volume |-> Handler(<<Unknown("volume")>>, "VOL001", "removal"),
   stack |-> Handler(<<Unknown("stack")>>, "", "collected")]

(* write_swarm_handlers.go; "client" is a program started without an       *)
(* engine client, "inspect" a swarm that could not be read.                *)
updateSwarm(checks, failed) ==
  Handler(checks \o <<Fails("client", "SWM001"), Fails("inspect", "SWM002")>>, failed, "swarm")
swarmHandlers ==
  [part \in {"orchestration", "raft", "dispatcher", "ca", "encryption"} |->
     updateSwarm(<<Media, decodeJSON>>, "SWM003")]
  @@ ("rotate-token" :> updateSwarm(<<decodeJSON, Fails("value", "SWM011")>>, "SWM006"))
  @@ ("rotate-unlock-key" :> updateSwarm(<<>>, "SWM007"))
  @@ ("force-rotate-ca" :> updateSwarm(<<>>, "SWM003"))
  @@ ("unlock-key" :> Handler(<<Fails("client", "SWM001")>>, "SWM009", "swarm"))
  @@ ("unlock" :> Handler(<<Fails("client", "SWM001"), decodeJSON, Fails("value", "SWM010")>>,
                          "SWM008", "swarm"))
  @@ ("tokens" :> Handler(<<Fails("client", "404")>>, "", "collected"))

(* plugin_handlers.go *)
decodePluginRemote == <<decodeJSON, Fails("value", "PLG002")>>
pluginHandlers ==
  ("privileges" :> Handler(decodePluginRemote, "PLG003", "privileges"))
  @@ [verb \in {"install", "upgrade"} |->
        Handler(decodePluginRemote \o <<Fails("privileges", "PLG005"), Fails("changed", "PLG006")>>,
                "", "direct")]
  @@ [verb \in {"enable", "disable"} |-> Handler(<<>>, "", "direct")]
  @@ ("settings" :> Handler(<<decodeJSON, Unknown("plugin"), Fails("host access", "OPS001")>>, "",
                            "direct"))
  @@ ("remove" :> Handler(<<Unknown("plugin")>>, "", "direct"))

(* The handler a write route is given. *)
HandlerOf(route) ==
  LET p == route.path
      last == p[Len(p)]
  IN  CASE p[1] = "services" /\ Len(p) = 2 -> serviceHandlers["remove"]
        [] p[1] = "services" /\ route.method = "PUT" /\ last = "healthcheck" ->
             serviceHandlers["put healthcheck"]
        [] p[1] = "services" -> serviceHandlers[last]
        [] p[1] = "nodes" -> nodeHandlers[IF Len(p) = 2 THEN "remove" ELSE last]
        [] p[1] = "configs" -> configHandlers[IF Len(p) = 1 THEN "create"
                                              ELSE IF Len(p) = 2 THEN "remove" ELSE last]
        [] p[1] = "secrets" -> secretHandlers[IF Len(p) = 1 THEN "create"
                                              ELSE IF Len(p) = 2 THEN "remove" ELSE last]
        [] p[1] = "tasks" -> removalHandlers.task
        [] p[1] = "networks" -> removalHandlers.network
        [] p[1] = "volumes" -> removalHandlers.volume
        [] p[1] = "stacks" -> removalHandlers.stack
        [] p[1] = "tokens" -> swarmHandlers["tokens"]
        [] p[1] = "swarm" -> swarmHandlers[last]
        [] p[1] = "plugins" -> pluginHandlers[IF p = <<"plugins">> THEN "install"
                                              ELSE IF Len(p) = 2 /\ last = Rt!Wild THEN "remove"
                                              ELSE last]

----------------------------------------------------------------------------
(* Refusals *)

(* ClassifyWrite and ClassifyRemoval, of what the engine answered. *)
ClassifyWrite(engine) ==
  CASE engine = "out of sequence" -> "Stale"
    [] engine = "not found" -> "NotFound"
    [] engine = "invalid" -> "Invalid"
    [] engine = "unavailable" -> "Unavailable"
    [] engine \in {"conflict", "failed precondition"} -> "Conflict"
    [] OTHER -> "Engine"
ClassifyRemoval(engine) ==
  IF engine \in {"conflict", "failed precondition", "in use"} THEN "Conflict"
  ELSE ClassifyWrite(engine)

(* writeRefusal *)
writeRefusal(refusal, kind, conflict, preconditioned) ==
  CASE refusal = "NotFound" -> notFoundCodes[kind]
    [] refusal = "Denied" -> "ACL002"
    [] refusal \in {"BelowTier", "HostAccess"} -> "OPS001"
    [] refusal = "AttachDenied" -> "ACL001"
    [] refusal = "Invalid" -> "ENG003"
    [] refusal = "ScaleGlobal" -> "SVC005"
    [] refusal = "NoPreviousSpec" -> "SVC007"
    [] refusal = "Unavailable" -> "ENG001"
    [] refusal = "Stale" /\ preconditioned -> "API013"
    [] refusal \in {"Stale", "Conflict"} /\ conflict # "" -> conflict
    [] OTHER -> "ENG004"

(* Writes.record: the use case checks again what the gates have checked.   *)
record(q, caller, world) ==
  LET found == LookupAs(world, q.kind, q.key, caller.reads)
  IN  IF found.ambiguous /\ <<q.kind, q.key>> \in caller.reads THEN "Invalid"
      ELSE IF ~ found.found \/ WriteResource(found.record) \notin caller.reads THEN "NotFound"
      ELSE IF WriteResource(found.record) \notin caller.writes THEN "Denied"
      ELSE IF caller.level < q.route.level THEN "BelowTier"
      ELSE "ok"

(* The handler: its checks, the use case, the engine. *)
Handle(q, caller, world) ==
  LET h == HandlerOf(q.route)
      known == \E r \in world : r.kind = q.kind /\ r.id = q.key
      holds(fault) == IF fault = "unknown" THEN ~ known ELSE fault \in q.faults
      checked == FirstAnswer([i \in DOMAIN h.checks |-> <<~ holds(h.checks[i][1]), h.checks[i][2]>>])
      useCase == record(q, caller, world)
      (* pinSubjectVersion has marked a write it pinned. *)
      preconditioned == /\ q.route.cond \in {"matched", "timed"}
                        /\ q.kind \in {"service", "node", "config", "secret"}
                        /\ {q.ifMatch, q.ifNoneMatch, q.ifUnmodified} # {""}
      refused(refusal, conflict) == writeRefusal(refusal, q.kind, conflict, preconditioned)
  IN  IF checked # Passes THEN checked
      ELSE IF h.way \in {"use case", "removal", "list"} /\ useCase # "ok"
           THEN refused(useCase, "")
      ELSE IF h.way \in {"use case", "checked", "list"} /\ q.rule # "ok"
           THEN refused(q.rule, h.conflict)
      ELSE IF q.engine = "ok" \/ h.way = "collected" THEN "done"
      ELSE IF h.way = "swarm" THEN IF q.engine = "out of sequence" THEN "SWM012" ELSE h.conflict
      ELSE IF h.way = "privileges" THEN h.conflict
      ELSE IF h.way \in {"removal", "direct removal"}
           THEN LET c == ClassifyRemoval(q.engine)
                IN  IF c = "Conflict" THEN h.conflict ELSE refused(c, "")
      ELSE refused(ClassifyWrite(q.engine), h.conflict)

(* A write route's chain: the gates, then its conditions, then the         *)
(* handler, behind the redirect to the record's id.                        *)
Gate(answer) == <<answer = Passes, answer>>
Unless(refusal, answer) == IF refusal # Passes THEN refusal ELSE answer
AnswerWrite(q, caller, world) ==
  Unless(FirstAnswer(<<Gate(canonicalIdentifier(q, caller, world)),
                       Gate(requireWriteACL(q, caller, world)),
                       <<caller.level >= q.route.level, "OPS001">>,
                       <<acceptsJSONAnswer(q), "API003">>,
                       Gate(conditional(q, world))>>),
         Handle(q, caller, world))
=============================================================================
