-------------------------------- MODULE Tools --------------------------------
(***************************************************************************)
(* The tools the MCP server offers (internal/mcp): which are registered    *)
(* and listed, and what a call of a write tool passes before it changes    *)
(* the cluster.  A call is                                                 *)
(*   tool, kind, key   the tool, the kind of its target and its argument;  *)
(*   subject, args     who calls, and the digest of all its arguments;     *)
(*   version           the version it pins: "", "bad", "current" or "old"; *)
(*   elicits, enters   whether its client can put a form to a person, or   *)
(*                     send one to the dashboard;                          *)
(*   round             the signed state of the round it continues;         *)
(*   chosen, answer    what the person picked or answered in that round;   *)
(*   faults            what is wrong with its other arguments.             *)
(* Callers and worlds are those of Requests.                               *)
(***************************************************************************)
EXTENDS Integers, Sequences, FiniteSets, FiniteSetsExt, SequencesExt, TLC

Rt == INSTANCE Routes
Rq == INSTANCE Requests

Tool(op, type, permission, steps) ==
  [op |-> op, gate |-> IF type = "" THEN <<>> ELSE <<type, permission>>, steps |-> steps]
ReadTool(type) == Tool("", type, "read", <<>>)

(* readTools *)
logTools == "get_logs" :> ReadTool("service")
lookupTools == [t \in {"find", "describe"} |-> ReadTool("")]
graphTools == [t \in {"get_topology", "get_metrics"} |-> ReadTool("")]
reportTools == [t \in {"get_recommendations", "get_published_ports"} |-> ReadTool("")]
followTools ==
  [t \in {"get_events", "get_cluster_status"} |-> ReadTool("")] @@ "watch" :> ReadTool("service")
readTools == logTools @@ lookupTools @@ graphTools @@ reportTools @@ followTools

(* toolScaleService to toolRestartService: the use case does the access    *)
(* check, behind the pinning of the version.                               *)
operationalSteps == <<"arguments", "version", "client", "use case">>
operationalTools ==
  ("scale_service" :> Tool("service.scale", "service", "write", operationalSteps))
  @@ ("update_service_image" :> Tool("service.image", "service", "write", operationalSteps))
  @@ ("rollback_service" :> Tool("service.rollback", "service", "write", operationalSteps))
  @@ ("restart_service" :> Tool("service.restart", "service", "write", operationalSteps))

(* toolUpdateService, toolUpdateNodeLabels, createHandler,                 *)
(* toolUpdateServiceSecrets, toolUpdateServiceConfigs and                  *)
(* toolUpdateServiceMounts                                                 *)
updateSteps == <<"arguments", "access", "value", "version", "client", "use case">>
nodeLabelSteps == <<"arguments", "value", "node", "version", "client", "use case">>
createSteps(enters) ==
  <<"arguments", "named", "labels", "stack">>
  \o (IF enters THEN <<"inline">> ELSE <<>>) \o <<"client", "value", "use case">>
attachmentSteps == <<"arguments", "access", "version", "client", "value", "references", "use case">>
mountSteps == <<"arguments", "access", "version", "client", "value", "use case">>
specTools ==
  ("update_service" :> Tool("service.update", "service", "write", updateSteps))
  @@ ("update_node_labels" :> Tool("node.labels", "node", "write", nodeLabelSteps))
  @@ ("create_secret" :> Tool("secret.create", "secret", "write", createSteps(TRUE)))
attachmentTools ==
  ("create_config" :> Tool("config.create", "config", "write", createSteps(FALSE)))
  @@ ("update_service_secrets" :> Tool("service.secrets", "service", "write", attachmentSteps))
  @@ ("update_service_configs" :> Tool("service.configs", "service", "write", attachmentSteps))
  @@ ("update_service_mounts" :> Tool("service.mounts", "service", "write", mountSteps))
configurationTools == specTools @@ attachmentTools

(* toolUpdateNode, removeResolvedHandler, toolRemoveVolume *)
nodeSteps == <<"arguments", "value", "node", "version", "confirm", "client", "use case">>
removalSteps == <<"arguments", "access", "confirm", "client", "use case">>
volumeSteps == <<"arguments", "named", "confirm", "client", "use case">>
workloadTools ==
  ("update_node" :> Tool("node.update", "node", "write", nodeSteps))
  @@ ("remove_service" :> Tool("service.remove", "service", "write", removalSteps))
  @@ ("remove_task" :> Tool("task.remove", "task", "write", removalSteps))
  @@ ("remove_config" :> Tool("config.remove", "config", "write", removalSteps))
storeTools ==
  ("remove_secret" :> Tool("secret.remove", "secret", "write", removalSteps))
  @@ ("remove_network" :> Tool("network.remove", "network", "write", removalSteps))
  @@ ("remove_volume" :> Tool("volume.remove", "volume", "write", volumeSteps))
impactfulTools == workloadTools @@ storeTools

(* annotationTools, registered where annotations can be stored.  What they *)
(* do is in Annotations.                                                   *)
annotationTools ==
  [t \in {"add_annotation", "update_annotation", "delete_annotation"} |-> ReadTool("")]

toolCatalog ==
  readTools @@ operationalTools @@ configurationTools @@ impactfulTools @@ annotationTools
writeTools == operationalTools @@ configurationTools @@ impactfulTools

(* toolDef.tier and registerTools *)
tier(tool) == IF toolCatalog[tool].op = "" THEN 0 ELSE Rt!Tier(toolCatalog[tool].op)
Registered(level, annotates) ==
  {t \in DOMAIN toolCatalog : level >= tier(t) /\ (annotates \/ t \notin DOMAIN annotationTools)}
(* toolVisibilityFor and filterToolsForIdentity: a caller is shown a tool  *)
(* if it holds its gate's permission on anything of the type.  "grants" is *)
(* the pairs of type and permission it holds somewhere (TypeGrants).       *)
Listed(level, annotates, grants) ==
  {t \in Registered(level, annotates) : toolCatalog[t].gate \in {<<>>} \cup grants}

(* promptCatalog: the tools a prompt's text drives and the types it reads. *)
Prompt(drives, reads) == [drives |-> drives, reads |-> reads]
promptCatalog ==
  [diagnose_service |-> Prompt({"find", "get_logs", "get_metrics", "get_events",
                                "get_recommendations"}, {"service"}),
   explain_unschedulable |-> Prompt({"find", "describe"}, {"service", "node"}),
   review_capacity |-> Prompt({"get_cluster_status", "find", "get_metrics",
                               "get_recommendations"}, {"node"}),
   roll_back_service |-> Prompt({"find", "get_events", "rollback_service", "watch"}, {"service"}),
   right_size_service |-> Prompt({"get_recommendations", "find", "get_metrics", "update_service",
                                  "watch"}, {"service"}),
   drain_node |-> Prompt({"find", "get_topology", "update_node", "watch"}, {"node", "service"})]

(* promptTier and registerPrompts, and filterPromptsForIdentity, which     *)
(* hides a prompt its caller could not follow.                             *)
promptTier(p) == Max({tier(t) : t \in promptCatalog[p].drives})
Prompts(level, grants) ==
  {p \in DOMAIN promptCatalog :
     /\ level >= promptTier(p)
     /\ \A t \in promptCatalog[p].drives : toolCatalog[t].gate \in {<<>>} \cup grants
     /\ \A type \in promptCatalog[p].reads : <<type, "read">> \in grants}

----------------------------------------------------------------------------
(* Steps: each the answer it refuses a call with, or Passes. *)

Passes == ""
Found(q, caller, world) == Rq!LookupAs(world, q.kind, q.key, caller.reads)

DeniedFirst(q, caller, record, found, ambiguous) ==
  IF ~ found THEN "not found"
  ELSE IF Rq!WriteResource(record) \notin caller.writes THEN "denied"
  ELSE IF Rq!WriteResource(record) \notin caller.reads THEN "not found" ELSE Passes

(* checkResolvedWrite: what the caller may not read is not found, before   *)
(* what it may not write is denied.                                        *)
checkResolvedWrite(q, caller, record, found, ambiguous) ==
  IF ambiguous /\ <<q.kind, q.key>> \in caller.reads THEN "ambiguous"
  ELSE IF ambiguous \/ ~ found \/ Rq!WriteResource(record) \notin caller.reads THEN "not found"
  ELSE IF Rq!WriteResource(record) \notin caller.writes THEN "denied" ELSE Passes

(* resolveWrite, checkServiceWrite, resolveTaskWrite *)
resolveWrite(q, caller, world) ==
  LET f == Found(q, caller, world)
  IN  checkResolvedWrite(q, caller, f.record, f.found, f.ambiguous)

(* A round's state, signed by the server (roundTripState): the call it was *)
(* asked in, what was asked, and the version and the record the question   *)
(* was about.  It is taken up only by the same call of the same caller,    *)
(* within its lifetime (open, sameCall, priorRound).                       *)
NoRound == [signed |-> FALSE, expired |-> FALSE, subject |-> "", tool |-> "", args |-> "",
            asked |-> "", version |-> 0, bind |-> {}, picked |-> <<>>]
opens(round) == round.signed /\ ~ round.expired
sameCall(round, q) == round.subject = q.subject /\ round.tool = q.tool /\ round.args = q.args
priorRound(q) == opens(q.round) /\ sameCall(q.round, q)
AskedBefore(q, key, version, bind) ==
  priorRound(q) /\ q.round.asked = key /\ q.round.version = version /\ q.round.bind = bind

(* carriedChoices and nextRound: the state asked with next, which keeps    *)
(* what was picked, and among which options.                               *)
carriedChoices(q) ==
  IF ~ priorRound(q) THEN <<>>
  ELSE IF q.round.asked = "node" /\ q.chosen \notin {"", "none"} THEN <<q.round.bind, q.chosen>>
  ELSE q.round.picked
nextRound(q, key, version, bind) ==
  [signed |-> TRUE, expired |-> FALSE, subject |-> q.subject, tool |-> q.tool, args |-> q.args,
   asked |-> key, version |-> version, bind |-> bind, picked |-> carriedChoices(q)]

(* choose: a pick counts if it was made among these very options. *)
choose(q, options) ==
  LET kept == {o \in options : priorRound(q) /\ q.round.picked = <<options, o>>}
      held == AskedBefore(q, "node", 0, options)
  IN  IF kept # {} THEN CHOOSE o \in kept : TRUE
      ELSE IF held /\ q.chosen = "none" THEN "not chosen"
      ELSE IF held /\ q.chosen \in options THEN q.chosen ELSE "which"

(* resolveNodeFor: of several nodes of one name a person picks, where more *)
(* than one is readable and the client can ask.                            *)
Candidates(q, caller, world) ==
  {r \in world : r.kind = "node" /\ r.name = q.key /\ Rq!Resource(r) \in caller.reads}
resolveNodeFor(q, caller, world) ==
  LET f == Found(q, caller, world)
      candidates == Candidates(q, caller, world)
      ids == {r.id : r \in candidates}
      picked == choose(q, ids)
      node(r) == [found |-> TRUE, ambiguous |-> FALSE, record |-> r, outcome |-> ""]
      missing == [found |-> FALSE, ambiguous |-> FALSE, record |-> Rq!NoRecord, outcome |-> ""]
  IN  IF ~ f.ambiguous THEN f @@ [outcome |-> ""]
      ELSE IF <<"node", q.key>> \notin caller.reads \/ candidates = {} THEN missing
      ELSE IF Cardinality(candidates) = 1 THEN node(CHOOSE r \in candidates : TRUE)
      ELSE IF ~ q.elicits THEN [missing EXCEPT !.ambiguous = TRUE]
      ELSE IF picked \in ids THEN node(CHOOSE r \in candidates : r.id = picked)
      ELSE [missing EXCEPT !.outcome = picked]
resolveNodeWrite(q, caller, world) ==
  LET f == resolveNodeFor(q, caller, world)
  IN  IF f.outcome # "" THEN f.outcome
      ELSE checkResolvedWrite(q, caller, f.record, f.found, f.ambiguous)

(* What the access step leaves the later ones with. *)
Resolved(q, caller, world) ==
  IF "node" \in ToSet(toolCatalog[q.tool].steps) THEN resolveNodeFor(q, caller, world)
  ELSE Found(q, caller, world)

(* pinVersion, which looks the record up without asking who reads it. *)
pinVersion(q, caller, world) ==
  LET r == Resolved(q, caller, world)
      f == IF "node" \in ToSet(toolCatalog[q.tool].steps) THEN r ELSE Rq!LookupAs(world, q.kind, q.key, {})
  IN  IF q.version = "" THEN Passes
      ELSE IF q.version = "bad" THEN "invalid"
      ELSE IF f.ambiguous THEN "ambiguous"
      ELSE IF ~ f.found THEN "not found" ELSE Passes

(* serviceRemoval, taskRemoval, referenceRemoval, volumeRemoval: the       *)
(* question is about one version of one record; a volume has no version,   *)
(* and is told from another of its name by when it was created.  A record  *)
(* that is there is at version 2, and its volume was created once.         *)
Current == 2
Removal(record, found) ==
  IF record.kind = "volume" \/ ~ found
  THEN [version |-> 0, bind |-> IF found THEN {record.name, "created"} ELSE {record.name}]
  ELSE [version |-> Current, bind |-> {record.id}]
(* nodeChange and drainConfirmation *)
nodeChange(record) == [version |-> Current, bind |-> {record.id}]
Question(q, caller, world) ==
  LET f == Resolved(q, caller, world)
  IN  IF q.kind = "node" THEN nodeChange(f.record)
      ELSE Removal(IF q.kind = "volume" THEN [f.record EXCEPT !.kind = "volume", !.name = q.key]
                   ELSE f.record, f.found)

ConfirmAnyAnswer(q, caller, world, cfg) ==
  IF ~ q.elicits THEN IF cfg.requireConfirmation THEN "unconfirmed" ELSE Passes
  ELSE IF q.answer = "" \/ ~ priorRound(q) THEN "asked"
  ELSE IF q.answer = "accept" THEN Passes ELSE "declined"

(* confirm: a person agrees to the very question the call asks now; an     *)
(* answer to any other is asked again.                                     *)
confirm(q, caller, world, cfg) ==
  LET question == Question(q, caller, world)
  IN  IF ~ q.elicits THEN IF cfg.requireConfirmation THEN "unconfirmed" ELSE Passes
      ELSE IF q.answer = "" \/ ~ AskedBefore(q, q.tool, question.version, question.bind) THEN "asked"
      ELSE IF q.answer = "accept" THEN Passes ELSE "declined"

(* checkInlineValue and enterSecretValue: a value is an argument only where*)
(* no person can be sent to enter it, and the server takes it.  An entry   *)
(* is the dashboard's to complete.                                         *)
enterSecretValue(q, cfg) ==
  LET inline == "no data" \notin q.faults
  IN  IF inline THEN IF q.enters THEN "invalid" ELSE IF cfg.inlineSecretValues THEN Passes ELSE "invalid"
      ELSE IF "value" \in q.faults \/ ~ q.enters THEN "invalid" ELSE "entry"

(* Writes.record, as Requests has it, with the refusals named as here, and *)
(* the engine's refusal of a version that has passed (refused).            *)
useCase(q, caller, world) ==
  LET created == toolCatalog[q.tool].op \in {"secret.create", "config.create"}
      f == Resolved(q, caller, world)
      refusal == checkResolvedWrite(q, caller, f.record, f.found, f.ambiguous)
  IN  IF created THEN IF <<q.kind, q.key>> \notin caller.writes THEN "denied"
                      ELSE IF caller.level < tier(q.tool) THEN "below tier" ELSE Passes
      ELSE IF refusal # Passes THEN refusal
      ELSE IF caller.level < tier(q.tool) THEN "below tier"
      ELSE IF q.version = "old" THEN "changed" ELSE Passes

Step(step, q, caller, world, cfg) ==
  CASE step = "arguments" -> IF "arguments" \in q.faults THEN "invalid" ELSE Passes
    [] step = "value" -> IF "value" \in q.faults THEN "invalid" ELSE Passes
    [] step = "labels" -> IF "labels" \in q.faults THEN "invalid" ELSE Passes
    [] step = "references" -> IF "references" \in q.faults THEN "no such" ELSE Passes
    [] step = "stack" -> IF "stack" \in q.faults THEN "denied" ELSE Passes
    [] step = "client" -> IF "client" \in q.faults THEN "no client" ELSE Passes
    [] step = "access" -> resolveWrite(q, caller, world)
    [] step = "node" -> resolveNodeWrite(q, caller, world)
    [] step = "named" -> IF <<q.kind, q.key>> \in caller.writes THEN Passes ELSE "denied"
    [] step = "version" -> pinVersion(q, caller, world)
    [] step = "confirm" -> confirm(q, caller, world, cfg)
    [] step = "inline" -> enterSecretValue(q, cfg)
    [] step = "use case" -> useCase(q, caller, world)

(* A call of a registered tool: the first of its handler's steps that      *)
(* refuses it answers it.  The caller's level is the program's, or the MCP *)
(* server's own where that is lower.                                       *)
Inherit == -1
EffectiveOperationsLevel(own, global) == IF own = Inherit \/ own >= global THEN global ELSE own
FirstRefusal(answers) ==
  LET refusing == {i \in DOMAIN answers : answers[i] # Passes}
  IN  IF refusing = {} THEN "done" ELSE answers[Min(refusing)]
Call(q, caller, world, cfg) ==
  LET steps == toolCatalog[q.tool].steps
  IN  IF q.tool \notin Registered(caller.level, cfg.annotates) THEN "unknown tool"
      ELSE FirstRefusal([i \in DOMAIN steps |-> Step(steps[i], q, caller, world, cfg)])

----------------------------------------------------------------------------
(* The way in (Server.Handler) *)

(* resolveGuard: what stands before the tools, or that nothing may start. *)
resolveGuard(opts) ==
  IF opts.oauth THEN IF opts.resource THEN "bearer" ELSE "refused"
  ELSE IF opts.mode = "none" THEN "none"
  ELSE IF opts.mode = "" \/ opts.mode \notin opts.bypass \/ ~ opts.provider THEN "refused"
  ELSE "upstream"
resolveBypass(opts) == opts.provider /\ opts.mode # "" /\ opts.mode \in opts.bypass

(* originGuard and hostGuard: a browser's page only of a known origin, and *)
(* on a loopback listener only under a name the server goes by.            *)
originGuard(q, opts) == q.origin \in {""} \cup opts.origins
hostGuard(q, opts) == ~ q.loopback \/ q.host \in opts.hosts

(* bearerAuth and upstreamAuth: whom the request is answered as. *)
Bearer(q, opts) ==
  IF resolveBypass(opts) /\ q.upstream # "" THEN q.upstream
  ELSE IF q.token = "good" THEN "token" ELSE ""
Identified(q, opts) ==
  CASE resolveGuard(opts) = "bearer" -> Bearer(q, opts)
    [] resolveGuard(opts) = "upstream" -> q.upstream
    [] OTHER -> ""

(* requireSupportedProtocol and serveLegacy: no sessions, the current      *)
(* version or the one before, the latter by POST only and without tasks.   *)
requireSupportedProtocol(q) ==
  IF q.session THEN "version"
  ELSE IF q.protocol = "current" THEN Passes
  ELSE IF q.protocol \notin {"legacy", ""} THEN "version"
  ELSE IF q.method # "POST" THEN IF q.protocol = "" THEN "version" ELSE "405"
  ELSE IF q.protocol = "" /\ q.call # "initialize" THEN "version"
  ELSE IF q.call = "tasks/list" THEN "no method" ELSE Passes

(* limitBody and limitListens *)
maxListenStreams == 64
maxListenURIs == 256
limitListens(q, open) ==
  IF q.method # "POST" \/ q.call # "subscriptions/listen" THEN Passes
  ELSE IF q.uris > maxListenURIs THEN "invalid"
  ELSE IF open >= maxListenStreams THEN "429" ELSE Passes

(* scopeCancels: a cancellation reaches the calls of its own caller only.  *)
(* The calls in flight are pairs of their caller and their id.             *)
scopeCancels(q, who, inflight) ==
  IF q.method = "POST" /\ q.call = "cancelled" THEN {c \in inflight : c = <<who, q.cancels>>} ELSE {}

(* Handler: the order of the guards. *)
Handle(q, opts, open) ==
  IF ~ originGuard(q, opts) \/ ~ hostGuard(q, opts) THEN "403"
  ELSE IF resolveGuard(opts) = "bearer" /\ Identified(q, opts) = "" THEN "401"
  ELSE IF resolveGuard(opts) = "upstream" /\ Identified(q, opts) = "" THEN "403"
  ELSE IF q.method = "POST" /\ q.large THEN "413"
  ELSE IF requireSupportedProtocol(q) # Passes THEN requireSupportedProtocol(q)
  ELSE limitListens(q, open)
=============================================================================
