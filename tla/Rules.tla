------------------------------- MODULE Rules -------------------------------
(***************************************************************************)
(* The rules the program decides requests by, asked one question at a      *)
(* time: a behaviour is one request, and the properties relate the answers *)
(* the different parts give about it.  The rules themselves are in         *)
(* Requests, Negotiation, Routes, Access, Problems and Tools; the          *)
(* questions about reading are in ReadRules and ViewRules, those about     *)
(* recommendations in AdviceRules.                                         *)
(***************************************************************************)
EXTENDS AdviceRules

CONSTANTS
  Ranges,      \* the media ranges an Accept header is made of
  Serves,      \* what an endpoint may serve
  Addresses,   \* what a forwarding header may name
  Trusted      \* the addresses of the configured proxies

ASSUME TrustedAssumption == Trusted \subseteq Addresses

Neg == INSTANCE Negotiation
Pb == INSTANCE Problems
Tl == INSTANCE Tools

----------------------------------------------------------------------------
(* What is asked about recommendations *)

AdviceTopics ==
  {[about |-> "sizes", of |-> c] : c \in Sizes}
  \cup {[about |-> "managers", of |-> n] : n \in 1..4}
  \cup {[about |-> "busiest", of |-> n] : n \in 1..9}
  \cup {[about |-> "advised", of |-> p] : p \in Advisees}
  \cup {[about |-> "late", of |-> d] : d \in 0..1}
  \cup {[about |-> "restart", of |-> r] : r \in 0..4}
  \cup {[about |-> "subnet", of |-> s] : s \in Subnets}
AskAboutAdvice ==
  \/ asked.about = "sizes" /\ AskSize(asked.of)
  \/ asked.about = "managers" /\ AskQuorum(asked.of)
  \/ asked.about = "busiest" /\ AskLoad(asked.of)
  \/ asked.about = "advised" /\ AskAdvice(asked.of)
  \/ asked.about = "late" /\ AskTicks(asked.of)
  \/ asked.about = "restart" /\ AskFailures(asked.of)
  \/ asked.about = "subnet" /\ AskPool(asked.of)

----------------------------------------------------------------------------
(* Who asks *)

Names == {"i1", "n1", "s1", "k1", "cluster", "*"}

(* What a caller holding these grants may read and write in a world. *)
CallerIn(world, kind, grants, level) ==
  LET resolver == ResolverOf(world, Names)
      may(permission) ==
        {res \in {kind, "service"} \X Names : Acl!Can(Enforced(grants), resolver, Identity, permission, res[1],
                                    res[2])}
  IN  [reads |-> may("read"), writes |-> may("write"), level |-> level]

----------------------------------------------------------------------------
(* A write of one record, in a world with it and in one without it *)

KindOf(route) ==
  LET root == route.path[1]
  IN  CASE root \in {"swarm", "tokens"} -> "swarm"
        [] OTHER -> [services |-> "service", nodes |-> "node", tasks |-> "task",
                     configs |-> "config", secrets |-> "secret", networks |-> "network",
                     volumes |-> "volume", stacks |-> "stack", plugins |-> "plugin"][root]
writes == {r \in Rt!writeRoutes : r.gate \notin {"exec", "annotate", "edit"}}

(* Volumes, stacks and plugins go by their name. *)
TheRecord(kind, stack) ==
  [kind |-> kind, id |-> IF kind \in {"volume", "stack", "plugin"} THEN "n1" ELSE "i1",
   name |-> "n1", service |-> IF kind = "task" THEN "s1" ELSE "",
   stack |-> IF kind \in {"node", "stack", "plugin", "swarm"} THEN "" ELSE stack]
Service == [kind |-> "service", id |-> "s1", name |-> "s1", service |-> "", stack |-> "k1"]

Plain(route, key) ==
  [method |-> route.method, path |-> route.path, route |-> route, kind |-> KindOf(route),
   key |-> IF Rt!Wild \in ToSet(route.path) THEN key ELSE "",
   accept |-> <<>>, suffix |-> "", prefer |-> {}, ifMatch |-> "", ifNoneMatch |-> "",
   ifUnmodified |-> "", refresh |-> "ok", faults |-> {}, rule |-> "ok", engine |-> "ok"]

(* A request and its circumstances: one thing about it is out of the       *)
(* ordinary, beside who asks and how it addresses the record.              *)
Faults == {"media", "unread", "body", "test", "apply", "value", "refs", "ambiguous", "no entry",
           "not their entry", "entry name", "grant", "data", "stack", "client", "inspect",
           "privileges", "changed", "host access"}
Circumstances(q) ==
  {q} \cup {[q EXCEPT !.accept = <<r>>] : r \in {x \in Ranges : x.q = 10 /\ Neg!Named(x)}}
      \cup {[q EXCEPT !.faults = {f}] : f \in Faults}
      \cup {[q EXCEPT !.ifMatch = c] : c \in {"current", "other", "*"}}
      \cup {[q EXCEPT !.ifNoneMatch = "*"], [q EXCEPT !.ifUnmodified = "passed"],
            [q EXCEPT !.ifMatch = "current", !.engine = "out of sequence"],
            [q EXCEPT !.ifMatch = "current", !.refresh = "unavailable"]}
      \cup {[q EXCEPT !.rule = r] : r \in {"HostAccess", "AttachDenied", "ScaleGlobal", "NoPreviousSpec"}}
      \cup {[q EXCEPT !.engine = e] : e \in {"out of sequence", "not found", "invalid", "unavailable",
                                             "conflict", "in use", "failed"}}

(* A policy names resources by their names, and tasks by their id. *)
SomeGrants(kind) ==
  {<<>>, <<Grant(Everything, {"write"})>>, <<Grant({<<kind, IF kind = "task" THEN {"i1"} ELSE {"n1"}>>}, {"read"})>>}
GrantsAbout(kind) ==
  SomeGrants(kind)
  \cup {<<Grant({<<"task", {"i1"}>>}, {"write"}), Grant({<<"service", {"s1"}>>}, {"read"})>>}
  \cup {<<Grant({e}, {p})>> : p \in {"read", "write"},
           e \in {<<kind, IF kind = "task" THEN {"i1"} ELSE {"n1"}>>, <<kind, {"*"}>>,
                  <<"service", {"s1"}>>, <<"stack", {"k1"}>>, <<"swarm", {"cluster"}>>}}

AskWrite(route) ==
  \E key \in {"i1", "n1"}, stack \in {"", "k1"}, level \in {1, 3} :
  \E q \in Circumstances(Plain(route, key)),
     grants \in IF level = 1 THEN SomeGrants(KindOf(route)) ELSE GrantsAbout(KindOf(route)) :
    /\ stack = "" => q.key # "n1"
    /\ asked' = [about |-> "write", q |-> q, grants |-> grants, level |-> level,
                 record |-> TheRecord(KindOf(route), stack)]

With(ask) == {Service} \cup {r \in {ask.record} : r.kind # "swarm"}
Without(ask) == {Service}
Caller(ask, world) == CallerIn(world, ask.q.kind, ask.grants, ask.level)
AnswerIn(ask, world) == Rq!AnswerWrite(ask.q, Caller(ask, world), world)

(* A caller who cannot read a record gets the answer it would get if the   *)
(* record did not exist: of the gates in their order, the handler and the  *)
(* use case (write_middleware.go hiddenTarget), none tells them apart.     *)
WriteHidesUnreadable ==
  asked.about = "write" =>
    \/ Rq!Resource(asked.record) \in Caller(asked, With(asked)).reads
    \/ AnswerIn(asked, With(asked)) = AnswerIn(asked, Without(asked))

(* What the gates of a route let through its use case does not refuse for  *)
(* want of a grant or a level, which writeRefusal would answer after the   *)
(* body was read; and every refusal is one the catalogue of problems has   *)
(* (allow.go, write_middleware.go, cluster/writes.go, problem/registry.go).*)
GatesAgree ==
  asked.about = "write" =>
    LET q == asked.q
        world == With(asked)
        caller == Caller(asked, world)
    IN  /\ AnswerIn(asked, world) \in DOMAIN Pb!registry \cup {"done", "307", "404"}
        /\ Rq!requireWriteACL(q, caller, world) = "" /\ caller.level >= q.route.level
             /\ q.route.gate = "record"
           => Rq!record(q, caller, world) \notin {"Denied", "BelowTier"}

----------------------------------------------------------------------------
(* A call of a write tool *)

(* A node may have a namesake, which only its id tells it from. *)
Namesake(r) == [r EXCEPT !.id = "s1"]
WorldOf(ask, present) ==
  {Service} \cup (IF present THEN {ask.record} ELSE {})
            \cup (IF present /\ ask.twin THEN {Namesake(ask.record)} ELSE {})

PlainCall(tool, key) ==
  [tool |-> tool, kind |-> Tl!toolCatalog[tool].gate[1], key |-> key, version |-> "",
   subject |-> "u", args |-> "these", elicits |-> TRUE, enters |-> FALSE, chosen |-> "",
   round |-> Tl!NoRound, answer |-> "", faults |-> {}]

(* Rounds a call may continue: its own questions, answered in turn, and    *)
(* states that are expired, forged, somebody else's, of another call, of   *)
(* another version or record, or of other options.                         *)
Asked(q, bind) == [q EXCEPT !.round = Tl!nextRound(q, q.tool, IF q.kind = "volume" THEN 0 ELSE Tl!Current,
                                                   bind), !.answer = "accept"]
Chosen(q, node) == [q EXCEPT !.round = Tl!nextRound(q, "node", 0, {"i1", "s1"}), !.chosen = node]
Rounds(q) ==
  LET binds == {{"i1"}, {"n1", "created"}}
      own == {Asked(q, b) : b \in binds} \cup {Asked(Chosen(q, n), {n}) : n \in {"i1", "s1"}}
      late(c) == {[c EXCEPT !.round.expired = TRUE], [c EXCEPT !.round.signed = FALSE],
                  [c EXCEPT !.subject = "other"], [c EXCEPT !.args = "others"],
                  [c EXCEPT !.round.version = @ - 1], [c EXCEPT !.round.bind = {"s1"}],
                  [c EXCEPT !.round.picked = <<{"i1"}, "i1">>], [c EXCEPT !.answer = "decline"]}
  IN  own \cup UNION {late(c) : c \in own}

CallCircumstances(q) ==
  LET has(step) == step \in ToSet(Tl!toolCatalog[q.tool].steps)
  IN  {q, [q EXCEPT !.elicits = FALSE]}
      \cup {[q EXCEPT !.faults = {f}] : f \in {"arguments", "value", "labels", "references", "stack",
                                               "client", "no data"}}
      \cup {[q EXCEPT !.version = v] : v \in IF has("version") THEN {"bad", "current", "old"} ELSE {}}
      \cup {[Chosen(q, c) EXCEPT !.version = v] :
              c \in IF has("node") THEN {"i1", "s1", "none"} ELSE {}, v \in {"", "current"}}
      \cup (IF has("confirm") THEN Rounds(q) ELSE {})
      \cup {[q EXCEPT !.enters = TRUE], [q EXCEPT !.enters = TRUE, !.faults = {"no data"}]}

AskTool(tool) ==
  \E key \in {"i1", "n1"}, levels \in {<<Tl!Inherit, 1>>, <<3, 3>>, <<1, 3>>},
     stack \in {"", "k1"}, twin \in BOOLEAN, require \in BOOLEAN, inline \in BOOLEAN :
  \E q \in CallCircumstances(PlainCall(tool, key)) :
  \E grants \in IF levels = <<3, 3>> THEN GrantsAbout(q.kind) ELSE SomeGrants(q.kind) :
    /\ (twin => q.kind = "node") /\ (inline => q.kind = "secret") /\ (stack = "" => key = "i1")
    /\ asked' = [about |-> "tool", q |-> q, grants |-> grants, twin |-> twin, offered |-> levels[2],
                 level |-> Tl!EffectiveOperationsLevel(levels[1], levels[2]),
                 record |-> TheRecord(q.kind, stack),
                 cfg |-> [requireConfirmation |-> require, inlineSecretValues |-> inline, annotates |-> TRUE]]

(* The REST route that carries out a tool's operation. *)
RestPath(op) ==
  LET of(root, rest) == <<root>> \o rest
      part(name) == <<Rt!Wild, name>>
  IN  ("service.scale" :> of("services", part("scale")) @@ "service.image" :> of("services", part("image"))
       @@ "service.rollback" :> of("services", part("rollback"))
       @@ "service.restart" :> of("services", part("restart"))
       @@ "service.update" :> of("services", part("env")) @@ "service.secrets" :> of("services", part("secrets"))
       @@ "service.configs" :> of("services", part("configs")) @@ "service.mounts" :> of("services", part("mounts"))
       @@ "service.remove" :> of("services", <<Rt!Wild>>) @@ "node.labels" :> of("nodes", part("labels"))
       @@ "node.update" :> of("nodes", part("role")) @@ "task.remove" :> of("tasks", <<Rt!Wild>>)
       @@ "config.create" :> <<"configs">> @@ "config.remove" :> of("configs", <<Rt!Wild>>)
       @@ "secret.create" :> <<"secrets">> @@ "secret.remove" :> of("secrets", <<Rt!Wild>>)
       @@ "network.remove" :> of("networks", <<Rt!Wild>>) @@ "volume.remove" :> of("volumes", <<Rt!Wild>>))[op]

(* The two transports gate alike (mcp/tools.go, mcp/acl.go beside          *)
(* api/router.go): a tool changes nothing its operation's route would have *)
(* refused the same caller, nor what no tool it is shown would; a record   *)
(* the caller cannot read is answered like none; what needs a person was   *)
(* agreed to by one; and a prompt shown can be followed.                   *)
ToolsMirrorRoutes ==
  asked.about = "tool" =>
    LET q == asked.q
        answer(present) ==
          LET world == WorldOf(asked, present)
          IN  Tl!Call(q, CallerIn(world, q.kind, asked.grants, asked.level), world, asked.cfg)
        world == WorldOf(asked, TRUE)
        caller == CallerIn(world, q.kind, asked.grants, asked.level)
        route == CHOOSE r \in Rt!writeRoutes : r.path = RestPath(Tl!toolCatalog[q.tool].op)
        found == Tl!Resolved(q, caller, world)
        picked == IF found.found THEN found.record.id ELSE q.key
        question == [version |-> IF q.kind = "volume" THEN 0 ELSE Tl!Current,
                     bind |-> IF q.kind = "volume" THEN {q.key, "created"} ELSE {picked}]
        byID == [Plain(route, picked) EXCEPT !.kind = q.kind]
        held == {<<type, p>> \in Acl!validResourceTypes \X {"read", "write"} :
                   Acl!TypeAccess(Enforced(asked.grants), Identity, p, type)}
    IN  /\ answer(TRUE) = "done" =>
             /\ Rq!requireWriteACL(byID, caller, world) = "" /\ asked.offered >= route.level
             /\ q.tool \in Tl!Listed(asked.level, TRUE, held)
             /\ "confirm" \in ToSet(Tl!toolCatalog[q.tool].steps) /\ (q.elicits \/ asked.cfg.requireConfirmation)
                  => /\ q.elicits /\ q.answer = "accept" /\ q.round.signed /\ ~ q.round.expired
                     /\ q.subject = q.round.subject /\ q.args = q.round.args
                     /\ question = [version |-> q.round.version, bind |-> q.round.bind]
        /\ Rq!Resource(asked.record) \in caller.reads \/ answer(TRUE) = answer(FALSE)
        /\ \A p \in Tl!Prompts(asked.level, held) :
             Tl!promptCatalog[p].drives \subseteq Tl!Listed(asked.level, FALSE, held)

----------------------------------------------------------------------------
(* A representation *)

AskAccept(first) ==
  \E rest \in Ranges \cup {<<>>}, served \in Serves, sends \in {<<>>, "JSON" :> Neg!sentAs("JGF")} :
    asked' = [about |-> "accept", served |-> served, sends |-> sends,
              accept |-> <<first>> \o IF rest = <<>> THEN <<>> ELSE <<rest>>]

(* An endpoint's choice (negotiate.go negotiatedAmong): it sends nothing   *)
(* the client excludes by name, a stream only to who names one, refuses    *)
(* only when nothing it serves would do, and where it serves what the      *)
(* whole program would have chosen, which readiness and the canonical      *)
(* redirect have already gone by, it chooses the same.                     *)
NegotiationSound ==
  asked.about = "accept" =>
  \A chosen \in {Neg!negotiatedAmong(asked.accept, "", asked.sends, asked.served)} :
    LET accept == asked.accept
        sent(ct) == Neg!SentBy(asked.sends, ct)
        names(ct) == {Neg!MediaType(n[1], n[2], {}) : n \in Neg!supportedTypes(ct)} \cup {sent(ct)}
        byName(mt) == {i \in DOMAIN accept : Neg!Named(accept[i]) /\ Neg!Matches(accept[i], mt)}
        wanted(ct) == \E i \in DOMAIN accept : Neg!Matches(accept[i], sent(ct)) /\ accept[i].q > 0
        excluded(ct) == \E i \in DOMAIN accept : Neg!Matches(accept[i], sent(ct)) /\ accept[i].q = 0
    IN  /\ chosen \in asked.served =>
             /\ byName(sent(chosen)) # {} => \E i \in byName(sent(chosen)) : accept[i].q > 0
             /\ chosen = "SSE" => byName(sent("SSE")) # {}
             /\ \E mt \in names(chosen), i \in DOMAIN accept : Neg!Matches(accept[i], mt) /\ accept[i].q > 0
        /\ (\E ct \in asked.served \ {"SSE"} : wanted(ct) /\ ~ excluded(ct)) => chosen \in asked.served
        /\ asked.sends = <<>> /\ Neg!bestMatch(accept) \in asked.served => chosen = Neg!bestMatch(accept)

----------------------------------------------------------------------------
(* The methods open to a caller *)

AskMethods(read) ==
  LET gates == {read.gate} \cup {w.gate : w \in {x \in Rt!writeRoutes : x.path = read.path}}
  IN  \E level \in 0..3, grants \in SUBSET gates :
        asked' = [about |-> "methods", read |-> read, caller |-> [level |-> level, grants |-> grants]]

(* Paths another route's wildcard covers too; the mux answers their other  *)
(* methods with that route.                                                *)
Shadowed(path) == \E w \in Rt!writeRoutes : w.path # path /\ Rt!MatchesPath(w.path, path)

(* What a GET says a caller may do at a path is what OPTIONS and a 405 say *)
(* there, though one asks the handler's own gate and the other every       *)
(* route's (allow.go setAllow, routeRecorder.open); PATCH comes with what  *)
(* it takes; and a write is compared with a representation exactly where a *)
(* GET of its path serves one.                                             *)
AllowAgrees ==
  asked.about = "methods" =>
    LET read == asked.read
        caller == asked.caller
    IN  /\ \A opened \in {Rt!open(read.path, caller) \ {"OPTIONS"}} :
             /\ ~ Shadowed(read.path) /\ read.allow # "silent" => Rt!AllowOf(read, caller) = opened
             /\ (Rt!acceptPatch(read.path, caller) # {}) = ("PATCH" \in opened)
        /\ \A w \in Rt!writeRoutes : w.path = read.path => w.cond # "bare"

----------------------------------------------------------------------------
(* Access *)

Globs == {{"n1"}, {"n1", "s1", "k1", "i1"}}
Policies ==
  {Acl!NoPolicy, <<>>}
  \cup {<<[resources |-> {e}, audience |-> a, permissions |-> p]>> :
          e \in {<<"*">>, <<"*", {"k1"}>>} \cup {<<t, g>> : t \in {"service", "stack", "task", "node"}, g \in Globs},
          a \in {{}, {<<"*">>}, {<<"user", {"u"}>>}, {<<"user", {"e"}>>}, {<<"group", {"g"}>>}},
          p \in {{"read"}, {"write"}, {"exec"}}}
Callers == {Acl!NoIdentity, Identity, [Identity EXCEPT !.subject = "other", !.groups = {}],
            [Identity EXCEPT !.granted = <<Grant({<<"stack", {"k1"}>>}, {"exec"}),
                                          Grant({<<"node", {"n1"}>>}, {"rule"})>>]}

AskAccess(policy) ==
  \E id \in Callers, other \in Callers, enabled \in BOOLEAN, source \in BOOLEAN,
     claims \in {{"sub"}, {"sub", "email"}}, stack \in {"", "k1"} :
    /\ (source => enabled) /\ (stack = "" => other = id)
    /\ asked' = [about |-> "access", id |-> id, other |-> other, stack |-> stack,
                 acl |-> [enabled |-> enabled, policy |-> policy, claims |-> claims, source |-> source]]

(* The answers access control gives about one caller hold together         *)
(* (evaluator.go): write and exec include read; what is answered of a type *)
(* bounds what is answered of its records; who may do everything may do    *)
(* each thing; what the resolver need not be asked about could not have    *)
(* changed the answer; and callers of one fingerprint, who are served from *)
(* one rendering, may read and write the same.                             *)
AccessSound ==
  asked.about = "access" =>
    LET acl == asked.acl
        resolver == ResolverOf({TheRecord(k, asked.stack) : k \in {"task", "node", "secret"}} \cup {Service},
                               Names)
        can(id, permission, res) == Acl!Can(acl, resolver, id, permission, res[1], res[2])
        held(permission) == Acl!grantSetOf(acl, asked.id, permission)
        asking(permission) == [held(permission) EXCEPT !.services = TRUE, !.stacks = TRUE]
        targets == {<<"task", "i1">>, <<"service", "s1">>, <<"node", "n1">>, <<"secret", "n1">>,
                    <<"stack", "k1">>}
    IN  \A res \in targets :
          /\ \A p \in Acl!validPermissions :
               /\ can(asked.id, p, res) /\ (p = "write" \/ acl.policy # Acl!NoPolicy)
                    => can(asked.id, "read", res)
               /\ can(asked.id, p, res) /\ (p # "exec" \/ acl.policy # Acl!NoPolicy)
                    => Acl!TypeAccess(acl, asked.id, p, res[1])
               /\ Acl!canEverything(acl, asked.id, p) /\ p # "exec" => can(asked.id, p, res)
               /\ Acl!matchesParts(held(p), resolver, res[1], res[2])
                  = Acl!matchesParts(asking(p), resolver, res[1], res[2])
          /\ Acl!Fingerprint(acl, 1, asked.id) = Acl!Fingerprint(acl, 1, asked.other) =>
               \A p \in {"read", "write"} : can(asked.id, p, res) = can(asked.other, p, res)

----------------------------------------------------------------------------
(* Arrival *)

AskAddress(claimed) ==
  \E peer \in Addresses, proxies \in {<<>>} \cup {<<t>> : t \in Trusted}, real \in Addresses,
     style \in {"rfc7239", "xff"} :
    asked' = [about |-> "address", real |-> real, proxies |-> proxies, claimed |-> claimed,
              net |-> LET written == claimed \o <<real>> \o proxies
                      IN  [peer |-> peer, style |-> style,
                           forwarded |-> IF style = "rfc7239" THEN written ELSE claimed,
                           xff |-> IF style = "xff" THEN written ELSE claimed]]

(* Whatever a client writes into the forwarding headers, behind proxies    *)
(* that each add the address they were called from it is taken for the     *)
(* address it called from, and without them for the peer (realip.go).      *)
AddressIsReal ==
  asked.about = "address" =>
    LET resolved == Rq!resolveClientIP(asked.net, Trusted)
    IN  /\ asked.net.peer \notin Trusted => resolved = asked.net.peer
        /\ asked.net.peer \in Trusted /\ asked.real \notin Trusted \cup {Rq!Garbled}
             => resolved = asked.real

(* A request on its way in, from a browser or not. *)
AskArrival(route) ==
  \E how \in {"identified", "refused", "redirected"}, origin \in {"", "here", "listed", "foreign"},
     site \in {"", "same-origin", "cross-site"}, origins \in {{}, {"*"}, {"listed"}},
     accept \in {<<>>, <<[typ |-> "text", sub |-> "html", params |-> {}, q |-> 10]>>},
     host \in {"here", "elsewhere"}, ready \in BOOLEAN, populated \in BOOLEAN :
    /\ (ready => populated) /\ (host = "elsewhere" => site = "") /\ (origin = "" => origins = {})
    /\ asked' =
         [about |-> "arrival",
          q |-> [method |-> route[1], path |-> route[2], clean |-> TRUE, peer |-> "real",
                 host |-> host, origin |-> origin, fetchSite |-> site, accept |-> accept,
                 suffix |-> "", auth |-> [how |-> how, bearer |-> FALSE, challenge |-> TRUE, code |-> ""]],
          cfg |-> [proxies |-> {"proxy1"}, hosts |-> {"here"}, origins |-> origins,
                   publicURL |-> {"here"}],
          srv |-> [ready |-> ready, populated |-> populated]]

(* A request of the MCP server, however it is guarded. *)
AskMCP(mode) ==
  \E oauth \in BOOLEAN, resource \in BOOLEAN, provider \in BOOLEAN, bypass \in SUBSET {"oidc", "headers"},
     upstream \in {"", "u"}, token \in {"", "bad", "good"}, origin \in {"", "listed", "foreign"},
     protocol \in {"current", "legacy", "", "old"}, session \in BOOLEAN,
     call \in {"initialize", "tools/call", "subscriptions/listen", "cancelled"}, open \in {63, 64} :
    LET opts == [oauth |-> oauth, resource |-> resource, mode |-> mode, bypass |-> bypass,
                 provider |-> provider, origins |-> {"listed"}, hosts |-> {"here"}]
    IN  /\ Tl!resolveGuard(opts) # "refused"
        /\ asked' = [about |-> "mcp", opts |-> opts, open |-> open,
                     q |-> [upstream |-> upstream, token |-> token, origin |-> origin, host |-> "elsewhere",
                            loopback |-> protocol = "legacy", protocol |-> protocol, session |-> session,
                            method |-> "POST", call |-> call, large |-> FALSE, uris |-> 256, cancels |-> 1]]

(* What the chain lets through (router.go newRouter): nothing of the       *)
(* cluster to a caller without an identity, though which paths need one    *)
(* and which show the cluster are two tables; no write another site made a *)
(* browser send; and no write, and before the first sync no read, of a     *)
(* cluster that is not known yet.  The MCP server (mcp/server.go) answers  *)
(* nobody unidentified unless authentication is off and no authorization   *)
(* server runs, no page of an origin it was not told of, and a             *)
(* cancellation reaches no other caller's call.                            *)
ArrivesSafely ==
  /\ asked.about = "mcp" /\ Tl!Handle(asked.q, asked.opts, asked.open) = "" =>
       LET who == Tl!Identified(asked.q, asked.opts)
       IN  /\ who # "" \/ (asked.opts.mode = "none" /\ ~ asked.opts.oauth)
           /\ who = "token" => asked.opts.resource
           /\ asked.q.origin # "foreign" /\ ~ asked.q.session
           /\ asked.q.call = "subscriptions/listen" => asked.open < Tl!maxListenStreams
           /\ \A c \in Tl!scopeCancels(asked.q, who, {"u", "token", "other"} \X {1, 2}) : c[1] = who
  /\ asked.about = "arrival" /\ Rq!Arrival(asked.q, asked.cfg, asked.srv) = "" =>
    LET q == asked.q
        shows == Rq!readsClusterState(q)
        page == Neg!Negotiated(q.accept, "") = "HTML"
        writing == q.method \notin {"GET", "HEAD", "OPTIONS"}
    IN  /\ shows => q.auth.how = "identified"
        /\ writing /\ q.fetchSite = "cross-site" => q.origin \in {"here"} \cup (asked.cfg.origins \ {"*"})
        /\ writing /\ q.origin = "foreign" => q.fetchSite = "same-origin"
        /\ shows /\ ~ page /\ ~ asked.srv.ready => ~ writing /\ asked.srv.populated

----------------------------------------------------------------------------
ViewTopics ==
  {[about |-> "viewer", of |-> v] : v \in Viewers}
  \cup {[about |-> "word", of |-> t] : t \in Typed}
RequestTopics ==
  {[about |-> "route", of |-> r] : r \in writes}
  \cup {[about |-> "range", of |-> r] : r \in Ranges}
  \cup {[about |-> "read", of |-> r] : r \in Rt!readRoutes}
  \cup {[about |-> "policy", of |-> p] : p \in Policies}
  \cup {[about |-> "pattern", of |-> p] : p \in Rt!patterns}
  \cup {[about |-> "called", of |-> t] : t \in DOMAIN Tl!writeTools}
  \cup {[about |-> "mode", of |-> m] : m \in {"none", "oidc", "headers"}}
  \cup {[about |-> "claim", of |-> c] : c \in {<<>>} \cup {<<a>> : a \in Addresses}}
ReadTopics ==
  {[about |-> "kind", of |-> k] : k \in {"service", "node", "task", "network", "config", "stack"}}
  \cup {[about |-> "stem", of |-> s] : s \in {"x", "y"}}
  \cup {[about |-> "subject", of |-> s] : s \in Subjects}
  \cup {[about |-> "what", of |-> w] : w \in Whats}
  \cup {[about |-> "paging", of |-> p] : p \in Pagings}
  \cup {[about |-> "output", of |-> o] : o \in Outputs}
Init ==
  \/ asked \in ViewTopics
  \/ asked \in AdviceTopics
  \/ asked \in RequestTopics
  \/ asked \in ReadTopics

Next ==
  \/ asked.about = "route" /\ AskWrite(asked.of)
  \/ asked.about = "range" /\ AskAccept(asked.of)
  \/ asked.about = "read" /\ AskMethods(asked.of)
  \/ asked.about = "policy" /\ AskAccess(asked.of)
  \/ asked.about = "pattern" /\ AskArrival(asked.of)
  \/ asked.about = "called" /\ AskTool(asked.of)
  \/ asked.about = "mode" /\ AskMCP(asked.of)
  \/ asked.about = "claim" /\ AskAddress(asked.of)
  \/ asked.about = "kind" /\ AskEvent(asked.of)
  \/ asked.about = "stem" /\ AskVersions(asked.of)
  \/ asked.about = "subject" /\ AskNote(asked.of)
  \/ asked.about = "what" /\ AskTimeline(asked.of)
  \/ asked.about = "paging" /\ AskList(asked.of)
  \/ asked.about = "output" /\ (AskFollow(asked.of) \/ AskPages(asked.of) \/ AskScope(asked.of))
  \/ asked.about = "viewer" /\ (AskView(asked.of) \/ AskShared(asked.of))
  \/ asked.about = "word" /\ AskTyped(asked.of)
  \/ AskAboutAdvice
Spec == Init /\ [][Next]_asked

----------------------------------------------------------------------------
(* Every way to a write, a route's gates, its handler and its use case,    *)
(* what a read says is open and what a tool does, guards it alike          *)
(* (api/write_middleware.go, allow.go, mcp/tools.go, cluster/writes.go).   *)
WritesGuarded == WriteHidesUnreadable /\ GatesAgree /\ AllowAgrees /\ ToolsMirrorRoutes

(* What is let in is who it says it is, from where it says (api/realip.go, *)
(* router.go, mcp/server.go).                                              *)
ArrivalsSound == AddressIsReal /\ ArrivesSafely

(* Who listens is told of what changed and of nothing else, versions       *)
(* counted from other records included (mcp/subscriptions.go,              *)
(* notifications.go, cluster/versions.go).                                 *)
ListenersTold == SubscribersTold /\ VersionsCounted

(* Who reads on, page by page, misses nothing and is shown nothing stale,  *)
(* in lists, timelines with their notes and logs (api/list.go,             *)
(* cache/history.go, cluster/annotations.go, logs/logs.go).                *)
ReadingResumes == ListsHonest /\ TimelineComplete /\ NotesGuarded /\ LogsResume

=============================================================================
