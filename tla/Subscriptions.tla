--------------------------- MODULE Subscriptions ---------------------------
(***************************************************************************)
(* What an MCP client that listens is told of (internal/mcp                *)
(* subscriptions.go, notifications.go): the manager's index of what each   *)
(* session subscribed to, the keys a change of the cluster is looked up    *)
(* under, and who of those it finds may be told.                           *)
(*                                                                         *)
(* A target, and a URI, is <<type, id or name>>.  A record has its kind,   *)
(* id and name, its service's name and id and its node's id if it is a     *)
(* task, its stack, the networks it is attached to and, of a network, how  *)
(* its addresses are counted.  Who listens is the set of resources it may  *)
(* read.                                                                   *)
(***************************************************************************)
EXTENDS Integers, Sequences, FiniteSets, Bags, SequencesExt, Functions, TLC

Rq == INSTANCE Requests
Vs == INSTANCE Versions

subscribableTypes == {"node", "service", "task", "stack", "config", "secret", "network", "volume"}
isResourceEvent(type) == type \in subscribableTypes
NoTarget == <<"", "">>
parseSubscriptionURI(uri) ==
  IF uri[1] \in subscribableTypes \cup {"annotation"} /\ uri[2] # "" THEN uri ELSE NoTarget

----------------------------------------------------------------------------
(* Subscriptions *)

resolveTarget(target, reads, world) == Rq!LookupAs(world, target[1], target[2], reads)
targetReadable(target, reads, world) ==
  LET found == resolveTarget(target, reads, world)
  IN  found.found /\ Rq!Resource(found.record) \in reads

(* subscriptionFor: what a URI names, and the id it stands for if the      *)
(* caller may know it.                                                     *)
subscriptionFor(uri, reads, world) ==
  LET target == parseSubscriptionURI(uri)
  IN  [target |-> target,
       resolved |-> IF target # NoTarget /\ targetReadable(target, reads, world)
                    THEN resolveTarget(target, reads, world).record.id ELSE ""]
Keys(sub) ==
  IF sub.target = NoTarget THEN {}
  ELSE {sub.target} \cup (IF sub.resolved = "" THEN {} ELSE {<<sub.target[1], sub.resolved>>})
networkKeys(sub) == SetToBag({k \in Keys(sub) : k[1] = "network"})
isVersioned(sub) == sub.target[1] \in {"config", "secret"}

(* The manager: its sessions, the index, and how many subscriptions there  *)
(* are of a network and of a versioned record, kept as they come and go.   *)
NewNotificationManager ==
  [sessions |-> <<>>, index |-> {}, networks |-> EmptyBag, versioned |-> 0]
stateLocked(nm, session) ==
  IF session \in DOMAIN nm.sessions THEN nm.sessions[session]
  ELSE [reads |-> {}, uris |-> <<>>, listChanged |-> FALSE]

UnindexFirstKey(nm, session, uri) ==
  LET sub == nm.sessions[session].uris[uri]
  IN  [nm EXCEPT !.index = @ \ {<<sub.target, <<session, uri>>>>},
                 !.networks = @ (-) networkKeys(sub),
                 !.versioned = @ - IF isVersioned(sub) THEN 1 ELSE 0]

unindexLocked(nm, session, uri) ==
  LET sub == nm.sessions[session].uris[uri]
  IN  [nm EXCEPT !.index = @ \ (Keys(sub) \X {<<session, uri>>}),
                 !.networks = @ (-) networkKeys(sub),
                 !.versioned = @ - IF isVersioned(sub) THEN 1 ELSE 0]

Subscribe(nm, session, uri, reads, world) ==
  LET sub == subscriptionFor(uri, reads, world)
      st == stateLocked(nm, session)
      freed == IF uri \in DOMAIN st.uris THEN unindexLocked(nm, session, uri) ELSE nm
  IN  [freed EXCEPT
         !.sessions = (session :> [st EXCEPT !.reads = reads, !.uris = (uri :> sub) @@ @]) @@ @,
         !.index = @ \cup (Keys(sub) \X {<<session, uri>>}),
         !.networks = @ (+) networkKeys(sub),
         !.versioned = @ + IF isVersioned(sub) THEN 1 ELSE 0]

SetFilter(nm, session, reads, listChanged) ==
  [nm EXCEPT !.sessions =
     (session :> [stateLocked(nm, session) EXCEPT !.reads = reads, !.listChanged = listChanged]) @@ @]

Unsubscribe(nm, session, uri) ==
  IF session \notin DOMAIN nm.sessions THEN nm
  ELSE LET st == nm.sessions[session]
           freed == IF uri \in DOMAIN st.uris THEN unindexLocked(nm, session, uri) ELSE nm
           left == Restrict(st.uris, DOMAIN st.uris \ {uri})
       IN  [freed EXCEPT !.sessions =
              IF left = <<>> THEN Restrict(@, DOMAIN @ \ {session})
              ELSE (session :> [st EXCEPT !.uris = left]) @@ @]

RemoveSession(nm, session) ==
  LET freed == FoldLeft(LAMBDA m, uri : unindexLocked(m, session, uri), nm,
                        SetToSeq(DOMAIN stateLocked(nm, session).uris))
  IN  [freed EXCEPT !.sessions = Restrict(@, DOMAIN @ \ {session})]

(* installSubscriptionHooks: a request to listen sets the filter and       *)
(* subscribes to every URI of it.                                          *)
Listen(nm, session, uris, reads, listChanged, world) ==
  FoldLeft(LAMBDA m, uri : Subscribe(m, session, uri, reads, world),
           SetFilter(nm, session, reads, listChanged), uris)

----------------------------------------------------------------------------
(* Events *)

(* removedFrom: what a removed record belonged to, its service's being     *)
(* remembered while a task of it is left.                                  *)
removedFrom(record, known) ==
  LET services == {s \in known : s.kind = "service" /\ s.id = record.serviceID}
  IN  IF record.kind # "task" THEN [service |-> "", stack |-> record.stack]
      ELSE IF services # {} THEN LET s == CHOOSE s \in services : TRUE
                                 IN  [service |-> s.name, stack |-> s.stack]
      ELSE [service |-> "", stack |-> record.stack]

(* notify, for the change of a record: a task's event is named by its id.  *)
EventOf(record, previous, action, known) ==
  LET from == IF action = "remove" THEN removedFrom(record, known) ELSE [service |-> "", stack |-> ""]
  IN  [type |-> record.kind, action |-> action, id |-> record.id,
       name |-> Rq!Resource(record)[2], resource |-> record, previous |-> previous, service |-> from.service, stack |-> from.stack]

CanReadEvent(event, reads) ==
  \/ <<event.type, event.name>> \in reads
  \/ event.service # "" /\ <<"service", event.service>> \in reads
  \/ event.stack # "" /\ <<"stack", event.stack>> \in reads

NoVia == <<>>
EventKey(type, id, via) == [target |-> <<type, id>>, via |-> via, own |-> FALSE]
stackKey(name) == EventKey("stack", name, <<"stack", name>>)
StackKeys(name) == IF name = "" THEN <<>> ELSE <<stackKey(name)>>
directEventKeys(event) ==
  IF isResourceEvent(event.type)
  THEN <<EventKey(event.type, event.id, NoVia), EventKey(event.type, event.name, NoVia)>> ELSE <<>>

(* AddressNetworks: the networks whose addresses a change may take or free. *)
AddressNetworks(event, world) ==
  CASE event.type = "service" -> {n \in world : n.kind = "network" /\ n.counted}
    [] event.type = "task" -> {n \in world : n.kind = "network" /\ n.id \in event.resource.nets}
    [] event.type = "node" -> {n \in world : n.kind = "network" /\ n.ingress}
    [] OTHER -> {}

addressNetworkKeys(nm, event, world) ==
  IF nm.networks = EmptyBag THEN <<>>
  ELSE FlattenSeq(SetToSeq({<<[EventKey("network", n.id, NoVia) EXCEPT !.own = TRUE],
                              [EventKey("network", n.name, NoVia) EXCEPT !.own = TRUE]>> :
                              n \in AddressNetworks(event, world)}))

taskServiceKeys(event, world) ==
  LET task == event.resource
      cached == {s \in world : s.kind = "service" /\ s.id = task.serviceID}
  IN  IF cached # {}
      THEN LET svc == CHOOSE s \in cached : TRUE
               via == <<"service", svc.name>>
           IN  <<EventKey("service", svc.id, via), EventKey("service", svc.name, via),
                 EventKey("task", task.name, via)>> \o StackKeys(svc.stack)
      ELSE <<EventKey("service", task.serviceID, NoVia)>>
           \o (IF event.service = "" THEN <<>>
               ELSE <<EventKey("service", event.service, <<"service", event.service>>)>>)
           \o StackKeys(event.stack)

taskNodeKeys(event, world) ==
  LET task == event.resource
      cached == {n \in world : n.kind = "node" /\ n.id = task.node}
  IN  IF task.node = "" THEN <<>>
      ELSE IF cached = {} THEN <<EventKey("node", task.node, NoVia)>>
      ELSE LET n == CHOOSE n \in cached : TRUE
           IN  <<EventKey("node", n.id, <<"node", n.name>>), EventKey("node", n.name, <<"node", n.name>>)>>

eventStack(event) == IF event.stack # "" THEN event.stack ELSE event.resource.stack

(* refKeys, of DigestsTouchedBy: the other versions of what a config or a  *)
(* secret is or was a version of, if anybody watches versions.             *)
refKeys(nm, event, world) ==
  IF event.type \notin {"config", "secret"} \/ nm.versioned = 0 THEN <<>>
  ELSE FlattenSeq(SetToSeq({<<EventKey(r.kind, r.id, NoVia), EventKey(r.kind, r.name, NoVia)>> :
                              r \in Vs!digestsTouchedBy(world, event.resource, event.previous)}))

eventKeys(nm, event, world) ==
  directEventKeys(event) \o addressNetworkKeys(nm, event, world) \o
    CASE event.type = "task" -> taskServiceKeys(event, world) \o taskNodeKeys(event, world)
      [] event.type \in {"service", "config", "secret", "network", "volume"}
           -> StackKeys(eventStack(event)) \o refKeys(nm, event, world)
      [] OTHER -> <<>>

(* matchingDeliveries: an entry is delivered to once, by its first key. *)
matchingDeliveries(nm, event, world) ==
  LET keys == eventKeys(nm, event, world)
      entries == {e[2] : e \in {x \in nm.index : \E i \in DOMAIN keys : keys[i].target = x[1]}}
      first(entry) == CHOOSE i \in DOMAIN keys :
                        /\ <<keys[i].target, entry>> \in nm.index
                        /\ \A j \in 1..(i - 1) : <<keys[j].target, entry>> \notin nm.index
  IN  {[session |-> e[1], uri |-> e[2], key |-> keys[first(e)]] : e \in entries}

DeliverUnlessVia(nm, event, world) ==
  {<<d.session, d.uri>> : d \in {x \in matchingDeliveries(nm, event, world) :
     LET st == nm.sessions[x.session] IN
       IF x.key.own THEN targetReadable(st.uris[x.uri].target, st.reads, world)
       ELSE x.key.via = NoVia \/ x.key.via \in st.reads}}

(* dispatchCacheEvent: who is told (a full channel drops what it is told). *)
dispatchCacheEvent(nm, event, world) ==
  {<<d.session, d.uri>> : d \in {x \in matchingDeliveries(nm, event, world) :
     LET st == nm.sessions[x.session] IN
       IF x.key.own THEN targetReadable(st.uris[x.uri].target, st.reads, world)
       ELSE CanReadEvent(event, st.reads) /\ (x.key.via = NoVia \/ x.key.via \in st.reads)}}

(* A list changed: who asked to know and may read some record of the type. *)
IsListChange(event) == event.action \in {"create", "remove"}
listChangedTargets(nm, event, types) ==
  {s \in DOMAIN nm.sessions : IsListChange(event) /\ nm.sessions[s].listChanged /\ event.type \in types[s]}
=============================================================================
