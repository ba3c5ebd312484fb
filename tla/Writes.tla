------------------------------- MODULE Writes -------------------------------
(***************************************************************************)
(* Writes through the API: the precondition (api/precondition.go), the use *)
(* case (cluster/writes.go), the engine's optimistic versions              *)
(* (docker/client.go), the attribution of the change to its author         *)
(* (cache/attribution.go) and the wait a client may prefer                 *)
(* (api/write_helpers.go), between requests, the watcher and whoever else  *)
(* changes the cluster.                                                    *)
(*                                                                         *)
(* One service, by the versions it took at the engine, and one config.  A  *)
(* version says who made it, which version last changed the section the    *)
(* section writes are about, and whether it holds host access.  Every      *)
(* request may write what it names; who may is the subject of Requests.    *)
(***************************************************************************)
EXTENDS Integers, Sequences, FiniteSets, Sequencing

CONSTANTS Requests,   \* each makes one write
          MaxVersion, \* bound: versions of the service
          MaxPending, \* maxAttributions
          MaxWaits    \* maxPreferWaits

ASSUME WritesAssumption == /\ MaxVersion \in Nat \ {0} /\ MaxPending \in Nat \ {0}
                           /\ MaxWaits \in Nat
                           /\ IsFiniteSet(Requests) /\ {"other", "nobody"} \cap Requests = {}

VARIABLES
  topic,     \* what the requests write, "service" or "config": the two meet only in pending
  specs,     \* the versions of the service
  there,     \* the engine has the service
  cached,    \* the version the cache holds, 0 for none
  cfg,       \* the config at the engine: "none", "made", "gone"
  cfgNews,   \* the engine's events about it the watcher has not handled
  cfgCached, \* the cache holds it
  pending,   \* Attributions.pending, oldest first
  forgotten, \* requests whose attribution lapsed or was pushed out
  history,   \* entries: the object, the act, the version, who is named
  waits,     \* activePreferWaits
  rq         \* the requests

vars == <<topic, specs, there, cached, cfg, cfgNews, cfgCached, pending, forgotten, history, waits, rq>>
engine == <<topic, specs, there, cfg, cfgNews>>
cache == <<cached, cfgCached, pending, history>>

other == "other"
nobody == "nobody"
Kinds == {"section", "image", "remove", "create"}
Version == 1..MaxVersion

(* A version that is no version: no condition, no pin, not in the cache. *)
none == 0
Latest == Len(specs)

(* Every variable in its type; no more expectations wait than may.         *)
TypeOK ==
  /\ specs \in Seq([by : Requests \cup {other}, part : Version, host : BOOLEAN])
  /\ Latest \in Version /\ there \in BOOLEAN
  /\ cached \in none..Latest
  /\ cfg \in {"none", "made", "gone"} /\ cfgNews \in BOOLEAN /\ cfgCached \in BOOLEAN
  /\ pending \in Seq([by : Requests, act : {"change", "remove", "create"}, after : none..Latest])
  /\ Len(pending) <= MaxPending
  /\ forgotten \subseteq Requests
  /\ history \subseteq [act : {"change", "remove", "create"}, ver : none..Latest,
                        named : Requests \cup {nobody}]
  /\ \A r \in Requests : rq[r].pin \in none..Latest /\ rq[r].over \in none..Latest

(* A request: what it writes, at which level, and how far it has come. *)
Start == [pc |-> "idle", kind |-> "image", adds |-> FALSE, level |-> 3, seen |-> none,
          pin |-> none, over |-> none, wrote |-> none, ver |-> none, saw |-> none,
          err |-> "", answer |-> ""]

Init ==
  /\ topic \in {"service", "config"}
  /\ specs = <<[by |-> other, part |-> 1, host |-> FALSE]>> /\ there = TRUE /\ cached = 1
  /\ cfg = "none" /\ cfgNews = FALSE /\ cfgCached = FALSE
  /\ pending = <<>> /\ forgotten = {} /\ history = {} /\ waits = 0
  /\ rq = [r \in Requests |-> Start]

Goto(r, pc) == rq' = [rq EXCEPT ![r].pc = pc]
(* An answer, by its status or problem code; only the answers a property   *)
(* is about are told apart once given.                                     *)
Outcome(code) == IF code \in {"201", "waited"} THEN code
                 ELSE IF code \in {"200", "202", "204"} THEN "done" ELSE "refused"
Answer(r, code) ==
  rq' = [rq EXCEPT ![r] = IF rq[r].wrote = none
                          THEN [Start EXCEPT !.pc = "done", !.answer = Outcome(code)]
                          ELSE [@ EXCEPT !.pc = "done", !.answer = Outcome(code), !.pin = none,
                                         !.over = none, !.ver = none]]

----------------------------------------------------------------------------
(* Attributions *)

(* pendingAttribution.matches: a change matches a later version than the   *)
(* one written over, a removal or creation the next one.                   *)
matches(p, e) ==
  IF p.act = "change" THEN e.act = "change" /\ e.ver > p.after ELSE p.act = e.act

(* match: the change with the latest version, the first registered of      *)
(* equals; it takes every other change it matches with it.                 *)
match(e) ==
  LET hits == {i \in DOMAIN pending : matches(pending[i], e)}
      best == CHOOSE i \in hits : \A j \in hits :
                \/ pending[j].after < pending[i].after
                \/ pending[j].after = pending[i].after /\ i <= j
      consumed == IF e.act = "change" THEN {pending[i] : i \in hits} ELSE {pending[best]}
  IN  IF hits = {} THEN [named |-> nobody, kept |-> pending]
      ELSE [named |-> pending[best].by,
            kept |-> Sifted(pending, consumed)]

(* Cache.notify: the history entry, with the actor the event matches. *)
notify(e) ==
  /\ history' = history \cup {[act |-> e.act, ver |-> e.ver, named |-> match(e).named]}
  /\ pending' = match(e).kept

(* Expect registers, at the cap in place of the oldest. *)
ExpectedAfter(r, act, after) ==
  LET p == [by |-> r, act |-> act, after |-> after]
  IN  IF Len(pending) >= MaxPending
      THEN /\ pending' = Append(Tail(pending), p) /\ forgotten' = forgotten \cup {Head(pending).by}
      ELSE pending' = Append(pending, p) /\ UNCHANGED forgotten

(* prune: attributions lapse oldest first, attributionTTL after Expect. *)
Lapse ==
  /\ pending # <<>>
  /\ pending' = Tail(pending) /\ forgotten' = forgotten \cup {Head(pending).by}
  /\ UNCHANGED <<engine, cached, cfgCached, history, waits, rq>>

----------------------------------------------------------------------------
(* The watcher: it inspects what an event names and stores what it read,   *)
(* which may be a version already replaced.                                *)

stored(v) == cached' = v /\ notify([act |-> "change", ver |-> v])
removed == cached' = none /\ notify([act |-> "remove", ver |-> none])

Deliver ==
  /\ cached # none
  /\ \/ \E v \in (cached + 1)..Latest : stored(v)
     \/ ~ there /\ removed
  /\ UNCHANGED <<engine, cfgCached, forgotten, waits, rq>>

DeliverConfig ==
  /\ cfgNews /\ cfgNews' = FALSE
  /\ cfgCached' = (cfg = "made")
  /\ IF cfgCached' # cfgCached
     THEN notify([act |-> IF cfgCached THEN "remove" ELSE "create", ver |-> none])
     ELSE UNCHANGED <<pending, history>>
  /\ UNCHANGED <<topic, specs, there, cached, cfg, forgotten, waits, rq>>

(* A full sync stores the lists; its changes are not attributed. *)
Sync ==
  /\ cached' = (IF there THEN Latest ELSE none)
  /\ cfgCached' = (cfg = "made")
  /\ UNCHANGED <<engine, pending, forgotten, history, waits, rq>>

----------------------------------------------------------------------------
(* The engine, and whoever else uses it *)

applied(by, touches, adds) ==
  specs' = Append(specs, [by |-> by, part |-> IF touches THEN Latest + 1 ELSE specs[Latest].part,
                          host |-> specs[Latest].host \/ adds])

(* Somebody else changes the section, or gives the service host access. *)
OutsideUpdate ==
  /\ topic = "service" /\ there /\ Latest < MaxVersion
  /\ \E touches \in BOOLEAN : applied(other, touches, ~ touches)
  /\ UNCHANGED <<topic, there, cfg, cfgNews, cache, forgotten, waits, rq>>

(* Somebody else removes the config; the service is removed by a request. *)
OutsideRemove ==
  /\ cfg = "made" /\ cfg' = "gone" /\ cfgNews' = TRUE
  /\ UNCHANGED <<topic, specs, there, cache, forgotten, waits, rq>>

----------------------------------------------------------------------------
(* A request *)

Updates == {"section", "image"}

(* What a validator stands for: a section by the version that last changed *)
(* it, the service by its version.                                         *)
representation(kind, v) == IF kind = "section" THEN specs[v].part ELSE v

(* A write arrives, with a precondition or without. *)
Arrive(r) ==
  /\ rq[r].pc = "idle"
  /\ \E kind \in Kinds, level \in 2..3, pc \in {"use", "refresh"} :
       /\ kind = "create" <=> topic = "config"
       /\ level = 2 => kind \in Updates
       /\ pc = "refresh" => kind # "create"
       /\ rq' = [rq EXCEPT ![r].pc = pc, ![r].kind = kind, ![r].level = level]
  /\ UNCHANGED <<engine, cache, forgotten, waits>>

(* refreshSubject, on the watcher's loop; the engine may be out of reach.  *)
refreshSubject(r) ==
  /\ rq[r].pc = "refresh"
  /\ \/ Goto(r, "pin") /\ (IF there /\ cached # Latest THEN stored(Latest)
                           ELSE IF ~ there /\ cached # none THEN removed
                           ELSE UNCHANGED <<cached, pending, history>>)
     \/ Answer(r, "ENG001") /\ UNCHANGED <<cached, pending, history>>
  /\ UNCHANGED <<engine, cfgCached, forgotten, waits>>

PinNothing(r) ==
  /\ rq[r].pc = "pin" /\ Goto(r, "validate")
  /\ UNCHANGED <<engine, cache, forgotten, waits>>

(* pinSubjectVersion, before the representation is read. *)
pinSubjectVersion(r) ==
  /\ rq[r].pc = "pin"
  /\ rq' = [rq EXCEPT ![r].pc = "validate", ![r].pin = cached]
  /\ UNCHANGED <<engine, cache, forgotten, waits>>

(* conditional, over the representation, which the client's If-Match      *)
(* names or not: an absent subject is the handler's to answer, unpinned;   *)
(* an endpoint without a representation matches nothing.                   *)
validate(r) ==
  /\ rq[r].pc = "validate"
  /\ \/ cached = none /\ rq' = [rq EXCEPT ![r].pc = "use", ![r].pin = none]
     \/ cached # none /\ Answer(r, "API013")
     \/ /\ cached # none /\ rq[r].kind # "image"
        /\ rq' = [rq EXCEPT ![r].pc = "use", ![r].seen = representation(rq[r].kind, cached)]
  /\ UNCHANGED <<engine, cache, forgotten, waits>>

(* Writes.service and the rules that need only the cached service; host    *)
(* access the cached service holds is not for level 2 to change.           *)
CheckHostAccessHeld(r, spec) == rq[r].level < 3 /\ spec.host
useCase(r) ==
  /\ rq[r].pc = "use"
  /\ \/ rq[r].kind = "create" /\ Goto(r, "expect")
     \/ rq[r].kind # "create" /\ cached = none /\ Answer(r, "SVC003")
     \/ /\ rq[r].kind = "image" /\ cached # none /\ CheckHostAccessHeld(r, specs[cached])
        /\ Answer(r, "OPS001")
     \/ /\ rq[r].kind # "create" /\ cached # none
        /\ rq[r].kind = "image" => ~ CheckHostAccessHeld(r, specs[cached])
        /\ Goto(r, IF rq[r].kind = "remove" THEN "expect" ELSE "inspect")
  /\ UNCHANGED <<engine, cache, forgotten, waits>>

CheckCached(r, adds) ==
  /\ rq[r].kind = "section" /\ cached # none
  /\ CheckHostAccessHeld(r, specs[cached]) \/ (adds /\ rq[r].level < 3)

(* checkServiceChange, on the live specification the change is made to. *)
checkServiceChange(r, adds) ==
  /\ rq[r].kind = "section"
  /\ CheckHostAccessHeld(r, specs[Latest]) \/ (adds /\ rq[r].level < 3)

(* updateService, up to the update: the inspection, checkPinned, mutate. *)
checkPinned(r) == rq[r].pin \in {none, Latest}
inspect(r) ==
  /\ rq[r].pc = "inspect"
  /\ \/ Answer(r, "ENG001")
     \/ ~ there /\ Answer(r, "SVC003")
     \/ there /\ ~ checkPinned(r) /\ Answer(r, "API013")
     \/ \E adds \in BOOLEAN :
          /\ there /\ checkPinned(r) /\ (adds => rq[r].kind = "section")
          /\ IF checkServiceChange(r, adds) THEN Answer(r, "OPS001")
             ELSE rq' = [rq EXCEPT ![r].pc = "expect", ![r].over = Latest, ![r].adds = adds]
  /\ UNCHANGED <<engine, cache, forgotten, waits>>

Unregistered(r) ==
  /\ rq[r].pc = "expect" /\ Goto(r, "send")
  /\ UNCHANGED <<engine, cache, forgotten, waits>>

(* expect *)
expect(r) ==
  /\ rq[r].pc = "expect" /\ Goto(r, "send")
  /\ ExpectedAfter(r, CASE rq[r].kind = "remove" -> "remove" [] rq[r].kind = "create" -> "create"
                        [] OTHER -> "change", rq[r].over)
  /\ UNCHANGED <<engine, cached, cfgCached, history, waits>>

(* The engine's answer, refused or lost: what it says of the write.        *)
Sent(r, err, wrote) ==
  rq' = [rq EXCEPT ![r].pc = "settle", ![r].err = err, ![r].wrote = wrote]
Conflict(r) == IF rq[r].pin # none THEN "API013" ELSE "SVC001"

(* ServiceUpdate, against the version inspected. *)
sendUpdate(r) ==
  /\ rq[r].pc = "send" /\ rq[r].kind \in Updates
  /\ \/ Sent(r, "ENG001", none) /\ UNCHANGED specs
     \/ ~ there /\ Sent(r, "SVC003", none) /\ UNCHANGED specs
     \/ there /\ Latest # rq[r].over /\ Sent(r, Conflict(r), none) /\ UNCHANGED specs
     \/ /\ there /\ Latest = rq[r].over /\ Latest < MaxVersion
        /\ applied(r, rq[r].kind = "section", rq[r].adds)
        /\ \E err \in {"", "ENG001"} : Sent(r, err, Latest + 1)
  /\ UNCHANGED <<topic, there, cfg, cfgNews, cache, forgotten, waits>>

(* ServiceRemove, and ConfigCreate. *)
sendOther(r) ==
  /\ rq[r].pc = "send" /\ rq[r].kind \notin Updates
  /\ \/ Sent(r, "ENG001", none) /\ UNCHANGED <<there, cfg, cfgNews>>
     \/ rq[r].kind = "remove" /\ ~ there /\ Sent(r, "SVC003", none) /\ UNCHANGED <<there, cfg, cfgNews>>
     \/ /\ rq[r].kind = "remove" /\ there /\ there' = FALSE /\ UNCHANGED <<cfg, cfgNews>>
        /\ \E err \in {"", "ENG001"} : Sent(r, err, none)
     \/ rq[r].kind = "create" /\ cfg # "none" /\ Sent(r, "CFG003", none)
        /\ UNCHANGED <<there, cfg, cfgNews>>
     \/ /\ rq[r].kind = "create" /\ cfg = "none" /\ cfg' = "made" /\ cfgNews' = TRUE
        /\ \E err \in {"", "ENG001"} : Sent(r, err, none) /\ UNCHANGED there
  /\ UNCHANGED <<topic, specs, cache, forgotten, waits>>

(* What follows the engine's answer: a refusal is answered; a removal is   *)
(* done; a creation is seeded into the cache; an update is read back.      *)
Settled(r) ==
  IF rq[r].err # "" THEN Answer(r, rq[r].err)
  ELSE IF rq[r].kind = "remove" THEN Answer(r, "204")
  ELSE Goto(r, IF rq[r].kind = "create" THEN "seed" ELSE "reread")
SettleKeeping(r) ==
  /\ rq[r].pc = "settle" /\ Settled(r)
  /\ UNCHANGED <<engine, cache, forgotten, waits>>

(* settle withdraws what a failed write expected. *)
settle(r) ==
  /\ rq[r].pc = "settle" /\ Settled(r)
  /\ pending' = (IF rq[r].err # "" THEN Sifted(pending, {pending[i] : i \in {j \in DOMAIN pending : pending[j].by = r}})
                 ELSE pending)
  /\ UNCHANGED <<engine, cached, cfgCached, history, forgotten, waits>>

SeedNothing(r) ==
  /\ rq[r].pc = "seed" /\ Answer(r, "201")
  /\ UNCHANGED <<engine, cache, forgotten, waits>>

(* SeedCreatedConfig: AddConfig, of the config or of a stand-in. *)
seedCreated(r) ==
  /\ rq[r].pc = "seed" /\ Answer(r, "201")
  /\ cfgCached' = TRUE
  /\ IF cfgCached THEN UNCHANGED <<pending, history>> ELSE notify([act |-> "create", ver |-> none])
  /\ UNCHANGED <<engine, cached, forgotten, waits>>

(* updateService's InspectService, then awaitPreferred: no preference, or  *)
(* a wait in a free slot; respond-async, and a wait with no slot free, are *)
(* answered 202 at once.                                                   *)
reread(r) ==
  /\ rq[r].pc = "reread"
  /\ \/ Answer(r, "ENG001") /\ UNCHANGED waits
     \/ ~ there /\ Answer(r, "SVC003") /\ UNCHANGED waits
     \/ there /\ \E code \in {"200", "202"} : Answer(r, code) /\ UNCHANGED waits
     \/ /\ there /\ waits < MaxWaits /\ waits' = waits + 1
        /\ rq' = [rq EXCEPT ![r].pc = "waiting", ![r].ver = Latest]
  /\ UNCHANGED <<engine, cache, forgotten>>

VisibleOnce(r) == cached # none

(* serviceConvergedAt: the cache has caught up with the write; whether the *)
(* tasks have converged is up to the cluster.                              *)
serviceConvergedAt(r) == cached # none /\ cached >= rq[r].ver

(* AwaitService, until it converged or the wait is over. *)
await(r) ==
  /\ rq[r].pc = "waiting" /\ waits' = waits - 1
  /\ \/ /\ serviceConvergedAt(r)
        /\ rq' = [rq EXCEPT ![r].pc = "done", ![r].answer = "waited", ![r].saw = cached]
     \/ Answer(r, "202")
  /\ UNCHANGED <<engine, cache, forgotten>>

Request(r) ==
  \/ Arrive(r) \/ refreshSubject(r) \/ pinSubjectVersion(r) \/ validate(r) \/ useCase(r)
  \/ inspect(r) \/ expect(r) \/ sendUpdate(r) \/ sendOther(r) \/ settle(r) \/ seedCreated(r)
  \/ reread(r) \/ await(r)

Next ==
  \/ \E r \in Requests : Request(r)
  \/ Lapse \/ Deliver \/ DeliverConfig \/ Sync \/ OutsideUpdate \/ OutsideRemove

Spec == Init /\ [][Next]_vars

----------------------------------------------------------------------------
(* A section write sent with If-Match is applied only over the section the *)
(* client saw, whoever changed it between the comparison and the update    *)
(* (precondition.go, docker/version.go).                                   *)
NoLostUpdate ==
  \A v \in 2..Latest : LET r == specs[v].by IN
    r # other => (rq[r].kind = "section" /\ rq[r].seen # none => specs[v - 1].part = rq[r].seen)

(* Below level 3 no section write gives a service host access or changes   *)
(* one that has it, on the specification the write is really made to       *)
(* (cluster/writes.go checkServiceChange).                                 *)
HostAccessKept ==
  \A v \in 2..Latest : LET r == specs[v].by IN
    r # other => (rq[r].kind = "section" /\ rq[r].level < 3
                  => ~ specs[v - 1].host /\ ~ specs[v].host)

(* A change the engine accepted and said so is never recorded as coming    *)
(* from elsewhere, unless its attribution lapsed or was pushed out: the    *)
(* expectation is registered before the change can be seen                 *)
(* (cache/attribution.go, docker/attribution.go).  And what a refused      *)
(* write expected is never left for somebody else's change to match.       *)
AcceptedIsNamed ==
  /\ \A h \in history : h.act = "change" /\ specs[h.ver].by # other =>
       LET r == specs[h.ver].by
       IN  rq[r].err = "" /\ r \notin forgotten => h.named # nobody
  /\ \A i \in DOMAIN pending :
       LET r == pending[i].by
       IN  rq[r].err = "" \/ rq[r].pc = "settle"

(* Prefer: wait answers with the change only once the cache shows it, and  *)
(* every slot taken to wait is given back (write_helpers.go                *)
(* awaitPreferred, cluster/converge.go).                                   *)
WaitSound ==
  /\ \A r \in Requests : rq[r].answer = "waited" => rq[r].saw >= rq[r].wrote
  /\ waits = Cardinality({r \in Requests : rq[r].pc = "waiting"}) /\ waits <= MaxWaits

(* A client told its config was created finds it, unless it was removed    *)
(* since (cluster/created.go).                                             *)
ReadYourCreate ==
  \A r \in Requests : rq[r].answer = "201" => cfgCached \/ cfg = "gone"

(* What a client was answered is so in the cache it reads next. *)
AnswersHold == TypeOK /\ WaitSound /\ ReadYourCreate
=============================================================================
