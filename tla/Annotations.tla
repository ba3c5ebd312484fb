---------------------------- MODULE Annotations ----------------------------
(***************************************************************************)
(* The rules of annotations (internal/cluster/annotations.go) and the two  *)
(* ways to them, the REST handlers and the MCP tools.  How they are stored *)
(* is in Timeline.                                                         *)
(*                                                                         *)
(* A resource is [type, id, name, service, stack]: what a note is about,   *)
(* with what it belonged to when it was named.  A caller is what it may    *)
(* read and write, whether it holds any grant or writes everything, and    *)
(* who it is.  A fault names what is wrong with a request's body.          *)
(***************************************************************************)
EXTENDS Integers, Sequences, FiniteSets, SequencesExt, TLC

Rq == INSTANCE Requests

MaxAnnotationResources == 20
MaxAnnotations == 10000

----------------------------------------------------------------------------
(* Access *)

(* allAdmit: by its name, or by what it belonged to. *)
allAdmit(resources, may) ==
  \A i \in DOMAIN resources :
    LET r == resources[i] IN
      \/ <<r.type, r.name>> \in may
      \/ r.service # "" /\ <<"service", r.service>> \in may
      \/ r.stack # "" /\ <<"stack", r.stack>> \in may
MayRead(caller, note) ==
  IF note.resources = <<>> THEN caller.anyGrant ELSE allAdmit(note.resources, caller.reads)
mayCreate(caller, resources) ==
  IF resources = <<>> THEN caller.writesEverything ELSE allAdmit(resources, caller.writes)

(* authored: a subject is one however it came, if a token brought it. *)
authored(caller, note) ==
  /\ caller.subject # "" /\ note.actor.subject = caller.subject
  /\ note.actor.provider = caller.provider \/ "token" \in {note.actor.provider, caller.provider}

MayEdit(caller, note) ==
  (authored(caller, note) /\ MayRead(caller, note)) \/ mayCreate(caller, note.resources)

----------------------------------------------------------------------------
(* What a note is about *)

Nothing == [type |-> "", id |-> "", name |-> "", service |-> "", stack |-> ""]

Found(type, found, caller) ==
  LET r == found.record
  IN  IF found.ambiguous \/ ~ found.found \/ Rq!Resource(r) \notin caller.reads THEN Nothing
      ELSE [type |-> type, id |-> r.id, name |-> r.name, service |-> IF type = "service" THEN r.name ELSE "",
            stack |-> CASE type = "service" -> r.stack [] type = "stack" -> r.name [] OTHER -> ""]

(* resolveOne: what the note named already is kept as it was named; what   *)
(* is new must be found and readable.                                      *)
resolveOne(ref, kept, caller, world) ==
  LET held == {i \in DOMAIN kept : kept[i].type = ref.type /\ ref.id \in {kept[i].id, kept[i].name}}
  IN  IF ref.type \notin {"service", "stack", "node"} \/ ref.id = "" THEN Nothing
      ELSE IF held # {} THEN kept[CHOOSE i \in held : \A j \in held : i <= j]
      ELSE Found(ref.type, Rq!LookupAs(world, ref.type, ref.id, caller.reads), caller)

(* resolve: all of them, none twice. *)
resolve(refs, kept, caller, world) == [i \in DOMAIN refs |-> resolveOne(refs[i], kept, caller, world)]
Resolved(resources) ==
  /\ Len(resources) <= MaxAnnotationResources
  /\ \A i \in DOMAIN resources : resources[i] # Nothing
  /\ \A i, j \in DOMAIN resources :
       resources[i].type = resources[j].type /\ resources[i].id = resources[j].id => i = j

(* validateAnnotation: the text, the times and the tags *)
validateAnnotation(note) ==
  /\ note.text = "said"
  /\ note.at > 0 /\ (note.until # 0 => note.until > note.at)
  /\ note.tags # "twice"

----------------------------------------------------------------------------
(* Create, Update and Delete *)

Answer(code, note) == [code |-> code, note |-> note]
NoNote == [id |-> 0, version |-> 0, text |-> "", at |-> 0, until |-> 0, tags |-> "", resources |-> <<>>,
           actor |-> [subject |-> "", provider |-> ""], editor |-> ""]

Create(srv, caller, in, world) ==
  LET resources == resolve(in.resources, <<>>, caller, world)
      note == [id |-> srv.next, version |-> srv.next, text |-> in.text, at |-> in.at, until |-> in.until,
               tags |-> in.tags, resources |-> resources, editor |-> "",
               actor |-> [subject |-> caller.subject, provider |-> caller.provider]]
  IN  IF ~ srv.on THEN Answer("off", NoNote)
      ELSE IF ~ Resolved(resources) \/ ~ validateAnnotation(note) THEN Answer("invalid", NoNote)
      ELSE IF ~ mayCreate(caller, resources) THEN Answer("denied", NoNote)
      ELSE IF srv.count >= MaxAnnotations THEN Answer("limit", NoNote)
      ELSE Answer("done", note)

EditableDeniedFirst(srv, caller, note, matches) ==
  IF ~ srv.on THEN "off"
  ELSE IF note = NoNote THEN "absent"
  ELSE IF ~ MayEdit(caller, note) THEN "denied"
  ELSE IF matches # 0 /\ matches # note.version THEN "precondition"
  ELSE ""

(* get and editable: what cannot be read is not there. *)
editable(srv, caller, note, matches) ==
  IF ~ srv.on THEN "off"
  ELSE IF note = NoNote \/ ~ MayRead(caller, note) THEN "absent"
  ELSE IF ~ MayEdit(caller, note) THEN "denied"
  ELSE IF matches # 0 /\ matches # note.version THEN "precondition"
  ELSE ""

(* patched: a member that is left out stays. *)
patched(caller, note, patch, world) ==
  LET of(member, held) == IF patch[member] = "keep" THEN held ELSE patch[member]
      times == [at |-> IF patch.at = 0 THEN note.at ELSE patch.at,
                until |-> IF patch.until = 0 THEN note.until ELSE patch.until]
  IN  [note EXCEPT !.text = of("text", @), !.tags = of("tags", @), !.at = times.at, !.until = times.until,
                   !.resources = IF patch.named THEN resolve(patch.resources, note.resources, caller, world)
                                 ELSE @]

AttemptUnchecked(srv, caller, read, found, patch, matches, world) ==
  LET checked == editable(srv, caller, read, matches)
      next == patched(caller, read, patch, world)
  IN  IF checked # "" THEN Answer(checked, NoNote)
      ELSE IF ~ Resolved(next.resources) \/ ~ validateAnnotation(next) THEN Answer("invalid", NoNote)
      ELSE IF patch.named /\ ~ mayCreate(caller, next.resources) THEN Answer("denied", NoNote)
      ELSE IF found = NoNote THEN Answer("absent", NoNote)
      ELSE Answer("done", [next EXCEPT !.version = srv.next, !.editor = caller.subject])

(* Of Update: the note as the patch would have it, stored if what the      *)
(* store holds is still what was read.                                     *)
Replace(srv, caller, read, found, named, next) ==
  IF ~ Resolved(next.resources) \/ ~ validateAnnotation(next) THEN Answer("invalid", NoNote)
  ELSE IF named /\ ~ mayCreate(caller, next.resources) THEN Answer("denied", NoNote)
  ELSE IF next = read THEN Answer("same", read)
  ELSE IF found = NoNote THEN Answer("absent", NoNote)
  ELSE IF found.version # read.version THEN Answer("moved", NoNote)
  ELSE Answer("done", [next EXCEPT !.version = srv.next, !.editor = caller.subject])

(* One attempt of Update on what it read, and what it finds when it holds  *)
(* the store: a version that moved is tried again.                         *)
Attempt(srv, caller, read, found, patch, matches, world) ==
  LET checked == editable(srv, caller, read, matches)
  IN  IF checked # "" THEN Answer(checked, NoNote)
      ELSE Replace(srv, caller, read, found, patch.named, patched(caller, read, patch, world))

(* Update: read, check, write if it is still what was read; over again if  *)
(* somebody wrote it in between, who here does so once.                    *)
Retried(first, second) == IF first.code # "moved" THEN first ELSE second
Update(srv, caller, read, found, patch, matches, world) ==
  Retried(Attempt(srv, caller, read, found, patch, matches, world),
          Attempt(srv, caller, found, found, patch, matches, world))

DeleteAttempt(srv, caller, read, found, matches) ==
  LET checked == editable(srv, caller, read, matches)
  IN  IF checked # "" THEN checked
      ELSE IF found = NoNote THEN "absent"
      ELSE IF found.version # read.version THEN "moved" ELSE "done"
Delete(srv, caller, read, found, matches) ==
  LET first == DeleteAttempt(srv, caller, read, found, matches)
  IN  IF first = "moved" THEN DeleteAttempt(srv, caller, found, found, matches) ELSE first

----------------------------------------------------------------------------
(* The handlers *)

writeAnnotationError ==
  [off |-> "ANN003", invalid |-> "ANN001", denied |-> "ACL002", limit |-> "ANN002", absent |-> "ANN004",
   precondition |-> "API013", same |-> "done", done |-> "done"]

(* HandleCreateAnnotation: the body before anything else. *)
HandleCreateAnnotation(q, srv, caller, world) ==
  IF "body" \in q.faults THEN "ANN001" ELSE writeAnnotationError[Create(srv, caller, q.in, world).code]

(* annotationEdit: an editable note's state is compared before the body is *)
(* read; of any other the handler answers.                                 *)
annotationEdit(q, srv, caller, note) ==
  LET checked == editable(srv, caller, note, 0)
  IN  IF q.matches # 0 /\ checked = "" /\ q.matches # note.version THEN "API013" ELSE ""

(* HandlePatchAnnotation and decodeAnnotationPatch *)
HandlePatchAnnotation(q, srv, caller, read, found, world) ==
  LET early == annotationEdit(q, srv, caller, read)
  IN  IF early # "" THEN early
      ELSE IF "media" \in q.faults THEN "API004"
      ELSE IF "object" \in q.faults THEN "API008"
      ELSE IF "body" \in q.faults THEN "ANN001"
      ELSE writeAnnotationError[Update(srv, caller, read, found, q.patch, q.matches, world).code]

HandleDeleteAnnotation(q, srv, caller, read, found) ==
  LET early == annotationEdit(q, srv, caller, read)
  IN  IF early # "" THEN early ELSE writeAnnotationError[Delete(srv, caller, read, found, q.matches)]

HandleGetAnnotation(caller, note) == IF note = NoNote \/ ~ MayRead(caller, note) THEN "ANN004" ELSE "done"

(* toolAddAnnotation, toolUpdateAnnotation, toolDeleteAnnotation: the      *)
(* arguments, then the same use cases.                                     *)
toolAddAnnotation(q, srv, caller, world) ==
  IF "body" \in q.faults THEN "invalid" ELSE Create(srv, caller, q.in, world).code
toolUpdateAnnotation(q, srv, caller, read, found, world) ==
  IF "body" \in q.faults THEN "invalid"
  ELSE Update(srv, caller, read, found, q.patch, q.matches, world).code
toolDeleteAnnotation(q, srv, caller, read, found) == Delete(srv, caller, read, found, q.matches)

(* readAnnotation *)
readAnnotation(srv, caller, note) ==
  CASE ~ caller.anyGrant -> "denied" [] ~ srv.on -> "off"
    [] note = NoNote \/ ~ MayRead(caller, note) -> "absent" [] OTHER -> "done"

----------------------------------------------------------------------------
(* Notes in the timeline *)

(* About: a note is about what it names, the services of a stack it names, *)
(* and the stack of a service it names; one that names nothing, about all. *)
About(note, type, id, stack) ==
  \/ note.resources = <<>>
  \/ \E i \in DOMAIN note.resources :
       LET r == note.resources[i] IN
         \/ r.id = id
         \/ stack # "" /\ r.type = "stack" /\ r.id = stack
         \/ type = "stack" /\ r.type = "service" /\ r.stack = id

matchesTags(q, tags) ==
  q.tags = {} \/ (IF q.matchAny THEN q.tags \cap tags # {} ELSE q.tags \subseteq tags)
matchesAuthor(q, actor) == q.authors = {} \/ actor \in q.authors

(* annotationMatchesText, of a title and of the words of a search *)
annotationMatchesText(q, note) ==
  /\ q.title # "" => q.title = note.text
  /\ q.search # "" => q.search \in {note.text, note.tags, note.actor.subject}
                                   \cup {note.resources[i].name : i \in DOMAIN note.resources}

(* matchesAnnotation: a note that names nothing is about everything.       *)
matchesAnnotation(q, note, stack) ==
  LET end == IF note.until = 0 THEN note.at ELSE note.until
      ofType(r) == (q.type = "" \/ r.type = q.type) /\ (q.types = {} \/ r.type \in q.types)
  IN  /\ q.after = 0 \/ end > q.after
      /\ q.before = 0 \/ note.at <= q.before
      /\ matchesTags(q, {note.tags}) /\ matchesAuthor(q, note.actor.subject)
      /\ IF q.id # "" THEN About(note, q.type, q.id, stack)
         ELSE note.resources = <<>> \/ \E i \in DOMAIN note.resources : ofType(note.resources[i])
      /\ annotationMatchesText(q, note)

(* annotationBatch: up to n of them, newest first from a cursor, and where *)
(* to go on if there were as many.                                         *)
annotationBatch(notes, q, stack, cursor, n) ==
  LET upTo(found) == IF Len(found) < n THEN [batch |-> found, next |-> 0]
                     ELSE [batch |-> SubSeq(found, 1, n), next |-> found[n].id]
  IN  upTo(Reverse(SelectSeq(notes, LAMBDA x : (cursor = 0 \/ x.id < cursor) /\ matchesAnnotation(q, x, stack))))

(* annotationEntries: batch after batch until as many as asked for can be  *)
(* read.                                                                   *)
annotationEntries(notes, q, caller, stack) ==
  LET cursors == {q.cursor} \cup {notes[i].id : i \in DOMAIN notes}
      fill[cursor \in cursors, want \in 0..q.limit] ==
        LET got(b) == SelectSeq(b.batch, LAMBDA x : MayRead(caller, x))
            from(b) == got(b) \o IF b.next = 0 THEN <<>> ELSE fill[b.next, want - Len(got(b))]
        IN  IF want = 0 THEN <<>> ELSE from(annotationBatch(notes, q, stack, cursor, want))
  IN  fill[q.cursor, q.limit]
=============================================================================
