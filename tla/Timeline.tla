------------------------------ MODULE Timeline ------------------------------
(***************************************************************************)
(* The persistent timeline: the in-memory ring of changes                  *)
(* (cache/history.go), the writer that copies it into SQLite once a second *)
(* (timeline/writer.go, timeline/sqlite.go), and the annotations, which    *)
(* commit to the same database before they are shown                       *)
(* (cache/annotations.go, timeline/annotations.go).                        *)
(*                                                                         *)
(* Three promises cross a crash: an id a reader was handed is never issued *)
(* again, a stretch in which nobody watched the cluster ends up in a       *)
(* recorded gap, and an annotation acknowledged is an annotation kept.     *)
(*                                                                         *)
(* Time is a counter: the interval t runs from instant t to t + 1.  SQLite *)
(* is external: a transaction is atomic, may fail, and outlives a crash.   *)
(***************************************************************************)
EXTENDS Integers, FiniteSets, FiniteSetsExt, SequencesExt, Sequencing

CONSTANTS
  Size,         \* entries the ring holds and the database keeps
  MaxTime,      \* bound: instants
  MaxId,        \* bound: ids issued
  MaxStarts,    \* bound: starts of the process
  MaxEvents     \* bound: database errors, lost streams and annotation writes, together

ASSUME SizeAssumption ==
  /\ {Size, MaxTime} \subseteq Nat \ {0}
  /\ {MaxId, MaxStarts, MaxEvents} \subseteq Nat

VARIABLES
  phase,        \* "down", "up", or "stopping" once the context ended
  now, starts, events,
  ring, count,  \* History: the entries held, oldest first, and the last id
  db,           \* the database, which alone survives a crash
  stored,       \* SQLite.stored: rows counted without asking
  coverage,     \* SQLite.coverage: the open coverage row, 0 for none
  writer,       \* Writer's fields
  flush,        \* where Writer.flush stands, with the batch it carries
  watching,     \* Watcher.Watching
  index,        \* annotationIndex: id -> version
  note,         \* the annotation write under way
  blind,        \* history: the intervals nobody watched
  trimmed,      \* history: instant below which gaps were let go
  unseen,       \* history: when coverage last opened with no stream live
  reserved      \* history: the ids up to count were reserved at start

process == <<ring, count, stored, coverage, writer, flush, watching, index, note>>
bounds == <<now, starts, events>>
history == <<blind, trimmed, unseen, reserved>>
vars == <<phase, bounds, process, db, history>>

Kinds == {"change", "gap", "annotation"}
NoFlush == [at |-> "idle", entries |-> <<>>, last |-> 0, seenAt |-> 0, keep |-> FALSE]
NoNote == [at |-> "none", action |-> "none", id |-> 0, version |-> 0]

(* NewWriter: from the ring's count; the zero time is 0. *)
NewWriter(n) == [last |-> n, ready |-> FALSE, gapChecked |-> FALSE, covering |-> FALSE,
                 seenAt |-> 0, retained |-> FALSE]

Init ==
  /\ phase = "down" /\ now = 1 /\ starts = 0 /\ events = 0
  /\ ring = <<>> /\ count = 0 /\ stored = 0 /\ coverage = 0
  /\ writer = NewWriter(0) /\ flush = NoFlush /\ watching = FALSE
  /\ index = <<>> /\ note = NoNote
  /\ db = [rows |-> {}, last |-> 0, coverage |-> <<>>, notes |-> <<>>]
  /\ blind = {} /\ trimmed = 0 /\ unseen = 0 /\ reserved = TRUE

Up == phase \in {"up", "stopping"}
(* The store's one connection, and notifyMu, are free. *)
ConnFree == note.at = "none"
NotifyIgnored == TRUE
NotifyFree == note.at # "put"

(* What happens at most MaxEvents times: a database error, for one. *)
Bounded == events < MaxEvents /\ events' = events + 1
Fault == Bounded

----------------------------------------------------------------------------
(* History *)

Overwritten(entries) == IF Len(entries) > Size THEN SubSeq(entries, 1, Len(entries) - Size)
                                               ELSE <<>>
Held(entries) == SubSeq(entries, Len(Overwritten(entries)) + 1, Len(entries))

(* The latest end of the gaps among entries, or floor. *)
LatestGapEnd(entries, floor) ==
  Max({floor} \cup {e.until : e \in {x \in entries : x.kind = "gap"}})

(* Append: the ring overwrites the oldest; a gap never written is let go.  *)
(* notify calls it for a change, for a gap and what it recovered, and      *)
(* commitAnnotation for an annotation's item.                              *)
AppendAll(entries) ==
  LET all == ring \o entries
      lost == {e \in ToSet(Overwritten(all)) : e.id > writer.last}
  IN  /\ count + Len(entries) <= MaxId
      /\ ring' = Held(all)
      /\ count' = count + Len(entries)
      /\ trimmed' = LatestGapEnd(lost, trimmed)

Entry(kind, n, from, until) ==
  [id |-> count + n, kind |-> kind, from |-> from, until |-> until, version |-> 0]

(* Since, for the writer: what the ring holds past an id, overrun or not. *)
Since(afterID) == Sifted(ring, {e \in ToSet(ring) : e.id <= afterID})

(* History.Restore: a ring's worth of ids is skipped, which a crashed      *)
(* process may have handed out and never written.                          *)
RestoredCount(last) == last + Size

----------------------------------------------------------------------------
(* The database *)

RingKinds == {"change", "gap"}
LastCommitted(d) ==
  Max({d.last} \cup {e.id : e \in d.rows} \cup {d.notes[id] : id \in DOMAIN d.notes})

(* LastSeen: of the rows heartbeated, or of all when none was, the newest. *)
LastSeenRows(d) == 
  LET beaten == {i \in DOMAIN d.coverage : d.coverage[i].beat}
  IN  IF beaten # {} THEN beaten ELSE DOMAIN d.coverage
Heartbeated(d) == \E i \in DOMAIN d.coverage : d.coverage[i].beat
Seen(d) == LastSeenRows(d) # {}
LastSeen(d) == d.coverage[Max(LastSeenRows(d))].seen

(* OpenCoverage *)
Opened(d, at) == [d EXCEPT !.coverage = Append(@, [started |-> at, seen |-> at, beat |-> FALSE])]

RetainedOneMore(rows) == {e \in rows : Cardinality({f \in rows : f.id > e.id}) <= Size}

(* Commit's retention: all but the newest Size entries.  Rows of coverage   *)
(* older than all of them go too, which LastSeen never picks; they are kept *)
(* here.                                                                   *)
Retained(rows) == {e \in rows : Cardinality({f \in rows : f.id > e.id}) < Size}

(* insert skips the ids already stored. *)
Inserted(rows, entries) ==
  rows \cup {e \in ToSet(entries) : \A r \in rows : r.id # e.id}

(* Commit of the batch in one transaction. *)
Committed(d, batch) ==
  LET rows == Inserted(d.rows, batch.entries)
  IN  [d EXCEPT !.rows = IF batch.keep THEN Retained(rows) ELSE rows,
                !.last = IF batch.last > @ THEN batch.last ELSE @,
                !.coverage = IF coverage # 0 /\ batch.seenAt # 0
                             THEN [@ EXCEPT ![coverage].seen = batch.seenAt,
                                            ![coverage].beat = TRUE]
                             ELSE @]

(* stored follows the rows by the counts of inserts and deletes. *)
StoredAfter(d, batch) ==
  LET inserted == stored + Cardinality(Inserted(d.rows, batch.entries)) - Cardinality(d.rows)
  IN  IF batch.keep /\ inserted > Size THEN Size ELSE inserted

----------------------------------------------------------------------------
(* Start and end of the process *)

(* Rows as they are loaded, in the order of their ids. *)
InOrder(rows) ==
  CHOOSE s \in [1..Cardinality(rows) -> rows] :
    \A i, j \in DOMAIN s : i < j => s[i].id < s[j].id

ReserveNothing == db' = db /\ reserved' = TRUE /\ UNCHANGED events

(* restoreTimeline: the ring, the ids and the annotations come back; the   *)
(* count is stored at once, so that a crash before the first flush skips   *)
(* them again.  A failed reservation is a warning.                         *)
Reserve ==
  \/ db' = [db EXCEPT !.last = RestoredCount(LastCommitted(db))]
     /\ reserved' = TRUE /\ UNCHANGED events
  \/ reserved' = FALSE /\ Fault /\ UNCHANGED db

Start ==
  /\ phase = "down" /\ starts < MaxStarts
  /\ RestoredCount(LastCommitted(db)) <= MaxId
  /\ phase' = "up" /\ starts' = starts + 1
  /\ ring' = Held(InOrder(db.rows))
  /\ count' = RestoredCount(LastCommitted(db))
  /\ stored' = Cardinality(db.rows)
  /\ coverage' = 0
  /\ writer' = NewWriter(RestoredCount(LastCommitted(db)))
  /\ flush' = NoFlush /\ watching' = FALSE
  /\ index' = db.notes /\ note' = NoNote
  /\ Reserve
  /\ UNCHANGED <<now, blind, trimmed, unseen>>

(* The process ends, at any point or after the last flush. *)
Ended ==
  /\ phase' = "down" /\ watching' = FALSE
  /\ ring' = <<>> /\ count' = 0 /\ stored' = 0 /\ coverage' = 0
  /\ writer' = NewWriter(0) /\ flush' = NoFlush /\ index' = <<>> /\ note' = NoNote
  /\ UNCHANGED <<bounds, db, history>>

Crash == Up /\ Ended

(* A stop of the process: the watcher and the server end, the writer then  *)
(* flushes once more.  Heartbeats end with the context.                    *)
Stop ==
  /\ phase = "up" /\ flush.at = "idle" /\ note.at = "none"
  /\ phase' = "stopping" /\ watching' = FALSE
  /\ UNCHANGED <<bounds, ring, count, stored, coverage, writer, flush, index, note, db, history>>

Exit == phase = "stopping" /\ flush.at = "exit" /\ Ended

(* One instant passes, watched or not.  What is missed counts from the     *)
(* first heartbeat of all.                                                 *)
Tick ==
  /\ now < MaxTime
  /\ now' = now + 1
  /\ blind' = IF watching \/ ~Heartbeated(db) THEN blind ELSE blind \cup {now}
  /\ UNCHANGED <<phase, starts, events, process, db, trimmed, unseen, reserved>>

----------------------------------------------------------------------------
(* Watching, gaps and coverage *)

(* A change the watcher applied, notified under notifyMu. *)
Change ==
  /\ phase = "up" /\ NotifyFree
  /\ AppendAll(<<Entry("change", 1, now, now)>>)
  /\ UNCHANGED <<phase, bounds, stored, coverage, writer, flush, watching, index, note, db,
                 blind, unseen, reserved>>

StreamLost ==
  /\ phase = "up" /\ watching /\ Bounded
  /\ watching' = FALSE
  /\ UNCHANGED <<phase, now, starts, ring, count, stored, coverage, writer, flush, index, note, db,
                 history>>

(* recordGapLocked with a known start: the gap is notified after the       *)
(* changes recovered from the engine's buffer, and ends now.               *)
NotifyGap(previous, recovered) ==
  IF previous # 0 /\ previous < now
  THEN AppendAll([i \in 1..recovered |-> Entry("change", i, now, now)]
                 \o <<Entry("gap", recovered + 1, previous, now)>>)
  ELSE UNCHANGED <<ring, count, trimmed>>
GapChecked(w) == [w EXCEPT !.gapChecked = TRUE, !.seenAt = now]

(* Where the gap starts: this process's last heartbeat, else the           *)
(* database's, 0 when it never watched.                                    *)
Previous(w) == IF w.seenAt # 0 THEN w.seenAt ELSE IF Seen(db) THEN LastSeen(db) ELSE 0

(* RecordGap from the watcher's hook, before the stream records anything:  *)
(* coverage closes, and the gap is recorded unless LastSeen fails.         *)
StillCovered(w) == w
Uncovered(w) == [w EXCEPT !.covering = FALSE]
RecordGap(recovered) ==
  LET w == Uncovered([writer EXCEPT !.ready = TRUE]) IN
  \/ NotifyGap(Previous(w), recovered) /\ writer' = GapChecked(w) /\ UNCHANGED events
  \/ /\ w.seenAt = 0 /\ Fault
     /\ writer' = w /\ UNCHANGED <<ring, count, trimmed>>

(* startWatching: the hook runs, then the stream counts as watched. *)
StartWatching ==
  /\ phase = "up" /\ ~watching /\ NotifyFree
  /\ writer.seenAt = 0 => ConnFree
  /\ \E recovered \in 0..1 : RecordGap(recovered)
  /\ watching' = TRUE
  /\ UNCHANGED <<phase, now, starts, stored, coverage, flush, index, note, db, blind, unseen, reserved>>

(* openCoverage, once ready and then at each tick until it succeeds: the   *)
(* gap first, if RecordGap could not, then the row.                        *)
OpenRow(w) ==
  \/ /\ db' = Opened(db, now)
     /\ coverage' = Len(db.coverage) + 1
     /\ writer' = [w EXCEPT !.covering = TRUE, !.seenAt = now]
     /\ UNCHANGED events
  \/ Fault /\ coverage' = 0 /\ writer' = w /\ UNCHANGED db

OpenCoverage ==
  /\ Up /\ flush.at = "idle" /\ writer.ready /\ ~writer.covering
  /\ ConnFree
  /\ \/ /\ writer.gapChecked
        /\ OpenRow(writer) /\ UNCHANGED <<ring, count, trimmed>>
     \/ /\ ~writer.gapChecked
        /\ OpenRow(GapChecked(writer)) /\ NotifyGap(Previous(writer), 0)
     \/ /\ ~writer.gapChecked /\ Fault
        /\ UNCHANGED <<ring, count, trimmed, writer, db, coverage>>
  /\ unseen' = IF coverage' # coverage /\ ~watching THEN now ELSE unseen
  /\ UNCHANGED <<phase, now, starts, stored, flush, watching, index, note, blind, reserved>>

----------------------------------------------------------------------------
(* Writer.flush *)

(* What the ring holds past lastWritten is read; annotations are left out  *)
(* of the entries and still move the last id.                              *)
FlushRead ==
  /\ Up /\ flush.at = "idle"
  /\ LET entries == Since(writer.last)
         unnoted == Sifted(entries, {e \in ToSet(entries) : e.kind \notin RingKinds})
     IN flush' = [at |-> "read", entries |-> unnoted, seenAt |-> 0,
                  last |-> IF entries # <<>> THEN entries[Len(entries)].id ELSE 0,
                  keep |-> unnoted # <<>> \/ ~writer.retained]
  /\ UNCHANGED <<phase, bounds, ring, count, stored, coverage, writer, watching, index, note, db,
                 history>>

(* live, as main sets it: the context has not ended and a stream is live. *)
Live == phase = "up" /\ watching
Heartbeats(due) == writer.covering /\ Live /\ (flush.last > 0 \/ due)

(* The heartbeat is decided under mu.  Whether a quiet one is due is time's. *)
FlushBuild ==
  /\ flush.at = "read"
  /\ \E due \in BOOLEAN :
       LET batch == [flush EXCEPT !.at = "built", !.seenAt = IF Heartbeats(due) THEN now ELSE 0]
           quiet == batch.entries = <<>> /\ batch.seenAt = 0 /\ ~batch.keep /\ batch.last = 0
       IN  flush' = IF ~quiet THEN batch
                    ELSE [NoFlush EXCEPT !.at = IF phase = "stopping" THEN "exit" ELSE "idle"]
  /\ UNCHANGED <<phase, bounds, ring, count, stored, coverage, writer, watching, index, note, db,
                 history>>

FlushCommit ==
  /\ flush.at = "built" /\ ConnFree
  /\ db' = Committed(db, flush)
  /\ stored' = StoredAfter(db, flush)
  /\ trimmed' = LatestGapEnd(Inserted(db.rows, flush.entries) \ db'.rows, trimmed)
  /\ reserved' = (reserved \/ flush.last > 0)
  /\ writer' = [writer EXCEPT !.retained = TRUE,
                              !.last = IF flush.last > 0 THEN flush.last ELSE @]
  /\ flush' = [flush EXCEPT !.at = "committed"]
  /\ UNCHANGED <<phase, bounds, ring, count, coverage, watching, index, note, blind, unseen>>

(* A failed commit leaves lastWritten, so the next tick tries again. *)
FlushFail ==
  /\ flush.at = "built" /\ ConnFree /\ Fault
  /\ flush' = [NoFlush EXCEPT !.at = IF phase = "stopping" THEN "exit" ELSE "idle"]
  /\ UNCHANGED <<phase, now, starts, ring, count, stored, coverage, writer, watching, index, note,
                 db, history>>

(* The heartbeat is remembered under mu, unless the coverage closed. *)
FlushSeen ==
  /\ flush.at = "committed"
  /\ writer' = IF writer.covering /\ flush.seenAt > writer.seenAt
               THEN [writer EXCEPT !.seenAt = flush.seenAt] ELSE writer
  /\ flush' = [NoFlush EXCEPT !.at = IF phase = "stopping" THEN "exit" ELSE "idle"]
  /\ UNCHANGED <<phase, bounds, ring, count, stored, coverage, watching, index, note, db, history>>

----------------------------------------------------------------------------
(* Annotations: the store first, then notifyMu, then the commit, the index *)
(* and the ring's item.                                                    *)

Indexed(notes, n) ==
  IF n.action = "remove" THEN Restrict(notes, DOMAIN notes \ {n.id})
  ELSE [id \in DOMAIN notes \cup {n.id} |-> IF id = n.id THEN n.version ELSE notes[id]]

(* beginAnnotation takes the store's one connection; the writer's own use  *)
(* of it is a single action here.                                          *)
BeginAnnotation ==
  /\ phase = "up" /\ note.at = "none" /\ Bounded
  /\ note' = [NoNote EXCEPT !.at = "begun"]
  /\ UNCHANGED <<phase, now, starts, ring, count, stored, coverage, writer, flush, watching, index, db,
                 history>>

(* Create, Update and Delete under notifyMu, up to Put's or Delete's       *)
(* commit.  The id is the one the item will get.                           *)
CreateNote == note' = [at |-> "put", action |-> "create", id |-> count + 1, version |-> count + 1]
UpdateNote == \E id \in DOMAIN index :
                note' = [at |-> "put", action |-> "update", id |-> id, version |-> count + 1]
DeleteNote == \E id \in DOMAIN index :
                note' = [at |-> "put", action |-> "remove", id |-> id, version |-> count + 1]

PutAnnotation ==
  /\ note.at = "begun" /\ count < MaxId
  /\ CreateNote \/ UpdateNote \/ DeleteNote
  /\ db' = [db EXCEPT !.notes = Indexed(@, note')]
  /\ UNCHANGED <<phase, bounds, ring, count, stored, coverage, writer, flush, watching, index,
                 history>>

(* The limit, an unknown id, a rejected edit, or a failed commit: nothing  *)
(* is recorded and the store is released.                                  *)
RejectAnnotation ==
  /\ note.at = "begun"
  /\ note' = NoNote
  /\ UNCHANGED <<phase, bounds, ring, count, stored, coverage, writer, flush, watching, index, db,
                 history>>

(* commitAnnotation past its commit: the index, the item, the release. *)
CommitAnnotation ==
  /\ note.at = "put"
  /\ index' = Indexed(index, note)
  /\ AppendAll(<<[Entry("annotation", 1, now, now) EXCEPT !.version = note.version]>>)
  /\ note' = NoNote
  /\ UNCHANGED <<phase, bounds, stored, coverage, writer, flush, watching, db, blind, unseen, reserved>>

Next ==
  \/ Start \/ Crash \/ Stop \/ Exit \/ Tick
  \/ Change \/ StreamLost \/ StartWatching \/ OpenCoverage
  \/ FlushRead \/ FlushBuild \/ FlushCommit \/ FlushFail \/ FlushSeen
  \/ BeginAnnotation \/ PutAnnotation \/ RejectAnnotation \/ CommitAnnotation

Spec == Init /\ [][Next]_vars

----------------------------------------------------------------------------
(* Properties *)

Times == 0..MaxTime
Ids == 0..MaxId
Entries == [id : Ids, kind : Kinds, from : Times, until : Times, version : Ids]
IsNotes(f) == DOMAIN f \subseteq Ids /\ \A id \in DOMAIN f : f[id] \in Ids

(* Every variable in its type; ids in the ring and the batch rise, and the *)
(* rows SQLite counts are the rows it holds, at most Size once a batch     *)
(* that kept them committed.                                               *)
TypeOK ==
  /\ phase \in {"down", "up", "stopping"}
  /\ now \in Times /\ count \in Ids
  /\ ToSet(ring) \subseteq Entries /\ Len(ring) <= Size
  /\ \A i \in 1..(Len(ring) - 1) : ring[i].id < ring[i + 1].id
  /\ db.rows \subseteq Entries /\ \A e \in db.rows : e.kind \in RingKinds
  /\ db.last \in Ids /\ IsNotes(db.notes) /\ IsNotes(index)
  /\ coverage \in 0..Len(db.coverage)
  /\ flush.at \in {"idle", "read", "built", "committed", "exit"}
  /\ ToSet(flush.entries) \subseteq Entries
  /\ note.at \in {"none", "begun", "put"}
  /\ watching => phase = "up"
  /\ Up => stored = Cardinality(db.rows)
  /\ writer.retained => stored <= Size

(* "A crashed process handed out IDs it never wrote and a reader has seen  *)
(* them" (History.Restore): wherever the process dies, the next one starts *)
(* past every id handed out, as long as the ring was not overrun between   *)
(* two commits and the start could reserve its ids.                        *)
IdsNeverReissued ==
  Up /\ reserved /\ count <= writer.last + Size => count <= RestoredCount(LastCommitted(db))

Covered(t) ==
  \/ \E e \in db.rows : e.kind = "gap" /\ e.from <= t /\ t < e.until
  \/ t < trimmed
  \/ LastSeen(db) <= t

(* An interval nobody watched is in a gap the database holds, or in the    *)
(* one the next start would record from LastSeen, wherever a process dies  *)
(* between a gap and its commit; unless coverage opened after it with no   *)
(* stream live.  Gaps let go by retention are not looked for.              *)
BlindIsRecorded == \A t \in blind : Covered(t) \/ t < unseen

(* An annotation is shown exactly when it is stored, outside the write     *)
(* itself, and its item in the ring has the id its version promised.       *)
NotesKept ==
  /\ Up /\ note.at # "put" => index = db.notes
  /\ \A i \in DOMAIN ring : ring[i].kind = "annotation" => ring[i].version = ring[i].id

(* The ring, the store and the index of annotations hold the same, within  *)
(* what each may keep.                                                     *)
StoreSound == TypeOK /\ NotesKept
=============================================================================
