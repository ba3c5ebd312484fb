-------------------------------- MODULE Logs --------------------------------
(***************************************************************************)
(* Reading container output: internal/logs (frames, cursors, the follow    *)
(* stream's backlog and resume id), the HTTP reads of api/log_handlers.go  *)
(* and the MCP reads of mcp/logs.go, mcp/logs_scope.go and get_logs.       *)
(*                                                                         *)
(* A line is what parseLine makes of one: the time its task's node stamped *)
(* it with (0: none), the task (None: no details), its stream, level and   *)
(* words.  Times are in seconds.  A cursor is <<>>, <<"at", t>>,           *)
(* <<"ago", d>>, <<"scoped", positions>> or <<"bad">>.                     *)
(***************************************************************************)
EXTENDS Integers, Sequences, FiniteSets, FiniteSetsExt, SequencesExt, TLC

CONSTANTS
  logResumeTail,                 \* of each task, how much a stream that resumes replays (500)
  defaultLogLimit, maxLogLimit,  \* the lines of a page (500, 10000)
  defaultLogTail, maxLogTail,    \* the lines of an MCP read (100, 1000)
  scopedTailPerService,          \* of each service, in a read of several (50)
  maxScopedServices,             \* the services of such a read (25)
  Widening                       \* how much more is fetched to be narrowed (the 10 of both reads)

None == "none"

----------------------------------------------------------------------------
(* Frames *)

(* parseLine and parseDetails: details count only if Docker wrote them. *)
parseLine(raw, stream) ==
  [at |-> raw.at, task |-> IF raw.details = "docker" THEN raw.task ELSE None, stream |-> stream,
   level |-> raw.level, n |-> raw.n, service |-> None]

(* The lines of one frame: one without a timestamp carries on the one      *)
(* before it.                                                              *)
FrameLines(frame) ==
  LET parsed == [i \in DOMAIN frame.lines |-> parseLine(frame.lines[i], frame.stream)]
      parent(i) == LET stamped == {j \in 1..i : parsed[j].at # 0} IN IF stamped = {} THEN 0 ELSE Max(stamped)
  IN  [i \in DOMAIN parsed |->
         IF parsed[i].at # 0 THEN parsed[i]
         ELSE [parsed[i] EXCEPT !.at = IF parent(i) = 0 THEN 0 ELSE parsed[parent(i)].at,
                                !.task = IF parent(i) = 0 THEN None ELSE parsed[parent(i)].task]]

(* readDockerLogFrames: whatever was read before a frame that is too large *)
(* or cut short, and before the stream ended; a deadline or a cancellation *)
(* between frames is an end.  What is not framed is read by lines.         *)
readDockerLogFrames(input) ==
  LET broken == {i \in DOMAIN input.frames : input.frames[i].size \in {"large", "short"}}
      whole == IF broken = {} THEN input.frames ELSE SubSeq(input.frames, 1, Min(broken) - 1)
      lines(frame) == IF frame.size = "empty" THEN <<>>
                      ELSE IF input.framed THEN FrameLines(frame)
                      ELSE [i \in DOMAIN frame.lines |-> parseLine(frame.lines[i], "stdout")]
  IN  [lines |-> FoldLeft(LAMBDA all, frame : all \o lines(frame), <<>>, whole),
       failed |-> broken # {} \/ input.end = "error"]

----------------------------------------------------------------------------
(* Cursors *)

ParseCursor(cursor, now) ==
  IF cursor = <<>> THEN 0
  ELSE CASE cursor[1] = "at" -> cursor[2] [] cursor[1] = "ago" -> now - cursor[2] [] OTHER -> 0
validLogTimestamp(cursor) == cursor = <<>> \/ cursor[1] \in {"at", "ago"}

(* Newer, Older: a line nobody stamped passes both. *)
Newer(at, cursor) == at = 0 \/ at > cursor
Older(at, cursor) == at = 0 \/ at < cursor
FilterSince(lines, since, now) ==
  LET cursor == ParseCursor(since, now) IN SelectSeq(lines, LAMBDA l : cursor = 0 \/ Newer(l.at, cursor))
FilterBefore(lines, until, now) ==
  LET cursor == ParseCursor(until, now) IN SelectSeq(lines, LAMBDA l : cursor = 0 \/ Older(l.at, cursor))

(* slices.SortStableFunc by timestamp; the unstamped come first. *)
Sorted(lines) ==
  LET before(i, j) == lines[i].at < lines[j].at \/ (lines[i].at = lines[j].at /\ i < j)
      place(i) == 1 + Cardinality({j \in DOMAIN lines : before(j, i)})
  IN  [k \in DOMAIN lines |-> lines[CHOOSE i \in DOMAIN lines : place(i) = k]]
Newest(lines, n) == SubSeq(lines, Len(lines) - Min({n, Len(lines)}) + 1, Len(lines))

----------------------------------------------------------------------------
(* Following *)

(* What of the backlog the client has: a task's lines up to the first      *)
(* stamped one past the cursor.                                            *)
NewBacklogFilter(since, now) == [cursor |-> ParseCursor(since, now), caught |-> {}]
Keep(f, line) ==
  LET keep == f.cursor = 0 \/ line.task \in f.caught \/ Newer(line.at, f.cursor)
  IN  [keep |-> keep,
       filter |-> IF keep /\ line.at # 0 /\ f.cursor # 0 THEN [f EXCEPT !.caught = @ \cup {line.task}] ELSE f]

(* The id handed out: the task furthest behind, but no further than the    *)
(* clocks may differ.                                                      *)
MaxClockSkew == 60
NewResumeCursor(since, now) ==
  LET floor == ParseCursor(since, now) IN [floor |-> floor, newest |-> floor, byTask |-> <<>>, id |-> 0]
ObserveNewest(c, line) ==
  IF line.at = 0 THEN c ELSE [c EXCEPT !.newest = Max({@, line.at}), !.id = Max({c.newest, line.at})]
Observe(c, line) ==
  IF line.at = 0 THEN c
  ELSE LET last == IF line.task \in DOMAIN c.byTask THEN c.byTask[line.task] ELSE 0
           byTask == (line.task :> Max({last, line.at})) @@ c.byTask
           newest == Max({c.newest, line.at})
           oldest == Min({byTask[t] : t \in DOMAIN byTask} \cup ({c.floor} \ {0}))
       IN  [c EXCEPT !.byTask = byTask, !.newest = newest, !.id = Max({oldest, newest - MaxClockSkew})]

(* The engine (external): of each task the last lines, as they came; since *)
(* and until are not heeded for a service.                                 *)
TailPerTask(log, n) ==
  LET later(i) == Cardinality({j \in DOMAIN log : j > i /\ log[j].task = log[i].task})
      kept == SelectSeq([i \in DOMAIN log |-> i], LAMBDA i : later(i) < n)
  IN  [k \in DOMAIN kept |-> log[kept[k]]]

maxLogSSEConns == 128
Open(q, since) ==
  [filter |-> NewBacklogFilter(since, q.now), resume |-> NewResumeCursor(since, q.now), sent |-> <<>>]
(* One line through serveLogsSSE's loop. *)
Send(q, conn, line) ==
  LET kept == Keep(conn.filter, line)
  IN  IF q.stream \notin {"", line.stream} THEN conn
      ELSE [filter |-> kept.filter,
            resume |-> IF kept.keep THEN Observe(conn.resume, line) ELSE conn.resume,
            sent |-> IF kept.keep THEN Append(conn.sent, line) ELSE conn.sent]

(* serveLogsSSE: a stream that begins now, or at the cursor of the request *)
(* or of the event last received; then what comes until it breaks.         *)
Refused(code) == [code |-> code, sent |-> <<>>, id |-> 0]
serveLogsSSE(q, log, live) ==
  LET since == IF q.after = <<>> /\ validLogTimestamp(q.lastEventID) THEN q.lastEventID ELSE q.after
      backlog == TailPerTask(log, IF since = <<>> THEN 0 ELSE logResumeTail)
      conn == FoldLeft(LAMBDA c, l : Send(q, c, l), Open(q, since), backlog \o live)
  IN  IF q.streams >= maxLogSSEConns THEN Refused("LOG001")
      ELSE IF q.method = "HEAD" THEN Refused("")
      ELSE IF "engine" \in q.faults THEN Refused("LOG008")
      ELSE [code |-> "", sent |-> conn.sent, id |-> conn.resume.id]

----------------------------------------------------------------------------
(* Reading over HTTP *)

MaxConcurrentReads == 32
Failed(code) == [code |-> code, lines |-> <<>>, more |-> FALSE]

CutFirst(lines, q, limit) == SelectSeq(Newest(lines, limit), LAMBDA l : q.stream \in {"", l.stream})
Cut(lines, q, limit) == Newest(SelectSeq(lines, LAMBDA l : q.stream \in {"", l.stream}), limit)

invalid(q) ==
  IF q.stream \notin {"", "stdout", "stderr"} THEN "LOG002"
  ELSE IF ~ validLogTimestamp(q.after) THEN "LOG003"
  ELSE IF ~ validLogTimestamp(q.before) THEN "LOG004"
  ELSE IF q.sse /\ q.before # <<>> THEN "LOG005" ELSE ""

(* serveLogs: the newest of what was asked for, and whether there is more. *)
readLogs(q, log) ==
  LET limit == Min({IF q.limit > 0 THEN q.limit ELSE defaultLogLimit, maxLogLimit})
      tail == IF q.after = <<>> /\ q.before = <<>> THEN limit ELSE Min({limit * Widening, maxLogLimit})
      lines == FilterBefore(FilterSince(Sorted(TailPerTask(log, tail)), q.after, q.now), q.before, q.now)
      page == Cut(lines, q, limit)
      matched == SelectSeq(lines, LAMBDA l : q.stream \in {"", l.stream})
  IN  IF q.reads >= MaxConcurrentReads THEN Failed("LOG009")
      ELSE IF "engine" \in q.faults THEN Failed("LOG006")
      ELSE IF "parse" \in q.faults THEN Failed("LOG007")
      ELSE [code |-> "", lines |-> page, more |-> Len(matched) > limit]
serveLogs(q, log, live) ==
  IF invalid(q) # "" THEN Failed(invalid(q)) ELSE IF q.sse THEN serveLogsSSE(q, log, live) ELSE readLogs(q, log)

----------------------------------------------------------------------------
(* Reading over MCP *)

boundLogTail(tail) == IF tail <= 0 THEN defaultLogTail ELSE Min({tail, maxLogTail})

(* A level nobody knows filters nothing; a line of none is of info. *)
logLevelRank == [debug |-> 0, info |-> 1, warn |-> 2, error |-> 3, fatal |-> 4]
lineLevelRank(line) == IF line.level = "" THEN 1 ELSE logLevelRank[line.level]
filterLogLines(lines, level) ==
  SelectSeq(lines, LAMBDA l : level \in DOMAIN logLevelRank => lineLevelRank(l) >= logLevelRank[level])
filterLogContains(lines, contains) == SelectSeq(lines, LAMBDA l : contains = {} \/ l.n \in contains)

(* hitFetchCeiling: some task gave as many lines as were asked for. *)
hitFetchCeiling(lines, tail) ==
  \E t \in {lines[i].task : i \in DOMAIN lines} :
    Cardinality({i \in DOMAIN lines : lines[i].task = t}) >= tail
oldestTimestamp(lines) ==
  LET stamped == {lines[i].at : i \in DOMAIN lines} \ {0} IN IF stamped = {} THEN 0 ELSE Min(stamped)

(* finishLogRead: in order, cut to the newest, and the cursor of the last  *)
(* that is stamped.                                                        *)
finishLogRead(lines, wanted, since) ==
  LET kept == Newest(Sorted(lines), wanted)
      stamped == {kept[i].at : i \in DOMAIN kept} \ {0}
  IN  [error |-> "", lines |-> kept, cursor |-> IF stamped = {} THEN since ELSE <<"at", Max(stamped)>>,
       truncated |-> FALSE, deepest |-> 0, errors |-> {}, unread |-> 0]
Error(what) ==
  [error |-> what, lines |-> <<>>, cursor |-> <<>>, truncated |-> FALSE, deepest |-> 0, errors |-> {},
   unread |-> 0]

(* readLogsImpl, of the log of a service or a task. *)
readLogsImpl(opts, log, fault) ==
  LET wanted == boundLogTail(opts.tail)
      widened == opts.since # <<>> \/ opts.contains # {} \/ opts.level # ""
      tail == IF widened THEN Min({wanted * Widening, maxLogTail}) ELSE wanted
      fetched == TailPerTask(log, tail)
      lines == FilterSince(filterLogContains(filterLogLines(fetched, opts.level), opts.contains), opts.since, 0)
      resp == finishLogRead(lines, wanted, opts.since)
  IN  IF opts.since # <<>> /\ opts.since[1] # "at" THEN Error("since")
      ELSE IF fault # "" THEN Error(fault)
      ELSE IF widened /\ hitFetchCeiling(fetched, tail)
           THEN [resp EXCEPT !.truncated = TRUE, !.deepest = oldestTimestamp(fetched)]
      ELSE resp

(* servicesInScope: of the services the caller may read, alphabetically    *)
(* the first.                                                              *)
servicesInScope(scope, services, reads) ==
  LET mine == {s \in services : s.id \in reads /\ (scope[1] = "stack" => s.stack = scope[2])}
      all == SetToSortSeq(mine, LAMBDA a, b : a.order < b.order)
  IN  [error |-> IF scope[1] = "stack" /\ mine = {} THEN "no services" ELSE "",
       services |-> SubSeq(all, 1, Min({maxScopedServices, Len(all)})), inScope |-> Len(all)]

decodeScopedCursor(since) == IF since # <<>> /\ since[1] = "scoped" THEN since[2] ELSE <<>>

(* nextScopedCursor: each service where what was delivered of it ends, or  *)
(* where it was.                                                           *)
PositionsByFetch(services, resumed, delivered, merged) ==
  LET at(id) == {merged[i].at : i \in {j \in DOMAIN merged : merged[j].service = id}} \ {0}
      known == {services[i].id : i \in DOMAIN services}
  IN  [id \in {s \in known : at(s) # {} \/ s \in DOMAIN resumed} |->
         IF at(id) # {} THEN Max(at(id)) ELSE resumed[id]]
Positions(services, resumed, delivered, merged) ==
  LET at(id) == {delivered[i].at : i \in {j \in DOMAIN delivered : delivered[j].service = id}} \ {0}
      known == {services[i].id : i \in DOMAIN services}
  IN  [id \in {s \in known : at(s) # {} \/ s \in DOMAIN resumed} |->
         IF at(id) # {} THEN Max(at(id)) ELSE resumed[id]]
nextScopedCursor(services, resumed, delivered, merged) ==
  LET positions == Positions(services, resumed, delivered, merged)
  IN  IF DOMAIN positions = {} THEN <<>> ELSE <<"scoped", positions>>

(* Of readScopedLogs: the answers of the services merged, cut to what was  *)
(* asked for, and the failed among them named.                             *)
Named(lines, id) == [i \in DOMAIN lines |-> [lines[i] EXCEPT !.service = id]]
MergeAnswers(picked, answers) ==
  FoldLeft(LAMBDA all, i : all \o Named(answers[i].lines, picked[i].id), <<>>, [i \in DOMAIN picked |-> i])
Delivered(found, opts, resumed, answers, merged, resp) ==
  LET picked == found.services
  IN  [resp EXCEPT !.errors = {picked[i].id : i \in {j \in DOMAIN picked : answers[j].error # ""}},
                   !.cursor = nextScopedCursor(picked, resumed, resp.lines, merged),
                   !.truncated = Len(merged) > boundLogTail(opts.tail)
                                 \/ \E i \in DOMAIN picked : answers[i].truncated,
                   !.unread = found.inScope - Len(picked)]
AnsweredBy(found, opts, resumed, answers, merged) ==
  Delivered(found, opts, resumed, answers, merged, finishLogRead(merged, boundLogTail(opts.tail), opts.since))
Answered(found, opts, resumed, answers) ==
  AnsweredBy(found, opts, resumed, answers, MergeAnswers(found.services, answers))

(* readScopedLogs: each service from its own position. *)
readScopedLogs(scope, opts, services, reads, logs, faults) ==
  LET found == servicesInScope(scope, services, reads)
      picked == found.services
      resumed == decodeScopedCursor(opts.since)
      scoped == opts.since # <<>> /\ opts.since[1] = "scoped"
      since(id) == IF ~ scoped THEN opts.since
                   ELSE IF id \in DOMAIN resumed THEN <<"at", resumed[id]>> ELSE <<>>
      answers == [i \in DOMAIN picked |->
                    readLogsImpl([opts EXCEPT !.tail = scopedTailPerService, !.since = since(picked[i].id)],
                                 logs[picked[i].id], faults[picked[i].id])]
  IN  IF found.error # "" THEN Error(found.error) ELSE Answered(found, opts, resumed, answers)

(* get_logs: exactly one scope, a slot, and for one service or task the    *)
(* check that it may be read.                                              *)
toolGetLogs(q, services, reads, logs, faults) ==
  LET named == q.scopes
      scope == CHOOSE s \in named : TRUE
  IN  IF named = {} THEN Error("a scope is required")
      ELSE IF Cardinality(named) > 1 THEN Error("name exactly one scope")
      ELSE IF q.reads >= MaxConcurrentReads THEN Error("too many log reads")
      ELSE IF scope[1] \in {"stack", "cluster"}
           THEN readScopedLogs(scope, q.opts, services, reads, logs, faults)
      ELSE IF scope[2] \notin reads THEN Error("not found")
      ELSE readLogsImpl(q.opts, logs[scope[2]], faults[scope[2]])
=============================================================================
