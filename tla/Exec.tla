-------------------------------- MODULE Exec --------------------------------
(***************************************************************************)
(* Terminal sessions: the session manager (internal/exec), the WebSocket   *)
(* pump that runs one terminal (internal/api/exec_ws.go), and the audit    *)
(* file every start and end is recorded in (internal/audit).               *)
(*                                                                         *)
(* The manager's mutex makes each critical section one step.  What happens *)
(* outside it is what is hard: a record is written with the lock released, *)
(* a write given up at its deadline may land later, and a session can be   *)
(* ended by its user, by the sweep, by a failed record of another session  *)
(* or by shutdown while its own pump is at any point.                      *)
(***************************************************************************)
EXTENDS Naturals, Sequences, FiniteSets

CONSTANTS
    Sessions,      \* session ids, each used once
    MaxSessions,   \* Limits.MaxSessions
    MaxReloads,    \* bound: policy reloads
    MaxFaults,     \* bound: writes that fail or miss their deadline
    MaxRefusals,   \* bound: refusals that are recorded
    NoOne          \* the session of a record that has none

ASSUME ExecAssumption ==
    /\ MaxSessions \in Nat \ {0}
    /\ MaxReloads \in Nat
    /\ MaxFaults \in Nat
    /\ MaxRefusals \in Nat
    /\ IsFiniteSet(Sessions)
    /\ NoOne \notin Sessions

VARIABLES
    sess,       \* Manager.sessions: [state, attached, reason, cancelled, finishing]
    pump,       \* where each session's request goroutine stands
    shell,      \* the shell process of each session
    write,      \* where each audited write stands, by kind and session
    inflight,   \* File.busy: the write holding the file
    landing,    \* AbandonedError.Landed of each start record
    log,        \* the records in the audit file, by session
    lost,       \* end records whose write reported an error
    endWrites,  \* Manager.endWrites
    policy,     \* the ACL policy's generation, the one swept last, and the grant
    sweep,      \* Manager.Sweep: the sessions it has still to check
    stop,       \* Manager.Shutdown
    faults, refusals   \* counters of the bounds

vars == <<sess, pump, shell, write, inflight, landing, log, lost, endWrites,
          policy, sweep, stop, faults, refusals>>

fileVars == <<write, inflight, landing, log, lost, faults, refusals>>

\* "decided" is a create request between execDecision and Manager.Create.
States  == {"free", "decided", "pending", "connected", "ended"}
Reasons == {"", "asked", "exited"}
Outcomes == {"exited", "terminated", "detached"}
Live(r) == r.state \in {"pending", "connected"}

\* The writes a session makes: its start record, the end record Finish writes,
\* the end record of a start that landed late, and a refusal's record.
Kinds == {"start", "end", "late"}
Writers == (Kinds \X Sessions) \cup {<<"denied", NoOne>>}

Free == [state |-> "free", attached |-> FALSE, reason |-> "", cancelled |-> FALSE,
         finishing |-> FALSE]

Init ==
    /\ sess = [s \in Sessions |-> Free]
    /\ pump = [s \in Sessions |-> "none"]
    /\ shell = [s \in Sessions |-> "none"]
    /\ write = [w \in Writers |-> "idle"]
    /\ inflight = [writer |-> <<"none", NoOne>>, waited |-> FALSE]
    /\ landing = [s \in Sessions |-> "none"]
    /\ log = [s \in Sessions |-> <<>>]
    /\ lost = {}
    /\ endWrites = 0
    /\ policy = [generation |-> 0, swept |-> 0, granted |-> TRUE]
    /\ sweep = {}
    /\ stop = [phase |-> "up", listed |-> {}]
    /\ faults = 0
    /\ refusals = 0

Exited == stop.phase \in {"clean", "expired"}
Idle == inflight.writer[1] = "none"

-----------------------------------------------------------------------------
(* The manager's operations on one session, as functions of its entry. *)

\* Mutant: an attached session is given its reason and never cancelled.
EndUncancelled(r) ==
    IF Live(r) /\ r.reason = ""
    THEN [r EXCEPT !.reason = "asked", !.finishing = ~r.attached]
    ELSE r

\* Manager.End: the first reason wins; an attached session is only cancelled,
\* an unattached one is left for its caller to Finish after the unlock.
End(r) ==
    IF Live(r) /\ r.reason = ""
    THEN [r EXCEPT !.reason = "asked", !.cancelled = r.attached, !.finishing = ~r.attached]
    ELSE r

\* Manager.Finish up to its unlock; a session already ended stays as it is.
Finish(r, exit) ==
    IF Live(r)
    THEN [r EXCEPT !.state = "ended", !.cancelled = TRUE, !.finishing = FALSE,
                   !.reason = IF exit = "exited" \/ @ = "" THEN "exited" ELSE @]
    ELSE [r EXCEPT !.finishing = FALSE]

\* Manager.Abort: a reason, then Finish with a shell that never ran.
Abort(r) ==
    Finish(IF Live(r) /\ r.reason = "" THEN [r EXCEPT !.reason = "asked"] ELSE r, "detached")

\* Manager.write's error path: every connected session is ended.
FailClosed(ss) == [s \in Sessions |-> IF ss[s].state = "connected" THEN End(ss[s]) ELSE ss[s]]

LiveCount == Cardinality({s \in Sessions : Live(sess[s])})

-----------------------------------------------------------------------------
(* Requests. *)

\* HandleCreateExecSession's execDecision, before the session exists.
Decide(s) ==
    /\ sess[s].state = "free"
    /\ policy.granted
    /\ sess' = [sess EXCEPT ![s].state = "decided"]
    /\ UNCHANGED <<pump, shell, fileVars, endWrites, policy, sweep, stop>>

Create(s) ==
    /\ sess[s].state = "decided"
    /\ LiveCount < MaxSessions
    /\ sess' = [sess EXCEPT ![s].state = "pending"]
    /\ UNCHANGED <<pump, shell, fileVars, endWrites, policy, sweep, stop>>

\* A refusal by execDecision, by a cap or by Attach writes its record.
Refuse ==
    /\ refusals < MaxRefusals
    /\ write[<<"denied", NoOne>>] = "idle"
    /\ write' = [write EXCEPT ![<<"denied", NoOne>>] = "queued"]
    /\ refusals' = refusals + 1
    /\ UNCHANGED <<sess, pump, shell, inflight, landing, log, lost, endWrites,
                   policy, sweep, stop, faults>>

\* attachExecSession: Attach claims the session; the transport check and the
\* upgrade follow, and end it where they fail.
Attach(s) ==
    /\ sess[s].state = "pending"
    /\ ~sess[s].attached
    /\ \/ /\ sess' = [sess EXCEPT ![s].attached = TRUE]
          /\ pump' = [pump EXCEPT ![s] = "open"]
          /\ shell' = [shell EXCEPT ![s] = "starting"]
       \/ /\ sess' = [sess EXCEPT ![s] = Abort([@ EXCEPT !.attached = TRUE])]
          /\ pump' = [pump EXCEPT ![s] = "done"]
          /\ UNCHANGED shell
    /\ UNCHANGED <<fileVars, endWrites, policy, sweep, stop>>

\* HandleDeleteExecSession.
Delete(s) ==
    /\ sess' = [sess EXCEPT ![s] = End(@)]
    /\ sess' # sess
    /\ UNCHANGED <<pump, shell, fileVars, endWrites, policy, sweep, stop>>

\* The second half of End for a session that was not attached.
FinishUnattached(s) ==
    /\ sess[s].finishing
    /\ sess' = [sess EXCEPT ![s] = Finish(@, "detached")]
    /\ IF sess[s].state = "connected"
       THEN /\ write' = [write EXCEPT ![<<"end", s>>] = "queued"]
            /\ endWrites' = endWrites + 1
       ELSE UNCHANGED <<write, endWrites>>
    /\ UNCHANGED <<pump, shell, inflight, landing, log, lost, policy, sweep, stop,
                   faults, refusals>>

-----------------------------------------------------------------------------
(* The pump: runExecSession. *)

\* transport.Open answers: a shell, or none.
Opened(s) ==
    /\ shell[s] = "starting"
    /\ \/ /\ shell' = [shell EXCEPT ![s] = "running"]
          /\ pump' = [pump EXCEPT ![s] = IF @ = "open" THEN "opened" ELSE @]
          /\ UNCHANGED sess
       \/ /\ shell' = [shell EXCEPT ![s] = "none"]
          /\ pump' = [pump EXCEPT ![s] = IF @ = "open" THEN "done" ELSE @]
          /\ sess' = [sess EXCEPT ![s] = IF pump[s] = "open" THEN Abort(@) ELSE @]
    /\ UNCHANGED <<fileVars, endWrites, policy, sweep, stop>>

\* openShell gives up, on its timer or because the session was ended; the open
\* goes on without it.
GiveUp(s) ==
    /\ pump[s] = "open"
    /\ pump' = [pump EXCEPT ![s] = "gaveup"]
    /\ sess' = [sess EXCEPT ![s] = Abort(@)]
    /\ UNCHANGED <<shell, fileVars, endWrites, policy, sweep, stop>>

\* closeStream: an exited shell is reported so; a running one is signalled, and
\* is terminated or, when Docker does not confirm it, left behind as detached.
CloseStream(s, outcome) ==
    /\ outcome = "exited" => shell[s] = "exited"
    /\ outcome = "terminated" => shell[s] = "running"
    /\ shell' = [shell EXCEPT ![s] = IF outcome = "detached" /\ @ = "running"
                                     THEN "left" ELSE "closed"]

\* The goroutine openShell leaves behind closes a shell that opened too late.
CloseLate(s) ==
    /\ shell[s] \in {"running", "exited"}
    /\ pump[s] = "gaveup"
    /\ \E outcome \in Outcomes : CloseStream(s, outcome)
    /\ UNCHANGED <<sess, pump, fileVars, endWrites, policy, sweep, stop>>

\* Mutant: the shell runs without waiting for its start record.
ConnectUnrecorded(s) ==
    /\ pump[s] = "opened"
    /\ pump' = [pump EXCEPT ![s] = IF sess[s].state = "pending" /\ sess[s].reason = ""
                                   THEN "recorded" ELSE "unstarted"]
    /\ UNCHANGED <<sess, shell, fileVars, endWrites, policy, sweep, stop>>

\* Manager.Connected up to its unlock, and the start record it then writes.
Connect(s) ==
    /\ pump[s] = "opened"
    /\ IF sess[s].state = "pending" /\ sess[s].reason = ""
       THEN /\ write' = [write EXCEPT ![<<"start", s>>] = "queued"]
            /\ pump' = [pump EXCEPT ![s] = "recording"]
       ELSE /\ pump' = [pump EXCEPT ![s] = "unstarted"]
            /\ UNCHANGED write
    /\ UNCHANGED <<sess, shell, inflight, landing, log, lost, endWrites, policy,
                   sweep, stop, faults, refusals>>

\* Mutant: a session ended while its start was written just does not run.
RecordedUnpaired(s) ==
    /\ pump[s] = "recorded"
    /\ IF sess[s].state = "pending" /\ sess[s].reason = ""
       THEN /\ sess' = [sess EXCEPT ![s].state = "connected"]
            /\ pump' = [pump EXCEPT ![s] = "serving"]
       ELSE /\ sess' = [sess EXCEPT ![s] = Finish(@, "detached")]
            /\ pump' = [pump EXCEPT ![s] = "unstarted"]
    /\ UNCHANGED <<shell, fileVars, endWrites, policy, sweep, stop>>

\* Manager.Connected once the start record is written.
Recorded(s) ==
    /\ pump[s] = "recorded"
    /\ CASE sess[s].state = "pending" /\ sess[s].reason = "" ->
              /\ sess' = [sess EXCEPT ![s].state = "connected"]
              /\ pump' = [pump EXCEPT ![s] = "serving"]
              /\ UNCHANGED <<write, endWrites>>
         [] sess[s].state = "pending" /\ sess[s].reason # "" ->
              /\ sess' = [sess EXCEPT ![s] = Finish(@, "detached")]
              /\ pump' = [pump EXCEPT ![s] = "unstarted"]
              /\ write' = [write EXCEPT ![<<"end", s>>] = "queued"]
              /\ endWrites' = endWrites + 1
         [] OTHER ->
              /\ pump' = [pump EXCEPT ![s] = "unstarted"]
              /\ write' = [write EXCEPT ![<<"end", s>>] = "uncounted"]
              /\ UNCHANGED <<sess, endWrites>>
    /\ UNCHANGED <<shell, inflight, landing, log, lost, policy, sweep, stop, faults,
                   refusals>>

\* Connected after a start record that failed outright: Abort.
Unrecorded(s) ==
    /\ pump[s] = "unrecorded"
    /\ sess' = [sess EXCEPT ![s] = Abort(@)]
    /\ pump' = [pump EXCEPT ![s] = "unstarted"]
    /\ UNCHANGED <<shell, fileVars, endWrites, policy, sweep, stop>>

\* abortLate's first section: the write is counted before the abort.
CountLate(s) ==
    /\ pump[s] = "abandoned"
    /\ endWrites' = endWrites + 1
    /\ pump' = [pump EXCEPT ![s] = "counted"]
    /\ UNCHANGED <<sess, shell, fileVars, policy, sweep, stop>>

\* abortLate's Abort, and the goroutine that waits for the record to land.
AbortLate(s) ==
    /\ pump[s] = "counted"
    /\ sess' = [sess EXCEPT ![s] = Abort(@)]
    /\ pump' = [pump EXCEPT ![s] = "unstarted"]
    /\ write' = [write EXCEPT ![<<"late", s>>] = "awaiting"]
    /\ UNCHANGED <<shell, inflight, landing, log, lost, endWrites, policy, sweep,
                   stop, faults, refusals>>

\* The abandoned start record landed, or failed after all.
Landed(s) ==
    /\ write[<<"late", s>>] = "awaiting"
    /\ landing[s] \in {"ok", "error"}
    /\ IF landing[s] = "ok"
       THEN /\ write' = [write EXCEPT ![<<"late", s>>] = "queued"]
            /\ UNCHANGED endWrites
       ELSE /\ write' = [write EXCEPT ![<<"late", s>>] = "idle"]
            /\ endWrites' = endWrites - 1
    /\ UNCHANGED <<sess, pump, shell, inflight, landing, log, lost, policy, sweep,
                   stop, faults, refusals>>

\* Mutant: a shell that must not run is left open.
DiscardOpen(s) ==
    /\ pump[s] = "unstarted"
    /\ sess' = [sess EXCEPT ![s] = Abort(@)]
    /\ pump' = [pump EXCEPT ![s] = "done"]
    /\ UNCHANGED <<shell, fileVars, endWrites, policy, sweep, stop>>

\* A shell that must not run is closed, and stop() aborts once more.
Discard(s) ==
    /\ pump[s] = "unstarted"
    /\ \E outcome \in Outcomes : CloseStream(s, outcome)
    /\ sess' = [sess EXCEPT ![s] = Abort(@)]
    /\ pump' = [pump EXCEPT ![s] = "done"]
    /\ UNCHANGED <<fileVars, endWrites, policy, sweep, stop>>

\* The shell ends by itself.
ShellExits(s) ==
    /\ shell[s] = "running"
    /\ shell' = [shell EXCEPT ![s] = "exited"]
    /\ UNCHANGED <<sess, pump, fileVars, endWrites, policy, sweep, stop>>

\* The terminal goes away: the reader, or the writer, ends the session.
Disconnect(s) ==
    /\ pump[s] = "serving"
    /\ sess' = [sess EXCEPT ![s] = End(@)]
    /\ sess' # sess
    /\ UNCHANGED <<pump, shell, fileVars, endWrites, policy, sweep, stop>>

\* The pump's context is done, because someone ended the session or the stream
\* gave an error: the stream is closed, a lost connection is a reason and an exit
\* is not, and Finish's end record is written after its unlock.
PumpEnds(s) ==
    /\ pump[s] = "serving"
    /\ sess[s].cancelled \/ shell[s] = "exited"
    /\ \E outcome \in Outcomes :
         LET r == IF outcome = "exited" THEN sess[s] ELSE End(sess[s]) IN
         /\ CloseStream(s, outcome)
         /\ sess' = [sess EXCEPT ![s] = Finish(r, outcome)]
         /\ IF r.state = "connected"
            THEN /\ write' = [write EXCEPT ![<<"end", s>>] = "queued"]
                 /\ endWrites' = endWrites + 1
            ELSE UNCHANGED <<write, endWrites>>
    /\ pump' = [pump EXCEPT ![s] = "done"]
    /\ UNCHANGED <<inflight, landing, log, lost, policy, sweep, stop, faults, refusals>>

Pump(s) ==
    \/ GiveUp(s) \/ Connect(s) \/ Recorded(s) \/ Unrecorded(s) \/ CountLate(s)
    \/ AbortLate(s) \/ Discard(s) \/ PumpEnds(s)

-----------------------------------------------------------------------------
(* The audit file: audit.File.Write. *)

\* What the caller of a write does with its answer.
Answer(w, answer) ==
    LET s == w[2] IN
    /\ pump' = IF w[1] # "start" THEN pump
               ELSE [pump EXCEPT ![s] = CASE answer = "ok" -> "recorded"
                                          [] answer = "error" -> "unrecorded"
                                          [] answer = "abandoned" -> "abandoned"]
    /\ sess' = IF answer = "ok" THEN sess ELSE FailClosed(sess)
    /\ lost' = IF answer # "ok" /\ w[1] \in {"end", "late"} THEN lost \cup {s} ELSE lost
    /\ endWrites' = IF \/ w[1] = "late"
                       \/ w[1] = "end" /\ write[w] # "uncounted"
                    THEN endWrites - 1 ELSE endWrites
    /\ write' = [write EXCEPT ![w] = "idle"]

WriteBegins(w) ==
    /\ write[w] \in {"queued", "uncounted"}
    /\ Idle
    /\ inflight' = [writer |-> w, waited |-> TRUE]
    /\ write' = [write EXCEPT ![w] = IF @ = "queued" THEN "flying" ELSE @]
    /\ UNCHANGED <<sess, pump, shell, landing, log, lost, endWrites, policy, sweep,
                   stop, faults, refusals>>

\* The file is held past the deadline by a write that was given up.
WriteRefused(w) ==
    /\ write[w] \in {"queued", "uncounted"}
    /\ ~Idle
    /\ ~inflight.waited
    /\ Answer(w, "error")
    /\ UNCHANGED <<shell, inflight, landing, log, policy, sweep, stop, faults,
                   refusals>>

\* Mutant: the record of a late end is another start.
RecordMislabelled(w) == IF w[1] \in {"start", "late"} THEN "start" ELSE "end"

RecordOf(w) == IF w[1] = "start" THEN "start" ELSE "end"

\* The write returns; with the caller still waiting that is its answer.
WriteReturns(ok) ==
    LET w == inflight.writer IN
    /\ ~Idle
    /\ ok \/ faults < MaxFaults
    /\ faults' = IF ok THEN faults ELSE faults + 1
    /\ log' = IF ok /\ w[2] # NoOne THEN [log EXCEPT ![w[2]] = Append(@, RecordOf(w))] ELSE log
    /\ inflight' = [writer |-> <<"none", NoOne>>, waited |-> FALSE]
    /\ IF inflight.waited
       THEN Answer(w, IF ok THEN "ok" ELSE "error") /\ UNCHANGED landing
       ELSE /\ landing' = IF w[1] = "start"
                          THEN [landing EXCEPT ![w[2]] = IF ok THEN "ok" ELSE "error"]
                          ELSE landing
            /\ UNCHANGED <<sess, pump, write, lost, endWrites>>
    /\ UNCHANGED <<shell, policy, sweep, stop, refusals>>

\* The deadline passes first: the caller is answered, the write goes on.
WriteAbandoned ==
    /\ ~Idle
    /\ inflight.waited
    /\ faults < MaxFaults
    /\ faults' = faults + 1
    /\ inflight' = [inflight EXCEPT !.waited = FALSE]
    /\ Answer(inflight.writer, "abandoned")
    /\ UNCHANGED <<shell, landing, log, policy, sweep, stop, refusals>>

-----------------------------------------------------------------------------
(* The sweep, the policy and shutdown. *)

\* A reload that gives or withdraws the grant; one that keeps it changes nothing
\* here.
Reload ==
    /\ policy.generation < MaxReloads
    /\ policy' = [policy EXCEPT !.generation = @ + 1, !.granted = ~@]
    /\ UNCHANGED <<sess, pump, shell, fileVars, endWrites, sweep, stop>>

\* Sweep's time rules.  When a session is past its limit is the clock's choice.
Expire(s) ==
    /\ \/ sess[s].state = "pending" /\ ~sess[s].attached
       \/ sess[s].state = "connected"
    /\ sess[s].reason = ""
    /\ sess' = [sess EXCEPT ![s] = End(@)]
    /\ UNCHANGED <<pump, shell, fileVars, endWrites, policy, sweep, stop>>

\* Mutant: only running shells are checked again.
SweepConnected ==
    /\ sweep = {}
    /\ policy.generation # policy.swept
    /\ sweep' = {s \in Sessions : sess[s].state = "connected"}
    /\ policy' = [policy EXCEPT !.swept = policy.generation]
    /\ UNCHANGED <<sess, pump, shell, fileVars, endWrites, stop>>

\* Sweep under the lock, when the policy changed: every live session is to be
\* checked, and the generation counts as swept.
SweepScan ==
    /\ sweep = {}
    /\ policy.generation # policy.swept
    /\ sweep' = {s \in Sessions : Live(sess[s])}
    /\ policy' = [policy EXCEPT !.swept = policy.generation]
    /\ UNCHANGED <<sess, pump, shell, fileVars, endWrites, stop>>

\* After the unlock: Authorize asks the policy of that moment, and End follows.
SweepCheck(s) ==
    /\ s \in sweep
    /\ sweep' = sweep \ {s}
    /\ sess' = IF policy.granted THEN sess ELSE [sess EXCEPT ![s] = End(@)]
    /\ UNCHANGED <<pump, shell, fileVars, endWrites, policy, stop>>

Sweep == SweepScan \/ \E s \in Sessions : SweepCheck(s)

\* ctx is done: Shutdown takes its list and asks every session on it to end.
ShutdownBegins ==
    /\ stop.phase = "up"
    /\ LET known == {s \in Sessions : sess[s].state \in {"pending", "connected", "ended"}} IN
         /\ stop' = [stop EXCEPT !.phase = "ending", !.listed = known]
         /\ sess' = [s \in Sessions |-> IF s \in known THEN End(sess[s]) ELSE sess[s]]
    /\ UNCHANGED <<pump, shell, fileVars, endWrites, policy, sweep>>

\* Mutant: end records still being written are not waited for.
settlingSessions == \E s \in Sessions : sess[s].attached /\ Live(sess[s])

settling ==
    \/ endWrites > 0
    \/ \E s \in Sessions : sess[s].attached /\ Live(sess[s])

\* Shutdown's End of an unattached session finishes it before going on.
ShutdownReturns ==
    /\ stop.phase = "ending"
    /\ \A s \in stop.listed : ~sess[s].finishing
    /\ \/ ~settling /\ stop' = [stop EXCEPT !.phase = "clean"]
       \/ settling /\ stop' = [stop EXCEPT !.phase = "expired"]
    /\ UNCHANGED <<sess, pump, shell, fileVars, endWrites, policy, sweep>>

-----------------------------------------------------------------------------
Next ==
    \/ /\ ~Exited
       /\ \/ Refuse \/ WriteAbandoned \/ Reload \/ Sweep \/ ShutdownBegins
          \/ ShutdownReturns
          \/ \E ok \in BOOLEAN : WriteReturns(ok)
          \/ \E w \in Writers : WriteBegins(w) \/ WriteRefused(w)
          \/ \E s \in Sessions :
               \/ Decide(s) \/ Create(s) \/ Attach(s) \/ Delete(s) \/ FinishUnattached(s)
               \/ Opened(s) \/ CloseLate(s) \/ Pump(s) \/ Landed(s) \/ ShellExits(s)
               \/ Disconnect(s) \/ Expire(s)
    \/ Exited /\ UNCHANGED vars

Spec == Init /\ [][Next]_vars

\* What the program's own goroutines do next: a write answers its caller, if only
\* at its deadline.  Nobody promises that Docker answers an Open, that a user
\* acts, or that a write given up ever lands.
Step ==
    /\ ~Exited
    /\ \/ Sweep
       \/ inflight.waited /\ (WriteAbandoned \/ \E ok \in BOOLEAN : WriteReturns(ok))
       \/ \E w \in Writers : WriteBegins(w) \/ WriteRefused(w)
       \/ \E s \in Sessions : Pump(s) \/ CloseLate(s) \/ FinishUnattached(s) \/ Landed(s)

\* No step can be undone, so fairness of all of them together is enough.
FairSpec == Spec /\ WF_vars(Step)

-----------------------------------------------------------------------------
(* Properties. *)

Pumps == {"none", "open", "opened", "recording", "recorded", "unrecorded", "abandoned",
          "counted", "unstarted", "serving", "gaveup", "done"}

\* Every variable has its type.
TypeOK ==
    /\ sess \in [Sessions -> [state : States, attached : BOOLEAN, reason : Reasons,
                              cancelled : BOOLEAN, finishing : BOOLEAN]]
    /\ pump \in [Sessions -> Pumps]
    /\ shell \in [Sessions -> {"none", "starting", "running", "exited", "closed", "left"}]
    /\ write \in [Writers -> {"idle", "awaiting", "queued", "flying", "uncounted"}]
    /\ inflight \in [writer : Writers \cup {<<"none", NoOne>>}, waited : BOOLEAN]
    /\ landing \in [Sessions -> {"none", "ok", "error"}]
    /\ log \in [Sessions -> {<<>>, <<"start">>, <<"start", "end">>}]
    /\ lost \subseteq Sessions
    /\ endWrites \in 0..Cardinality(Sessions)
    /\ policy \in [generation : 0..MaxReloads, swept : 0..MaxReloads, granted : BOOLEAN]
    /\ sweep \subseteq Sessions
    /\ stop \in [phase : {"up", "ending", "clean", "expired"}, listed : SUBSET Sessions]
    /\ faults \in 0..MaxFaults
    /\ refusals \in 0..MaxRefusals

\* The audited promise, with the log and the pumps seen as an auditor sees them.
Trail == INSTANCE AuditTrail WITH
    trail <- [s \in Sessions |-> CASE log[s] = <<>> -> "nothing"
                                   [] log[s] = <<"start">> -> "started"
                                   [] OTHER -> "closed"],
    served <- {s \in Sessions : sess[s].state = "connected" /\ pump[s] = "serving"}

\* Manager, pump and file together implement the audit trail: no shell is served
\* without its start record, and no end record precedes the end.
AuditTrailKept == Trail!TrailSpec

\* A Shutdown that returns because nothing is left to wait for leaves, of the
\* sessions it listed, no shell served, no stream unclosed by its pump, and no
\* start record in the file whose end record is still owed.
CleanShutdown ==
    stop.phase = "clean" =>
        \A s \in stop.listed :
            /\ ~Live(sess[s])
            /\ log[s] = <<"start">> => s \in lost

\* The end record owed to a start record is always somebody's: the session is
\* still live, a write of it is under way, it is in the file, or it was reported
\* as lost.  Nothing else may hold a start without an end.
EndOwed(s) ==
    \/ pump[s] \in {"recorded", "serving", "abandoned", "counted"}
    \/ write[<<"end", s>>] # "idle" \/ write[<<"late", s>>] # "idle"
    \/ s \in lost
StartsArePaired == \A s \in Sessions : log[s] = <<"start">> => EndOwed(s)

\* A session somebody asked to end is ended, wherever its pump stood.
AskedIsEnded ==
    \A s \in Sessions : (Live(sess[s]) /\ sess[s].reason # "") ~> (~Live(sess[s]) \/ Exited)

\* No shell outlives its session unless Docker would not confirm its end: also
\* the one that opens after its session was given up.
ShellsAreClosed ==
    \A s \in Sessions :
        (shell[s] = "running" /\ ~Live(sess[s]))
            ~> (shell[s] # "running" \/ Exited)

\* A policy reload that withdraws the grant reaches every session there was.
RevocationReaches ==
    \A s \in Sessions :
        (Live(sess[s]) /\ ~policy.granted /\ policy.generation # policy.swept)
            ~> (~Live(sess[s]) \/ policy.granted \/ Exited)

\* Nothing of a session is forgotten when the process stops, nor before: every
\* start record has somebody who owes its end record.
RecordsAreSettled == TypeOK /\ CleanShutdown /\ StartsArePaired

\* What is asked to end ends, and its shell with it.
SessionsEnd == AskedIsEnded /\ ShellsAreClosed
=============================================================================
