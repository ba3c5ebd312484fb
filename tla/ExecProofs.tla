----------------------------- MODULE ExecProofs -----------------------------
(***************************************************************************)
(* Proofs about Exec, for any number of sessions, reloads, faults and      *)
(* refusals: whatever the pumps, the sweep, the users, the audit file and  *)
(* shutdown do to one another, no start record is forgotten, a shutdown    *)
(* that says it is clean is, and the manager, the pumps and the file       *)
(* implement AuditTrail.                                                   *)
(*                                                                         *)
(* Every session is followed on its own: where its entry, its pump, its    *)
(* writes and its records stand to one another (SessionInv).  What is      *)
(* shared is the one write the file takes at a time (OneWrite) and the     *)
(* count of end records still owed (Counted).                              *)
(***************************************************************************)
EXTENDS Exec, FiniteSetTheorems, SequenceTheorems, TLAPS

Entry == [state : States, attached : BOOLEAN, reason : Reasons, cancelled : BOOLEAN,
          finishing : BOOLEAN]

(* The records a session can have in the file. *)
Nothing == <<>>
Started == <<"start">>
Closed == <<"start", "end">>

(* From Connect to the answer of its start record; and after the shell.    *)
Stages == {"recording", "recorded", "unrecorded", "abandoned", "counted"}
Over == {"unstarted", "done"}
Late == {"abandoned", "counted"} \cup Over

(* The entry against the pump: nobody but its own pump ends a session      *)
(* between its Connect and the answer of its start record, and an          *)
(* unattached session that was asked to end has somebody to finish it.     *)
PlacedAs(r, p) ==
  /\ r.attached <=> p # "none"
  /\ r.state \in {"free", "decided"} => r.reason = "" /\ ~ r.attached
  /\ r.finishing => r.state = "pending" /\ r.reason # ""
  /\ r.state = "pending" /\ ~ r.attached /\ r.reason # "" => r.finishing
  /\ r.state = "connected" <=> p = "serving"
  /\ p \in Stages => r.state = "pending" /\ ~ r.finishing
Placed(s) == PlacedAs(sess[s], pump[s])

(* The writes against the pump and the records. *)
Written(s) ==
  /\ write[<<"start", s>>] \in {"idle", "queued", "flying"}
  /\ write[<<"start", s>>] # "idle" <=> pump[s] = "recording"
  /\ write[<<"end", s>>] \in {"idle", "queued", "flying"}
  /\ write[<<"end", s>>] # "idle" =>
        pump[s] \in Over /\ log[s] = Started /\ write[<<"late", s>>] = "idle"
  /\ write[<<"late", s>>] \in {"idle", "awaiting", "queued", "flying"}
  /\ write[<<"late", s>>] # "idle" => pump[s] \in Over
  /\ write[<<"late", s>>] \in {"queued", "flying"} => log[s] = Started

(* The write that has the file, also when its caller gave it up.           *)
Held(s) ==
  /\ inflight.writer = <<"start", s>> =>
        /\ log[s] = Nothing /\ landing[s] = "none"
        /\ ~ inflight.waited =>
              pump[s] \in {"abandoned", "counted"} \/ write[<<"late", s>>] = "awaiting"
  /\ inflight.writer = <<"end", s>> \/ inflight.writer = <<"late", s>> =>
        /\ log[s] = Started /\ pump[s] \in Over
        /\ ~ inflight.waited => write[<<"end", s>>] = "idle" /\ write[<<"late", s>>] = "idle"
Landings(s) ==
  /\ landing[s] # "none" => pump[s] \in Late
  /\ landing[s] = "error" => log[s] = Nothing
  /\ landing[s] = "ok" =>
        (pump[s] \in {"abandoned", "counted"} \/ write[<<"late", s>>] = "awaiting"
           => log[s] = Started)

(* The records against the pump. *)
Logged(s) ==
  /\ log[s] \in {Nothing, Started, Closed}
  /\ pump[s] \in {"none", "open", "opened", "gaveup", "recording", "unrecorded"} =>
        log[s] = Nothing
  /\ pump[s] \in {"recorded", "serving"} => log[s] = Started
  /\ log[s] = Started => EndOwed(s)

SessionInv(s) == Placed(s) /\ Written(s) /\ Held(s) /\ Landings(s) /\ Logged(s)

OneWrite ==
  /\ Idle => ~ inflight.waited
  /\ inflight.waited => write[inflight.writer] = "flying"
  /\ \A w \in Writers : write[w] = "flying" => inflight.writer = w /\ inflight.waited
  /\ write[<<"denied", NoOne>>] \in {"idle", "queued", "flying"}

(* The end records still to be answered, which Manager.endWrites counts.   *)
Owes(s) ==
  pump[s] = "counted" \/ write[<<"end", s>>] # "idle" \/ write[<<"late", s>>] # "idle"
Owing == {s \in Sessions : Owes(s)}
Counted == endWrites = Cardinality(Owing)

(* Shutdown asked every session on its list. *)
AskedAll ==
  stop.phase # "up" =>
    \A s \in stop.listed : /\ sess[s].state \notin {"free", "decided"}
                           /\ Live(sess[s]) => sess[s].reason # ""

IInv ==
  /\ TypeOK /\ OneWrite /\ Counted /\ AskedAll /\ CleanShutdown
  /\ \A s \in Sessions : SessionInv(s)
----------------------------------------------------------------------------
(* The manager's operations on one entry.                                  *)

LEMMA LogsDiffer ==
    /\ Nothing # Started /\ Started # Closed /\ Nothing # Closed
    /\ Append(Nothing, "start") = Started /\ Append(Started, "end") = Closed
  <1>1. Len(Nothing) = 0 /\ Len(Started) = 1 /\ Len(Closed) = 2
    BY DEF Nothing, Started, Closed
  <1>2. Append(Nothing, "start") = Started
    BY DEF Nothing, Started
  <1>3. Append(Started, "end") = Closed
    <2> DEFINE t == Append(Started, "end")
    <2>1. t \in Seq({"start", "end"}) /\ Len(t) = 2 /\ t[1] = "start" /\ t[2] = "end"
      BY DEF Started
    <2>2. Closed \in Seq({"start", "end"}) /\ Len(Closed) = 2 /\ Closed[1] = "start" /\ Closed[2] = "end"
      BY DEF Closed
    <2> HIDE DEF t
    <2>3. \A i \in 1..2 : t[i] = Closed[i]
      BY <2>1, <2>2
    <2>4. t = Closed
      BY <2>1, <2>2, <2>3, SeqEqual
    <2>5. QED
      BY <2>4 DEF t
  <1>4. QED
    BY <1>1, <1>2, <1>3

LEMMA EndShape ==
    ASSUME NEW r \in Entry
    PROVE  /\ End(r) \in Entry /\ End(r).state = r.state /\ End(r).attached = r.attached
           /\ Live(r) => End(r).reason # ""
           /\ ~ Live(r) \/ r.reason # "" => End(r) = r
           /\ Live(r) /\ r.reason = "" => End(r).finishing = ~ r.attached
  <1>1. CASE Live(r) /\ r.reason = ""
    <2> DEFINE a == [r EXCEPT !.reason = "asked"]
               b == [a EXCEPT !.cancelled = r.attached]
               c == [b EXCEPT !.finishing = ~ r.attached]
    <2>1. End(r) = c
      BY <1>1 DEF End
    <2>2. a \in Entry /\ b \in Entry /\ c \in Entry
      BY DEF Entry, Reasons
    <2>3. /\ c.state = r.state /\ c.attached = r.attached /\ c.reason = "asked"
          /\ c.finishing = ~ r.attached
      BY DEF Entry
    <2> HIDE DEF c
    <2>4. QED
      BY <1>1, <2>1, <2>2, <2>3
  <1>2. CASE ~ (Live(r) /\ r.reason = "")
    <2>1. End(r) = r
      BY <1>2 DEF End
    <2>2. QED
      BY <1>2, <2>1
  <1>3. QED
    BY <1>1, <1>2

LEMMA FinishShape ==
    ASSUME NEW r \in Entry, NEW exit
    PROVE  /\ Finish(r, exit) \in Entry /\ Finish(r, exit).attached = r.attached
           /\ ~ Finish(r, exit).finishing
           /\ Live(r) => Finish(r, exit).state = "ended"
           /\ ~ Live(r) => Finish(r, exit).state = r.state /\ Finish(r, exit).reason = r.reason
  <1>1. CASE Live(r)
    <2> DEFINE x == IF exit = "exited" \/ r.reason = "" THEN "exited" ELSE r.reason
               a == [r EXCEPT !.state = "ended"]
               b == [a EXCEPT !.cancelled = TRUE]
               c == [b EXCEPT !.finishing = FALSE]
               d == [c EXCEPT !.reason = x]
    <2>1. Finish(r, exit) = d
      BY <1>1 DEF Finish
    <2>2. x \in Reasons
      BY DEF Entry, Reasons
    <2> HIDE DEF x
    <2>3. a \in Entry /\ b \in Entry /\ c \in Entry /\ d \in Entry
      BY <2>2 DEF Entry, States
    <2>4. d.state = "ended" /\ d.attached = r.attached /\ d.finishing = FALSE
      BY DEF Entry
    <2> HIDE DEF d
    <2>5. QED
      BY <1>1, <2>1, <2>3, <2>4
  <1>2. CASE ~ Live(r)
    BY <1>2 DEF Finish, Entry
  <1>3. QED
    BY <1>1, <1>2

LEMMA AbortShape ==
    ASSUME NEW r \in Entry
    PROVE  /\ Abort(r) \in Entry /\ Abort(r).attached = r.attached /\ ~ Abort(r).finishing
           /\ Live(r) => Abort(r).state = "ended"
           /\ ~ Live(r) => Abort(r).state = r.state /\ Abort(r).reason = r.reason
  <1> DEFINE q == IF Live(r) /\ r.reason = "" THEN [r EXCEPT !.reason = "asked"] ELSE r
  <1>1. q \in Entry /\ q.attached = r.attached /\ q.state = r.state /\ (~ Live(r) => q = r)
    BY DEF Entry, Reasons
  <1>2. Abort(r) = Finish(q, "detached") /\ (Live(q) <=> Live(r))
    BY <1>1 DEF Abort, Live
  <1> HIDE DEF q
  <1>3. QED
    BY <1>1, <1>2, FinishShape

(* A session asked to end stays where it is; one that is aborted or        *)
(* finished is over wherever its pump goes.                                *)
LEMMA EndPlaced ==
    ASSUME NEW r \in Entry, NEW p, PlacedAs(r, p)
    PROVE  PlacedAs(End(r), p)
  <1>1. CASE ~ Live(r) \/ r.reason # ""
    BY <1>1, EndShape
  <1>2. CASE Live(r) /\ r.reason = ""
    <2>1. /\ End(r).state = r.state /\ End(r).attached = r.attached /\ End(r).reason # ""
          /\ End(r).finishing = ~ r.attached /\ r.state \in {"pending", "connected"}
      BY <1>2, EndShape DEF Live
    <2>2. QED
      BY <2>1 DEF PlacedAs, Stages
  <1>3. QED
    BY <1>1, <1>2

LEMMA EndedPlaced ==
    ASSUME NEW r \in Entry, NEW q \in Entry, NEW p, r.attached,
           r.state \notin {"free", "decided"},
           q.attached = r.attached, ~ q.finishing,
           Live(r) => q.state = "ended", ~ Live(r) => q.state = r.state,
           p \in {"gaveup", "unstarted", "done"}
    PROVE  PlacedAs(q, p)
  <1>1. q.state = "ended"
    BY DEF Live, Entry, States
  <1>2. QED
    BY <1>1 DEF PlacedAs, Stages

----------------------------------------------------------------------------
(* Steps of one session: what they leave to the others, and what they owe. *)

Phases == {"idle", "awaiting", "queued", "flying", "uncounted"}

LEMMA Typing ==
    ASSUME TypeOK
    PROVE  /\ sess \in [Sessions -> Entry] /\ pump \in [Sessions -> Pumps]
           /\ write \in [Writers -> Phases] /\ stop.listed \subseteq Sessions
           /\ lost \subseteq Sessions /\ log \in [Sessions -> {Nothing, Started, Closed}]
           /\ landing \in [Sessions -> {"none", "ok", "error"}]
           /\ inflight \in [writer : Writers \cup {<<"none", NoOne>>}, waited : BOOLEAN]
           /\ stop \in [phase : {"up", "ending", "clean", "expired"}, listed : SUBSET Sessions]
           /\ IsFiniteSet(Sessions)
  BY ExecAssumption DEF TypeOK, Entry, Phases, Nothing, Started, Closed, ExecAssumption

(* An entry goes on: it is never free again, and once it was asked to end  *)
(* it stays so.                                                            *)
Onward(r, q) ==
  r.state \notin {"free", "decided"} =>
    /\ q.state \notin {"free", "decided"}
    /\ (Live(r) => r.reason # "") => (Live(q) => q.reason # "")

Tally(s) ==
  \/ (Owes(s)' <=> Owes(s)) /\ endWrites' = endWrites
  \/ ~ Owes(s) /\ Owes(s)' /\ endWrites' = endWrites + 1
  \/ Owes(s) /\ ~ Owes(s)' /\ endWrites' = endWrites - 1

Local(s) ==
  /\ sess' \in [Sessions -> Entry] /\ pump' \in [Sessions -> Pumps]
  /\ write' \in [Writers -> Phases]
  /\ \A t \in Sessions \ {s} :
        /\ sess'[t] = sess[t] /\ pump'[t] = pump[t]
        /\ \A k \in Kinds : write'[<<k, t>>] = write[<<k, t>>]
  /\ write'[<<"denied", NoOne>>] = write[<<"denied", NoOne>>]
  /\ \A k \in Kinds : write'[<<k, s>>] = "flying" <=> write[<<k, s>>] = "flying"
  /\ UNCHANGED <<inflight, landing, log, lost, stop>>
  /\ Onward(sess[s], sess'[s])
  /\ Tally(s) /\ SessionInv(s)'

(* The pump's moves that write nothing. *)
Hops == {<<"none", "open">>, <<"none", "done">>, <<"open", "opened">>, <<"open", "done">>,
         <<"open", "gaveup">>, <<"opened", "unstarted">>, <<"recorded", "serving">>,
         <<"unrecorded", "unstarted">>, <<"unstarted", "done">>}

LEMMA MovesAlone ==
    ASSUME IInv, NEW s \in Sessions, NEW r \in Entry, NEW p \in Pumps,
           sess' = [sess EXCEPT ![s] = r], pump' = [pump EXCEPT ![s] = p],
           UNCHANGED <<write, endWrites, inflight, landing, log, lost, stop>>,
           p = pump[s] \/ <<pump[s], p>> \in Hops,
           PlacedAs(r, p), Onward(sess[s], r)
    PROVE  Local(s)
  <1>1. /\ sess \in [Sessions -> Entry] /\ pump \in [Sessions -> Pumps]
        /\ write \in [Writers -> Phases]
    BY Typing DEF IInv
  <1>2. SessionInv(s)
    BY DEF IInv
  <1>3. sess'[s] = r /\ pump'[s] = p
    BY <1>1
  <1>4. pump[s] \notin {"counted"} \/ p = pump[s]
    BY DEF Hops
  <1>5. Placed(s)'
    BY <1>3 DEF Placed
  <1>6. Written(s)'
    BY <1>2, <1>3 DEF SessionInv, Written, Hops, Over
  <1>7. Held(s)' /\ Landings(s)'
    BY <1>2, <1>3 DEF SessionInv, Held, Landings, Hops, Late, Over
  <1>8. Logged(s)'
    BY <1>2, <1>3, LogsDiffer DEF SessionInv, Logged, EndOwed, Hops
  <1>9. Tally(s)
    BY <1>3, <1>4 DEF Tally, Owes, Hops
  <1>10. QED
    BY <1>1, <1>3, <1>5, <1>6, <1>7, <1>8, <1>9 DEF Local, SessionInv

(* A session asked to end, by whoever asks. *)
LEMMA AskedAlone ==
    ASSUME IInv, NEW s \in Sessions, sess' = [sess EXCEPT ![s] = End(sess[s])],
           UNCHANGED <<pump, write, endWrites, inflight, landing, log, lost, stop>>
    PROVE  Local(s)
  <1>1. sess \in [Sessions -> Entry] /\ pump \in [Sessions -> Pumps] /\ sess[s] \in Entry
    BY Typing DEF IInv
  <1>2. PlacedAs(End(sess[s]), pump[s])
    BY <1>1, EndPlaced DEF IInv, SessionInv, Placed
  <1>3. Onward(sess[s], End(sess[s]))
    BY <1>1, EndShape DEF Onward, Live
  <1>4. pump' = [pump EXCEPT ![s] = pump[s]]
    BY <1>1
  <1>5. QED
    BY <1>1, <1>2, <1>3, <1>4, EndShape, MovesAlone

(* A session aborted by its pump, which leaves. *)
LEMMA AbortedAlone ==
    ASSUME IInv, NEW s \in Sessions, NEW p \in {"gaveup", "unstarted", "done"},
           pump[s] # "none", <<pump[s], p>> \in Hops,
           sess' = [sess EXCEPT ![s] = Abort(sess[s])], pump' = [pump EXCEPT ![s] = p],
           UNCHANGED <<write, endWrites, inflight, landing, log, lost, stop>>
    PROVE  Local(s)
  <1>1. sess \in [Sessions -> Entry] /\ sess[s] \in Entry /\ p \in Pumps
    BY Typing DEF IInv, Pumps
  <1>2. Placed(s)
    BY DEF IInv, SessionInv
  <1>3. sess[s].attached /\ sess[s].state \notin {"free", "decided"}
    BY <1>2 DEF Placed, PlacedAs
  <1>4. PlacedAs(Abort(sess[s]), p)
    BY <1>1, <1>3, AbortShape, EndedPlaced
  <1>5. Onward(sess[s], Abort(sess[s]))
    BY <1>1, <1>3, AbortShape DEF Onward, Live
  <1>6. QED
    BY <1>1, <1>4, <1>5, AbortShape, MovesAlone

LEMMA RequestLocal ==
    ASSUME IInv, NEW s \in Sessions,
           Decide(s) \/ Create(s) \/ Attach(s) \/ Delete(s) \/ FinishUnattached(s)
             \/ Disconnect(s) \/ Expire(s)
    PROVE  Local(s)
  <1>0. /\ sess \in [Sessions -> Entry] /\ sess[s] \in Entry
        /\ pump \in [Sessions -> Pumps] /\ pump[s] \in Pumps /\ Placed(s)
        /\ pump = [pump EXCEPT ![s] = pump[s]]
    BY Typing DEF IInv, SessionInv
  <1>1. CASE Delete(s) \/ Disconnect(s) \/ Expire(s)
    BY <1>1, AskedAlone DEF Delete, Disconnect, Expire, fileVars
  <1>2. CASE Decide(s)
    <2> DEFINE r == [sess[s] EXCEPT !.state = "decided"]
    <2>1. r \in Entry /\ r.state = "decided" /\ r.attached = sess[s].attached
          /\ r.reason = sess[s].reason /\ r.finishing = sess[s].finishing
      BY <1>0 DEF Entry, States
    <2>2. sess' = [sess EXCEPT ![s] = r] /\ sess[s].state = "free"
      BY <1>2 DEF Decide
    <2> HIDE DEF r
    <2>3. PlacedAs(r, pump[s]) /\ Onward(sess[s], r)
      BY <1>0, <2>1, <2>2 DEF Placed, PlacedAs, Onward
    <2>4. QED
      BY <1>0, <1>2, <2>1, <2>2, <2>3, MovesAlone DEF Decide, fileVars
  <1>3. CASE Create(s)
    <2> DEFINE r == [sess[s] EXCEPT !.state = "pending"]
    <2>1. r \in Entry /\ r.state = "pending" /\ r.attached = sess[s].attached
          /\ r.reason = sess[s].reason /\ r.finishing = sess[s].finishing
      BY <1>0 DEF Entry, States
    <2>2. sess' = [sess EXCEPT ![s] = r] /\ sess[s].state = "decided"
      BY <1>3 DEF Create
    <2> HIDE DEF r
    <2>3. PlacedAs(r, pump[s]) /\ Onward(sess[s], r)
      BY <1>0, <2>1, <2>2 DEF Placed, PlacedAs, Onward, Live
    <2>4. QED
      BY <1>0, <1>3, <2>1, <2>2, <2>3, MovesAlone DEF Create, fileVars
  <1>4. CASE Attach(s)
    <2> DEFINE r == [sess[s] EXCEPT !.attached = TRUE]
    <2>1. r \in Entry /\ r.state = sess[s].state /\ r.attached
          /\ r.reason = sess[s].reason /\ r.finishing = sess[s].finishing
      BY <1>0 DEF Entry
    <2>2. sess[s].state = "pending" /\ ~ sess[s].attached /\ pump[s] = "none"
      BY <1>0, <1>4 DEF Attach, Placed, PlacedAs
    <2>3. \/ sess' = [sess EXCEPT ![s] = r] /\ pump' = [pump EXCEPT ![s] = "open"]
          \/ sess' = [sess EXCEPT ![s] = Abort(r)] /\ pump' = [pump EXCEPT ![s] = "done"]
      BY <1>4 DEF Attach
    <2>4. UNCHANGED <<write, endWrites, inflight, landing, log, lost, stop>>
      BY <1>4 DEF Attach, fileVars
    <2> HIDE DEF r
    <2>5. PlacedAs(r, "open") /\ Onward(sess[s], r)
      BY <1>0, <2>1, <2>2 DEF Placed, PlacedAs, Onward, Stages, Live
    <2>6. PlacedAs(Abort(r), "done") /\ Onward(sess[s], Abort(r)) /\ Abort(r) \in Entry
      BY <2>1, <2>2, AbortShape, EndedPlaced DEF Onward, Live
    <2>7. {"open", "done"} \subseteq Pumps
          /\ <<pump[s], "open">> \in Hops /\ <<pump[s], "done">> \in Hops
      BY <2>2 DEF Pumps, Hops
    <2>8. QED
      BY <2>1, <2>3, <2>4, <2>5, <2>6, <2>7, MovesAlone
  <1>5. CASE FinishUnattached(s)
    <2> DEFINE r == Finish(sess[s], "detached")
    <2>1. sess[s].state = "pending" /\ sess[s].finishing
      BY <1>0, <1>5 DEF FinishUnattached, Placed, PlacedAs
    <2>2. /\ sess' = [sess EXCEPT ![s] = r] /\ pump' = pump
          /\ UNCHANGED <<write, endWrites, inflight, landing, log, lost, stop>>
      BY <1>5, <2>1 DEF FinishUnattached
    <2>3. r \in Entry /\ r.attached = sess[s].attached /\ ~ r.finishing /\ r.state = "ended"
      BY <1>0, <2>1, FinishShape DEF Live
    <2> HIDE DEF r
    <2>4. PlacedAs(r, pump[s]) /\ Onward(sess[s], r)
      BY <1>0, <2>1, <2>3 DEF Placed, PlacedAs, Onward, Live
    <2>5. QED
      BY <1>0, <2>2, <2>3, <2>4, MovesAlone
  <1>6. QED
    BY <1>1, <1>2, <1>3, <1>4, <1>5

(* The moves of the pump that write, or that count a write. *)
LEMMA WritesAlone ==
    ASSUME IInv, NEW s \in Sessions, NEW r \in Entry, NEW p \in Pumps,
           NEW k \in Kinds, NEW x \in {"idle", "awaiting", "queued"},
           sess' = [sess EXCEPT ![s] = r], pump' = [pump EXCEPT ![s] = p],
           write' = [write EXCEPT ![<<k, s>>] = x], write[<<k, s>>] # "flying",
           UNCHANGED <<inflight, landing, log, lost, stop>>,
           PlacedAs(r, p), Onward(sess[s], r),
           \/ k = "start" /\ x = "queued" /\ pump[s] = "opened" /\ p = "recording"
              /\ endWrites' = endWrites
           \/ k = "end" /\ x = "queued" /\ pump[s] = "recorded" /\ p = "unstarted"
              /\ endWrites' = endWrites + 1
           \/ k = "end" /\ x = "queued" /\ pump[s] = "serving" /\ p = "done"
              /\ endWrites' = endWrites + 1
           \/ k = "late" /\ x = "awaiting" /\ pump[s] = "counted" /\ p = "unstarted"
              /\ endWrites' = endWrites
           \/ k = "late" /\ x = "queued" /\ write[<<k, s>>] = "awaiting" /\ landing[s] = "ok"
              /\ p = pump[s] /\ endWrites' = endWrites
           \/ k = "late" /\ x = "idle" /\ write[<<k, s>>] = "awaiting" /\ landing[s] = "error"
              /\ p = pump[s] /\ endWrites' = endWrites - 1
    PROVE  Local(s)
  <1>1. /\ sess \in [Sessions -> Entry] /\ pump \in [Sessions -> Pumps]
        /\ write \in [Writers -> Phases]
    BY Typing DEF IInv
  <1>2. SessionInv(s) /\ OneWrite
    BY DEF IInv
  <1>3. \A j \in Kinds, t \in Sessions : <<j, t>> \in Writers
    BY DEF Writers
  <1>4. /\ sess'[s] = r /\ pump'[s] = p /\ write'[<<k, s>>] = x
        /\ \A j \in Kinds \ {k} : write'[<<j, s>>] = write[<<j, s>>]
        /\ \A j \in Kinds, t \in Sessions \ {s} : write'[<<j, t>>] = write[<<j, t>>]
        /\ write' \in [Writers -> Phases]
    BY <1>1, <1>3 DEF Phases
  <1>5. write'[<<"denied", NoOne>>] = write[<<"denied", NoOne>>]
    <2>1. <<"denied", NoOne>> \in Writers /\ "denied" \notin Kinds
      BY DEF Writers, Kinds
    <2>2. QED
      BY <1>1, <2>1
  <1>6. {"start", "end", "late"} = Kinds
    BY DEF Kinds
  <1>7. Placed(s)'
    BY <1>4 DEF Placed
  <1>8. Written(s)'
    BY <1>2, <1>4, <1>6, LogsDiffer DEF SessionInv, Written, Landings, Logged, Over
  <1>9. inflight.writer # <<"start", s>> \/ pump[s] \notin {"opened", "recorded", "serving"}
    BY <1>2, LogsDiffer DEF SessionInv, Held, Logged, Written, OneWrite, Late, Over
  <1>10. Held(s)'
    BY <1>2, <1>4, <1>6, <1>9 DEF SessionInv, Held, Late, Over, Written, OneWrite
  <1>11. Landings(s)'
    BY <1>2, <1>4, <1>6 DEF SessionInv, Landings, Late, Over, Written
  <1>12. Logged(s)'
    BY <1>2, <1>4, <1>6, LogsDiffer DEF SessionInv, Logged, EndOwed, Landings, Written, Over
  <1>13. Tally(s)
    BY <1>2, <1>4, <1>6 DEF SessionInv, Written, Tally, Owes, Over
  <1>14. \A j \in Kinds : write'[<<j, s>>] = "flying" <=> write[<<j, s>>] = "flying"
    BY <1>4
  <1>15. QED
    BY <1>1, <1>4, <1>5, <1>7, <1>8, <1>10, <1>11, <1>12, <1>13, <1>14 DEF Local, SessionInv

LEMMA PumpLocal ==
    ASSUME IInv, NEW s \in Sessions,
           Opened(s) \/ CloseLate(s) \/ Pump(s) \/ Landed(s) \/ ShellExits(s)
    PROVE  Local(s)
  <1>0. /\ sess \in [Sessions -> Entry] /\ sess[s] \in Entry
        /\ pump \in [Sessions -> Pumps] /\ pump[s] \in Pumps /\ SessionInv(s) /\ Placed(s)
        /\ pump = [pump EXCEPT ![s] = pump[s]] /\ sess = [sess EXCEPT ![s] = sess[s]]
        /\ PlacedAs(sess[s], pump[s])
    BY Typing DEF IInv, SessionInv, Placed
  <1>a. {"unstarted", "done", "opened", "gaveup", "recording", "serving", "counted"} \subseteq Pumps
    BY DEF Pumps
  <1>b. Onward(sess[s], sess[s])
    BY DEF Onward
  <1>1. CASE CloseLate(s) \/ ShellExits(s)
    <2>1. UNCHANGED <<sess, pump, write, endWrites, inflight, landing, log, lost, stop>>
      BY <1>1 DEF CloseLate, ShellExits, fileVars
    <2>2. QED
      BY <1>0, <1>b, <2>1, MovesAlone
  <1>2. CASE Opened(s)
    <2>1. UNCHANGED <<write, endWrites, inflight, landing, log, lost, stop>>
      BY <1>2 DEF Opened, fileVars
    <2>2. CASE pump[s] = "open" /\ sess' = sess /\ pump' = [pump EXCEPT ![s] = "opened"]
      <3>1. PlacedAs(sess[s], "opened") /\ <<pump[s], "opened">> \in Hops
        BY <1>0, <2>2 DEF PlacedAs, Hops, Stages
      <3>2. QED
        BY <1>0, <1>a, <1>b, <2>1, <2>2, <3>1, MovesAlone
    <2>3. CASE /\ pump[s] = "open" /\ sess' = [sess EXCEPT ![s] = Abort(sess[s])]
               /\ pump' = [pump EXCEPT ![s] = "done"]
      <3>1. <<pump[s], "done">> \in Hops
        BY <2>3 DEF Hops
      <3>2. QED
        BY <2>1, <2>3, <3>1, AbortedAlone
    <2>4. CASE sess' = sess /\ pump' = pump
      BY <1>0, <1>b, <2>1, <2>4, MovesAlone
    <2>5. QED
      BY <1>0, <1>2, <2>2, <2>3, <2>4 DEF Opened
  <1>3. CASE GiveUp(s) \/ Unrecorded(s) \/ Discard(s)
    <2>1. UNCHANGED <<write, endWrites, inflight, landing, log, lost, stop>>
      BY <1>3 DEF GiveUp, Unrecorded, Discard, fileVars
    <2>2. PICK p \in {"gaveup", "unstarted", "done"} :
            /\ sess' = [sess EXCEPT ![s] = Abort(sess[s])] /\ pump' = [pump EXCEPT ![s] = p]
            /\ <<pump[s], p>> \in Hops /\ pump[s] # "none"
      BY <1>3 DEF GiveUp, Unrecorded, Discard, Hops
    <2>3. QED
      BY <2>1, <2>2, AbortedAlone
  <1>4. CASE Connect(s)
    <2>1. /\ UNCHANGED <<sess, endWrites, inflight, landing, log, lost, stop>>
          /\ pump[s] = "opened"
      BY <1>4 DEF Connect
    <2>2. CASE /\ sess[s].state = "pending" /\ sess[s].reason = ""
               /\ write' = [write EXCEPT ![<<"start", s>>] = "queued"]
               /\ pump' = [pump EXCEPT ![s] = "recording"]
      <3>1. PlacedAs(sess[s], "recording")
        BY <1>0, <2>1, <2>2 DEF PlacedAs
      <3>2. write[<<"start", s>>] # "flying"
        BY <1>0, <2>1 DEF SessionInv, Written
      <3>3. "start" \in Kinds
        BY DEF Kinds
      <3>4. QED
        BY <1>0, <1>a, <1>b, <2>1, <2>2, <3>1, <3>2, <3>3, WritesAlone
    <2>3. CASE write' = write /\ pump' = [pump EXCEPT ![s] = "unstarted"]
      <3>1. PlacedAs(sess[s], "unstarted") /\ <<pump[s], "unstarted">> \in Hops
        BY <1>0, <2>1 DEF PlacedAs, Stages, Hops
      <3>2. QED
        BY <1>0, <1>a, <1>b, <2>1, <2>3, <3>1, MovesAlone
    <2>4. QED
      BY <1>4, <2>2, <2>3 DEF Connect
  <1>5. CASE Recorded(s)
    <2>1. /\ UNCHANGED <<inflight, landing, log, lost, stop>>
          /\ pump[s] = "recorded" /\ sess[s].state = "pending" /\ sess[s].attached
      BY <1>0, <1>5 DEF Recorded, PlacedAs, Stages
    <2>2. CASE sess[s].reason = ""
      <3> DEFINE r == [sess[s] EXCEPT !.state = "connected"]
      <3>1. /\ sess' = [sess EXCEPT ![s] = r] /\ pump' = [pump EXCEPT ![s] = "serving"]
            /\ UNCHANGED <<write, endWrites>>
        BY <1>5, <2>1, <2>2 DEF Recorded
      <3>2. r \in Entry /\ r.state = "connected" /\ r.attached /\ r.reason = ""
            /\ r.finishing = sess[s].finishing
        BY <1>0, <2>1, <2>2 DEF Entry, States
      <3> HIDE DEF r
      <3>3. PlacedAs(r, "serving") /\ <<pump[s], "serving">> \in Hops
        BY <1>0, <2>1, <2>2, <3>2 DEF PlacedAs, Stages, Hops
      <3>4. Onward(sess[s], r)
        BY <2>1, <2>2, <3>2 DEF Onward, Live
      <3>5. QED
        BY <1>a, <2>1, <3>1, <3>2, <3>3, <3>4, MovesAlone
    <2>3. CASE sess[s].reason # ""
      <3> DEFINE r == Finish(sess[s], "detached")
      <3>1. /\ sess' = [sess EXCEPT ![s] = r] /\ pump' = [pump EXCEPT ![s] = "unstarted"]
            /\ write' = [write EXCEPT ![<<"end", s>>] = "queued"] /\ endWrites' = endWrites + 1
        BY <1>5, <2>1, <2>3 DEF Recorded
      <3>2. r \in Entry /\ r.state = "ended" /\ r.attached /\ ~ r.finishing
        BY <1>0, <2>1, FinishShape DEF Live
      <3> HIDE DEF r
      <3>3. PlacedAs(r, "unstarted") /\ Onward(sess[s], r)
        BY <2>1, <3>2 DEF PlacedAs, Stages, Onward, Live
      <3>4. write[<<"end", s>>] # "flying" /\ "end" \in Kinds
        BY <1>0, <2>1 DEF SessionInv, Written, Over, Kinds
      <3>5. QED
        BY <1>a, <2>1, <3>1, <3>2, <3>3, <3>4, WritesAlone
    <2>4. QED
      BY <2>2, <2>3
  <1>6. CASE CountLate(s)
    <2>1. /\ UNCHANGED <<sess, write, inflight, landing, log, lost, stop>>
          /\ pump[s] = "abandoned" /\ endWrites' = endWrites + 1
          /\ pump' = [pump EXCEPT ![s] = "counted"]
      BY <1>6 DEF CountLate, fileVars
    <2>2. pump'[s] = "counted" /\ sess'[s] = sess[s] /\ pump' \in [Sessions -> Pumps]
          /\ \A t \in Sessions \ {s} : pump'[t] = pump[t]
      BY <1>0, <1>a, <2>1
    <2>3. Placed(s)'
      BY <1>0, <2>1, <2>2 DEF Placed, PlacedAs, Stages
    <2>4. Written(s)' /\ Held(s)' /\ Landings(s)'
      BY <1>0, <2>1, <2>2 DEF SessionInv, Written, Held, Landings, Late, Over
    <2>5. Logged(s)'
      BY <1>0, <2>1, <2>2 DEF SessionInv, Logged, EndOwed
    <2>6. Tally(s)
      BY <1>0, <2>1, <2>2 DEF SessionInv, Written, Tally, Owes, Over
    <2>7. write \in [Writers -> Phases]
      BY Typing DEF IInv
    <2>8. QED
      BY <1>0, <1>b, <2>1, <2>2, <2>3, <2>4, <2>5, <2>6, <2>7 DEF Local, SessionInv
  <1>7. CASE AbortLate(s)
    <2> DEFINE r == Abort(sess[s])
    <2>1. /\ UNCHANGED <<endWrites, inflight, landing, log, lost, stop>>
          /\ pump[s] = "counted" /\ pump' = [pump EXCEPT ![s] = "unstarted"]
          /\ sess' = [sess EXCEPT ![s] = r]
          /\ write' = [write EXCEPT ![<<"late", s>>] = "awaiting"]
      BY <1>7 DEF AbortLate
    <2>2. sess[s].attached /\ sess[s].state = "pending"
      BY <1>0, <2>1 DEF PlacedAs, Stages
    <2>3. r \in Entry /\ r.state = "ended" /\ r.attached /\ ~ r.finishing
      BY <1>0, <2>2, AbortShape DEF Live
    <2> HIDE DEF r
    <2>4. PlacedAs(r, "unstarted") /\ Onward(sess[s], r)
      BY <2>3 DEF PlacedAs, Stages, Onward, Live
    <2>5. write[<<"late", s>>] # "flying" /\ "late" \in Kinds
      BY <1>0, <2>1 DEF SessionInv, Written, Over, Kinds
    <2>6. QED
      BY <1>a, <2>1, <2>3, <2>4, <2>5, WritesAlone
  <1>8. CASE Landed(s)
    <2>1. /\ UNCHANGED <<sess, pump, inflight, landing, log, lost, stop>>
          /\ write[<<"late", s>>] = "awaiting" /\ "late" \in Kinds
      BY <1>8 DEF Landed, Kinds
    <2>2. \/ /\ landing[s] = "ok" /\ write' = [write EXCEPT ![<<"late", s>>] = "queued"]
             /\ endWrites' = endWrites
          \/ /\ landing[s] = "error" /\ write' = [write EXCEPT ![<<"late", s>>] = "idle"]
             /\ endWrites' = endWrites - 1
      BY <1>8 DEF Landed
    <2>3. QED
      BY <1>0, <1>b, <2>1, <2>2, WritesAlone
  <1>9. CASE PumpEnds(s)
    <2>1. PICK outcome \in Outcomes :
            LET r == IF outcome = "exited" THEN sess[s] ELSE End(sess[s]) IN
              /\ sess' = [sess EXCEPT ![s] = Finish(r, outcome)]
              /\ IF r.state = "connected"
                 THEN /\ write' = [write EXCEPT ![<<"end", s>>] = "queued"]
                      /\ endWrites' = endWrites + 1
                 ELSE UNCHANGED <<write, endWrites>>
      BY <1>9 DEF PumpEnds
    <2> DEFINE q == IF outcome = "exited" THEN sess[s] ELSE End(sess[s])
               r == Finish(q, outcome)
    <2>2. /\ UNCHANGED <<inflight, landing, log, lost, stop>>
          /\ pump[s] = "serving" /\ pump' = [pump EXCEPT ![s] = "done"]
      BY <1>9 DEF PumpEnds
    <2>3. sess[s].state = "connected" /\ sess[s].attached
      BY <1>0, <2>2 DEF PlacedAs
    <2>4. q \in Entry /\ q.state = "connected" /\ q.attached
      BY <1>0, <2>3, EndShape
    <2>5. /\ sess' = [sess EXCEPT ![s] = r]
          /\ write' = [write EXCEPT ![<<"end", s>>] = "queued"] /\ endWrites' = endWrites + 1
      BY <2>1, <2>4
    <2> HIDE DEF q
    <2>6. r \in Entry /\ r.state = "ended" /\ r.attached /\ ~ r.finishing
      BY <2>4, FinishShape DEF Live
    <2> HIDE DEF r
    <2>7. PlacedAs(r, "done") /\ Onward(sess[s], r)
      BY <2>6 DEF PlacedAs, Stages, Onward, Live
    <2>8. write[<<"end", s>>] # "flying" /\ "end" \in Kinds
      BY <1>0, <2>2 DEF SessionInv, Written, Over, Kinds
    <2>9. QED
      BY <1>a, <2>2, <2>5, <2>6, <2>7, <2>8, WritesAlone
  <1>10. QED
    BY <1>1, <1>2, <1>3, <1>4, <1>5, <1>6, <1>7, <1>8, <1>9 DEF Pump

----------------------------------------------------------------------------
(* A step of one session keeps the invariant of all.                       *)

LEMMA WriterKinds ==
    /\ Kinds = {"start", "end", "late"}
    /\ \A k \in Kinds, s \in Sessions : <<k, s>> \in Writers
    /\ <<"denied", NoOne>> \in Writers
    /\ \A w \in Writers : \/ \E k \in Kinds, s \in Sessions : w = <<k, s>>
                          \/ w = <<"denied", NoOne>>
    /\ \A w \in Writers : w[1] # "none" /\ (w[2] = NoOne <=> w = <<"denied", NoOne>>)
  BY ExecAssumption DEF Kinds, Writers, ExecAssumption

(* What the entries, the pumps, the writes and the file are to one         *)
(* another, apart from the type of everything else.                        *)
Core ==
  /\ sess \in [Sessions -> Entry] /\ pump \in [Sessions -> Pumps]
  /\ write \in [Writers -> Phases] /\ log \in [Sessions -> {Nothing, Started, Closed}]
  /\ landing \in [Sessions -> {"none", "ok", "error"}]
  /\ inflight \in [writer : Writers \cup {<<"none", NoOne>>}, waited : BOOLEAN]
  /\ lost \subseteq Sessions
  /\ OneWrite /\ Counted /\ AskedAll
  /\ \A s \in Sessions : SessionInv(s)

(* Somebody more, or somebody less, owes an end record. *)
LEMMA OwingTallied ==
    ASSUME IInv, NEW s \in Sessions, Tally(s),
           \A t \in Sessions \ {s} : Owes(t)' <=> Owes(t)
    PROVE  Counted'
  <1>0. /\ IsFiniteSet(Owing) /\ endWrites = Cardinality(Owing) /\ Cardinality(Owing) \in Nat
    <2>1. Owing \subseteq Sessions /\ IsFiniteSet(Sessions)
      BY Typing DEF Owing, IInv
    <2>2. QED
      BY <2>1, FS_Subset, FS_CardinalityType DEF IInv, Counted
  <1>1. CASE (Owes(s)' <=> Owes(s)) /\ endWrites' = endWrites
    <2>1. Owing' = Owing
      BY <1>1 DEF Owing
    <2>2. QED
      BY <1>0, <1>1, <2>1 DEF Counted
  <1>2. CASE ~ Owes(s) /\ Owes(s)' /\ endWrites' = endWrites + 1
    <2>1. Owing' = Owing \cup {s} /\ s \notin Owing
      BY <1>2 DEF Owing
    <2>2. Cardinality(Owing') = Cardinality(Owing) + 1
      BY <1>0, <2>1, FS_AddElement
    <2>3. QED
      BY <1>0, <1>2, <2>2 DEF Counted
  <1>3. CASE Owes(s) /\ ~ Owes(s)' /\ endWrites' = endWrites - 1
    <2>1. Owing' = Owing \ {s} /\ s \in Owing
      BY <1>3 DEF Owing
    <2>2. Cardinality(Owing') = Cardinality(Owing) - 1
      BY <1>0, <2>1, FS_RemoveElement
    <2>3. QED
      BY <1>0, <1>3, <2>2 DEF Counted
  <1>4. QED
    BY <1>1, <1>2, <1>3 DEF Tally

LEMMA LocalKeeps ==
    ASSUME IInv, NEW s \in Sessions, Local(s)
    PROVE  Core'
  <1>0. Core
    BY Typing DEF IInv, Core
  <1>1. ASSUME NEW t \in Sessions PROVE SessionInv(t)'
    <2>1. CASE t = s
      BY <2>1 DEF Local
    <2>2. CASE t # s
      <3>1. /\ sess'[t] = sess[t] /\ pump'[t] = pump[t] /\ log' = log /\ landing' = landing
            /\ inflight' = inflight /\ lost' = lost
            /\ write'[<<"start", t>>] = write[<<"start", t>>]
            /\ write'[<<"end", t>>] = write[<<"end", t>>]
            /\ write'[<<"late", t>>] = write[<<"late", t>>]
        BY <2>2, WriterKinds DEF Local
      <3>2. SessionInv(t)
        BY DEF IInv
      <3>3. Placed(t)' /\ Written(t)'
        BY <3>1, <3>2 DEF SessionInv, Placed, Written
      <3>4. Held(t)' /\ Landings(t)' /\ Logged(t)'
        BY <3>1, <3>2 DEF SessionInv, Held, Landings, Logged, EndOwed
      <3>5. QED
        BY <3>3, <3>4 DEF SessionInv
    <2>3. QED
      BY <2>1, <2>2
  <1>2. OneWrite'
    <2>1. \A w \in Writers : write'[w] = "flying" <=> write[w] = "flying"
      <3>1. ASSUME NEW k \in Kinds, NEW t \in Sessions
            PROVE  write'[<<k, t>>] = "flying" <=> write[<<k, t>>] = "flying"
        BY DEF Local
      <3>2. write'[<<"denied", NoOne>>] = write[<<"denied", NoOne>>]
        BY DEF Local
      <3>3. QED
        BY <3>1, <3>2, WriterKinds
    <2>2. inflight' = inflight /\ write'[<<"denied", NoOne>>] = write[<<"denied", NoOne>>]
      BY DEF Local
    <2>3. inflight.waited => inflight.writer \in Writers
      <3>1. inflight.writer = <<"none", NoOne>> => ~ inflight.waited
        BY <1>0 DEF Core, OneWrite, Idle
      <3>2. QED
        BY <1>0, <3>1 DEF Core
    <2>4. QED
      BY <1>0, <2>1, <2>2, <2>3 DEF Core, OneWrite, Idle
  <1>3. Counted'
    <2>1. \A t \in Sessions \ {s} : Owes(t)' <=> Owes(t)
      BY WriterKinds DEF Local, Owes
    <2>2. QED
      BY <2>1, OwingTallied DEF Local
  <1>4. AskedAll'
    <2>1. stop' = stop /\ stop.listed \subseteq Sessions /\ Onward(sess[s], sess'[s])
      BY Typing DEF IInv, Local
    <2>2. \A t \in stop.listed : t = s \/ sess'[t] = sess[t]
      BY <2>1 DEF Local
    <2>3. QED
      BY <1>0, <2>1, <2>2 DEF Core, AskedAll, Onward
  <1>5. QED
    BY <1>0, <1>1, <1>2, <1>3, <1>4 DEF Core, Local

(* A step that ends some sessions and does nothing else of theirs: a       *)
(* failed record, the sweep, shutdown.                                     *)
LEMMA EndedMany ==
    ASSUME IInv, NEW t \in Sessions, sess'[t] \in {sess[t], End(sess[t])},
           pump'[t] = pump[t], log'[t] = log[t], landing'[t] = landing[t],
           \A k \in Kinds : write'[<<k, t>>] = write[<<k, t>>],
           \A k \in Kinds : inflight'.writer # <<k, t>>
              \/ inflight' = inflight,
           t \in lost => t \in lost'
    PROVE  SessionInv(t)' /\ Onward(sess[t], sess'[t]) /\ sess'[t] \in Entry
  <1>1. sess[t] \in Entry /\ SessionInv(t)
    BY Typing DEF IInv
  <1>2. /\ write'[<<"start", t>>] = write[<<"start", t>>]
        /\ write'[<<"end", t>>] = write[<<"end", t>>]
        /\ write'[<<"late", t>>] = write[<<"late", t>>]
    BY WriterKinds
  <1>3. \/ inflight' = inflight
        \/ /\ inflight'.writer # <<"start", t>> /\ inflight'.writer # <<"end", t>>
           /\ inflight'.writer # <<"late", t>>
    BY WriterKinds
  <1>4. Placed(t)'
    BY <1>1, EndPlaced DEF SessionInv, Placed
  <1>5. Written(t)' /\ Landings(t)'
    BY <1>1, <1>2 DEF SessionInv, Written, Landings
  <1>6. Held(t)'
    BY <1>1, <1>2, <1>3 DEF SessionInv, Held
  <1>7. Logged(t)'
    BY <1>1, <1>2 DEF SessionInv, Logged, EndOwed
  <1>8. Onward(sess[t], sess'[t]) /\ sess'[t] \in Entry
    BY <1>1, EndShape DEF Onward, Live
  <1>9. QED
    BY <1>4, <1>5, <1>6, <1>7, <1>8 DEF SessionInv

----------------------------------------------------------------------------
(* The file's steps. *)

(* What the caller of a write does with its answer. *)
LEMMA AnswerShape ==
    ASSUME IInv, NEW w \in Writers, NEW answer \in {"ok", "error", "abandoned"},
           write[w] # "uncounted", Answer(w, answer)
    PROVE  /\ sess' \in [Sessions -> Entry] /\ pump' \in [Sessions -> Pumps]
           /\ write' \in [Writers -> Phases] /\ lost \subseteq lost' /\ lost' \subseteq Sessions
           /\ \A t \in Sessions : /\ sess'[t] \in {sess[t], End(sess[t])}
                                  /\ sess[t].state # "connected" => sess'[t] = sess[t]
                                  /\ w # <<"start", t>> => pump'[t] = pump[t]
           /\ write'[w] = "idle" /\ \A x \in Writers \ {w} : write'[x] = write[x]
           /\ \A t \in Sessions : w = <<"start", t>> =>
                 /\ pump'[t] = CASE answer = "ok" -> "recorded"
                                 [] answer = "error" -> "unrecorded"
                                 [] answer = "abandoned" -> "abandoned"
                 /\ endWrites' = endWrites
           /\ \A t \in Sessions : w = <<"end", t>> \/ w = <<"late", t>> =>
                 /\ endWrites' = endWrites - 1
                 /\ answer # "ok" => t \in lost'
           /\ w = <<"denied", NoOne>> => endWrites' = endWrites
  <1>0. /\ sess \in [Sessions -> Entry] /\ pump \in [Sessions -> Pumps]
        /\ write \in [Writers -> Phases] /\ lost \subseteq Sessions
    BY Typing DEF IInv
  <1>1. /\ sess' \in [Sessions -> Entry]
        /\ \A t \in Sessions : /\ sess'[t] \in {sess[t], End(sess[t])}
                               /\ sess[t].state # "connected" => sess'[t] = sess[t]
    <2>1. CASE sess' = sess
      BY <1>0, <2>1
    <2>2. CASE sess' = FailClosed(sess)
      <3>1. sess' = [s \in Sessions |-> IF sess[s].state = "connected" THEN End(sess[s])
                                        ELSE sess[s]]
        BY <2>2 DEF FailClosed
      <3>2. \A t \in Sessions : End(sess[t]) \in Entry
        BY <1>0, EndShape
      <3>3. QED
        BY <1>0, <3>1, <3>2
    <2>3. QED
      BY <2>1, <2>2 DEF Answer
  <1>2. write' = [write EXCEPT ![w] = "idle"]
    BY DEF Answer
  <1>3. /\ write' \in [Writers -> Phases] /\ write'[w] = "idle"
        /\ \A x \in Writers \ {w} : write'[x] = write[x]
    BY <1>0, <1>2 DEF Phases
  <1>4. CASE w = <<"denied", NoOne>>
    <2>1. w[1] = "denied"
      BY <1>4
    <2>2. pump' = pump /\ lost' = lost /\ endWrites' = endWrites
      BY <2>1 DEF Answer
    <2>3. \A k \in Kinds, t \in Sessions : w # <<k, t>>
      BY <1>4, WriterKinds DEF Kinds
    <2>4. QED
      BY <1>0, <1>1, <1>3, <2>2, <2>3, WriterKinds
  <1>5. ASSUME NEW s \in Sessions, w = <<"start", s>>
        PROVE  /\ pump' \in [Sessions -> Pumps] /\ lost' = lost /\ endWrites' = endWrites
               /\ pump'[s] = CASE answer = "ok" -> "recorded"
                                [] answer = "error" -> "unrecorded"
                                [] answer = "abandoned" -> "abandoned"
               /\ \A t \in Sessions \ {s} : pump'[t] = pump[t]
    <2>1. w[1] = "start" /\ w[2] = s
      BY <1>5
    <2> DEFINE p == CASE answer = "ok" -> "recorded" [] answer = "error" -> "unrecorded"
                      [] answer = "abandoned" -> "abandoned"
    <2>2. pump' = [pump EXCEPT ![s] = p] /\ lost' = lost /\ endWrites' = endWrites
      BY <2>1 DEF Answer
    <2>3. p \in Pumps
      BY DEF Pumps
    <2> HIDE DEF p
    <2>4. QED
      BY <1>0, <2>2, <2>3 DEF p
  <1>6. ASSUME NEW s \in Sessions, NEW k \in {"end", "late"}, w = <<k, s>>
        PROVE  /\ pump' = pump /\ endWrites' = endWrites - 1
               /\ lost' = IF answer # "ok" THEN lost \cup {s} ELSE lost
    <2>1. w[1] = k /\ w[2] = s
      BY <1>6
    <2>2. QED
      BY <2>1 DEF Answer
  <1>7. CASE \E s \in Sessions : w = <<"start", s>>
    <2>1. PICK s \in Sessions : w = <<"start", s>>
      BY <1>7
    <2>2. \A t \in Sessions : /\ w # <<"end", t>> /\ w # <<"late", t>>
                              /\ w # <<"denied", NoOne>>
                              /\ w = <<"start", t>> => t = s
      BY <2>1
    <2>3. QED
      BY <1>0, <1>1, <1>3, <1>5, <2>1, <2>2
  <1>8. CASE \E s \in Sessions, k \in {"end", "late"} : w = <<k, s>>
    <2>1. PICK s \in Sessions, k \in {"end", "late"} : w = <<k, s>>
      BY <1>8
    <2>2. \A t \in Sessions : /\ w # <<"start", t>> /\ w # <<"denied", NoOne>>
                              /\ w = <<"end", t>> \/ w = <<"late", t>> => t = s
      BY <2>1
    <2>3. /\ pump' = pump /\ endWrites' = endWrites - 1
          /\ lost' = IF answer # "ok" THEN lost \cup {s} ELSE lost
      BY <1>6, <2>1
    <2>4. QED
      BY <1>0, <1>1, <1>3, <2>2, <2>3
  <1>9. QED
    BY <1>4, <1>7, <1>8, WriterKinds

(* No write is ever left uncounted: the branch of Connected that writes    *)
(* the end of a session somebody else ended is never taken.                *)
LEMMA NeverUncounted ==
    ASSUME IInv, NEW w \in Writers
    PROVE  write[w] # "uncounted"
  <1>1. ASSUME NEW k \in Kinds, NEW s \in Sessions PROVE write[<<k, s>>] # "uncounted"
    BY WriterKinds DEF IInv, SessionInv, Written
  <1>2. write[<<"denied", NoOne>>] # "uncounted"
    BY DEF IInv, OneWrite
  <1>3. QED
    BY <1>1, <1>2, WriterKinds

LEMMA BeginsKeeps ==
    ASSUME IInv, NEW w \in Writers, WriteBegins(w)
    PROVE  Core'
  <1>0. Core /\ \A s \in Sessions : SessionInv(s)
    BY Typing DEF IInv, Core
  <1>1. /\ write[w] = "queued" /\ Idle /\ ~ inflight.waited
        /\ inflight' = [writer |-> w, waited |-> TRUE]
        /\ write' = [write EXCEPT ![w] = "flying"]
        /\ UNCHANGED <<sess, pump, landing, log, lost, endWrites, stop>>
    BY <1>0, NeverUncounted DEF WriteBegins, Core, OneWrite
  <1>2. /\ write' \in [Writers -> Phases] /\ write'[w] = "flying"
        /\ \A x \in Writers \ {w} : write'[x] = write[x]
    BY <1>0, <1>1 DEF Core, Phases
  <1>3. inflight'.writer = w /\ inflight'.waited
    BY <1>1
  <1>4. ASSUME NEW t \in Sessions PROVE SessionInv(t)'
    <2>1. CASE \A k \in Kinds : w # <<k, t>>
      BY <1>1, <1>2, <1>3, <2>1, WriterKinds, EndedMany
    <2>2. CASE \E k \in Kinds : w = <<k, t>>
      <3>1. PICK k \in Kinds : w = <<k, t>>
        BY <2>2
      <3>2. \A j \in Kinds \ {k} : <<j, t>> # w /\ write'[<<j, t>>] = write[<<j, t>>]
        BY <1>2, <3>1, WriterKinds
      <3>3. write'[<<k, t>>] = "flying" /\ write[<<k, t>>] = "queued"
        BY <1>1, <1>2, <3>1
      <3>4. Placed(t)' /\ Logged(t)'
        BY <1>0, <1>1, <3>2, <3>3, WriterKinds DEF SessionInv, Placed, Logged, EndOwed
      <3>5. Written(t)' /\ Landings(t)'
        BY <1>0, <1>1, <3>2, <3>3, WriterKinds DEF SessionInv, Written, Landings
      <3>6. Held(t)'
        <4>1. CASE k = "start"
          <5>1. pump[t] = "recording" /\ log[t] = Nothing /\ landing[t] = "none"
            BY <1>0, <3>3, <4>1 DEF SessionInv, Written, Logged, Landings, Late, Over
          <5>2. w # <<"end", t>> /\ w # <<"late", t>>
            BY <3>1, <4>1
          <5>3. QED
            BY <1>1, <1>3, <5>1, <5>2 DEF Held
        <4>2. CASE k \in {"end", "late"}
          <5>1. pump[t] \in Over /\ log[t] = Started
            BY <1>0, <3>3, <4>2 DEF SessionInv, Written
          <5>2. w # <<"start", t>>
            BY <3>1, <4>2
          <5>3. QED
            BY <1>1, <1>3, <5>1, <5>2 DEF Held
        <4>3. QED
          BY <4>1, <4>2, WriterKinds
      <3>7. QED
        BY <3>4, <3>5, <3>6 DEF SessionInv
    <2>3. QED
      BY <2>1, <2>2
  <1>5. OneWrite'
    <2>1. \A x \in Writers : write[x] # "flying"
      BY <1>0, <1>1 DEF Core, OneWrite
    <2>2. ~ Idle'
      BY <1>3, WriterKinds DEF Idle
    <2>3. write'[<<"denied", NoOne>>] \in {"idle", "queued", "flying"}
      BY <1>0, <1>2, WriterKinds DEF Core, OneWrite
    <2>4. QED
      BY <1>2, <1>3, <2>1, <2>2, <2>3 DEF OneWrite
  <1>6. Counted'
    <2>1. \A t \in Sessions : Owes(t)' <=> Owes(t)
      <3>1. ASSUME NEW t \in Sessions, NEW k \in Kinds
            PROVE  write'[<<k, t>>] # "idle" <=> write[<<k, t>>] # "idle"
        BY <1>1, <1>2, WriterKinds
      <3>2. QED
        BY <1>1, <3>1, WriterKinds DEF Owes
    <2>2. Owing' = Owing
      BY <2>1 DEF Owing
    <2>3. QED
      BY <1>0, <1>1, <2>2 DEF Core, Counted
  <1>7. AskedAll'
    BY <1>0, <1>1 DEF Core, AskedAll
  <1>8. inflight' \in [writer : Writers \cup {<<"none", NoOne>>}, waited : BOOLEAN]
    BY <1>1
  <1>9. QED
    BY <1>0, <1>1, <1>2, <1>4, <1>5, <1>6, <1>7, <1>8 DEF Core

(* A caller is answered: the write could not begin, it returned, or it was *)
(* given up.                                                               *)
LEMMA AnsweredKeeps ==
    ASSUME IInv, NEW w \in Writers, NEW answer \in {"ok", "error", "abandoned"},
           Answer(w, answer), UNCHANGED <<landing, stop>>,
           log' = IF answer = "ok" /\ w[2] # NoOne
                  THEN [log EXCEPT ![w[2]] = Append(@, RecordOf(w))] ELSE log,
           \/ /\ write[w] = "queued" /\ answer = "error" /\ ~ Idle /\ ~ inflight.waited
              /\ inflight' = inflight
           \/ /\ inflight.writer = w /\ inflight.waited
              /\ \/ answer = "abandoned" /\ inflight' = [writer |-> w, waited |-> FALSE]
                 \/ answer # "abandoned"
                    /\ inflight' = [writer |-> <<"none", NoOne>>, waited |-> FALSE]
    PROVE  Core'
  <1> DEFINE Left == inflight' = [writer |-> w, waited |-> FALSE]
             Freed == inflight' = [writer |-> <<"none", NoOne>>, waited |-> FALSE]
  <1>0. Core /\ \A s \in Sessions : SessionInv(s)
    BY Typing DEF IInv, Core
  <1>1. /\ write[w] \in {"queued", "flying"}
        /\ write[w] = "flying" <=> inflight.waited
        /\ inflight.waited => inflight.writer = w
    BY <1>0 DEF Core, OneWrite
  <1>2. /\ sess' \in [Sessions -> Entry] /\ pump' \in [Sessions -> Pumps]
        /\ write' \in [Writers -> Phases] /\ lost \subseteq lost' /\ lost' \subseteq Sessions
        /\ \A t \in Sessions : /\ sess'[t] \in {sess[t], End(sess[t])}
                               /\ sess[t].state # "connected" => sess'[t] = sess[t]
                               /\ w # <<"start", t>> => pump'[t] = pump[t]
        /\ write'[w] = "idle" /\ \A x \in Writers \ {w} : write'[x] = write[x]
    BY <1>1, AnswerShape
  <1>3. ASSUME NEW s \in Sessions, NEW k \in Kinds, w = <<k, s>>
        PROVE  /\ answer = "ok" => log' = [log EXCEPT ![s] = Append(log[s], RecordOf(w))]
               /\ answer # "ok" => log' = log
               /\ RecordOf(w) = IF k = "start" THEN "start" ELSE "end"
    <2>1. w[2] = s /\ w[1] = k /\ s # NoOne
      BY <1>3, ExecAssumption DEF ExecAssumption
    <2>2. QED
      BY <2>1 DEF RecordOf
  <1>4. ASSUME NEW t \in Sessions, \A k \in Kinds : w # <<k, t>>
        PROVE  SessionInv(t)'
    <2>1. log'[t] = log[t]
      <3>1. CASE w = <<"denied", NoOne>>
        BY <3>1
      <3>2. CASE \E k \in Kinds, s \in Sessions : w = <<k, s>>
        <4>1. PICK k \in Kinds, s \in Sessions : w = <<k, s>>
          BY <3>2
        <4>2. s # t
          BY <1>4, <4>1
        <4>3. QED
          BY <1>0, <1>3, <4>1, <4>2 DEF Core
      <3>3. QED
        BY <3>1, <3>2, WriterKinds
    <2>2. inflight' = inflight \/ Left \/ Freed
      OBVIOUS
    <2>3. \A k \in Kinds : <<k, t>> # <<"none", NoOne>>
      BY WriterKinds
    <2>4. \A k \in Kinds : inflight'.writer # <<k, t>> \/ inflight' = inflight
      <3>1. CASE Left
        BY <1>4, <3>1
      <3>2. CASE Freed
        BY <2>3, <3>2
      <3>3. QED
        BY <2>2, <3>1, <3>2
    <2>5. \A k \in Kinds : write'[<<k, t>>] = write[<<k, t>>]
      BY <1>2, <1>4, WriterKinds
    <2>6. sess'[t] \in {sess[t], End(sess[t])} /\ pump'[t] = pump[t]
      BY <1>2, <1>4, WriterKinds
    <2>7. QED
      BY <1>2, <2>1, <2>4, <2>5, <2>6, EndedMany
  <1>5. ASSUME NEW s \in Sessions, w = <<"start", s>>
        PROVE  SessionInv(s)'
    <2>1. /\ pump[s] = "recording" /\ log[s] = Nothing /\ landing[s] = "none"
          /\ sess[s].state = "pending" /\ sess'[s] = sess[s] /\ Placed(s)
          /\ write[<<"end", s>>] = "idle" /\ write[<<"late", s>>] = "idle"
      <3>1. pump[s] = "recording" /\ SessionInv(s)
        <4>1. write[<<"start", s>>] # "idle"
          BY <1>1, <1>5
        <4>2. QED
          BY <1>0, <4>1 DEF SessionInv, Written
      <3>2. log[s] = Nothing /\ landing[s] = "none"
        BY <1>0, <3>1 DEF SessionInv, Logged, Landings, Late, Over, Core
      <3>3. Placed(s) /\ sess[s].state = "pending"
        BY <3>1 DEF SessionInv, Placed, PlacedAs, Stages
      <3>4. write[<<"end", s>>] = "idle" /\ write[<<"late", s>>] = "idle"
        BY <3>1 DEF SessionInv, Written, Over
      <3>5. sess'[s] = sess[s]
        BY <1>2, <3>3
      <3>6. QED
        BY <3>1, <3>2, <3>3, <3>4, <3>5
    <2>2. /\ write'[<<"start", s>>] = "idle"
          /\ write'[<<"end", s>>] = "idle" /\ write'[<<"late", s>>] = "idle"
      <3>1. w # <<"end", s>> /\ w # <<"late", s>>
        BY <1>5
      <3>2. QED
        BY <1>2, <1>5, <2>1, <3>1, WriterKinds
    <2>3. pump'[s] = CASE answer = "ok" -> "recorded" [] answer = "error" -> "unrecorded"
                       [] answer = "abandoned" -> "abandoned"
      BY <1>1, <1>5, AnswerShape
    <2>4. log'[s] = IF answer = "ok" THEN Started ELSE Nothing
      BY <1>0, <1>3, <1>5, <2>1, LogsDiffer, WriterKinds DEF Core
    <2>5. inflight.writer = <<"start", s>> => inflight.waited
      BY <1>0, <2>1 DEF SessionInv, Held
    <2>6. inflight.writer # <<"end", s>> /\ inflight.writer # <<"late", s>>
      BY <1>0, <2>1 DEF SessionInv, Held, Over
    <2>7. Held(s)'
      <3>1. CASE inflight' = inflight /\ ~ inflight.waited
        BY <2>5, <2>6, <3>1 DEF Held
      <3>2. CASE Freed
        BY <3>2 DEF Held
      <3>3. CASE Left /\ answer = "abandoned"
        <4>1. inflight'.writer = w /\ w # <<"end", s>> /\ w # <<"late", s>>
          BY <1>5, <3>3
        <4>2. pump'[s] = "abandoned" /\ log'[s] = Nothing /\ landing'[s] = "none"
          BY <2>1, <2>3, <2>4, <3>3
        <4>3. QED
          BY <4>1, <4>2 DEF Held
      <3>4. QED
        BY <3>1, <3>2, <3>3
    <2>8. Placed(s)'
      BY <2>1, <2>3 DEF Placed, PlacedAs, Stages
    <2>9. Written(s)' /\ Landings(s)'
      BY <2>1, <2>2, <2>3 DEF Written, Landings
    <2>10. Logged(s)'
      BY <2>3, <2>4, LogsDiffer DEF Logged, EndOwed
    <2>11. QED
      BY <2>7, <2>8, <2>9, <2>10 DEF SessionInv
  <1>6. ASSUME NEW s \in Sessions, NEW k \in {"end", "late"}, w = <<k, s>>
        PROVE  SessionInv(s)'
    <2>1. /\ pump[s] \in Over /\ log[s] = Started /\ Placed(s) /\ landing[s] # "error"
          /\ sess[s].state # "connected" /\ sess'[s] = sess[s] /\ pump'[s] = pump[s]
          /\ write[<<"start", s>>] = "idle"
          /\ \A j \in {"end", "late"} : j # k => write[<<j, s>>] = "idle"
      <3>1. pump[s] \in Over /\ log[s] = Started
        BY <1>0, <1>1, <1>6 DEF SessionInv, Written
      <3>2. Placed(s) /\ sess[s].state # "connected"
        BY <1>0, <3>1 DEF SessionInv, Placed, PlacedAs, Over
      <3>3. landing[s] # "error"
        BY <1>0, <3>1, LogsDiffer DEF SessionInv, Landings
      <3>4. sess'[s] = sess[s] /\ pump'[s] = pump[s]
        <4>1. w # <<"start", s>>
          BY <1>6
        <4>2. QED
          BY <1>2, <3>2, <4>1
      <3>5. write[<<"start", s>>] = "idle"
        BY <1>0, <3>1 DEF SessionInv, Written, Over
      <3>6. \A j \in {"end", "late"} : j # k => write[<<j, s>>] = "idle"
        BY ZenonT(30), <1>0, <1>1, <1>6 DEF SessionInv, Written
      <3>7. QED
        BY <3>1, <3>2, <3>3, <3>4, <3>5, <3>6
    <2>2. /\ write'[<<"start", s>>] = "idle"
          /\ write'[<<"end", s>>] = "idle" /\ write'[<<"late", s>>] = "idle"
      <3>1. ASSUME NEW j \in Kinds PROVE write'[<<j, s>>] = "idle"
        <4>1. CASE j = k
          BY <1>2, <1>6, <4>1
        <4>2. CASE j # k
          <5>1. <<j, s>> # w
            BY <1>6, <4>2
          <5>2. write[<<j, s>>] = "idle"
            BY <2>1, <4>2, WriterKinds
          <5>3. QED
            BY <1>2, <5>1, <5>2, WriterKinds
        <4>3. QED
          BY <4>1, <4>2
      <3>2. QED
        BY <3>1, WriterKinds
    <2>3. answer # "ok" => s \in lost'
      BY <1>1, <1>6, AnswerShape
    <2>4. log'[s] = IF answer = "ok" THEN Closed ELSE Started
      BY <1>0, <1>3, <1>6, <2>1, LogsDiffer, WriterKinds DEF Core
    <2>5. Held(s)'
      <3>1. CASE inflight' = inflight /\ ~ inflight.waited /\ answer = "error"
        <4>1. log'[s] = log[s] /\ pump'[s] = pump[s] /\ landing' = landing
          BY <2>1, <2>4, <3>1
        <4>2. inflight.writer # <<"start", s>>
          BY <1>0, <2>1, LogsDiffer DEF SessionInv, Held
        <4>3. QED
          BY <1>0, <2>1, <2>2, <3>1, <4>1, <4>2 DEF SessionInv, Held
      <3>2. CASE Freed
        BY <3>2 DEF Held
      <3>3. CASE Left /\ answer = "abandoned"
        <4>1. inflight'.writer = w /\ w # <<"start", s>>
          BY <1>6, <3>3
        <4>2. log'[s] = Started /\ pump'[s] \in Over
          BY <2>1, <2>4, <3>3
        <4>3. QED
          BY <2>2, <4>1, <4>2 DEF Held
      <3>4. QED
        BY <3>1, <3>2, <3>3
    <2>6. Placed(s)'
      BY <2>1 DEF Placed
    <2>7. Written(s)'
      BY <2>1, <2>2 DEF Written, Over
    <2>8. Landings(s)'
      BY <2>1, <2>2 DEF Landings, Over, Late
    <2>9. Logged(s)'
      BY <2>1, <2>3, <2>4, LogsDiffer DEF Logged, EndOwed, Over
    <2>10. QED
      BY <2>5, <2>6, <2>7, <2>8, <2>9 DEF SessionInv
  <1>7. \A t \in Sessions : SessionInv(t)'
    <2>1. ASSUME NEW t \in Sessions PROVE SessionInv(t)'
      <3>1. CASE \A k \in Kinds : w # <<k, t>>
        BY <1>4, <3>1
      <3>2. CASE w = <<"start", t>>
        BY <1>5, <3>2
      <3>3. CASE w = <<"end", t>> \/ w = <<"late", t>>
        BY <1>6, <3>3
      <3>4. QED
        BY <3>1, <3>2, <3>3, WriterKinds
    <2>2. QED
      BY <2>1
  <1>8. OneWrite'
    <2>1. \A x \in Writers : write'[x] = "flying" => x # w /\ write[x] = "flying"
      BY <1>2
    <2>2. \A x \in Writers : write'[x] # "flying"
      <3>1. \A x \in Writers : write[x] = "flying" => inflight.writer = x /\ inflight.waited
        BY <1>0 DEF Core, OneWrite
      <3>2. QED
        BY <1>1, <2>1, <3>1
    <2>3. ~ inflight'.waited
      OBVIOUS
    <2>4. write'[<<"denied", NoOne>>] \in {"idle", "queued", "flying"}
      BY <1>0, <1>2, WriterKinds DEF Core, OneWrite
    <2>5. QED
      BY <2>2, <2>3, <2>4 DEF OneWrite
  <1>9. Counted'
    <2>0. \A x \in Writers \ {w} : write'[x] = write[x]
      BY <1>2
    <2>1. CASE w = <<"denied", NoOne>>
      <3>1. endWrites' = endWrites
        BY <1>1, <2>1, AnswerShape
      <3>2. ASSUME NEW t \in Sessions PROVE Owes(t)' <=> Owes(t)
        <4>1. \A k \in Kinds : write'[<<k, t>>] = write[<<k, t>>] /\ w # <<k, t>>
          BY <2>0, <2>1, WriterKinds
        <4>2. pump'[t] = pump[t]
          BY <1>2, <4>1, WriterKinds
        <4>3. QED
          BY <4>1, <4>2, WriterKinds DEF Owes
      <3>3. Owing' = Owing
        BY <3>2 DEF Owing
      <3>4. QED
        BY <1>0, <3>1, <3>3 DEF Core, Counted
    <2>2. CASE \E k \in Kinds, s \in Sessions : w = <<k, s>>
      <3>1. PICK k \in Kinds, s \in Sessions : w = <<k, s>>
        BY <2>2
      <3>2. ASSUME NEW t \in Sessions \ {s} PROVE Owes(t)' <=> Owes(t)
        <4>1. \A j \in Kinds : write'[<<j, t>>] = write[<<j, t>>] /\ w # <<j, t>>
          BY <2>0, <3>1, WriterKinds
        <4>2. pump'[t] = pump[t]
          BY <1>2, <4>1, WriterKinds
        <4>3. QED
          BY <4>1, <4>2, WriterKinds DEF Owes
      <3>3. CASE k = "start"
        <4>1. endWrites' = endWrites /\ pump[s] = "recording" /\ pump'[s] # "counted"
          <5>1. w = <<"start", s>> /\ write[<<"start", s>>] # "idle"
            BY <1>1, <3>1, <3>3
          <5>2. pump[s] = "recording"
            BY <1>0, <5>1 DEF SessionInv, Written
          <5>3. /\ endWrites' = endWrites
                /\ pump'[s] = CASE answer = "ok" -> "recorded" [] answer = "error" -> "unrecorded"
                                 [] answer = "abandoned" -> "abandoned"
            BY <1>1, <5>1, AnswerShape
          <5>4. QED
            BY <5>2, <5>3
        <4>2. /\ write'[<<"end", s>>] = write[<<"end", s>>]
              /\ write'[<<"late", s>>] = write[<<"late", s>>]
          <5>1. w # <<"end", s>> /\ w # <<"late", s>>
            BY <3>1, <3>3
          <5>2. QED
            BY <2>0, <5>1, WriterKinds
        <4>3. Tally(s)
          BY <4>1, <4>2 DEF Tally, Owes
        <4>4. QED
          BY <3>2, <4>3, OwingTallied
      <3>4. CASE k \in {"end", "late"}
        <4>1. endWrites' = endWrites - 1 /\ Owes(s)
          BY <1>1, <3>1, <3>4, AnswerShape DEF Owes
        <4>2. SessionInv(s) /\ pump[s] \in Over /\ w # <<"start", s>>
          BY <1>0, <1>1, <3>1, <3>4 DEF SessionInv, Written
        <4>3. pump'[s] # "counted"
          BY <1>2, <4>2 DEF Over
        <4>4. \A j \in {"end", "late"} : write'[<<j, s>>] = "idle"
          <5>1. \A j \in {"end", "late"} : j # k => write[<<j, s>>] = "idle"
            BY <1>1, <3>1, <3>4, <4>2 DEF SessionInv, Written
          <5>2. ASSUME NEW j \in {"end", "late"} PROVE write'[<<j, s>>] = "idle"
            <6>1. CASE j = k
              BY <1>2, <3>1, <6>1
            <6>2. CASE j # k
              BY <2>0, <3>1, <5>1, <6>2, WriterKinds
            <6>3. QED
              BY <6>1, <6>2
          <5>3. QED
            BY <5>2
        <4>5. Tally(s)
          BY <4>1, <4>3, <4>4 DEF Tally, Owes
        <4>6. QED
          BY <3>2, <4>5, OwingTallied
      <3>5. QED
        BY <3>3, <3>4, WriterKinds
    <2>3. QED
      BY <2>1, <2>2, WriterKinds
  <1>10. AskedAll'
    <2>1. \A t \in Sessions : Onward(sess[t], sess'[t])
      <3>1. ASSUME NEW t \in Sessions PROVE Onward(sess[t], sess'[t])
        <4>1. sess[t] \in Entry /\ sess'[t] \in {sess[t], End(sess[t])}
          BY <1>0, <1>2 DEF Core
        <4>2. QED
          BY <4>1, EndShape DEF Onward, Live
      <3>2. QED
        BY <3>1
    <2>2. QED
      BY <1>0, <2>1, Typing DEF Core, AskedAll, Onward, IInv
  <1>11. /\ log' \in [Sessions -> {Nothing, Started, Closed}]
         /\ inflight' \in [writer : Writers \cup {<<"none", NoOne>>}, waited : BOOLEAN]
    <2>1. inflight' \in [writer : Writers \cup {<<"none", NoOne>>}, waited : BOOLEAN]
      <3>1. CASE inflight' = inflight
        <4>1. inflight \in [writer : Writers \cup {<<"none", NoOne>>}, waited : BOOLEAN]
          BY <1>0 DEF Core
        <4>2. QED
          BY <3>1, <4>1
      <3>2. CASE Left
        BY <3>2
      <3>3. CASE Freed
        BY <3>3
      <3>4. QED
        BY <3>1, <3>2, <3>3
    <2>2. CASE log' = log
      BY <1>0, <2>1, <2>2 DEF Core
    <2>3. CASE log' # log
      <3>1. PICK k \in Kinds, s \in Sessions : w = <<k, s>>
        BY <2>3, WriterKinds
      <3>2. log' = [log EXCEPT ![s] = Append(log[s], RecordOf(w))]
        BY <1>3, <2>3, <3>1
      <3>3. \A t \in Sessions \ {s} : log'[t] = log[t]
        BY <1>0, <3>2 DEF Core
      <3>4. log'[s] \in {Nothing, Started, Closed}
        BY <1>7 DEF SessionInv, Logged
      <3>5. QED
        BY <1>0, <2>1, <3>2, <3>3, <3>4 DEF Core
    <2>4. QED
      BY <2>2, <2>3
  <1>12. QED
    BY <1>0, <1>2, <1>7, <1>8, <1>9, <1>10, <1>11 DEF Core

(* The write goes on after its caller was answered: its record lands, or   *)
(* fails, with nobody waiting but the goroutine abortLate left behind.     *)
LEMMA LandsKeeps ==
    ASSUME IInv, NEW w \in Writers, NEW ok \in BOOLEAN,
           inflight.writer = w, ~ inflight.waited,
           log' = IF ok /\ w[2] # NoOne
                  THEN [log EXCEPT ![w[2]] = Append(@, RecordOf(w))] ELSE log,
           landing' = IF w[1] = "start"
                      THEN [landing EXCEPT ![w[2]] = IF ok THEN "ok" ELSE "error"]
                      ELSE landing,
           inflight' = [writer |-> <<"none", NoOne>>, waited |-> FALSE],
           UNCHANGED <<sess, pump, write, lost, endWrites, stop>>
    PROVE  Core'
  <1>0. Core /\ \A s \in Sessions : SessionInv(s)
    BY Typing DEF IInv, Core
  <1>1. inflight'.writer = <<"none", NoOne>> /\ ~ inflight'.waited
    OBVIOUS
  <1>2. ASSUME NEW s \in Sessions, NEW k \in Kinds, w = <<k, s>>
        PROVE  /\ ok => log' = [log EXCEPT ![s] = Append(log[s], RecordOf(w))]
               /\ ~ ok => log' = log
               /\ k # "start" => landing' = landing
               /\ k = "start" => landing' = [landing EXCEPT ![s] = IF ok THEN "ok" ELSE "error"]
               /\ RecordOf(w) = IF k = "start" THEN "start" ELSE "end"
    <2>1. w[2] = s /\ w[1] = k /\ s # NoOne
      BY <1>2, ExecAssumption DEF ExecAssumption
    <2>2. QED
      BY <2>1 DEF RecordOf
  <1>3. ASSUME NEW t \in Sessions, \A k \in Kinds : w # <<k, t>>
        PROVE  SessionInv(t)'
    <2>1. log'[t] = log[t] /\ landing'[t] = landing[t]
      <3>1. CASE w = <<"denied", NoOne>>
        BY <3>1
      <3>2. CASE \E k \in Kinds, s \in Sessions : w = <<k, s>>
        <4>1. PICK k \in Kinds, s \in Sessions : w = <<k, s>>
          BY <3>2
        <4>2. s # t
          BY <1>3, <4>1
        <4>3. log'[t] = log[t]
          BY <1>0, <1>2, <4>1, <4>2 DEF Core
        <4>4. landing'[t] = landing[t]
          <5>1. CASE k = "start"
            <6>1. landing' = [landing EXCEPT ![s] = IF ok THEN "ok" ELSE "error"]
              BY <1>2, <4>1, <5>1
            <6>2. QED
              BY <1>0, <4>2, <6>1 DEF Core
          <5>2. CASE k # "start"
            BY <1>2, <4>1, <5>2
          <5>3. QED
            BY <5>1, <5>2
        <4>5. QED
          BY <4>3, <4>4
      <3>3. QED
        BY <3>1, <3>2, WriterKinds
    <2>2. \A k \in Kinds : inflight'.writer # <<k, t>>
      BY <1>1, WriterKinds
    <2>3. QED
      BY <2>1, <2>2, EndedMany
  <1>4. ASSUME NEW s \in Sessions, w = <<"start", s>>
        PROVE  SessionInv(s)'
    <2>1. /\ log[s] = Nothing /\ Placed(s) /\ Written(s)
          /\ pump[s] \in {"abandoned", "counted"} \/ write[<<"late", s>>] = "awaiting"
      BY <1>0, <1>4 DEF SessionInv, Held
    <2>2. log'[s] = IF ok THEN Started ELSE Nothing
      <3>1. CASE ok
        <4>1. log' = [log EXCEPT ![s] = Append(log[s], "start")]
          BY <1>2, <1>4, <3>1, WriterKinds
        <4>2. QED
          BY <1>0, <2>1, <3>1, <4>1, LogsDiffer DEF Core
      <3>2. CASE ~ ok
        BY <1>2, <1>4, <2>1, <3>2, WriterKinds
      <3>3. QED
        BY <3>1, <3>2
    <2>3. landing'[s] = IF ok THEN "ok" ELSE "error"
      BY <1>0, <1>2, <1>4, WriterKinds DEF Core
    <2>4. Placed(s)'
      BY <2>1 DEF Placed
    <2>5. Written(s)'
      <3>1. write[<<"end", s>>] = "idle" /\ write[<<"late", s>>] \in {"idle", "awaiting"}
        BY <2>1, LogsDiffer DEF Written
      <3>2. QED
        BY <2>1, <3>1 DEF Written
    <2>6. Held(s)'
      BY <1>1 DEF Held
    <2>7. pump[s] \in Late
      BY <2>1 DEF Written, Late
    <2>8. Landings(s)'
      <3>1. pump'[s] \in Late
        BY <2>7
      <3>2. CASE ok
        BY <2>2, <2>3, <3>1, <3>2 DEF Landings
      <3>3. CASE ~ ok
        BY <2>2, <2>3, <3>1, <3>3 DEF Landings
      <3>4. QED
        BY <3>2, <3>3
    <2>9. Logged(s)'
      BY <2>1, <2>2, <2>7, LogsDiffer DEF Logged, EndOwed, Late, Over
    <2>10. QED
      BY <2>4, <2>5, <2>6, <2>8, <2>9 DEF SessionInv
  <1>5. ASSUME NEW s \in Sessions, NEW k \in {"end", "late"}, w = <<k, s>>
        PROVE  SessionInv(s)'
    <2>1. /\ log[s] = Started /\ pump[s] \in Over /\ Placed(s) /\ Written(s)
          /\ write[<<"end", s>>] = "idle" /\ write[<<"late", s>>] = "idle"
      BY <1>0, <1>5 DEF SessionInv, Held
    <2>2. log'[s] = IF ok THEN Closed ELSE Started
      <3>1. CASE ok
        <4>1. log' = [log EXCEPT ![s] = Append(log[s], "end")]
          BY <1>2, <1>5, <3>1, WriterKinds
        <4>2. QED
          BY <1>0, <2>1, <3>1, <4>1, LogsDiffer DEF Core
      <3>2. CASE ~ ok
        BY <1>2, <1>5, <2>1, <3>2, WriterKinds
      <3>3. QED
        BY <3>1, <3>2
    <2>3. landing' = landing /\ landing[s] # "error"
      BY <1>0, <1>2, <1>5, <2>1, LogsDiffer, WriterKinds DEF SessionInv, Landings
    <2>4. Placed(s)'
      BY <2>1 DEF Placed
    <2>5. Written(s)'
      BY <2>1 DEF Written
    <2>6. Held(s)'
      BY <1>1 DEF Held
    <2>7. Landings(s)'
      BY <2>1, <2>3 DEF Landings, Over, Late
    <2>8. Logged(s)'
      <3>1. log[s] = Started => EndOwed(s)
        BY <1>0 DEF SessionInv, Logged
      <3>2. QED
        BY <2>1, <2>2, <3>1, LogsDiffer DEF Logged, EndOwed, Over
    <2>9. QED
      BY <2>4, <2>5, <2>6, <2>7, <2>8 DEF SessionInv
  <1>6. \A t \in Sessions : SessionInv(t)'
    <2>1. ASSUME NEW t \in Sessions PROVE SessionInv(t)'
      <3>1. CASE \A k \in Kinds : w # <<k, t>>
        BY <1>3, <3>1
      <3>2. CASE w = <<"start", t>>
        BY <1>4, <3>2
      <3>3. CASE w = <<"end", t>> \/ w = <<"late", t>>
        BY <1>5, <3>3
      <3>4. QED
        BY <3>1, <3>2, <3>3, WriterKinds
    <2>2. QED
      BY <2>1
  <1>7. OneWrite'
    <2>1. \A x \in Writers : write[x] # "flying"
      BY <1>0 DEF Core, OneWrite
    <2>2. write[<<"denied", NoOne>>] \in {"idle", "queued", "flying"}
      BY <1>0 DEF Core, OneWrite
    <2>3. QED
      BY <1>1, <2>1, <2>2 DEF OneWrite
  <1>8. Counted'
    <2>1. Owing' = Owing
      BY DEF Owing, Owes
    <2>2. QED
      BY <1>0, <2>1 DEF Core, Counted
  <1>9. AskedAll'
    BY <1>0 DEF Core, AskedAll
  <1>10. /\ log' \in [Sessions -> {Nothing, Started, Closed}]
         /\ landing' \in [Sessions -> {"none", "ok", "error"}]
    <2>1. CASE w = <<"denied", NoOne>>
      <3>1. log' = log /\ landing' = landing
        BY <2>1
      <3>2. QED
        BY <1>0, <3>1 DEF Core
    <2>2. CASE w # <<"denied", NoOne>>
      <3>1. PICK k \in Kinds, s \in Sessions : w = <<k, s>>
        BY <2>2, WriterKinds
      <3>2. log'[s] \in {Nothing, Started, Closed}
        BY <1>6 DEF SessionInv, Logged
      <3>3. log' \in [Sessions -> {Nothing, Started, Closed}]
        <4>1. CASE ok
          <5>1. log' = [log EXCEPT ![s] = Append(log[s], RecordOf(w))]
            BY <1>2, <3>1, <4>1
          <5>2. \A t \in Sessions \ {s} : log'[t] = log[t]
            BY <1>0, <5>1 DEF Core
          <5>3. QED
            BY <1>0, <3>2, <5>1, <5>2 DEF Core
        <4>2. CASE ~ ok
          BY <1>0, <1>2, <3>1, <4>2 DEF Core
        <4>3. QED
          BY <4>1, <4>2
      <3>4. landing' \in [Sessions -> {"none", "ok", "error"}]
        <4>1. CASE k = "start"
          <5>1. landing' = [landing EXCEPT ![s] = IF ok THEN "ok" ELSE "error"]
            BY <1>2, <3>1, <4>1
          <5>2. (IF ok THEN "ok" ELSE "error") \in {"none", "ok", "error"}
            OBVIOUS
          <5>3. QED
            BY <1>0, <5>1, <5>2 DEF Core
        <4>2. CASE k # "start"
          BY <1>0, <1>2, <3>1, <4>2 DEF Core
        <4>3. QED
          BY <4>1, <4>2
      <3>5. QED
        BY <3>3, <3>4
    <2>3. QED
      BY <2>1, <2>2
  <1>11. inflight' \in [writer : Writers \cup {<<"none", NoOne>>}, waited : BOOLEAN]
    OBVIOUS
  <1>12. QED
    BY <1>0, <1>6, <1>7, <1>8, <1>9, <1>10, <1>11 DEF Core

LEMMA FileKeeps ==
    ASSUME IInv,
           \/ \E w \in Writers : WriteBegins(w) \/ WriteRefused(w)
           \/ \E ok \in BOOLEAN : WriteReturns(ok)
           \/ WriteAbandoned
    PROVE  Core'
  <1>0. /\ OneWrite
        /\ inflight \in [writer : Writers \cup {<<"none", NoOne>>}, waited : BOOLEAN]
    BY Typing DEF IInv
  <1>1. ~ Idle => inflight.writer \in Writers
    BY <1>0 DEF Idle
  <1>2. CASE \E w \in Writers : WriteBegins(w)
    BY <1>2, BeginsKeeps
  <1>3. ASSUME NEW w \in Writers, WriteRefused(w) PROVE Core'
    <2>1. /\ write[w] = "queued" /\ ~ Idle /\ ~ inflight.waited /\ Answer(w, "error")
          /\ UNCHANGED <<inflight, landing, log, stop>>
      BY <1>3, NeverUncounted DEF WriteRefused
    <2>2. QED
      BY <2>1, AnsweredKeeps
  <1>4. ASSUME NEW ok \in BOOLEAN, WriteReturns(ok) PROVE Core'
    <2> DEFINE w == inflight.writer
    <2>1. /\ w \in Writers /\ stop' = stop
          /\ log' = IF ok /\ w[2] # NoOne
                    THEN [log EXCEPT ![w[2]] = Append(@, RecordOf(w))] ELSE log
          /\ inflight' = [writer |-> <<"none", NoOne>>, waited |-> FALSE]
      BY <1>1, <1>4 DEF WriteReturns
    <2>2. CASE inflight.waited /\ ok
      <3>1. Answer(w, "ok") /\ landing' = landing
        BY <1>4, <2>2 DEF WriteReturns
      <3> HIDE DEF w
      <3>2. QED
        BY <2>1, <2>2, <3>1, AnsweredKeeps DEF w
    <2>3. CASE inflight.waited /\ ~ ok
      <3>1. Answer(w, "error") /\ landing' = landing
        BY <1>4, <2>3 DEF WriteReturns
      <3> HIDE DEF w
      <3>2. QED
        BY <2>1, <2>3, <3>1, AnsweredKeeps DEF w
    <2>4. CASE ~ inflight.waited
      <3>1. /\ landing' = IF w[1] = "start"
                          THEN [landing EXCEPT ![w[2]] = IF ok THEN "ok" ELSE "error"]
                          ELSE landing
            /\ UNCHANGED <<sess, pump, write, lost, endWrites>>
        BY <1>4, <2>4 DEF WriteReturns
      <3>2. QED
        BY <2>1, <2>4, <3>1, LandsKeeps
    <2>5. QED
      BY <2>2, <2>3, <2>4
  <1>5. CASE WriteAbandoned
    <2> DEFINE w == inflight.writer
    <2>1. /\ w \in Writers /\ inflight.waited /\ Answer(w, "abandoned")
          /\ inflight' = [writer |-> w, waited |-> FALSE]
          /\ UNCHANGED <<landing, log, stop>>
      BY <1>0, <1>1, <1>5 DEF WriteAbandoned
    <2> HIDE DEF w
    <2>2. QED
      BY <2>1, AnsweredKeeps DEF w
  <1>6. QED
    BY <1>2, <1>3, <1>4, <1>5

----------------------------------------------------------------------------
(* The steps of the sweep, the policy, a refusal and shutdown.             *)

LEMMA QuietKeeps ==
    ASSUME IInv, sess' \in [Sessions -> Entry],
           \A t \in Sessions : sess'[t] \in {sess[t], End(sess[t])},
           UNCHANGED <<pump, inflight, landing, log, lost, endWrites>>,
           \/ write' = write
           \/ write' = [write EXCEPT ![<<"denied", NoOne>>] = "queued"]
              /\ write[<<"denied", NoOne>>] = "idle",
           AskedAll'
    PROVE  Core'
  <1>0. Core
    BY Typing DEF IInv, Core
  <1>1. /\ write' \in [Writers -> Phases]
        /\ \A w \in Writers : write'[w] = "flying" <=> write[w] = "flying"
        /\ write'[<<"denied", NoOne>>] \in {"idle", "queued", "flying"}
        /\ \A k \in Kinds, t \in Sessions : write'[<<k, t>>] = write[<<k, t>>]
    <2>1. CASE write' = write
      BY <1>0, <2>1 DEF Core, OneWrite
    <2>2. CASE write' = [write EXCEPT ![<<"denied", NoOne>>] = "queued"]
               /\ write[<<"denied", NoOne>>] = "idle"
      <3>1. write' \in [Writers -> Phases] /\ write'[<<"denied", NoOne>>] = "queued"
            /\ \A w \in Writers \ {<<"denied", NoOne>>} : write'[w] = write[w]
        BY <1>0, <2>2, WriterKinds DEF Core, Phases
      <3>2. \A k \in Kinds, t \in Sessions : <<k, t>> # <<"denied", NoOne>>
        BY WriterKinds DEF Kinds
      <3>3. QED
        BY <2>2, <3>1, <3>2, WriterKinds
    <2>3. QED
      BY <2>1, <2>2
  <1>2. \A t \in Sessions : SessionInv(t)'
    <2>1. ASSUME NEW t \in Sessions PROVE SessionInv(t)'
      BY <1>1, EndedMany
    <2>2. QED
      BY <2>1
  <1>3. OneWrite'
    <2>1. inflight.waited => inflight.writer \in Writers
      <3>1. inflight.writer = <<"none", NoOne>> => ~ inflight.waited
        BY <1>0 DEF Core, OneWrite, Idle
      <3>2. QED
        BY <1>0, <3>1 DEF Core
    <2>2. QED
      BY <1>0, <1>1, <2>1 DEF Core, OneWrite, Idle
  <1>4. Counted'
    <2>1. \A t \in Sessions : Owes(t)' <=> Owes(t)
      BY <1>1, WriterKinds DEF Owes
    <2>2. Owing' = Owing
      BY <2>1 DEF Owing
    <2>3. QED
      BY <1>0, <2>2 DEF Core, Counted
  <1>5. QED
    BY <1>0, <1>1, <1>2, <1>3, <1>4 DEF Core

LEMMA ManagerKeeps ==
    ASSUME IInv, ~ Exited,
           Refuse \/ Reload \/ Sweep \/ ShutdownBegins \/ ShutdownReturns
    PROVE  Core'
  <1>0. sess \in [Sessions -> Entry] /\ AskedAll
    BY Typing DEF IInv
  <1>1. CASE Refuse \/ Reload \/ SweepScan
    <2>1. UNCHANGED <<sess, pump, inflight, landing, log, lost, endWrites, stop>>
      BY <1>1 DEF Refuse, Reload, SweepScan, fileVars
    <2>2. \/ write' = write
          \/ write' = [write EXCEPT ![<<"denied", NoOne>>] = "queued"]
             /\ write[<<"denied", NoOne>>] = "idle"
      BY <1>1 DEF Refuse, Reload, SweepScan, fileVars
    <2>3. AskedAll'
      BY <1>0, <2>1 DEF AskedAll
    <2>4. sess' \in [Sessions -> Entry] /\ \A t \in Sessions : sess'[t] \in {sess[t], End(sess[t])}
      BY <1>0, <2>1
    <2>5. QED
      BY <2>1, <2>2, <2>3, <2>4, QuietKeeps
  <1>2. ASSUME NEW s \in Sessions, SweepCheck(s) PROVE Core'
    <2>1. UNCHANGED <<pump, write, endWrites, inflight, landing, log, lost, stop>>
      BY <1>2 DEF SweepCheck, fileVars
    <2>2. CASE sess' = [sess EXCEPT ![s] = End(sess[s])]
      BY <2>1, <2>2, AskedAlone, LocalKeeps
    <2>3. CASE sess' = sess
      <3>1. AskedAll'
        BY <1>0, <2>1, <2>3 DEF AskedAll
      <3>2. \A t \in Sessions : sess'[t] \in {sess[t], End(sess[t])}
        BY <2>3
      <3>3. QED
        BY <1>0, <2>1, <2>3, <3>1, <3>2, QuietKeeps
    <2>4. QED
      BY <1>2, <2>2, <2>3 DEF SweepCheck
  <1>3. CASE ShutdownBegins
    <2> DEFINE known == {s \in Sessions : sess[s].state \in {"pending", "connected", "ended"}}
    <2>1. /\ stop' = [stop EXCEPT !.phase = "ending", !.listed = known]
          /\ sess' = [s \in Sessions |-> IF s \in known THEN End(sess[s]) ELSE sess[s]]
          /\ UNCHANGED <<pump, write, inflight, landing, log, lost, endWrites>>
      BY <1>3 DEF ShutdownBegins, fileVars
    <2>2. \A t \in Sessions : End(sess[t]) \in Entry
      BY <1>0, EndShape
    <2>3. sess' \in [Sessions -> Entry] /\ \A t \in Sessions : sess'[t] \in {sess[t], End(sess[t])}
      BY <1>0, <2>1, <2>2
    <2>4. stop'.listed = known
      BY <2>1, Typing DEF IInv
    <2>5. ASSUME NEW t \in known
          PROVE  /\ sess'[t].state \notin {"free", "decided"}
                 /\ Live(sess'[t]) => sess'[t].reason # ""
      <3>1. sess'[t] = End(sess[t]) /\ sess[t] \in Entry
        BY <1>0, <2>1
      <3>2. QED
        BY <3>1, EndShape DEF Live
    <2>6. AskedAll'
      BY <2>4, <2>5 DEF AskedAll
    <2>7. QED
      BY <2>1, <2>3, <2>6, QuietKeeps
  <1>4. CASE ShutdownReturns
    <2>1. /\ stop.phase = "ending" /\ stop'.listed = stop.listed
          /\ UNCHANGED <<sess, pump, write, inflight, landing, log, lost, endWrites>>
      BY <1>4, Typing DEF IInv, ShutdownReturns, fileVars
    <2>2. AskedAll'
      BY <1>0, <2>1 DEF AskedAll
    <2>3. \A t \in Sessions : sess'[t] \in {sess[t], End(sess[t])}
      BY <2>1
    <2>4. QED
      BY <1>0, <2>1, <2>2, <2>3, QuietKeeps
  <1>5. QED
    BY <1>1, <1>2, <1>3, <1>4 DEF Sweep

(* When Shutdown finds nothing left to settle, nothing is: a session on    *)
(* its list that is still live would be attached, and settling, or have    *)
(* somebody to finish it, whom Shutdown waits for; and a record still owed *)
(* is counted.                                                             *)
LEMMA NothingLeft ==
    ASSUME IInv, stop.phase = "ending", \A s \in stop.listed : ~ sess[s].finishing,
           ~ settling, NEW s \in stop.listed
    PROVE  ~ Live(sess[s]) /\ (log[s] = Started => s \in lost)
  <1>0. s \in Sessions /\ SessionInv(s) /\ AskedAll
    BY Typing DEF IInv
  <1>1. ~ Live(sess[s])
    <2>1. SUFFICES ASSUME Live(sess[s]) PROVE FALSE
      OBVIOUS
    <2>2. ~ sess[s].attached
      BY <1>0, <2>1 DEF settling
    <2>3. sess[s].reason # "" /\ sess[s].state = "pending"
      BY <1>0, <2>1, <2>2 DEF AskedAll, Live, SessionInv, Placed, PlacedAs
    <2>4. QED
      BY <1>0, <2>2, <2>3 DEF SessionInv, Placed, PlacedAs
  <1>2. ~ Owes(s)
    <2>1. SUFFICES ASSUME Owes(s) PROVE FALSE
      OBVIOUS
    <2>2. s \in Owing /\ IsFiniteSet(Owing)
      <3>1. Owing \subseteq Sessions /\ IsFiniteSet(Sessions)
        BY Typing DEF Owing, IInv
      <3>2. QED
        BY <1>0, <2>1, <3>1, FS_Subset DEF Owing
    <2>3. Cardinality(Owing) \in Nat /\ Cardinality(Owing) # 0
      BY <2>2, FS_EmptySet, FS_CardinalityType
    <2>4. endWrites > 0
      BY <2>3 DEF IInv, Counted
    <2>5. QED
      BY <2>4 DEF settling
  <1>3. ASSUME log[s] = Started PROVE s \in lost
    <2>1. EndOwed(s)
      BY <1>0, <1>3 DEF SessionInv, Logged
    <2>2. pump[s] \notin {"recorded", "serving", "abandoned", "counted"}
      BY <1>0, <1>1 DEF SessionInv, Placed, PlacedAs, Stages, Live
    <2>3. QED
      BY <1>2, <2>1, <2>2 DEF EndOwed, Owes
  <1>4. QED
    BY <1>1, <1>3

----------------------------------------------------------------------------
(* The invariant.                                                          *)

Shells == {"none", "starting", "running", "exited", "closed", "left"}

(* The type of what Core leaves out. *)
Rest ==
  /\ shell \in [Sessions -> Shells]
  /\ policy \in [generation : 0..MaxReloads, swept : 0..MaxReloads, granted : BOOLEAN]
  /\ sweep \subseteq Sessions
  /\ stop \in [phase : {"up", "ending", "clean", "expired"}, listed : SUBSET Sessions]
  /\ faults \in 0..MaxFaults
  /\ refusals \in 0..MaxRefusals

LEMMA ShellStays ==
    ASSUME IInv, Next
    PROVE  shell' \in [Sessions -> Shells]
  <1>0. shell \in [Sessions -> Shells]
    BY DEF IInv, TypeOK, Shells
  <1>1. CASE shell' = shell
    BY <1>0, <1>1
  <1>2. ASSUME NEW s \in Sessions,
               Attach(s) \/ Opened(s) \/ ShellExits(s) \/
                 \E outcome \in Outcomes : CloseStream(s, outcome)
        PROVE  shell' \in [Sessions -> Shells]
    <2>1. CASE Attach(s)
      BY <1>0, <2>1 DEF Attach, Shells
    <2>2. CASE Opened(s)
      BY <1>0, <2>2 DEF Opened, Shells
    <2>3. CASE ShellExits(s)
      BY <1>0, <2>3 DEF ShellExits, Shells
    <2>4. ASSUME NEW outcome \in Outcomes, CloseStream(s, outcome)
          PROVE  shell' \in [Sessions -> Shells]
      BY <1>0, <2>4 DEF CloseStream, Shells
    <2>5. QED
      BY <1>2, <2>1, <2>2, <2>3, <2>4
  <1>3. CASE Exited /\ UNCHANGED vars
    BY <1>1, <1>3 DEF vars
  <1>4. CASE Refuse \/ WriteAbandoned \/ Reload \/ Sweep \/ ShutdownBegins \/ ShutdownReturns
             \/ (\E ok \in BOOLEAN : WriteReturns(ok))
             \/ (\E w \in Writers : WriteBegins(w) \/ WriteRefused(w))
    BY <1>1, <1>4 DEF Refuse, WriteAbandoned, Reload, Sweep, SweepScan, SweepCheck, ShutdownBegins,
       ShutdownReturns, WriteReturns, WriteBegins, WriteRefused
  <1>5. ASSUME NEW s \in Sessions,
               Decide(s) \/ Create(s) \/ Delete(s) \/ FinishUnattached(s) \/ Landed(s)
                 \/ Disconnect(s) \/ Expire(s)
        PROVE  shell' = shell
    BY <1>5 DEF Decide, Create, Delete, FinishUnattached, Landed, Disconnect, Expire
  <1>6. ASSUME NEW s \in Sessions,
               GiveUp(s) \/ Connect(s) \/ Recorded(s) \/ Unrecorded(s) \/ CountLate(s) \/ AbortLate(s)
        PROVE  shell' = shell
    BY <1>6 DEF GiveUp, Connect, Recorded, Unrecorded, CountLate, AbortLate
  <1>7. ASSUME NEW s \in Sessions, CloseLate(s) \/ Discard(s) \/ PumpEnds(s)
        PROVE  \E outcome \in Outcomes : CloseStream(s, outcome)
    BY <1>7 DEF CloseLate, Discard, PumpEnds
  <1>8. QED
    BY <1>1, <1>2, <1>3, <1>4, <1>5, <1>6, <1>7 DEF Next, Pump

LEMMA RestStays ==
    ASSUME IInv, Next
    PROVE  Rest'
  <1>0. Rest
    BY DEF IInv, TypeOK, Rest, Shells
  <1>1. shell' \in [Sessions -> Shells]
    BY ShellStays
  <1>2. CASE UNCHANGED <<policy, sweep, stop, faults, refusals>>
    BY <1>0, <1>1, <1>2 DEF Rest
  <1>3. CASE Exited /\ UNCHANGED vars
    BY <1>2, <1>3 DEF vars
  <1>4. ASSUME NEW s \in Sessions,
               Decide(s) \/ Create(s) \/ Attach(s) \/ Delete(s) \/ FinishUnattached(s)
                 \/ Opened(s) \/ CloseLate(s) \/ Landed(s) \/ ShellExits(s)
                 \/ Disconnect(s) \/ Expire(s)
        PROVE  UNCHANGED <<policy, sweep, stop, faults, refusals>>
    BY <1>4 DEF Decide, Create, Attach, Delete, FinishUnattached, Opened, CloseLate, Landed,
       ShellExits, Disconnect, Expire, fileVars
  <1>5. ASSUME NEW s \in Sessions, Pump(s)
        PROVE  UNCHANGED <<policy, sweep, stop, faults, refusals>>
    BY <1>5 DEF Pump, GiveUp, Connect, Recorded, Unrecorded, CountLate, AbortLate, Discard,
       PumpEnds, fileVars
  <1>6. ASSUME NEW w \in Writers, WriteBegins(w) \/ WriteRefused(w)
        PROVE  UNCHANGED <<policy, sweep, stop, faults, refusals>>
    BY <1>6 DEF WriteBegins, WriteRefused
  <1>7. CASE WriteAbandoned \/ \E ok \in BOOLEAN : WriteReturns(ok)
    <2>1. UNCHANGED <<policy, sweep, stop, refusals>>
      BY <1>7 DEF WriteAbandoned, WriteReturns
    <2>2. faults' = faults \/ (faults < MaxFaults /\ faults' = faults + 1)
      BY <1>7 DEF WriteAbandoned, WriteReturns
    <2>3. faults' \in 0..MaxFaults
      BY <1>0, <2>2, ExecAssumption DEF Rest, ExecAssumption
    <2>4. QED
      BY <1>0, <1>1, <2>1, <2>3 DEF Rest
  <1>8. CASE Refuse
    <2>1. UNCHANGED <<policy, sweep, stop, faults>> /\ refusals < MaxRefusals
          /\ refusals' = refusals + 1
      BY <1>8 DEF Refuse
    <2>2. refusals' \in 0..MaxRefusals
      BY <1>0, <2>1, ExecAssumption DEF Rest, ExecAssumption
    <2>3. QED
      BY <1>0, <1>1, <2>1, <2>2 DEF Rest
  <1>9. CASE Reload
    <2> DEFINE a == [policy EXCEPT !.generation = policy.generation + 1]
               b == [a EXCEPT !.granted = ~ policy.granted]
    <2>1. UNCHANGED <<sweep, stop, faults, refusals>> /\ policy.generation < MaxReloads
          /\ policy' = b
      BY <1>9 DEF Reload, fileVars
    <2>2. policy.generation + 1 \in 0..MaxReloads
      BY <1>0, <2>1, ExecAssumption DEF Rest, ExecAssumption
    <2>3. a \in [generation : 0..MaxReloads, swept : 0..MaxReloads, granted : BOOLEAN]
      BY <1>0, <2>2 DEF Rest
    <2>4. b \in [generation : 0..MaxReloads, swept : 0..MaxReloads, granted : BOOLEAN]
      BY <1>0, <2>3 DEF Rest
    <2> HIDE DEF b
    <2>5. QED
      BY <1>0, <1>1, <2>1, <2>4 DEF Rest
  <1>10. CASE Sweep
    <2>1. UNCHANGED <<stop, faults, refusals>> /\ sweep' \subseteq Sessions
          /\ (policy' = policy \/ policy' = [policy EXCEPT !.swept = policy.generation])
      BY <1>0, <1>10 DEF Sweep, SweepScan, SweepCheck, fileVars, Rest
    <2>2. policy' \in [generation : 0..MaxReloads, swept : 0..MaxReloads, granted : BOOLEAN]
      BY <1>0, <2>1 DEF Rest
    <2>3. QED
      BY <1>0, <1>1, <2>1, <2>2 DEF Rest
  <1>11. CASE ShutdownBegins \/ ShutdownReturns
    <2>1. UNCHANGED <<policy, sweep, faults, refusals>>
      BY <1>11 DEF ShutdownBegins, ShutdownReturns, fileVars
    <2>2. PICK p \in {"ending", "clean", "expired"}, l \in SUBSET Sessions :
             stop' = [phase |-> p, listed |-> l]
      <3>1. stop.listed \in SUBSET Sessions /\ stop = [phase |-> stop.phase, listed |-> stop.listed]
        BY <1>0 DEF Rest
      <3>2. CASE ShutdownBegins
        <4>1. stop' = [phase |-> "ending", listed |-> {s \in Sessions :
                          sess[s].state \in {"pending", "connected", "ended"}}]
          BY <3>1, <3>2 DEF ShutdownBegins
        <4>2. QED
          BY <4>1
      <3>3. CASE ShutdownReturns
        <4>1. \/ stop' = [phase |-> "clean", listed |-> stop.listed]
              \/ stop' = [phase |-> "expired", listed |-> stop.listed]
          BY <3>1, <3>3 DEF ShutdownReturns
        <4>2. QED
          BY <3>1, <4>1
      <3>4. QED
        BY <1>11, <3>2, <3>3
    <2>3. QED
      BY <1>0, <1>1, <2>1, <2>2 DEF Rest
  <1>12. QED
    BY <1>2, <1>3, <1>4, <1>5, <1>6, <1>7, <1>8, <1>9, <1>10, <1>11 DEF Next

LEMMA CleanStays ==
    ASSUME IInv, Next, ~ Exited
    PROVE  CleanShutdown'
  <1>0. stop.phase # "clean"
    BY DEF Exited
  <1>1. CASE stop'.phase = stop.phase
    BY <1>0, <1>1 DEF CleanShutdown
  <1>2. CASE ShutdownBegins
    <2>1. stop'.phase = "ending"
      BY <1>2, Typing DEF ShutdownBegins, IInv
    <2>2. QED
      BY <2>1 DEF CleanShutdown
  <1>3. CASE ShutdownReturns
    <2>1. /\ stop.phase = "ending" /\ \A s \in stop.listed : ~ sess[s].finishing
          /\ UNCHANGED <<sess, log, lost>> /\ stop'.listed = stop.listed
          /\ settling => stop'.phase = "expired"
      BY <1>3, Typing DEF ShutdownReturns, fileVars, IInv
    <2>2. ASSUME stop'.phase = "clean", NEW s \in stop'.listed
          PROVE  ~ Live(sess'[s]) /\ (log'[s] = <<"start">> => s \in lost')
      <3>1. ~ settling
        BY <2>1, <2>2
      <3>2. ~ Live(sess[s]) /\ (log[s] = Started => s \in lost)
        BY <2>1, <2>2, <3>1, NothingLeft
      <3>3. QED
        BY <2>1, <3>2 DEF Started
    <2>3. QED
      BY <2>2 DEF CleanShutdown
  <1>4. ASSUME NEW s \in Sessions,
               Decide(s) \/ Create(s) \/ Attach(s) \/ Delete(s) \/ FinishUnattached(s)
                 \/ Opened(s) \/ CloseLate(s) \/ Landed(s) \/ ShellExits(s)
                 \/ Disconnect(s) \/ Expire(s) \/ Pump(s)
        PROVE  stop' = stop
    BY <1>4, RequestLocal, PumpLocal DEF Local
  <1>5. ASSUME NEW w \in Writers, WriteBegins(w) \/ WriteRefused(w)
        PROVE  stop' = stop
    BY <1>5 DEF WriteBegins, WriteRefused
  <1>6. ASSUME WriteAbandoned \/ (\E ok \in BOOLEAN : WriteReturns(ok)) \/ Refuse \/ Reload \/ Sweep
        PROVE  stop' = stop
    BY <1>6 DEF WriteAbandoned, WriteReturns, Refuse, Reload, Sweep, SweepScan, SweepCheck
  <1>7. QED
    BY <1>1, <1>2, <1>3, <1>4, <1>5, <1>6 DEF Next

LEMMA CoreStays ==
    ASSUME IInv, Next, ~ Exited
    PROVE  Core'
  <1>1. ASSUME NEW s \in Sessions,
               Decide(s) \/ Create(s) \/ Attach(s) \/ Delete(s) \/ FinishUnattached(s)
                 \/ Disconnect(s) \/ Expire(s)
        PROVE  Core'
    BY <1>1, RequestLocal, LocalKeeps
  <1>2. ASSUME NEW s \in Sessions,
               Opened(s) \/ CloseLate(s) \/ Pump(s) \/ Landed(s) \/ ShellExits(s)
        PROVE  Core'
    BY <1>2, PumpLocal, LocalKeeps
  <1>3. QED
    BY <1>1, <1>2, FileKeeps, ManagerKeeps DEF Next

LEMMA StepKeeps == IInv /\ [Next]_vars => IInv'
  <1> SUFFICES ASSUME IInv, [Next]_vars PROVE IInv'
    OBVIOUS
  <1>1. CASE UNCHANGED vars
    <2>1. TypeOK' /\ OneWrite'
      BY <1>1 DEF IInv, vars, TypeOK, OneWrite, Idle
    <2>2. AskedAll' /\ CleanShutdown'
      BY <1>1 DEF IInv, vars, AskedAll, CleanShutdown
    <2>3. Counted'
      BY <1>1 DEF IInv, vars, Counted, Owing, Owes
    <2>4. \A s \in Sessions : SessionInv(s)'
      <3>1. ASSUME NEW s \in Sessions PROVE SessionInv(s)'
        <4>1. SessionInv(s) /\ UNCHANGED <<sess, pump, write, inflight, landing, log, lost>>
          BY <1>1 DEF IInv, vars
        <4>2. Placed(s)' /\ Written(s)' /\ Held(s)'
          BY <4>1 DEF SessionInv, Placed, Written, Held
        <4>3. Landings(s)' /\ Logged(s)'
          BY <4>1 DEF SessionInv, Landings, Logged, EndOwed
        <4>4. QED
          BY <4>2, <4>3 DEF SessionInv
      <3>2. QED
        BY <3>1
    <2>5. QED
      BY <2>1, <2>2, <2>3, <2>4 DEF IInv
  <1>2. CASE Next /\ ~ Exited
    <2>1. Core' /\ Rest' /\ CleanShutdown'
      BY <1>2, CoreStays, RestStays, CleanStays
    <2>2. endWrites' \in 0..Cardinality(Sessions)
      <3>1. Owing' \subseteq Sessions /\ IsFiniteSet(Sessions)
        BY Typing DEF Owing, IInv
      <3>2. /\ Cardinality(Owing') \in Nat /\ Cardinality(Sessions) \in Nat
            /\ Cardinality(Owing') <= Cardinality(Sessions)
        BY <3>1, FS_Subset, FS_CardinalityType
      <3>3. endWrites' = Cardinality(Owing')
        BY <2>1 DEF Core, Counted
      <3>4. QED
        BY <3>2, <3>3
    <2>3. TypeOK'
      BY <2>1, <2>2 DEF Core, Rest, TypeOK, Entry, Phases, Shells, Nothing, Started, Closed
    <2>4. QED
      BY <2>1, <2>3 DEF Core, IInv
  <1>3. QED
    BY <1>1, <1>2 DEF Next

LEMMA InitHolds == Init => IInv
  <1> SUFFICES ASSUME Init PROVE IInv
    OBVIOUS
  <1>1. Owing = {} /\ Cardinality({}) = 0 /\ Cardinality(Sessions) \in Nat
    <2>1. \A s \in Sessions : ~ Owes(s)
      BY WriterKinds DEF Init, Owes
    <2>2. QED
      BY <2>1, FS_EmptySet, FS_CardinalityType, ExecAssumption DEF Owing, ExecAssumption
  <1>2. Counted
    BY <1>1 DEF Counted, Init
  <1>3. Free \in Entry
    BY DEF Free, Entry, States, Reasons
  <1>4. endWrites \in 0..Cardinality(Sessions)
    BY <1>1 DEF Init
  <1>5. policy \in [generation : 0..MaxReloads, swept : 0..MaxReloads, granted : BOOLEAN]
        /\ faults \in 0..MaxFaults /\ refusals \in 0..MaxRefusals
    BY ExecAssumption DEF Init, ExecAssumption
  <1>6. TypeOK
    BY <1>3, <1>4, <1>5 DEF Init, TypeOK, Entry, Pumps
  <1>7. OneWrite
    BY WriterKinds DEF Init, OneWrite, Idle
  <1>8. AskedAll /\ CleanShutdown
    BY DEF Init, AskedAll, CleanShutdown
  <1>9. ASSUME NEW s \in Sessions PROVE SessionInv(s)
    <2>1. /\ sess[s] = Free /\ pump[s] = "none" /\ log[s] = Nothing /\ landing[s] = "none"
          /\ \A k \in Kinds : write[<<k, s>>] = "idle" /\ inflight.writer # <<k, s>>
      BY WriterKinds DEF Init, Nothing
    <2>2. Placed(s)
      <3>1. /\ Free.state = "free" /\ Free.attached = FALSE /\ Free.reason = ""
            /\ Free.finishing = FALSE
        BY DEF Free
      <3>2. QED
        BY <2>1, <3>1 DEF Placed, PlacedAs, Stages
    <2>3. Written(s) /\ Held(s)
      BY <2>1, WriterKinds DEF Written, Held
    <2>4. Landings(s) /\ Logged(s)
      BY <2>1, LogsDiffer DEF Landings, Logged
    <2>5. QED
      BY <2>2, <2>3, <2>4 DEF SessionInv
  <1>10. QED
    BY <1>2, <1>6, <1>7, <1>8, <1>9 DEF IInv

(* Where the entry, the pump, the writes and the records of every session  *)
(* stand to one another, the file's one write and the count of the end     *)
(* records Manager.endWrites keeps: the inductive invariant of the exec    *)
(* subsystem.                                                              *)
THEOREM SessionsStayInStep == Spec => []IInv
  <1>1. Init => IInv
    BY InitHolds
  <1>2. IInv /\ [Next]_vars => IInv'
    BY StepKeeps
  <1>3. QED
    BY <1>1, <1>2, PTL DEF Spec

(* No start record is forgotten: while the file holds one without its end, *)
(* the session is still live, a write of its end is under way, or that     *)
(* write was reported lost; and a Shutdown that returns because settling   *)
(* is false leaves none behind of the sessions it listed.                  *)
THEOREM StartsAreSettled == Spec => []RecordsAreSettled
  <1>1. IInv => RecordsAreSettled
    BY DEF IInv, SessionInv, Logged, Started, RecordsAreSettled, StartsArePaired
  <1>2. QED
    BY <1>1, SessionsStayInStep, PTL

----------------------------------------------------------------------------
(* The refinement: what an auditor sees of the manager, pumps and file.    *)

Trace == [s \in Sessions |-> CASE log[s] = <<>> -> "nothing"
                               [] log[s] = <<"start">> -> "started"
                               [] OTHER -> "closed"]
Serving == {s \in Sessions : sess[s].state = "connected" /\ pump[s] = "serving"}

LEMMA Seen ==
    ASSUME IInv
    PROVE  /\ \A s \in Sessions : /\ log[s] = Nothing <=> Trace[s] = "nothing"
                                  /\ log[s] = Started <=> Trace[s] = "started"
                                  /\ log[s] = Closed <=> Trace[s] = "closed"
           /\ \A s \in Sessions : s \in Serving <=> pump[s] = "serving"
  <1>1. ASSUME NEW s \in Sessions
        PROVE  /\ log[s] \in {Nothing, Started, Closed}
               /\ sess[s].state = "connected" <=> pump[s] = "serving"
    BY DEF IInv, SessionInv, Placed, PlacedAs, Logged
  <1>2. QED
    BY <1>1, LogsDiffer DEF Trace, Serving, Nothing, Started

(* A step of one session that leaves the file alone: at most its shell is  *)
(* handed over, or taken away.                                             *)
LEMMA OneIsServed ==
    ASSUME IInv, IInv', NEW s \in Sessions, log' = log,
           \A t \in Sessions \ {s} : pump'[t] = pump[t]
    PROVE  Trail!TrailNext \/ UNCHANGED <<Trace, Serving>>
  <1>0. /\ \A t \in Sessions : t \in Serving <=> pump[t] = "serving"
        /\ \A t \in Sessions : t \in Serving' <=> pump'[t] = "serving"
        /\ Serving \subseteq Sessions /\ Serving' \subseteq Sessions
    <2>1. \A t \in Sessions : sess'[t].state = "connected" <=> pump'[t] = "serving"
      BY DEF IInv, SessionInv, Placed, PlacedAs
    <2>2. QED
      BY <2>1, Seen DEF Serving
  <1>1. Trace' = Trace
    BY DEF Trace
  <1>2. CASE s \in Serving <=> s \in Serving'
    <2>1. Serving' = Serving
      BY <1>0, <1>2
    <2>2. QED
      BY <1>1, <2>1
  <1>3. CASE s \in Serving /\ s \notin Serving'
    <2>1. Serving' = Serving \ {s} /\ {s} \in SUBSET Sessions
      BY <1>0, <1>3
    <2>2. Trail!Withdraw({s})
      BY <1>1, <1>3, <2>1 DEF Trail!Withdraw, Trace, Serving
    <2>3. QED
      BY <2>1, <2>2 DEF Trail!TrailNext
  <1>4. CASE s \notin Serving /\ s \in Serving'
    <2>1. Serving' = Serving \cup {s}
      BY <1>0, <1>4
    <2>2. log[s] = Started
      BY <1>0, <1>4 DEF IInv, SessionInv, Logged
    <2>3. Trace[s] = "started"
      BY <2>2, Seen
    <2>4. Trail!Serve(s)
      BY <1>1, <1>4, <2>1, <2>3 DEF Trail!Serve, Trace, Serving
    <2>5. QED
      BY <2>4 DEF Trail!TrailNext
  <1>5. QED
    BY <1>2, <1>3, <1>4

LEMMA SameServed ==
    ASSUME IInv, IInv', \A t \in Sessions : pump'[t] = "serving" <=> pump[t] = "serving"
    PROVE  Serving' = Serving
  <1>1. /\ \A t \in Sessions : sess'[t].state = "connected" <=> pump'[t] = "serving"
        /\ \A t \in Sessions : sess[t].state = "connected" <=> pump[t] = "serving"
    BY DEF IInv, SessionInv, Placed, PlacedAs
  <1>2. QED
    BY <1>1 DEF Serving

(* An answer never hands a shell over; that is Connected's next step.      *)
LEMMA AnswerServesNobody ==
    ASSUME IInv, NEW w \in Writers, NEW answer \in {"ok", "error", "abandoned"},
           write[w] \in {"queued", "flying"}, Answer(w, answer)
    PROVE  \A t \in Sessions : pump'[t] = "serving" <=> pump[t] = "serving"
  <1>1. ASSUME NEW t \in Sessions PROVE pump'[t] = "serving" <=> pump[t] = "serving"
    <2>1. CASE w = <<"start", t>>
      <3>1. pump[t] = "recording"
        <4>1. write[<<"start", t>>] # "idle"
          BY <2>1
        <4>2. QED
          BY <4>1 DEF IInv, SessionInv, Written
      <3>2. pump'[t] = CASE answer = "ok" -> "recorded" [] answer = "error" -> "unrecorded"
                         [] answer = "abandoned" -> "abandoned"
        BY <2>1, AnswerShape
      <3>3. QED
        BY <3>1, <3>2
    <2>2. CASE w # <<"start", t>>
      BY <2>2, AnswerShape
    <2>3. QED
      BY <2>1, <2>2
  <1>2. QED
    BY <1>1

(* Only a write that returns puts a record in the file, and it is the      *)
(* start of a session that has none, or the end of one that is over.       *)
LEMMA RecordSeen ==
    ASSUME IInv, IInv', NEW ok \in BOOLEAN, WriteReturns(ok)
    PROVE  Trail!TrailNext \/ UNCHANGED <<Trace, Serving>>
  <1> DEFINE w == inflight.writer
  <1>0. /\ w \in Writers /\ \A s \in Sessions : SessionInv(s)
        /\ log' = IF ok /\ w[2] # NoOne
                  THEN [log EXCEPT ![w[2]] = Append(@, RecordOf(w))] ELSE log
        /\ log \in [Sessions -> {Nothing, Started, Closed}]
    BY Typing DEF IInv, WriteReturns, Idle
  <1>1. Serving' = Serving
    <2>1. CASE ~ inflight.waited
      <3>1. pump' = pump
        BY <2>1 DEF WriteReturns
      <3>2. QED
        BY <3>1, SameServed
    <2>2. CASE inflight.waited
      <3>1. write[w] = "flying"
        BY <2>2 DEF IInv, OneWrite
      <3>2. PICK answer \in {"ok", "error"} : Answer(w, answer)
        BY <2>2 DEF WriteReturns
      <3> HIDE DEF w
      <3>3. QED
        BY <1>0, <3>1, <3>2, AnswerServesNobody, SameServed
    <2>3. QED
      BY <2>1, <2>2
  <1> HIDE DEF w
  <1>2. CASE log' = log
    BY <1>1, <1>2 DEF Trace
  <1>3. ASSUME NEW s \in Sessions, NEW x, log' = [log EXCEPT ![s] = x]
        PROVE  /\ x = Started => Trace' = [Trace EXCEPT ![s] = "started"]
               /\ x = Closed => Trace' = [Trace EXCEPT ![s] = "closed"]
    <2>1. /\ log'[s] = x /\ \A t \in Sessions \ {s} : log'[t] = log[t]
      BY <1>0, <1>3
    <2>2. \A t \in Sessions \ {s} : Trace'[t] = Trace[t]
      BY <2>1 DEF Trace
    <2>3. /\ x = Started => Trace'[s] = "started"
          /\ x = Closed => Trace'[s] = "closed"
      BY <2>1, LogsDiffer DEF Trace, Started, Closed, Nothing
    <2>4. Trace' = [t \in Sessions |-> Trace'[t]] /\ Trace = [t \in Sessions |-> Trace[t]]
      BY DEF Trace
    <2> HIDE DEF Trace
    <2>5. QED
      BY <2>2, <2>3, <2>4
  <1>4. CASE log' # log
    <2>1. PICK k \in Kinds, s \in Sessions : w = <<k, s>>
      BY <1>0, <1>4, WriterKinds
    <2>2. /\ w[2] = s /\ w[1] = k /\ log' = [log EXCEPT ![s] = Append(log[s], RecordOf(w))]
      BY <1>0, <1>4, <2>1
    <2>3. CASE k = "start"
      <3>1. log[s] = Nothing
        BY <1>0, <2>1, <2>3 DEF SessionInv, Held, w
      <3>2. log' = [log EXCEPT ![s] = Started]
        BY <2>2, <2>3, <3>1, LogsDiffer DEF RecordOf
      <3>3. Trace[s] = "nothing" /\ Trace' = [Trace EXCEPT ![s] = "started"]
        BY <1>3, <3>1, <3>2, Seen
      <3>4. Trail!RecordStart(s)
        BY <1>1, <3>3 DEF Trail!RecordStart, Trace, Serving
      <3>5. QED
        BY <3>4 DEF Trail!TrailNext
    <2>4. CASE k \in {"end", "late"}
      <3>1. log[s] = Started /\ pump[s] \in Over
        BY <1>0, <2>1, <2>4 DEF SessionInv, Held, w
      <3>2. log' = [log EXCEPT ![s] = Closed]
        BY <2>2, <2>4, <3>1, LogsDiffer DEF RecordOf
      <3>3. Trace[s] = "started" /\ Trace' = [Trace EXCEPT ![s] = "closed"]
        BY <1>3, <3>1, <3>2, Seen
      <3>4. s \notin Serving
        BY <3>1, Seen DEF Over
      <3>5. Trail!RecordEnd(s)
        BY <1>1, <3>3, <3>4 DEF Trail!RecordEnd, Trace, Serving
      <3>6. QED
        BY <3>5 DEF Trail!TrailNext
    <2>5. QED
      BY <2>3, <2>4, WriterKinds
  <1>5. QED
    BY <1>2, <1>4

LEMMA StepSeen ==
    ASSUME IInv, IInv', [Next]_vars
    PROVE  Trail!TrailNext \/ UNCHANGED <<Trace, Serving>>
  <1>1. ASSUME log' = log, pump' = pump
        PROVE  UNCHANGED <<Trace, Serving>>
    BY <1>1, SameServed DEF Trace
  <1>2. CASE UNCHANGED vars
    BY <1>1, <1>2 DEF vars
  <1>3. CASE Refuse \/ Reload \/ Sweep \/ ShutdownBegins \/ ShutdownReturns
             \/ \E w \in Writers : WriteBegins(w)
    BY <1>1, <1>3 DEF Refuse, Reload, Sweep, SweepScan, SweepCheck, ShutdownBegins,
       ShutdownReturns, WriteBegins, fileVars
  <1>4. ASSUME NEW s \in Sessions,
               Decide(s) \/ Create(s) \/ Attach(s) \/ Delete(s) \/ FinishUnattached(s)
                 \/ Opened(s) \/ CloseLate(s) \/ Landed(s) \/ ShellExits(s)
                 \/ Disconnect(s) \/ Expire(s) \/ Pump(s)
        PROVE  Trail!TrailNext \/ UNCHANGED <<Trace, Serving>>
    <2>1. Local(s)
      BY <1>4, RequestLocal, PumpLocal
    <2>2. log' = log /\ \A t \in Sessions \ {s} : pump'[t] = pump[t]
      BY <2>1 DEF Local
    <2>3. QED
      BY <2>2, OneIsServed
  <1>5. ASSUME NEW w \in Writers, NEW answer \in {"error", "abandoned"},
               write[w] \in {"queued", "flying"}, Answer(w, answer), log' = log
        PROVE  UNCHANGED <<Trace, Serving>>
    <2>1. Serving' = Serving
      BY <1>5, AnswerServesNobody, SameServed
    <2>2. QED
      BY <1>5, <2>1 DEF Trace
  <1>6. CASE \E w \in Writers : WriteRefused(w)
    <2>1. PICK w \in Writers : WriteRefused(w)
      BY <1>6
    <2>2. write[w] = "queued" /\ Answer(w, "error") /\ log' = log
      BY <2>1, NeverUncounted DEF WriteRefused
    <2>3. QED
      BY <1>5, <2>2
  <1>7. CASE WriteAbandoned
    <2> DEFINE w == inflight.writer
    <2>1. /\ w \in Writers /\ write[w] = "flying" /\ Answer(w, "abandoned") /\ log' = log
      BY <1>7, Typing DEF WriteAbandoned, Idle, IInv, OneWrite
    <2> HIDE DEF w
    <2>2. QED
      BY <1>5, <2>1
  <1>8. CASE \E ok \in BOOLEAN : WriteReturns(ok)
    BY <1>8, RecordSeen
  <1>9. QED
    BY <1>2, <1>3, <1>4, <1>6, <1>7, <1>8 DEF Next

(* Manager, pumps and audit file implement AuditTrail: a shell is handed   *)
(* to a user only after its start record is in the file, and its end       *)
(* record is written once, and only when nobody is using it any more.      *)
THEOREM AuditTrailIsKept == Spec => AuditTrailKept
  <1>1. Init => Trail!TrailInit
    <2>1. SUFFICES ASSUME Init PROVE Trail!TrailInit
      OBVIOUS
    <2>2. Trace = [s \in Sessions |-> "nothing"]
      BY <2>1 DEF Init, Trace
    <2>3. Serving = {}
      BY <2>1 DEF Init, Serving
    <2>4. QED
      BY <2>2, <2>3 DEF Trail!TrailInit, Trace, Serving
  <1>2. IInv /\ IInv' /\ [Next]_vars => [Trail!TrailNext]_(Trail!trailVars)
    BY StepSeen DEF Trail!trailVars, Trace, Serving
  <1>3. QED
    BY <1>1, <1>2, SessionsStayInStep, PTL DEF Spec, AuditTrailKept, Trail!TrailSpec
=============================================================================
