---------------------------- MODULE WritesProofs ----------------------------
(***************************************************************************)
(* Proofs about Writes, for any number of requests, versions, pending      *)
(* attributions and wait slots.  The properties speak of what was written; *)
(* the invariant adds what a request carries from one step to the next:    *)
(* what its pin stands for while others write, what the update will be     *)
(* made over, and that its attribution is still pending for as long as its *)
(* change can be seen for the first time.                                  *)
(***************************************************************************)
EXTENDS Writes, SequencingProofs, FiniteSetTheorems, TLAPS

Steps == {"idle", "use", "refresh", "pin", "validate", "inspect", "expect", "send",
          "settle", "seed", "reread", "waiting", "done"}
Errors == {"", "ENG001", "SVC001", "SVC003", "API013", "CFG003"}
Answers == {"", "201", "waited", "done", "refused"}
RequestState ==
  [pc : Steps, kind : Kinds, adds : BOOLEAN, level : 2..3, seen : Nat, pin : Nat, over : Nat,
   wrote : Nat, ver : Nat, saw : Nat, err : Errors, answer : Answers]

Typed ==
  /\ TypeOK
  /\ rq \in [Requests -> RequestState]
  /\ \A h \in history : h.act = "change" => h.ver # none

(* The cache loses the service only when it is gone for good.              *)
Present == cached = none => ~ there

(* How far a request has come, and what it then can have.                  *)
Ordered(q) ==
  /\ q.pc # "done" => q.answer = ""
  /\ q.err # "" => q.pc \in {"settle", "done"}
  /\ q.wrote # none => q.pc \in {"settle", "reread", "waiting", "done"} /\ q.kind \in Updates
  /\ q.pc \in {"idle", "refresh", "pin", "validate"} => q.seen = none
  /\ q.pc = "waiting" => q.wrote <= q.ver
  /\ q.answer = "waited" => q.wrote <= q.saw

(* What the precondition was compared with is at or after the pin, so that *)
(* a pin that still is the latest version is the version compared.         *)
Compared(q) ==
  /\ q.pc = "validate" => cached = none \/ q.pin \in 1..cached
  /\ q.pc \in {"use", "inspect"} /\ q.kind = "section" /\ q.seen # none =>
        /\ q.pin # none
        /\ \E c \in q.pin..Latest : q.seen = specs[c].part

(* What a request about to be sent was checked on, it is sent over.        *)
Checked(q) ==
  q.pc \in {"expect", "send"} /\ q.kind \in Updates =>
    /\ q.over \in 1..Latest
    /\ q.kind = "section" /\ q.seen # none => specs[q.over].part = q.seen
    /\ q.kind = "section" /\ q.level < 3 => ~ specs[q.over].host /\ ~ q.adds

(* A version made here is the one its request wrote.                       *)
Authored ==
  /\ \A v \in 1..Latest : specs[v].by # other => rq[specs[v].by].wrote = v
  /\ \A r \in Requests : rq[r].wrote # none => rq[r].wrote \in 2..Latest

(* A change the cache has not shown yet finds the attribution of its       *)
(* request, unless that was forgotten.                                     *)
Awaited(r, after) == \E i \in DOMAIN pending :
  pending[i] = [by |-> r, act |-> "change", after |-> after]
Registered(r) ==
  cached # none /\ r \notin forgotten =>
    /\ rq[r].pc = "send" /\ rq[r].kind \in Updates /\ cached <= rq[r].over =>
          Awaited(r, rq[r].over)
    /\ rq[r].wrote # none /\ rq[r].err = "" /\ cached < rq[r].wrote =>
          Awaited(r, rq[r].wrote - 1)

(* A creation that was answered, or is about to be, was made.              *)
Made(q) ==
  \/ q.pc = "settle" /\ q.kind = "create" /\ q.err = ""
  \/ q.pc = "seed"
  \/ q.answer = "201"
Created == \A r \in Requests : Made(rq[r]) => cfg # "none"

RequestInv == \A r \in Requests : Ordered(rq[r]) /\ Compared(rq[r]) /\ Checked(rq[r])
AttributedInv == AcceptedIsNamed /\ \A r \in Requests : Registered(r)
IInv == /\ Typed /\ Present /\ RequestInv /\ Authored /\ NoLostUpdate /\ HostAccessKept
        /\ AttributedInv /\ Created /\ WaitSound /\ ReadYourCreate
----------------------------------------------------------------------------
(* What a step makes of the request that takes it. *)

LEMMA StartTyped == Start \in RequestState
  BY DEF Start, RequestState, Steps, Kinds, Errors, Answers, none

(* One field of a request at a time. *)
LEMMA FieldTyped ==
    ASSUME NEW q \in RequestState
    PROVE  /\ \A x \in Steps : [q EXCEPT !.pc = x] \in RequestState
           /\ \A x \in Kinds : [q EXCEPT !.kind = x] \in RequestState
           /\ \A x \in BOOLEAN : [q EXCEPT !.adds = x] \in RequestState
           /\ \A x \in 2..3 : [q EXCEPT !.level = x] \in RequestState
           /\ \A x \in Nat : /\ [q EXCEPT !.seen = x] \in RequestState
                             /\ [q EXCEPT !.pin = x] \in RequestState
                             /\ [q EXCEPT !.over = x] \in RequestState
                             /\ [q EXCEPT !.wrote = x] \in RequestState
                             /\ [q EXCEPT !.ver = x] \in RequestState
                             /\ [q EXCEPT !.saw = x] \in RequestState
           /\ \A x \in Errors : [q EXCEPT !.err = x] \in RequestState
           /\ \A x \in Answers : [q EXCEPT !.answer = x] \in RequestState
  BY DEF RequestState

(* The request is moved to another step, and nothing else of it changes.   *)
LEMMA GotoShape ==
    ASSUME rq \in [Requests -> RequestState], NEW r \in Requests, NEW pc \in Steps, Goto(r, pc)
    PROVE  /\ rq' \in [Requests -> RequestState]
           /\ \A q \in Requests \ {r} : rq'[q] = rq[q]
           /\ rq'[r] = [rq[r] EXCEPT !.pc = pc]
  BY DEF Goto, RequestState

(* An answered request is done; one that wrote keeps what it wrote, and    *)
(* one that did not keeps nothing.                                         *)
LEMMA AnswerShape ==
    ASSUME rq \in [Requests -> RequestState], NEW r \in Requests, NEW code, Answer(r, code)
    PROVE  /\ rq' \in [Requests -> RequestState]
           /\ \A q \in Requests \ {r} : rq'[q] = rq[q]
           /\ rq'[r].pc = "done" /\ rq'[r].answer = Outcome(code)
           /\ rq'[r].wrote = rq[r].wrote
           /\ rq'[r].over = none /\ rq'[r].pin = none
           /\ rq[r].wrote = none => rq'[r].err = "" /\ rq'[r].seen = none /\ rq'[r].saw = none
           /\ rq[r].wrote # none =>
                /\ rq'[r].kind = rq[r].kind /\ rq'[r].level = rq[r].level
                /\ rq'[r].seen = rq[r].seen /\ rq'[r].err = rq[r].err
                /\ rq'[r].saw = rq[r].saw
  <1>1. Outcome(code) \in Answers
    BY DEF Outcome, Answers
  <1>2. CASE rq[r].wrote = none
    <2>1. rq' = [rq EXCEPT ![r] = [Start EXCEPT !.pc = "done", !.answer = Outcome(code)]]
      BY <1>2 DEF Answer
    <2>2. [Start EXCEPT !.pc = "done", !.answer = Outcome(code)] \in RequestState
      BY <1>1, StartTyped DEF RequestState, Steps
    <2>3. QED
      BY <1>2, <2>1, <2>2 DEF Start, none
  <1>3. CASE rq[r].wrote # none
    <2>1. rq' = [rq EXCEPT ![r] = [rq[r] EXCEPT !.pc = "done", !.answer = Outcome(code),
                                       !.pin = none, !.over = none, !.ver = none]]
      BY <1>3 DEF Answer
    <2>2. [rq[r] EXCEPT !.pc = "done", !.answer = Outcome(code), !.pin = none, !.over = none,
                        !.ver = none] \in RequestState
      <3>1. [rq[r] EXCEPT !.pc = "done"] \in RequestState
        BY FieldTyped DEF Steps
      <3>2. [rq[r] EXCEPT !.pc = "done", !.answer = Outcome(code)] \in RequestState
        BY <1>1, <3>1, FieldTyped
      <3>3. none \in Nat
        BY DEF none
      <3>4. [rq[r] EXCEPT !.pc = "done", !.answer = Outcome(code), !.pin = none] \in RequestState
        BY <3>2, <3>3, FieldTyped
      <3>5. [rq[r] EXCEPT !.pc = "done", !.answer = Outcome(code), !.pin = none,
                          !.over = none] \in RequestState
        BY <3>3, <3>4, FieldTyped
      <3>6. QED
        BY <3>3, <3>5, FieldTyped
    <2>3. QED
      BY <1>3, <2>1, <2>2 DEF RequestState, none
  <1>4. QED
    BY <1>2, <1>3

LEMMA SentShape ==
    ASSUME rq \in [Requests -> RequestState], NEW r \in Requests, NEW err \in Errors,
           NEW wrote \in Nat, Sent(r, err, wrote)
    PROVE  /\ rq' \in [Requests -> RequestState]
           /\ \A q \in Requests \ {r} : rq'[q] = rq[q]
           /\ rq'[r].pc = "settle" /\ rq'[r].err = err /\ rq'[r].wrote = wrote
           /\ rq'[r].kind = rq[r].kind /\ rq'[r].level = rq[r].level
           /\ rq'[r].seen = rq[r].seen /\ rq'[r].over = rq[r].over /\ rq'[r].pin = rq[r].pin
           /\ rq'[r].answer = rq[r].answer
  <1> DEFINE a == [rq[r] EXCEPT !.pc = "settle"]
             b == [a EXCEPT !.err = err]
             c == [b EXCEPT !.wrote = wrote]
  <1>1. a \in RequestState /\ b \in RequestState /\ c \in RequestState
    BY FieldTyped DEF Steps
  <1>2. rq' = [rq EXCEPT ![r] = c]
    BY DEF Sent
  <1>3. /\ c.pc = "settle" /\ c.err = err /\ c.wrote = wrote /\ c.kind = rq[r].kind
        /\ c.level = rq[r].level /\ c.seen = rq[r].seen /\ c.over = rq[r].over
        /\ c.pin = rq[r].pin /\ c.answer = rq[r].answer
    BY DEF RequestState
  <1> HIDE DEF c
  <1>4. QED
    BY <1>1, <1>2, <1>3

----------------------------------------------------------------------------
(* What every step leaves as it was: versions are only added, and the      *)
(* cache goes forward until it loses the service for good.                 *)
SpecsGrow ==
  /\ Latest \in Nat /\ Latest' \in Nat /\ Latest <= Latest'
  /\ \A v \in 1..Latest : specs'[v] = specs[v]
CacheAdvances ==
  /\ cached' \in Nat
  /\ cached' = none \/ (cached # none /\ cached <= cached')

LEMMA AppliedShape ==
    ASSUME Typed, Latest < MaxVersion, NEW by \in Requests \cup {other},
           NEW touches \in BOOLEAN, NEW adds \in BOOLEAN, applied(by, touches, adds)
    PROVE  /\ specs' \in Seq([by : Requests \cup {other}, part : Version, host : BOOLEAN])
           /\ Latest' = Latest + 1 /\ Latest' \in Version /\ SpecsGrow
           /\ specs'[Latest + 1].by = by
           /\ specs'[Latest + 1].host = (specs[Latest].host \/ adds)
  <1> DEFINE new == [by |-> by, part |-> IF touches THEN Latest + 1 ELSE specs[Latest].part,
                     host |-> specs[Latest].host \/ adds]
             S == [by : Requests \cup {other}, part : Version, host : BOOLEAN]
  <1>1. /\ specs \in Seq(S) /\ Latest \in 1..MaxVersion /\ MaxVersion \in Nat /\ Latest \in Nat
        /\ Latest = Len(specs)
    BY WritesAssumption DEF Typed, TypeOK, WritesAssumption, Version, Latest
  <1>2. specs[Latest] \in S
    <2> HIDE DEF S
    <2>1. QED
      BY <1>1
  <1>3. new \in S
    BY <1>1, <1>2 DEF Version
  <1>4. specs' = Append(specs, new)
    BY DEF applied
  <1>5. Latest' = Len(specs')
    BY DEF Latest
  <1> HIDE DEF new, S
  <1>6. /\ specs' \in Seq(S) /\ Latest' = Latest + 1
        /\ \A v \in 1..Latest : specs'[v] = specs[v]
        /\ specs'[Latest + 1] = new
    BY <1>1, <1>3, <1>4, <1>5
  <1>7. QED
    BY <1>1, <1>6 DEF S, new, SpecsGrow, Version

(* A step that makes no version. *)
LEMMA SpecsKept == ASSUME Typed, specs' = specs PROVE SpecsGrow /\ Latest' = Latest
  BY WritesAssumption DEF Typed, TypeOK, WritesAssumption, Version, SpecsGrow, Latest

LEMMA NumbersTyped ==
    ASSUME Typed
    PROVE  /\ Latest \in Nat /\ cached \in Nat /\ Latest >= 1 /\ cached <= Latest
           /\ Latest <= MaxVersion /\ MaxVersion \in Nat
           /\ \A v \in 1..Latest : specs[v] \in [by : Requests \cup {other}, part : Version,
                                                 host : BOOLEAN]
           /\ \A v \in 1..Latest : specs[v].part \in Nat \ {0}
           /\ \A r \in Requests : rq[r] \in RequestState
  <1> DEFINE S == [by : Requests \cup {other}, part : Version, host : BOOLEAN]
  <1>1. /\ specs \in Seq(S) /\ Latest = Len(specs) /\ Latest \in 1..MaxVersion
        /\ MaxVersion \in Nat /\ cached \in 0..Latest
    BY WritesAssumption DEF Typed, TypeOK, WritesAssumption, Version, Latest, none
  <1>2. \A v \in 1..Latest : specs[v] \in S
    <2> HIDE DEF S
    <2>1. QED
      BY <1>1
  <1>3. \A v \in 1..Latest : specs[v].part \in Nat \ {0}
    BY <1>1, <1>2 DEF Version
  <1>4. QED
    BY <1>1, <1>2, <1>3 DEF Typed

LEMMA RequestForwards ==
    ASSUME Typed, Present, NEW r \in Requests, Request(r)
    PROVE  SpecsGrow /\ CacheAdvances
  <1>1. CASE sendUpdate(r)
    <2>1. cached' = cached
      BY <1>1 DEF sendUpdate, cache
    <2>2. CASE specs' = specs
      BY <2>1, <2>2, SpecsKept, NumbersTyped DEF CacheAdvances
    <2>3. CASE specs' # specs
      <3>1. /\ Latest < MaxVersion
            /\ applied(r, rq[r].kind = "section", rq[r].adds)
        BY <1>1, <2>3 DEF sendUpdate
      <3>2. rq[r].adds \in BOOLEAN /\ (rq[r].kind = "section") \in BOOLEAN
        BY NumbersTyped DEF RequestState
      <3>3. SpecsGrow
        BY <3>1, <3>2, AppliedShape
      <3>4. QED
        BY <2>1, <3>3, NumbersTyped DEF CacheAdvances
    <2>4. QED
      BY <2>2, <2>3
  <1>2. CASE refreshSubject(r)
    <2>1. specs' = specs
      BY <1>2 DEF refreshSubject, engine
    <2>2. CacheAdvances
      BY <1>2, NumbersTyped DEF refreshSubject, stored, removed, CacheAdvances, Present, none
    <2>3. QED
      BY <2>1, <2>2, SpecsKept
  <1>3. CASE UNCHANGED <<specs, cached>>
    BY <1>3, SpecsKept, NumbersTyped DEF CacheAdvances
  <1>4. QED
    BY <1>1, <1>2, <1>3
       DEF Request, Arrive, pinSubjectVersion, validate, useCase, inspect, expect, sendOther,
           settle, seedCreated, reread, await, engine, cache

LEMMA StepForwards ==
    ASSUME Typed, Present, [Next]_vars
    PROVE  SpecsGrow /\ CacheAdvances
  <1>1. CASE UNCHANGED <<specs, cached>>
    BY <1>1, SpecsKept, NumbersTyped DEF CacheAdvances
  <1>2. CASE Deliver
    <2>1. specs' = specs /\ cached # none
          /\ (cached' = none \/ cached' \in (cached + 1)..Latest)
      BY <1>2 DEF Deliver, stored, removed, engine
    <2>2. QED
      BY <2>1, SpecsKept, NumbersTyped DEF CacheAdvances, none
  <1>3. CASE Sync
    BY <1>3, SpecsKept, NumbersTyped DEF Sync, engine, CacheAdvances, Present, none
  <1>4. CASE OutsideUpdate
    <2>1. PICK touches \in BOOLEAN : applied(other, touches, ~ touches)
      BY <1>4 DEF OutsideUpdate
    <2>2. SpecsGrow
      BY <1>4, <2>1, AppliedShape DEF OutsideUpdate
    <2>3. QED
      BY <1>4, <2>2, NumbersTyped DEF OutsideUpdate, cache, CacheAdvances
  <1>5. QED
    BY <1>1, <1>2, <1>3, <1>4, RequestForwards
       DEF Next, Lapse, DeliverConfig, OutsideRemove, engine, cache, vars

----------------------------------------------------------------------------
(* One request: where it is, what it was compared with and checked on.     *)

(* A request that takes no step keeps its comparison and its check.        *)
LEMMA ComparedKept ==
    ASSUME Typed, SpecsGrow, CacheAdvances, NEW r \in Requests, rq'[r] = rq[r],
           Compared(rq[r]), Checked(rq[r])
    PROVE  Compared(rq[r])' /\ Checked(rq[r])'
  <1>1. rq[r] \in RequestState /\ cached \in Nat
    BY NumbersTyped
  <1>2. Compared(rq[r])'
    <2>1. rq[r].pin \in Nat
      BY <1>1 DEF RequestState
    <2>2. rq[r].pc = "validate" => cached' = none \/ rq[r].pin \in 1..cached'
      BY <1>1, <2>1 DEF Compared, CacheAdvances, none
    <2>3. \A c \in rq[r].pin..Latest : rq[r].pin # none =>
             c \in rq[r].pin..Latest' /\ specs'[c].part = specs[c].part
      BY <2>1 DEF SpecsGrow, none
    <2>4. QED
      BY <2>2, <2>3 DEF Compared
  <1>3. Checked(rq[r])'
    <2>1. \A v \in 1..Latest : v \in 1..Latest' /\ specs'[v] = specs[v]
      BY DEF SpecsGrow
    <2>2. QED
      BY <2>1 DEF Checked
  <1>4. QED
    BY <1>2, <1>3

Carried(r) ==
  /\ rq' \in [Requests -> RequestState]
  /\ \A q \in Requests \ {r} : rq'[q] = rq[q]
  /\ Ordered(rq[r])' /\ Compared(rq[r])' /\ Checked(rq[r])'

(* A request that is answered carries nothing on.                          *)
LEMMA AnswerCarries ==
    ASSUME Typed, NEW r \in Requests, Ordered(rq[r]), NEW code, Answer(r, code),
           code # "waited", rq[r].pc # "done"
    PROVE  Carried(r)
  <1>1. rq \in [Requests -> RequestState]
    BY DEF Typed
  <1>2. /\ rq' \in [Requests -> RequestState]
        /\ \A q \in Requests \ {r} : rq'[q] = rq[q]
        /\ rq'[r].pc = "done" /\ rq'[r].answer = Outcome(code)
        /\ rq'[r].wrote = rq[r].wrote
        /\ rq[r].wrote # none => rq'[r].kind = rq[r].kind /\ rq'[r].saw = rq[r].saw
    BY <1>1, AnswerShape
  <1>3. Outcome(code) # "waited"
    BY DEF Outcome
  <1>4. QED
    BY <1>2, <1>3 DEF Carried, Ordered, Compared, Checked

LEMMA RequestCarries ==
    ASSUME Typed, Present, Authored, NEW r \in Requests, Request(r),
           Ordered(rq[r]), Compared(rq[r]), Checked(rq[r])
    PROVE  Carried(r)
  <1> DEFINE q == rq[r]
  <1>0. /\ rq \in [Requests -> RequestState] /\ q \in RequestState
        /\ q.pin \in Nat /\ q.over \in Nat /\ q.wrote \in Nat /\ q.ver \in Nat
        /\ cached \in Nat /\ Latest \in Nat /\ Latest >= 1 /\ cached <= Latest
        /\ \A v \in 1..Latest : specs[v].part \in Nat \ {0}
    BY NumbersTyped DEF Typed, RequestState
  <1>1. CASE \E code : Answer(r, code) /\ code # "waited" /\ q.pc # "done"
    BY <1>1, AnswerCarries
  <1>2. CASE Arrive(r)
    <2>1. PICK kind \in Kinds, level \in 2..3, pc \in {"use", "refresh"} :
              rq' = [rq EXCEPT ![r].pc = pc, ![r].kind = kind, ![r].level = level]
      BY <1>2 DEF Arrive
    <2> DEFINE a == [q EXCEPT !.pc = pc]
               b == [a EXCEPT !.kind = kind]
               c == [b EXCEPT !.level = level]
    <2>2. a \in RequestState /\ b \in RequestState /\ c \in RequestState
      BY <1>0, FieldTyped DEF Steps
    <2>3. rq' = [rq EXCEPT ![r] = c]
      BY <2>1
    <2>4. /\ c.pc = pc /\ c.seen = q.seen /\ c.wrote = q.wrote /\ c.answer = q.answer
          /\ c.err = q.err
      BY <1>0 DEF RequestState
    <2> HIDE DEF c
    <2>5. /\ rq' \in [Requests -> RequestState] /\ rq'[r] = c
          /\ \A x \in Requests \ {r} : rq'[x] = rq[x]
      BY <1>0, <2>2, <2>3
    <2>6. q.pc = "idle"
      BY <1>2 DEF Arrive
    <2>7. Ordered(rq[r])'
      BY <2>1, <2>4, <2>5, <2>6 DEF Ordered
    <2>8. Compared(rq[r])'
      BY <2>1, <2>4, <2>5, <2>6 DEF Ordered, Compared
    <2>9. Checked(rq[r])'
      BY <2>1, <2>4, <2>5, <2>6 DEF Checked
    <2>10. QED
      BY <2>5, <2>7, <2>8, <2>9 DEF Carried
  <1>3. CASE refreshSubject(r)
    <2>1. CASE Goto(r, "pin")
      <3>1. /\ rq' \in [Requests -> RequestState]
            /\ \A x \in Requests \ {r} : rq'[x] = rq[x]
            /\ rq'[r] = [q EXCEPT !.pc = "pin"]
        BY <1>0, <2>1, GotoShape DEF Steps
      <3>2. q.pc = "refresh"
        BY <1>3 DEF refreshSubject
      <3>3. QED
        BY <1>0, <3>1, <3>2 DEF Carried, Ordered, Compared, Checked, RequestState
    <2>2. QED
      BY <1>1, <1>3, <2>1 DEF refreshSubject
  <1>4. CASE pinSubjectVersion(r)
    <2>1. rq' = [rq EXCEPT ![r].pc = "validate", ![r].pin = cached] /\ q.pc = "pin"
          /\ cached' = cached
      BY <1>4 DEF pinSubjectVersion, cache
    <2> DEFINE a == [q EXCEPT !.pc = "validate"]
               b == [a EXCEPT !.pin = cached]
    <2>2. a \in RequestState /\ b \in RequestState
      BY <1>0, FieldTyped DEF Steps
    <2>3. rq' = [rq EXCEPT ![r] = b]
      BY <2>1
    <2>4. /\ b.pc = "validate" /\ b.seen = q.seen /\ b.wrote = q.wrote
          /\ b.answer = q.answer /\ b.err = q.err /\ b.pin = cached
      BY <1>0 DEF RequestState
    <2> HIDE DEF b
    <2>5. /\ rq' \in [Requests -> RequestState] /\ rq'[r] = b
          /\ \A x \in Requests \ {r} : rq'[x] = rq[x]
      BY <1>0, <2>2, <2>3
    <2>6. cached = none \/ cached \in 1..cached
      BY <1>0 DEF none
    <2>7. QED
      BY <2>1, <2>4, <2>5, <2>6 DEF Carried, Ordered, Compared, Checked
  <1>5. CASE validate(r)
    <2>1. q.pc = "validate" /\ cached' = cached /\ specs' = specs /\ Latest' = Latest
      BY <1>5 DEF validate, cache, engine, Latest
    <2>2. CASE rq' = [rq EXCEPT ![r].pc = "use", ![r].pin = none]
      <3> DEFINE a == [q EXCEPT !.pc = "use"]
                 b == [a EXCEPT !.pin = none]
      <3>1. a \in RequestState /\ b \in RequestState
        BY <1>0, FieldTyped DEF Steps, none
      <3>2. rq' = [rq EXCEPT ![r] = b]
        BY <2>2
      <3>3. /\ b.pc = "use" /\ b.seen = q.seen /\ b.wrote = q.wrote
            /\ b.answer = q.answer /\ b.err = q.err
        BY <1>0 DEF RequestState
      <3> HIDE DEF b
      <3>4. /\ rq' \in [Requests -> RequestState] /\ rq'[r] = b
            /\ \A x \in Requests \ {r} : rq'[x] = rq[x]
        BY <1>0, <3>1, <3>2
      <3>5. QED
        BY <2>1, <3>3, <3>4 DEF Carried, Ordered, Compared, Checked
    <2>3. CASE /\ cached # none
               /\ rq' = [rq EXCEPT ![r].pc = "use",
                                   ![r].seen = representation(q.kind, cached)]
      <3> DEFINE sn == representation(q.kind, cached)
                 a == [q EXCEPT !.pc = "use"]
                 b == [a EXCEPT !.seen = sn]
      <3>1. sn \in Nat /\ (q.kind = "section" => sn = specs[cached].part)
        BY <1>0, <2>3 DEF representation, none
      <3> HIDE DEF sn
      <3>2. a \in RequestState /\ b \in RequestState
        BY <1>0, <3>1, FieldTyped DEF Steps
      <3>3. rq' = [rq EXCEPT ![r] = b]
        BY <2>3 DEF sn
      <3>4. /\ b.pc = "use" /\ b.seen = sn /\ b.wrote = q.wrote /\ b.kind = q.kind
            /\ b.answer = q.answer /\ b.err = q.err /\ b.pin = q.pin
        BY <1>0 DEF RequestState
      <3> HIDE DEF b
      <3>5. /\ rq' \in [Requests -> RequestState] /\ rq'[r] = b
            /\ \A x \in Requests \ {r} : rq'[x] = rq[x]
        BY <1>0, <3>2, <3>3
      <3>6. q.pin \in 1..cached /\ cached \in q.pin..Latest /\ q.pin # none
        BY <1>0, <2>1, <2>3 DEF Compared, none
      <3>7. QED
        BY <2>1, <3>1, <3>4, <3>5, <3>6 DEF Carried, Ordered, Compared, Checked
    <2>4. QED
      BY <1>1, <1>5, <2>1, <2>2, <2>3 DEF validate
  <1>6. CASE useCase(r)
    <2>1. q.pc = "use" /\ cached' = cached /\ specs' = specs /\ Latest' = Latest
      BY <1>6 DEF useCase, cache, engine, Latest
    <2>2. ASSUME NEW pc \in {"expect", "inspect"}, Goto(r, pc),
                 pc = "expect" => q.kind \notin Updates
          PROVE  Carried(r)
      <3>1. /\ rq' \in [Requests -> RequestState]
            /\ \A x \in Requests \ {r} : rq'[x] = rq[x]
            /\ rq'[r] = [q EXCEPT !.pc = pc]
        BY ZenonT(30), <1>0, <2>2, GotoShape DEF Steps
      <3>2. /\ rq'[r].pc = pc /\ rq'[r].seen = q.seen /\ rq'[r].wrote = q.wrote
            /\ rq'[r].answer = q.answer /\ rq'[r].err = q.err /\ rq'[r].kind = q.kind
            /\ rq'[r].pin = q.pin
        BY <1>0, <3>1 DEF RequestState
      <3>3. Ordered(rq[r])'
        BY <2>1, <2>2, <3>2 DEF Ordered
      <3>4. Compared(rq[r])'
        BY <2>1, <2>2, <3>2 DEF Compared
      <3>5. Checked(rq[r])'
        BY <2>1, <2>2, <3>2 DEF Checked
      <3>6. QED
        BY <3>1, <3>3, <3>4, <3>5 DEF Carried
    <2>3. QED
      BY <1>1, <1>6, <2>1, <2>2 DEF useCase, Updates
  <1>7. CASE inspect(r)
    <2>1. q.pc = "inspect" /\ cached' = cached /\ specs' = specs /\ Latest' = Latest
      BY <1>7 DEF inspect, cache, engine, Latest
    <2>2. ASSUME NEW adds \in BOOLEAN, checkPinned(r), ~ checkServiceChange(r, adds),
                 rq' = [rq EXCEPT ![r].pc = "expect", ![r].over = Latest, ![r].adds = adds]
          PROVE  Carried(r)
      <3> DEFINE a == [q EXCEPT !.pc = "expect"]
                 b == [a EXCEPT !.over = Latest]
                 c == [b EXCEPT !.adds = adds]
      <3>1. a \in RequestState /\ b \in RequestState /\ c \in RequestState
        BY <1>0, FieldTyped DEF Steps
      <3>2. rq' = [rq EXCEPT ![r] = c]
        BY <2>2
      <3>3. /\ c.pc = "expect" /\ c.seen = q.seen /\ c.wrote = q.wrote /\ c.kind = q.kind
            /\ c.answer = q.answer /\ c.err = q.err /\ c.pin = q.pin /\ c.over = Latest
            /\ c.adds = adds /\ c.level = q.level
        BY <1>0 DEF RequestState
      <3> HIDE DEF c
      <3>4. /\ rq' \in [Requests -> RequestState] /\ rq'[r] = c
            /\ \A x \in Requests \ {r} : rq'[x] = rq[x]
        BY <1>0, <3>1, <3>2
      <3>5. q.kind = "section" /\ q.seen # none => specs[Latest].part = q.seen
        <4>1. SUFFICES ASSUME q.kind = "section", q.seen # none
                       PROVE  specs[Latest].part = q.seen
          OBVIOUS
        <4>2. PICK v \in q.pin..Latest : q.seen = specs[v].part /\ q.pin # none
          BY <2>1, <4>1 DEF Compared
        <4>3. q.pin = Latest
          BY <2>2, <4>2 DEF checkPinned
        <4>4. v = Latest
          BY <1>0, <4>2, <4>3
        <4>5. QED
          BY <4>2, <4>4
      <3>6. q.kind = "section" /\ q.level < 3 => ~ specs[Latest].host /\ ~ adds
        BY <2>2 DEF checkServiceChange, CheckHostAccessHeld
      <3>7. Latest \in 1..Latest
        BY <1>0
      <3>8. QED
        BY <2>1, <3>3, <3>4, <3>5, <3>6, <3>7 DEF Carried, Ordered, Compared, Checked
    <2>3. QED
      BY <1>1, <1>7, <2>1, <2>2 DEF inspect
  <1>8. CASE expect(r)
    <2>1. q.pc = "expect" /\ specs' = specs /\ Latest' = Latest
      BY <1>8 DEF expect, engine, Latest
    <2>2. /\ rq' \in [Requests -> RequestState]
          /\ \A x \in Requests \ {r} : rq'[x] = rq[x]
          /\ rq'[r] = [q EXCEPT !.pc = "send"]
      BY <1>0, <1>8, GotoShape DEF Steps, expect
    <2>3. /\ rq'[r].pc = "send" /\ rq'[r].seen = q.seen /\ rq'[r].wrote = q.wrote
          /\ rq'[r].answer = q.answer /\ rq'[r].err = q.err /\ rq'[r].kind = q.kind
          /\ rq'[r].over = q.over /\ rq'[r].adds = q.adds /\ rq'[r].level = q.level
      BY <1>0, <2>2 DEF RequestState
    <2>4. QED
      BY <2>1, <2>2, <2>3 DEF Carried, Ordered, Compared, Checked
  <1>9. CASE sendUpdate(r) \/ sendOther(r)
    <2>1. q.pc = "send"
      BY <1>9 DEF sendUpdate, sendOther
    <2>2. PICK err \in Errors, wrote \in Nat :
              Sent(r, err, wrote) /\ (wrote # none => q.kind \in Updates)
      <3>1. none \in Nat /\ Latest + 1 \in Nat
        BY <1>0 DEF none
      <3>2. Conflict(r) \in Errors
        BY DEF Conflict, Errors
      <3>3. {"", "ENG001", "SVC003", "CFG003"} \subseteq Errors
        BY DEF Errors
      <3>4. QED
        BY <1>9, <3>1, <3>2, <3>3 DEF sendUpdate, sendOther
    <2>3. /\ rq' \in [Requests -> RequestState]
          /\ \A x \in Requests \ {r} : rq'[x] = rq[x]
          /\ rq'[r].pc = "settle" /\ rq'[r].answer = q.answer /\ rq'[r].wrote = wrote
          /\ rq'[r].kind = q.kind
      BY <1>0, <2>2, SentShape
    <2>4. QED
      BY <2>1, <2>2, <2>3 DEF Carried, Ordered, Compared, Checked
  <1>10. CASE settle(r)
    <2>1. q.pc = "settle" /\ Settled(r) /\ specs' = specs /\ Latest' = Latest
      BY <1>10 DEF settle, engine, Latest
    <2>2. q.err \in Errors
      BY <1>0 DEF RequestState
    <2>3. ASSUME NEW pc \in {"seed", "reread"}, Goto(r, pc), q.err = "",
                 pc = "seed" => q.kind = "create"
          PROVE  Carried(r)
      <3>1. /\ rq' \in [Requests -> RequestState]
            /\ \A x \in Requests \ {r} : rq'[x] = rq[x]
            /\ rq'[r] = [q EXCEPT !.pc = pc]
        BY <1>0, <2>3, GotoShape DEF Steps
      <3>2. /\ rq'[r].pc = pc /\ rq'[r].wrote = q.wrote /\ rq'[r].answer = q.answer
            /\ rq'[r].err = q.err /\ rq'[r].kind = q.kind
        BY <1>0, <3>1 DEF RequestState
      <3>3. QED
        BY <2>1, <2>3, <3>1, <3>2 DEF Carried, Ordered, Compared, Checked, Updates
    <2>4. QED
      BY <1>1, <2>1, <2>2, <2>3 DEF Settled, Errors
  <1>11. CASE seedCreated(r)
    BY <1>1, <1>11 DEF seedCreated
  <1>12. CASE reread(r)
    <2>1. q.pc = "reread"
      BY <1>12 DEF reread
    <2>2. CASE rq' = [rq EXCEPT ![r].pc = "waiting", ![r].ver = Latest]
      <3> DEFINE a == [q EXCEPT !.pc = "waiting"]
                 b == [a EXCEPT !.ver = Latest]
      <3>1. a \in RequestState /\ b \in RequestState
        BY <1>0, FieldTyped DEF Steps
      <3>2. rq' = [rq EXCEPT ![r] = b]
        BY <2>2
      <3>3. /\ b.pc = "waiting" /\ b.ver = Latest /\ b.wrote = q.wrote
            /\ b.answer = q.answer /\ b.err = q.err /\ b.kind = q.kind
        BY <1>0 DEF RequestState
      <3> HIDE DEF b
      <3>4. /\ rq' \in [Requests -> RequestState] /\ rq'[r] = b
            /\ \A x \in Requests \ {r} : rq'[x] = rq[x]
        BY <1>0, <3>1, <3>2
      <3>5. q.wrote <= Latest
        BY <1>0 DEF Authored, none
      <3>6. QED
        BY <2>1, <3>3, <3>4, <3>5 DEF Carried, Ordered, Compared, Checked
    <2>3. QED
      BY <1>1, <1>12, <2>1, <2>2 DEF reread
  <1>13. CASE await(r)
    <2>1. q.pc = "waiting" /\ cached' = cached
      BY <1>13 DEF await, cache
    <2>2. CASE /\ serviceConvergedAt(r)
               /\ rq' = [rq EXCEPT ![r].pc = "done", ![r].answer = "waited", ![r].saw = cached]
      <3> DEFINE a == [q EXCEPT !.pc = "done"]
                 b == [a EXCEPT !.answer = "waited"]
                 c == [b EXCEPT !.saw = cached]
      <3>1. a \in RequestState /\ b \in RequestState /\ c \in RequestState
        BY <1>0, FieldTyped DEF Steps, Answers
      <3>2. rq' = [rq EXCEPT ![r] = c]
        BY <2>2
      <3>3. /\ c.pc = "done" /\ c.saw = cached /\ c.wrote = q.wrote
            /\ c.answer = "waited" /\ c.err = q.err /\ c.kind = q.kind
        BY <1>0 DEF RequestState
      <3> HIDE DEF c
      <3>4. /\ rq' \in [Requests -> RequestState] /\ rq'[r] = c
            /\ \A x \in Requests \ {r} : rq'[x] = rq[x]
        BY <1>0, <3>1, <3>2
      <3>5. q.wrote <= cached
        <4>1. q.wrote <= q.ver
          BY <2>1 DEF Ordered
        <4>2. q.ver <= cached
          BY <1>0, <2>2 DEF serviceConvergedAt
        <4>3. QED
          BY <1>0, <4>1, <4>2
      <3>6. QED
        BY <2>1, <3>3, <3>4, <3>5 DEF Carried, Ordered, Compared, Checked
    <2>3. QED
      BY <1>1, <1>13, <2>1, <2>2 DEF await
  <1>14. QED
    BY <1>2, <1>3, <1>4, <1>5, <1>6, <1>7, <1>8, <1>9, <1>10, <1>11, <1>12, <1>13 DEF Request

----------------------------------------------------------------------------
(* What was written, and over what.                                        *)

(* A request writes at most once, over the version it inspected, and once  *)
(* it wrote nothing of what it wrote changes.                              *)
Wrote(r) ==
  /\ rq[r].pc = "send" /\ rq[r].kind \in Updates /\ there /\ Latest = rq[r].over
  /\ Latest < MaxVersion
  /\ applied(r, rq[r].kind = "section", rq[r].adds)
  /\ rq'[r].wrote = Latest + 1 /\ rq'[r].kind = rq[r].kind
  /\ rq'[r].level = rq[r].level /\ rq'[r].seen = rq[r].seen
Keeps(r) ==
  /\ specs' = specs /\ rq'[r].wrote = rq[r].wrote
  /\ rq[r].wrote # none => /\ rq'[r].kind = rq[r].kind /\ rq'[r].level = rq[r].level
                           /\ rq'[r].seen = rq[r].seen /\ rq'[r].err = rq[r].err
                           /\ rq'[r].pc # "send"

LEMMA WritesOnce ==
    ASSUME Typed, NEW r \in Requests, Ordered(rq[r]), Request(r)
    PROVE  Wrote(r) \/ Keeps(r)
  <1> DEFINE q == rq[r]
  <1>0. rq \in [Requests -> RequestState] /\ q \in RequestState /\ none \in Nat /\ Latest \in Nat
    BY NumbersTyped DEF Typed, none
  <1>1. CASE specs' = specs /\ \E code : Answer(r, code)
    <2>1. /\ rq'[r].wrote = q.wrote /\ rq'[r].pc = "done"
          /\ q.wrote # none => /\ rq'[r].kind = q.kind /\ rq'[r].level = q.level
                               /\ rq'[r].seen = q.seen /\ rq'[r].err = q.err
      BY <1>0, <1>1, AnswerShape
    <2>2. QED
      BY <1>1, <2>1 DEF Keeps
  <1>2. CASE specs' = specs /\ \E pc \in Steps \ {"send"} : Goto(r, pc)
    <2>1. PICK pc \in Steps \ {"send"} : Goto(r, pc)
      BY <1>2
    <2>2. rq'[r] = [q EXCEPT !.pc = pc]
      BY <1>0, <2>1, GotoShape
    <2>3. QED
      BY <1>0, <1>2, <2>1, <2>2 DEF Keeps, RequestState
  <1>3. CASE Arrive(r) \/ pinSubjectVersion(r) \/ validate(r) \/ inspect(r)
    <2>1. specs' = specs /\ q.wrote = none
      BY <1>3 DEF Arrive, pinSubjectVersion, validate, inspect, engine, Ordered
    <2>2. CASE \E code : Answer(r, code)
      BY <1>1, <2>1, <2>2
    <2>3. CASE ~ \E code : Answer(r, code)
      <3>1. rq'[r].wrote = q.wrote
        <4>1. CASE Arrive(r)
          BY <1>0, <4>1 DEF Arrive, RequestState
        <4>2. CASE pinSubjectVersion(r)
          BY <1>0, <4>2 DEF pinSubjectVersion, RequestState
        <4>3. CASE validate(r)
          BY <1>0, <2>3, <4>3 DEF validate, RequestState
        <4>4. CASE inspect(r)
          BY <1>0, <2>3, <4>4 DEF inspect, RequestState
        <4>5. QED
          BY <1>3, <4>1, <4>2, <4>3, <4>4
      <3>2. QED
        BY <2>1, <3>1 DEF Keeps
    <2>4. QED
      BY <2>2, <2>3
  <1>4. CASE refreshSubject(r) \/ useCase(r) \/ seedCreated(r)
    <2>1. specs' = specs
      BY <1>4 DEF refreshSubject, useCase, seedCreated, engine
    <2>2. (\E code : Answer(r, code)) \/ \E pc \in {"pin", "expect", "inspect"} : Goto(r, pc)
      BY <1>4 DEF refreshSubject, useCase, seedCreated
    <2>3. QED
      BY <1>1, <1>2, <2>1, <2>2 DEF Steps
  <1>5. CASE settle(r)
    <2>1. specs' = specs
      BY <1>5 DEF settle, engine
    <2>2. (\E code : Answer(r, code)) \/ \E pc \in {"seed", "reread"} : Goto(r, pc)
      BY <1>5 DEF settle, Settled
    <2>3. QED
      BY <1>1, <1>2, <2>1, <2>2 DEF Steps
  <1>6. CASE expect(r)
    <2>1. specs' = specs /\ q.pc = "expect" /\ Goto(r, "send")
      BY <1>6 DEF expect, engine
    <2>2. rq'[r] = [q EXCEPT !.pc = "send"]
      BY <1>0, <2>1, GotoShape DEF Steps
    <2>3. rq'[r].wrote = q.wrote /\ q.wrote = none
      BY <1>0, <2>1, <2>2 DEF RequestState, Ordered
    <2>4. QED
      BY <2>1, <2>3 DEF Keeps
  <1>7. CASE sendUpdate(r)
    <2>1. q.pc = "send" /\ q.wrote = none /\ q.kind \in Updates
      BY <1>7 DEF sendUpdate, Ordered
    <2>2. Conflict(r) \in Errors /\ {"", "ENG001", "SVC003"} \subseteq Errors
          /\ Latest + 1 \in Nat
      BY <1>0 DEF Conflict, Errors
    <2>3. CASE specs' = specs /\ \E err \in Errors : Sent(r, err, none)
      <3>1. rq'[r].wrote = none
        BY <1>0, <2>3, SentShape
      <3>2. QED
        BY <2>1, <2>3, <3>1 DEF Keeps
    <2>4. CASE /\ there /\ Latest = q.over /\ Latest < MaxVersion
               /\ applied(r, q.kind = "section", q.adds)
               /\ \E err \in {"", "ENG001"} : Sent(r, err, Latest + 1)
      <3>1. PICK err \in Errors : Sent(r, err, Latest + 1)
        BY <2>2, <2>4
      <3>2. /\ rq'[r].wrote = Latest + 1 /\ rq'[r].kind = q.kind
            /\ rq'[r].level = q.level /\ rq'[r].seen = q.seen
        BY <1>0, <2>2, <3>1, SentShape
      <3>3. QED
        BY <2>1, <2>4, <3>2 DEF Wrote
    <2>5. QED
      BY <1>7, <2>2, <2>3, <2>4 DEF sendUpdate
  <1>8. CASE sendOther(r)
    <2>1. q.pc = "send" /\ q.wrote = none /\ specs' = specs
      BY <1>8 DEF sendOther, Ordered
    <2>2. PICK err \in Errors : Sent(r, err, none)
      BY <1>8 DEF sendOther, Errors
    <2>3. rq'[r].wrote = none
      BY <1>0, <2>2, SentShape
    <2>4. QED
      BY <2>1, <2>3 DEF Keeps
  <1>9. CASE reread(r) \/ await(r)
    <2>1. specs' = specs
      BY <1>9 DEF reread, await, engine
    <2>2. CASE \E code : Answer(r, code)
      BY <1>1, <2>1, <2>2
    <2>3. CASE ~ \E code : Answer(r, code)
      <3>1. CASE rq' = [rq EXCEPT ![r].pc = "waiting", ![r].ver = Latest]
        BY <1>0, <2>1, <3>1 DEF Keeps, RequestState
      <3>2. CASE rq' = [rq EXCEPT ![r].pc = "done", ![r].answer = "waited", ![r].saw = cached]
        BY <1>0, <2>1, <3>2 DEF Keeps, RequestState
      <3>3. QED
        BY <1>9, <2>3, <3>1, <3>2 DEF reread, await
    <2>4. QED
      BY <2>2, <2>3
  <1>10. QED
    BY <1>3, <1>4, <1>5, <1>6, <1>7, <1>8, <1>9 DEF Request

Written == Authored /\ NoLostUpdate /\ HostAccessKept

LEMMA WrittenKept ==
    ASSUME Typed, Written, Latest' = Latest, specs' = specs,
           \A q \in Requests : /\ rq'[q].wrote = rq[q].wrote
                               /\ rq[q].wrote # none =>
                                    /\ rq'[q].kind = rq[q].kind /\ rq'[q].level = rq[q].level
                                    /\ rq'[q].seen = rq[q].seen
    PROVE  Written'
  <1>1. \A v \in 1..Latest : specs[v].by # other =>
            specs[v].by \in Requests /\ rq[specs[v].by].wrote = v /\ v # none
    BY NumbersTyped DEF Written, Authored, none
  <1>2. Authored'
    BY <1>1 DEF Written, Authored
  <1>3. NoLostUpdate' /\ HostAccessKept'
    BY <1>1, NumbersTyped DEF Written, NoLostUpdate, HostAccessKept
  <1>4. QED
    BY <1>2, <1>3 DEF Written

LEMMA WrittenGrows ==
    ASSUME Typed, Written, Latest < MaxVersion, NEW by \in Requests \cup {other},
           NEW touches \in BOOLEAN, NEW adds \in BOOLEAN, applied(by, touches, adds),
           \A q \in Requests \ {by} : rq'[q] = rq[q],
           by # other => /\ rq[by].wrote = none /\ rq'[by].wrote = Latest + 1
                         /\ rq'[by].kind = rq[by].kind
                         /\ rq'[by].level = rq[by].level /\ rq'[by].seen = rq[by].seen
                         /\ rq[by].kind = "section" /\ rq[by].seen # none =>
                                specs[Latest].part = rq[by].seen
                         /\ rq[by].kind = "section" /\ rq[by].level < 3 =>
                                ~ specs[Latest].host /\ ~ adds
    PROVE  Written'
  <1>1. /\ Latest' = Latest + 1 /\ Latest \in Nat /\ Latest >= 1
        /\ \A v \in 1..Latest : specs'[v] = specs[v]
        /\ specs'[Latest + 1].by = by
        /\ specs'[Latest + 1].host = (specs[Latest].host \/ adds)
    BY AppliedShape, NumbersTyped DEF SpecsGrow
  <1>2. \A v \in 1..Latest : specs[v].by # other =>
            specs[v].by \in Requests /\ rq[specs[v].by].wrote = v /\ v # none
            /\ specs[v].by # by
    BY NumbersTyped DEF Written, Authored, none
  <1>3. \A v \in 1..Latest' : v \in 1..Latest \/ v = Latest + 1
    BY <1>1
  <1>4. Authored'
    <2>1. \A v \in 1..Latest' : specs'[v].by # other => rq'[specs'[v].by].wrote = v
      BY <1>1, <1>2, <1>3
    <2>2. \A r \in Requests : rq'[r].wrote # none => rq'[r].wrote \in 2..Latest'
      <3>1. ASSUME NEW r \in Requests, rq'[r].wrote # none
            PROVE  rq'[r].wrote = Latest + 1 \/ rq'[r].wrote \in 2..Latest
        <4>1. r # other
          BY WritesAssumption DEF WritesAssumption, other
        <4>2. CASE r = by
          BY <4>1, <4>2
        <4>3. CASE r # by
          BY <3>1, <4>3 DEF Written, Authored
        <4>4. QED
          BY <4>2, <4>3
      <3>2. QED
        BY <1>1, <3>1
    <2>3. QED
      BY <2>1, <2>2 DEF Authored
  <1>5. \A v \in 2..Latest' : \/ v \in 2..Latest /\ v - 1 \in 1..Latest
                              \/ v = Latest + 1 /\ v - 1 = Latest /\ Latest \in 1..Latest
    BY <1>1
  <1>6. NoLostUpdate'
    BY <1>1, <1>2, <1>5 DEF Written, NoLostUpdate
  <1>7. HostAccessKept'
    BY <1>1, <1>2, <1>5 DEF Written, HostAccessKept
  <1>8. QED
    BY <1>4, <1>6, <1>7 DEF Written

LEMMA RequestWrites ==
    ASSUME Typed, Written, NEW r \in Requests, Ordered(rq[r]), Checked(rq[r]), Request(r),
           Carried(r)
    PROVE  Written'
  <1>0. \A q \in Requests \ {r} : rq'[q] = rq[q]
    BY DEF Carried
  <1>1. CASE Keeps(r)
    BY <1>0, <1>1, WrittenKept, SpecsKept DEF Keeps
  <1>2. CASE Wrote(r)
    <2>1. r # other /\ rq[r].adds \in BOOLEAN /\ (rq[r].kind = "section") \in BOOLEAN
      BY NumbersTyped, WritesAssumption DEF RequestState, WritesAssumption, other
    <2>2. rq[r].wrote = none
      BY <1>2 DEF Wrote, Ordered
    <2>3. QED
      BY <1>0, <1>2, <2>1, <2>2, WrittenGrows DEF Wrote, Checked
  <1>3. QED
    BY <1>1, <1>2, WritesOnce

LEMMA StepWrites ==
    ASSUME Typed, Present, RequestInv, Written, [Next]_vars
    PROVE  Written'
  <1>1. ASSUME NEW r \in Requests, Request(r) PROVE Written'
    BY <1>1, RequestCarries, RequestWrites DEF RequestInv, Written
  <1>2. CASE OutsideUpdate
    <2>1. PICK touches \in BOOLEAN : applied(other, touches, ~ touches)
      BY <1>2 DEF OutsideUpdate
    <2>2. (~ touches) \in BOOLEAN /\ other \in Requests \cup {other}
      OBVIOUS
    <2>3. QED
      BY <1>2, <2>1, <2>2, WrittenGrows DEF OutsideUpdate
  <1>3. CASE UNCHANGED <<specs, rq>>
    BY <1>3, WrittenKept, SpecsKept
  <1>4. QED
    BY <1>1, <1>2, <1>3 DEF Next, Lapse, Deliver, DeliverConfig, Sync, OutsideRemove, engine, vars

----------------------------------------------------------------------------
(* Attributions.                                                           *)

Acts == {"change", "remove", "create"}
Expectations == [by : Requests, act : Acts, after : none..Latest]

LEMMA PendingTyped ==
    ASSUME Typed
    PROVE  /\ pending \in Seq(Expectations) /\ Len(pending) \in Nat
           /\ DOMAIN pending = 1..Len(pending)
           /\ \A i \in DOMAIN pending : /\ pending[i] \in Expectations
                                        /\ pending[i].by \in Requests /\ pending[i].act \in Acts
                                        /\ pending[i].after \in Nat /\ pending[i].after <= Latest
  <1>1. pending \in Seq(Expectations)
    BY DEF Typed, TypeOK, Expectations, Acts
  <1>2. Len(pending) \in Nat /\ DOMAIN pending = 1..Len(pending)
        /\ \A i \in DOMAIN pending : pending[i] \in Expectations
    BY <1>1
  <1>3. Latest \in Nat
    BY NumbersTyped
  <1>4. QED
    BY <1>1, <1>2, <1>3 DEF Expectations, none

(* match's loop ends with a best hit whenever there is one.                *)
LEMMA BestExists ==
    ASSUME Typed, NEW hits \in SUBSET DOMAIN pending, hits # {}
    PROVE  \E i \in hits : \A j \in hits :
              \/ pending[j].after < pending[i].after
              \/ pending[j].after = pending[i].after /\ i <= j
  <1> DEFINE T == {pending[i].after : i \in hits}
  <1>1. T \subseteq Nat /\ T # {} /\ Latest \in Nat /\ \A n \in T : n <= Latest
    BY PendingTyped, NumbersTyped
  <1>2. PICK top \in T : \A n \in T : n <= top
    BY <1>1, GreatestNatural
  <1> DEFINE I == {i \in hits : pending[i].after = top}
  <1>3. I \subseteq Nat /\ I # {}
    BY PendingTyped
  <1>4. PICK i \in I : \A j \in I : i <= j
    BY <1>3, LeastNatural
  <1>5. \A j \in hits : pending[j].after \in Nat /\ pending[j].after <= top /\ top \in Nat
    BY <1>1, <1>2, PendingTyped
  <1>6. QED
    BY <1>4, <1>5

Hits(e) == {i \in DOMAIN pending : matches(pending[i], e)}

LEMMA MatchShape ==
    ASSUME Typed, NEW e
    PROVE  /\ match(e).kept \in Seq(Expectations)
           /\ Len(match(e).kept) <= Len(pending)
           /\ match(e).named \in Requests \cup {nobody}
           /\ Hits(e) # {} => match(e).named \in Requests
           /\ \A i \in DOMAIN match(e).kept : \E j \in DOMAIN pending :
                 pending[j] = match(e).kept[i]
           /\ \A j \in DOMAIN pending :
                 pending[j].act # e.act \/ (e.act = "change" /\ ~ matches(pending[j], e)) =>
                    \E i \in DOMAIN match(e).kept : match(e).kept[i] = pending[j]
  <1> DEFINE hits == Hits(e)
             best == CHOOSE i \in hits : \A j \in hits :
                       \/ pending[j].after < pending[i].after
                       \/ pending[j].after = pending[i].after /\ i <= j
             consumed == IF e.act = "change" THEN {pending[i] : i \in hits} ELSE {pending[best]}
  <1>0. /\ pending \in Seq(Expectations) /\ Len(pending) \in Nat
        /\ \A i \in DOMAIN pending : pending[i].by \in Requests
    BY PendingTyped
  <1>1. CASE hits = {}
    <2>1. match(e) = [named |-> nobody, kept |-> pending]
      BY <1>1 DEF match, Hits
    <2>2. QED
      BY <1>0, <1>1, <2>1
  <1>2. CASE hits # {}
    <2>1. match(e) = [named |-> pending[best].by, kept |-> Sifted(pending, consumed)]
      BY <1>2 DEF match, Hits
    <2>2. best \in hits
      <3>1. \E i \in hits : \A j \in hits :
              \/ pending[j].after < pending[i].after
              \/ pending[j].after = pending[i].after /\ i <= j
        <4>1. hits \in SUBSET DOMAIN pending
          BY DEF Hits
        <4> HIDE DEF hits
        <4>2. QED
          BY <1>2, <4>1, BestExists
      <3> HIDE DEF hits
      <3>2. QED
        BY <3>1
    <2> HIDE DEF best
    <2>3. best \in DOMAIN pending /\ matches(pending[best], e)
      BY <2>2 DEF Hits
    <2>4. ASSUME NEW j \in DOMAIN pending,
                 pending[j].act # e.act \/ (e.act = "change" /\ ~ matches(pending[j], e))
          PROVE  pending[j] \notin consumed
      <3>1. CASE e.act = "change"
        <4>1. \A i \in hits : matches(pending[i], e) /\ pending[i].act = "change"
          BY <3>1 DEF Hits, matches
        <4>2. QED
          BY <2>4, <3>1, <4>1
      <3>2. CASE e.act # "change"
        BY <2>3, <2>4, <3>2 DEF matches
      <3>3. QED
        BY <3>1, <3>2
    <2> HIDE DEF consumed
    <2>5. /\ Sifted(pending, consumed) \in Seq(Expectations)
          /\ Len(Sifted(pending, consumed)) <= Len(pending)
          /\ \A i \in DOMAIN Sifted(pending, consumed) : \E j \in DOMAIN pending :
                pending[j] = Sifted(pending, consumed)[i]
          /\ \A j \in DOMAIN pending : pending[j] \notin consumed =>
                \E i \in DOMAIN Sifted(pending, consumed) :
                   Sifted(pending, consumed)[i] = pending[j]
      BY <1>0, SiftedKeeps
    <2>6. match(e).kept = Sifted(pending, consumed) /\ match(e).named = pending[best].by
      BY <2>1
    <2>7. QED
      BY <1>0, <2>3, <2>4, <2>5, <2>6
  <1>3. QED
    BY <1>1, <1>2


(* What a step may do to the expectations, the history and what the cache  *)
(* shows: an expected change is still expected unless it was forgotten,    *)
(* passed by the cache, or withdrawn with the write; an expectation is old *)
(* or the one just registered; and a change is recorded only when the      *)
(* cache moves to it, named if an expectation matches.                     *)
Entries == [act : Acts, ver : none..Latest, named : Requests \cup {nobody}]
QueueTyped ==
  /\ pending' \in Seq(Expectations') /\ Len(pending') <= MaxPending
  /\ forgotten \subseteq forgotten' /\ forgotten' \subseteq Requests
  /\ history' \subseteq Entries'
  /\ \A h \in history' : h.act = "change" => h.ver # none
Withdraws(r) == settle(r) /\ rq[r].err # ""
Survives ==
  \A r \in Requests : \A after \in Nat : Awaited(r, after) =>
    \/ Awaited(r, after)' \/ r \in forgotten' \/ cached' = none \/ after < cached'
    \/ Withdraws(r)
Origin ==
  \A i \in DOMAIN pending' :
    \/ \E j \in DOMAIN pending : pending[j] = pending'[i]
    \/ \E r \in Requests : expect(r) /\ pending'[i].by = r
Recorded ==
  \A h \in history' :
    \/ h \in history
    \/ h.act # "change"
    \/ /\ specs' = specs /\ forgotten' = forgotten
       /\ cached # none /\ cached < h.ver /\ h.ver <= Latest
       /\ Hits([act |-> "change", ver |-> h.ver]) # {} => h.named \in Requests
Effects == QueueTyped /\ Survives /\ Origin /\ Recorded

LEMMA EntriesTyped ==
    ASSUME Typed
    PROVE  /\ history \subseteq Entries /\ forgotten \subseteq Requests
           /\ Len(pending) <= MaxPending /\ MaxPending \in Nat /\ MaxPending >= 1
           /\ \A h \in history : h.act = "change" => h.ver # none
  BY WritesAssumption DEF Typed, TypeOK, Entries, Acts, WritesAssumption

(* A later version leaves what is expected and recorded in its type.       *)
LEMMA ExpectationsGrow ==
    ASSUME SpecsGrow
    PROVE  /\ Expectations \subseteq Expectations' /\ Entries \subseteq Entries'
           /\ \A s \in Seq(Expectations) : s \in Seq(Expectations')
  <1>1. none..Latest \subseteq none..Latest'
    BY DEF SpecsGrow, none
  <1>2. Expectations \subseteq Expectations'
    BY <1>1 DEF Expectations
  <1>3. Entries \subseteq Entries'
    BY <1>1 DEF Entries
  <1>4. ASSUME NEW s \in Seq(Expectations) PROVE s \in Seq(Expectations')
    BY <1>2
  <1>5. QED
    BY <1>2, <1>3, <1>4

(* A step that touches neither. *)
LEMMA QuietEffects ==
    ASSUME Typed, SpecsGrow, UNCHANGED <<pending, forgotten, history>>
    PROVE  Effects
  <1>1. QueueTyped
    BY ExpectationsGrow, PendingTyped, EntriesTyped DEF QueueTyped
  <1>2. Survives
    BY DEF Survives, Awaited
  <1>3. Origin /\ Recorded
    BY DEF Origin, Recorded
  <1>4. QED
    BY <1>1, <1>2, <1>3 DEF Effects

(* Cache.notify, with the cache moved to what the event tells. *)
LEMMA NotifyEffects ==
    ASSUME Typed, NEW act \in Acts, NEW ver \in Nat, ver <= Latest,
           notify([act |-> act, ver |-> ver]), specs' = specs, forgotten' = forgotten,
           act = "change" => cached # none /\ cached < ver /\ cached' = ver
    PROVE  Effects
  <1> DEFINE e == [act |-> act, ver |-> ver]
             m == match(e)
             h == [act |-> act, ver |-> ver, named |-> m.named]
  <1>1. /\ m.kept \in Seq(Expectations)
        /\ Len(m.kept) <= Len(pending)
        /\ m.named \in Requests \cup {nobody}
        /\ Hits(e) # {} => m.named \in Requests
        /\ \A i \in DOMAIN m.kept : \E j \in DOMAIN pending : pending[j] = m.kept[i]
        /\ \A j \in DOMAIN pending :
              pending[j].act # e.act \/ (e.act = "change" /\ ~ matches(pending[j], e)) =>
                 \E i \in DOMAIN m.kept : m.kept[i] = pending[j]
    BY MatchShape
  <1>2. pending' = m.kept /\ history' = history \cup {h}
    BY DEF notify
  <1> HIDE DEF m
  <1>3. Latest' = Latest /\ SpecsGrow
    BY SpecsKept
  <1>4. /\ Len(m.kept) \in Nat /\ Len(pending) \in Nat /\ cached \in Nat /\ Latest \in Nat
        /\ none \in Nat
    BY <1>1, PendingTyped, NumbersTyped DEF none
  <1>5. act = "change" => ver # none
    BY <1>4 DEF none
  <1>6. h \in Entries /\ (h.act = "change" => h.ver # none)
    <2>1. ver \in none..Latest
      BY <1>4 DEF none
    <2>2. QED
      BY <1>1, <1>5, <2>1 DEF Entries
  <1>7. ASSUME NEW r \in Requests, NEW after \in Nat, Awaited(r, after)
        PROVE  Awaited(r, after)' \/ (act = "change" /\ after < cached')
    <2>1. PICK j \in DOMAIN pending : pending[j] = [by |-> r, act |-> "change", after |-> after]
      BY <1>7 DEF Awaited
    <2>2. CASE act = "change" /\ ver > after
      BY <2>2
    <2>3. CASE ~ (act = "change" /\ ver > after)
      <3>1. pending[j].act # e.act \/ (e.act = "change" /\ ~ matches(pending[j], e))
        BY <2>1, <2>3 DEF matches
      <3>2. PICK i \in DOMAIN m.kept : m.kept[i] = pending[j]
        BY <1>1, <3>1
      <3>3. QED
        BY <1>2, <2>1, <3>2 DEF Awaited
    <2>4. QED
      BY <2>2, <2>3
  <1>8. QueueTyped
    <2>1. m.kept \in Seq(Expectations') /\ Entries' = Entries
      BY <1>1, <1>3, ExpectationsGrow DEF Entries
    <2>2. Len(m.kept) <= MaxPending
      BY <1>1, <1>4, EntriesTyped
    <2>3. QED
      BY <1>2, <1>6, <2>1, <2>2, EntriesTyped DEF QueueTyped
  <1>9. Survives
    BY <1>7 DEF Survives
  <1>10. Origin
    BY <1>1, <1>2 DEF Origin
  <1>11. Recorded
    <2>1. h.act = act /\ h.ver = ver /\ h.named = m.named
      OBVIOUS
    <2>2. act = "change" => e = [act |-> "change", ver |-> h.ver]
      OBVIOUS
    <2>3. QED
      BY <1>1, <1>2, <2>1, <2>2 DEF Recorded
  <1>12. QED
    BY <1>8, <1>9, <1>10, <1>11 DEF Effects

(* The oldest expectation goes, its request is forgotten. *)
LEMMA TailKeeps ==
    ASSUME Typed, pending # <<>>
    PROVE  /\ Tail(pending) \in Seq(Expectations) /\ Len(Tail(pending)) = Len(pending) - 1
           /\ Head(pending) = pending[1] /\ Head(pending).by \in Requests
           /\ \A i \in DOMAIN Tail(pending) : /\ i + 1 \in DOMAIN pending
                                              /\ Tail(pending)[i] = pending[i + 1]
           /\ \A j \in DOMAIN pending :
                 \/ pending[j] = Head(pending)
                 \/ j - 1 \in DOMAIN Tail(pending) /\ Tail(pending)[j - 1] = pending[j]
  <1>1. /\ pending \in Seq(Expectations) /\ Len(pending) \in Nat
        /\ \A i \in DOMAIN pending : pending[i].by \in Requests
    BY PendingTyped
  <1>2. Len(pending) >= 1 /\ DOMAIN pending = 1..Len(pending) /\ 1 \in DOMAIN pending
    BY <1>1
  <1>3. Head(pending) = pending[1]
    BY <1>1, <1>2
  <1>4. /\ Tail(pending) \in Seq(Expectations) /\ Len(Tail(pending)) = Len(pending) - 1
        /\ DOMAIN Tail(pending) = 1..Len(pending) - 1
        /\ \A i \in 1..Len(pending) - 1 : Tail(pending)[i] = pending[i + 1]
    BY <1>1, <1>2
  <1>5. ASSUME NEW j \in DOMAIN pending, j # 1
        PROVE  j - 1 \in DOMAIN Tail(pending) /\ Tail(pending)[j - 1] = pending[j]
    BY <1>1, <1>2, <1>4, <1>5
  <1>6. QED
    BY <1>1, <1>2, <1>3, <1>4, <1>5

LEMMA LapseEffects ==
    ASSUME Typed, Lapse
    PROVE  Effects
  <1>1. /\ pending # <<>> /\ pending' = Tail(pending)
        /\ forgotten' = forgotten \cup {Head(pending).by}
        /\ specs' = specs /\ history' = history
    BY DEF Lapse, engine
  <1>2. SpecsGrow
    BY <1>1, SpecsKept
  <1>3. QueueTyped
    <2>1. pending' \in Seq(Expectations') /\ history' \subseteq Entries'
      BY <1>1, <1>2, TailKeeps, ExpectationsGrow, EntriesTyped
    <2>2. Len(pending') <= MaxPending
      BY <1>1, TailKeeps, EntriesTyped, PendingTyped
    <2>3. QED
      BY <1>1, <2>1, <2>2, TailKeeps, EntriesTyped DEF QueueTyped
  <1>4. Survives
    <2>1. ASSUME NEW r \in Requests, NEW after \in Nat, Awaited(r, after)
          PROVE  Awaited(r, after)' \/ r \in forgotten'
      <3>1. PICK j \in DOMAIN pending : pending[j] = [by |-> r, act |-> "change", after |-> after]
        BY <2>1 DEF Awaited
      <3>2. CASE pending[j] = Head(pending)
        BY <1>1, <3>1, <3>2
      <3>3. CASE j - 1 \in DOMAIN Tail(pending) /\ Tail(pending)[j - 1] = pending[j]
        BY <1>1, <3>1, <3>3 DEF Awaited
      <3>4. QED
        BY <1>1, <3>2, <3>3, TailKeeps
    <2>2. QED
      BY <2>1 DEF Survives
  <1>5. Origin
    BY <1>1, TailKeeps DEF Origin
  <1>6. Recorded
    BY <1>1 DEF Recorded
  <1>7. QED
    BY <1>3, <1>4, <1>5, <1>6 DEF Effects

(* expect registers what the request is about to send, at the cap in place *)
(* of the oldest.                                                          *)
LEMMA ExpectEffects ==
    ASSUME Typed, NEW r \in Requests, expect(r)
    PROVE  /\ Effects
           /\ rq[r].kind \in Updates => \A over : over = rq[r].over => Awaited(r, over)'
  <1> DEFINE act == CASE rq[r].kind = "remove" -> "remove" [] rq[r].kind = "create" -> "create"
                      [] OTHER -> "change"
             new == [by |-> r, act |-> act, after |-> rq[r].over]
  <1>1. ExpectedAfter(r, act, rq[r].over) /\ specs' = specs /\ history' = history
    BY DEF expect, engine
  <1>2. act \in Acts /\ (rq[r].kind \in Updates => act = "change")
    BY DEF Acts, Updates
  <1> HIDE DEF act
  <1>3. new \in Expectations
    BY <1>2 DEF Expectations, Typed, TypeOK
  <1>4. new.by = r
    OBVIOUS
  <1>5. rq[r].kind \in Updates => new = [by |-> r, act |-> "change", after |-> rq[r].over]
    BY <1>2
  <1>6. \/ /\ Len(pending) >= MaxPending
           /\ pending' = Append(Tail(pending), new) /\ forgotten' = forgotten \cup {Head(pending).by}
        \/ /\ ~ (Len(pending) >= MaxPending)
           /\ pending' = Append(pending, new) /\ forgotten' = forgotten
    BY <1>1 DEF ExpectedAfter
  <1>7. SpecsGrow
    BY <1>1, SpecsKept
  <1>8. /\ pending \in Seq(Expectations) /\ Len(pending) \in Nat
        /\ MaxPending \in Nat /\ MaxPending >= 1 /\ Len(pending) <= MaxPending
    BY PendingTyped, EntriesTyped
  <1>9. PICK old \in Seq(Expectations) :
          /\ pending' = Append(old, new) /\ Len(old) \in Nat /\ Len(old) + 1 <= MaxPending
          /\ \A i \in DOMAIN old : \E j \in DOMAIN pending : old[i] = pending[j]
          /\ \A j \in DOMAIN pending :
                pending[j].by \in forgotten' \/ \E i \in DOMAIN old : old[i] = pending[j]
          /\ forgotten \subseteq forgotten' /\ forgotten' \subseteq Requests
    <2>1. CASE Len(pending) >= MaxPending
      <3>1. pending # <<>>
        BY <1>8, <2>1
      <3>2. /\ pending' = Append(Tail(pending), new)
            /\ forgotten' = forgotten \cup {Head(pending).by}
        BY <1>6, <2>1
      <3>3. Len(Tail(pending)) \in Nat /\ Len(Tail(pending)) + 1 <= MaxPending
        BY <1>8, <3>1, TailKeeps
      <3>4. QED
        BY <3>1, <3>2, <3>3, TailKeeps, EntriesTyped
    <2>2. CASE ~ (Len(pending) >= MaxPending)
      <3>1. pending' = Append(pending, new) /\ forgotten' = forgotten
        BY <1>6, <2>2
      <3>2. Len(pending) + 1 <= MaxPending
        BY <1>8, <2>2
      <3>3. QED
        BY <1>8, <3>1, <3>2, EntriesTyped
    <2>3. QED
      BY <2>1, <2>2
  <1> HIDE DEF new
  <1>10. /\ pending' \in Seq(Expectations) /\ Len(pending') = Len(old) + 1
         /\ DOMAIN pending' = 1..Len(old) + 1 /\ DOMAIN old = 1..Len(old)
         /\ \A i \in 1..Len(old) : pending'[i] = old[i]
         /\ pending'[Len(old) + 1] = new
         /\ Len(old) + 1 \in 1..Len(old) + 1
    BY <1>3, <1>9
  <1>11. \A i \in DOMAIN old : i \in DOMAIN pending' /\ pending'[i] = old[i]
    BY <1>9, <1>10
  <1>12. \A i \in DOMAIN pending' : i \in DOMAIN old \/ pending'[i] = new
    BY <1>9, <1>10
  <1>13. QueueTyped
    BY <1>1, <1>7, <1>9, <1>10, ExpectationsGrow, EntriesTyped DEF QueueTyped
  <1>14. Survives
    <2>1. ASSUME NEW q \in Requests, NEW after \in Nat, Awaited(q, after)
          PROVE  Awaited(q, after)' \/ q \in forgotten'
      <3>1. PICK j \in DOMAIN pending : pending[j] = [by |-> q, act |-> "change", after |-> after]
        BY <2>1 DEF Awaited
      <3>2. CASE pending[j].by \in forgotten'
        BY <3>1, <3>2
      <3>3. CASE \E i \in DOMAIN old : old[i] = pending[j]
        BY <1>11, <3>1, <3>3 DEF Awaited
      <3>4. QED
        BY <1>9, <3>2, <3>3
    <2>2. QED
      BY <2>1 DEF Survives
  <1>15. Origin
    BY <1>4, <1>9, <1>11, <1>12 DEF Origin
  <1>16. Recorded
    BY <1>1 DEF Recorded
  <1>17. rq[r].kind \in Updates => \A over : over = rq[r].over => Awaited(r, over)'
    <2>1. SUFFICES ASSUME rq[r].kind \in Updates
                   PROVE  \E i \in DOMAIN pending' :
                            pending'[i] = [by |-> r, act |-> "change", after |-> rq[r].over]
      BY DEF Awaited
    <2>2. QED
      BY <1>5, <1>10, <2>1
  <1>18. QED
    BY <1>13, <1>14, <1>15, <1>16, <1>17 DEF Effects

(* settle withdraws what a refused write expected, and nothing else.       *)
LEMMA SettleEffects ==
    ASSUME Typed, NEW r \in Requests, settle(r)
    PROVE  /\ Effects
           /\ Withdraws(r) => \A i \in DOMAIN pending' : pending'[i].by # r
  <1>1. specs' = specs /\ history' = history /\ forgotten' = forgotten
    BY DEF settle, engine
  <1>2. SpecsGrow
    BY <1>1, SpecsKept
  <1>3. CASE rq[r].err = ""
    <2>1. pending' = pending
      BY <1>3 DEF settle
    <2>2. QED
      BY <1>1, <1>2, <1>3, <2>1, QuietEffects DEF Withdraws
  <1>4. CASE rq[r].err # ""
    <2> DEFINE J == {j \in DOMAIN pending : pending[j].by = r}
               C == {pending[i] : i \in J}
    <2>1. pending' = Sifted(pending, C)
      BY <1>4 DEF settle
    <2>2. \A j \in DOMAIN pending : pending[j] \in C <=> pending[j].by = r
      OBVIOUS
    <2> HIDE DEF C
    <2>3. pending \in Seq(Expectations) /\ Len(pending) \in Nat
      BY PendingTyped
    <2>4. /\ pending' \in Seq(Expectations)
          /\ Len(pending') <= Len(pending)
          /\ \A i \in DOMAIN pending' :
                pending'[i] \notin C /\ \E j \in DOMAIN pending : pending[j] = pending'[i]
          /\ \A j \in DOMAIN pending :
                pending[j] \notin C => \E i \in DOMAIN pending' : pending'[i] = pending[j]
      BY <2>1, <2>3, SiftedKeeps
    <2>5. QueueTyped
      <3>1. Len(pending') \in Nat
        BY <2>4
      <3>2. Len(pending') <= MaxPending
        BY <2>3, <2>4, <3>1, EntriesTyped
      <3>3. QED
        BY <1>1, <1>2, <2>4, <3>2, ExpectationsGrow, EntriesTyped DEF QueueTyped
    <2>6. Survives
      <3>1. ASSUME NEW q \in Requests, NEW after \in Nat, Awaited(q, after)
            PROVE  Awaited(q, after)' \/ Withdraws(q)
        <4>1. PICK j \in DOMAIN pending :
                pending[j] = [by |-> q, act |-> "change", after |-> after]
          BY <3>1 DEF Awaited
        <4>2. CASE q = r
          BY <1>4, <4>2 DEF Withdraws
        <4>3. CASE q # r
          <5>1. pending[j] \notin C
            BY <2>2, <4>1, <4>3
          <5>2. QED
            BY <2>4, <4>1, <5>1 DEF Awaited
        <4>4. QED
          BY <4>2, <4>3
      <3>2. QED
        BY <3>1 DEF Survives
    <2>7. Origin /\ Recorded
      BY <1>1, <2>4 DEF Origin, Recorded
    <2>8. \A i \in DOMAIN pending' : pending'[i].by # r
      BY <2>2, <2>4
    <2>9. QED
      BY <2>5, <2>6, <2>7, <2>8 DEF Effects
  <1>5. QED
    BY <1>3, <1>4

(* Every step of a request, and every other. *)
LEMMA RequestEffects ==
    ASSUME Typed, Present, NEW r \in Requests, Request(r)
    PROVE  Effects
  <1>0. /\ SpecsGrow /\ cached \in Nat /\ Latest \in Nat /\ none \in Nat /\ none <= Latest
        /\ cached <= Latest
    BY RequestForwards, NumbersTyped DEF none
  <1>1. CASE UNCHANGED <<pending, forgotten, history>>
    BY <1>0, <1>1, QuietEffects
  <1>2. CASE refreshSubject(r)
    <2>1. specs' = specs /\ forgotten' = forgotten
      BY <1>2 DEF refreshSubject, engine
    <2>2. CASE there /\ cached # Latest /\ stored(Latest)
      <3>1. cached # none /\ cached < Latest
        BY <1>0, <2>2 DEF Present
      <3>2. notify([act |-> "change", ver |-> Latest]) /\ cached' = Latest
        BY <2>2 DEF stored
      <3>3. "change" \in Acts
        BY DEF Acts
      <3>4. QED
        BY <1>0, <2>1, <3>1, <3>2, <3>3, NotifyEffects
    <2>3. CASE removed
      <3>1. notify([act |-> "remove", ver |-> none]) /\ "remove" \in Acts
        BY <2>3 DEF removed, Acts
      <3>2. QED
        BY <1>0, <2>1, <3>1, NotifyEffects
    <2>4. QED
      BY <1>1, <1>2, <2>1, <2>2, <2>3 DEF refreshSubject
  <1>3. CASE seedCreated(r)
    <2>1. specs' = specs /\ forgotten' = forgotten
      BY <1>3 DEF seedCreated, engine
    <2>2. CASE notify([act |-> "create", ver |-> none])
      BY <1>0, <2>1, <2>2, NotifyEffects DEF Acts
    <2>3. QED
      BY <1>1, <1>3, <2>1, <2>2 DEF seedCreated
  <1>4. CASE expect(r)
    BY <1>4, ExpectEffects
  <1>5. CASE settle(r)
    BY <1>5, SettleEffects
  <1>6. QED
    BY <1>1, <1>2, <1>3, <1>4, <1>5
       DEF Request, Arrive, pinSubjectVersion, validate, useCase, inspect, sendUpdate,
           sendOther, reread, await, cache

LEMMA StepEffects ==
    ASSUME Typed, Present, [Next]_vars
    PROVE  Effects
  <1>0. /\ SpecsGrow /\ cached \in Nat /\ Latest \in Nat /\ none \in Nat /\ none <= Latest
        /\ cached <= Latest
    BY StepForwards, NumbersTyped DEF none
  <1>1. CASE UNCHANGED <<pending, forgotten, history>>
    BY <1>0, <1>1, QuietEffects
  <1>2. CASE Deliver
    <2>1. specs' = specs /\ forgotten' = forgotten /\ cached # none
      BY <1>2 DEF Deliver, engine
    <2>2. ASSUME NEW v \in (cached + 1)..Latest, stored(v) PROVE Effects
      <3>1. v \in Nat /\ v <= Latest /\ cached < v /\ "change" \in Acts
        BY <1>0 DEF Acts
      <3>2. notify([act |-> "change", ver |-> v]) /\ cached' = v
        BY <2>2 DEF stored
      <3>3. QED
        BY <2>1, <3>1, <3>2, NotifyEffects
    <2>3. CASE removed
      <3>1. notify([act |-> "remove", ver |-> none]) /\ "remove" \in Acts
        BY <2>3 DEF removed, Acts
      <3>2. QED
        BY <1>0, <2>1, <3>1, NotifyEffects
    <2>4. QED
      BY <1>2, <2>2, <2>3 DEF Deliver
  <1>3. CASE DeliverConfig
    <2>1. specs' = specs /\ forgotten' = forgotten
      BY <1>3 DEF DeliverConfig
    <2>2. CASE \E act \in {"remove", "create"} : notify([act |-> act, ver |-> none])
      BY <1>0, <2>1, <2>2, NotifyEffects DEF Acts
    <2>3. QED
      BY <1>1, <1>3, <2>1, <2>2 DEF DeliverConfig
  <1>4. QED
    BY <1>1, <1>2, <1>3, LapseEffects, RequestEffects
       DEF Next, Sync, OutsideUpdate, OutsideRemove, cache, vars

(* What a request's own step does to the expectation it has.               *)
LEMMA RequestSends ==
    ASSUME Typed, NEW r \in Requests, Ordered(rq[r]), Request(r)
    PROVE  /\ rq'[r].pc = "send" => expect(r)
           /\ rq'[r].err # "" => rq'[r].pc = "settle" \/ Withdraws(r)
  <1> DEFINE q == rq[r]
  <1>0. rq \in [Requests -> RequestState] /\ q \in RequestState /\ none \in Nat /\ Latest \in Nat
    BY NumbersTyped DEF Typed, none
  <1>1. CASE ~ settle(r) /\ q.pc # "settle" /\ \E code : Answer(r, code)
    <2>1. q.pc # "done"
      BY DEF Request, Arrive, refreshSubject, pinSubjectVersion, validate, useCase, inspect,
             expect, sendUpdate, sendOther, settle, seedCreated, reread, await
    <2>2. q.err = ""
      BY <1>1, <2>1 DEF Ordered
    <2>3. /\ rq'[r].pc = "done"
          /\ q.wrote # none => rq'[r].err = q.err
          /\ q.wrote = none => rq'[r].err = ""
      BY <1>0, <1>1, AnswerShape
    <2>4. QED
      BY <2>2, <2>3
  <1>2. CASE q.pc # "settle" /\ q.pc # "done" /\ \E pc \in Steps \ {"send"} : Goto(r, pc)
    <2>1. PICK pc \in Steps \ {"send"} : Goto(r, pc)
      BY <1>2
    <2>2. rq'[r] = [q EXCEPT !.pc = pc]
      BY <1>0, <2>1, GotoShape
    <2>3. q.err = ""
      BY <1>2 DEF Ordered
    <2>4. QED
      BY <1>0, <2>1, <2>2, <2>3 DEF RequestState
  <1>3. CASE sendUpdate(r) \/ sendOther(r)
    <2>1. PICK err \in Errors, wrote \in Nat : Sent(r, err, wrote)
      <3>1. Conflict(r) \in Errors /\ {"", "ENG001", "SVC003", "CFG003"} \subseteq Errors
            /\ Latest + 1 \in Nat
        BY <1>0 DEF Conflict, Errors
      <3>2. QED
        BY <1>0, <1>3, <3>1 DEF sendUpdate, sendOther
    <2>2. rq'[r].pc = "settle"
      BY <1>0, <2>1, SentShape
    <2>3. QED
      BY <2>2
  <1>4. CASE settle(r)
    <2>1. CASE q.err # ""
      <3>1. Answer(r, q.err)
        BY <1>4, <2>1 DEF settle, Settled
      <3>2. rq'[r].pc = "done"
        BY <1>0, <3>1, AnswerShape
      <3>3. QED
        BY <1>4, <2>1, <3>2 DEF Withdraws
    <2>2. CASE q.err = "" /\ Answer(r, "204")
      <3>1. rq'[r].pc = "done" /\ rq'[r].err = ""
        BY <1>0, <2>2, AnswerShape
      <3>2. QED
        BY <3>1
    <2>3. CASE q.err = "" /\ \E pc \in {"seed", "reread"} : Goto(r, pc)
      <3>1. PICK pc \in {"seed", "reread"} : Goto(r, pc)
        BY <2>3
      <3>2. rq'[r] = [q EXCEPT !.pc = pc]
        BY <1>0, <3>1, GotoShape DEF Steps
      <3>3. QED
        BY <1>0, <2>3, <3>1, <3>2 DEF RequestState
    <2>4. QED
      BY <1>4, <2>1, <2>2, <2>3 DEF settle, Settled
  <1>5. CASE expect(r)
    <2>1. q.pc = "expect" /\ rq'[r] = [q EXCEPT !.pc = "send"]
      BY <1>0, <1>5, GotoShape DEF expect, Steps
    <2>2. q.err = ""
      BY <2>1 DEF Ordered
    <2>3. QED
      BY <1>0, <1>5, <2>1, <2>2 DEF RequestState
  <1>6. CASE refreshSubject(r) \/ useCase(r) \/ seedCreated(r)
    <2>1. (\E code : Answer(r, code)) \/ \E pc \in {"pin", "expect", "inspect"} : Goto(r, pc)
      BY <1>6 DEF refreshSubject, useCase, seedCreated
    <2>2. q.pc \in {"refresh", "use", "seed"} /\ ~ settle(r)
      BY <1>6 DEF refreshSubject, useCase, seedCreated, settle
    <2>3. QED
      BY <1>1, <1>2, <2>1, <2>2 DEF Steps
  <1>7. CASE /\ Arrive(r) \/ pinSubjectVersion(r) \/ validate(r) \/ inspect(r)
                \/ reread(r) \/ await(r)
    <2>1. q.pc \in {"idle", "pin", "validate", "inspect", "reread", "waiting"} /\ ~ settle(r)
      BY <1>7 DEF Arrive, pinSubjectVersion, validate, inspect, reread, await, settle
    <2>2. q.err = ""
      BY <2>1 DEF Ordered
    <2>3. CASE \E code : Answer(r, code)
      BY <1>1, <2>1, <2>3
    <2>4. CASE ~ \E code : Answer(r, code)
      <3>1. rq'[r].pc # "send"
        <4>1. CASE Arrive(r)
          BY <1>0, <2>4, <4>1 DEF Arrive, RequestState
        <4>2. CASE pinSubjectVersion(r)
          BY <1>0, <2>4, <4>2 DEF pinSubjectVersion, RequestState
        <4>3. CASE validate(r)
          BY <1>0, <2>4, <4>3 DEF validate, RequestState
        <4>4. CASE inspect(r)
          BY <1>0, <2>4, <4>4 DEF inspect, RequestState
        <4>5. CASE reread(r)
          BY <1>0, <2>4, <4>5 DEF reread, RequestState
        <4>6. CASE await(r)
          BY <1>0, <2>4, <4>6 DEF await, RequestState
        <4>7. QED
          BY <1>7, <4>1, <4>2, <4>3, <4>4, <4>5, <4>6
      <3>2. rq'[r].err = q.err
        <4>1. CASE Arrive(r)
          BY <1>0, <2>4, <4>1 DEF Arrive, RequestState
        <4>2. CASE pinSubjectVersion(r)
          BY <1>0, <2>4, <4>2 DEF pinSubjectVersion, RequestState
        <4>3. CASE validate(r)
          BY <1>0, <2>4, <4>3 DEF validate, RequestState
        <4>4. CASE inspect(r)
          BY <1>0, <2>4, <4>4 DEF inspect, RequestState
        <4>5. CASE reread(r)
          BY <1>0, <2>4, <4>5 DEF reread, RequestState
        <4>6. CASE await(r)
          BY <1>0, <2>4, <4>6 DEF await, RequestState
        <4>7. QED
          BY <1>7, <4>1, <4>2, <4>3, <4>4, <4>5, <4>6
      <3>3. QED
        BY <2>2, <3>1, <3>2
    <2>5. QED
      BY <2>3, <2>4
  <1>8. QED
    BY <1>3, <1>4, <1>5, <1>6, <1>7 DEF Request

(* The attributions: a change recorded for the first time still finds what *)
(* its request expected, whichever requests and events came in between.    *)
LEMMA ErrKept ==
    ASSUME Typed, Present, RequestInv, Authored, [Next]_vars, NEW r \in Requests
    PROVE  /\ rq[r].wrote # none => rq'[r].wrote = rq[r].wrote /\ rq'[r].err = rq[r].err
                                    /\ rq'[r].pc # "send"
           /\ rq'[r] = rq[r] \/ Request(r)
  <1>1. ASSUME NEW q \in Requests, Request(q)
        PROVE  /\ rq[r].wrote # none => rq'[r].wrote = rq[r].wrote /\ rq'[r].err = rq[r].err
                                        /\ rq'[r].pc # "send"
               /\ rq'[r] = rq[r] \/ Request(r)
    <2>1. Ordered(rq[q]) /\ Ordered(rq[r]) /\ Carried(q)
      BY <1>1, RequestCarries DEF RequestInv
    <2>2. CASE q # r
      BY <2>1, <2>2 DEF Carried, Ordered
    <2>3. CASE q = r
      BY <1>1, <2>1, <2>3, WritesOnce DEF Wrote, Keeps, Ordered
    <2>4. QED
      BY <2>2, <2>3
  <1>2. CASE rq' = rq
    BY <1>2 DEF RequestInv, Ordered
  <1>3. QED
    BY <1>1, <1>2
       DEF Next, vars, Lapse, Deliver, DeliverConfig, Sync, OutsideUpdate, OutsideRemove

LEMMA StepRegistered ==
    ASSUME Typed, Present, RequestInv, Authored, [Next]_vars,
           NEW r \in Requests, Registered(r)
    PROVE  Registered(r)'
  <1>0. /\ SpecsGrow /\ CacheAdvances /\ QueueTyped /\ Survives
        /\ cached \in Nat /\ Latest \in Nat /\ cached <= Latest
        /\ rq \in [Requests -> RequestState] /\ rq[r] \in RequestState
        /\ rq[r].over \in Nat /\ rq[r].wrote \in Nat
        /\ Ordered(rq[r]) /\ Checked(rq[r])
    BY StepForwards, StepEffects, NumbersTyped DEF Effects, RequestInv, RequestState, Typed
  <1>1. SUFFICES ASSUME cached' # none, r \notin forgotten'
                 PROVE  /\ rq'[r].pc = "send" /\ rq'[r].kind \in Updates /\ cached' <= rq'[r].over =>
                              Awaited(r, rq[r].over)'
                        /\ rq'[r].wrote # none /\ rq'[r].err = "" /\ cached' < rq'[r].wrote =>
                              Awaited(r, rq[r].wrote - 1)'
    BY DEF Registered
  <1>2. cached # none /\ r \notin forgotten /\ cached <= cached' /\ cached' \in Nat
    BY <1>0, <1>1 DEF CacheAdvances, QueueTyped
  <1>3. CASE rq[r].wrote # none
    <2>1. rq'[r].wrote = rq[r].wrote /\ rq'[r].err = rq[r].err /\ rq'[r].pc # "send"
      BY <1>3, ErrKept
    <2>2. ASSUME rq[r].err = "", cached' < rq[r].wrote PROVE Awaited(r, rq[r].wrote - 1)'
      <3> DEFINE w == rq[r].wrote - 1
      <3>1. w \in Nat /\ ~ (w < cached') /\ rq'[r].wrote - 1 = w
        <4>1. rq[r].wrote \in Nat /\ cached' \in Nat /\ rq[r].wrote # 0 /\ cached' < rq[r].wrote
          BY <1>0, <1>2, <1>3, <2>2 DEF none
        <4>2. QED
          BY <2>1, <4>1
      <3>2. cached < rq[r].wrote
        <4>1. /\ cached \in Nat /\ cached' \in Nat /\ rq[r].wrote \in Nat
              /\ cached <= cached' /\ cached' < rq[r].wrote
          BY <1>0, <1>2, <2>2
        <4>2. QED
          BY <4>1
      <3>3. Awaited(r, w)
        BY <1>2, <1>3, <2>2, <3>2 DEF Registered
      <3>4. PICK i \in DOMAIN pending' : pending'[i] = [by |-> r, act |-> "change", after |-> w]
        <4> HIDE DEF w
        <4>1. \A a \in Nat : a = w => Awaited(r, a)'
          BY <1>0, <1>1, <2>2, <3>1, <3>3 DEF Survives, Withdraws
        <4>2. QED
          BY <3>1, <4>1 DEF Awaited
      <3>5. QED
        BY <3>1, <3>4 DEF Awaited
    <2>3. QED
      BY <2>1, <2>2
  <1>4. CASE rq[r].wrote = none /\ rq'[r] = rq[r]
    <2>1. ASSUME rq[r].pc = "send", rq[r].kind \in Updates, cached' <= rq[r].over
          PROVE  Awaited(r, rq[r].over)'
      <3> DEFINE w == rq[r].over
      <3>1. w \in Nat /\ ~ (w < cached') /\ rq'[r].over = w /\ cached <= w
        BY <1>0, <1>2, <1>4, <2>1
      <3>2. Awaited(r, w) /\ ~ Withdraws(r)
        BY <1>2, <2>1, <3>1 DEF Registered, Withdraws, settle
      <3>3. PICK i \in DOMAIN pending' : pending'[i] = [by |-> r, act |-> "change", after |-> w]
        <4> HIDE DEF w
        <4>1. \A a \in Nat : a = w => Awaited(r, a)'
          BY <1>0, <1>1, <3>1, <3>2 DEF Survives
        <4>2. QED
          BY <3>1, <4>1 DEF Awaited
      <3>4. QED
        BY <3>1, <3>3 DEF Awaited
    <2>2. QED
      BY <1>4, <2>1
  <1>5. CASE rq[r].wrote = none /\ Request(r) /\ Keeps(r)
    <2>1. rq'[r].wrote = none
      BY <1>5 DEF Keeps
    <2>2. ASSUME rq'[r].pc = "send", rq'[r].kind \in Updates PROVE Awaited(r, rq[r].over)'
      <3>1. expect(r)
        BY <1>0, <1>5, <2>2, RequestSends
      <3>2. rq'[r] = [rq[r] EXCEPT !.pc = "send"]
        BY <1>0, <3>1, GotoShape DEF expect, Steps
      <3>3. rq'[r].over = rq[r].over /\ rq'[r].kind = rq[r].kind
        BY <1>0, <3>2 DEF RequestState
      <3>4. \A over : over = rq[r].over => Awaited(r, over)'
        BY <2>2, <3>1, <3>3, ExpectEffects
      <3>5. QED
        BY <3>3, <3>4 DEF Awaited
    <2>3. QED
      BY <2>1, <2>2
  <1>6. CASE rq[r].wrote = none /\ Request(r) /\ Wrote(r)
    <2>1. /\ rq[r].pc = "send" /\ rq[r].kind \in Updates /\ Latest = rq[r].over
          /\ rq'[r].wrote = Latest + 1
      BY <1>6 DEF Wrote
    <2>2. Awaited(r, rq[r].over) /\ rq'[r].wrote - 1 = rq[r].over
      <3>1. cached <= rq[r].over /\ Latest + 1 - 1 = Latest
        BY <1>0, <2>1
      <3>2. Awaited(r, rq[r].over)
        BY <1>2, <2>1, <3>1 DEF Registered
      <3>3. rq'[r].wrote - 1 = Latest
        <4>1. Latest \in Nat
          BY <1>0
        <4>2. QED
          BY <2>1, <4>1
      <3>4. QED
        BY <2>1, <3>2, <3>3
    <2>3. rq'[r].pc # "send"
      BY <1>0, <1>6, <2>1, RequestSends DEF expect
    <2>4. pending' = pending
      BY <1>6, <2>1
         DEF Request, Arrive, refreshSubject, pinSubjectVersion, validate, useCase, inspect,
             expect, sendUpdate, sendOther, settle, seedCreated, reread, await, cache
    <2>5. QED
      BY <2>2, <2>3, <2>4 DEF Awaited
  <1>7. QED
    BY <1>0, <1>3, <1>4, <1>5, <1>6, ErrKept, WritesOnce

LEMMA StepAttributed ==
    ASSUME Typed, Present, RequestInv, Authored, AttributedInv, [Next]_vars
    PROVE  AttributedInv'
  <1>0. /\ SpecsGrow /\ CacheAdvances /\ QueueTyped /\ Origin /\ Recorded
        /\ cached \in Nat /\ Latest \in Nat
    BY StepForwards, StepEffects, NumbersTyped DEF Effects
  <1>1. \A r \in Requests : Registered(r)'
    BY StepRegistered DEF AttributedInv
  <1>2. ASSUME NEW v \in 1..Latest, specs[v].by # other
        PROVE  /\ specs[v].by \in Requests /\ rq[specs[v].by].wrote = v /\ v # none
               /\ rq'[specs[v].by].err = rq[specs[v].by].err
    <2>1. specs[v].by \in Requests /\ rq[specs[v].by].wrote = v /\ v # none
      BY <1>2, NumbersTyped DEF Authored, none
    <2>2. QED
      BY <2>1, ErrKept
  <1>3. ASSUME NEW h \in history', h.act = "change", specs'[h.ver].by # other,
               rq'[specs'[h.ver].by].err = "", specs'[h.ver].by \notin forgotten'
        PROVE  h.named # nobody
    <2>1. CASE h \in history
      <3>1. h.ver \in 1..Latest
        <4>1. h \in Entries /\ h.ver # none
          BY <1>3, <2>1, EntriesTyped
        <4>2. QED
          BY <1>0, <4>1 DEF Entries, none
      <3>2. specs'[h.ver] = specs[h.ver]
        BY <1>0, <3>1 DEF SpecsGrow
      <3>3. /\ rq[specs[h.ver].by].err = "" /\ specs[h.ver].by \notin forgotten
            /\ specs[h.ver].by # other
        BY <1>0, <1>2, <1>3, <3>1, <3>2 DEF QueueTyped
      <3>4. QED
        BY <1>3, <2>1, <3>3 DEF AttributedInv, AcceptedIsNamed
    <2>2. CASE h \notin history
      <3>1. /\ specs' = specs /\ forgotten' = forgotten
            /\ cached # none /\ cached < h.ver /\ h.ver <= Latest
            /\ Hits([act |-> "change", ver |-> h.ver]) # {} => h.named \in Requests
        BY <1>0, <1>3, <2>2 DEF Recorded
      <3> DEFINE v == h.ver
                 r == specs[v].by
      <3>2. v \in 1..Latest /\ v \in Nat
        <4>1. h \in Entries' /\ Latest' \in Nat
          BY <1>0, <1>3 DEF QueueTyped, SpecsGrow
        <4>2. v \in Nat
          BY <4>1 DEF Entries, none
        <4>3. QED
          BY <1>0, <3>1, <4>2 DEF none
      <3>3. r \in Requests /\ rq[r].wrote = v /\ v # none /\ rq[r].err = "" /\ r \notin forgotten
        BY <1>2, <1>3, <3>1, <3>2
      <3>4. Awaited(r, v - 1)
        BY <3>1, <3>3 DEF AttributedInv, Registered
      <3>5. PICK i \in DOMAIN pending : pending[i] = [by |-> r, act |-> "change", after |-> v - 1]
        BY <3>4 DEF Awaited
      <3>6. v > v - 1
        BY <3>2
      <3>7. i \in Hits([act |-> "change", ver |-> v])
        BY <3>5, <3>6 DEF Hits, matches
      <3>8. h.named \in Requests
        BY <3>1, <3>7
      <3>9. QED
        BY <3>8, WritesAssumption DEF WritesAssumption, nobody
    <2>3. QED
      BY <2>1, <2>2
  <1>4. ASSUME NEW i \in DOMAIN pending'
        PROVE  rq'[pending'[i].by].err = "" \/ rq'[pending'[i].by].pc = "settle"
    <2> DEFINE r == pending'[i].by
    <2>1. CASE \E q \in Requests : expect(q) /\ r = q
      <3>1. r \in Requests /\ expect(r) /\ Ordered(rq[r]) /\ rq \in [Requests -> RequestState]
        BY <2>1 DEF RequestInv, Typed
      <3>2. rq[r].pc = "expect" /\ rq'[r] = [rq[r] EXCEPT !.pc = "send"]
        BY <3>1, GotoShape DEF expect, Steps
      <3>3. rq[r].err = "" /\ rq[r] \in RequestState
        BY <3>1, <3>2 DEF Ordered
      <3>4. QED
        BY <3>2, <3>3 DEF RequestState
    <2>2. CASE \E j \in DOMAIN pending : pending[j] = pending'[i]
      <3>1. r \in Requests /\ (rq[r].err = "" \/ rq[r].pc = "settle")
        BY <2>2, PendingTyped DEF AttributedInv, AcceptedIsNamed
      <3>2. CASE rq'[r] = rq[r]
        BY <3>1, <3>2
      <3>3. CASE Request(r)
        <4>1. Ordered(rq[r])
          BY <3>1 DEF RequestInv
        <4>2. ~ Withdraws(r)
          BY <3>1, SettleEffects DEF Withdraws
        <4>3. QED
          BY <3>1, <3>3, <4>1, <4>2, RequestSends
      <3>4. QED
        BY <3>1, <3>2, <3>3, ErrKept
    <2>3. QED
      BY <1>0, <2>1, <2>2 DEF Origin
  <1>5. AcceptedIsNamed'
    BY <1>3, <1>4 DEF AcceptedIsNamed
  <1>6. QED
    BY <1>1, <1>5 DEF AttributedInv

----------------------------------------------------------------------------
(* What a request is answered, and the slot it waits in.                   *)
Moved(r) == rq[r].pc # "waiting" /\ rq'[r].pc # "waiting" /\ waits' = waits
Slots(r) ==
  \/ Moved(r)
  \/ rq[r].pc # "waiting" /\ rq'[r].pc = "waiting" /\ waits' = waits + 1 /\ waits < MaxWaits
  \/ rq[r].pc = "waiting" /\ rq'[r].pc # "waiting" /\ waits' = waits - 1
Told(r) ==
  /\ rq'[r].answer = "201" => seedCreated(r)
  /\ Made(rq[r])' => Made(rq[r]) \/ cfg' # "none"
  /\ Slots(r)

LEMMA RequestTold ==
    ASSUME Typed, NEW r \in Requests, Ordered(rq[r]), Request(r)
    PROVE  Told(r)
  <1> DEFINE q == rq[r]
  <1>0. /\ rq \in [Requests -> RequestState] /\ q \in RequestState /\ none \in Nat
        /\ Latest \in Nat /\ q.err \in Errors
    BY NumbersTyped DEF Typed, none, RequestState
  <1>1. q.answer = ""
    BY DEF Ordered, Request, Arrive, refreshSubject, pinSubjectVersion, validate, useCase,
           inspect, expect, sendUpdate, sendOther, settle, seedCreated, reread, await
  <1>2. ASSUME NEW code, Answer(r, code), code # "201" PROVE rq'[r].pc = "done" /\ rq'[r].answer # "201"
    BY <1>0, <1>2, AnswerShape DEF Outcome
  <1>3. ASSUME NEW pc \in Steps, Goto(r, pc)
        PROVE  rq'[r].pc = pc /\ rq'[r].answer = "" /\ rq'[r].kind = q.kind /\ rq'[r].err = q.err
    <2>1. rq'[r] = [q EXCEPT !.pc = pc]
      BY <1>0, <1>3, GotoShape
    <2>2. QED
      BY <1>0, <1>1, <2>1 DEF RequestState
  <1>4. CASE Arrive(r)
    <2>1. q.pc = "idle" /\ waits' = waits
      BY <1>4 DEF Arrive
    <2>2. rq'[r].pc \in {"use", "refresh"}
      BY <1>0, <1>4 DEF Arrive, RequestState
    <2>3. rq'[r].answer = q.answer
      BY <1>0, <1>4 DEF Arrive, RequestState
    <2>4. QED
      BY <1>1, <2>1, <2>2, <2>3 DEF Told, Made, Slots, Moved
  <1>5. CASE refreshSubject(r)
    <2>1. q.pc = "refresh" /\ waits' = waits
      BY <1>5 DEF refreshSubject
    <2>2. rq'[r].pc \in {"pin", "done"} /\ rq'[r].answer # "201"
      BY <1>2, <1>3, <1>5 DEF refreshSubject, Steps
    <2>3. QED
      BY <2>1, <2>2 DEF Told, Made, Slots, Moved
  <1>6. CASE pinSubjectVersion(r)
    <2>1. q.pc = "pin" /\ waits' = waits
      BY <1>6 DEF pinSubjectVersion
    <2>2. rq'[r].pc = "validate" /\ rq'[r].answer = q.answer
      BY <1>0, <1>6 DEF pinSubjectVersion, RequestState
    <2>3. QED
      BY <1>1, <2>1, <2>2 DEF Told, Made, Slots, Moved
  <1>7. CASE validate(r)
    <2>1. q.pc = "validate" /\ waits' = waits
      BY <1>7 DEF validate
    <2>2. CASE Answer(r, "API013")
      BY <1>2, <2>1, <2>2 DEF Told, Made, Slots, Moved
    <2>3. CASE ~ Answer(r, "API013")
      <3>1. rq'[r].pc = "use" /\ rq'[r].answer = q.answer
        BY <1>0, <1>7, <2>3 DEF validate, RequestState
      <3>2. QED
        BY <1>1, <2>1, <3>1 DEF Told, Made, Slots, Moved
    <2>4. QED
      BY <2>2, <2>3
  <1>8. CASE useCase(r)
    <2>1. q.pc = "use" /\ waits' = waits
      BY <1>8 DEF useCase
    <2>2. rq'[r].pc \in {"expect", "inspect", "done"} /\ rq'[r].answer # "201"
      BY <1>2, <1>3, <1>8 DEF useCase, Steps
    <2>3. QED
      BY <2>1, <2>2 DEF Told, Made, Slots, Moved
  <1>9. CASE inspect(r)
    <2>1. q.pc = "inspect" /\ waits' = waits
      BY <1>9 DEF inspect
    <2>2. CASE \E code : Answer(r, code) /\ code # "201"
      BY <1>2, <2>1, <2>2 DEF Told, Made, Slots, Moved
    <2>3. CASE ~ \E code : Answer(r, code) /\ code # "201"
      <3>1. rq'[r].pc = "expect" /\ rq'[r].answer = q.answer
        BY <1>0, <1>9, <2>3 DEF inspect, RequestState
      <3>2. QED
        BY <1>1, <2>1, <3>1 DEF Told, Made, Slots, Moved
    <2>4. QED
      BY <2>2, <2>3
  <1>10. CASE expect(r)
    <2>1. q.pc = "expect" /\ waits' = waits /\ rq'[r].pc = "send" /\ rq'[r].answer = ""
      BY <1>3, <1>10 DEF expect, Steps
    <2>2. QED
      BY <2>1 DEF Told, Made, Slots, Moved
  <1>11. CASE sendUpdate(r) \/ sendOther(r)
    <2>1. q.pc = "send" /\ waits' = waits
      BY <1>11 DEF sendUpdate, sendOther
    <2>2. PICK err \in Errors, wrote \in Nat :
            /\ Sent(r, err, wrote)
            /\ q.kind = "create" /\ err = "" => cfg' # "none"
      <3>1. Conflict(r) \in Errors /\ {"", "ENG001", "SVC003", "CFG003"} \subseteq Errors
        BY DEF Conflict, Errors
      <3>2. Latest + 1 \in Nat
        BY <1>0
      <3>3. QED
        BY <1>0, <1>11, <3>1, <3>2 DEF sendUpdate, sendOther, Updates
    <2>3. rq'[r].pc = "settle" /\ rq'[r].answer = "" /\ rq'[r].err = err /\ rq'[r].kind = q.kind
      BY <1>0, <1>1, <2>2, SentShape
    <2>4. QED
      BY <2>1, <2>2, <2>3 DEF Told, Made, Slots, Moved
  <1>12. CASE settle(r)
    <2>1. q.pc = "settle" /\ waits' = waits /\ Settled(r)
      BY <1>12 DEF settle
    <2>2. CASE \E code : Answer(r, code) /\ code # "201"
      <3>1. rq'[r].pc = "done" /\ rq'[r].answer # "201"
        BY <1>2, <2>2
      <3>2. QED
        BY <2>1, <3>1 DEF Told, Made, Slots, Moved
    <2>3. ASSUME NEW pc \in {"seed", "reread"}, Goto(r, pc), q.err = "",
                 pc = "seed" => q.kind = "create"
          PROVE  Told(r)
      <3>1. rq'[r].pc = pc /\ rq'[r].answer = ""
        BY <1>3, <2>3 DEF Steps
      <3>2. QED
        BY <2>1, <2>3, <3>1 DEF Told, Made, Slots, Moved
    <2>4. q.err # "201"
      BY <1>0 DEF Errors
    <2>5. CASE q.err # ""
      <3>1. Answer(r, q.err)
        BY <2>1, <2>5 DEF Settled
      <3>2. QED
        BY <2>2, <2>4, <3>1
    <2>6. CASE q.err = ""
      <3>1. \/ Answer(r, "204")
            \/ \E pc \in {"seed", "reread"} : Goto(r, pc) /\ (pc = "seed" => q.kind = "create")
        BY <2>1, <2>6 DEF Settled
      <3>2. CASE Answer(r, "204")
        BY <2>2, <3>2
      <3>3. CASE \E pc \in {"seed", "reread"} : Goto(r, pc) /\ (pc = "seed" => q.kind = "create")
        <4>1. PICK pc \in {"seed", "reread"} : Goto(r, pc) /\ (pc = "seed" => q.kind = "create")
          BY <3>3
        <4>2. QED
          BY <2>3, <2>6, <4>1
      <3>4. QED
        BY <3>1, <3>2, <3>3
    <2>7. QED
      BY <2>5, <2>6
  <1>13. CASE seedCreated(r)
    <2>1. q.pc = "seed" /\ waits' = waits /\ Answer(r, "201")
      BY <1>13 DEF seedCreated
    <2>2. rq'[r].pc = "done"
      BY <1>0, <2>1, AnswerShape
    <2>3. QED
      BY <1>13, <2>1, <2>2 DEF Told, Made, Slots, Moved
  <1>14. CASE reread(r)
    <2>1. q.pc = "reread"
      BY <1>14 DEF reread
    <2>2. CASE waits' = waits /\ \E code : Answer(r, code) /\ code # "201"
      BY <1>2, <2>1, <2>2 DEF Told, Made, Slots, Moved
    <2>3. CASE /\ waits < MaxWaits /\ waits' = waits + 1
               /\ rq' = [rq EXCEPT ![r].pc = "waiting", ![r].ver = Latest]
      <3>1. rq'[r].pc = "waiting" /\ rq'[r].answer = q.answer
        BY <1>0, <2>3 DEF RequestState
      <3>2. QED
        BY <1>1, <2>1, <2>3, <3>1 DEF Told, Made, Slots
    <2>4. QED
      BY <1>14, <2>2, <2>3 DEF reread
  <1>15. CASE await(r)
    <2>1. q.pc = "waiting" /\ waits' = waits - 1
      BY <1>15 DEF await
    <2>2. rq'[r].pc = "done" /\ rq'[r].answer # "201"
      <3>1. CASE Answer(r, "202")
        BY <1>2, <3>1
      <3>2. CASE rq' = [rq EXCEPT ![r].pc = "done", ![r].answer = "waited", ![r].saw = cached]
        BY <1>0, <3>2 DEF RequestState
      <3>3. QED
        BY <1>15, <3>1, <3>2 DEF await
    <2>3. QED
      BY <2>1, <2>2 DEF Told, Made, Slots
  <1>16. QED
    BY <1>4, <1>5, <1>6, <1>7, <1>8, <1>9, <1>10, <1>11, <1>12, <1>13, <1>14, <1>15 DEF Request

(* A config once made is never unmade, and a removal is final.             *)
LEMMA ConfigMoves ==
    ASSUME [Next]_vars
    PROVE  /\ cfg # "none" => cfg' # "none"
           /\ cfg = "gone" => cfg' = "gone"
           /\ cfgCached' = cfgCached \/ cfgCached' = (cfg = "made") \/ cfgCached'
           /\ cfg' = cfg \/ cfgCached' = cfgCached
  BY ZenonT(30) DEF Next, vars, Request, Arrive, refreshSubject, pinSubjectVersion, validate, useCase,
         inspect, expect, sendUpdate, sendOther, settle, seedCreated, reread, await, Lapse,
         Deliver, DeliverConfig, Sync, OutsideUpdate, OutsideRemove, engine, cache

LEMMA StepTold ==
    ASSUME Typed, Present, RequestInv, Authored, Created, ReadYourCreate, [Next]_vars
    PROVE  Created' /\ ReadYourCreate'
  <1>1. ASSUME NEW r \in Requests
        PROVE  /\ Made(rq[r])' => cfg' # "none"
               /\ rq'[r].answer = "201" => cfgCached' \/ cfg' = "gone"
    <2>1. CASE rq'[r] = rq[r]
      <3>1. Made(rq[r])' => cfg' # "none"
        BY <2>1, ConfigMoves DEF Created, Made
      <3>2. ASSUME rq[r].answer = "201" PROVE cfgCached' \/ cfg' = "gone"
        <4>1. cfg \in {"made", "gone"} /\ (cfgCached \/ cfg = "gone")
          BY <3>2 DEF Created, Made, ReadYourCreate, Typed, TypeOK
        <4>2. QED
          BY <4>1, ConfigMoves
      <3>3. QED
        BY <2>1, <3>1, <3>2
    <2>2. CASE Request(r)
      <3>1. Told(r)
        BY <2>2, RequestTold DEF RequestInv
      <3>2. Made(rq[r])' => cfg' # "none"
        BY <3>1, ConfigMoves DEF Told, Created
      <3>3. rq'[r].answer = "201" => cfgCached'
        BY <3>1 DEF Told, seedCreated
      <3>4. QED
        BY <3>2, <3>3
    <2>3. QED
      BY <2>1, <2>2, ErrKept
  <1>2. QED
    BY <1>1 DEF Created, ReadYourCreate

LEMMA StepWaits ==
    ASSUME Typed, Present, RequestInv, Authored, WaitSound, RequestInv', [Next]_vars
    PROVE  WaitSound'
  <1> DEFINE W == {r \in Requests : rq[r].pc = "waiting"}
  <1>0. /\ IsFiniteSet(W) /\ waits = Cardinality(W) /\ waits \in Nat /\ waits <= MaxWaits
        /\ MaxWaits \in Nat
    <2>1. IsFiniteSet(Requests) /\ MaxWaits \in Nat
      BY WritesAssumption DEF WritesAssumption
    <2>2. IsFiniteSet(W)
      BY <2>1, FS_Subset
    <2>3. QED
      BY <2>1, <2>2, FS_CardinalityType DEF WaitSound
  <1>1. \A r \in Requests : rq'[r].answer = "waited" => rq'[r].saw >= rq'[r].wrote
    <2>1. ASSUME NEW r \in Requests, rq'[r].answer = "waited" PROVE rq'[r].saw >= rq'[r].wrote
      <3>1. rq'[r].wrote <= rq'[r].saw
        BY <2>1 DEF RequestInv, Ordered
      <3>2. QED
        BY <3>1
    <2>2. QED
      BY <2>1
  <1>2. waits' = Cardinality(W') /\ waits' <= MaxWaits
    <2>1. CASE waits' = waits /\ rq' = rq
      BY <1>0, <2>1
    <2>2. ASSUME NEW r \in Requests, Request(r)
          PROVE  waits' = Cardinality(W') /\ waits' <= MaxWaits
      <3>1. Told(r) /\ \A q \in Requests \ {r} : rq'[q] = rq[q]
        BY <2>2, RequestTold, RequestCarries DEF RequestInv, Carried
      <3>2. CASE Moved(r)
        <4>1. W' = W
          BY <3>1, <3>2 DEF Moved
        <4>2. QED
          BY <1>0, <3>2, <4>1 DEF Moved
      <3>3. CASE /\ rq[r].pc # "waiting" /\ rq'[r].pc = "waiting"
                 /\ waits' = waits + 1 /\ waits < MaxWaits
        <4>1. W' = W \cup {r} /\ r \notin W
          BY <3>1, <3>3
        <4>2. Cardinality(W \cup {r}) = Cardinality(W) + 1
          BY <1>0, <4>1, FS_AddElement
        <4> HIDE DEF W
        <4>3. QED
          BY <1>0, <3>3, <4>1, <4>2
      <3>4. CASE rq[r].pc = "waiting" /\ rq'[r].pc # "waiting" /\ waits' = waits - 1
        <4>1. W' = W \ {r} /\ r \in W
          BY <3>1, <3>4
        <4>2. Cardinality(W \ {r}) = Cardinality(W) - 1
          BY <1>0, <4>1, FS_RemoveElement
        <4> HIDE DEF W
        <4>3. QED
          BY <1>0, <3>4, <4>1, <4>2
      <3>5. QED
        BY <3>1, <3>2, <3>3, <3>4 DEF Told, Slots
    <2>3. QED
      BY <2>1, <2>2
         DEF Next, vars, Lapse, Deliver, DeliverConfig, Sync, OutsideUpdate, OutsideRemove
  <1>3. QED
    BY <1>1, <1>2 DEF WaitSound

----------------------------------------------------------------------------
(* The types, and the invariant as a whole.                                *)

Numbered(q) == q.pin \in none..Latest /\ q.over \in none..Latest

LEMMA RequestNumbered ==
    ASSUME Typed, Present, NEW r \in Requests, Ordered(rq[r]), Request(r)
    PROVE  Numbered(rq[r])'
  <1> DEFINE q == rq[r]
  <1>0. /\ rq \in [Requests -> RequestState] /\ q \in RequestState /\ none \in Nat
        /\ Latest \in Nat /\ cached \in Nat /\ cached <= Latest
        /\ Latest' \in Nat /\ Latest <= Latest'
        /\ q.pin \in none..Latest /\ q.over \in none..Latest
    BY RequestForwards, NumbersTyped DEF Typed, TypeOK, none, SpecsGrow
  <1>1. SUFFICES rq'[r].pin \in none..Latest /\ rq'[r].over \in none..Latest
    BY <1>0 DEF Numbered, none
  <1>2. CASE \E code : Answer(r, code)
    <2>1. rq'[r].over = none /\ rq'[r].pin = none
      BY <1>0, <1>2, AnswerShape
    <2>2. QED
      BY <1>0, <2>1 DEF none
  <1>3. CASE \E pc \in Steps : Goto(r, pc)
    <2>1. PICK pc \in Steps : rq'[r] = [q EXCEPT !.pc = pc]
      BY <1>0, <1>3, GotoShape
    <2>2. rq'[r].over = q.over /\ rq'[r].pin = q.pin
      BY <1>0, <2>1 DEF RequestState
    <2>3. QED
      BY <1>0, <2>2
  <1>4. CASE sendUpdate(r) \/ sendOther(r)
    <2>1. Conflict(r) \in Errors /\ {"", "ENG001", "SVC003", "CFG003"} \subseteq Errors
      BY DEF Conflict, Errors
    <2>2. Latest + 1 \in Nat
      BY <1>0
    <2>3. PICK err \in Errors, wrote \in Nat : Sent(r, err, wrote)
      BY <1>0, <1>4, <2>1, <2>2 DEF sendUpdate, sendOther
    <2>4. rq'[r].over = q.over /\ rq'[r].pin = q.pin
      BY <1>0, <2>3, SentShape
    <2>5. QED
      BY <1>0, <2>4
  <1>5. CASE ~ \E code : Answer(r, code)
    <2>1. CASE Arrive(r)
      <3>1. rq'[r].over = q.over /\ rq'[r].pin = q.pin
        BY <1>0, <2>1 DEF Arrive, RequestState
      <3>2. QED
        BY <1>0, <3>1
    <2>2. CASE pinSubjectVersion(r)
      <3>1. rq'[r].over = q.over /\ rq'[r].pin = cached
        BY <1>0, <2>2 DEF pinSubjectVersion, RequestState
      <3>2. QED
        BY <1>0, <3>1 DEF none
    <2>3. CASE validate(r)
      <3>1. rq'[r].over = q.over
        BY <1>0, <1>5, <2>3 DEF validate, RequestState
      <3>2. rq'[r].pin = q.pin \/ rq'[r].pin = none
        BY <1>0, <1>5, <2>3 DEF validate, RequestState
      <3>3. QED
        BY <1>0, <3>1, <3>2 DEF none
    <2>4. CASE inspect(r)
      <3>1. rq'[r].pin = q.pin
        BY <1>0, <1>5, <2>4 DEF inspect, RequestState
      <3>2. rq'[r].over = Latest
        BY <1>0, <1>5, <2>4 DEF inspect, RequestState
      <3>3. QED
        BY <1>0, <3>1, <3>2 DEF none
    <2>5. CASE reread(r)
      <3>1. rq'[r].over = q.over /\ rq'[r].pin = q.pin
        BY <1>0, <1>5, <2>5 DEF reread, RequestState
      <3>2. QED
        BY <1>0, <3>1
    <2>6. CASE await(r)
      <3>1. rq'[r].over = q.over /\ rq'[r].pin = q.pin
        BY <1>0, <1>5, <2>6 DEF await, RequestState
      <3>2. QED
        BY <1>0, <3>1
    <2>7. CASE refreshSubject(r) \/ useCase(r) \/ expect(r) \/ settle(r) \/ seedCreated(r)
      BY <1>3, <1>5, <2>7
         DEF refreshSubject, useCase, expect, settle, Settled, seedCreated, Steps
    <2>8. QED
      BY <1>4, <2>1, <2>2, <2>3, <2>4, <2>5, <2>6, <2>7 DEF Request
  <1>6. QED
    BY <1>2, <1>5

(* Every variable but the requests. *)
LEMMA StepPlaces ==
    ASSUME Typed, Present, RequestInv, Authored, [Next]_vars
    PROVE  /\ specs' \in Seq([by : Requests \cup {other}, part : Version, host : BOOLEAN])
           /\ Latest' \in Version /\ there' \in BOOLEAN /\ cached' \in none..Latest'
           /\ cfg' \in {"none", "made", "gone"} /\ cfgNews' \in BOOLEAN /\ cfgCached' \in BOOLEAN
           /\ Present'
  <1>0. /\ SpecsGrow /\ CacheAdvances /\ cached \in Nat /\ Latest \in Nat /\ cached <= Latest
        /\ none \in Nat
    BY StepForwards, NumbersTyped DEF none
  <1>1. /\ specs \in Seq([by : Requests \cup {other}, part : Version, host : BOOLEAN])
        /\ Latest \in Version /\ there \in BOOLEAN
        /\ cfg \in {"none", "made", "gone"} /\ cfgNews \in BOOLEAN /\ cfgCached \in BOOLEAN
    BY DEF Typed, TypeOK
  <1>2. /\ specs' \in Seq([by : Requests \cup {other}, part : Version, host : BOOLEAN])
        /\ Latest' \in Version
    <2>1. CASE specs' = specs
      BY <1>1, <2>1, SpecsKept
    <2>2. CASE OutsideUpdate
      <3>1. PICK touches \in BOOLEAN : applied(other, touches, ~ touches)
        BY <2>2 DEF OutsideUpdate
      <3>2. (~ touches) \in BOOLEAN /\ other \in Requests \cup {other} /\ Latest < MaxVersion
        BY <2>2 DEF OutsideUpdate
      <3>3. QED
        BY <3>1, <3>2, AppliedShape
    <2>3. ASSUME NEW r \in Requests, Request(r), Wrote(r)
          PROVE  /\ specs' \in Seq([by : Requests \cup {other}, part : Version, host : BOOLEAN])
                 /\ Latest' \in Version
      <3>1. rq[r].adds \in BOOLEAN /\ (rq[r].kind = "section") \in BOOLEAN
            /\ r \in Requests \cup {other}
        BY NumbersTyped DEF RequestState
      <3>2. Latest < MaxVersion /\ applied(r, rq[r].kind = "section", rq[r].adds)
        BY <2>3 DEF Wrote
      <3>3. QED
        BY <3>1, <3>2, AppliedShape
    <2>4. ASSUME NEW r \in Requests, Request(r)
          PROVE  /\ specs' \in Seq([by : Requests \cup {other}, part : Version, host : BOOLEAN])
                 /\ Latest' \in Version
      <3>1. CASE Wrote(r)
        BY <2>3, <2>4, <3>1
      <3>2. CASE Keeps(r)
        BY <2>1, <3>2 DEF Keeps
      <3>3. QED
        BY <2>4, <3>1, <3>2, WritesOnce DEF RequestInv
    <2>5. QED
      BY <2>1, <2>2, <2>4
         DEF Next, vars, Lapse, Deliver, DeliverConfig, Sync, OutsideRemove, engine
  <1>3. cached' \in none..Latest' /\ Present'
    <2>1. CASE cached' = cached /\ (there' = there \/ ~ there')
      <3>1. cached' \in none..Latest'
        BY <1>0, <2>1 DEF SpecsGrow, none
      <3>2. QED
        BY <2>1, <3>1 DEF Present
    <2>2. CASE there' = there /\ cached' \in 1..Latest
      <3>1. cached' \in none..Latest'
        BY <1>0, <2>2 DEF SpecsGrow, none
      <3>2. QED
        BY <2>2, <3>1 DEF Present, none
    <2>3. CASE there' = there /\ ~ there /\ cached' = none
      <3>1. cached' \in none..Latest'
        BY <1>0, <2>3 DEF SpecsGrow, none
      <3>2. QED
        BY <2>3, <3>1 DEF Present
    <2>4. Latest \in 1..Latest
      BY NumbersTyped
    <2>5. CASE Deliver
      <3>1. \A v \in (cached + 1)..Latest : v \in 1..Latest
        BY <1>0
      <3>2. there' = there
        BY <2>5 DEF Deliver, engine
      <3>3. QED
        BY <2>2, <2>3, <2>5, <3>1, <3>2 DEF Deliver, stored, removed
    <2>6. CASE Sync
      BY <2>2, <2>3, <2>4, <2>6 DEF Sync, engine
    <2>7. ASSUME NEW r \in Requests, Request(r)
          PROVE  cached' \in none..Latest' /\ Present'
      <3>1. CASE refreshSubject(r)
        <4>1. there' = there
          BY <3>1 DEF refreshSubject, engine
        <4>2. QED
          BY <2>1, <2>2, <2>3, <2>4, <3>1, <4>1 DEF refreshSubject, stored, removed
      <3>2. CASE ~ refreshSubject(r)
        <4>1. cached' = cached /\ (there' = there \/ ~ there')
          BY <2>7, <3>2
             DEF Request, Arrive, pinSubjectVersion, validate, useCase, inspect, expect,
                 sendUpdate, sendOther, settle, seedCreated, reread, await, engine, cache
        <4>2. QED
          BY <2>1, <4>1
      <3>3. QED
        BY <3>1, <3>2
    <2>8. QED
      BY <2>1, <2>5, <2>6, <2>7
         DEF Next, vars, Lapse, DeliverConfig, OutsideUpdate, OutsideRemove, engine, cache
  <1>4. /\ there' \in BOOLEAN /\ cfg' \in {"none", "made", "gone"}
        /\ cfgNews' \in BOOLEAN /\ cfgCached' \in BOOLEAN
    <2>1. there' = there \/ there' = FALSE
      BY ZenonT(30) DEF Next, vars, Request, Arrive, refreshSubject, pinSubjectVersion, validate, useCase,
             inspect, expect, sendUpdate, sendOther, settle, seedCreated, reread, await, Lapse,
             Deliver, DeliverConfig, Sync, OutsideUpdate, OutsideRemove, engine, cache
    <2>2. cfg' = cfg \/ cfg' \in {"made", "gone"}
      BY ZenonT(30) DEF Next, vars, Request, Arrive, refreshSubject, pinSubjectVersion, validate, useCase,
             inspect, expect, sendUpdate, sendOther, settle, seedCreated, reread, await, Lapse,
             Deliver, DeliverConfig, Sync, OutsideUpdate, OutsideRemove, engine, cache
    <2>3. cfgNews' = cfgNews \/ cfgNews' \in {TRUE, FALSE}
      BY ZenonT(30) DEF Next, vars, Request, Arrive, refreshSubject, pinSubjectVersion, validate, useCase,
             inspect, expect, sendUpdate, sendOther, settle, seedCreated, reread, await, Lapse,
             Deliver, DeliverConfig, Sync, OutsideUpdate, OutsideRemove, engine, cache
    <2>4. cfgCached' = cfgCached \/ cfgCached' \in {TRUE, FALSE}
      BY ZenonT(30) DEF Next, vars, Request, Arrive, refreshSubject, pinSubjectVersion, validate, useCase,
             inspect, expect, sendUpdate, sendOther, settle, seedCreated, reread, await, Lapse,
             Deliver, DeliverConfig, Sync, OutsideUpdate, OutsideRemove, engine, cache
    <2>5. QED
      BY <1>1, <2>1, <2>2, <2>3, <2>4
  <1>5. QED
    BY <1>2, <1>3, <1>4

LEMMA StepTyped ==
    ASSUME Typed, Present, RequestInv, Authored, [Next]_vars
    PROVE  Typed' /\ Present' /\ RequestInv'
  <1>0. SpecsGrow /\ CacheAdvances /\ QueueTyped /\ rq \in [Requests -> RequestState]
    BY StepForwards, StepEffects DEF Effects, Typed
  <1>1. ASSUME NEW r \in Requests
        PROVE  /\ Numbered(rq[r])' /\ Ordered(rq[r])' /\ Compared(rq[r])' /\ Checked(rq[r])'
    <2>0. Ordered(rq[r]) /\ Compared(rq[r]) /\ Checked(rq[r])
      BY DEF RequestInv
    <2>1. CASE rq'[r] = rq[r]
      <3>1. rq[r].pin \in none..Latest' /\ rq[r].over \in none..Latest'
        BY <1>0 DEF SpecsGrow, none, Typed, TypeOK
      <3>2. Numbered(rq[r])' /\ Ordered(rq[r])'
        BY <2>0, <2>1, <3>1 DEF Numbered, Ordered
      <3>3. QED
        BY <1>0, <2>0, <2>1, <3>2, ComparedKept
    <2>2. CASE Request(r)
      BY <2>0, <2>2, RequestCarries, RequestNumbered DEF Carried
    <2>3. QED
      BY <2>1, <2>2, ErrKept
  <1>2. rq' \in [Requests -> RequestState]
    <2>1. ASSUME NEW r \in Requests, Request(r) PROVE rq' \in [Requests -> RequestState]
      BY <2>1, RequestCarries DEF RequestInv, Carried
    <2>2. CASE rq' = rq
      BY <1>0, <2>2
    <2>3. QED
      BY <2>1, <2>2
         DEF Next, vars, Lapse, Deliver, DeliverConfig, Sync, OutsideUpdate, OutsideRemove
  <1>3. RequestInv'
    BY <1>1 DEF RequestInv
  <1>4. \A r \in Requests : rq'[r].pin \in none..Latest' /\ rq'[r].over \in none..Latest'
    BY <1>1 DEF Numbered
  <1>5. TypeOK'
    BY <1>0, <1>4, StepPlaces DEF TypeOK, QueueTyped, Expectations, Entries, Acts
  <1>6. Typed'
    BY <1>0, <1>2, <1>5 DEF Typed, QueueTyped
  <1>7. QED
    BY <1>3, <1>6, StepPlaces

LEMMA InitInv == Init => IInv
  <1> SUFFICES ASSUME Init PROVE IInv
    OBVIOUS
  <1> USE DEF Init
  <1>0. Latest = 1 /\ specs[1] = [by |-> other, part |-> 1, host |-> FALSE]
    BY DEF Latest
  <1>1. rq \in [Requests -> RequestState] /\ \A r \in Requests : rq[r] = Start
    BY StartTyped
  <1>2. TypeOK
    <2>1. 1 \in Version /\ Latest \in Version /\ cached \in none..Latest
          /\ none \in none..Latest /\ MaxPending \in Nat
      BY <1>0, WritesAssumption DEF Version, WritesAssumption, none
    <2>2. [by |-> other, part |-> 1, host |-> FALSE]
            \in [by : Requests \cup {other}, part : Version, host : BOOLEAN]
      BY <2>1
    <2>3. specs \in Seq([by : Requests \cup {other}, part : Version, host : BOOLEAN])
      BY <2>2
    <2>4. pending \in Seq([by : Requests, act : {"change", "remove", "create"}, after : none..Latest])
          /\ Len(pending) = 0
      OBVIOUS
    <2>5. \A r \in Requests : rq[r].pin \in none..Latest /\ rq[r].over \in none..Latest
      BY <1>1, <2>1 DEF Start
    <2>6. Len(pending) <= MaxPending
      BY <2>1, <2>4
    <2>7. QED
      BY <2>1, <2>3, <2>4, <2>5, <2>6 DEF TypeOK
  <1>3. Typed
    BY <1>1, <1>2 DEF Typed
  <1>4. Present
    BY DEF Present, none
  <1>5. RequestInv
    BY <1>1 DEF RequestInv, Ordered, Compared, Checked, Start, none
  <1>6. Authored /\ NoLostUpdate /\ HostAccessKept
    <2>1. Authored
      <3>1. \A v \in 1..Latest : v = 1
        BY <1>0
      <3>2. specs[1].by = other
        BY <1>0
      <3>3. \A v \in 1..Latest : specs[v].by = other
        BY <3>1, <3>2
      <3>4. \A r \in Requests : rq[r].wrote = none
        BY <1>1 DEF Start
      <3>5. QED
        BY <3>3, <3>4 DEF Authored
    <2>2. \A v : v \notin 2..Latest
      BY <1>0
    <2>3. QED
      BY <2>1, <2>2 DEF NoLostUpdate, HostAccessKept
  <1>7. AttributedInv
    <2>1. DOMAIN pending = {} /\ history = {}
      OBVIOUS
    <2>2. QED
      BY <1>1, <2>1 DEF AttributedInv, AcceptedIsNamed, Registered, Awaited, Start
  <1>8. Created /\ ReadYourCreate
    BY <1>1 DEF Created, ReadYourCreate, Made, Start
  <1>9. WaitSound
    <2>1. {r \in Requests : rq[r].pc = "waiting"} = {}
      BY <1>1 DEF Start
    <2>2. MaxWaits \in Nat /\ Cardinality({}) = 0
      BY WritesAssumption, FS_EmptySet DEF WritesAssumption
    <2>3. waits = 0 /\ 0 <= MaxWaits
      BY <2>2
    <2>4. \A r \in Requests : rq[r].answer # "waited"
      BY <1>1 DEF Start
    <2>5. QED
      BY <2>1, <2>2, <2>3, <2>4 DEF WaitSound
  <1>10. QED
    BY <1>3, <1>4, <1>5, <1>6, <1>7, <1>8, <1>9 DEF IInv

LEMMA StepInv == IInv /\ [Next]_vars => IInv'
  <1> SUFFICES ASSUME IInv, [Next]_vars PROVE IInv'
    OBVIOUS
  <1>0. /\ Typed /\ Present /\ RequestInv /\ Authored /\ Written /\ AttributedInv /\ Created
        /\ WaitSound /\ ReadYourCreate
    BY DEF IInv, Written
  <1>1. Typed' /\ Present' /\ RequestInv'
    BY <1>0, StepTyped
  <1>2. Authored' /\ NoLostUpdate' /\ HostAccessKept'
    BY <1>0, StepWrites DEF Written
  <1>3. AttributedInv'
    BY <1>0, StepAttributed
  <1>4. Created' /\ ReadYourCreate'
    BY <1>0, StepTold
  <1>5. WaitSound'
    BY <1>0, <1>1, StepWaits
  <1>6. QED
    BY <1>1, <1>2, <1>3, <1>4, <1>5 DEF IInv

(* In every behaviour of the requests, the watcher, the syncs and whoever  *)
(* else writes, what a request carries stays what it was compared with and *)
(* checked on (precondition.go, cluster/writes.go, docker/client.go).      *)
THEOREM RequestsStaySound == Spec => []IInv
  <1>1. QED
    BY InitInv, StepInv, PTL DEF Spec

(* A section write sent with If-Match is applied only over the section the *)
(* client saw, for any number of writers and versions: the pin taken       *)
(* before the representation is read (precondition.go pinSubjectVersion),  *)
(* the comparison of the inspected version with it (docker/version.go) and *)
(* the engine's own version check close every gap between them.            *)
THEOREM NoUpdateIsLost == Spec => []NoLostUpdate
  <1>1. IInv => NoLostUpdate
    BY DEF IInv
  <1>2. QED
    BY <1>1, RequestsStaySound, PTL

(* Below level 3 no section write gives or changes host access, whoever    *)
(* gave it to the service in between: the rule is read on the              *)
(* specification the update replaces (cluster/writes.go                    *)
(* checkServiceChange).                                                    *)
THEOREM HostAccessIsKept == Spec => []HostAccessKept
  <1>1. IInv => HostAccessKept
    BY DEF IInv
  <1>2. QED
    BY <1>1, RequestsStaySound, PTL

(* A change the engine accepted is recorded with an author unless its      *)
(* attribution lapsed or was pushed out, and a refused write leaves no     *)
(* expectation (cache/attribution.go, docker/attribution.go).              *)
THEOREM AcceptedChangesAreNamed == Spec => []AcceptedIsNamed
  <1>1. IInv => AcceptedIsNamed
    BY DEF IInv, AttributedInv
  <1>2. QED
    BY <1>1, RequestsStaySound, PTL

(* Every variable keeps its type and its bound, a wait is answered with    *)
(* the change only once the cache shows it, wait slots are given back, and *)
(* a client told of a creation finds it (api/write_helpers.go              *)
(* awaitPreferred, cluster/converge.go, cluster/created.go).               *)
THEOREM AnswersStayTrue == Spec => []AnswersHold
  <1>1. IInv => AnswersHold
    BY DEF IInv, Typed, AnswersHold
  <1>2. QED
    BY <1>1, RequestsStaySound, PTL
=============================================================================
