------------------------------ MODULE Restarts ------------------------------
(***************************************************************************)
(* The restart tracker (internal/cache/restarts.go): the failures of one   *)
(* service, counted in buckets of time for the recommendations, and the    *)
(* newest few with their own times for what is in a restart loop.  Cache   *)
(* says when it is told of a failure; this is what it makes of it.         *)
(***************************************************************************)
EXTENDS Integers, Sequences, FiniteSets, SequencesExt, FiniteSetsExt

CONSTANTS
  horizon,            \* how long a bucket is kept
  bucket,             \* how wide one is
  flappingRestarts,   \* as many failures are a loop
  flappingWindow      \* when they are all as recent as this

(* NewRestartTracker, for one service: buckets holds <<start, count>>.     *)
NewRestartTracker(now) == [buckets |-> <<>>, recent |-> <<>>, observing |-> now]

bucketKey(t) == bucket * (t \div bucket)

Counted(rt, key) == IF key \in DOMAIN rt.buckets THEN rt.buckets[key] ELSE 0
pruneLocked(buckets, now) ==
  [k \in {x \in DOMAIN buckets : x >= bucketKey(now - horizon)} |-> buckets[k]]

AppendRecent(recent, when) ==
  LET longer == Append(recent, when)
  IN  IF Len(longer) > flappingRestarts THEN Tail(longer) ELSE longer

(* recordRecentLocked: inserted in the order of the times, and cut to the  *)
(* newest.                                                                 *)
recordRecentLocked(recent, when) ==
  LET at == Cardinality({i \in DOMAIN recent : recent[i] < when}) + 1
      longer == InsertAt(recent, at, when)
  IN  IF Len(longer) > flappingRestarts THEN Tail(longer) ELSE longer

(* Record: a failure seen to happen counts. *)
Record(rt, when, now) ==
  LET key == bucketKey(when)
      grown == [k \in DOMAIN rt.buckets \cup {key} |-> Counted(rt, k) + IF k = key THEN 1 ELSE 0]
  IN  [rt EXCEPT !.buckets = pruneLocked(grown, now), !.recent = recordRecentLocked(rt.recent, when)]

(* Backfill: one found after the fact only tells of a loop. *)
Backfill(rt, when) == [rt EXCEPT !.recent = recordRecentLocked(rt.recent, when)]

(* Count, and Cache.RestartCount *)
Count(rt, lookback, now) ==
  LET cutoff == bucketKey(now - Min({lookback, horizon}))
  IN  FoldSet(LAMBDA k, n : n + Counted(rt, k), 0, {k \in DOMAIN rt.buckets : k >= cutoff})

(* isFlapping, IsFlapping *)
isFlapping(rt, now) ==
  Len(rt.recent) = flappingRestarts /\ rt.recent[1] > now - flappingWindow

(* TrackingSince *)
TrackingSince(rt, now) == Max({rt.observing, now - horizon})

(* Snapshot keeps the buckets; Restore takes them into a tracker begun at  *)
(* the start of the process and moves its beginning back to cover them.    *)
Snapshot(rt) == rt.buckets
Restore(rt, buckets, now) ==
  LET kept == pruneLocked(buckets, now)
  IN  [rt EXCEPT !.buckets = kept, !.observing = Min({rt.observing} \cup DOMAIN kept)]

(* Forget, and a first record after it. *)
Forget(rt) == [rt EXCEPT !.buckets = <<>>, !.recent = <<>>]
=============================================================================
