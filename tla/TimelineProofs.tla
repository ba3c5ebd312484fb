--------------------------- MODULE TimelineProofs ---------------------------
(***************************************************************************)
(* Proofs about Timeline, for a ring of any size and any number of ids,    *)
(* instants, starts and failures: ids are not issued twice, the database   *)
(* keeps what it may and every note, and an interval nobody watched ends   *)
(* up in a recorded gap.                                                   *)
(*                                                                         *)
(* What carries a gap from the moment it is noticed to the row it becomes  *)
(* is the heart of it: it is in the ring past what was written, or in the  *)
(* batch of a flush, or in the database, and the heartbeat that would make *)
(* the next start forget it travels in the same batch or behind it.        *)
(***************************************************************************)
EXTENDS Timeline, SequencingProofs, FiniteSetTheorems, TLAPS

Instants == Times \ {0}
Stretches == [started : Instants, seen : Instants, beat : BOOLEAN]
Writers == [last : Ids, ready : BOOLEAN, gapChecked : BOOLEAN, covering : BOOLEAN,
            seenAt : Times, retained : BOOLEAN]
Batches == [at : {"idle", "read", "built", "committed", "exit"}, entries : Seq(Entries),
            last : Ids, seenAt : Times, keep : BOOLEAN]
Notes == [at : {"none", "begun", "put"}, action : {"none", "create", "update", "remove"},
          id : Ids, version : Ids]

Distinct(rows) == \A e, f \in rows : e.id = f.id => e = f
Rising(s) == \A i, j \in 1..Len(s) : i < j => s[i].id < s[j].id

Database(d) ==
  /\ DOMAIN d = {"rows", "last", "coverage", "notes"}
  /\ d.rows \subseteq Entries /\ IsFiniteSet(d.rows) /\ Distinct(d.rows)
  /\ \A e \in d.rows : e.kind \in RingKinds
  /\ d.last \in Ids /\ IsNotes(d.notes)
  /\ d.coverage \in Seq(Stretches)

Typed ==
  /\ phase \in {"down", "up", "stopping"} /\ now \in Instants /\ count \in Ids
  /\ ring \in Seq(Entries) /\ Len(ring) <= Size
  /\ stored \in Nat /\ writer \in Writers /\ flush \in Batches /\ note \in Notes
  /\ watching \in BOOLEAN /\ (watching => phase = "up")
  /\ Database(db) /\ IsNotes(index)
  /\ coverage \in {0, Len(db.coverage)}
  /\ trimmed \in Times /\ unseen \in Times /\ reserved \in BOOLEAN
  /\ blind \subseteq 1..(now - 1)

(* Nothing of a process is left when it is down. *)
Vacant ==
  ~ Up => /\ ring = <<>> /\ flush = NoFlush /\ note = NoNote /\ writer = NewWriter(0)
          /\ coverage = 0 /\ count = 0

Carrying == flush.at \in {"read", "built"}
Batch == ToSet(flush.entries)

(* What is written has the smaller ids, what is still in the ring the      *)
(* greater ones, and a batch lies between.                                 *)
Numbered ==
  /\ Rising(ring) /\ writer.last <= count /\ flush.last <= count
  /\ \A e \in ToSet(ring) : e.id <= count /\ (e.kind = "annotation" => e.version = e.id)
  /\ Up => \A e \in db.rows : e.id <= writer.last
  /\ Carrying =>
       /\ Distinct(Batch)
       /\ flush.last = 0 \/ flush.last > writer.last
       /\ \A e \in Batch : e.id > writer.last /\ e.id <= flush.last /\ e.kind \in RingKinds
  /\ Up /\ reserved => writer.last <= db.last

Counted ==
  /\ Up => stored = Cardinality(db.rows)
  /\ writer.retained => stored <= Size
  /\ Carrying /\ ~ flush.keep => flush.entries = <<>> /\ writer.retained

Noted ==
  /\ Up /\ note.at # "put" => index = db.notes
  /\ note.at = "put" => note.version = count + 1 /\ db.notes = Indexed(index, note)

Timed ==
  /\ writer.seenAt <= now /\ flush.seenAt <= now
  /\ \A i \in 1..Len(db.coverage) : db.coverage[i].seen <= now
  /\ writer.gapChecked <=> writer.seenAt # 0
  /\ writer.covering => writer.gapChecked
  /\ blind # {} => Heartbeated(db)

InGap(entries, t) == \E e \in entries : e.kind = "gap" /\ e.from <= t /\ t < e.until
LetGo(t) == InGap(db.rows, t) \/ t < trimmed \/ t < unseen
Pending == {e \in ToSet(ring) : e.id > writer.last}

(* Where each interval nobody watched is remembered: in the file, by the   *)
(* writer once it looked for a gap, and past the heartbeat a flush carries.*)
Remembered == \A t \in blind : LetGo(t) \/ LastSeen(db) <= t
Noticed ==
  Up /\ writer.gapChecked =>
    \A t \in blind : LetGo(t) \/ InGap(Pending, t) \/ (~ watching /\ writer.seenAt <= t)
Beating ==
  /\ flush.at = "read" /\ writer.covering /\ watching =>
       \A t \in blind : LetGo(t) \/ InGap(Batch, t)
  /\ flush.at = "built" /\ flush.seenAt # 0 =>
       \A t \in blind : LetGo(t) \/ InGap(Batch, t) \/ flush.seenAt <= t
  /\ flush.at \in {"built", "committed"} /\ flush.seenAt # 0 /\ writer.covering =>
       \A t \in blind : LetGo(t) \/ InGap(Pending, t) \/ flush.seenAt <= t
Carried ==
  Carrying => \A e \in Pending : e.id <= flush.last /\ e.kind \in RingKinds => e \in Batch

IInv == /\ Typed /\ Vacant /\ Numbered /\ Counted /\ Noted /\ Timed
        /\ Remembered /\ Noticed /\ Beating /\ Carried

----------------------------------------------------------------------------
(* Sets of numbers and of entries.                                         *)

LEMMA MaxIs ==
    ASSUME NEW S, S \subseteq Nat, S # {}, NEW b \in Nat, \A n \in S : n <= b
    PROVE  Max(S) \in S /\ \A n \in S : n <= Max(S)
  <1>1. PICK m \in S : \A n \in S : n <= m
    BY GreatestNatural
  <1>2. m \in S /\ \A n \in S : m >= n
    BY <1>1
  <1>3. \E x \in S : \A y \in S : x >= y
    BY <1>2
  <1>4. Max(S) \in S /\ \A n \in S : Max(S) >= n
    BY <1>3 DEF Max
  <1>5. QED
    BY <1>4

LEMMA EntryShape ==
    ASSUME NEW e \in Entries
    PROVE  /\ e.id \in Ids /\ e.id \in Nat /\ e.id <= MaxId /\ e.kind \in Kinds
           /\ e.from \in Times /\ e.until \in Times /\ e.version \in Ids
           /\ e.from \in Nat /\ e.until \in Nat /\ e.until <= MaxTime
  BY SizeAssumption DEF Entries, Ids, Times

(* Any finite set of entries with ids of their own can be put in order.    *)
LEMMA Orderable ==
    ASSUME NEW rows, rows \subseteq Entries, IsFiniteSet(rows), Distinct(rows)
    PROVE  \E s \in [1..Cardinality(rows) -> rows] :
              /\ \A i, j \in 1..Cardinality(rows) : i < j => s[i].id < s[j].id
              /\ \A e \in rows : \E i \in 1..Cardinality(rows) : s[i] = e
  <1> DEFINE Sorted(T, n) ==
        \E s \in [1..n -> T] : /\ \A i, j \in 1..n : i < j => s[i].id < s[j].id
                               /\ \A e \in T : \E i \in 1..n : s[i] = e
             D == {n \in Nat : \A T \in SUBSET rows : IsFiniteSet(T) /\ Cardinality(T) = n
                                                       => Sorted(T, n)}
  <1>1. 0 \in D
    <2>1. ASSUME NEW T, IsFiniteSet(T), Cardinality(T) = 0 PROVE Sorted(T, 0)
      <3>1. T = {}
        BY <2>1, FS_EmptySet
      <3>2. <<>> \in [1..0 -> T]
        BY <3>1
      <3>3. QED
        BY <3>1, <3>2
    <2> HIDE DEF Sorted
    <2>2. QED
      BY <2>1
  <1>2. ASSUME NEW n \in Nat, n \in D PROVE n + 1 \in D
    <2>1. ASSUME NEW T \in SUBSET rows, IsFiniteSet(T), Cardinality(T) = n + 1
          PROVE  Sorted(T, n + 1)
      <3> DEFINE I == {e.id : e \in T}
      <3>1. T # {}
        BY <2>1, FS_EmptySet
      <3>2. I \subseteq Nat /\ I # {} /\ (\A m \in I : m <= MaxId) /\ MaxId \in Nat
        BY <3>1, EntryShape, SizeAssumption
      <3>3. PICK m \in I : \A k \in I : k <= m
        <4> HIDE DEF I
        <4>1. QED
          BY <3>2, GreatestNatural
      <3>4. PICK e \in T : e.id = m
        OBVIOUS
      <3> DEFINE U == T \ {e}
      <3>5. \A f \in U : f.id < e.id
        <4>1. ASSUME NEW f \in U PROVE f.id < e.id
          <5>1. f.id \in Nat /\ e.id \in Nat /\ f.id <= e.id
            BY <3>3, <3>4, EntryShape
          <5>2. f.id # e.id
            BY DEF Distinct
          <5>3. QED
            BY <5>1, <5>2
        <4>2. QED
          BY <4>1
      <3>6. IsFiniteSet(U) /\ Cardinality(U) = n /\ U \in SUBSET rows
        <4>1. IsFiniteSet(U) /\ Cardinality(U) = Cardinality(T) - 1
          BY <2>1, <3>4, FS_RemoveElement
        <4>2. Cardinality(T) - 1 = n /\ U \in SUBSET rows
          BY <2>1
        <4>3. QED
          BY <4>1, <4>2
      <3>7. PICK s \in [1..n -> U] :
               /\ \A i, j \in 1..n : i < j => s[i].id < s[j].id
               /\ \A f \in U : \E i \in 1..n : s[i] = f
        BY <1>2, <3>6
      <3> DEFINE r == [i \in 1..(n + 1) |-> IF i = n + 1 THEN e ELSE s[i]]
      <3>8. \A i \in 1..(n + 1) : i = n + 1 \/ (i # n + 1 /\ i \in 1..n)
        OBVIOUS
      <3>9. r[n + 1] = e /\ \A i \in 1..n : i \in 1..(n + 1) /\ r[i] = s[i] /\ s[i] \in U
        BY <3>7
      <3>10. r \in [1..(n + 1) -> T]
        BY <3>7, <3>8
      <3> HIDE DEF r
      <3>11. \A i, j \in 1..(n + 1) : i < j => r[i].id < r[j].id
        <4>1. ASSUME NEW i \in 1..(n + 1), NEW j \in 1..(n + 1), i < j
              PROVE  i \in 1..n /\ (j = n + 1 \/ j \in 1..n)
          BY <4>1
        <4>2. QED
          BY <3>5, <3>7, <3>9, <4>1
      <3>12. \A f \in T : \E i \in 1..(n + 1) : r[i] = f
        <4>1. ASSUME NEW f \in T PROVE \E i \in 1..(n + 1) : r[i] = f
          <5>1. CASE f = e
            BY <3>9, <5>1
          <5>2. CASE f # e
            <6>1. PICK i \in 1..n : s[i] = f
              BY <3>7, <5>2
            <6>2. QED
              BY <3>9, <6>1
          <5>3. QED
            BY <5>1, <5>2
        <4>2. QED
          BY <4>1
      <3>13. QED
        BY <3>10, <3>11, <3>12
    <2> HIDE DEF Sorted
    <2>2. QED
      BY <2>1
  <1> HIDE DEF D, Sorted
  <1>3. Nat \subseteq D
    BY <1>1, <1>2, NatSetInduction
  <1>4. Cardinality(rows) \in Nat
    BY FS_CardinalityType
  <1>5. Sorted(rows, Cardinality(rows))
    BY <1>3, <1>4 DEF D
  <1>6. QED
    BY <1>5 DEF Sorted

LEMMA InOrderRises ==
    ASSUME NEW rows, rows \subseteq Entries, IsFiniteSet(rows), Distinct(rows)
    PROVE  /\ InOrder(rows) \in Seq(Entries) /\ Rising(InOrder(rows))
           /\ ToSet(InOrder(rows)) \subseteq rows
  <1> DEFINE n == Cardinality(rows)
             s == InOrder(rows)
  <1>1. n \in Nat
    BY FS_CardinalityType
  <1> HIDE DEF n
  <1>2. \E r \in [1..n -> rows] : \A i, j \in DOMAIN r : i < j => r[i].id < r[j].id
    <2>1. PICK r \in [1..n -> rows] : \A i, j \in 1..n : i < j => r[i].id < r[j].id
      BY Orderable DEF n
    <2>2. DOMAIN r = 1..n
      OBVIOUS
    <2>3. QED
      BY <2>1, <2>2
  <1>3. /\ s \in [1..n -> rows]
        /\ \A i, j \in DOMAIN s : i < j => s[i].id < s[j].id
    BY <1>2 DEF InOrder, n
  <1> HIDE DEF s
  <1>4. DOMAIN s = 1..n /\ \A i \in 1..n : s[i] \in rows
    BY <1>3
  <1>5. s \in Seq(rows) /\ Len(s) = n
    BY <1>1, <1>3
  <1>6. s \in Seq(Entries)
    BY <1>5, SeqMonotonic
  <1>7. QED
    BY <1>3, <1>4, <1>5, <1>6 DEF Rising, ToSet, s

(* Commit's retention leaves the newest Size rows, and all where there are *)
(* no more.                                                                *)
LEMMA RetainedCount ==
    ASSUME NEW rows, rows \subseteq Entries, IsFiniteSet(rows), Distinct(rows)
    PROVE  /\ Retained(rows) \subseteq rows /\ IsFiniteSet(Retained(rows))
           /\ Cardinality(Retained(rows))
                = IF Cardinality(rows) > Size THEN Size ELSE Cardinality(rows)
  <1> DEFINE n == Cardinality(rows)
  <1>1. n \in Nat /\ Size \in Nat \ {0}
    BY FS_CardinalityType, SizeAssumption
  <1>2. PICK s \in [1..n -> rows] :
           /\ \A i, j \in 1..n : i < j => s[i].id < s[j].id
           /\ \A e \in rows : \E i \in 1..n : s[i] = e
    BY Orderable
  <1> HIDE DEF n
  <1>3. \A i \in 1..n : s[i] \in rows /\ s[i].id \in Nat
    BY <1>2, EntryShape
  <1>4. \A i, j \in 1..n : s[j].id > s[i].id <=> j > i
    <2>1. ASSUME NEW i \in 1..n, NEW j \in 1..n PROVE s[j].id > s[i].id <=> j > i
      <3>1. s[i].id \in Nat /\ s[j].id \in Nat
        BY <1>3
      <3>2. i < j => s[i].id < s[j].id
        BY <1>2
      <3>3. j < i => s[j].id < s[i].id
        BY <1>2
      <3>4. i \in Nat /\ j \in Nat
        BY <1>1
      <3>5. CASE i = j
        BY <3>1, <3>5
      <3>6. CASE i < j
        BY <3>1, <3>2, <3>4, <3>6
      <3>7. CASE j < i
        BY <3>1, <3>3, <3>4, <3>7
      <3>8. QED
        BY <3>4, <3>5, <3>6, <3>7
    <2>2. QED
      BY <2>1
  <1> DEFINE Newest(a) == {s[j] : j \in a..n}
  <1>5. ASSUME NEW a \in 1..(n + 1)
        PROVE  IsFiniteSet(Newest(a)) /\ Cardinality(Newest(a)) = n - a + 1
    <2> DEFINE T == Newest(a)
               f == [j \in a..n |-> s[j]]
    <2>1. a \in Int /\ n \in Int /\ a..n \subseteq 1..n /\ n - a + 1 \in Nat
      BY <1>1
    <2>2. f \in [a..n -> T] /\ \A t \in T : \E j \in a..n : f[j] = t
      OBVIOUS
    <2>3. \A i, j \in a..n : f[i] = f[j] => i = j
      <3>1. ASSUME NEW i \in a..n, NEW j \in a..n, f[i] = f[j] PROVE i = j
        <4>1. i \in 1..n /\ j \in 1..n /\ s[i] = s[j]
          BY <2>1, <3>1
        <4>2. s[i].id \in Nat /\ s[j].id \in Nat /\ s[i].id = s[j].id
          BY <1>3, <4>1
        <4>3. ~ (j > i) /\ ~ (i > j)
          BY <1>4, <4>1, <4>2
        <4>4. QED
          BY <1>1, <4>1, <4>3
      <3>2. QED
        BY <3>1
    <2>4. DOMAIN f = a..n
      OBVIOUS
    <2> HIDE DEF T, f
    <2>5. f \in Injection(a..n, T) /\ f \in Surjection(a..n, T)
      BY <2>2, <2>3, <2>4 DEF Injection, Surjection, IsInjective
    <2>6. IsFiniteSet(a..n) /\ Cardinality(a..n) = IF a > n THEN 0 ELSE n - a + 1
      BY <2>1, FS_Interval
    <2>7. IsFiniteSet(T) /\ Cardinality(T) = Cardinality(a..n)
      BY <2>5, <2>6, FS_Surjection
    <2>8. (IF a > n THEN 0 ELSE n - a + 1) = n - a + 1
      BY <1>1
    <2>9. QED
      BY <2>6, <2>7, <2>8 DEF T
  <1>6. ASSUME NEW i \in 1..n
        PROVE  {f \in rows : f.id > s[i].id} = Newest(i + 1)
    <2>1. ASSUME NEW f \in rows PROVE f.id > s[i].id <=> f \in Newest(i + 1)
      <3>1. PICK j \in 1..n : s[j] = f
        BY <1>2
      <3>2. f.id > s[i].id <=> j > i
        BY <1>4, <3>1
      <3>3. j > i => j \in (i + 1)..n
        BY <1>1
      <3>4. ASSUME NEW k \in (i + 1)..n, s[k] = f PROVE f.id > s[i].id
        <4>1. k \in 1..n /\ k > i
          BY <1>1
        <4>2. QED
          BY <1>4, <3>4, <4>1
      <3>5. QED
        BY <3>1, <3>2, <3>3, <3>4
    <2>2. Newest(i + 1) \subseteq rows
      <3>1. \A k \in (i + 1)..n : k \in 1..n
        BY <1>1
      <3>2. QED
        BY <1>3, <3>1
    <2> HIDE DEF Newest
    <2>3. QED
      BY <2>1, <2>2
  <1>7. ASSUME NEW i \in 1..n
        PROVE  Cardinality({f \in rows : f.id > s[i].id}) = n - i
    <2>1. i + 1 \in 1..(n + 1) /\ n - (i + 1) + 1 = n - i
      BY <1>1
    <2> HIDE DEF Newest
    <2>2. QED
      BY <1>5, <1>6, <2>1
  <1>8. PICK a \in 1..(n + 1) : /\ \A i \in 1..n : n - i < Size <=> i \in a..n
                                /\ n - a + 1 = IF n > Size THEN Size ELSE n
    <2>1. CASE n > Size
      <3> DEFINE a == n - Size + 1
      <3>1. a \in 1..(n + 1) /\ n - a + 1 = Size
        BY <1>1, <2>1
      <3>2. \A i \in 1..n : n - i < Size <=> i \in a..n
        BY <1>1, <2>1
      <3> HIDE DEF a
      <3>3. QED
        BY <2>1, <3>1, <3>2
    <2>2. CASE ~ (n > Size)
      <3>1. 1 \in 1..(n + 1) /\ n - 1 + 1 = n
        BY <1>1
      <3>2. \A i \in 1..n : n - i < Size <=> i \in 1..n
        BY <1>1, <2>2
      <3>3. QED
        BY <2>2, <3>1, <3>2
    <2>3. QED
      BY <2>1, <2>2
  <1>9. Retained(rows) = Newest(a)
    <2>1. ASSUME NEW e \in rows PROVE e \in Retained(rows) <=> e \in Newest(a)
      <3>1. PICK i \in 1..n : s[i] = e
        BY <1>2
      <3>2. e \in Retained(rows) <=> n - i < Size
        BY <1>7, <3>1 DEF Retained
      <3>3. ASSUME NEW k \in a..n, s[k] = e PROVE i \in a..n
        <4>1. k \in 1..n
          BY <1>1
        <4>2. s[k].id \in Nat /\ s[k].id = s[i].id
          BY <1>3, <3>1, <3>3, <4>1
        <4>3. ~ (k > i) /\ ~ (i > k)
          BY <1>4, <4>1, <4>2
        <4>4. k = i
          BY <1>1, <4>1, <4>3
        <4>5. QED
          BY <4>4
      <3>4. QED
        BY <1>8, <3>1, <3>2, <3>3
    <2>2. Newest(a) \subseteq rows
      <3>1. \A k \in a..n : k \in 1..n
        BY <1>1
      <3>2. QED
        BY <1>3, <3>1
    <2>3. Retained(rows) \subseteq rows
      BY DEF Retained
    <2> HIDE DEF Newest
    <2>4. QED
      BY <2>1, <2>2, <2>3
  <1> HIDE DEF Newest
  <1>10. IsFiniteSet(Newest(a)) /\ Cardinality(Newest(a)) = IF n > Size THEN Size ELSE n
    BY <1>5, <1>8
  <1>11. Retained(rows) \subseteq rows
    BY DEF Retained
  <1>12. QED
    BY <1>9, <1>10, <1>11 DEF n

----------------------------------------------------------------------------
(* What the ring lets in and lets go.                                      *)

LEMMA GapEnds ==
    ASSUME NEW entries, entries \subseteq Entries, NEW floor \in Times
    PROVE  /\ LatestGapEnd(entries, floor) \in Times
           /\ floor <= LatestGapEnd(entries, floor)
           /\ \A e \in entries : e.kind = "gap" => e.until <= LatestGapEnd(entries, floor)
  <1> DEFINE S == {floor} \cup {e.until : e \in {x \in entries : x.kind = "gap"}}
  <1>1. S \subseteq Times /\ floor \in S
    BY EntryShape
  <1>2. S \subseteq Nat /\ S # {} /\ MaxTime \in Nat /\ \A n \in S : n <= MaxTime
    BY <1>1, SizeAssumption DEF Times
  <1>3. \A e \in entries : e.kind = "gap" => e.until \in S
    OBVIOUS
  <1>4. LatestGapEnd(entries, floor) = Max(S)
    BY DEF LatestGapEnd
  <1> HIDE DEF S
  <1>5. Max(S) \in S /\ \A n \in S : n <= Max(S)
    BY <1>2, MaxIs
  <1>6. QED
    BY <1>1, <1>3, <1>4, <1>5

LEMMA HeldIs ==
    ASSUME NEW all \in Seq(Entries)
    PROVE  /\ Held(all) \in Seq(Entries) /\ Len(Held(all)) <= Size
           /\ Overwritten(all) \in Seq(Entries)
           /\ ToSet(all) = ToSet(Held(all)) \cup ToSet(Overwritten(all))
           /\ Rising(all) => Rising(Held(all))
  <1> DEFINE k == IF Len(all) > Size THEN Len(all) - Size ELSE 0
             h == SubSeq(all, k + 1, Len(all))
             o == SubSeq(all, 1, k)
  <1>1. Len(all) \in Nat /\ Size \in Nat
    BY SizeAssumption
  <1>2. k \in 0..Len(all) /\ Len(all) - k <= Size /\ k \in Nat
    BY <1>1
  <1>3. Len(all) > Size <=> k > 0
    BY <1>1
  <1>4. k > 0 => k = Len(all) - Size
    BY <1>1
  <1> HIDE DEF k
  <1>5. /\ o \in Seq(Entries) /\ Len(o) = k /\ \A i \in 1..k : o[i] = all[i]
    <2>1. \A i \in 1..k : all[i] \in Entries
      BY <1>1, <1>2
    <2>2. QED
      BY <1>1, <1>2, <2>1, SubSeqProperties
  <1>6. /\ h \in Seq(Entries) /\ Len(h) = Len(all) - k
        /\ \A i \in 1..(Len(all) - k) : h[i] = all[k + i]
    <2>1. \A i \in (k + 1)..Len(all) : all[i] \in Entries
      BY <1>1, <1>2
    <2>2. k + 1 \in Int /\ Len(all) \in Int /\ (k + 1) + (Len(all) - k) = Len(all) + 1
      BY <1>1, <1>2
    <2>3. QED
      BY <1>1, <1>2, <2>1, <2>2, SubSeqProperties
  <1>7. Overwritten(all) = o
    <2>1. CASE Len(all) > Size
      BY <1>3, <1>4, <2>1 DEF Overwritten
    <2>2. CASE ~ (Len(all) > Size)
      <3>1. k = 0 /\ Overwritten(all) = <<>>
        BY <1>2, <1>3, <2>2 DEF Overwritten
      <3> HIDE DEF o
      <3>2. QED
        BY <1>5, <3>1
    <2>3. QED
      BY <2>1, <2>2
  <1>8. Held(all) = h
    BY <1>5, <1>7 DEF Held
  <1> HIDE DEF h, o
  <1>9. ASSUME NEW i \in 1..Len(all) PROVE all[i] \in ToSet(h) \cup ToSet(o)
    <2>1. CASE i \in 1..k
      BY <1>5, <2>1 DEF ToSet
    <2>2. CASE i \notin 1..k
      <3>1. i - k \in 1..(Len(all) - k) /\ k + (i - k) = i
        BY <1>1, <1>2, <2>2
      <3>2. QED
        BY <1>6, <3>1 DEF ToSet
    <2>3. QED
      BY <2>1, <2>2
  <1>10. ToSet(h) \subseteq ToSet(all)
    <2>1. \A i \in 1..(Len(all) - k) : k + i \in 1..Len(all)
      BY <1>1, <1>2
    <2>2. QED
      BY <1>6, <2>1 DEF ToSet
  <1>11. ToSet(o) \subseteq ToSet(all)
    <2>1. \A i \in 1..k : i \in 1..Len(all)
      BY <1>1, <1>2
    <2>2. QED
      BY <1>5, <2>1 DEF ToSet
  <1>12. ToSet(all) \subseteq ToSet(h) \cup ToSet(o)
    BY <1>9 DEF ToSet
  <1>13. Rising(all) => Rising(h)
    <2>1. ASSUME Rising(all), NEW i \in 1..Len(h), NEW j \in 1..Len(h), i < j
          PROVE  h[i].id < h[j].id
      <3>1. /\ i \in 1..(Len(all) - k) /\ j \in 1..(Len(all) - k)
            /\ k + i \in 1..Len(all) /\ k + j \in 1..Len(all) /\ k + i < k + j
        BY <1>1, <1>2, <1>6, <2>1
      <3>2. QED
        BY <1>6, <2>1, <3>1 DEF Rising
    <2>2. QED
      BY <2>1 DEF Rising
  <1>14. QED
    BY <1>2, <1>5, <1>6, <1>7, <1>8, <1>10, <1>11, <1>12, <1>13

LEMMA RisingApart ==
    ASSUME NEW s \in Seq(Entries), Rising(s)
    PROVE  Distinct(ToSet(s))
  <1>1. ASSUME NEW i \in 1..Len(s), NEW j \in 1..Len(s), s[i].id = s[j].id
        PROVE  s[i] = s[j]
    <2>1. s[i].id \in Nat /\ s[j].id \in Nat
      BY EntryShape
    <2>2. ~ (i < j) /\ ~ (j < i)
      BY <1>1, <2>1 DEF Rising
    <2>3. i = j
      BY <2>2
    <2>4. QED
      BY <2>3
  <1>2. \A e \in ToSet(s) : \E i \in 1..Len(s) : e = s[i]
    BY DEF ToSet
  <1>3. QED
    BY <1>1, <1>2 DEF Distinct

(* Entries follow those handed out before, so the ring still rises; what   *)
(* it loses is written, or is no gap, or is counted as let go.             *)
LEMMA Appends ==
    ASSUME Typed, Numbered, NEW new \in Seq(Entries), AppendAll(new),
           \A i \in 1..Len(new) : new[i].id = count + i
    PROVE  /\ ring' \in Seq(Entries) /\ Len(ring') <= Size /\ Rising(ring')
           /\ count' \in Ids /\ count' = count + Len(new) /\ count <= count'
           /\ trimmed' \in Times /\ trimmed <= trimmed'
           /\ \A e \in ToSet(ring') :
                 \/ e \in ToSet(ring) /\ e.id <= count
                 \/ e \in ToSet(new) /\ e.id > count
           /\ \A e \in ToSet(ring') : e.id <= count'
           /\ \A e \in ToSet(ring) \cup ToSet(new) :
                 e.kind = "gap" /\ e.id > writer.last
                   => e \in ToSet(ring') \/ e.until <= trimmed'
  <1> DEFINE all == ring \o new
             lost == {e \in ToSet(Overwritten(all)) : e.id > writer.last}
  <1>1. /\ ring \in Seq(Entries) /\ count \in Nat /\ Len(new) \in Nat /\ Len(ring) \in Nat
        /\ MaxId \in Nat /\ trimmed \in Times
    BY SizeAssumption DEF Typed, Ids
  <1>2. /\ all \in Seq(Entries) /\ Len(all) = Len(ring) + Len(new)
        /\ \A i \in 1..(Len(ring) + Len(new)) :
              all[i] = IF i <= Len(ring) THEN ring[i] ELSE new[i - Len(ring)]
    BY <1>1, ConcatProperties
  <1>3. \A e \in ToSet(ring) : e.id \in Nat /\ e.id <= count
    <2>1. \A e \in ToSet(ring) : e \in Entries
      BY <1>1 DEF ToSet
    <2>2. QED
      BY <2>1, EntryShape DEF Numbered
  <1>4. \A e \in ToSet(new) : e.id \in Nat /\ e.id > count /\ e.id <= count + Len(new)
    <2>1. ASSUME NEW i \in 1..Len(new)
          PROVE  new[i].id \in Nat /\ new[i].id > count /\ new[i].id <= count + Len(new)
      <3>1. new[i].id = count + i
        OBVIOUS
      <3>2. QED
        BY <1>1, <3>1
    <2>2. QED
      BY <2>1 DEF ToSet
  <1>5. ToSet(all) = ToSet(ring) \cup ToSet(new)
    <2>1. ASSUME NEW i \in 1..Len(all) PROVE all[i] \in ToSet(ring) \cup ToSet(new)
      <3>1. CASE i <= Len(ring)
        <4>1. i \in 1..Len(ring) /\ all[i] = ring[i]
          BY <1>1, <1>2, <3>1
        <4>2. QED
          BY <4>1 DEF ToSet
      <3>2. CASE ~ (i <= Len(ring))
        <4>1. i - Len(ring) \in 1..Len(new) /\ all[i] = new[i - Len(ring)]
          BY <1>1, <1>2, <3>2
        <4>2. QED
          BY <4>1 DEF ToSet
      <3>3. QED
        BY <3>1, <3>2
    <2>2. ASSUME NEW i \in 1..Len(ring) PROVE ring[i] \in ToSet(all)
      <3>1. i \in 1..Len(all) /\ all[i] = ring[i]
        BY <1>1, <1>2
      <3>2. QED
        BY <3>1 DEF ToSet
    <2>3. ASSUME NEW i \in 1..Len(new) PROVE new[i] \in ToSet(all)
      <3>1. /\ i + Len(ring) \in 1..(Len(ring) + Len(new)) /\ ~ (i + Len(ring) <= Len(ring))
            /\ (i + Len(ring)) - Len(ring) = i
        BY <1>1
      <3>2. i + Len(ring) \in 1..Len(all) /\ all[i + Len(ring)] = new[i]
        BY <1>2, <3>1
      <3>3. QED
        BY <3>2 DEF ToSet
    <2> HIDE DEF all
    <2>4. ToSet(all) \subseteq ToSet(ring) \cup ToSet(new)
      BY <2>1 DEF ToSet
    <2>5. ToSet(ring) \subseteq ToSet(all)
      BY <2>2 DEF ToSet
    <2>6. ToSet(new) \subseteq ToSet(all)
      BY <2>3 DEF ToSet
    <2>7. QED
      BY <2>4, <2>5, <2>6
  <1>6. Rising(all)
    <2>1. ASSUME NEW i \in 1..Len(all), NEW j \in 1..Len(all), i < j
          PROVE  all[i].id < all[j].id
      <3>1. CASE j <= Len(ring)
        <4>1. i \in 1..Len(ring) /\ j \in 1..Len(ring) /\ all[i] = ring[i] /\ all[j] = ring[j]
          BY <1>1, <1>2, <2>1, <3>1
        <4>2. QED
          BY <2>1, <4>1 DEF Numbered, Rising
      <3>2. CASE i <= Len(ring) /\ ~ (j <= Len(ring))
        <4>1. i \in 1..Len(ring) /\ j - Len(ring) \in 1..Len(new)
          BY <1>1, <1>2, <3>2
        <4>2. all[i] = ring[i] /\ all[j] = new[j - Len(ring)]
          BY <1>1, <1>2, <3>2
        <4>3. all[i] \in ToSet(ring) /\ all[j] \in ToSet(new)
          BY <4>1, <4>2 DEF ToSet
        <4>4. QED
          BY SMTT(30), <1>1, <1>3, <1>4, <4>3
      <3>3. CASE ~ (i <= Len(ring))
        <4>1. i - Len(ring) \in 1..Len(new) /\ j - Len(ring) \in 1..Len(new)
          BY <1>1, <1>2, <2>1, <3>3
        <4>2. ~ (j <= Len(ring))
          BY <1>1, <1>2, <2>1, <3>3
        <4>3. all[i] = new[i - Len(ring)] /\ all[j] = new[j - Len(ring)]
          BY <1>2, <3>3, <4>2
        <4>4. all[i].id = count + (i - Len(ring)) /\ all[j].id = count + (j - Len(ring))
          BY <4>1, <4>3
        <4>5. QED
          BY <1>1, <2>1, <4>4
      <3>4. QED
        BY <3>1, <3>2, <3>3
    <2>2. QED
      BY <2>1 DEF Rising
  <1>7. ring' = Held(all) /\ count' = count + Len(new) /\ count + Len(new) <= MaxId
        /\ trimmed' = LatestGapEnd(lost, trimmed)
    BY DEF AppendAll
  <1> HIDE DEF all
  <1>8. /\ ring' \in Seq(Entries) /\ Len(ring') <= Size /\ Rising(ring')
        /\ Overwritten(all) \in Seq(Entries)
        /\ ToSet(all) = ToSet(ring') \cup ToSet(Overwritten(all))
    BY <1>2, <1>6, <1>7, HeldIs
  <1>9. lost \subseteq Entries
    BY <1>8 DEF ToSet
  <1>10. /\ trimmed' \in Times /\ trimmed <= trimmed'
         /\ \A e \in lost : e.kind = "gap" => e.until <= trimmed'
    <2> HIDE DEF lost
    <2>1. QED
      BY <1>1, <1>7, <1>9, GapEnds
  <1>11. count' \in Ids /\ count <= count'
    BY <1>1, <1>7 DEF Ids
  <1>12. \A e \in ToSet(ring') : \/ e \in ToSet(ring) /\ e.id <= count
                                 \/ e \in ToSet(new) /\ e.id > count
    BY <1>3, <1>4, <1>5, <1>8
  <1>13. \A e \in ToSet(ring') : e.id <= count'
    BY <1>1, <1>3, <1>4, <1>5, <1>7, <1>8
  <1>14. \A e \in ToSet(ring) \cup ToSet(new) :
            e.kind = "gap" /\ e.id > writer.last => e \in ToSet(ring') \/ e.until <= trimmed'
    BY <1>5, <1>8, <1>10
  <1>15. QED
    BY <1>7, <1>8, <1>10, <1>11, <1>12, <1>13, <1>14

----------------------------------------------------------------------------
(* What the next start reads of the file.                                  *)

LEMMA CommittedLast ==
    ASSUME NEW d, Database(d)
    PROVE  /\ LastCommitted(d) \in Nat /\ d.last <= LastCommitted(d)
           /\ \A e \in d.rows : e.id <= LastCommitted(d)
  <1> DEFINE S == {d.last} \cup {e.id : e \in d.rows} \cup {d.notes[id] : id \in DOMAIN d.notes}
  <1>1. d.last \in S /\ \A e \in d.rows : e.id \in S
    OBVIOUS
  <1>2. S \subseteq Ids
    <2>1. d.last \in Ids
      BY DEF Database
    <2>2. \A e \in d.rows : e.id \in Ids
      BY EntryShape DEF Database
    <2>3. \A id \in DOMAIN d.notes : d.notes[id] \in Ids
      BY DEF Database, IsNotes
    <2>4. QED
      BY <2>1, <2>2, <2>3
  <1>3. LastCommitted(d) = Max(S)
    BY DEF LastCommitted
  <1> HIDE DEF S
  <1>4. S \subseteq Nat /\ S # {} /\ MaxId \in Nat /\ \A n \in S : n <= MaxId
    BY <1>1, <1>2, SizeAssumption DEF Ids
  <1>5. Max(S) \in S /\ \A n \in S : n <= Max(S)
    BY <1>4, MaxIs
  <1>6. QED
    BY <1>1, <1>3, <1>4, <1>5

LEMMA SeenAmong ==
    ASSUME NEW d, d.coverage \in Seq(Stretches), Seen(d)
    PROVE  /\ Max(LastSeenRows(d)) \in LastSeenRows(d)
           /\ Max(LastSeenRows(d)) \in 1..Len(d.coverage)
           /\ \A i \in LastSeenRows(d) : i <= Max(LastSeenRows(d))
           /\ LastSeen(d) \in Instants
           /\ \E i \in 1..Len(d.coverage) : LastSeen(d) = d.coverage[i].seen
  <1> DEFINE S == LastSeenRows(d)
  <1>1. DOMAIN d.coverage = 1..Len(d.coverage) /\ Len(d.coverage) \in Nat
    OBVIOUS
  <1>2. S \subseteq 1..Len(d.coverage) /\ S # {}
    BY <1>1 DEF LastSeenRows, Seen
  <1> HIDE DEF S
  <1>3. S \subseteq Nat /\ \A n \in S : n <= Len(d.coverage)
    BY <1>1, <1>2
  <1>4. Max(S) \in S /\ \A n \in S : n <= Max(S)
    BY <1>1, <1>2, <1>3, MaxIs
  <1>5. Max(S) \in 1..Len(d.coverage) /\ LastSeen(d) = d.coverage[Max(S)].seen
    BY <1>2, <1>4 DEF LastSeen, S
  <1>6. d.coverage[Max(S)] \in Stretches
    BY <1>5
  <1>7. d.coverage[Max(S)].seen \in Instants
    BY <1>6 DEF Stretches
  <1>8. QED
    BY <1>4, <1>5, <1>7 DEF S

LEMMA BeatenIsSeen ==
    ASSUME NEW d, d.coverage \in Seq(Stretches), Heartbeated(d)
    PROVE  Seen(d)
  BY DEF Heartbeated, Seen, LastSeenRows

(* A row opened and not yet heartbeated is not where LastSeen looks.       *)
LEMMA OpenedUnseen ==
    ASSUME NEW d, NEW e, d.coverage \in Seq(Stretches), Heartbeated(d),
           NEW at \in Instants,
           e.coverage = Append(d.coverage, [started |-> at, seen |-> at, beat |-> FALSE])
    PROVE  Heartbeated(e) /\ LastSeen(e) = LastSeen(d)
  <1> DEFINE row == [started |-> at, seen |-> at, beat |-> FALSE]
             n == Len(d.coverage)
  <1>1. n \in Nat /\ DOMAIN d.coverage = 1..n /\ row \in Stretches /\ row.beat = FALSE
    BY DEF Stretches
  <1>2. /\ DOMAIN e.coverage = 1..(n + 1) /\ e.coverage[n + 1] = row
        /\ \A i \in 1..n : e.coverage[i] = d.coverage[i]
    BY <1>1, AppendProperties
  <1> HIDE DEF row, n
  <1>3. \A i \in 1..(n + 1) : i \in 1..n \/ i = n + 1
    BY <1>1
  <1>4. 1..n \subseteq 1..(n + 1)
    BY <1>1
  <1>5. {i \in DOMAIN e.coverage : e.coverage[i].beat} = {i \in DOMAIN d.coverage : d.coverage[i].beat}
    BY <1>1, <1>2, <1>3, <1>4
  <1>6. {i \in DOMAIN d.coverage : d.coverage[i].beat} # {}
    BY DEF Heartbeated
  <1>7. LastSeenRows(e) = LastSeenRows(d)
    BY <1>5, <1>6 DEF LastSeenRows
  <1>8. Heartbeated(e)
    BY <1>5, <1>6 DEF Heartbeated
  <1>9. Max(LastSeenRows(d)) \in 1..Len(d.coverage)
    BY SeenAmong, BeatenIsSeen
  <1>10. e.coverage[Max(LastSeenRows(d))] = d.coverage[Max(LastSeenRows(d))]
    BY <1>2, <1>9 DEF n
  <1>11. LastSeen(e) = LastSeen(d)
    BY <1>7, <1>10 DEF LastSeen
  <1>12. QED
    BY <1>8, <1>11

(* A heartbeat, as a commit writes it.                                     *)
Beaten(rows, n, at) == [rows EXCEPT ![n].seen = at, ![n].beat = TRUE]

(* The heartbeat of the newest row is the last one seen.                   *)
LEMMA BeatenLast ==
    ASSUME NEW d, NEW e, d.coverage \in Seq(Stretches), NEW at \in Instants,
           Len(d.coverage) # 0, e.coverage = Beaten(d.coverage, Len(d.coverage), at)
    PROVE  /\ e.coverage \in Seq(Stretches) /\ Len(e.coverage) = Len(d.coverage)
           /\ \A i \in 1..Len(d.coverage) :
                 e.coverage[i].seen \in {at, d.coverage[i].seen}
           /\ Heartbeated(e) /\ LastSeen(e) = at
  <1> DEFINE n == Len(d.coverage)
  <1>1. n \in Nat /\ n \in 1..n /\ DOMAIN d.coverage = 1..n
    OBVIOUS
  <1> DEFINE row == [d.coverage[n] EXCEPT !.seen = at, !.beat = TRUE]
  <1>2. d.coverage[n] \in Stretches
    BY <1>1
  <1>3. row \in Stretches /\ row.seen = at /\ row.beat = TRUE
    BY <1>2 DEF Stretches
  <1>4. e.coverage = [d.coverage EXCEPT ![n] = row]
    <2>1. e.coverage = [[d.coverage EXCEPT ![n].seen = at] EXCEPT ![n].beat = TRUE]
      BY DEF Beaten, n
    <2>2. [d.coverage EXCEPT ![n].seen = at] = [d.coverage EXCEPT ![n] = [d.coverage[n] EXCEPT !.seen = at]]
      OBVIOUS
    <2>3. row = [[d.coverage[n] EXCEPT !.seen = at] EXCEPT !.beat = TRUE]
      OBVIOUS
    <2> DEFINE f == [d.coverage EXCEPT ![n] = [d.coverage[n] EXCEPT !.seen = at]]
    <2>4. f[n] = [d.coverage[n] EXCEPT !.seen = at] /\ DOMAIN f = 1..n
             /\ \A i \in 1..n : i # n => f[i] = d.coverage[i]
      BY <1>1
    <2>5. e.coverage = [f EXCEPT ![n] = [f[n] EXCEPT !.beat = TRUE]]
      BY <2>1, <2>2
    <2> HIDE DEF f
    <2>6. e.coverage = [f EXCEPT ![n] = row]
      BY <2>3, <2>4, <2>5
    <2> HIDE DEF row
    <2>7. QED
      BY <1>1, <2>4, <2>6
  <1> HIDE DEF row
  <1>5. /\ e.coverage \in Seq(Stretches) /\ Len(e.coverage) = n /\ DOMAIN e.coverage = 1..n
        /\ e.coverage[n] = row /\ \A i \in 1..n : i # n => e.coverage[i] = d.coverage[i]
    <2> DEFINE f == [i \in 1..n |-> IF i = n THEN row ELSE d.coverage[i]]
    <2>1. e.coverage = f
      BY <1>1, <1>4
    <2>2. \A i \in 1..n : f[i] \in Stretches
      BY <1>1, <1>3
    <2>3. f \in Seq(Stretches) /\ Len(f) = n /\ DOMAIN f = 1..n
      <3>1. f \in [1..n -> Stretches]
        BY <2>2
      <3> HIDE DEF f
      <3>2. QED
        BY <1>1, <3>1
    <2>4. f[n] = row /\ \A i \in 1..n : i # n => f[i] = d.coverage[i]
      BY <1>1
    <2> HIDE DEF f
    <2>5. QED
      BY <2>1, <2>3, <2>4
  <1>6. Heartbeated(e) /\ n \in LastSeenRows(e) /\ Seen(e)
    BY <1>1, <1>3, <1>5 DEF Heartbeated, LastSeenRows, Seen
  <1>7. /\ Max(LastSeenRows(e)) \in 1..Len(e.coverage)
        /\ \A i \in LastSeenRows(e) : i <= Max(LastSeenRows(e))
    BY <1>5, <1>6, SeenAmong
  <1>8. Max(LastSeenRows(e)) = n
    BY <1>1, <1>5, <1>6, <1>7
  <1>9. QED
    BY <1>3, <1>5, <1>6, <1>8 DEF LastSeen

----------------------------------------------------------------------------
(* A gap is not forgotten as the ring moves on.                            *)

LEMMA BlindTimes ==
    ASSUME Typed, NEW t \in blind
    PROVE  t \in Nat /\ t < now /\ t # 0
  BY SizeAssumption DEF Typed, Instants, Times

LEMMA StillLetGo ==
    ASSUME Typed, trimmed' \in Times, trimmed <= trimmed', unseen' = unseen,
           \A e \in db.rows : e.kind = "gap" => e \in db'.rows \/ e.until <= trimmed',
           NEW t \in Nat, LetGo(t)
    PROVE  LetGo(t)'
  <1>1. trimmed \in Nat /\ trimmed' \in Nat
    BY SizeAssumption DEF Typed, Times
  <1>2. CASE InGap(db.rows, t)
    <2>1. PICK e \in db.rows : e.kind = "gap" /\ e.from <= t /\ t < e.until
      BY <1>2 DEF InGap
    <2>2. e \in Entries
      BY DEF Typed, Database
    <2>3. e.until \in Nat
      BY <2>2, EntryShape
    <2>4. e \in db'.rows \/ t < trimmed'
      BY <1>1, <2>1, <2>3
    <2>5. QED
      BY <2>1, <2>4 DEF LetGo, InGap
  <1>3. CASE t < trimmed
    BY <1>1, <1>3 DEF LetGo
  <1>4. CASE t < unseen
    BY <1>4 DEF LetGo
  <1>5. QED
    BY <1>2, <1>3, <1>4 DEF LetGo

LEMMA Appended ==
    ASSUME Typed, Numbered, Carried, NEW new \in Seq(Entries), AppendAll(new),
           \A i \in 1..Len(new) : new[i].id = count + i,
           \A e \in ToSet(new) : e.kind = "annotation" => e.version = e.id,
           flush' = flush, writer'.last = writer.last
    PROVE  /\ ring' \in Seq(Entries) /\ Len(ring') <= Size /\ count' \in Ids
           /\ trimmed' \in Times /\ trimmed <= trimmed'
           /\ Rising(ring') /\ writer'.last <= count' /\ flush'.last <= count'
           /\ \A e \in ToSet(ring') : e.id <= count' /\ (e.kind = "annotation" => e.version = e.id)
           /\ \A t \in Nat : InGap(Pending, t) => InGap(Pending', t) \/ t < trimmed'
           /\ \A t \in Nat : InGap(ToSet(new), t) => InGap(Pending', t) \/ t < trimmed'
           /\ Carried'
  <1>1. /\ ring' \in Seq(Entries) /\ Len(ring') <= Size /\ Rising(ring')
        /\ count' \in Ids /\ count' = count + Len(new) /\ count <= count'
        /\ trimmed' \in Times /\ trimmed <= trimmed'
        /\ \A e \in ToSet(ring') :
              \/ e \in ToSet(ring) /\ e.id <= count
              \/ e \in ToSet(new) /\ e.id > count
        /\ \A e \in ToSet(ring') : e.id <= count'
        /\ \A e \in ToSet(ring) \cup ToSet(new) :
              e.kind = "gap" /\ e.id > writer.last => e \in ToSet(ring') \/ e.until <= trimmed'
    BY Appends
  <1>2. count \in Nat /\ count' \in Nat /\ writer.last \in Nat /\ flush.last \in Nat
        /\ writer.last <= count /\ flush.last <= count /\ trimmed' \in Nat
    BY <1>1, SizeAssumption DEF Typed, Writers, Batches, Ids, Times, Numbered
  <1>3. \A e \in ToSet(ring) \cup ToSet(new) : e \in Entries /\ e.id \in Nat /\ e.until \in Nat
    <2>1. ToSet(ring) \cup ToSet(new) \subseteq Entries
      BY DEF Typed, ToSet
    <2>2. QED
      BY <2>1, EntryShape
  <1>4. \A e \in ToSet(new) : e.id > writer.last
    <2>1. ASSUME NEW i \in 1..Len(new) PROVE new[i].id > writer.last
      BY <1>2
    <2>2. QED
      BY <2>1 DEF ToSet
  <1>5. writer'.last <= count' /\ flush'.last <= count'
    BY <1>1, <1>2
  <1>6. \A e \in ToSet(ring') : e.kind = "annotation" => e.version = e.id
    BY <1>1 DEF Numbered
  <1>7. ASSUME NEW t \in Nat, NEW e \in ToSet(ring) \cup ToSet(new), e.id > writer.last,
               e.kind = "gap", e.from <= t, t < e.until
        PROVE  InGap(Pending', t) \/ t < trimmed'
    <2>1. CASE e \in ToSet(ring')
      <3>1. e \in Pending'
        BY <1>7, <2>1 DEF Pending
      <3>2. QED
        BY <1>7, <3>1 DEF InGap
    <2>2. CASE e.until <= trimmed'
      BY <1>2, <1>3, <1>7, <2>2
    <2>3. QED
      BY <1>1, <1>7, <2>1, <2>2
  <1>8. ASSUME NEW t \in Nat, InGap(Pending, t) PROVE InGap(Pending', t) \/ t < trimmed'
    <2>1. PICK e \in Pending : e.kind = "gap" /\ e.from <= t /\ t < e.until
      BY <1>8 DEF InGap
    <2>2. e \in ToSet(ring) \cup ToSet(new) /\ e.id > writer.last
      BY DEF Pending
    <2>3. QED
      BY <1>7, <2>1, <2>2
  <1>9. ASSUME NEW t \in Nat, InGap(ToSet(new), t) PROVE InGap(Pending', t) \/ t < trimmed'
    <2>1. PICK e \in ToSet(new) : e.kind = "gap" /\ e.from <= t /\ t < e.until
      BY <1>9 DEF InGap
    <2>2. QED
      BY <1>4, <1>7, <2>1
  <1>10. Carried'
    <2>1. ASSUME Carrying, NEW e \in Pending', e.id <= flush.last, e.kind \in RingKinds
          PROVE  e \in Batch
      <3>1. e \in ToSet(ring') /\ e.id > writer.last
        BY DEF Pending
      <3>2. e \in ToSet(ring)
        BY <1>1, <1>2, <1>3, <2>1, <3>1
      <3>3. e \in Pending
        BY <3>1, <3>2 DEF Pending
      <3>4. QED
        BY <2>1, <3>3 DEF Carried
    <2>2. Carrying' = Carrying /\ Batch' = Batch
      BY DEF Carrying, Batch
    <2>3. QED
      BY <2>1, <2>2 DEF Carried
  <1>11. QED
    BY <1>1, <1>5, <1>6, <1>8, <1>9, <1>10

(* The gap the writer looks for reaches back to where it, or the file, was *)
(* last seen.                                                              *)
LEMMA GapReaches ==
    ASSUME IInv, Up, NEW w, w.seenAt = writer.seenAt
    PROVE  /\ Previous(w) \in Times
           /\ \A t \in blind : LetGo(t) \/ InGap(Pending, t)
                               \/ (Previous(w) # 0 /\ Previous(w) <= t)
  <1>1. writer.seenAt \in Times /\ db.coverage \in Seq(Stretches)
    BY DEF IInv, Typed, Writers, Database
  <1>2. Seen(db) => LastSeen(db) \in Instants
    BY <1>1, SeenAmong
  <1>3. CASE w.seenAt # 0
    <2>1. Previous(w) = writer.seenAt /\ writer.gapChecked
      BY <1>3 DEF Previous, IInv, Timed
    <2>2. QED
      BY <1>1, <1>3, <2>1 DEF IInv, Noticed
  <1>4. CASE w.seenAt = 0
    <2>1. ASSUME NEW t \in blind PROVE Seen(db)
      BY <1>1, BeatenIsSeen DEF IInv, Timed
    <2>2. Seen(db) => Previous(w) = LastSeen(db) /\ LastSeen(db) # 0
      BY <1>2, <1>4 DEF Previous, Instants
    <2>3. ~ Seen(db) => Previous(w) = 0
      BY <1>4 DEF Previous
    <2>4. Previous(w) \in Times
      BY <1>2, <2>2, <2>3, SizeAssumption DEF Instants, Times
    <2>5. QED
      BY <2>1, <2>2, <2>4 DEF IInv, Remembered
  <1>5. QED
    BY <1>3, <1>4

LEMMA GapTold ==
    ASSUME Typed, Numbered, Carried, NEW previous \in Times, NEW recovered \in Nat,
           NotifyGap(previous, recovered), flush' = flush, writer'.last = writer.last
    PROVE  /\ ring' \in Seq(Entries) /\ Len(ring') <= Size /\ count' \in Ids
           /\ trimmed' \in Times /\ trimmed <= trimmed'
           /\ Rising(ring') /\ writer'.last <= count' /\ flush'.last <= count'
           /\ \A e \in ToSet(ring') : e.id <= count' /\ (e.kind = "annotation" => e.version = e.id)
           /\ \A t \in Nat : InGap(Pending, t) => InGap(Pending', t) \/ t < trimmed'
           /\ \A t \in blind : previous # 0 /\ previous <= t => InGap(Pending', t) \/ t < trimmed'
           /\ Carried'
  <1>1. CASE previous # 0 /\ previous < now
    <2> DEFINE changes == [i \in 1..recovered |-> Entry("change", i, now, now)]
               gap == Entry("gap", recovered + 1, previous, now)
               new == changes \o <<gap>>
    <2>1. AppendAll(new)
      BY <1>1 DEF NotifyGap
    <2>2. /\ now \in Times /\ count \in Nat /\ MaxId \in Nat /\ recovered \in Nat
      BY SizeAssumption DEF Typed, Instants, Ids
    <2> DEFINE Written(i) == [id |-> count + i, kind |-> IF i = recovered + 1 THEN "gap" ELSE "change",
                              from |-> IF i = recovered + 1 THEN previous ELSE now,
                              until |-> now, version |-> 0]
               E == [id : Nat, kind : Kinds, from : Times, until : Times, version : Ids]
    <2>3. gap = Written(recovered + 1) /\ \A i \in 1..recovered : changes[i] = Written(i)
      BY <2>2 DEF Entry
    <2>4. \A i \in 1..(recovered + 1) : Written(i) \in E /\ Written(i).id = count + i
                                       /\ Written(i).kind # "annotation"
      <3>1. \A i \in 1..(recovered + 1) : count + i \in Nat
        BY <2>2
      <3>2. 0 \in Ids /\ {"gap", "change"} \subseteq Kinds
        BY <2>2 DEF Ids, Kinds
      <3>3. QED
        BY <2>2, <3>1, <3>2
    <2>5. changes \in Seq(E) /\ Len(changes) = recovered /\ <<gap>> \in Seq(E) /\ Len(<<gap>>) = 1
      <3>1. \A i \in 1..recovered : changes[i] \in E
        <4>1. 1..recovered \subseteq 1..(recovered + 1)
          BY <2>2
        <4> HIDE DEF Written, E, changes
        <4>2. QED
          BY <2>3, <2>4, <4>1
      <3>2. gap \in E
        <4>1. recovered + 1 \in 1..(recovered + 1)
          BY <2>2
        <4> HIDE DEF Written, E, gap
        <4>2. QED
          BY <2>3, <2>4, <4>1
      <3>3. DOMAIN changes = 1..recovered
        OBVIOUS
      <3> HIDE DEF E, gap
      <3>4. changes \in [1..recovered -> E]
        <4>1. changes = [i \in 1..recovered |-> changes[i]]
          OBVIOUS
        <4> HIDE DEF changes
        <4>2. QED
          BY <3>1, <3>3, <4>1
      <3> HIDE DEF changes
      <3>5. QED
        BY <2>2, <3>2, <3>4
    <2> HIDE DEF changes, gap, E
    <2>6. /\ new \in Seq(E) /\ Len(new) = recovered + 1
          /\ \A i \in 1..(recovered + 1) : new[i] = Written(i)
      <3>1. /\ new \in Seq(E) /\ Len(new) = recovered + 1
            /\ \A i \in 1..(recovered + 1) :
                  new[i] = IF i <= recovered THEN changes[i] ELSE <<gap>>[i - recovered]
        BY <2>5, ConcatProperties
      <3> HIDE DEF new, Written
      <3>2. ASSUME NEW i \in 1..(recovered + 1) PROVE new[i] = Written(i)
        <4>1. CASE i <= recovered
          <5>1. i \in 1..recovered
            BY <2>2, <4>1
          <5>2. QED
            BY <2>3, <3>1, <4>1, <5>1
        <4>2. CASE ~ (i <= recovered)
          <5>1. i = recovered + 1 /\ i - recovered = 1
            BY <2>2, <4>2
          <5>2. <<gap>>[1] = gap
            OBVIOUS
          <5>3. QED
            BY <2>3, <3>1, <4>2, <5>1, <5>2
        <4>3. QED
          BY <4>1, <4>2
      <3>3. QED
        BY <3>1, <3>2
    <2> HIDE DEF new
    <2>7. \A i \in 1..Len(new) : new[i].id = count + i /\ new[i].kind # "annotation"
      <3> HIDE DEF Written
      <3>1. QED
        BY <2>4, <2>6
    <2>8. new \in Seq(Entries)
      <3>1. count + Len(new) <= MaxId
        BY <2>1 DEF AppendAll
      <3>2. \A i \in 1..Len(new) : new[i] \in E /\ new[i].id = count + i
        <4> HIDE DEF Written
        <4>1. QED
          BY <2>4, <2>6
      <3>3. \A i \in 1..Len(new) : count + i \in Ids
        BY <2>2, <2>6, <3>1 DEF Ids
      <3>4. \A i \in 1..Len(new) : new[i] \in Entries
        BY <3>2, <3>3 DEF E, Entries
      <3>5. new \in [1..Len(new) -> E] /\ Len(new) \in Nat
        BY <2>6
      <3>6. new \in [1..Len(new) -> Entries]
        BY <3>4, <3>5
      <3>7. QED
        BY <3>5, <3>6
    <2>9. \A e \in ToSet(new) : e.kind = "annotation" => e.version = e.id
      BY <2>7 DEF ToSet
    <2>10. \A t \in blind : previous # 0 /\ previous <= t => InGap(ToSet(new), t)
      <3>1. ASSUME NEW t \in blind, previous <= t PROVE InGap(ToSet(new), t)
        <4>1. recovered + 1 \in 1..Len(new) /\ t < now
          BY <2>2, <2>6, BlindTimes
        <4>2. new[recovered + 1] \in ToSet(new)
          BY <4>1 DEF ToSet
        <4>3. new[recovered + 1] = Written(recovered + 1)
          BY <2>6, <4>1
        <4>4. new[recovered + 1].kind = "gap" /\ new[recovered + 1].from = previous
              /\ new[recovered + 1].until = now
          BY <4>3
        <4>5. QED
          BY <3>1, <4>1, <4>2, <4>4 DEF InGap
      <3>2. QED
        BY <3>1
    <2> HIDE DEF Written
    <2>11. /\ ring' \in Seq(Entries) /\ Len(ring') <= Size /\ count' \in Ids
           /\ trimmed' \in Times /\ trimmed <= trimmed'
           /\ Rising(ring') /\ writer'.last <= count' /\ flush'.last <= count'
           /\ \A e \in ToSet(ring') : e.id <= count' /\ (e.kind = "annotation" => e.version = e.id)
           /\ \A t \in Nat : InGap(Pending, t) => InGap(Pending', t) \/ t < trimmed'
           /\ \A t \in Nat : InGap(ToSet(new), t) => InGap(Pending', t) \/ t < trimmed'
           /\ Carried'
      BY <2>1, <2>7, <2>8, <2>9, Appended
    <2>12. \A t \in blind : t \in Nat
      BY BlindTimes
    <2>13. QED
      BY <2>10, <2>11, <2>12
  <1>2. CASE ~ (previous # 0 /\ previous < now)
    <2>1. UNCHANGED <<ring, count, trimmed>>
      BY <1>2 DEF NotifyGap
    <2>2. previous \in Nat /\ now \in Nat /\ trimmed \in Nat
      BY SizeAssumption DEF Typed, Instants, Times
    <2>3. Pending' = Pending /\ Carrying' = Carrying /\ Batch' = Batch
      BY <2>1 DEF Pending, Carrying, Batch
    <2>4. Carried'
      BY <2>3 DEF Carried
    <2>5. \A t \in blind : ~ (previous # 0 /\ previous <= t)
      <3>1. ASSUME NEW t \in blind PROVE ~ (previous # 0 /\ previous <= t)
        <4>1. t \in Nat /\ t < now
          BY BlindTimes
        <4>2. QED
          BY <1>2, <2>2, <4>1
      <3>2. QED
        BY <3>1
    <2>6. QED
      BY <2>1, <2>2, <2>3, <2>4, <2>5 DEF Typed, Numbered
  <1>3. QED
    BY <1>1, <1>2

----------------------------------------------------------------------------
(* Start and end of the process.                                           *)

LEMMA Begins == ASSUME Init PROVE IInv
  <1> USE SizeAssumption
  <1>1. 0 \in Ids /\ 0 \in Times /\ 1 \in Instants /\ now = 1 /\ 1..(now - 1) = {}
    BY DEF Init, Ids, Times, Instants
  <1>2. IsNotes(<<>>)
    BY DEF IsNotes
  <1>3. Database(db)
    <2>1. IsFiniteSet({})
      BY FS_EmptySet
    <2>2. QED
      BY <1>1, <1>2, <2>1 DEF Init, Database, Distinct
  <1>4. NoFlush \in Batches /\ NoNote \in Notes /\ NewWriter(0) \in Writers
    BY <1>1 DEF NoFlush, NoNote, NewWriter, Batches, Notes, Writers
  <1>5. Typed
    <2>1. ring \in Seq(Entries) /\ Len(ring) <= Size /\ stored \in Nat /\ coverage = 0
      BY DEF Init
    <2>2. /\ phase \in {"down", "up", "stopping"} /\ watching = FALSE /\ trimmed \in Times
          /\ unseen \in Times /\ reserved \in BOOLEAN /\ blind = {} /\ now \in Instants
          /\ count \in Ids
      BY <1>1 DEF Init
    <2>3. writer \in Writers /\ flush \in Batches /\ note \in Notes /\ IsNotes(index)
      BY <1>2, <1>4 DEF Init
    <2>4. QED
      BY <1>3, <2>1, <2>2, <2>3 DEF Typed
  <1>6. ~ Up
    BY DEF Init, Up
  <1>7. ToSet(ring) = {}
    BY DEF Init, ToSet
  <1>8. Vacant /\ Numbered
    BY <1>6, <1>7 DEF Init, Vacant, Numbered, Rising, NewWriter, NoFlush, Carrying
  <1>9. Counted /\ Noted /\ Timed
    BY <1>6 DEF Init, Counted, Noted, Timed, NewWriter, NoFlush, NoNote, Carrying
  <1>10. Remembered /\ Noticed /\ Beating
    BY <1>6 DEF Init, Remembered, Noticed, Beating
  <1>11. Carried
    BY DEF Init, Carried, Carrying, NoFlush
  <1>12. QED
    BY <1>5, <1>8, <1>9, <1>10, <1>11 DEF IInv

(* A start skips a ring's worth of ids past all it finds.                  *)
LEMMA StartKeeps == ASSUME IInv, Start PROVE IInv'
  <1> USE SizeAssumption
  <1> DEFINE lc == LastCommitted(db)
             n == RestoredCount(lc)
  <1>1. lc \in Nat /\ db.last <= lc /\ \A e \in db.rows : e.id <= lc
    BY CommittedLast DEF IInv, Typed
  <1>2. n \in Ids /\ n \in Nat /\ lc <= n /\ count' = n /\ n = lc + Size
    BY <1>1 DEF Start, RestoredCount, Ids
  <1>3. Database(db) /\ ~ Up
    BY DEF IInv, Typed, Start, Up
  <1> HIDE DEF n, lc
  <1>4. db.rows \subseteq Entries /\ IsFiniteSet(db.rows) /\ Distinct(db.rows)
        /\ DOMAIN db = {"rows", "last", "coverage", "notes"}
    BY <1>3 DEF Database
  <1>5. /\ DOMAIN db' = {"rows", "last", "coverage", "notes"}
        /\ db'.rows = db.rows /\ db'.coverage = db.coverage /\ db'.notes = db.notes
        /\ db'.last \in Ids /\ reserved' \in BOOLEAN /\ (reserved' => db'.last = n)
    <2>1. CASE db' = [db EXCEPT !.last = RestoredCount(LastCommitted(db))] /\ reserved' = TRUE
      BY <1>2, <1>4, <2>1 DEF n, lc
    <2>2. CASE reserved' = FALSE /\ UNCHANGED db
      BY <1>3, <1>4, <2>2 DEF Database
    <2>3. QED
      BY <2>1, <2>2 DEF Start, Reserve
  <1>6. Database(db')
    BY <1>3, <1>5 DEF Database, IsNotes
  <1>7. /\ InOrder(db.rows) \in Seq(Entries) /\ Rising(InOrder(db.rows))
        /\ ToSet(InOrder(db.rows)) \subseteq db.rows
    BY <1>4, InOrderRises
  <1>8. /\ ring' \in Seq(Entries) /\ Len(ring') <= Size /\ Rising(ring')
        /\ ToSet(ring') \subseteq db.rows
    BY <1>7, HeldIs DEF Start
  <1>9. writer' = NewWriter(n) /\ NewWriter(n) \in Writers /\ flush' = NoFlush /\ note' = NoNote
        /\ NoFlush \in Batches /\ NoNote \in Notes /\ coverage' = 0 /\ watching' = FALSE
        /\ phase' = "up" /\ stored' = Cardinality(db.rows) /\ index' = db.notes
        /\ UNCHANGED <<now, blind, trimmed, unseen>>
    <2>1. 0 \in Ids /\ 0 \in Times
      BY DEF Ids, Times
    <2>2. QED
      BY <1>2, <2>1 DEF Start, n, lc, NewWriter, NoFlush, NoNote, Writers, Batches, Notes
  <1>10. Cardinality(db.rows) \in Nat
    BY <1>4, FS_CardinalityType
  <1>11. Typed'
    BY <1>2, <1>3, <1>5, <1>6, <1>8, <1>9, <1>10 DEF IInv, Typed, Database, IsNotes
  <1>12. Up' /\ ~ Carrying' /\ writer'.last = n /\ flush'.last = 0
    BY <1>9 DEF Up, Carrying, NoFlush, NewWriter
  <1>13. \A e \in db.rows : e.id <= n /\ e.kind # "annotation"
    <2>1. \A e \in db.rows : e.id \in Nat /\ e.kind \in RingKinds
      BY <1>3, <1>4, EntryShape DEF Database
    <2>2. QED
      BY <1>1, <1>2, <2>1 DEF RingKinds
  <1>14. Vacant' /\ Numbered'
    BY <1>2, <1>5, <1>8, <1>9, <1>12, <1>13 DEF Vacant, Numbered
  <1>15. Counted' /\ Noted'
    BY <1>5, <1>9, <1>12 DEF Counted, Noted, NewWriter, NoNote
  <1>16. Timed'
    <2>1. now \in Nat /\ writer'.seenAt = 0 /\ flush'.seenAt = 0 /\ ~ writer'.gapChecked /\ ~ writer'.covering
      BY <1>9 DEF NewWriter, NoFlush, IInv, Typed, Instants, Times
    <2>2. QED
      BY <1>5, <1>9, <2>1 DEF IInv, Timed, Heartbeated
  <1>17. Remembered'
    BY <1>5, <1>9 DEF IInv, Remembered, LetGo, InGap, LastSeen, LastSeenRows
  <1>18. Noticed' /\ Beating' /\ Carried'
    BY <1>9, <1>12 DEF Noticed, Beating, Carried, NewWriter, NoFlush
  <1>19. QED
    BY <1>11, <1>14, <1>15, <1>16, <1>17, <1>18 DEF IInv

(* Of a process that ended only the file is left.                          *)
LEMMA EndedKeeps == ASSUME IInv, Ended PROVE IInv'
  <1> USE SizeAssumption
  <1>1. /\ phase' = "down" /\ watching' = FALSE
        /\ ring' = <<>> /\ count' = 0 /\ stored' = 0 /\ coverage' = 0
        /\ writer' = NewWriter(0) /\ flush' = NoFlush /\ index' = <<>> /\ note' = NoNote
        /\ now' = now /\ db' = db /\ blind' = blind /\ trimmed' = trimmed /\ unseen' = unseen
        /\ reserved' = reserved
    BY DEF Ended, bounds, history
  <1>2. /\ NewWriter(0) \in Writers /\ NoFlush \in Batches /\ NoNote \in Notes /\ IsNotes(<<>>)
        /\ 0 \in Ids
    <2>1. 0 \in Ids /\ 0 \in Times
      BY DEF Ids, Times
    <2>2. QED
      BY <2>1 DEF NewWriter, NoFlush, NoNote, Writers, Batches, Notes, IsNotes
  <1>3. Typed'
    <2>1. ring' \in Seq(Entries) /\ Len(ring') <= Size /\ stored' \in Nat /\ coverage' = 0
      BY <1>1
    <2>2. /\ phase' \in {"down", "up", "stopping"} /\ watching' = FALSE /\ count' \in Ids
      BY <1>1, <1>2
    <2>3. writer' \in Writers /\ flush' \in Batches /\ note' \in Notes /\ IsNotes(index')
      BY <1>1, <1>2
    <2>4. Database(db') /\ now' \in Instants /\ trimmed' \in Times /\ unseen' \in Times
          /\ reserved' \in BOOLEAN /\ blind' \subseteq 1..(now' - 1)
      BY <1>1 DEF IInv, Typed
    <2>5. QED
      BY <2>1, <2>2, <2>3, <2>4 DEF Typed, Database, IsNotes
  <1>4. ~ Up' /\ ~ Carrying' /\ ToSet(ring') = {}
    BY <1>1 DEF Up, Carrying, NoFlush, ToSet
  <1>5. Vacant' /\ Numbered'
    BY <1>1, <1>4 DEF Vacant, Numbered, Rising, NewWriter, NoFlush
  <1>6. Counted' /\ Noted'
    BY <1>1, <1>4 DEF Counted, Noted, NewWriter, NoNote
  <1>7. Timed'
    <2>1. now \in Nat /\ writer'.seenAt = 0 /\ flush'.seenAt = 0 /\ ~ writer'.gapChecked /\ ~ writer'.covering
      BY <1>1 DEF NewWriter, NoFlush, IInv, Typed, Instants, Times
    <2>2. QED
      BY <1>1, <2>1 DEF IInv, Timed, Heartbeated
  <1>8. Remembered'
    BY <1>1 DEF IInv, Remembered, LetGo, InGap, LastSeen, LastSeenRows
  <1>9. Noticed' /\ Beating' /\ Carried'
    BY <1>1, <1>4 DEF Noticed, Beating, Carried, NoFlush
  <1>10. QED
    BY <1>3, <1>5, <1>6, <1>7, <1>8, <1>9 DEF IInv

(* What is kept as long as the ring, the file, the writer and the batch    *)
(* of a flush are left alone.                                              *)
LEMMA Untouched ==
    ASSUME IInv, UNCHANGED <<ring, count, stored, coverage, writer, flush, db, history, now>>,
           Up, Up', phase' \in {"up", "stopping"}, watching' \in BOOLEAN,
           watching' => watching /\ phase' = "up",
           note' \in Notes, note' = note \/ (note'.at # "put" /\ note.at # "put"), index' = index
    PROVE  IInv'
  <1> USE DEF history
  <1>1. Typed'
    BY DEF IInv, Typed, Database, IsNotes
  <1>2. /\ Carrying' = Carrying /\ Batch' = Batch /\ Pending' = Pending
        /\ LastSeen(db)' = LastSeen(db) /\ (Heartbeated(db)' <=> Heartbeated(db))
        /\ \A t \in blind : LetGo(t)' <=> LetGo(t)
    BY DEF Carrying, Batch, Pending, LastSeen, LastSeenRows, Heartbeated, LetGo, InGap
  <1>3. Vacant' /\ Numbered' /\ Counted'
    BY <1>2 DEF IInv, Vacant, Numbered, Counted, Rising, Distinct
  <1>4. Noted' /\ Timed'
    BY <1>2 DEF IInv, Noted, Timed
  <1>5. Remembered' /\ Noticed'
    BY <1>2 DEF IInv, Remembered, Noticed, InGap
  <1>6. Beating'
    BY <1>2 DEF IInv, Beating, InGap
  <1>7. Carried'
    BY <1>2 DEF IInv, Carried
  <1>8. QED
    BY <1>1, <1>3, <1>4, <1>5, <1>6, <1>7 DEF IInv

LEMMA QuietKeeps ==
    ASSUME IInv, Stop \/ StreamLost \/ BeginAnnotation \/ RejectAnnotation
    PROVE  IInv'
  <1> USE DEF history, bounds
  <1>1. NoNote \in Notes /\ [NoNote EXCEPT !.at = "begun"] \in Notes
    BY SizeAssumption DEF NoNote, Notes, Ids
  <1>2. NoNote.at = "none" /\ [NoNote EXCEPT !.at = "begun"].at = "begun"
    BY DEF NoNote
  <1>3. phase \in {"down", "up", "stopping"} /\ watching \in BOOLEAN /\ note \in Notes
        /\ (watching => phase = "up") /\ (~ Up => note = NoNote)
    BY DEF IInv, Typed, Vacant
  <1>4. CASE Stop
    BY <1>3, <1>4, Untouched DEF Stop, Up
  <1>5. CASE StreamLost
    BY <1>3, <1>5, Untouched DEF StreamLost, Up
  <1>6. CASE BeginAnnotation
    BY <1>1, <1>2, <1>3, <1>6, Untouched DEF BeginAnnotation, Up
  <1>7. CASE RejectAnnotation
    <2>1. Up
      BY <1>2, <1>3, <1>7 DEF RejectAnnotation
    <2>2. QED
      BY <1>1, <1>2, <1>3, <1>7, <2>1, Untouched DEF RejectAnnotation, Up
  <1>8. QED
    BY <1>4, <1>5, <1>6, <1>7

LEMMA TickKeeps == ASSUME IInv, Tick PROVE IInv'
  <1>1. /\ now' = now + 1 /\ now < MaxTime
        /\ blind' = IF watching \/ ~ Heartbeated(db) THEN blind ELSE blind \cup {now}
        /\ UNCHANGED <<phase, ring, count, stored, coverage, writer, flush, watching, index, note,
                       db, trimmed, unseen, reserved>>
    BY DEF Tick, process
  <1>2. now \in Nat /\ now # 0 /\ MaxTime \in Nat
    BY SizeAssumption DEF IInv, Typed, Instants, Times
  <1>3. blind \subseteq 1..(now - 1)
    BY DEF IInv, Typed
  <1>4. now' \in Instants /\ blind' \subseteq 1..(now' - 1)
    <2>1. now' \in Instants
      BY <1>1, <1>2 DEF Instants, Times
    <2>2. 1..(now - 1) \subseteq 1..(now' - 1) /\ now \in 1..(now' - 1)
      BY <1>1, <1>2
    <2>3. QED
      BY <1>1, <1>3, <2>1, <2>2
  <1>5. Typed'
    BY <1>1, <1>4 DEF IInv, Typed, Database, IsNotes
  <1>6. /\ Carrying' = Carrying /\ Batch' = Batch /\ Pending' = Pending /\ (Up' <=> Up)
        /\ LastSeen(db)' = LastSeen(db) /\ (Heartbeated(db)' <=> Heartbeated(db))
        /\ \A t \in Nat : LetGo(t)' <=> LetGo(t)
    BY <1>1 DEF Carrying, Batch, Pending, LastSeen, LastSeenRows, Heartbeated, LetGo, InGap, Up
  <1>7. Vacant' /\ Numbered' /\ Counted' /\ Noted'
    BY <1>1, <1>6 DEF IInv, Vacant, Numbered, Counted, Noted, Rising, Distinct
  <1>8. Timed'
    <2>1. writer.seenAt \in Nat /\ flush.seenAt \in Nat
      BY SizeAssumption DEF IInv, Typed, Writers, Batches, Times
    <2>2. \A i \in 1..Len(db.coverage) : db.coverage[i].seen \in Nat
      <3>1. \A i \in 1..Len(db.coverage) : db.coverage[i] \in Stretches
        BY DEF IInv, Typed, Database
      <3>2. QED
        BY <3>1, SizeAssumption DEF Stretches, Instants, Times
    <2>3. \A n \in Nat : n <= now => n <= now'
      BY <1>1, <1>2
    <2>4. blind' # {} => Heartbeated(db)
      BY <1>1 DEF IInv, Timed
    <2>5. QED
      BY <1>1, <1>6, <2>1, <2>2, <2>3, <2>4 DEF IInv, Timed
  <1>9. \A t \in blind' : t \in blind \/ (t = now /\ ~ watching /\ Heartbeated(db))
    BY <1>1
  <1>10. \A t \in blind' : t \in Nat
    <2>1. \A t \in blind : t \in Nat
      BY BlindTimes DEF IInv
    <2>2. QED
      BY <1>2, <1>9, <2>1
  <1>11. Heartbeated(db) => LastSeen(db) <= now
    BY SeenAmong, BeatenIsSeen DEF IInv, Typed, Database, Timed
  <1>12. Remembered'
    BY <1>6, <1>9, <1>10, <1>11 DEF IInv, Remembered
  <1>13. Noticed'
    BY <1>1, <1>6, <1>9, <1>10 DEF IInv, Noticed, Timed, InGap
  <1>14. Beating'
    BY <1>1, <1>6, <1>9, <1>10 DEF IInv, Beating, Timed, InGap
  <1>15. Carried'
    BY <1>1, <1>6 DEF IInv, Carried
  <1>16. QED
    BY <1>5, <1>7, <1>8, <1>12, <1>13, <1>14, <1>15 DEF IInv

----------------------------------------------------------------------------
(* What is said to the ring.                                               *)

LEMMA OneAppended ==
    ASSUME IInv, Up, NEW e \in Entries, e.id = count + 1,
           e.kind = "annotation" => e.version = e.id, AppendAll(<<e>>),
           UNCHANGED <<phase, now, stored, coverage, writer, flush, watching, db, blind, unseen,
                       reserved>>,
           note' \in Notes, note'.at # "put", index' = db.notes
    PROVE  IInv'
  <1> DEFINE new == <<e>>
  <1>1. /\ new \in Seq(Entries) /\ Len(new) = 1 /\ new[1] = e /\ ToSet(new) = {e}
    BY DEF ToSet
  <1>2. \A i \in 1..Len(new) : new[i].id = count + i
    BY <1>1
  <1>3. \A f \in ToSet(new) : f.kind = "annotation" => f.version = f.id
    BY <1>1
  <1> HIDE DEF new
  <1>4. AppendAll(new) /\ flush' = flush /\ writer'.last = writer.last /\ Typed /\ Numbered /\ Carried
    BY DEF new, IInv
  <1>5. /\ ring' \in Seq(Entries) /\ Len(ring') <= Size /\ count' \in Ids
        /\ trimmed' \in Times /\ trimmed <= trimmed'
        /\ Rising(ring') /\ writer'.last <= count' /\ flush'.last <= count'
        /\ \A f \in ToSet(ring') : f.id <= count' /\ (f.kind = "annotation" => f.version = f.id)
        /\ \A t \in Nat : InGap(Pending, t) => InGap(Pending', t) \/ t < trimmed'
        /\ Carried'
    BY <1>1, <1>2, <1>3, <1>4, Appended
  <1>6. Typed'
    BY <1>5 DEF IInv, Typed, Database, IsNotes
  <1>7. /\ Carrying' = Carrying /\ Batch' = Batch /\ (Up' <=> Up)
        /\ LastSeen(db)' = LastSeen(db) /\ (Heartbeated(db)' <=> Heartbeated(db))
    BY DEF Carrying, Batch, LastSeen, LastSeenRows, Heartbeated, Up
  <1>8. \A t \in blind : LetGo(t) => LetGo(t)'
    <2>1. \A t \in blind : t \in Nat
      BY <1>4, BlindTimes
    <2>2. \A f \in db.rows : f.kind = "gap" => f \in db'.rows \/ f.until <= trimmed'
      OBVIOUS
    <2>3. QED
      BY <1>4, <1>5, <2>1, <2>2, StillLetGo
  <1>9. \A t \in blind : InGap(Pending, t) => InGap(Pending', t) \/ LetGo(t)'
    BY <1>4, <1>5, BlindTimes DEF LetGo
  <1>10. Vacant' /\ Numbered' /\ Counted'
    BY <1>5, <1>7 DEF IInv, Vacant, Numbered, Counted, Distinct
  <1>11. Noted' /\ Timed'
    BY <1>7 DEF IInv, Noted, Timed
  <1>12. Remembered' /\ Noticed'
    BY <1>7, <1>8, <1>9 DEF IInv, Remembered, Noticed
  <1>13. Beating'
    <2>1. \A t \in blind : InGap(Batch, t) => InGap(Batch', t)
      BY <1>7
    <2>2. QED
      BY <1>7, <1>8, <1>9, <2>1 DEF IInv, Beating
  <1>14. QED
    BY <1>5, <1>6, <1>10, <1>11, <1>12, <1>13 DEF IInv

LEMMA ChangeKeeps == ASSUME IInv, Change PROVE IInv'
  <1> USE SizeAssumption
  <1>1. Up /\ note.at # "put" /\ index = db.notes
    BY DEF Change, Up, NotifyFree, IInv, Noted
  <1>2. count + 1 \in Ids /\ now \in Times /\ count \in Nat
    <2>1. Len(<<Entry("change", 1, now, now)>>) = 1
      OBVIOUS
    <2>2. count + 1 <= MaxId
      BY <2>1 DEF Change, AppendAll
    <2>3. QED
      BY <2>2 DEF IInv, Typed, Instants, Ids
  <1>3. /\ Entry("change", 1, now, now) \in Entries
        /\ Entry("change", 1, now, now).id = count + 1
        /\ Entry("change", 1, now, now).kind = "change"
    BY <1>2 DEF Entry, Entries, Kinds, Ids
  <1>4. note' = note /\ note \in Notes /\ index' = index /\ AppendAll(<<Entry("change", 1, now, now)>>)
        /\ UNCHANGED <<phase, now, stored, coverage, writer, flush, watching, db, blind, unseen,
                       reserved>>
    BY DEF Change, bounds, IInv, Typed
  <1>5. QED
    BY <1>1, <1>3, <1>4, OneAppended

LEMMA CommitAnnotationKeeps == ASSUME IInv, CommitAnnotation PROVE IInv'
  <1> USE SizeAssumption
  <1> DEFINE e == [Entry("annotation", 1, now, now) EXCEPT !.version = note.version]
  <1>1. note.at = "put" /\ NoNote.at = "none"
    BY DEF CommitAnnotation, NoNote
  <1>2. note.version = count + 1 /\ db.notes = Indexed(index, note) /\ Up
    BY <1>1 DEF IInv, Noted, Vacant
  <1>3. count + 1 \in Ids /\ now \in Times /\ note.version \in Ids
    BY <1>2 DEF IInv, Typed, Notes, Instants
  <1>4. e \in Entries /\ e.id = count + 1 /\ e.version = e.id
    BY <1>2, <1>3 DEF Entry, Entries, Kinds
  <1>5. AppendAll(<<e>>) /\ note' = NoNote /\ index' = db.notes
        /\ UNCHANGED <<phase, now, stored, coverage, writer, flush, watching, db, blind, unseen,
                       reserved>>
    BY <1>2 DEF CommitAnnotation, bounds
  <1>6. NoNote \in Notes
    BY DEF NoNote, Notes, Ids
  <1> HIDE DEF e
  <1>7. QED
    BY <1>1, <1>2, <1>4, <1>5, <1>6, OneAppended

(* The file holds the annotation before the index and the ring do.         *)
LEMMA PutAnnotationKeeps == ASSUME IInv, PutAnnotation PROVE IInv'
  <1> USE SizeAssumption
  <1>1. note.at = "begun" /\ count < MaxId
    BY DEF PutAnnotation
  <1>2. Up /\ index = db.notes /\ Database(db) /\ IsNotes(index) /\ count \in Ids
    <2>1. Up
      BY <1>1 DEF IInv, Vacant, NoNote
    <2>2. QED
      BY <1>1, <2>1 DEF IInv, Typed, Noted
  <1>3. count + 1 \in Ids
    BY <1>1, <1>2 DEF Ids
  <1>4. /\ note' \in Notes /\ note'.at = "put" /\ note'.version = count + 1
    <2>1. CASE CreateNote
      BY <1>3, <2>1 DEF CreateNote, Notes
    <2>2. CASE UpdateNote
      <3>1. PICK id \in DOMAIN index :
               note' = [at |-> "put", action |-> "update", id |-> id, version |-> count + 1]
        BY <2>2 DEF UpdateNote
      <3>2. id \in Ids
        BY <1>2 DEF IsNotes
      <3>3. QED
        BY <1>3, <3>1, <3>2 DEF Notes
    <2>3. CASE DeleteNote
      <3>1. PICK id \in DOMAIN index :
               note' = [at |-> "put", action |-> "remove", id |-> id, version |-> count + 1]
        BY <2>3 DEF DeleteNote
      <3>2. id \in Ids
        BY <1>2 DEF IsNotes
      <3>3. QED
        BY <1>3, <3>1, <3>2 DEF Notes
    <2>4. QED
      BY <2>1, <2>2, <2>3 DEF PutAnnotation
  <1>5. IsNotes(Indexed(db.notes, note'))
    <2>1. IsNotes(db.notes)
      BY <1>2 DEF Database
    <2>2. CASE note'.action = "remove"
      <3>1. Indexed(db.notes, note') = [id \in DOMAIN db.notes \ {note'.id} |-> db.notes[id]]
        BY <2>2 DEF Indexed, Restrict
      <3>2. QED
        BY <2>1, <3>1 DEF IsNotes
    <2>3. CASE note'.action # "remove"
      <3>1. Indexed(db.notes, note') = [id \in DOMAIN db.notes \cup {note'.id} |->
                                          IF id = note'.id THEN note'.version ELSE db.notes[id]]
        BY <2>3 DEF Indexed
      <3>2. note'.id \in Ids /\ note'.version \in Ids
        BY <1>4 DEF Notes
      <3>3. QED
        BY <2>1, <3>1, <3>2 DEF IsNotes
    <2>4. QED
      BY <2>2, <2>3
  <1>6. /\ db' = [db EXCEPT !.notes = Indexed(db.notes, note')]
        /\ UNCHANGED <<phase, now, ring, count, stored, coverage, writer, flush, watching, index,
                       blind, trimmed, unseen, reserved>>
    BY DEF PutAnnotation, bounds, history
  <1>7. /\ DOMAIN db' = {"rows", "last", "coverage", "notes"}
        /\ db'.rows = db.rows /\ db'.last = db.last /\ db'.coverage = db.coverage
        /\ db'.notes = Indexed(db.notes, note')
    BY <1>2, <1>6 DEF Database
  <1>8. Database(db')
    BY <1>2, <1>5, <1>7 DEF Database
  <1>9. Typed'
    BY <1>4, <1>6, <1>7, <1>8 DEF IInv, Typed, Database, IsNotes
  <1>10. /\ Carrying' = Carrying /\ Batch' = Batch /\ Pending' = Pending /\ (Up' <=> Up)
         /\ LastSeen(db)' = LastSeen(db) /\ (Heartbeated(db)' <=> Heartbeated(db))
         /\ \A t \in blind : LetGo(t)' <=> LetGo(t)
    BY <1>6, <1>7 DEF Carrying, Batch, Pending, LastSeen, LastSeenRows, Heartbeated, LetGo, InGap, Up
  <1>11. Vacant' /\ Numbered' /\ Counted'
    BY <1>2, <1>6, <1>7, <1>10 DEF IInv, Vacant, Numbered, Counted, Rising, Distinct
  <1>12. Noted' /\ Timed'
    BY <1>2, <1>4, <1>6, <1>7, <1>10 DEF IInv, Noted, Timed
  <1>13. Remembered' /\ Noticed'
    BY <1>6, <1>10 DEF IInv, Remembered, Noticed, InGap
  <1>14. Beating'
    BY <1>6, <1>10 DEF IInv, Beating, InGap
  <1>15. Carried'
    BY <1>6, <1>10 DEF IInv, Carried
  <1>16. QED
    BY <1>9, <1>11, <1>12, <1>13, <1>14, <1>15 DEF IInv

----------------------------------------------------------------------------
(* The watcher and its hook, and the coverage that opens.                  *)

LEMMA StartWatchingKeeps == ASSUME IInv, StartWatching PROVE IInv'
  <1> USE SizeAssumption
  <1> DEFINE w == Uncovered([writer EXCEPT !.ready = TRUE])
  <1>1. PICK recovered \in 0..1 : RecordGap(recovered)
    BY DEF StartWatching
  <1>2. /\ watching' = TRUE /\ phase = "up" /\ phase' = phase /\ Up /\ note.at # "put"
        /\ UNCHANGED <<now, stored, coverage, flush, index, note, db, blind, unseen, reserved>>
    BY DEF StartWatching, Up, NotifyFree
  <1>3. now \in Times /\ now # 0 /\ now \in Nat
    BY DEF IInv, Typed, Instants, Times
  <1>4. /\ w \in Writers /\ w.seenAt = writer.seenAt /\ w.last = writer.last
        /\ w.gapChecked = writer.gapChecked /\ w.retained = writer.retained /\ w.covering = FALSE
    <2>1. writer \in Writers
      BY DEF IInv, Typed
    <2> DEFINE r == [writer EXCEPT !.ready = TRUE]
    <2>2. r \in Writers /\ r.seenAt = writer.seenAt /\ r.last = writer.last
          /\ r.gapChecked = writer.gapChecked /\ r.retained = writer.retained
      BY <2>1 DEF Writers
    <2>3. w = [r EXCEPT !.covering = FALSE]
      BY DEF Uncovered
    <2> HIDE DEF r, w
    <2>4. QED
      BY <2>2, <2>3 DEF Writers
  <1> HIDE DEF w
  <1>5. \/ NotifyGap(Previous(w), recovered) /\ writer' = GapChecked(w)
        \/ w.seenAt = 0 /\ writer' = w /\ UNCHANGED <<ring, count, trimmed>>
    BY <1>1 DEF RecordGap, w
  <1>6. /\ writer' \in Writers /\ writer'.last = writer.last /\ writer'.retained = writer.retained
        /\ writer'.covering = FALSE
        /\ \/ writer'.gapChecked = TRUE /\ writer'.seenAt = now
           \/ writer'.gapChecked = FALSE /\ writer'.seenAt = 0
    <2>1. CASE writer' = GapChecked(w)
      <3> DEFINE g == [w EXCEPT !.gapChecked = TRUE]
      <3>1. /\ g \in Writers /\ g.last = w.last /\ g.retained = w.retained /\ g.covering = FALSE
            /\ g.gapChecked = TRUE
        BY <1>4 DEF Writers
      <3>2. writer' = [g EXCEPT !.seenAt = now]
        BY <2>1 DEF GapChecked
      <3> HIDE DEF g
      <3>3. QED
        BY <1>3, <1>4, <3>1, <3>2 DEF Writers
    <2>2. CASE w.seenAt = 0 /\ writer' = w
      <3>1. ~ writer.gapChecked /\ writer.gapChecked \in BOOLEAN
        BY <1>4, <2>2 DEF IInv, Timed, Typed, Writers
      <3>2. QED
        BY <1>4, <2>2, <3>1
    <2>3. QED
      BY <1>5, <2>1, <2>2
  <1>7. /\ Previous(w) \in Times
        /\ \A t \in blind : LetGo(t) \/ InGap(Pending, t) \/ (Previous(w) # 0 /\ Previous(w) <= t)
    BY <1>2, <1>4, GapReaches
  <1>8. /\ ring' \in Seq(Entries) /\ Len(ring') <= Size /\ count' \in Ids
        /\ trimmed' \in Times /\ trimmed <= trimmed'
        /\ Rising(ring') /\ writer'.last <= count' /\ flush'.last <= count'
        /\ \A e \in ToSet(ring') : e.id <= count' /\ (e.kind = "annotation" => e.version = e.id)
        /\ \A t \in blind : InGap(Pending, t) => InGap(Pending', t) \/ t < trimmed'
        /\ writer'.gapChecked =>
             \A t \in blind : Previous(w) # 0 /\ Previous(w) <= t => InGap(Pending', t) \/ t < trimmed'
        /\ Carried'
    <2>1. CASE NotifyGap(Previous(w), recovered)
      <3>1. Typed /\ Numbered /\ Carried /\ recovered \in Nat /\ flush' = flush
            /\ \A t \in blind : t \in Nat
        BY <1>2, BlindTimes DEF IInv
      <3>2. /\ ring' \in Seq(Entries) /\ Len(ring') <= Size /\ count' \in Ids
            /\ trimmed' \in Times /\ trimmed <= trimmed'
            /\ Rising(ring') /\ writer'.last <= count' /\ flush'.last <= count'
            /\ \A e \in ToSet(ring') : e.id <= count' /\ (e.kind = "annotation" => e.version = e.id)
            /\ \A t \in Nat : InGap(Pending, t) => InGap(Pending', t) \/ t < trimmed'
            /\ \A t \in blind : Previous(w) # 0 /\ Previous(w) <= t => InGap(Pending', t) \/ t < trimmed'
            /\ Carried'
        BY <1>6, <1>7, <2>1, <3>1, GapTold
      <3>3. QED
        BY <3>1, <3>2
    <2>2. CASE w.seenAt = 0 /\ writer' = w /\ UNCHANGED <<ring, count, trimmed>>
      <3>1. ~ writer'.gapChecked
        BY <1>4, <2>2 DEF IInv, Timed
      <3>2. trimmed \in Nat
        BY DEF IInv, Typed, Times
      <3>3. Pending' = Pending /\ Carrying' = Carrying /\ Batch' = Batch
        BY <1>2, <1>6, <2>2 DEF Pending, Carrying, Batch
      <3>4. Carried'
        BY <1>2, <3>3 DEF IInv, Carried
      <3>5. QED
        BY <1>2, <1>6, <2>2, <3>1, <3>2, <3>3, <3>4 DEF IInv, Typed, Numbered
    <2>3. QED
      BY <1>5, <2>1, <2>2
  <1>9. Typed'
    BY <1>2, <1>6, <1>8 DEF IInv, Typed, Database, IsNotes
  <1>10. /\ Carrying' = Carrying /\ Batch' = Batch /\ Up'
         /\ LastSeen(db)' = LastSeen(db) /\ (Heartbeated(db)' <=> Heartbeated(db))
    BY <1>2 DEF Carrying, Batch, LastSeen, LastSeenRows, Heartbeated, Up
  <1>11. \A t \in blind : LetGo(t) => LetGo(t)'
    <2>1. \A t \in blind : t \in Nat
      BY BlindTimes DEF IInv
    <2>2. \A f \in db.rows : f.kind = "gap" => f \in db'.rows \/ f.until <= trimmed'
      BY <1>2
    <2>3. Typed /\ unseen' = unseen
      BY <1>2 DEF IInv
    <2>4. QED
      BY <1>8, <2>1, <2>2, <2>3, StillLetGo
  <1>12. Vacant' /\ Numbered' /\ Counted'
    BY <1>2, <1>6, <1>8, <1>10 DEF IInv, Vacant, Numbered, Counted, Distinct
  <1>13. Noted'
    BY <1>2, <1>10 DEF IInv, Noted
  <1>14. Timed'
    BY <1>2, <1>3, <1>6, <1>10 DEF IInv, Timed
  <1>15. Remembered'
    BY <1>2, <1>10, <1>11 DEF IInv, Remembered
  <1>16. Noticed'
    <2>1. ASSUME writer'.gapChecked, NEW t \in blind PROVE LetGo(t)' \/ InGap(Pending', t)
      <3>1. t < trimmed' => LetGo(t)'
        BY DEF LetGo
      <3>2. QED
        BY <1>7, <1>8, <1>11, <2>1, <3>1
    <2>2. QED
      BY <1>2, <2>1 DEF Noticed
  <1>17. Beating'
    <2>1. \A t \in blind : InGap(Batch, t) => InGap(Batch', t)
      BY <1>10
    <2>2. QED
      BY <1>2, <1>6, <1>11, <2>1 DEF IInv, Beating
  <1>18. QED
    BY <1>8, <1>9, <1>12, <1>13, <1>14, <1>15, <1>16, <1>17 DEF IInv

LEMMA OpenCoverageKeeps == ASSUME IInv, OpenCoverage PROVE IInv'
  <1> USE SizeAssumption
  <1>1. /\ Up /\ flush.at = "idle" /\ note.at # "put" /\ writer.ready /\ ~ writer.covering
        /\ unseen' = IF coverage' # coverage /\ ~ watching THEN now ELSE unseen
        /\ UNCHANGED <<phase, now, stored, flush, watching, index, note, blind, reserved>>
    BY DEF OpenCoverage, ConnFree
  <1>2. now \in Instants /\ now \in Times /\ now # 0 /\ now \in Nat /\ writer \in Writers
        /\ Database(db) /\ coverage \in {0, Len(db.coverage)}
    BY DEF IInv, Typed, Instants, Times
  <1>3. /\ GapChecked(writer) \in Writers /\ GapChecked(writer).last = writer.last
        /\ GapChecked(writer).retained = writer.retained /\ GapChecked(writer).seenAt = now
        /\ GapChecked(writer).gapChecked = TRUE /\ GapChecked(writer).covering = FALSE
    <2> DEFINE g == [writer EXCEPT !.gapChecked = TRUE]
    <2>1. /\ g \in Writers /\ g.last = writer.last /\ g.retained = writer.retained
          /\ g.covering = FALSE /\ g.gapChecked = TRUE
      BY <1>1, <1>2 DEF Writers
    <2>2. GapChecked(writer) = [g EXCEPT !.seenAt = now]
      BY DEF GapChecked
    <2> HIDE DEF g
    <2>3. QED
      BY <1>2, <2>1, <2>2 DEF Writers
  <1> DEFINE row == [started |-> now, seen |-> now, beat |-> FALSE]
             IsOpened == /\ db' = Opened(db, now) /\ coverage' = Len(db.coverage) + 1
                         /\ writer' \in Writers /\ writer'.last = writer.last
                         /\ writer'.retained = writer.retained
                         /\ writer'.gapChecked = TRUE /\ writer'.seenAt = now
             IsLeft == /\ db' = db /\ coverage' \in {0, coverage}
                       /\ writer' = writer \/ writer' = GapChecked(writer)
  <1>4. ASSUME NEW w \in Writers, w.gapChecked, w.last = writer.last,
               w.retained = writer.retained, OpenRow(w)
        PROVE  IsOpened \/ (db' = db /\ coverage' = 0 /\ writer' = w)
    <2>1. CASE /\ db' = Opened(db, now) /\ coverage' = Len(db.coverage) + 1
               /\ writer' = [w EXCEPT !.covering = TRUE, !.seenAt = now]
      <3> DEFINE g == [w EXCEPT !.covering = TRUE]
      <3>1. /\ g \in Writers /\ g.last = writer.last /\ g.retained = writer.retained
            /\ g.gapChecked = TRUE
        BY <1>4 DEF Writers
      <3>2. writer' = [g EXCEPT !.seenAt = now]
        BY <2>1
      <3> HIDE DEF g
      <3>3. QED
        BY <1>2, <2>1, <3>1, <3>2 DEF Writers
    <2>2. CASE db' = db /\ coverage' = 0 /\ writer' = w
      BY <2>2
    <2>3. QED
      BY <1>4, <2>1, <2>2 DEF OpenRow
  <1>5. /\ IsOpened \/ IsLeft
        /\ \/ UNCHANGED <<ring, count, trimmed>> /\ (writer.gapChecked \/ writer' = writer)
           \/ NotifyGap(Previous(writer), 0) /\ ~ writer.gapChecked
        /\ writer.gapChecked /\ ~ IsOpened => writer' = writer
    <2>1. CASE writer.gapChecked /\ OpenRow(writer) /\ UNCHANGED <<ring, count, trimmed>>
      <3>1. IsOpened \/ (db' = db /\ coverage' = 0 /\ writer' = writer)
        BY <1>2, <1>4, <2>1
      <3> HIDE DEF IsOpened
      <3>2. QED
        BY <2>1, <3>1
    <2>2. CASE ~ writer.gapChecked /\ OpenRow(GapChecked(writer)) /\ NotifyGap(Previous(writer), 0)
      <3>1. IsOpened \/ (db' = db /\ coverage' = 0 /\ writer' = GapChecked(writer))
        BY <1>3, <1>4, <2>2
      <3> HIDE DEF IsOpened
      <3>2. QED
        BY <2>2, <3>1
    <2>3. CASE ~ writer.gapChecked /\ UNCHANGED <<ring, count, trimmed, writer, db, coverage>>
      BY <2>3
    <2>4. QED
      BY <2>1, <2>2, <2>3 DEF OpenCoverage
  <1>6. IsOpened => /\ DOMAIN db' = {"rows", "last", "coverage", "notes"}
                    /\ db'.rows = db.rows /\ db'.last = db.last /\ db'.notes = db.notes
                    /\ db'.coverage = Append(db.coverage, row)
    BY <1>2 DEF Opened, Database
  <1>7. row \in Stretches /\ row.seen = now /\ db.coverage \in Seq(Stretches)
        /\ Len(db.coverage) \in Nat
    BY <1>2 DEF Stretches, Database
  <1>8. IsOpened => /\ db'.coverage \in Seq(Stretches) /\ Len(db'.coverage) = Len(db.coverage) + 1
                    /\ \A i \in 1..Len(db.coverage) : db'.coverage[i] = db.coverage[i]
                    /\ db'.coverage[Len(db.coverage) + 1] = row
    <2> HIDE DEF row
    <2>1. Append(db.coverage, row) \in Seq(Stretches)
          /\ Len(Append(db.coverage, row)) = Len(db.coverage) + 1
          /\ (\A i \in 1..Len(db.coverage) : Append(db.coverage, row)[i] = db.coverage[i])
          /\ Append(db.coverage, row)[Len(db.coverage) + 1] = row
      BY <1>7, AppendProperties
    <2> HIDE DEF IsOpened
    <2>2. QED
      BY <1>6, <2>1
  <1>9. IsOpened /\ Heartbeated(db) => Heartbeated(db') /\ LastSeen(db') = LastSeen(db)
    <2> HIDE DEF IsOpened
    <2>1. QED
      BY <1>2, <1>6, <1>7, OpenedUnseen DEF row
  <1>10. /\ writer' \in Writers /\ writer'.last = writer.last /\ writer'.retained = writer.retained
         /\ (writer'.gapChecked <=> writer'.seenAt # 0) /\ writer'.seenAt <= now
         /\ (writer'.covering => writer'.gapChecked)
         /\ (writer.gapChecked => writer'.gapChecked)
    <2>1. CASE IsOpened
      BY <1>2, <2>1
    <2>2. CASE writer' = writer
      BY <1>2, <2>2 DEF IInv, Timed
    <2>3. CASE writer' = GapChecked(writer)
      BY <1>2, <1>3, <2>3
    <2>4. QED
      BY <1>5, <2>1, <2>2, <2>3
  <1>11. IsOpened => coverage' # coverage
    BY <1>2, <1>7
  <1> HIDE DEF row, IsOpened
  <1>12. /\ Database(db') /\ db'.rows = db.rows /\ db'.last = db.last /\ db'.notes = db.notes
         /\ coverage' \in {0, Len(db'.coverage)}
         /\ \A i \in 1..Len(db'.coverage) : db'.coverage[i].seen <= now
         /\ (Heartbeated(db) => Heartbeated(db') /\ LastSeen(db') = LastSeen(db))
    <2>1. CASE IsOpened
      <3>1. Database(db')
        BY <1>2, <1>6, <1>8, <2>1 DEF Database
      <3>2. \A i \in 1..Len(db'.coverage) : db'.coverage[i].seen <= now
        <4>1. ASSUME NEW i \in 1..Len(db'.coverage) PROVE db'.coverage[i].seen <= now
          <5>1. i \in 1..Len(db.coverage) \/ i = Len(db.coverage) + 1
            BY <1>7, <1>8, <2>1
          <5>2. CASE i \in 1..Len(db.coverage)
            BY <1>8, <2>1, <5>2 DEF IInv, Timed
          <5>3. CASE i = Len(db.coverage) + 1
            <6>1. db'.coverage[i] = row /\ row.seen = now
              BY <1>7, <1>8, <2>1, <5>3
            <6>2. QED
              BY <1>2, <6>1
          <5>4. QED
            BY <5>1, <5>2, <5>3
        <4>2. QED
          BY <4>1
      <3>3. coverage' = Len(db'.coverage)
        BY <1>8, <2>1 DEF IsOpened
      <3>4. QED
        BY <1>6, <1>9, <2>1, <3>1, <3>2, <3>3
    <2>2. CASE IsLeft
      <3>1. db' = db /\ coverage' \in {0, coverage}
        BY <2>2
      <3>2. Database(db')
        BY <1>2, <3>1 DEF Database
      <3>3. QED
        BY <1>2, <3>1, <3>2 DEF IInv, Timed, Heartbeated, LastSeen, LastSeenRows
    <2>3. QED
      BY <1>5, <2>1, <2>2
  <1>13. /\ Previous(writer) \in Times
         /\ \A t \in blind : LetGo(t) \/ InGap(Pending, t)
                             \/ (Previous(writer) # 0 /\ Previous(writer) <= t)
    BY <1>1, GapReaches
  <1>14. /\ ring' \in Seq(Entries) /\ Len(ring') <= Size /\ count' \in Ids
         /\ trimmed' \in Times /\ trimmed <= trimmed'
         /\ Rising(ring') /\ writer'.last <= count' /\ flush'.last <= count'
         /\ \A e \in ToSet(ring') : e.id <= count' /\ (e.kind = "annotation" => e.version = e.id)
         /\ \A t \in blind : InGap(Pending, t) => InGap(Pending', t) \/ t < trimmed'
         /\ ~ writer.gapChecked /\ writer'.gapChecked =>
              \A t \in blind : Previous(writer) # 0 /\ Previous(writer) <= t
                               => InGap(Pending', t) \/ t < trimmed'
         /\ Carried'
    <2>1. CASE NotifyGap(Previous(writer), 0)
      <3>1. Typed /\ Numbered /\ Carried /\ 0 \in Nat /\ flush' = flush
            /\ \A t \in blind : t \in Nat
        BY <1>1, BlindTimes DEF IInv
      <3>2. /\ ring' \in Seq(Entries) /\ Len(ring') <= Size /\ count' \in Ids
            /\ trimmed' \in Times /\ trimmed <= trimmed'
            /\ Rising(ring') /\ writer'.last <= count' /\ flush'.last <= count'
            /\ \A e \in ToSet(ring') : e.id <= count' /\ (e.kind = "annotation" => e.version = e.id)
            /\ \A t \in Nat : InGap(Pending, t) => InGap(Pending', t) \/ t < trimmed'
            /\ \A t \in blind : Previous(writer) # 0 /\ Previous(writer) <= t
                                => InGap(Pending', t) \/ t < trimmed'
            /\ Carried'
        BY <1>10, <1>13, <2>1, <3>1, GapTold
      <3>3. QED
        BY <3>1, <3>2
    <2>2. CASE UNCHANGED <<ring, count, trimmed>> /\ (writer.gapChecked \/ writer' = writer)
      <3>1. ~ (~ writer.gapChecked /\ writer'.gapChecked)
        BY <2>2
      <3>2. trimmed \in Nat
        BY DEF IInv, Typed, Times
      <3>3. Pending' = Pending /\ Carrying' = Carrying /\ Batch' = Batch
        BY <1>1, <1>10, <2>2 DEF Pending, Carrying, Batch
      <3>4. Carried'
        BY <1>1, <3>3 DEF IInv, Carried
      <3>5. QED
        BY <1>1, <1>10, <2>2, <3>1, <3>2, <3>3, <3>4 DEF IInv, Typed, Numbered
    <2>3. QED
      BY <1>5, <2>1, <2>2
  <1>15. Typed'
    <2>1. unseen' \in Times
      BY <1>1, <1>2 DEF IInv, Typed
    <2>2. QED
      BY <1>1, <1>10, <1>12, <1>14, <2>1 DEF IInv, Typed, Database, IsNotes
  <1>16. Up' /\ Carrying' = Carrying /\ Batch' = Batch
    BY <1>1 DEF Up, Carrying, Batch
  <1>17. ASSUME NEW t \in blind PROVE LetGo(t) => LetGo(t)'
    <2>1. CASE unseen' = unseen
      <3>1. t \in Nat /\ Typed
        BY BlindTimes DEF IInv
      <3>2. \A f \in db.rows : f.kind = "gap" => f \in db'.rows \/ f.until <= trimmed'
        BY <1>12
      <3>3. QED
        BY <1>14, <2>1, <3>1, <3>2, StillLetGo
    <2>2. CASE unseen' = now
      <3>1. t < now
        BY BlindTimes DEF IInv
      <3>2. QED
        BY <2>2, <3>1 DEF LetGo
    <2>3. QED
      BY <1>1, <2>1, <2>2
  <1>18. Vacant' /\ Numbered' /\ Counted'
    BY <1>1, <1>10, <1>12, <1>14, <1>16 DEF IInv, Vacant, Numbered, Counted, Distinct
  <1>19. Noted'
    BY <1>1, <1>12, <1>16 DEF IInv, Noted
  <1>20. Timed'
    BY <1>1, <1>10, <1>12 DEF IInv, Timed
  <1>21. Remembered'
    BY <1>1, <1>12, <1>17 DEF IInv, Remembered, Timed
  <1>22. Noticed'
    <2>1. ASSUME writer'.gapChecked, NEW t \in blind
          PROVE  LetGo(t)' \/ InGap(Pending', t) \/ (~ watching /\ writer'.seenAt <= t)
      <3>1. t < trimmed' => LetGo(t)'
        BY DEF LetGo
      <3>2. CASE ~ writer.gapChecked
        BY <1>13, <1>14, <1>17, <2>1, <3>1, <3>2
      <3>3. CASE writer.gapChecked
        <4>1. LetGo(t) \/ InGap(Pending, t) \/ (~ watching /\ writer.seenAt <= t)
          BY <1>1, <3>3 DEF IInv, Noticed
        <4>2. CASE ~ watching /\ writer.seenAt <= t
          <5>1. CASE IsOpened
            <6>1. unseen' = now /\ t < now
              BY <1>1, <1>11, <4>2, <5>1, BlindTimes DEF IInv
            <6>2. QED
              BY <6>1 DEF LetGo
          <5>2. CASE ~ IsOpened
            BY <1>5, <3>3, <4>2, <5>2
          <5>3. QED
            BY <5>1, <5>2
        <4>3. QED
          BY <1>14, <1>17, <3>1, <4>1, <4>2
      <3>4. QED
        BY <3>2, <3>3
    <2>2. QED
      BY <1>1, <2>1 DEF Noticed
  <1>23. Beating'
    BY <1>1 DEF Beating
  <1>24. QED
    BY <1>14, <1>15, <1>18, <1>19, <1>20, <1>21, <1>22, <1>23 DEF IInv

----------------------------------------------------------------------------
(* A flush, from the ring to the file.                                     *)

(* What a flush reads is all that is not written yet, up to the newest.    *)
LEMMA ReadAll ==
    ASSUME Typed, Numbered, NEW entries, entries = Since(writer.last)
    PROVE  /\ entries \in Seq(Entries) /\ ToSet(entries) = Pending
           /\ entries # <<>> => /\ entries[Len(entries)] \in Pending
                                /\ \A e \in Pending : e.id <= entries[Len(entries)].id
  <1> USE SizeAssumption
  <1> DEFINE C == {e \in ToSet(ring) : e.id <= writer.last}
  <1>1. ring \in Seq(Entries) /\ writer.last \in Nat /\ DOMAIN ring = 1..Len(ring)
    BY DEF Typed, Writers, Ids
  <1>2. /\ entries \in Seq(Entries)
        /\ \A i \in DOMAIN entries : entries[i] \notin C /\ \E j \in DOMAIN ring : ring[j] = entries[i]
        /\ \A j \in DOMAIN ring : ring[j] \notin C => \E i \in DOMAIN entries : entries[i] = ring[j]
        /\ ring # <<>> /\ ring[Len(ring)] \notin C =>
              entries # <<>> /\ entries[Len(entries)] = ring[Len(ring)]
    <2>1. entries = Sifted(ring, C)
      BY DEF Since
    <2> HIDE DEF C
    <2>2. /\ Sifted(ring, C) \in Seq(Entries)
          /\ \A i \in DOMAIN Sifted(ring, C) :
                Sifted(ring, C)[i] \notin C /\ \E j \in DOMAIN ring : ring[j] = Sifted(ring, C)[i]
          /\ \A j \in DOMAIN ring :
                ring[j] \notin C => \E i \in DOMAIN Sifted(ring, C) : Sifted(ring, C)[i] = ring[j]
          /\ ring # <<>> /\ ring[Len(ring)] \notin C =>
                Sifted(ring, C) # <<>> /\ Sifted(ring, C)[Len(Sifted(ring, C))] = ring[Len(ring)]
      <3>1. ring \in Seq(Entries)
        BY <1>1
      <3>2. QED
        BY <3>1, SiftedKeeps
    <2>3. QED
      BY <2>1, <2>2
  <1>3. \A j \in 1..Len(ring) : ring[j] \in ToSet(ring) /\ ring[j].id \in Nat
    <2>1. \A j \in 1..Len(ring) : ring[j] \in Entries
      BY <1>1
    <2>2. QED
      BY <2>1, EntryShape DEF ToSet
  <1>4. \A j \in 1..Len(ring) : ring[j] \notin C <=> ring[j].id > writer.last
    BY <1>1, <1>3
  <1> HIDE DEF C
  <1>5. DOMAIN entries = 1..Len(entries)
    BY <1>2
  <1>6. ASSUME NEW e PROVE e \in ToSet(entries) <=> e \in Pending
    <2>1. e \in ToSet(entries) <=> \E i \in 1..Len(entries) : entries[i] = e
      BY DEF ToSet
    <2>2. e \in Pending <=> \E j \in 1..Len(ring) : ring[j] = e /\ e.id > writer.last
      BY DEF Pending, ToSet
    <2>3. ASSUME e \in ToSet(entries) PROVE e \in Pending
      <3>1. PICK i \in 1..Len(entries) : entries[i] = e
        BY <2>1, <2>3
      <3>2. PICK j \in 1..Len(ring) : ring[j] = e /\ e \notin C
        BY <1>1, <1>2, <1>5, <3>1
      <3>3. QED
        BY <1>4, <2>2, <3>2
    <2>4. ASSUME e \in Pending PROVE e \in ToSet(entries)
      <3>1. PICK j \in 1..Len(ring) : ring[j] = e /\ e.id > writer.last
        BY <2>2, <2>4
      <3>2. ring[j] \notin C
        BY <1>4, <3>1
      <3>3. QED
        BY <1>1, <1>2, <1>5, <2>1, <3>1, <3>2
    <2>5. QED
      BY <2>3, <2>4
  <1>7. ASSUME entries # <<>>
        PROVE  /\ entries[Len(entries)] \in Pending
               /\ \A e \in Pending : e.id <= entries[Len(entries)].id
    <2>1. 1 \in 1..Len(entries)
      BY <1>2, <1>7
    <2>2. entries[1] \in Pending
      BY <1>6, <2>1 DEF ToSet
    <2>3. PICK j \in 1..Len(ring) : ring[j].id > writer.last
      <3>1. \E j \in 1..Len(ring) : ring[j] = entries[1]
        BY <2>2 DEF Pending, ToSet
      <3>2. entries[1].id > writer.last
        BY <2>2 DEF Pending
      <3>3. QED
        BY <3>1, <3>2
    <2>4. Len(ring) \in 1..Len(ring) /\ ring # <<>>
      BY <1>1, <2>3
    <2>5. \A i \in 1..Len(ring) : ring[i].id <= ring[Len(ring)].id
      <3>1. ASSUME NEW i \in 1..Len(ring) PROVE ring[i].id <= ring[Len(ring)].id
        <4>1. CASE i = Len(ring)
          BY <1>3, <4>1
        <4>2. CASE i < Len(ring)
          <5>1. ring[i].id < ring[Len(ring)].id
            BY <2>4, <4>2 DEF Numbered, Rising
          <5>2. ring[i].id \in Nat /\ ring[Len(ring)].id \in Nat
            BY <1>3, <2>4
          <5>3. \A a, b \in Nat : a < b => a <= b
            OBVIOUS
          <5>4. QED
            BY <5>1, <5>2, <5>3
        <4>3. i = Len(ring) \/ i < Len(ring)
          <5>1. Len(ring) \in Nat
            BY <1>1
          <5>2. QED
            BY <5>1
        <4>4. QED
          BY <4>1, <4>2, <4>3
      <3>2. QED
        BY <3>1
    <2>6. ring[Len(ring)].id > writer.last
      BY <1>1, <1>3, <2>3, <2>4, <2>5
    <2>7. entries[Len(entries)] = ring[Len(ring)]
      BY <1>2, <1>4, <2>4, <2>6
    <2>8. ring[Len(ring)] \in Pending
      BY <1>3, <2>4, <2>6 DEF Pending
    <2>9. \A e \in Pending : e.id <= ring[Len(ring)].id
      BY <2>5 DEF Pending, ToSet
    <2>10. QED
      BY <2>7, <2>8, <2>9
  <1>8. QED
    BY <1>2, <1>6, <1>7

LEMMA FlushReadKeeps == ASSUME IInv, FlushRead PROVE IInv'
  <1> USE SizeAssumption
  <1> DEFINE entries == Since(writer.last)
             C == {e \in ToSet(entries) : e.kind \notin RingKinds}
             unnoted == Sifted(entries, C)
             last == IF entries # <<>> THEN entries[Len(entries)].id ELSE 0
             keep == unnoted # <<>> \/ ~ writer.retained
  <1>1. /\ flush' = [at |-> "read", entries |-> unnoted, seenAt |-> 0, last |-> last, keep |-> keep]
        /\ Up /\ flush.at = "idle"
        /\ UNCHANGED <<phase, now, ring, count, stored, coverage, writer, watching, index, note,
                       db, blind, trimmed, unseen, reserved>>
    BY DEF FlushRead, bounds, history
  <1>2. Typed /\ Numbered
    BY DEF IInv
  <1>3. /\ entries \in Seq(Entries) /\ ToSet(entries) = Pending
        /\ entries # <<>> => /\ entries[Len(entries)] \in Pending
                             /\ \A e \in Pending : e.id <= entries[Len(entries)].id
    BY <1>2, ReadAll
  <1> HIDE DEF entries
  <1>4. \A e \in Pending : e \in ToSet(ring) /\ e \in Entries /\ e.id \in Nat /\ e.id > writer.last
                           /\ e.id <= count
    <2>1. ToSet(ring) \subseteq Entries
      BY <1>2 DEF Typed, ToSet
    <2>2. QED
      BY <1>2, <2>1, EntryShape DEF Pending, Numbered
  <1>5. entries = <<>> => Pending = {}
    <2>1. ASSUME entries = <<>> PROVE ToSet(entries) = {}
      BY <2>1 DEF ToSet
    <2>2. QED
      BY <1>3, <2>1
  <1>6. /\ last \in Ids /\ last <= count /\ (last = 0 \/ last > writer.last)
        /\ \A e \in Pending : e.id <= last
    <2>1. CASE entries = <<>>
      BY <1>2, <1>5, <2>1 DEF Typed, Ids
    <2>2. CASE entries # <<>>
      <3>1. last = entries[Len(entries)].id
        BY <2>2
      <3> HIDE DEF last
      <3>2. last \in Nat /\ last > writer.last /\ last <= count
        BY <1>3, <1>4, <2>2, <3>1
      <3>3. last \in Ids
        BY <1>2, <3>2 DEF Typed, Ids
      <3>4. QED
        BY <1>3, <2>2, <3>1, <3>2, <3>3
    <2>3. QED
      BY <2>1, <2>2
  <1>7. /\ unnoted \in Seq(Entries)
        /\ \A e \in ToSet(unnoted) : e \in Pending /\ e.kind \in RingKinds
        /\ \A e \in Pending : e.kind \in RingKinds => e \in ToSet(unnoted)
    <2> HIDE DEF C
    <2>1. /\ unnoted \in Seq(Entries)
          /\ \A i \in DOMAIN unnoted :
                unnoted[i] \notin C /\ \E j \in DOMAIN entries : entries[j] = unnoted[i]
          /\ \A j \in DOMAIN entries :
                entries[j] \notin C => \E i \in DOMAIN unnoted : unnoted[i] = entries[j]
      BY <1>3, SiftedKeeps
    <2> HIDE DEF unnoted
    <2>2. DOMAIN unnoted = 1..Len(unnoted) /\ DOMAIN entries = 1..Len(entries)
      BY <1>3, <2>1
    <2>3. ASSUME NEW e \in ToSet(unnoted) PROVE e \in Pending /\ e.kind \in RingKinds
      <3>1. PICK i \in 1..Len(unnoted) : unnoted[i] = e
        BY DEF ToSet
      <3>2. e \notin C /\ e \in ToSet(entries)
        BY <2>1, <2>2, <3>1 DEF ToSet
      <3>3. QED
        BY <1>3, <3>2 DEF C
    <2>4. ASSUME NEW e \in Pending, e.kind \in RingKinds PROVE e \in ToSet(unnoted)
      <3>1. e \in ToSet(entries) /\ e \notin C
        BY <1>3, <2>4 DEF C
      <3>2. PICK j \in 1..Len(entries) : entries[j] = e
        BY <3>1 DEF ToSet
      <3>3. PICK i \in 1..Len(unnoted) : unnoted[i] = e
        BY <2>1, <2>2, <3>1, <3>2
      <3>4. QED
        BY <3>3 DEF ToSet
    <2>5. QED
      BY <2>1, <2>3, <2>4
  <1> HIDE DEF unnoted, last
  <1>8. /\ flush'.at = "read" /\ flush'.entries = unnoted /\ flush'.seenAt = 0 /\ flush'.last = last
        /\ flush'.keep = keep
    BY <1>1
  <1>9. keep \in BOOLEAN /\ (~ keep => unnoted = <<>> /\ writer.retained)
    BY <1>2 DEF Typed, Writers
  <1> HIDE DEF keep
  <1>10. flush' \in Batches
    BY <1>1, <1>6, <1>7, <1>9 DEF Batches, Times
  <1>11. Typed'
    BY <1>1, <1>2, <1>10 DEF Typed, Database, IsNotes
  <1>12. /\ Carrying' /\ Batch' = ToSet(unnoted) /\ Pending' = Pending /\ (Up' <=> Up)
         /\ LastSeen(db)' = LastSeen(db) /\ (Heartbeated(db)' <=> Heartbeated(db))
         /\ \A t \in blind : LetGo(t)' <=> LetGo(t)
    BY <1>1, <1>8 DEF Carrying, Batch, Pending, LastSeen, LastSeenRows, Heartbeated, LetGo, InGap, Up
  <1>13. Vacant'
    BY <1>1, <1>12 DEF Vacant
  <1>14. Numbered'
    <2>1. Distinct(ToSet(unnoted))
      <3>1. Distinct(ToSet(ring))
        BY <1>2, RisingApart DEF Typed, Numbered
      <3>2. ToSet(unnoted) \subseteq ToSet(ring)
        BY <1>4, <1>7
      <3>3. QED
        BY <3>1, <3>2 DEF Distinct
    <2>2. \A e \in ToSet(unnoted) : e.id > writer.last /\ e.id <= last /\ e.kind \in RingKinds
      BY <1>4, <1>6, <1>7
    <2>3. QED
      BY <1>1, <1>2, <1>6, <1>8, <1>12, <2>1, <2>2 DEF Numbered, Rising
  <1>15. Counted' /\ Noted'
    BY <1>1, <1>8, <1>9, <1>12 DEF IInv, Counted, Noted
  <1>16. Timed'
    <2>1. 0 <= now
      BY <1>2 DEF Typed, Instants, Times
    <2>2. QED
      BY <1>1, <1>8, <1>12, <2>1 DEF IInv, Timed
  <1>17. Remembered' /\ Noticed'
    BY <1>1, <1>12 DEF IInv, Remembered, Noticed, InGap
  <1>18. Beating'
    <2>1. ASSUME writer.covering, watching, NEW t \in blind PROVE LetGo(t) \/ InGap(ToSet(unnoted), t)
      <3>1. LetGo(t) \/ InGap(Pending, t)
        BY <1>1, <2>1 DEF IInv, Noticed, Timed
      <3>2. InGap(Pending, t) => InGap(ToSet(unnoted), t)
        BY <1>7 DEF InGap, RingKinds
      <3>3. QED
        BY <3>1, <3>2
    <2>2. QED
      BY <1>1, <1>8, <1>12, <2>1 DEF Beating
  <1>19. Carried'
    BY <1>7, <1>12 DEF Carried
  <1>20. QED
    BY <1>11, <1>13, <1>14, <1>15, <1>16, <1>17, <1>18, <1>19 DEF IInv

LEMMA FlushBuildKeeps == ASSUME IInv, FlushBuild, flush'.at = "built" PROVE IInv'
  <1> USE SizeAssumption
  <1>1. PICK due \in BOOLEAN :
          flush' = [flush EXCEPT !.at = "built", !.seenAt = IF Heartbeats(due) THEN now ELSE 0]
    BY DEF FlushBuild, NoFlush
  <1> DEFINE seenAt == IF Heartbeats(due) THEN now ELSE 0
  <1>2. /\ flush.at = "read"
        /\ UNCHANGED <<phase, now, ring, count, stored, coverage, writer, watching, index, note,
                       db, blind, trimmed, unseen, reserved>>
    BY DEF FlushBuild, bounds, history
  <1>3. Up /\ flush \in Batches /\ now \in Nat /\ now # 0 /\ now \in Times
    BY <1>2 DEF IInv, Vacant, NoFlush, Typed, Instants, Times
  <1>4. seenAt \in Times /\ seenAt <= now
        /\ (seenAt # 0 => seenAt = now /\ writer.covering /\ watching)
    BY <1>3 DEF Heartbeats, Live, Times
  <1> HIDE DEF seenAt
  <1>5. /\ flush' \in Batches /\ flush'.at = "built" /\ flush'.seenAt = seenAt
        /\ flush'.entries = flush.entries /\ flush'.last = flush.last /\ flush'.keep = flush.keep
    <2> DEFINE f == [flush EXCEPT !.at = "built"]
    <2>1. /\ f \in Batches /\ f.at = "built" /\ f.entries = flush.entries /\ f.last = flush.last
          /\ f.keep = flush.keep
      BY <1>3 DEF Batches
    <2>2. flush' = [f EXCEPT !.seenAt = seenAt]
      BY <1>1 DEF seenAt
    <2> HIDE DEF f
    <2>3. QED
      BY <1>4, <2>1, <2>2 DEF Batches
  <1>6. Typed'
    BY <1>2, <1>5 DEF IInv, Typed, Database, IsNotes
  <1>7. /\ Carrying /\ Carrying' /\ Batch' = Batch /\ Pending' = Pending /\ (Up' <=> Up)
        /\ LastSeen(db)' = LastSeen(db) /\ (Heartbeated(db)' <=> Heartbeated(db))
        /\ \A t \in blind : LetGo(t)' <=> LetGo(t)
    BY <1>2, <1>5 DEF Carrying, Batch, Pending, LastSeen, LastSeenRows, Heartbeated, LetGo, InGap, Up
  <1>8. Vacant' /\ Numbered' /\ Counted'
    BY <1>2, <1>3, <1>5, <1>7 DEF IInv, Vacant, Numbered, Counted, Rising, Distinct
  <1>9. Noted' /\ Timed'
    BY <1>2, <1>4, <1>5, <1>7 DEF IInv, Noted, Timed
  <1>10. Remembered' /\ Noticed'
    BY <1>2, <1>7 DEF IInv, Remembered, Noticed, InGap
  <1>11. Beating'
    <2>1. ASSUME seenAt # 0, NEW t \in blind
          PROVE  (LetGo(t) \/ InGap(Batch, t)) /\ (LetGo(t) \/ InGap(Pending, t))
      <3>1. writer.covering /\ watching /\ writer.gapChecked
        BY <1>4, <2>1 DEF IInv, Timed
      <3>2. LetGo(t) \/ InGap(Batch, t)
        BY <1>2, <3>1 DEF IInv, Beating
      <3>3. LetGo(t) \/ InGap(Pending, t)
        BY <1>3, <3>1 DEF IInv, Noticed
      <3>4. QED
        BY <3>2, <3>3
    <2>2. QED
      BY <1>2, <1>5, <1>7, <2>1 DEF Beating
  <1>12. Carried'
    BY <1>2, <1>5, <1>7 DEF IInv, Carried
  <1>13. QED
    BY <1>6, <1>8, <1>9, <1>10, <1>11, <1>12 DEF IInv

(* A flush that is over leaves the batch behind.                           *)
LEMMA FlushOver ==
    ASSUME IInv, Up, NEW at \in {"idle", "exit"}, flush' = [NoFlush EXCEPT !.at = at],
           UNCHANGED <<phase, now, ring, count, stored, coverage, watching, index, note,
                       db, blind, trimmed, unseen, reserved>>,
           writer' = writer \/ (/\ flush.at = "committed" /\ writer.covering /\ flush.seenAt # 0
                                /\ writer' = [writer EXCEPT !.seenAt = flush.seenAt])
    PROVE  IInv'
  <1> USE SizeAssumption
  <1>1. flush' \in Batches /\ flush'.at = at /\ flush'.seenAt = 0 /\ flush'.last = 0
        /\ ~ Carrying'
    <2>1. NoFlush \in Batches /\ NoFlush.seenAt = 0 /\ NoFlush.last = 0
      BY DEF NoFlush, Batches, Ids, Times
    <2>2. flush' \in Batches /\ flush'.at = at /\ flush'.seenAt = 0 /\ flush'.last = 0
      BY <2>1 DEF Batches
    <2>3. QED
      BY <2>2 DEF Carrying
  <1>2. /\ writer \in Writers /\ flush.seenAt \in Times /\ flush.seenAt <= now /\ writer.seenAt <= now
        /\ (writer.covering => writer.gapChecked) /\ (writer.gapChecked <=> writer.seenAt # 0)
    BY DEF IInv, Typed, Batches, Timed
  <1>3. /\ writer' \in Writers /\ writer'.last = writer.last /\ writer'.retained = writer.retained
        /\ writer'.covering = writer.covering /\ writer'.gapChecked = writer.gapChecked
        /\ (writer'.gapChecked <=> writer'.seenAt # 0) /\ writer'.seenAt <= now
        /\ \/ writer'.seenAt = writer.seenAt
           \/ /\ writer'.seenAt = flush.seenAt /\ flush.at = "committed" /\ writer.covering
              /\ flush.seenAt # 0
    BY <1>2 DEF Writers
  <1>4. Typed'
    BY <1>1, <1>3 DEF IInv, Typed, Database, IsNotes
  <1>5. /\ Pending' = Pending /\ (Up' <=> Up)
        /\ LastSeen(db)' = LastSeen(db) /\ (Heartbeated(db)' <=> Heartbeated(db))
        /\ \A t \in blind : LetGo(t)' <=> LetGo(t)
    BY <1>3 DEF Pending, LastSeen, LastSeenRows, Heartbeated, LetGo, InGap, Up
  <1>6. Vacant' /\ Numbered' /\ Counted'
    <2>1. count \in Nat
      BY DEF IInv, Typed, Ids
    <2>2. QED
      BY <1>1, <1>3, <1>5, <2>1 DEF IInv, Vacant, Numbered, Counted, Rising, Distinct
  <1>7. Noted' /\ Timed'
    <2>1. 0 <= now
      BY DEF IInv, Typed, Instants, Times
    <2>2. QED
      BY <1>1, <1>3, <1>5, <2>1 DEF IInv, Noted, Timed
  <1>8. Remembered'
    BY <1>5 DEF IInv, Remembered
  <1>9. Noticed'
    <2>1. ASSUME writer.gapChecked, NEW t \in blind
          PROVE  LetGo(t) \/ InGap(Pending, t) \/ (~ watching /\ writer'.seenAt <= t)
      <3>1. LetGo(t) \/ InGap(Pending, t) \/ (~ watching /\ writer.seenAt <= t)
        BY <2>1 DEF IInv, Noticed
      <3>2. CASE writer'.seenAt = writer.seenAt
        BY <3>1, <3>2
      <3>3. CASE /\ writer'.seenAt = flush.seenAt /\ flush.at = "committed" /\ writer.covering
                 /\ flush.seenAt # 0
        <4>1. LetGo(t) \/ InGap(Pending, t) \/ flush.seenAt <= t
          BY <3>3 DEF IInv, Beating
        <4>2. QED
          BY <3>1, <3>3, <4>1
      <3>4. QED
        BY <1>3, <3>2, <3>3
    <2>2. QED
      BY <1>3, <1>5, <2>1 DEF Noticed, InGap
  <1>10. Beating' /\ Carried'
    BY <1>1 DEF Beating, Carried
  <1>11. QED
    BY <1>4, <1>6, <1>7, <1>8, <1>9, <1>10 DEF IInv

LEMMA FlushEndKeeps ==
    ASSUME IInv, (FlushBuild /\ flush'.at # "built") \/ FlushFail \/ FlushSeen
    PROVE  IInv'
  <1> USE SizeAssumption
  <1> DEFINE at == IF phase = "stopping" THEN "exit" ELSE "idle"
  <1>1. at \in {"idle", "exit"}
    OBVIOUS
  <1>2. Up
    <2>1. flush.at \in {"read", "built", "committed"}
      BY DEF FlushBuild, FlushFail, FlushSeen
    <2>2. NoFlush.at = "idle"
      BY DEF NoFlush
    <2>3. QED
      BY <2>1, <2>2 DEF IInv, Vacant
  <1>3. /\ flush' = [NoFlush EXCEPT !.at = at]
        /\ UNCHANGED <<phase, now, ring, count, stored, coverage, watching, index, note,
                       db, blind, trimmed, unseen, reserved>>
    <2>1. CASE FlushBuild /\ flush'.at # "built"
      <3>1. PICK due \in BOOLEAN :
               \/ flush' = [flush EXCEPT !.at = "built", !.seenAt = IF Heartbeats(due) THEN now ELSE 0]
               \/ flush' = [NoFlush EXCEPT !.at = at]
        BY <2>1 DEF FlushBuild
      <3>2. flush \in Batches
        BY DEF IInv, Typed
      <3>3. flush' # [flush EXCEPT !.at = "built", !.seenAt = IF Heartbeats(due) THEN now ELSE 0]
        BY <2>1, <3>2 DEF Batches
      <3>4. QED
        BY <2>1, <3>1, <3>3 DEF FlushBuild, bounds, history
    <2>2. CASE FlushFail
      BY <2>2 DEF FlushFail, history
    <2>3. CASE FlushSeen
      BY <2>3 DEF FlushSeen, bounds, history
    <2>4. QED
      BY <2>1, <2>2, <2>3
  <1>4. writer' = writer \/ (/\ flush.at = "committed" /\ writer.covering /\ flush.seenAt # 0
                             /\ writer' = [writer EXCEPT !.seenAt = flush.seenAt])
    <2>1. CASE FlushBuild
      BY <2>1 DEF FlushBuild
    <2>2. CASE FlushFail
      BY <2>2 DEF FlushFail
    <2>3. CASE FlushSeen
      <3>1. flush.seenAt \in Nat /\ writer.seenAt \in Nat
        BY DEF IInv, Typed, Writers, Batches, Times
      <3>2. QED
        BY <2>3, <3>1 DEF FlushSeen
    <2>4. QED
      BY <2>1, <2>2, <2>3
  <1> HIDE DEF at
  <1>5. QED
    BY <1>1, <1>2, <1>3, <1>4, FlushOver

(* A commit takes the batch in whole: the gaps before the heartbeat that   *)
(* would make the next start forget them.                                  *)
LEMMA FlushCommitKeeps == ASSUME IInv, FlushCommit PROVE IInv'
  <1> USE SizeAssumption
  <1> DEFINE all == db.rows \cup Batch
             beats == coverage # 0 /\ flush.seenAt # 0
  <1>1. /\ flush.at = "built" /\ note.at = "none"
        /\ db' = Committed(db, flush) /\ stored' = StoredAfter(db, flush)
        /\ trimmed' = LatestGapEnd(Inserted(db.rows, flush.entries) \ db'.rows, trimmed)
        /\ reserved' = (reserved \/ flush.last > 0)
        /\ UNCHANGED <<phase, now, ring, count, coverage, watching, index, note, blind, unseen>>
    BY DEF FlushCommit, ConnFree, bounds
  <1>2. /\ Up /\ Carrying /\ flush \in Batches /\ writer \in Writers /\ Database(db)
        /\ coverage \in {0, Len(db.coverage)} /\ trimmed \in Times /\ reserved \in BOOLEAN
        /\ flush.seenAt \in Times /\ flush.seenAt <= now /\ flush.last \in Ids
        /\ flush.keep \in BOOLEAN /\ flush.entries \in Seq(Entries)
    <2>1. Up /\ Carrying
      BY <1>1 DEF IInv, Vacant, NoFlush, Carrying
    <2>2. QED
      BY <2>1 DEF IInv, Typed, Timed, Batches
  <1>3. /\ Distinct(Batch) /\ (flush.last = 0 \/ flush.last > writer.last)
        /\ \A e \in Batch : e.id > writer.last /\ e.id <= flush.last /\ e.kind \in RingKinds
        /\ \A e \in db.rows : e.id <= writer.last
    BY <1>2 DEF IInv, Numbered
  <1>4. Batch \subseteq Entries /\ db.rows \subseteq Entries /\ IsFiniteSet(db.rows)
        /\ Distinct(db.rows) /\ \A e \in db.rows : e.kind \in RingKinds
    BY <1>2 DEF Batch, ToSet, Database
  <1>5. writer.last \in Nat /\ flush.last \in Nat /\ count \in Nat /\ now \in Nat
        /\ \A e \in all : e \in Entries /\ e.id \in Nat
    BY <1>2, <1>4, EntryShape DEF Writers, Ids, IInv, Typed, Instants, Times
  <1>6. Inserted(db.rows, flush.entries) = all
    <2>1. \A e \in Batch : \A r \in db.rows : r.id # e.id
      <3>1. ASSUME NEW e \in Batch, NEW r \in db.rows PROVE r.id # e.id
        <4>1. e.id > writer.last /\ r.id <= writer.last /\ e.id \in Nat /\ r.id \in Nat
          BY <1>3, <1>5
        <4>2. QED
          BY <1>5, <4>1
      <3>2. QED
        BY <3>1
    <2>2. QED
      BY <2>1 DEF Inserted, Batch
  <1>7. /\ all \subseteq Entries /\ IsFiniteSet(all) /\ Distinct(all)
        /\ \A e \in all : e.kind \in RingKinds
    <2>1. IsFiniteSet(Batch)
      <3>1. Len(flush.entries) \in Nat
        BY <1>2
      <3>2. IsFiniteSet(1..Len(flush.entries))
        <4>1. 1 \in Int /\ Len(flush.entries) \in Int
          BY <3>1
        <4>2. QED
          BY <4>1, FS_Interval
      <3> DEFINE f == [i \in 1..Len(flush.entries) |-> flush.entries[i]]
      <3>3. f \in Surjection(1..Len(flush.entries), Batch)
        <4>1. f \in [1..Len(flush.entries) -> Batch]
          BY DEF Batch, ToSet
        <4>2. \A e \in Batch : \E i \in 1..Len(flush.entries) : f[i] = e
          BY DEF Batch, ToSet
        <4> HIDE DEF f
        <4>3. QED
          BY <4>1, <4>2 DEF Surjection
      <3> HIDE DEF f
      <3>4. QED
        BY <3>2, <3>3, FS_Surjection
    <2>2. IsFiniteSet(all)
      BY <1>4, <2>1, FS_Union
    <2>3. Distinct(all)
      <3>1. ASSUME NEW e \in all, NEW f \in all, e.id = f.id PROVE e = f
        <4>1. e.id \in Nat /\ f.id \in Nat
          BY <1>5
        <4>2. (e \in db.rows /\ f \in db.rows) \/ (e \in Batch /\ f \in Batch)
          <5>1. ASSUME NEW r \in db.rows, NEW b \in Batch PROVE r.id # b.id
            <6>1. b.id > writer.last /\ r.id <= writer.last /\ b.id \in Nat /\ r.id \in Nat
              BY <1>3, <1>5
            <6>2. QED
              BY <1>5, <6>1
          <5>2. QED
            BY <3>1, <5>1
        <4>3. QED
          BY <1>3, <1>4, <3>1, <4>2 DEF Distinct
      <3>2. QED
        BY <3>1 DEF Distinct
    <2>4. \A e \in all : e.kind \in RingKinds
      BY <1>3, <1>4
    <2> HIDE DEF all
    <2>5. all \subseteq Entries
      BY <1>5
    <2>6. QED
      BY <2>2, <2>3, <2>4, <2>5
  <1>8. \A e \in all : e.id <= writer.last \/ e.id <= flush.last
    BY <1>3
  <1>9. db.rows \subseteq all /\ Batch \subseteq all
    OBVIOUS
  <1>10. /\ Retained(all) \subseteq all /\ IsFiniteSet(Retained(all))
         /\ Cardinality(Retained(all)) = IF Cardinality(all) > Size THEN Size ELSE Cardinality(all)
    <2> HIDE DEF all
    <2>1. QED
      BY <1>7, RetainedCount
  <1>11. flush.entries = <<>> => all = db.rows
    BY DEF Batch, ToSet
  <1> HIDE DEF all
  <1> DEFINE kept == IF flush.keep THEN Retained(all) ELSE all
             lastNow == IF flush.last > db.last THEN flush.last ELSE db.last
             covered == IF beats THEN [db.coverage EXCEPT ![coverage].seen = flush.seenAt,
                                                          ![coverage].beat = TRUE]
                                 ELSE db.coverage
  <1>12. /\ DOMAIN db' = {"rows", "last", "coverage", "notes"}
         /\ db'.rows = kept /\ db'.last = lastNow /\ db'.coverage = covered /\ db'.notes = db.notes
    <2>1. db' = [db EXCEPT !.rows = kept, !.last = lastNow, !.coverage = covered]
      BY <1>1, <1>6 DEF Committed
    <2> HIDE DEF kept, lastNow, covered
    <2>2. DOMAIN db = {"rows", "last", "coverage", "notes"}
      BY <1>2 DEF Database
    <2> DEFINE d1 == [db EXCEPT !.rows = kept]
               d2 == [d1 EXCEPT !.last = lastNow]
    <2>3. DOMAIN d1 = DOMAIN db /\ d1.rows = kept /\ d1.coverage = db.coverage /\ d1.notes = db.notes
      BY <2>2
    <2>4. db' = [d2 EXCEPT !.coverage = covered]
      BY <2>1
    <2> HIDE DEF d1
    <2>5. DOMAIN d2 = DOMAIN db /\ d2.rows = kept /\ d2.last = lastNow /\ d2.notes = db.notes
      BY <2>2, <2>3
    <2> HIDE DEF d2
    <2>6. QED
      BY <2>2, <2>4, <2>5
  <1>13. /\ db'.rows \subseteq all /\ IsFiniteSet(db'.rows)
         /\ (flush.keep => db'.rows = Retained(all)) /\ (~ flush.keep => db'.rows = all)
    BY <1>2, <1>7, <1>10, <1>12
  <1>14. /\ db'.last \in Ids /\ (db'.last = db.last \/ db'.last = flush.last)
         /\ db.last <= db'.last /\ flush.last <= db'.last /\ db.last \in Nat
    <2>1. db.last \in Ids /\ db.last \in Nat
      BY <1>2 DEF Database, Ids
    <2>2. QED
      BY <1>2, <1>5, <1>12, <2>1
  <1> HIDE DEF kept, lastNow
  <1>15. /\ db'.coverage \in Seq(Stretches) /\ Len(db'.coverage) = Len(db.coverage)
         /\ \A i \in 1..Len(db'.coverage) : db'.coverage[i].seen <= now
         /\ Heartbeated(db) => Heartbeated(db')
         /\ Heartbeated(db) => \/ LastSeen(db') = LastSeen(db)
                               \/ LastSeen(db') = flush.seenAt /\ flush.seenAt # 0
    <2>1. db.coverage \in Seq(Stretches)
      BY <1>2 DEF Database
    <2>2. CASE beats
      <3>1. /\ coverage = Len(db.coverage) /\ coverage # 0 /\ flush.seenAt \in Instants
            /\ db'.coverage = [db.coverage EXCEPT ![coverage].seen = flush.seenAt,
                                                  ![coverage].beat = TRUE]
        BY <1>2, <1>12, <2>2 DEF Instants
      <3>2. /\ db'.coverage \in Seq(Stretches) /\ Len(db'.coverage) = coverage
            /\ \A i \in 1..coverage :
                  db'.coverage[i].seen \in {flush.seenAt, db.coverage[i].seen}
            /\ Heartbeated(db') /\ LastSeen(db') = flush.seenAt
        <4>1. db'.coverage = Beaten(db.coverage, Len(db.coverage), flush.seenAt)
          BY <3>1 DEF Beaten
        <4>2. Len(db.coverage) # 0 /\ flush.seenAt \in Instants
          BY <3>1
        <4>3. /\ db'.coverage \in Seq(Stretches) /\ Len(db'.coverage) = Len(db.coverage)
              /\ \A i \in 1..Len(db.coverage) :
                    db'.coverage[i].seen \in {flush.seenAt, db.coverage[i].seen}
              /\ Heartbeated(db') /\ LastSeen(db') = flush.seenAt
          BY <2>1, <4>1, <4>2, BeatenLast
        <4>4. coverage = Len(db.coverage)
          BY <3>1
        <4>5. QED
          BY <4>3, <4>4
      <3>3. \A i \in 1..Len(db'.coverage) : db'.coverage[i].seen <= now
        BY <1>2, <3>1, <3>2 DEF IInv, Timed
      <3>4. QED
        BY <2>2, <3>1, <3>2, <3>3
    <2>3. CASE ~ beats
      <3>1. db'.coverage = db.coverage
        BY <1>12, <2>3
      <3> HIDE DEF beats
      <3>2. QED
        BY <2>1, <3>1 DEF IInv, Timed, Heartbeated, LastSeen, LastSeenRows
    <2> HIDE DEF beats
    <2>4. QED
      BY <2>2, <2>3
  <1> HIDE DEF covered, beats
  <1>16. Database(db')
    BY <1>2, <1>7, <1>12, <1>13, <1>14, <1>15 DEF Database, Distinct
  <1>17. /\ writer' \in Writers /\ writer'.retained = TRUE /\ writer'.seenAt = writer.seenAt
         /\ writer'.covering = writer.covering /\ writer'.gapChecked = writer.gapChecked
         /\ writer'.last = IF flush.last > 0 THEN flush.last ELSE writer.last
    <2> DEFINE n == IF flush.last > 0 THEN flush.last ELSE writer.last
               g == [writer EXCEPT !.retained = TRUE]
    <2>1. n \in Ids
      BY <1>2 DEF Writers
    <2>2. writer' = [g EXCEPT !.last = n]
      BY DEF FlushCommit
    <2> HIDE DEF n
    <2>3. /\ g \in Writers /\ g.retained = TRUE /\ g.seenAt = writer.seenAt
          /\ g.covering = writer.covering /\ g.gapChecked = writer.gapChecked
      BY <1>2 DEF Writers
    <2> HIDE DEF g
    <2>4. writer' \in Writers /\ writer'.retained = TRUE /\ writer'.seenAt = writer.seenAt
          /\ writer'.covering = writer.covering /\ writer'.gapChecked = writer.gapChecked
          /\ writer'.last = n
      BY <2>1, <2>2, <2>3 DEF Writers
    <2>5. QED
      BY <2>4 DEF n
  <1>18. writer.last <= writer'.last /\ flush.last <= writer'.last /\ writer'.last <= count
         /\ \A e \in all : e.id <= writer'.last
    <2>1. writer.last <= writer'.last /\ flush.last <= writer'.last
      BY <1>3, <1>5, <1>17
    <2>2. writer'.last \in Nat
      BY <1>5, <1>17
    <2>3. \A e \in all : e.id <= writer'.last
      BY <1>5, <1>8, <2>1, <2>2
    <2>4. writer'.last <= count
      BY <1>17 DEF IInv, Numbered
    <2>5. QED
      BY <2>1, <2>3, <2>4
  <1>19. /\ flush' \in Batches /\ flush'.at = "committed" /\ flush'.seenAt = flush.seenAt
         /\ flush'.last = flush.last
    <2>1. flush' = [flush EXCEPT !.at = "committed"]
      BY DEF FlushCommit
    <2>2. QED
      BY <1>2, <2>1 DEF Batches
  <1>20. stored' = Cardinality(db'.rows) /\ stored' \in Nat /\ stored' <= Size
    <2>1. stored = Cardinality(db.rows) /\ Cardinality(db.rows) \in Nat /\ Cardinality(all) \in Nat
          /\ (writer.retained => stored <= Size)
          /\ (~ flush.keep => flush.entries = <<>> /\ writer.retained)
      BY <1>2, <1>4, <1>7, FS_CardinalityType DEF IInv, Counted
    <2>2. stored' = IF flush.keep /\ Cardinality(all) > Size THEN Size ELSE Cardinality(all)
      BY <1>1, <1>6, <2>1 DEF StoredAfter
    <2>3. CASE flush.keep
      BY <1>10, <1>13, <2>1, <2>2, <2>3
    <2>4. CASE ~ flush.keep
      BY <1>11, <1>13, <2>1, <2>2, <2>4
    <2>5. QED
      BY <1>2, <2>3, <2>4
  <1>21. /\ trimmed' \in Times /\ trimmed <= trimmed'
         /\ \A e \in all : e.kind = "gap" => e \in db'.rows \/ e.until <= trimmed'
    <2> DEFINE dropped == all \ db'.rows
    <2>1. dropped \subseteq Entries /\ trimmed' = LatestGapEnd(dropped, trimmed)
      BY <1>1, <1>6, <1>7
    <2>2. \A e \in all : e \in db'.rows \/ e \in dropped
      OBVIOUS
    <2> HIDE DEF dropped
    <2>3. QED
      BY <1>2, <2>1, <2>2, GapEnds
  <1>22. Typed'
    <2>1. reserved' \in BOOLEAN /\ coverage' \in {0, Len(db'.coverage)}
      BY <1>1, <1>2, <1>15
    <2>2. QED
      BY <1>1, <1>16, <1>17, <1>19, <1>20, <1>21, <2>1 DEF IInv, Typed, Database, IsNotes
  <1>23. Up' /\ ~ Carrying'
    BY <1>1, <1>2, <1>19 DEF Up, Carrying
  <1>24. ASSUME NEW t \in blind PROVE LetGo(t) => LetGo(t)'
    <2>1. t \in Nat /\ Typed /\ unseen' = unseen
      BY <1>1, BlindTimes DEF IInv
    <2>2. \A f \in db.rows : f.kind = "gap" => f \in db'.rows \/ f.until <= trimmed'
      BY <1>9, <1>21
    <2>3. QED
      BY <1>21, <2>1, <2>2, StillLetGo
  <1>25. ASSUME NEW t \in blind, NEW e \in Batch, e.kind = "gap", e.from <= t, t < e.until
         PROVE  LetGo(t)'
    <2>1. e \in all /\ e \in Entries
      BY <1>4, <1>9
    <2>2. e.until \in Nat /\ t \in Nat /\ trimmed' \in Nat
      BY <1>21, <2>1, EntryShape, BlindTimes DEF IInv, Times
    <2>3. CASE e \in db'.rows
      BY <1>25, <2>3 DEF LetGo, InGap
    <2>4. CASE e.until <= trimmed'
      <3>1. t < trimmed'
        BY <1>25, <2>2, <2>4
      <3>2. QED
        BY <3>1 DEF LetGo
    <2>5. QED
      BY <1>21, <1>25, <2>1, <2>3, <2>4
  <1>26. \A t \in blind : InGap(Batch, t) => LetGo(t)'
    BY <1>25 DEF InGap
  <1>27. \A t \in blind : InGap(Pending, t) => InGap(Pending', t) \/ LetGo(t)'
    <2>1. ASSUME NEW t \in blind, NEW e \in Pending, e.kind = "gap", e.from <= t, t < e.until
          PROVE  InGap(Pending', t) \/ LetGo(t)'
      <3>1. e \in ToSet(ring) /\ e.id \in Nat
        <4>1. ToSet(ring) \subseteq Entries
          BY DEF IInv, Typed, ToSet
        <4>2. QED
          BY <4>1, EntryShape DEF Pending
      <3>2. CASE e.id > writer'.last
        <4>1. e \in Pending'
          BY <1>1, <3>1, <3>2 DEF Pending
        <4>2. QED
          BY <2>1, <4>1 DEF InGap
      <3>3. CASE ~ (e.id > writer'.last)
        <4>1. e.id > writer.last
          BY DEF Pending
        <4>2. e.id <= flush.last
          BY <1>5, <1>17, <3>1, <3>3, <4>1
        <4>3. e \in Batch
          BY <1>2, <2>1, <4>2 DEF IInv, Carried, RingKinds
        <4>4. QED
          BY <1>25, <2>1, <4>3
      <3>4. QED
        BY <3>2, <3>3
    <2>2. QED
      BY <2>1 DEF InGap
  <1>28. Vacant' /\ Counted' /\ Noted'
    BY <1>1, <1>2, <1>12, <1>20, <1>23 DEF IInv, Vacant, Counted, Noted
  <1>29. Numbered'
    <2>1. reserved' => writer'.last <= db'.last
      <3>1. CASE flush.last > 0
        BY <1>14, <1>17, <3>1
      <3>2. CASE ~ (flush.last > 0)
        <4>1. reserved' => writer.last <= db.last
          BY <1>1, <1>2, <3>2 DEF IInv, Numbered
        <4>2. db'.last \in Nat
          BY <1>14 DEF Ids
        <4>3. QED
          BY <1>5, <1>14, <1>17, <3>2, <4>1, <4>2
      <3>3. QED
        BY <3>1, <3>2
    <2>2. \A e \in db'.rows : e.id <= writer'.last
      BY <1>13, <1>18
    <2>3. Rising(ring) /\ flush.last <= count
          /\ \A e \in ToSet(ring) : e.id <= count /\ (e.kind = "annotation" => e.version = e.id)
      BY DEF IInv, Numbered
    <2>4. QED
      BY <1>1, <1>18, <1>19, <1>23, <2>1, <2>2, <2>3 DEF Numbered
  <1>30. Timed'
    BY <1>1, <1>15, <1>17, <1>19 DEF IInv, Timed
  <1>31. Remembered'
    <2>1. ASSUME NEW t \in blind PROVE LetGo(t)' \/ LastSeen(db') <= t
      <3>1. Heartbeated(db)
        BY DEF IInv, Timed
      <3>2. LetGo(t) \/ LastSeen(db) <= t
        BY DEF IInv, Remembered
      <3>3. CASE LastSeen(db') = LastSeen(db)
        BY <1>24, <3>2, <3>3
      <3>4. CASE LastSeen(db') = flush.seenAt /\ flush.seenAt # 0
        <4>1. LetGo(t) \/ InGap(Batch, t) \/ flush.seenAt <= t
          BY <1>1, <3>4 DEF IInv, Beating
        <4>2. QED
          BY <1>24, <1>26, <3>4, <4>1
      <3>5. QED
        BY <1>15, <3>1, <3>3, <3>4
    <2>2. QED
      BY <1>1, <2>1 DEF Remembered
  <1>32. Noticed'
    <2>1. ASSUME writer.gapChecked, NEW t \in blind
          PROVE  LetGo(t)' \/ InGap(Pending', t) \/ (~ watching /\ writer.seenAt <= t)
      <3>1. LetGo(t) \/ InGap(Pending, t) \/ (~ watching /\ writer.seenAt <= t)
        BY <1>2, <2>1 DEF IInv, Noticed
      <3>2. QED
        BY <1>24, <1>27, <3>1
    <2>2. QED
      BY <1>1, <1>17, <2>1 DEF Noticed
  <1>33. Beating'
    <2>1. ASSUME flush.seenAt # 0, writer.covering, NEW t \in blind
          PROVE  LetGo(t)' \/ InGap(Pending', t) \/ flush.seenAt <= t
      <3>1. LetGo(t) \/ InGap(Pending, t) \/ flush.seenAt <= t
        BY <1>1, <2>1 DEF IInv, Beating
      <3>2. QED
        BY <1>24, <1>27, <3>1
    <2>2. QED
      BY <1>1, <1>17, <1>19, <2>1 DEF Beating
  <1>34. Carried'
    BY <1>23 DEF Carried
  <1>35. QED
    BY <1>22, <1>28, <1>29, <1>30, <1>31, <1>32, <1>33, <1>34 DEF IInv

----------------------------------------------------------------------------
(* What holds of every execution.                                          *)

LEMMA NextKeeps == ASSUME IInv, [Next]_vars PROVE IInv'
  <1>1. CASE Start
    BY <1>1, StartKeeps
  <1>2. CASE Crash \/ Exit
    BY <1>2, EndedKeeps DEF Crash, Exit
  <1>3. CASE Stop \/ StreamLost \/ BeginAnnotation \/ RejectAnnotation
    BY <1>3, QuietKeeps
  <1>4. CASE Tick
    BY <1>4, TickKeeps
  <1>5. CASE Change
    BY <1>5, ChangeKeeps
  <1>6. CASE StartWatching
    BY <1>6, StartWatchingKeeps
  <1>7. CASE OpenCoverage
    BY <1>7, OpenCoverageKeeps
  <1>8. CASE FlushRead
    BY <1>8, FlushReadKeeps
  <1>9. CASE FlushBuild
    BY <1>9, FlushBuildKeeps, FlushEndKeeps
  <1>10. CASE FlushCommit
    BY <1>10, FlushCommitKeeps
  <1>11. CASE FlushFail \/ FlushSeen
    BY <1>11, FlushEndKeeps
  <1>12. CASE PutAnnotation
    BY <1>12, PutAnnotationKeeps
  <1>13. CASE CommitAnnotation
    BY <1>13, CommitAnnotationKeeps
  <1>14. CASE UNCHANGED vars
    <2>1. /\ UNCHANGED <<phase, now, ring, count, stored, coverage, writer, flush, watching, index,
                         note, db, blind, trimmed, unseen, reserved>>
      BY <1>14 DEF vars, process, bounds, history
    <2>2. Typed'
      BY <2>1 DEF IInv, Typed, Database, IsNotes
    <2>3. /\ Carrying' = Carrying /\ Batch' = Batch /\ Pending' = Pending /\ (Up' <=> Up)
          /\ LastSeen(db)' = LastSeen(db) /\ (Heartbeated(db)' <=> Heartbeated(db))
          /\ \A t \in blind : LetGo(t)' <=> LetGo(t)
      BY <2>1 DEF Carrying, Batch, Pending, LastSeen, LastSeenRows, Heartbeated, LetGo, InGap, Up
    <2>4. Vacant' /\ Numbered' /\ Counted' /\ Noted' /\ Timed'
      BY <2>1, <2>3 DEF IInv, Vacant, Numbered, Counted, Noted, Timed, Rising, Distinct
    <2>5. Remembered' /\ Noticed' /\ Beating' /\ Carried'
      BY <2>1, <2>3 DEF IInv, Remembered, Noticed, Beating, Carried, InGap
    <2>6. QED
      BY <2>2, <2>4, <2>5 DEF IInv
  <1>15. QED
    BY <1>1, <1>2, <1>3, <1>4, <1>5, <1>6, <1>7, <1>8, <1>9, <1>10, <1>11, <1>12, <1>13, <1>14
       DEF Next

(* The ring, the batch of a flush, the file and the heartbeats fit         *)
(* together at every point where the process may die                       *)
(* (src/internal/timeline/writer.go, flush; cache/history.go).             *)
THEOREM TimelineFitsTogether == Spec => []IInv
  <1>1. Init => IInv
    BY Begins
  <1>2. IInv /\ [Next]_vars => IInv'
    BY NextKeeps
  <1>3. QED
    BY <1>1, <1>2, PTL DEF Spec

(* No id a reader was handed is issued again by the process that starts    *)
(* after a crash (History.Restore skips a ring's worth past all that was   *)
(* committed), while the ring was not overrun between two commits and the  *)
(* start could reserve its ids.                                            *)
THEOREM NoIdTwice == Spec => []IdsNeverReissued
  <1>1. IInv => IdsNeverReissued
    <2> SUFFICES ASSUME IInv, Up, reserved, count <= writer.last + Size
                 PROVE  count <= RestoredCount(LastCommitted(db))
      BY DEF IdsNeverReissued
    <2>1. writer.last <= db.last /\ db.last <= LastCommitted(db) /\ LastCommitted(db) \in Nat
      BY CommittedLast DEF IInv, Typed, Numbered
    <2>2. writer.last \in Nat /\ db.last \in Nat /\ count \in Nat /\ Size \in Nat
      BY SizeAssumption DEF IInv, Typed, Database, Writers, Ids
    <2>3. QED
      BY <2>1, <2>2 DEF RestoredCount
  <1>2. QED
    BY <1>1, TimelineFitsTogether, PTL

(* An interval nobody watched is in a gap the file holds, or in the one    *)
(* the next start records from LastSeen, wherever the process dies         *)
(* (RecordGap and openCoverage notify the gap before a heartbeat; a commit *)
(* stores both in one transaction).                                        *)
THEOREM BlindnessIsRecorded == Spec => []BlindIsRecorded
  <1>1. IInv => BlindIsRecorded
    BY DEF IInv, Remembered, LetGo, InGap, BlindIsRecorded, Covered
  <1>2. QED
    BY <1>1, TimelineFitsTogether, PTL

(* The rows SQLite counts are the rows it holds, at most a ring's worth    *)
(* once a batch kept them; the ring rises; and an annotation is shown      *)
(* exactly when it is stored, its item with the id its version promised    *)
(* (commitAnnotation; SQLite.Commit).                                      *)
THEOREM StoreStaysSound == Spec => []StoreSound
  <1>1. IInv => StoreSound
    <2> SUFFICES ASSUME IInv PROVE StoreSound
      OBVIOUS
    <2>1. ring \in Seq(Entries) /\ flush \in Batches /\ note \in Notes /\ Database(db)
          /\ coverage \in {0, Len(db.coverage)} /\ now \in Instants
      BY DEF IInv, Typed
    <2>2. ToSet(ring) \subseteq Entries /\ ToSet(flush.entries) \subseteq Entries
      <3>1. flush.entries \in Seq(Entries)
        BY <2>1 DEF Batches
      <3>2. QED
        BY <2>1, <3>1 DEF ToSet
    <2>3. \A i \in 1..(Len(ring) - 1) : ring[i].id < ring[i + 1].id
      <3>1. ASSUME NEW i \in 1..(Len(ring) - 1) PROVE ring[i].id < ring[i + 1].id
        <4>1. i \in 1..Len(ring) /\ i + 1 \in 1..Len(ring) /\ i < i + 1
          BY <2>1
        <4>2. QED
          BY <4>1 DEF IInv, Numbered, Rising
      <3>2. QED
        BY <3>1
    <2>4. coverage \in 0..Len(db.coverage)
      <3>1. Len(db.coverage) \in Nat
        BY <2>1 DEF Database
      <3>2. QED
        BY <2>1, <3>1
    <2>5. TypeOK
      BY <2>1, <2>2, <2>3, <2>4 DEF IInv, Typed, Counted, TypeOK, Database, Batches, Notes, Instants
    <2>6. \A i \in DOMAIN ring : ring[i].kind = "annotation" => ring[i].version = ring[i].id
      <3>1. \A i \in DOMAIN ring : ring[i] \in ToSet(ring)
        BY <2>1 DEF ToSet
      <3>2. QED
        BY <3>1 DEF IInv, Numbered
    <2>7. NotesKept
      BY <2>6 DEF IInv, Noted, NotesKept
    <2>8. QED
      BY <2>5, <2>7 DEF StoreSound
  <1>2. QED
    BY <1>1, TimelineFitsTogether, PTL

=============================================================================
