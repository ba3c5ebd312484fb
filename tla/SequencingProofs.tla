-------------------------- MODULE SequencingProofs --------------------------
(***************************************************************************)
(* Induction, in a form the provers can use, and what it shows about the   *)
(* filter of Sequencing.  The library's induction theorems quantify over   *)
(* an operator; here the property is a set of numbers.                     *)
(***************************************************************************)
EXTENDS Sequencing, WellFoundedInduction, SequenceTheorems, TLAPS

\* Every set of numbers that is not empty has a least element.
LEMMA LeastNatural ==
    ASSUME NEW T, T \subseteq Nat, T # {}
    PROVE  \E n \in T : \A m \in T : n <= m
  <1>1. PICK x \in T : \A y \in T : ~ (<<y, x>> \in OpToRel(<, Nat))
    BY NatLessThanWellFounded, WFMin, Zenon
  <1>2. \A y \in T : ~ (<<y, x>> \in {ss \in Nat \X Nat : ss[1] < ss[2]})
    BY <1>1, Zenon DEF OpToRel
  <1>3. ASSUME NEW y \in T PROVE x <= y
    <2>1. x \in Nat /\ y \in Nat /\ <<y, x>> \in Nat \X Nat
      OBVIOUS
    <2>2. ~ (y < x)
      BY <1>2, <2>1
    <2>3. QED
      BY <2>1, <2>2
  <1>4. QED
    BY <1>3

\* And every bounded one a greatest.
LEMMA GreatestNatural ==
    ASSUME NEW T, T \subseteq Nat, T # {}, NEW b \in Nat, \A n \in T : n <= b
    PROVE  \E n \in T : \A m \in T : m <= n
  <1> DEFINE U == {b - n : n \in T}
  <1>1. U \subseteq Nat /\ U # {}
    <2>1. \A n \in T : b - n \in Nat
      OBVIOUS
    <2>2. QED
      BY <2>1
  <1>2. PICK u \in U : \A m \in U : u <= m
    BY <1>1, LeastNatural
  <1>3. PICK n \in T : u = b - n
    OBVIOUS
  <1>4. ASSUME NEW m \in T PROVE m <= n
    <2>1. b - m \in U /\ m \in Nat /\ n \in Nat
      OBVIOUS
    <2>2. b - n <= b - m
      BY <1>2, <1>3, <2>1
    <2>3. QED
      BY <2>1, <2>2
  <1>5. QED
    BY <1>4

\* Mathematical induction for membership in a set.
LEMMA NatSetInduction ==
    ASSUME NEW S, 0 \in S, \A n \in Nat : n \in S => n + 1 \in S
    PROVE  Nat \subseteq S
  <1> SUFFICES ASSUME Nat \ S # {} PROVE FALSE
    OBVIOUS
  <1>1. PICK n \in Nat \ S : \A m \in Nat \ S : n <= m
    BY LeastNatural
  <1>2. n # 0 /\ n - 1 \in Nat /\ n - 1 \in S
    BY <1>1
  <1>3. QED
    BY <1>2, <1>1

\* The recursion of Sifted has a solution, and it keeps exactly the elements
\* that are not to go: none of them, none added, and no more than there were;
\* the last one stays the last.
THEOREM SiftedKeeps ==
    ASSUME NEW S, NEW s \in Seq(S), NEW C
    PROVE  /\ Sifted(s, C) \in Seq(S)
           /\ Len(Sifted(s, C)) <= Len(s)
           /\ \A i \in DOMAIN Sifted(s, C) :
                 Sifted(s, C)[i] \notin C /\ \E j \in DOMAIN s : s[j] = Sifted(s, C)[i]
           /\ \A j \in DOMAIN s :
                 s[j] \notin C => \E i \in DOMAIN Sifted(s, C) : Sifted(s, C)[i] = s[j]
           /\ s # <<>> /\ s[Len(s)] \notin C =>
                 Sifted(s, C) # <<>> /\ Sifted(s, C)[Len(Sifted(s, C))] = s[Len(s)]
  <1> DEFINE Step(f, i) == IF i = 0 THEN <<>>
                           ELSE IF s[i] \in C THEN f[i - 1]
                           ELSE Append(f[i - 1], s[i])
             Sifts(f, n) == f = [i \in 0..n |-> Step(f, i)]
             F == CHOOSE f : Sifts(f, Len(s))
  <1>0. Len(s) \in Nat
    OBVIOUS
  <1>1. \E f : Sifts(f, Len(s))
    <2> DEFINE D == {n \in Nat : \E f : Sifts(f, n)}
    <2>1. 0 \in D
      <3>1. Sifts([i \in 0..0 |-> <<>>], 0)
        OBVIOUS
      <3>2. QED
        BY <3>1
    <2>2. ASSUME NEW n \in Nat, n \in D PROVE n + 1 \in D
      <3>1. PICK f : Sifts(f, n)
        BY <2>2
      <3> DEFINE g == [i \in 0..(n + 1) |-> IF i <= n THEN f[i] ELSE Step(f, i)]
      <3>2. \A i \in 0..n : g[i] = f[i]
        OBVIOUS
      <3>3. \A i \in 0..(n+1) : Step(g, i) = Step(f, i)
        <4> SUFFICES ASSUME NEW i \in 0..(n+1), i # 0 PROVE g[i-1] = f[i-1]
          OBVIOUS
        <4>1. i - 1 \in 0..n
          OBVIOUS
        <4> QED BY <4>1, <3>2
      <3>4. \A i \in 0..n : f[i] = Step(f, i)
        BY <3>1
      <3>5. \A i \in 0..(n+1) : g[i] = Step(g, i)
        BY <3>2, <3>3, <3>4
      <3> HIDE DEF Step
      <3>6. Sifts(g, n + 1)
        BY <3>5
      <3>7. n + 1 \in Nat
        OBVIOUS
      <3> HIDE DEF g, Sifts
      <3>8. QED
        BY <3>6, <3>7
    <2> HIDE DEF D
    <2>3. Nat \subseteq D
      BY <2>1, <2>2, NatSetInduction
    <2>4. QED
      BY <1>0, <2>3 DEF D
  <1>2. Sifts(F, Len(s))
    BY <1>1, Zenon
  <1>3. Sifted(s, C) = F[Len(s)]
    BY Zenon DEF Sifted
  <1> HIDE DEF F
  <1>4. \A i \in 0..Len(s) : F[i] = Step(F, i)
    BY <1>2
  <1> DEFINE Good(n) ==
              /\ F[n] \in Seq(S)
              /\ Len(F[n]) <= n
              /\ \A i \in 1..Len(F[n]) :
                    F[n][i] \notin C /\ \E j \in 1..n : s[j] = F[n][i]
              /\ \A j \in 1..n :
                    s[j] \notin C => \E i \in 1..Len(F[n]) : F[n][i] = s[j]
             G == {n \in Nat : n <= Len(s) => Good(n)}
  <1>5. 0 \in G
    <2>1. F[0] = <<>>
      BY <1>0, <1>4
    <2>2. Good(0)
      BY <2>1
    <2> HIDE DEF Good
    <2>3. QED
      BY <2>2
  <1>6. ASSUME NEW n \in Nat, n \in G PROVE n + 1 \in G
    <2> HIDE DEF Good
    <2> SUFFICES ASSUME n + 1 <= Len(s) PROVE Good(n + 1)
      OBVIOUS
    <2> USE DEF Good
    <2>1. Good(n) /\ n + 1 \in 1..Len(s) /\ s[n + 1] \in S
      BY <1>6
    <2>2. F[n + 1] = IF s[n + 1] \in C THEN F[n] ELSE Append(F[n], s[n + 1])
      BY <1>4, <2>1
    <2>3. CASE s[n + 1] \in C
      <3>1. F[n + 1] = F[n]
        BY <2>2, <2>3
      <3>2. QED
        BY <2>1, <2>3, <3>1
    <2>4. CASE s[n + 1] \notin C
      <3>1. F[n + 1] = Append(F[n], s[n + 1])
        BY <2>2, <2>4
      <3> DEFINE a == Append(F[n], s[n + 1])
      <3>2. /\ a \in Seq(S) /\ Len(a) = Len(F[n]) + 1 /\ Len(F[n]) \in Nat
            /\ \A i \in 1..Len(F[n]) : a[i] = F[n][i]
            /\ a[Len(F[n]) + 1] = s[n + 1]
        BY <2>1
      <3> HIDE DEF a
      <3>3. \A i \in 1..Len(a) : i \in 1..Len(F[n]) \/ i = Len(F[n]) + 1
        BY <3>2
      <3>4. \A j \in 1..(n + 1) : j \in 1..n \/ j = n + 1
        OBVIOUS
      <3>5. \A i \in 1..Len(a) : a[i] \notin C /\ \E j \in 1..(n + 1) : s[j] = a[i]
        <4>1. ASSUME NEW i \in 1..Len(F[n])
              PROVE  a[i] \notin C /\ \E j \in 1..(n + 1) : s[j] = a[i]
          <5>1. PICK j \in 1..n : s[j] = F[n][i] /\ F[n][i] \notin C
            BY <2>1
          <5>2. j \in 1..(n + 1) /\ a[i] = F[n][i]
            BY <3>2
          <5>3. QED
            BY <5>1, <5>2
        <4>2. a[Len(F[n]) + 1] \notin C
              /\ \E j \in 1..(n + 1) : s[j] = a[Len(F[n]) + 1]
          BY <2>4, <3>2
        <4>3. QED
          BY <3>3, <4>1, <4>2
      <3>6. \A j \in 1..(n + 1) : s[j] \notin C => \E i \in 1..Len(a) : a[i] = s[j]
        <4>1. ASSUME NEW j \in 1..n, s[j] \notin C PROVE \E i \in 1..Len(a) : a[i] = s[j]
          <5>1. PICK i \in 1..Len(F[n]) : F[n][i] = s[j]
            BY <2>1, <4>1
          <5>2. i \in 1..Len(a) /\ a[i] = s[j]
            BY <3>2, <5>1
          <5>3. QED
            BY <5>2
        <4>2. \E i \in 1..Len(a) : a[i] = s[n + 1]
          BY <3>2
        <4>3. QED
          BY <3>4, <4>1, <4>2
      <3>7. Len(a) <= n + 1
        BY <2>1, <3>2
      <3>8. QED
        BY <3>1, <3>2, <3>5, <3>6, <3>7 DEF a
    <2>5. QED
      BY <2>3, <2>4
  <1> HIDE DEF G
  <1>7. Nat \subseteq G
    BY <1>5, <1>6, NatSetInduction
  <1>8. Good(Len(s))
    BY <1>0, <1>7 DEF G
  <1>9. DOMAIN s = 1..Len(s) /\ DOMAIN F[Len(s)] = 1..Len(F[Len(s)])
    BY <1>8
  <1>10. ASSUME s # <<>>, s[Len(s)] \notin C
         PROVE  F[Len(s)] # <<>> /\ F[Len(s)][Len(F[Len(s)])] = s[Len(s)]
    <2>1. Len(s) - 1 \in Nat /\ Len(s) - 1 <= Len(s) /\ Len(s) # 0 /\ s[Len(s)] \in S
      BY <1>10, EmptySeq
    <2>2. F[Len(s)] = Append(F[Len(s) - 1], s[Len(s)])
      <3>1. Len(s) \in 0..Len(s)
        BY <1>0
      <3>2. F[Len(s)] = Step(F, Len(s))
        BY <1>4, <3>1, Zenon
      <3>3. QED
        BY <1>10, <2>1, <3>2
    <2>3. F[Len(s) - 1] \in Seq(S)
      BY <1>7, <2>1 DEF G
    <2>4. QED
      BY <2>1, <2>2, <2>3
  <1>11. QED
    BY <1>3, <1>8, <1>9, <1>10

=============================================================================
