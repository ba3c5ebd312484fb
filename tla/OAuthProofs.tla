---------------------------- MODULE OAuthProofs ----------------------------
(***************************************************************************)
(* Proofs about OAuth, for any number of requests, people, clients, tokens *)
(* and document revisions and any length of a grant's history: however     *)
(* requests, writes of the state file and ends of the process interleave,  *)
(* a grant family has one live token and knows the consumed ones it still  *)
(* remembers, a code stands for a document as a person approved it, and no *)
(* crash takes back what an answer promised.                               *)
(***************************************************************************)
EXTENDS OAuth, SequenceTheorems, TLAPS

Approvals == [key : Keys, meta : Versions]
Waiting == [pc : {"dirty", "snapshot", "rename", "forget", "issue"}, out : SUBSET Nat,
            in : SUBSET Nat, keys : SUBSET Keys, code : Approvals \cup {None}]

Pages == [key : Keys, shown : Versions]

Increasing(h) == \A i, j \in 1..Len(h) : i < j => h[i] < h[j]

(* A family by its members: its history ends with its one live token, and  *)
(* what comes before is what it knows as consumed.                         *)
Members(st) ==
  /\ \A t \in DOMAIN st.tokens :
        LET g == st.tokens[t].grant IN
        /\ g \in DOMAIN st.grants /\ st.grants[g][Len(st.grants[g])] = t
  /\ \A t \in DOMAIN st.consumed :
        LET g == st.consumed[t] IN
        /\ g \in DOMAIN st.grants
        /\ \E i \in 1..(Len(st.grants[g]) - 1) : st.grants[g][i] = t
  /\ \A g \in DOMAIN st.grants :
        LET h == st.grants[g] IN
        /\ h[Len(h)] \in DOMAIN st.tokens /\ st.tokens[h[Len(h)]].grant = g
        /\ \A i \in 1..(Len(h) - 1) : h[i] \in DOMAIN st.consumed /\ st.consumed[h[i]] = g

Stored(st, top) ==
  /\ \A t \in DOMAIN st.tokens : t \in 1..top /\ st.tokens[t] \in [grant : Nat, key : Keys]
  /\ \A t \in DOMAIN st.consumed : t \in 1..top /\ t \notin DOMAIN st.tokens
  /\ \A g \in DOMAIN st.grants : /\ g \in 1..top /\ st.grants[g] \in Seq(Nat)
                                 /\ st.grants[g] # <<>> /\ Increasing(st.grants[g])
  /\ Members(st)

Recorded(records) ==
  \A k \in DOMAIN records : /\ k \in Keys
                            /\ records[k] \in [shown : Versions, lapsed : BOOLEAN]
                            /\ <<k, records[k].shown>> \in approved

Typed ==
  /\ minted \in [tokens : Nat, codes : Nat]
  /\ page \in [Subjects -> Pages \cup {None}]
  /\ req \in [Requests -> {Idle} \cup Waiting]
  /\ writer.by \in Requests \cup {None} /\ DOMAIN writer = {"by", "store", "consent"}
  /\ writer.by = None => writer = NoWriter
  /\ \A r \in Requests : req[r].pc \in {"snapshot", "rename"} <=> writer.by = r
  /\ failed \in BOOLEAN
  /\ forgetting \in [Requests -> SUBSET Keys]

Stores ==
  /\ Stored(store, minted.tokens) /\ Stored(writer.store, minted.tokens)
  /\ Stored(disk.store, minted.tokens)
  /\ held \subseteq 1..minted.tokens /\ retired \subseteq 1..minted.tokens
  /\ \A r \in Requests : req[r] # Idle =>
        req[r].in \subseteq 1..minted.tokens /\ req[r].out \subseteq 1..minted.tokens

Approval ==
  /\ Recorded(consent) /\ Recorded(writer.consent) /\ Recorded(disk.consent)
  /\ \A r \in Requests :
        req[r] # Idle /\ req[r].code # None => <<req[r].code.key, req[r].code.meta>> \in approved
  /\ \A c \in DOMAIN codes : /\ c \in Codes /\ codes[c] \in Approvals
                             /\ <<codes[c].key, codes[c].meta>> \in approved

Purpose ==
  \A r \in Requests :
    /\ req[r].pc = "forget" => req[r].keys # {}
    /\ req[r].pc = "issue" => req[r].code # None
    /\ req[r] # Idle /\ req[r].code # None => req[r].keys = {}
    /\ forgetting[r] # {} => req[r] # Idle /\ req[r].keys = {} /\ req[r].code = None

Withdrawn ==
  /\ retired \cap DOMAIN store.tokens = {}
  /\ retired \cap DOMAIN writer.store.tokens = {}
  /\ retired \cap DOMAIN disk.store.tokens = {}
  /\ \A r \in Requests : req[r] # Idle =>
        /\ req[r].out \cap DOMAIN store.tokens = {}
        /\ req[r].pc # "dirty" => req[r].out \cap DOMAIN writer.store.tokens = {}
        /\ req[r].pc \in {"forget", "issue"} => req[r].out \cap DOMAIN disk.store.tokens = {}

Kept ==
  /\ held \ taken \subseteq DOMAIN store.tokens
  /\ writer.by # None => held \ taken \subseteq DOMAIN writer.store.tokens
  /\ held \ taken \subseteq DOMAIN disk.store.tokens
  /\ \A r \in Requests : req[r] # Idle =>
        /\ req[r].in \ taken \subseteq DOMAIN store.tokens
        /\ req[r].pc # "dirty" /\ writer.by # None =>
              req[r].in \ taken \subseteq DOMAIN writer.store.tokens
        /\ req[r].pc \in {"forget", "issue"} => req[r].in \ taken \subseteq DOMAIN disk.store.tokens

Forgets ==
  /\ forgotten \cap DOMAIN consent = {}
  /\ forgotten \cap DOMAIN writer.consent = {}
  /\ forgotten \cap DOMAIN disk.consent = {}
  /\ \A r \in Requests :
        /\ forgetting[r] \cap DOMAIN consent = {}
        /\ req[r].pc \in {"snapshot", "rename"} => forgetting[r] \cap DOMAIN writer.consent = {}
        /\ req[r].pc \in {"forget", "issue"} => forgetting[r] = {}

Durable == ~ failed => Withdrawn /\ Kept /\ Forgets

IInv == Typed /\ Stores /\ Approval /\ Purpose /\ Durable

----------------------------------------------------------------------------
(* Grant families. *)

LEMMA FamiliesSound ==
    ASSUME NEW st, NEW top, Stored(st, top)
    PROVE  SoundFamilies(st)
  <1>1. ASSUME NEW g \in DOMAIN st.grants
        PROVE  /\ {t \in DOMAIN st.tokens : st.tokens[t].grant = g}
                     = {st.grants[g][Len(st.grants[g])]}
               /\ {t \in DOMAIN st.consumed : st.consumed[t] = g} = Range(Front(st.grants[g]))
    <2> DEFINE h == st.grants[g]
    <2>1. h \in Seq(Nat) /\ h # <<>> /\ Len(h) \in Nat \ {0}
      BY <1>1, EmptySeq DEF Stored
    <2>2. {t \in DOMAIN st.tokens : st.tokens[t].grant = g} = {h[Len(h)]}
      <3>1. h[Len(h)] \in DOMAIN st.tokens /\ st.tokens[h[Len(h)]].grant = g
        BY <1>1 DEF Stored, Members
      <3>2. \A t \in DOMAIN st.tokens : st.tokens[t].grant = g => h[Len(h)] = t
        BY DEF Stored, Members
      <3> HIDE DEF h
      <3>3. QED
        BY <3>1, <3>2
    <2>3. Front(h) = [i \in 1..(Len(h) - 1) |-> h[i]]
      BY <2>1 DEF Front
    <2>4. Range(Front(h)) = {h[i] : i \in 1..(Len(h) - 1)}
      BY <2>3 DEF Range
    <2>5. {t \in DOMAIN st.consumed : st.consumed[t] = g} = {h[i] : i \in 1..(Len(h) - 1)}
      <3>1. \A i \in 1..(Len(h) - 1) : h[i] \in DOMAIN st.consumed /\ st.consumed[h[i]] = g
        BY <1>1 DEF Stored, Members
      <3>2. \A t \in DOMAIN st.consumed :
               st.consumed[t] = g => \E i \in 1..(Len(h) - 1) : h[i] = t
        BY ZenonT(30) DEF Stored, Members
      <3> HIDE DEF h
      <3>3. QED
        BY <3>1, <3>2
    <2>6. QED
      BY <2>2, <2>4, <2>5
  <1>2. /\ \A t \in DOMAIN st.tokens : st.tokens[t].grant \in DOMAIN st.grants
        /\ \A t \in DOMAIN st.consumed : st.consumed[t] \in DOMAIN st.grants
    BY DEF Stored, Members
  <1>3. QED
    BY <1>1, <1>2 DEF SoundFamilies

LEMMA StoredGrows ==
    ASSUME NEW st, NEW top \in Nat, NEW more \in Nat, top <= more, Stored(st, top)
    PROVE  Stored(st, more)
  <1>1. \A i \in 1..top : i \in 1..more
    OBVIOUS
  <1>2. QED
    BY <1>1 DEF Stored

LEMMA NoTokensStored ==
    ASSUME NEW top
    PROVE  Stored(NoTokens, top)
  BY DEF Stored, NoTokens, Empty, Members

(* RefreshTokenStore.Issue starts a family of one. *)
LEMMA IssuedStored ==
    ASSUME minted.tokens \in Nat, Stored(store, minted.tokens), NEW k \in Keys
    PROVE  Stored(Issued(k), NewToken)
  <1> DEFINE n == NewToken
             top == minted.tokens
             st == Issued(k)
  <1>1. n = top + 1 /\ top \in Nat /\ n \notin 1..top /\ \A i \in 1..top : i \in 1..n /\ i # n
    BY DEF NewToken
  <1>2. /\ DOMAIN st.tokens = DOMAIN store.tokens \cup {n}
        /\ DOMAIN st.grants = DOMAIN store.grants \cup {n}
        /\ st.consumed = store.consumed
        /\ st.tokens[n] = [grant |-> n, key |-> k] /\ st.grants[n] = <<n>>
        /\ \A t \in DOMAIN store.tokens \ {n} : st.tokens[t] = store.tokens[t]
        /\ \A g \in DOMAIN store.grants \ {n} : st.grants[g] = store.grants[g]
    BY DEF Issued, With
  <1>3. /\ n \notin DOMAIN store.tokens /\ n \notin DOMAIN store.grants
        /\ n \notin DOMAIN store.consumed
    BY <1>1 DEF Stored
  <1>4. n \in Nat /\ n \in 1..n
    BY <1>1
  <1> HIDE DEF st, n, top
  <1>5. \A t \in DOMAIN st.tokens : t \in 1..n /\ st.tokens[t] \in [grant : Nat, key : Keys]
    BY <1>1, <1>2, <1>4 DEF Stored, top
  <1>6. \A t \in DOMAIN st.consumed : t \in 1..n /\ t \notin DOMAIN st.tokens
    BY <1>1, <1>2, <1>3 DEF Stored, top
  <1>7. \A g \in DOMAIN st.grants : /\ g \in 1..n /\ st.grants[g] \in Seq(Nat)
                                    /\ st.grants[g] # <<>> /\ Increasing(st.grants[g])
    <2>1. <<n>> \in Seq(Nat) /\ <<n>> # <<>> /\ Increasing(<<n>>)
      BY <1>4 DEF Increasing
    <2>2. QED
      BY <1>1, <1>2, <1>4, <2>1 DEF Stored, top
  <1>8. Members(st)
    <2>1. Members(store)
      BY DEF Stored
    <2>2. ASSUME NEW t \in DOMAIN st.tokens
          PROVE  /\ st.tokens[t].grant \in DOMAIN st.grants
                 /\ st.grants[st.tokens[t].grant][Len(st.grants[st.tokens[t].grant])] = t
      <3>1. CASE t = n
        <4>1. st.tokens[t].grant = n /\ st.grants[n] = <<n>> /\ Len(<<n>>) = 1 /\ <<n>>[1] = n
          BY <1>2, <3>1
        <4>2. QED
          BY <1>2, <3>1, <4>1
      <3>2. CASE t # n
        BY SMTT(30), <1>2, <1>3, <2>1, <3>2 DEF Members
      <3>3. QED
        BY <3>1, <3>2
    <2>3. ASSUME NEW t \in DOMAIN st.consumed
          PROVE  /\ st.consumed[t] \in DOMAIN st.grants
                 /\ \E i \in 1..(Len(st.grants[st.consumed[t]]) - 1) : st.grants[st.consumed[t]][i] = t
      <3> DEFINE g == store.consumed[t]
      <3>1. /\ g \in DOMAIN store.grants
            /\ \E i \in 1..(Len(store.grants[g]) - 1) : store.grants[g][i] = t
        BY <1>2, <2>1 DEF Members
      <3>2. st.consumed[t] = g /\ g \in DOMAIN st.grants /\ st.grants[g] = store.grants[g]
        BY <1>2, <1>3, <3>1
      <3>3. QED
        BY <3>1, <3>2
    <2>4. ASSUME NEW g \in DOMAIN st.grants
          PROVE  LET h == st.grants[g] IN
                 /\ h[Len(h)] \in DOMAIN st.tokens /\ st.tokens[h[Len(h)]].grant = g
                 /\ \A i \in 1..(Len(h) - 1) : h[i] \in DOMAIN st.consumed /\ st.consumed[h[i]] = g
      <3>1. CASE g = n
        <4>1. st.grants[g] = <<n>> /\ Len(<<n>>) = 1 /\ <<n>>[1] = n /\ 1..(1 - 1) = {}
          BY <1>2, <3>1
        <4>2. Len(st.grants[g]) = 1 /\ st.grants[g][1] = n /\ 1..(Len(st.grants[g]) - 1) = {}
          BY <4>1
        <4>3. n \in DOMAIN st.tokens /\ st.tokens[n].grant = g
          BY <1>2, <3>1
        <4>4. QED
          BY <4>2, <4>3
      <3>2. CASE g # n
        <4>1. g \in DOMAIN store.grants /\ st.grants[g] = store.grants[g]
          BY <1>2, <3>2
        <4> DEFINE h == store.grants[g]
        <4>2. /\ h[Len(h)] \in DOMAIN store.tokens /\ store.tokens[h[Len(h)]].grant = g
              /\ \A i \in 1..(Len(h) - 1) :
                    h[i] \in DOMAIN store.consumed /\ store.consumed[h[i]] = g
          BY <2>1, <4>1 DEF Members
        <4>3. st.tokens[h[Len(h)]] = store.tokens[h[Len(h)]]
          BY <1>2, <1>3, <4>2
        <4>4. QED
          BY <1>2, <4>1, <4>2, <4>3
      <3>3. QED
        BY <3>1, <3>2
    <2>5. QED
      BY <2>2, <2>3, <2>4 DEF Members
  <1>9. QED
    BY <1>5, <1>6, <1>7, <1>8 DEF Stored, st, n

(* Families dropped as a whole leave the others as they were. *)
LEMMA KeptStored ==
    ASSUME NEW st, NEW su, NEW top, Stored(st, top), NEW kept \in SUBSET DOMAIN st.grants,
           DOMAIN su.tokens = {t \in DOMAIN st.tokens : st.tokens[t].grant \in kept},
           DOMAIN su.consumed = {t \in DOMAIN st.consumed : st.consumed[t] \in kept},
           DOMAIN su.grants = kept,
           \A t \in DOMAIN su.tokens : su.tokens[t] = st.tokens[t],
           \A t \in DOMAIN su.consumed : su.consumed[t] = st.consumed[t],
           \A g \in kept : su.grants[g] = st.grants[g]
    PROVE  Stored(su, top)
  <1>1. /\ \A t \in DOMAIN su.tokens : t \in 1..top /\ su.tokens[t] \in [grant : Nat, key : Keys]
        /\ \A t \in DOMAIN su.consumed : t \in 1..top /\ t \notin DOMAIN su.tokens
        /\ \A g \in DOMAIN su.grants : /\ g \in 1..top /\ su.grants[g] \in Seq(Nat)
                                       /\ su.grants[g] # <<>> /\ Increasing(su.grants[g])
    BY DEF Stored
  <1>2. Members(st)
    BY DEF Stored
  <1>3. ASSUME NEW t \in DOMAIN su.tokens
        PROVE  LET g == su.tokens[t].grant IN
               g \in DOMAIN su.grants /\ su.grants[g][Len(su.grants[g])] = t
    <2> DEFINE g == st.tokens[t].grant
    <2>1. su.tokens[t] = st.tokens[t] /\ g \in kept /\ su.grants[g] = st.grants[g]
      OBVIOUS
    <2>2. st.grants[g][Len(st.grants[g])] = t
      BY <1>2 DEF Members
    <2>3. QED
      BY <2>1, <2>2
  <1>4. ASSUME NEW t \in DOMAIN su.consumed
        PROVE  LET g == su.consumed[t] IN
               g \in DOMAIN su.grants /\ \E i \in 1..(Len(su.grants[g]) - 1) : su.grants[g][i] = t
    <2> DEFINE g == st.consumed[t]
    <2>1. su.consumed[t] = g /\ g \in kept /\ su.grants[g] = st.grants[g]
      OBVIOUS
    <2>2. \E i \in 1..(Len(st.grants[g]) - 1) : st.grants[g][i] = t
      BY <1>2 DEF Members
    <2>3. QED
      BY <2>1, <2>2
  <1>5. ASSUME NEW g \in DOMAIN su.grants
        PROVE  LET h == su.grants[g] IN
               /\ h[Len(h)] \in DOMAIN su.tokens /\ su.tokens[h[Len(h)]].grant = g
               /\ \A i \in 1..(Len(h) - 1) : h[i] \in DOMAIN su.consumed /\ su.consumed[h[i]] = g
    <2> DEFINE h == st.grants[g]
    <2>1. su.grants[g] = h /\ g \in kept
      OBVIOUS
    <2>2. /\ h[Len(h)] \in DOMAIN st.tokens /\ st.tokens[h[Len(h)]].grant = g
          /\ \A i \in 1..(Len(h) - 1) : h[i] \in DOMAIN st.consumed /\ st.consumed[h[i]] = g
      BY <1>2 DEF Members
    <2> HIDE DEF h
    <2>3. /\ h[Len(h)] \in DOMAIN su.tokens
          /\ \A i \in 1..(Len(h) - 1) : h[i] \in DOMAIN su.consumed
      BY <2>1, <2>2
    <2>4. QED
      BY <2>1, <2>2, <2>3
  <1>6. Members(su)
    BY <1>3, <1>4, <1>5 DEF Members
  <1>7. QED
    BY <1>1, <1>6 DEF Stored

(* revokeGrantLocked. *)
LEMMA RevokedStored ==
    ASSUME NEW st, NEW top, Stored(st, top), NEW gs \in SUBSET DOMAIN st.grants
    PROVE  Stored(Revoked(st, gs), top)
  <1> DEFINE su == Revoked(st, gs)
             hashes == UNION {Range(st.grants[g]) : g \in gs}
             kept == DOMAIN st.grants \ gs
  <1>1. ASSUME NEW t
        PROVE  t \in hashes <=> \E g \in gs : \E i \in 1..Len(st.grants[g]) : st.grants[g][i] = t
    <2>1. \A g \in gs : DOMAIN st.grants[g] = 1..Len(st.grants[g])
      BY DEF Stored
    <2>2. QED
      BY <2>1 DEF Range
  <1>2. /\ su.tokens = [x \in DOMAIN st.tokens \ hashes |-> st.tokens[x]]
        /\ su.consumed = [x \in DOMAIN st.consumed \ hashes |-> st.consumed[x]]
        /\ su.grants = [x \in kept |-> st.grants[x]]
    BY DEF Revoked, Without
  <1>3. Members(st) /\ \A t \in DOMAIN st.consumed : t \notin DOMAIN st.tokens
    BY DEF Stored
  <1>4. ASSUME NEW g \in gs, NEW i \in 1..Len(st.grants[g])
        PROVE  \/ st.grants[g][i] \in DOMAIN st.tokens /\ st.tokens[st.grants[g][i]].grant = g
               \/ st.grants[g][i] \in DOMAIN st.consumed /\ st.consumed[st.grants[g][i]] = g
    <2>1. Len(st.grants[g]) \in Nat
      BY DEF Stored
    <2>2. i = Len(st.grants[g]) \/ i \in 1..(Len(st.grants[g]) - 1)
      BY <2>1
    <2>3. CASE i = Len(st.grants[g])
      BY <1>3, <2>3 DEF Members
    <2>4. CASE i \in 1..(Len(st.grants[g]) - 1)
      BY <1>3, <2>4 DEF Members
    <2>5. QED
      BY <2>2, <2>3, <2>4
  <1>5. ASSUME NEW t \in DOMAIN st.tokens
        PROVE  t \in hashes <=> st.tokens[t].grant \in gs
    <2>1. ASSUME t \in hashes PROVE st.tokens[t].grant \in gs
      <3>1. PICK g \in gs : \E i \in 1..Len(st.grants[g]) : st.grants[g][i] = t
        BY <1>1, <2>1
      <3>2. QED
        BY <1>3, <1>4, <3>1
    <2>2. ASSUME st.tokens[t].grant \in gs PROVE t \in hashes
      <3> DEFINE g == st.tokens[t].grant
      <3>1. st.grants[g][Len(st.grants[g])] = t
        BY <1>3 DEF Members
      <3>2. Len(st.grants[g]) \in 1..Len(st.grants[g])
        BY <2>2, EmptySeq DEF Stored
      <3>3. QED
        BY <1>1, <2>2, <3>1, <3>2
    <2>3. QED
      BY <2>1, <2>2
  <1>6. ASSUME NEW t \in DOMAIN st.consumed
        PROVE  t \in hashes <=> st.consumed[t] \in gs
    <2>1. ASSUME t \in hashes PROVE st.consumed[t] \in gs
      <3>1. PICK g \in gs : \E i \in 1..Len(st.grants[g]) : st.grants[g][i] = t
        BY <1>1, <2>1
      <3>2. QED
        BY <1>3, <1>4, <3>1
    <2>2. ASSUME st.consumed[t] \in gs PROVE t \in hashes
      <3> DEFINE g == st.consumed[t]
      <3>1. PICK i \in 1..(Len(st.grants[g]) - 1) : st.grants[g][i] = t
        BY <1>3 DEF Members
      <3>2. Len(st.grants[g]) \in Nat
        BY <2>2 DEF Stored
      <3>3. i \in 1..Len(st.grants[g])
        BY <3>2
      <3>4. QED
        BY <1>1, <2>2, <3>1, <3>3
    <2>3. QED
      BY <2>1, <2>2
  <1>7. /\ \A t \in DOMAIN st.tokens : st.tokens[t].grant \in DOMAIN st.grants
        /\ \A t \in DOMAIN st.consumed : st.consumed[t] \in DOMAIN st.grants
    BY <1>3 DEF Members
  <1> HIDE DEF su, hashes
  <1>8. /\ DOMAIN su.tokens = {t \in DOMAIN st.tokens : st.tokens[t].grant \in kept}
        /\ DOMAIN su.consumed = {t \in DOMAIN st.consumed : st.consumed[t] \in kept}
        /\ DOMAIN su.grants = kept
        /\ \A t \in DOMAIN su.tokens : su.tokens[t] = st.tokens[t]
        /\ \A t \in DOMAIN su.consumed : su.consumed[t] = st.consumed[t]
        /\ \A g \in kept : su.grants[g] = st.grants[g]
    BY <1>2, <1>5, <1>6, <1>7
  <1>9. kept \in SUBSET DOMAIN st.grants
    OBVIOUS
  <1> HIDE DEF kept
  <1>10. QED
    BY <1>8, <1>9, KeptStored DEF su

(* RefreshTokenStore.Restore. *)
LEMMA RestoredStored ==
    ASSUME NEW snap, NEW top, Stored(snap, top)
    PROVE  Stored(RestoredTokens(snap), top)
  <1> DEFINE su == RestoredTokens(snap)
             live == {t \in DOMAIN snap.tokens : snap.tokens[t].grant \notin lapsed}
             gs == {snap.tokens[t].grant : t \in live}
             kept == DOMAIN snap.grants \cap gs
  <1>1. Members(snap)
    BY DEF Stored
  <1>2. /\ su.tokens = [t \in live |-> snap.tokens[t]]
        /\ su.consumed = [t \in {u \in DOMAIN snap.consumed : snap.consumed[u] \in gs} |->
                             snap.consumed[t]]
        /\ su.grants = [g \in kept |-> snap.grants[g]]
    BY DEF RestoredTokens
  <1>3. /\ \A t \in DOMAIN snap.tokens : snap.tokens[t].grant \in DOMAIN snap.grants
        /\ \A t \in DOMAIN snap.consumed : snap.consumed[t] \in DOMAIN snap.grants
    BY <1>1 DEF Members
  <1>4. \A t \in DOMAIN snap.tokens : t \in live <=> snap.tokens[t].grant \in kept
    BY <1>3
  <1>5. \A t \in DOMAIN snap.consumed : snap.consumed[t] \in gs <=> snap.consumed[t] \in kept
    BY <1>3
  <1>6. kept \in SUBSET DOMAIN snap.grants /\ live \subseteq DOMAIN snap.tokens
    OBVIOUS
  <1> HIDE DEF su, kept, gs, live
  <1>7. /\ DOMAIN su.tokens = {t \in DOMAIN snap.tokens : snap.tokens[t].grant \in kept}
        /\ DOMAIN su.consumed = {t \in DOMAIN snap.consumed : snap.consumed[t] \in kept}
        /\ DOMAIN su.grants = kept
        /\ \A t \in DOMAIN su.tokens : su.tokens[t] = snap.tokens[t]
        /\ \A t \in DOMAIN su.consumed : su.consumed[t] = snap.consumed[t]
        /\ \A g \in kept : su.grants[g] = snap.grants[g]
    BY <1>2, <1>4, <1>5, <1>6
  <1>8. QED
    BY <1>6, <1>7, KeptStored DEF su

(* RefreshTokenStore.rotate: the live token becomes the newest consumed    *)
(* one, and the history forgets its oldest hashes.  Its elements ascend,   *)
(* so what is forgotten is nowhere else.                                   *)
LEMMA RotatedStored ==
    ASSUME minted.tokens \in Nat, Stored(store, minted.tokens), NEW t \in DOMAIN store.tokens
    PROVE  Stored(Rotated(t), NewToken)
  <1> DEFINE n == NewToken
             top == minted.tokens
             st == store
             su == Rotated(t)
             g == store.tokens[t].grant
             h == store.grants[g]
             L == Len(h)
             hashes == Append(h, n)
             o == IF Len(hashes) > HistorySize THEN Len(hashes) - HistorySize ELSE 0
             dropped == Range(SubSeq(hashes, 1, o))
             w == With(store.consumed, t, g)
             h2 == SubSeq(hashes, o + 1, Len(hashes))
  <1>1. n = top + 1 /\ top \in Nat /\ n \in Nat /\ n \notin 1..top
        /\ \A i \in 1..top : i \in 1..n /\ i < n
    BY DEF NewToken
  <1>2. /\ \A x \in DOMAIN st.tokens : x \in 1..top /\ st.tokens[x] \in [grant : Nat, key : Keys]
        /\ \A x \in DOMAIN st.consumed : x \in 1..top /\ x \notin DOMAIN st.tokens
        /\ \A x \in DOMAIN st.grants : /\ x \in 1..top /\ st.grants[x] \in Seq(Nat)
                                       /\ st.grants[x] # <<>> /\ Increasing(st.grants[x])
        /\ Members(st)
    BY DEF Stored
  <1>3. g \in DOMAIN st.grants /\ h[L] = t /\ st.grants[g] = h /\ st.tokens[t].grant = g
    BY <1>2 DEF Members
  <1>4. h \in Seq(Nat) /\ h # <<>> /\ L \in Nat /\ L >= 1 /\ Increasing(h)
    BY <1>2, <1>3, EmptySeq
  <1>5. /\ hashes \in Seq(Nat) /\ Len(hashes) = L + 1 /\ hashes[L + 1] = n
        /\ \A i \in 1..L : hashes[i] = h[i]
    <2> HIDE DEF n, top, h
    <2>1. h \in Seq(Nat) /\ n \in Nat
      BY <1>1, <1>4
    <2>2. QED
      BY <2>1, AppendProperties
  <1>6. o \in Nat /\ o <= L
    <2> HIDE DEF hashes, L
    <2>1. Len(hashes) = L + 1 /\ L \in Nat /\ L >= 1 /\ HistorySize \in Nat /\ HistorySize >= 1
      BY <1>4, <1>5, OAuthAssumption DEF OAuthAssumption
    <2>2. QED
      BY SMTT(30), <2>1
  <1>7. su.tokens = With(Without(st.tokens, {t}), n, st.tokens[t])
        /\ su.consumed = Without(w, dropped) /\ su.grants = [st.grants EXCEPT ![g] = h2]
    BY DEF Rotated
  <1>8. /\ DOMAIN w = DOMAIN st.consumed \cup {t} /\ w[t] = g
        /\ \A x \in DOMAIN st.consumed \ {t} : w[x] = st.consumed[x]
    BY DEF With
  <1>9. /\ DOMAIN su.tokens = (DOMAIN st.tokens \ {t}) \cup {n} /\ su.tokens[n] = st.tokens[t]
        /\ \A x \in DOMAIN st.tokens \ {t, n} : su.tokens[x] = st.tokens[x]
    BY <1>7 DEF With, Without
  <1>10. /\ DOMAIN su.consumed = DOMAIN w \ dropped
         /\ \A x \in DOMAIN su.consumed : su.consumed[x] = w[x]
    BY <1>7 DEF Without
  <1>11. /\ DOMAIN su.grants = DOMAIN st.grants /\ su.grants[g] = h2
         /\ \A x \in DOMAIN st.grants \ {g} : su.grants[x] = st.grants[x]
    BY <1>3, <1>7
  <1>12. t \notin DOMAIN st.consumed /\ n \notin DOMAIN st.tokens /\ n \notin DOMAIN st.consumed
         /\ t # n /\ t \in 1..top
    BY <1>1, <1>2
  <1> HIDE DEF w, su
  <1>13. /\ h2 \in Seq(Nat) /\ Len(h2) = L + 1 - o
         /\ \A i \in 1..(L + 1 - o) : h2[i] = hashes[o + i]
    <2> HIDE DEF hashes, o
    <2>1. \A i \in (o + 1)..(L + 1) : hashes[i] \in Nat
      <3> HIDE DEF L
      <3>1. hashes \in Seq(Nat) /\ Len(hashes) = L + 1 /\ L \in Nat /\ o \in Nat
        BY <1>4, <1>5, <1>6
      <3>2. QED
        BY SMTT(30), <3>1
    <2>2. o + 1 \in Int /\ L + 1 \in Int /\ Len(hashes) = L + 1 /\ o <= L /\ o \in Nat /\ L \in Nat
      BY <1>4, <1>5, <1>6
    <2>3. /\ h2 \in Seq(Nat)
          /\ Len(h2) = IF o + 1 <= L + 1 THEN (L + 1) - (o + 1) + 1 ELSE 0
          /\ \A i \in 1..((L + 1) - (o + 1) + 1) : h2[i] = hashes[(o + 1) + i - 1]
      <3> HIDE DEF L
      <3>1. QED
        BY <2>1, <2>2, SubSeqProperties
    <2> HIDE DEF h2, L
    <2>4. (L + 1) - (o + 1) + 1 = L + 1 - o /\ \A i \in Int : (o + 1) + i - 1 = o + i
      BY SMTT(30), <2>2
    <2>5. QED
      BY SMTT(30), <2>2, <2>3, <2>4
  <1>14. \A x : x \in dropped <=> \E i \in 1..o : hashes[i] = x
    <2> HIDE DEF hashes, o
    <2> DEFINE d == SubSeq(hashes, 1, o)
    <2>1. o <= Len(hashes) /\ \A i \in 1..o : hashes[i] \in Nat
      <3> HIDE DEF L
      <3>1. hashes \in Seq(Nat) /\ Len(hashes) = L + 1 /\ L \in Nat /\ o \in Nat /\ o <= L
        BY <1>4, <1>5, <1>6
      <3>2. QED
        BY SMTT(30), <3>1
    <2>2. d = [i \in 1..o |-> hashes[i]]
      BY <1>4, <1>5, <1>6, <2>1
    <2>3. Range(d) = {hashes[i] : i \in 1..o}
      BY <2>2 DEF Range
    <2>4. QED
      BY <2>3
  <1> HIDE DEF hashes, o, dropped, h2, L
  <1>15. \A i \in 1..L : hashes[i] \in DOMAIN w /\ w[hashes[i]] = g
    <2>1. ASSUME NEW i \in 1..L PROVE hashes[i] \in DOMAIN w /\ w[hashes[i]] = g
      <3>1. CASE i = L
        BY <1>3, <1>5, <1>8, <2>1, <3>1
      <3>2. CASE i # L
        <4>1. i \in 1..(L - 1)
          BY <1>4, <3>2
        <4>2. h[i] \in DOMAIN st.consumed /\ st.consumed[h[i]] = g
          BY <1>2, <1>3, <4>1 DEF Members, L
        <4>3. QED
          BY <1>5, <1>8, <1>12, <4>2
      <3>3. QED
        BY <3>1, <3>2
    <2>2. QED
      BY <2>1
  <1>16. \A x \in dropped : x \in DOMAIN w /\ w[x] = g
    BY <1>4, <1>6, <1>14, <1>15
  <1>17. \A x \in DOMAIN w : w[x] = g => \E i \in 1..L : hashes[i] = x
    <2>1. ASSUME NEW x \in DOMAIN w, w[x] = g PROVE \E i \in 1..L : hashes[i] = x
      <3>1. CASE x = t
        <4>1. L \in 1..L /\ hashes[L] = t
          BY <1>3, <1>4, <1>5
        <4>2. QED
          BY <3>1, <4>1
      <3>2. CASE x # t
        <4>1. x \in DOMAIN st.consumed /\ st.consumed[x] = g
          BY <1>8, <2>1, <3>2
        <4>2. PICK i \in 1..(L - 1) : h[i] = x
          <5>1. \E i \in 1..(Len(st.grants[st.consumed[x]]) - 1) :
                   st.grants[st.consumed[x]][i] = x
            BY <1>2, <4>1 DEF Members
          <5>2. QED
            BY <1>3, <4>1, <5>1 DEF L
        <4>3. i \in 1..L
          BY <1>4
        <4>4. QED
          BY <1>5, <4>2, <4>3
      <3>3. QED
        BY <3>1, <3>2
    <2>2. QED
      BY <2>1
  <1>18. \A i, j \in 1..(L + 1) : i < j => hashes[i] < hashes[j]
    <2>1. ASSUME NEW i \in 1..(L + 1), NEW j \in 1..(L + 1), i < j PROVE hashes[i] < hashes[j]
      <3>1. CASE j = L + 1
        <4>1. i \in 1..L
          BY <1>4, <2>1
        <4>2. hashes[i] \in DOMAIN w
          BY <1>15, <4>1
        <4>3. hashes[i] \in 1..top
          BY <1>2, <1>8, <1>12, <4>2
        <4>4. QED
          BY <1>1, <1>5, <3>1, <4>3
      <3>2. CASE j # L + 1
        <4>1. i \in 1..L /\ j \in 1..L
          BY <1>4, <2>1, <3>2
        <4>2. h[i] < h[j]
          BY <1>4, <2>1, <4>1 DEF Increasing, L
        <4>3. QED
          BY <1>5, <4>1, <4>2
      <3>3. QED
        BY <3>1, <3>2
    <2>2. QED
      BY <2>1
  <1>19. \A x \in DOMAIN su.tokens : x \in 1..n /\ su.tokens[x] \in [grant : Nat, key : Keys]
    BY <1>1, <1>2, <1>9
  <1>20. \A x \in DOMAIN su.consumed : x \in 1..n /\ x \notin DOMAIN su.tokens
    BY <1>1, <1>2, <1>8, <1>9, <1>10, <1>12
  <1>21. h2 # <<>> /\ Increasing(h2)
    <2>1. Len(h2) >= 1 /\ Len(<<>>) = 0
      BY <1>4, <1>6, <1>13
    <2>2. ASSUME NEW i \in 1..Len(h2), NEW j \in 1..Len(h2), i < j PROVE h2[i] < h2[j]
      <3>1. o + i \in 1..(L + 1) /\ o + j \in 1..(L + 1) /\ o + i < o + j
        BY <1>4, <1>6, <1>13, <2>2
      <3>2. hashes[o + i] < hashes[o + j]
        BY <1>18, <3>1
      <3>3. QED
        BY <1>13, <3>2
    <2>3. QED
      BY <2>1, <2>2 DEF Increasing
  <1>22. \A x \in DOMAIN su.grants : /\ x \in 1..n /\ su.grants[x] \in Seq(Nat)
                                     /\ su.grants[x] # <<>> /\ Increasing(su.grants[x])
    BY <1>1, <1>2, <1>11, <1>13, <1>21
  <1>23. Len(h2) - 1 = L - o /\ h2[Len(h2)] = n
         /\ \A i \in 1..(L - o) : h2[i] = hashes[o + i] /\ o + i \in 1..L
    <2>1. L \in Nat /\ o \in Nat /\ o <= L
      BY <1>4, <1>6
    <2>2. Len(h2) - 1 = L - o
      BY <1>13, <2>1
    <2>3. h2[Len(h2)] = n
      <3>1. Len(h2) = L + 1 - o /\ L + 1 - o \in 1..(L + 1 - o) /\ o + (L + 1 - o) = L + 1
        BY <1>13, <2>1
      <3>2. h2[L + 1 - o] = hashes[o + (L + 1 - o)]
        BY <1>13, <3>1
      <3>3. QED
        BY <1>5, <3>1, <3>2
    <2>4. ASSUME NEW i \in 1..(L - o) PROVE h2[i] = hashes[o + i] /\ o + i \in 1..L
      <3>1. i \in 1..(L + 1 - o) /\ o + i \in 1..L
        BY <2>1
      <3>2. QED
        BY <1>13, <3>1
    <2>5. QED
      BY <2>2, <2>3, <2>4
  <1>24. ASSUME NEW x \in DOMAIN su.tokens
         PROVE  /\ su.tokens[x].grant \in DOMAIN su.grants
                /\ su.grants[su.tokens[x].grant][Len(su.grants[su.tokens[x].grant])] = x
    <2>1. CASE x = n
      <3>1. su.tokens[x].grant = g /\ su.grants[g] = h2
        BY <1>3, <1>9, <1>11, <2>1
      <3>2. QED
        BY <1>3, <1>11, <1>23, <2>1, <3>1
    <2>2. CASE x # n
      <3> DEFINE f == st.tokens[x].grant
      <3>1. x \in DOMAIN st.tokens /\ x # t /\ su.tokens[x] = st.tokens[x]
        BY <1>9, <2>2
      <3>2. f \in DOMAIN st.grants /\ st.grants[f][Len(st.grants[f])] = x
        BY <1>2, <3>1 DEF Members
      <3>3. f # g
        BY <1>3, <3>1, <3>2 DEF L
      <3>4. su.grants[f] = st.grants[f] /\ f \in DOMAIN su.grants
        BY <1>11, <3>2, <3>3
      <3>5. QED
        BY <3>1, <3>2, <3>4
    <2>3. QED
      BY <2>1, <2>2
  <1>25. ASSUME NEW x \in DOMAIN su.consumed
         PROVE  /\ su.consumed[x] \in DOMAIN su.grants
                /\ \E i \in 1..(Len(su.grants[su.consumed[x]]) - 1) : su.grants[su.consumed[x]][i] = x
    <2>0. x \in DOMAIN w /\ x \notin dropped /\ su.consumed[x] = w[x]
      BY <1>10
    <2>1. CASE w[x] = g
      <3>1. PICK i \in 1..L : hashes[i] = x
        BY <1>17, <2>0, <2>1
      <3>2. i \notin 1..o
        BY <1>14, <2>0, <3>1
      <3>3. i - o \in 1..(L - o) /\ o + (i - o) = i
        BY <1>4, <1>6, <3>2
      <3>4. h2[i - o] = x
        BY <1>23, <3>1, <3>3
      <3>5. QED
        BY <1>3, <1>11, <1>23, <2>0, <2>1, <3>3, <3>4
    <2>2. CASE w[x] # g
      <3> DEFINE f == st.consumed[x]
      <3>1. x \in DOMAIN st.consumed /\ w[x] = f
        BY <1>8, <2>0, <2>2
      <3>2. f \in DOMAIN st.grants /\ \E i \in 1..(Len(st.grants[f]) - 1) : st.grants[f][i] = x
        BY <1>2, <3>1 DEF Members
      <3>3. su.grants[f] = st.grants[f]
        BY <1>11, <2>2, <3>1, <3>2
      <3>4. QED
        BY <1>11, <2>0, <3>1, <3>2, <3>3
    <2>3. QED
      BY <2>1, <2>2
  <1>26. ASSUME NEW f \in DOMAIN su.grants
         PROVE  LET k == su.grants[f] IN
                /\ k[Len(k)] \in DOMAIN su.tokens /\ su.tokens[k[Len(k)]].grant = f
                /\ \A i \in 1..(Len(k) - 1) : k[i] \in DOMAIN su.consumed /\ su.consumed[k[i]] = f
    <2>1. CASE f = g
      <3>1. n \in DOMAIN su.tokens /\ su.tokens[n].grant = g
        BY <1>3, <1>9
      <3>2. ASSUME NEW i \in 1..(L - o)
            PROVE  hashes[o + i] \in DOMAIN su.consumed /\ su.consumed[hashes[o + i]] = g
        <4>1. o + i \in 1..L
          BY <1>23
        <4>2. hashes[o + i] \notin dropped
          <5>1. SUFFICES ASSUME NEW j \in 1..o, hashes[j] = hashes[o + i] PROVE FALSE
            BY <1>14
          <5>2. j \in 1..(L + 1) /\ o + i \in 1..(L + 1) /\ j < o + i
            BY <1>4, <1>6, <4>1
          <5>3. hashes[j] < hashes[o + i] /\ hashes[j] \in Nat
            BY <1>5, <1>18, <5>2
          <5>4. QED
            BY <5>1, <5>3
        <4>3. QED
          BY <1>10, <1>15, <4>1, <4>2
      <3>3. \A i \in 1..(Len(h2) - 1) : h2[i] \in DOMAIN su.consumed /\ su.consumed[h2[i]] = g
        BY <1>23, <3>2
      <3>4. QED
        BY <1>11, <1>23, <2>1, <3>1, <3>3
    <2>2. CASE f # g
      <3> DEFINE k == st.grants[f]
      <3>1. su.grants[f] = k /\ f \in DOMAIN st.grants
        BY <1>11, <2>2
      <3>2. /\ k[Len(k)] \in DOMAIN st.tokens /\ st.tokens[k[Len(k)]].grant = f
            /\ \A i \in 1..(Len(k) - 1) : k[i] \in DOMAIN st.consumed /\ st.consumed[k[i]] = f
        BY <1>2, <3>1 DEF Members
      <3> HIDE DEF k
      <3>3. k[Len(k)] \in DOMAIN su.tokens /\ su.tokens[k[Len(k)]].grant = f
        BY <1>3, <1>9, <1>12, <2>2, <3>2
      <3>4. ASSUME NEW i \in 1..(Len(k) - 1)
            PROVE  k[i] \in DOMAIN su.consumed /\ su.consumed[k[i]] = f
        <4>1. k[i] \in DOMAIN w /\ w[k[i]] = f
          BY <1>8, <1>12, <3>2
        <4>2. QED
          BY <1>10, <1>16, <2>2, <4>1
      <3>5. QED
        BY <3>1, <3>3, <3>4
    <2>3. QED
      BY <2>1, <2>2
  <1>27. Members(su)
    BY <1>24, <1>25, <1>26 DEF Members
  <1>28. QED
    BY <1>19, <1>20, <1>22, <1>27 DEF Stored, su, n

----------------------------------------------------------------------------
(* Requests. *)

LEMMA WaitingShape ==
    /\ Idle.pc = "idle"
    /\ \A q \in Waiting : /\ q # Idle /\ q.pc # "idle" /\ q.out \subseteq Nat /\ q.in \subseteq Nat
                          /\ q.keys \subseteq Keys /\ (q.code # None => q.code \in Approvals)
                          /\ q.pc \in {"dirty", "snapshot", "rename", "forget", "issue"}
    /\ None \notin Requests
  <1>1. Idle.pc = "idle"
    BY DEF Idle
  <1>2. ASSUME NEW q \in Waiting
        PROVE  /\ q.pc # "idle" /\ q.out \subseteq Nat /\ q.in \subseteq Nat
               /\ q.keys \subseteq Keys /\ (q.code # None => q.code \in Approvals)
               /\ q.pc \in {"dirty", "snapshot", "rename", "forget", "issue"}
    BY DEF Waiting
  <1>3. QED
    BY <1>1, <1>2, OAuthAssumption DEF OAuthAssumption

LEMMA PcShape ==
    ASSUME NEW q \in Waiting, NEW pc \in {"dirty", "snapshot", "rename", "forget", "issue"}
    PROVE  /\ [q EXCEPT !.pc = pc] \in Waiting
           /\ LET s == [q EXCEPT !.pc = pc] IN
              /\ s.pc = pc /\ s.out = q.out /\ s.in = q.in /\ s.keys = q.keys /\ s.code = q.code
  BY DEF Waiting

(* A request that starts on a change of a store. *)
LEMMA DirtyShape ==
    ASSUME NEW out \in SUBSET Nat, NEW in \in SUBSET Nat, NEW keys \in SUBSET Keys,
           NEW code \in Approvals \cup {None}
    PROVE  LET q == [pc |-> "dirty", out |-> out, in |-> in, keys |-> keys, code |-> code] IN
           /\ q \in Waiting
           /\ q.pc = "dirty" /\ q.out = out /\ q.in = in /\ q.keys = keys /\ q.code = code
  BY DEF Waiting

LEMMA AfterWriteShape ==
    ASSUME NEW q \in Waiting
    PROVE  LET a == AfterWrite(q) IN
           /\ a = Idle <=> q.keys = {} /\ q.code = None
           /\ a # Idle => /\ a \in Waiting /\ a.out = q.out /\ a.in = q.in
                          /\ a.keys = q.keys /\ a.code = q.code
                          /\ a.pc = IF q.keys # {} THEN "forget" ELSE "issue"
  <1>1. CASE q.keys # {}
    <2> DEFINE s == [q EXCEPT !.pc = "forget"]
    <2>1. AfterWrite(q) = s
      BY <1>1 DEF AfterWrite
    <2>2. /\ s \in Waiting /\ s.pc = "forget" /\ s.out = q.out /\ s.in = q.in
          /\ s.keys = q.keys /\ s.code = q.code
      BY PcShape
    <2>3. s # Idle
      BY <2>2, WaitingShape
    <2> HIDE DEF s
    <2>4. QED
      BY <1>1, <2>1, <2>2, <2>3
  <1>2. CASE q.keys = {} /\ q.code # None
    <2> DEFINE s == [q EXCEPT !.pc = "issue"]
    <2>1. AfterWrite(q) = s
      BY <1>2 DEF AfterWrite
    <2>2. /\ s \in Waiting /\ s.pc = "issue" /\ s.out = q.out /\ s.in = q.in
          /\ s.keys = q.keys /\ s.code = q.code
      BY PcShape
    <2>3. s # Idle
      BY <2>2, WaitingShape
    <2> HIDE DEF s
    <2>4. QED
      BY <1>2, <2>1, <2>2, <2>3
  <1>3. CASE q.keys = {} /\ q.code = None
    BY <1>3 DEF AfterWrite
  <1>4. QED
    BY <1>1, <1>2, <1>3

LEMMA OneRequest ==
    ASSUME IInv, NEW r \in Requests, NEW q \in {Idle} \cup Waiting, req' = [req EXCEPT ![r] = q]
    PROVE  /\ req' \in [Requests -> {Idle} \cup Waiting] /\ req'[r] = q
           /\ \A p \in Requests \ {r} : req'[p] = req[p]
  BY DEF IInv, Typed

(* Steps that change no store, no request and no file. *)
LEMMA SteadyKeeps ==
    ASSUME IInv, UNCHANGED <<req, store, disk, writer, failed, held, retired, taken,
                             forgotten, forgetting>>,
           minted' \in [tokens : Nat, codes : Nat], minted'.tokens = minted.tokens,
           page' \in [Subjects -> Pages \cup {None}],
           DOMAIN consent' = DOMAIN consent
    PROVE  Typed' /\ Stores' /\ Purpose' /\ Durable'
  <1>1. Typed'
    BY DEF IInv, Typed
  <1>2. Stores'
    <2>1. Stored(store', minted.tokens) /\ Stored(writer.store', minted.tokens)
          /\ Stored(disk.store', minted.tokens)
      BY DEF IInv, Stores
    <2>2. QED
      BY <2>1 DEF IInv, Stores
  <1>3. Purpose'
    BY DEF IInv, Purpose
  <1>4. Durable'
    BY DEF IInv, Durable, Withdrawn, Kept, Forgets
  <1>5. QED
    BY <1>1, <1>2, <1>3, <1>4

(* A code issued for what a person approved. *)
LEMMA IssuedApproved ==
    ASSUME IInv, NEW k \in Keys, NEW meta \in Versions, <<k, meta>> \in approved,
           IssueCode(k, meta), approved' = approved
    PROVE  /\ \A c \in DOMAIN codes' : /\ c \in Codes /\ codes'[c] \in Approvals
                                       /\ <<codes'[c].key, codes'[c].meta>> \in approved'
           /\ minted' \in [tokens : Nat, codes : Nat] /\ minted'.tokens = minted.tokens
  <1> DEFINE n == minted.codes + 1
             v == [key |-> k, meta |-> meta]
  <1>1. /\ codes' = With(codes, n, v) /\ minted' = [minted EXCEPT !.codes = n]
        /\ minted.codes < MaxCodes /\ minted \in [tokens : Nat, codes : Nat]
    BY DEF IssueCode, IInv, Typed
  <1>2. n \in Codes
    BY <1>1, OAuthAssumption DEF Codes, OAuthAssumption
  <1>3. v \in Approvals /\ v.key = k /\ v.meta = meta
    BY DEF Approvals
  <1>4. /\ DOMAIN codes' = DOMAIN codes \cup {n} /\ codes'[n] = v
        /\ \A c \in DOMAIN codes \ {n} : codes'[c] = codes[c]
    BY <1>1 DEF With
  <1> HIDE DEF v
  <1>5. minted' \in [tokens : Nat, codes : Nat] /\ minted'.tokens = minted.tokens
    BY <1>1
  <1> HIDE DEF n
  <1>6. QED
    BY <1>2, <1>3, <1>4, <1>5 DEF IInv, Approval

LEMMA PageShape ==
    ASSUME IInv, NEW s \in Subjects, page[s] # None
    PROVE  page[s] \in Pages /\ page[s].key \in Keys /\ page[s].shown \in Versions
  BY DEF IInv, Typed, Pages

LEMMA WebKeeps ==
    ASSUME IInv,
           \/ \E c \in Verified : CacheLapses(c)
           \/ \E g \in Tokens : GrantLapses(g)
           \/ \E c \in Codes : SpendCode(c)
           \/ \E k \in Keys : ConsentLapses(k)
           \/ \E r \in Requests, s \in Subjects : DenyPOST(r, s) \/ RepromptPOST(r, s)
           \/ \E r \in Requests, k \in Keys : AuthorizeGET(r, k)
    PROVE  IInv'
  <1>0. /\ minted \in [tokens : Nat, codes : Nat] /\ page \in [Subjects -> Pages \cup {None}]
        /\ Approval
    BY DEF IInv, Typed
  <1>1. ASSUME NEW c, CacheLapses(c) \/ GrantLapses(c) PROVE IInv'
    <2>1. UNCHANGED <<req, store, disk, writer, failed, held, retired, taken, forgotten,
                      forgetting, minted, page, consent, approved, codes>>
      BY <1>1 DEF CacheLapses, GrantLapses, storeVars, fileVars, ghosts, webVars
    <2>2. Approval'
      BY <1>0, <2>1 DEF Approval, Recorded
    <2>3. QED
      BY <1>0, <2>1, <2>2, SteadyKeeps DEF IInv
  <1>2. ASSUME NEW c \in Codes, SpendCode(c) PROVE IInv'
    <2>1. /\ UNCHANGED <<req, store, disk, writer, failed, held, retired, taken, forgotten,
                         forgetting, minted, page, consent, approved>>
          /\ codes' = [x \in DOMAIN codes \ {c} |-> codes[x]]
      BY <1>2 DEF SpendCode, Redeemed, Without, storeVars, fileVars, ghosts, webVars
    <2>2. Approval'
      BY <1>0, <2>1 DEF Approval, Recorded
    <2>3. QED
      BY <1>0, <2>1, <2>2, SteadyKeeps DEF IInv
  <1>3. ASSUME NEW k \in Keys, ConsentLapses(k) PROVE IInv'
    <2>1. /\ UNCHANGED <<req, store, disk, writer, failed, held, retired, taken, forgotten,
                         forgetting, minted, page, approved, codes>>
          /\ k \in DOMAIN consent /\ consent' = [consent EXCEPT ![k].lapsed = TRUE]
      BY <1>3 DEF ConsentLapses, storeVars, fileVars, ghosts, webVars
    <2> DEFINE v == [consent[k] EXCEPT !.lapsed = TRUE]
    <2>2. v \in [shown : Versions, lapsed : BOOLEAN] /\ v.shown = consent[k].shown
      BY <1>0, <2>1 DEF Approval, Recorded
    <2>3. /\ DOMAIN consent' = DOMAIN consent /\ consent'[k] = v
          /\ \A j \in DOMAIN consent \ {k} : consent'[j] = consent[j]
      BY <2>1
    <2> HIDE DEF v
    <2>4. Recorded(consent)'
      BY <1>0, <2>1, <2>2, <2>3 DEF Approval, Recorded
    <2>5. Approval'
      BY <1>0, <2>1, <2>4 DEF Approval, Recorded
    <2>6. QED
      BY <1>0, <2>1, <2>3, <2>5, SteadyKeeps DEF IInv
  <1>4. ASSUME NEW r \in Requests, NEW s \in Subjects, DenyPOST(r, s) \/ RepromptPOST(r, s)
        PROVE  IInv'
    <2>1. /\ UNCHANGED <<req, store, disk, writer, failed, held, retired, taken, forgotten,
                         forgetting, minted, consent, approved, codes>>
          /\ page[s] # None
      BY <1>4 DEF DenyPOST, RepromptPOST, VerifyCSRF, storeVars, fileVars, ghosts
    <2>2. page' \in [Subjects -> Pages \cup {None}]
      <3>1. CASE DenyPOST(r, s)
        BY <1>0, <3>1 DEF DenyPOST
      <3>2. CASE RepromptPOST(r, s)
        <4>1. PICK meta \in Versions : RenderConsentPage(page[s].key, meta)
          BY <3>2 DEF RepromptPOST
        <4> DEFINE k == page[s].key
                   v == [key |-> k, shown |-> meta]
        <4>2. k \in Keys
          BY <2>1, PageShape
        <4>3. k[1] \in Subjects
          BY <4>2 DEF Keys
        <4>4. v \in Pages
          BY <4>2 DEF Pages
        <4>5. page' = [page EXCEPT ![k[1]] = v]
          BY <4>1 DEF RenderConsentPage
        <4> HIDE DEF k, v
        <4>6. QED
          BY <1>0, <4>3, <4>4, <4>5
      <3>3. QED
        BY <1>4, <3>1, <3>2
    <2>3. Approval'
      BY <1>0, <2>1 DEF Approval, Recorded
    <2>4. QED
      BY <1>0, <2>1, <2>2, <2>3, SteadyKeeps DEF IInv
  <1>5. ASSUME NEW r \in Requests, NEW k \in Keys, AuthorizeGET(r, k)
        PROVE  IInv'
    <2>1. UNCHANGED <<req, store, disk, writer, failed, held, retired, taken, forgotten,
                      forgetting, consent, approved>>
      BY <1>5 DEF AuthorizeGET, fileVars, ghosts, heldVars, keyVars
    <2>2. PICK meta \in Versions :
             \/ Allows(k, meta) /\ IssueCode(k, meta) /\ page' = page
             \/ RenderConsentPage(k, meta) /\ UNCHANGED <<codes, minted>>
      BY <1>5 DEF AuthorizeGET
    <2>3. CASE Allows(k, meta) /\ IssueCode(k, meta) /\ page' = page
      <3>1. <<k, meta>> \in approved
        <4>1. k \in DOMAIN consent /\ consent[k].shown = meta
          BY <2>3 DEF Allows
        <4>2. QED
          BY <1>0, <4>1 DEF Approval, Recorded
      <3>2. /\ \A c \in DOMAIN codes' : /\ c \in Codes /\ codes'[c] \in Approvals
                                       /\ <<codes'[c].key, codes'[c].meta>> \in approved'
            /\ minted' \in [tokens : Nat, codes : Nat] /\ minted'.tokens = minted.tokens
        BY <2>1, <2>3, <3>1, IssuedApproved
      <3>3. Approval'
        BY <1>0, <2>1, <3>2 DEF Approval, Recorded
      <3>4. QED
        BY <1>0, <2>1, <2>3, <3>2, <3>3, SteadyKeeps DEF IInv
    <2>4. CASE RenderConsentPage(k, meta) /\ UNCHANGED <<codes, minted>>
      <3> DEFINE v == [key |-> k, shown |-> meta]
      <3>1. v \in Pages /\ k[1] \in Subjects /\ page' = [page EXCEPT ![k[1]] = v]
        BY <2>4 DEF Pages, Keys, RenderConsentPage
      <3> HIDE DEF v
      <3>2. page' \in [Subjects -> Pages \cup {None}]
        BY <1>0, <3>1
      <3>3. Approval'
        BY <1>0, <2>1, <2>4 DEF Approval, Recorded
      <3>4. QED
        BY <1>0, <2>1, <2>4, <3>2, <3>3, SteadyKeeps DEF IInv
    <2>5. QED
      BY <2>2, <2>3, <2>4
  <1>6. QED
    BY <1>1, <1>2, <1>3, <1>4, <1>5

(* A person approves what the page showed them. *)
LEMMA ApproveKeeps ==
    ASSUME IInv, NEW r \in Requests, NEW s \in Subjects, ApprovePOST(r, s)
    PROVE  IInv'
  <1> DEFINE key == page[s].key
             shown == page[s].shown
             v == [shown |-> shown, lapsed |-> FALSE]
  <1>0. /\ Typed /\ Stores /\ Approval /\ Purpose /\ Durable
        /\ req[r] = Idle /\ page[s] # None
    BY DEF IInv, ApprovePOST, VerifyCSRF
  <1>1. key \in Keys /\ shown \in Versions /\ page[s] \in Pages
    BY <1>0, PageShape
  <1>2. /\ approved' = approved \cup {<<key, shown>>}
        /\ forgotten' = forgotten \ {key}
        /\ forgetting' = [p \in Requests |-> forgetting[p] \ {key}]
        /\ UNCHANGED <<codes, held, retired, taken, store, minted, disk, writer, failed>>
        /\ page' \in {page, [page EXCEPT ![s] = None]}
    BY DEF ApprovePOST, storeVars, fileVars
  <1>3. consent' = consent \/ consent' = With(consent, key, v)
    BY DEF ApprovePOST, Remember
  <1>4. PICK q \in {Idle} \cup Waiting :
          /\ req' = [req EXCEPT ![r] = q]
          /\ q # Idle => /\ q.out = {} /\ q.in = {} /\ q.keys = {}
                         /\ q.code = [key |-> key, meta |-> shown]
                         /\ q.pc = "dirty" \/ (q.pc = "issue" /\ q.code # None)
    <2> DEFINE c == [key |-> key, meta |-> shown]
               next == [pc |-> "dirty", out |-> {}, in |-> {}, keys |-> {}, code |-> c]
    <2>1. PICK meta \in Versions :
             LET d == [Dirty EXCEPT !.code = [key |-> key, meta |-> meta]] IN
             /\ ~ Stale(shown, meta)
             /\ \/ req' = [req EXCEPT ![r] = d]
                \/ req' = [req EXCEPT ![r] = AfterWrite(d)]
      <3>1. PICK meta \in Versions :
              LET next0 == [Dirty EXCEPT !.code = [key |-> page[s].key, meta |-> meta]]
                  records == IF page[s].key[2] \in Verified
                             THEN Remember(page[s].key, page[s].shown) ELSE consent IN
              /\ ~ Stale(page[s].shown, meta)
              /\ req' = [req EXCEPT ![r] = IF records # consent THEN next0 ELSE AfterWrite(next0)]
        BY DEF ApprovePOST
      <3>2. QED
        BY <3>1
    <2>2. meta = shown
      BY <2>1 DEF Stale
    <2>3. [Dirty EXCEPT !.code = [key |-> key, meta |-> meta]] = next
      BY <2>2 DEF Dirty
    <2>4. c \in Approvals
      BY <1>1 DEF Approvals
    <2> HIDE DEF c, key, shown
    <2>5. next \in Waiting /\ next.pc = "dirty" /\ next.out = {} /\ next.in = {}
          /\ next.keys = {} /\ next.code = c
      BY <2>4, DirtyShape
    <2> HIDE DEF next
    <2>6. req' = [req EXCEPT ![r] = next] \/ req' = [req EXCEPT ![r] = AfterWrite(next)]
      BY <2>1, <2>3 DEF key, shown
    <2>7. CASE req' = [req EXCEPT ![r] = next]
      BY <2>5, <2>7 DEF c
    <2>8. CASE req' = [req EXCEPT ![r] = AfterWrite(next)]
      <3>1. AfterWrite(next) = Idle \/
              /\ AfterWrite(next) \in Waiting /\ AfterWrite(next).out = {}
              /\ AfterWrite(next).in = {} /\ AfterWrite(next).keys = {}
              /\ AfterWrite(next).code = c /\ AfterWrite(next).pc = "issue" /\ c # None
        BY <2>5, AfterWriteShape
      <3>2. QED
        BY <2>8, <3>1 DEF c
    <2>9. QED
      BY <2>6, <2>7, <2>8
  <1>5. /\ req' \in [Requests -> {Idle} \cup Waiting] /\ req'[r] = q
        /\ \A p \in Requests \ {r} : req'[p] = req[p]
    BY <1>4, OneRequest
  <1>6. /\ DOMAIN consent' \subseteq DOMAIN consent \cup {key}
        /\ \A k \in DOMAIN consent' :
              \/ k \in DOMAIN consent /\ consent'[k] = consent[k]
              \/ k = key /\ consent'[k] = v
    BY <1>3 DEF With
  <1>7. v \in [shown : Versions, lapsed : BOOLEAN] /\ v.shown = shown
    BY <1>1
  <1>8. \A c : [key |-> key, meta |-> shown] = c => c.key = key /\ c.meta = shown
    OBVIOUS
  <1> HIDE DEF key, shown, v
  <1>9. Typed'
    <2>1. page' \in [Subjects -> Pages \cup {None}]
      BY <1>0, <1>2 DEF Typed
    <2>2. forgetting' \in [Requests -> SUBSET Keys]
      BY <1>0, <1>2 DEF Typed
    <2>3. \A p \in Requests : req'[p].pc \in {"snapshot", "rename"} <=> writer'.by = p
      <3>1. req[r].pc = "idle" /\ (q = Idle \/ q.pc \in {"dirty", "issue"})
        BY <1>0, <1>4, WaitingShape
      <3>2. q.pc \notin {"snapshot", "rename"}
        BY <3>1, WaitingShape
      <3>3. QED
        BY <1>0, <1>2, <1>5, <3>1, <3>2 DEF Typed
    <2>4. QED
      BY <1>0, <1>2, <1>5, <2>1, <2>2, <2>3 DEF Typed
  <1>10. Stores'
    BY <1>0, <1>2, <1>4, <1>5 DEF Stores
  <1>11. Approval'
    <2>1. Recorded(consent)'
      BY <1>0, <1>1, <1>2, <1>6, <1>7 DEF Approval, Recorded
    <2>2. Recorded(writer.consent)' /\ Recorded(disk.consent)'
      BY <1>0, <1>2 DEF Approval, Recorded
    <2>3. \A p \in Requests : req'[p] # Idle /\ req'[p].code # None =>
             <<req'[p].code.key, req'[p].code.meta>> \in approved'
      <3>1. q # Idle => <<q.code.key, q.code.meta>> \in approved'
        BY <1>2, <1>4, <1>8
      <3>2. QED
        BY <1>0, <1>2, <1>5, <3>1 DEF Approval
    <2>4. QED
      BY <1>0, <1>2, <2>1, <2>2, <2>3 DEF Approval
  <1>12. Purpose'
    <2>1. forgetting[r] = {} /\ forgetting'[r] = {}
      BY <1>0, <1>2 DEF Purpose
    <2>2. q.pc # "forget" /\ (q.pc = "issue" => q.code # None)
      BY <1>4, WaitingShape
    <2>3. \A p \in Requests : forgetting'[p] # {} => forgetting[p] # {}
      BY <1>2
    <2>4. QED
      BY <1>0, <1>4, <1>5, <2>1, <2>2, <2>3 DEF Purpose
  <1>13. Durable'
    <2>1. SUFFICES ASSUME ~ failed PROVE Withdrawn' /\ Kept' /\ Forgets'
      BY <1>2 DEF Durable
    <2>2. Withdrawn /\ Kept /\ Forgets
      BY <1>0, <2>1 DEF Durable
    <2>3. Withdrawn' /\ Kept'
      BY <1>2, <1>4, <1>5, <2>2 DEF Withdrawn, Kept
    <2>4. Forgets'
      <3>1. forgetting[r] = {}
        BY <1>0 DEF Purpose
      <3>2. \A p \in Requests : forgetting'[p] \subseteq forgetting[p] /\ key \notin forgetting'[p]
        BY <1>2
      <3>3. \A p \in Requests : forgetting'[p] \cap DOMAIN consent' = {}
        BY <1>6, <2>2, <3>2 DEF Forgets
      <3>4. forgotten' \cap DOMAIN consent' = {}
        BY <1>2, <1>6, <2>2 DEF Forgets
      <3>5. \A p \in Requests : forgetting'[p] # {} => p # r /\ req'[p] = req[p]
        BY <1>5, <3>1, <3>2
      <3>6. \A p \in Requests :
               /\ req'[p].pc \in {"snapshot", "rename"} => forgetting'[p] \cap DOMAIN writer.consent = {}
               /\ req'[p].pc \in {"forget", "issue"} => forgetting'[p] = {}
        BY <2>2, <3>2, <3>5 DEF Forgets
      <3>7. QED
        BY <1>2, <2>2, <3>3, <3>4, <3>6 DEF Forgets
    <2>5. QED
      BY <2>3, <2>4
  <1>14. QED
    BY <1>9, <1>10, <1>11, <1>12, <1>13 DEF IInv

LEMMA IssueKeeps ==
    ASSUME IInv, NEW r \in Requests, IssueAfterApproval(r)
    PROVE  IInv'
  <1>0. /\ Typed /\ Stores /\ Approval /\ Purpose /\ Durable /\ req[r].pc = "issue"
    BY DEF IInv, IssueAfterApproval
  <1>1. /\ req[r] \in Waiting /\ req[r].code # None /\ req[r].code \in Approvals
        /\ forgetting[r] = {}
    BY <1>0, WaitingShape DEF Typed, Purpose
  <1>2. /\ UNCHANGED <<store, lapsed, consent, page, disk, writer, failed, approved, held, retired,
                       taken, forgotten, forgetting>>
        /\ IssueCode(req[r].code.key, req[r].code.meta) /\ req' = [req EXCEPT ![r] = Idle]
    BY DEF IssueAfterApproval, webVars, fileVars, ghosts
  <1>3. /\ req' \in [Requests -> {Idle} \cup Waiting] /\ req'[r] = Idle
        /\ \A p \in Requests \ {r} : req'[p] = req[p]
    BY <1>2, OneRequest
  <1>4. /\ \A c \in DOMAIN codes' : /\ c \in Codes /\ codes'[c] \in Approvals
                                    /\ <<codes'[c].key, codes'[c].meta>> \in approved'
        /\ minted' \in [tokens : Nat, codes : Nat] /\ minted'.tokens = minted.tokens
    <2> DEFINE k == req[r].code.key
               m == req[r].code.meta
    <2>1. k \in Keys /\ m \in Versions /\ <<k, m>> \in approved
      BY <1>0, <1>1, WaitingShape DEF Approvals, Approval
    <2>2. IssueCode(k, m) /\ approved' = approved
      BY <1>2
    <2> HIDE DEF k, m
    <2>3. QED
      BY <2>1, <2>2, IssuedApproved
  <1>5. Typed'
    BY <1>0, <1>2, <1>3, <1>4, WaitingShape DEF Typed
  <1>6. Stores'
    <2>1. Stored(store', minted.tokens) /\ Stored(writer.store', minted.tokens)
          /\ Stored(disk.store', minted.tokens)
      BY <1>0, <1>2 DEF Stores
    <2>2. QED
      BY <1>0, <1>2, <1>3, <1>4, <2>1 DEF Stores
  <1>7. Approval'
    BY <1>0, <1>2, <1>3, <1>4 DEF Approval, Recorded
  <1>8. Purpose'
    BY <1>0, <1>1, <1>2, <1>3, WaitingShape DEF Purpose
  <1>9. Durable'
    BY <1>0, <1>2, <1>3, WaitingShape DEF Durable, Withdrawn, Kept, Forgets
  <1>10. QED
    BY <1>5, <1>6, <1>7, <1>8, <1>9 DEF IInv

(* A request that changes the tokens and has the change still to write:    *)
(* what it takes away is gone from the store at once, what it hands out is *)
(* in it, and nothing the store had disappears without being taken.        *)
LEMMA DirtyKeeps ==
    ASSUME IInv, NEW r \in Requests, req[r] = Idle,
           NEW out \in SUBSET Nat, NEW in \in SUBSET Nat, NEW keys \in SUBSET Keys,
           req' = [req EXCEPT ![r] = [pc |-> "dirty", out |-> out, in |-> in, keys |-> keys,
                                      code |-> None]],
           minted' \in [tokens : Nat, codes : Nat], minted.tokens <= minted'.tokens,
           Stored(store', minted'.tokens),
           out \subseteq 1..minted'.tokens, in \subseteq DOMAIN store'.tokens,
           out \cap DOMAIN store'.tokens = {},
           \A t \in DOMAIN store'.tokens : t \in DOMAIN store.tokens \/ t \notin 1..minted.tokens,
           \A t \in DOMAIN store.tokens : t \in DOMAIN store'.tokens \/ t \in taken',
           taken \subseteq taken',
           \A c \in DOMAIN codes' : c \in DOMAIN codes /\ codes'[c] = codes[c],
           UNCHANGED <<consent, page, disk, writer, failed, approved, held, retired,
                       forgotten, forgetting>>
    PROVE  IInv'
  <1> DEFINE q == [pc |-> "dirty", out |-> out, in |-> in, keys |-> keys, code |-> None]
  <1>0. /\ Typed /\ Stores /\ Approval /\ Purpose /\ Durable
        /\ minted.tokens \in Nat /\ minted'.tokens \in Nat
    BY DEF IInv, Typed
  <1>1. /\ q \in Waiting /\ q.pc = "dirty" /\ q.out = out /\ q.in = in /\ q.keys = keys
        /\ q.code = None
    BY DirtyShape
  <1>2. req' = [req EXCEPT ![r] = q]
    OBVIOUS
  <1> HIDE DEF q
  <1>3. /\ req' \in [Requests -> {Idle} \cup Waiting] /\ req'[r] = q /\ q # Idle
        /\ \A p \in Requests \ {r} : req'[p] = req[p]
    <2>1. q \in {Idle} \cup Waiting /\ q # Idle
      BY <1>1, WaitingShape
    <2>2. QED
      BY <1>2, <2>1, OneRequest
  <1>4. \A i \in 1..minted.tokens : i \in 1..minted'.tokens
    BY <1>0
  <1>5. Typed'
    <2>1. req[r].pc = "idle"
      BY WaitingShape
    <2>2. \A p \in Requests : req'[p].pc \in {"snapshot", "rename"} <=> writer'.by = p
      BY <1>0, <1>1, <1>3, <2>1 DEF Typed
    <2>3. QED
      BY <1>0, <1>3, <2>2 DEF Typed
  <1>6. Stores'
    <2>1. Stored(writer.store, minted'.tokens) /\ Stored(disk.store, minted'.tokens)
      BY <1>0, StoredGrows DEF Stores
    <2>2. in \subseteq 1..minted'.tokens
      BY DEF Stored
    <2>3. \A p \in Requests : req'[p] # Idle =>
             req'[p].in \subseteq 1..minted'.tokens /\ req'[p].out \subseteq 1..minted'.tokens
      BY <1>0, <1>1, <1>3, <1>4, <2>2 DEF Stores
    <2>4. QED
      BY <1>0, <1>4, <2>1, <2>3 DEF Stores
  <1>7. Approval'
    <2>1. Recorded(consent)' /\ Recorded(writer.consent)' /\ Recorded(disk.consent)'
      BY <1>0 DEF Approval, Recorded
    <2>2. QED
      BY <1>0, <1>1, <1>3, <2>1 DEF Approval
  <1>8. Purpose'
    BY <1>0, <1>1, <1>3 DEF Purpose
  <1>9. Durable'
    <2>1. SUFFICES ASSUME ~ failed PROVE Withdrawn' /\ Kept' /\ Forgets'
      BY DEF Durable
    <2>2. Withdrawn /\ Kept /\ Forgets
      BY <1>0, <2>1 DEF Durable
    <2>3. Withdrawn'
      <3>1. retired \cap DOMAIN store'.tokens = {}
        BY <1>0, <2>2 DEF Withdrawn, Stores
      <3>2. ASSUME NEW p \in Requests, req'[p] # Idle, p # r
            PROVE  /\ req'[p].out \cap DOMAIN store'.tokens = {}
                   /\ req'[p].pc # "dirty" => req'[p].out \cap DOMAIN writer.store.tokens = {}
                   /\ req'[p].pc \in {"forget", "issue"} =>
                         req'[p].out \cap DOMAIN disk.store.tokens = {}
        <4>1. req'[p] = req[p] /\ req[p].out \subseteq 1..minted.tokens
          BY <1>0, <1>3, <3>2 DEF Stores
        <4>2. QED
          BY <2>2, <3>2, <4>1 DEF Withdrawn
      <3>3. QED
        BY <1>1, <1>3, <2>2, <3>1, <3>2 DEF Withdrawn
    <2>4. Kept'
      <3>1. ASSUME NEW S, S \ taken \subseteq DOMAIN store.tokens
            PROVE  S \ taken' \subseteq DOMAIN store'.tokens
        BY <3>1
      <3>2. /\ held \ taken' \subseteq DOMAIN store'.tokens
            /\ writer.by # None => held \ taken' \subseteq DOMAIN writer.store.tokens
            /\ held \ taken' \subseteq DOMAIN disk.store.tokens
        BY <2>2, <3>1 DEF Kept
      <3>3. ASSUME NEW p \in Requests, req'[p] # Idle, p # r
            PROVE  /\ req'[p].in \ taken' \subseteq DOMAIN store'.tokens
                   /\ req'[p].pc # "dirty" /\ writer.by # None =>
                         req'[p].in \ taken' \subseteq DOMAIN writer.store.tokens
                   /\ req'[p].pc \in {"forget", "issue"} =>
                         req'[p].in \ taken' \subseteq DOMAIN disk.store.tokens
        <4>1. req'[p] = req[p]
          BY <1>3, <3>3
        <4>2. req[p].in \ taken \subseteq DOMAIN store.tokens
          BY <2>2, <3>3, <4>1 DEF Kept
        <4>3. QED
          BY <2>2, <3>1, <3>3, <4>1, <4>2 DEF Kept
      <3>4. QED
        BY <1>1, <1>3, <3>2, <3>3 DEF Kept
    <2>5. Forgets'
      BY <1>0, <1>1, <1>3, <2>2 DEF Forgets, Purpose
    <2>6. QED
      BY <2>3, <2>4, <2>5
  <1>10. QED
    BY <1>5, <1>6, <1>7, <1>8, <1>9 DEF IInv

LEMMA FamilyKnown ==
    ASSUME NEW st, NEW top, Stored(st, top), NEW g \in DOMAIN st.grants
    PROVE  Range(st.grants[g]) \subseteq 1..top
  <1>1. /\ st.grants[g] \in Seq(Nat) /\ Len(st.grants[g]) \in Nat
        /\ DOMAIN st.grants[g] = 1..Len(st.grants[g]) /\ Members(st)
    BY DEF Stored
  <1>2. ASSUME NEW i \in 1..Len(st.grants[g]) PROVE st.grants[g][i] \in 1..top
    <2>1. CASE i = Len(st.grants[g])
      BY <1>1, <2>1 DEF Members, Stored
    <2>2. CASE i # Len(st.grants[g])
      <3>1. i \in 1..(Len(st.grants[g]) - 1)
        BY <1>1, <2>2
      <3>2. QED
        BY <1>1, <3>1 DEF Members, Stored
    <2>3. QED
      BY <2>1, <2>2
  <1>3. QED
    BY <1>1, <1>2 DEF Range

LEMMA RedeemKeeps ==
    ASSUME IInv, NEW r \in Requests, NEW c \in Codes, RedeemCode(r, c)
    PROVE  IInv'
  <1> DEFINE k == codes[c].key
             n == NewToken
  <1>0. /\ Stores /\ Approval /\ minted \in [tokens : Nat, codes : Nat]
        /\ n = minted.tokens + 1 /\ n \in Nat
    BY DEF IInv, Typed, NewToken
  <1>1. /\ req[r] = Idle /\ c \in DOMAIN codes /\ store' = Issued(k)
        /\ codes' = [x \in DOMAIN codes \ {c} |-> codes[x]]
        /\ minted' = [minted EXCEPT !.tokens = n]
        /\ req' = [req EXCEPT ![r] = [Dirty EXCEPT !.in = {n}]]
        /\ UNCHANGED <<consent, page, disk, writer, failed, approved, held, retired, taken,
                       forgotten, forgetting>>
    BY DEF RedeemCode, Redeemed, Without, webVars, fileVars, heldVars, keyVars
  <1>2. k \in Keys
    BY <1>0, <1>1 DEF Approval, Approvals
  <1>3. Stored(store', n)
    BY <1>0, <1>1, <1>2, IssuedStored DEF Stores
  <1>4. DOMAIN store'.tokens = DOMAIN store.tokens \cup {n}
    BY <1>1 DEF Issued, With
  <1>5. minted' \in [tokens : Nat, codes : Nat] /\ minted'.tokens = n
    BY <1>0, <1>1
  <1>6. [Dirty EXCEPT !.in = {n}]
          = [pc |-> "dirty", out |-> {}, in |-> {n}, keys |-> {}, code |-> None]
    BY DEF Dirty
  <1>7. n \notin 1..minted.tokens /\ minted.tokens <= n
    BY <1>0
  <1>8. {n} \in SUBSET Nat /\ {} \in SUBSET Nat /\ {} \in SUBSET Keys
    BY <1>0
  <1>9. /\ {n} \subseteq DOMAIN store'.tokens /\ {} \cap DOMAIN store'.tokens = {}
        /\ \A t \in DOMAIN store'.tokens : t \in DOMAIN store.tokens \/ t \notin 1..minted.tokens
        /\ \A t \in DOMAIN store.tokens : t \in DOMAIN store'.tokens \/ t \in taken'
        /\ taken \subseteq taken'
        /\ \A x \in DOMAIN codes' : x \in DOMAIN codes /\ codes'[x] = codes[x]
    BY <1>1, <1>4, <1>7
  <1>10. req' = [req EXCEPT ![r] = [pc |-> "dirty", out |-> {}, in |-> {n}, keys |-> {},
                                    code |-> None]]
    BY <1>1, <1>6
  <1> DEFINE in == {n}
             nothing == {}
  <1>11. /\ in \in SUBSET Nat /\ nothing \in SUBSET Nat /\ nothing \in SUBSET Keys
         /\ in \subseteq DOMAIN store'.tokens /\ nothing \cap DOMAIN store'.tokens = {}
         /\ nothing \subseteq 1..minted'.tokens
         /\ req' = [req EXCEPT ![r] = [pc |-> "dirty", out |-> nothing, in |-> in,
                                       keys |-> nothing, code |-> None]]
    BY <1>8, <1>9, <1>10
  <1> HIDE DEF k, n, in, nothing
  <1>12. /\ minted.tokens <= minted'.tokens /\ Stored(store', minted'.tokens)
         /\ UNCHANGED <<consent, page, disk, writer, failed, approved, held, retired,
                        forgotten, forgetting>>
    BY <1>1, <1>3, <1>5, <1>7
  <1>13. QED
    BY <1>1, <1>5, <1>9, <1>11, <1>12, DirtyKeeps

LEMMA RotateKeeps ==
    ASSUME IInv, NEW r \in Requests, NEW t \in Tokens, Rotate(r, t)
    PROVE  IInv'
  <1> DEFINE n == NewToken
  <1>0. /\ Stores /\ minted \in [tokens : Nat, codes : Nat]
        /\ n = minted.tokens + 1 /\ n \in Nat
    BY DEF IInv, Typed, NewToken
  <1>1. /\ req[r] = Idle /\ t \in DOMAIN store.tokens /\ store' = Rotated(t)
        /\ minted' = [minted EXCEPT !.tokens = n] /\ taken' = taken \cup {t}
        /\ req' = [req EXCEPT ![r] = [Dirty EXCEPT !.in = {n}, !.out = {t}]]
        /\ UNCHANGED <<codes, consent, page, disk, writer, failed, approved, held, retired,
                       forgotten, forgetting>>
    BY DEF Rotate, webVars, fileVars, keyVars
  <1>2. Stored(store', n)
    BY <1>0, <1>1, RotatedStored DEF Stores
  <1>3. DOMAIN store'.tokens = (DOMAIN store.tokens \ {t}) \cup {n}
    BY <1>1 DEF Rotated, With, Without
  <1>4. minted' \in [tokens : Nat, codes : Nat] /\ minted'.tokens = n
    BY <1>0, <1>1
  <1>5. [Dirty EXCEPT !.in = {n}, !.out = {t}]
          = [pc |-> "dirty", out |-> {t}, in |-> {n}, keys |-> {}, code |-> None]
    <2>1. [Dirty EXCEPT !.in = {n}]
            = [pc |-> "dirty", out |-> {}, in |-> {n}, keys |-> {}, code |-> None]
      BY DEF Dirty
    <2>2. [Dirty EXCEPT !.in = {n}, !.out = {t}] = [[Dirty EXCEPT !.in = {n}] EXCEPT !.out = {t}]
      OBVIOUS
    <2>3. \A d : d = [pc |-> "dirty", out |-> {}, in |-> {n}, keys |-> {}, code |-> None]
             => [d EXCEPT !.out = {t}]
                  = [pc |-> "dirty", out |-> {t}, in |-> {n}, keys |-> {}, code |-> None]
      OBVIOUS
    <2>4. QED
      BY <2>1, <2>2, <2>3
  <1>6. n \notin 1..minted.tokens /\ minted.tokens <= n /\ t \in 1..minted.tokens
    BY <1>0, <1>1 DEF Stores, Stored
  <1>7. {n} \in SUBSET Nat /\ {t} \in SUBSET Nat /\ {} \in SUBSET Keys /\ t # n /\ t \in 1..n
    BY <1>0, <1>6
  <1>8. /\ {n} \subseteq DOMAIN store'.tokens /\ {t} \cap DOMAIN store'.tokens = {}
        /\ \A u \in DOMAIN store'.tokens : u \in DOMAIN store.tokens \/ u \notin 1..minted.tokens
        /\ \A u \in DOMAIN store.tokens : u \in DOMAIN store'.tokens \/ u \in taken'
        /\ taken \subseteq taken'
        /\ \A x \in DOMAIN codes' : x \in DOMAIN codes /\ codes'[x] = codes[x]
    BY <1>1, <1>3, <1>6, <1>7
  <1> DEFINE in == {n}
             out == {t}
             nothing == {}
  <1>9. /\ in \in SUBSET Nat /\ out \in SUBSET Nat /\ nothing \in SUBSET Keys
        /\ in \subseteq DOMAIN store'.tokens /\ out \cap DOMAIN store'.tokens = {}
        /\ out \subseteq 1..minted'.tokens
        /\ req' = [req EXCEPT ![r] = [pc |-> "dirty", out |-> out, in |-> in,
                                      keys |-> nothing, code |-> None]]
    BY <1>1, <1>4, <1>5, <1>7, <1>8
  <1> HIDE DEF n, in, out, nothing
  <1>10. /\ minted.tokens <= minted'.tokens /\ Stored(store', minted'.tokens)
         /\ UNCHANGED <<consent, page, disk, writer, failed, approved, held, retired,
                        forgotten, forgetting>>
    BY <1>1, <1>2, <1>4, <1>6
  <1>11. QED
    BY <1>1, <1>4, <1>8, <1>9, <1>10, DirtyKeeps

LEMMA WithdrawKeeps ==
    ASSUME IInv, NEW r \in Requests, req[r] = Idle, NEW gs \in SUBSET DOMAIN store.grants,
           NEW keys \in SUBSET Keys, Withdraw(r, gs, keys)
    PROVE  IInv'
  <1> DEFINE hashes == UNION {Family(g) : g \in gs}
  <1>0. Stores /\ minted \in [tokens : Nat, codes : Nat]
    BY DEF IInv, Typed
  <1>1. /\ store' = Revoked(store, gs) /\ taken' = taken \cup hashes
        /\ req' = [req EXCEPT ![r] = [Dirty EXCEPT !.out = hashes, !.keys = keys]]
        /\ UNCHANGED <<codes, consent, page, disk, writer, failed, approved, held, retired,
                       forgotten, forgetting, minted>>
    BY DEF Withdraw, webVars, fileVars, keyVars
  <1>2. Stored(store', minted.tokens)
    BY <1>0, <1>1, RevokedStored DEF Stores
  <1>3. DOMAIN store'.tokens = DOMAIN store.tokens \ hashes
    BY <1>1 DEF Revoked, Without, Family
  <1>4. hashes \subseteq 1..minted.tokens
    <2>1. \A g \in gs : Family(g) \subseteq 1..minted.tokens
      BY <1>0, FamilyKnown DEF Family, Stores
    <2>2. QED
      BY <2>1
  <1>5. [Dirty EXCEPT !.out = hashes, !.keys = keys]
          = [pc |-> "dirty", out |-> hashes, in |-> {}, keys |-> keys, code |-> None]
    <2> HIDE DEF hashes
    <2>1. [Dirty EXCEPT !.out = hashes]
            = [pc |-> "dirty", out |-> hashes, in |-> {}, keys |-> {}, code |-> None]
      BY DEF Dirty
    <2>2. [Dirty EXCEPT !.out = hashes, !.keys = keys]
            = [[Dirty EXCEPT !.out = hashes] EXCEPT !.keys = keys]
      OBVIOUS
    <2>3. \A d : d = [pc |-> "dirty", out |-> hashes, in |-> {}, keys |-> {}, code |-> None]
             => [d EXCEPT !.keys = keys]
                  = [pc |-> "dirty", out |-> hashes, in |-> {}, keys |-> keys, code |-> None]
      OBVIOUS
    <2>4. QED
      BY <2>1, <2>2, <2>3
  <1>6. hashes \in SUBSET Nat /\ {} \in SUBSET Nat /\ minted.tokens <= minted.tokens
    BY <1>0, <1>4
  <1> DEFINE nothing == {}
  <1> HIDE DEF hashes
  <1>7. /\ nothing \in SUBSET Nat
        /\ nothing \subseteq DOMAIN store'.tokens /\ hashes \cap DOMAIN store'.tokens = {}
        /\ hashes \subseteq 1..minted'.tokens
        /\ req' = [req EXCEPT ![r] = [pc |-> "dirty", out |-> hashes, in |-> nothing,
                                      keys |-> keys, code |-> None]]
    BY <1>1, <1>3, <1>4, <1>5
  <1>8. /\ \A u \in DOMAIN store'.tokens : u \in DOMAIN store.tokens \/ u \notin 1..minted.tokens
        /\ \A u \in DOMAIN store.tokens : u \in DOMAIN store'.tokens \/ u \in taken'
        /\ taken \subseteq taken'
        /\ \A x \in DOMAIN codes' : x \in DOMAIN codes /\ codes'[x] = codes[x]
    BY <1>1, <1>3
  <1> HIDE DEF nothing
  <1>9. /\ minted.tokens <= minted'.tokens /\ Stored(store', minted'.tokens)
        /\ minted' \in [tokens : Nat, codes : Nat]
        /\ UNCHANGED <<consent, page, disk, writer, failed, approved, held, retired,
                       forgotten, forgetting>>
    BY <1>0, <1>1, <1>2, <1>6
  <1>10. QED
    BY <1>6, <1>7, <1>8, <1>9, DirtyKeeps

LEMMA TokensKeep ==
    ASSUME IInv, NEW r \in Requests,
           \/ \E t \in Tokens : DetectTheft(r, t) \/ RotateExpired(r, t) \/ HandleRevoke(r, t)
           \/ \E s \in Subjects : RevokeSubject(r, s)
    PROVE  IInv'
  <1>1. Stored(store, minted.tokens)
    BY DEF IInv, Stores
  <1>2. /\ \A t \in DOMAIN store.tokens : store.tokens[t].grant \in DOMAIN store.grants
                                          /\ store.tokens[t].key \in Keys
        /\ \A t \in DOMAIN store.consumed : store.consumed[t] \in DOMAIN store.grants
    BY <1>1 DEF Stored, Members
  <1>3. \A gs : Owners(gs) \in SUBSET Keys
    BY <1>2 DEF Owners
  <1>4. ASSUME NEW t, DetectTheft(r, t) PROVE IInv'
    <2>1. {store.consumed[t]} \in SUBSET DOMAIN store.grants
      BY <1>2, <1>4 DEF DetectTheft
    <2>2. QED
      BY <1>3, <1>4, <2>1, WithdrawKeeps DEF DetectTheft
  <1>5. ASSUME NEW t, RotateExpired(r, t) PROVE IInv'
    <2>1. {store.tokens[t].grant} \in SUBSET DOMAIN store.grants
      BY <1>2, <1>5 DEF RotateExpired
    <2>2. QED
      BY <1>5, <2>1, WithdrawKeeps DEF RotateExpired
  <1>6. ASSUME NEW t, HandleRevoke(r, t) PROVE IInv'
    <2>1. {GrantOf(t)} \in SUBSET DOMAIN store.grants
      BY <1>2, <1>6 DEF HandleRevoke, GrantOf
    <2>2. QED
      BY <1>3, <1>6, <2>1, WithdrawKeeps DEF HandleRevoke
  <1>7. ASSUME NEW s \in Subjects, RevokeSubject(r, s) PROVE IInv'
    <2> DEFINE gs == {store.tokens[t].grant : t \in {u \in DOMAIN store.tokens :
                                                       store.tokens[u].key[1] = s}}
    <2>1. gs \in SUBSET DOMAIN store.grants
      BY <1>2
    <2>2. {k \in Keys : k[1] = s} \in SUBSET Keys
      OBVIOUS
    <2>3. req[r] = Idle /\ Withdraw(r, gs, {k \in Keys : k[1] = s})
      BY <1>7 DEF RevokeSubject
    <2> HIDE DEF gs
    <2>4. QED
      BY <2>1, <2>2, <2>3, WithdrawKeeps
  <1>8. QED
    BY <1>4, <1>5, <1>6, <1>7

----------------------------------------------------------------------------
(* The file. *)

LEMMA FileShapes ==
    /\ NoWriter.by = None /\ NoWriter.store = NoTokens /\ NoWriter.consent = Empty
    /\ DOMAIN NoWriter = {"by", "store", "consent"}
    /\ NoTokens.tokens = Empty /\ DOMAIN Empty = {}
  BY DEF NoWriter, NoTokens, Empty

LEMMA SnapshotTokensKeep ==
    ASSUME IInv, NEW r \in Requests, SnapshotTokens(r)
    PROVE  IInv'
  <1> DEFINE q == [req[r] EXCEPT !.pc = "snapshot"]
  <1>0. /\ Typed /\ Stores /\ Approval /\ Purpose /\ Durable /\ req[r].pc = "dirty"
        /\ writer.by = None
    BY DEF IInv, SnapshotTokens
  <1>1. req[r] \in Waiting /\ req[r] # Idle
    BY <1>0, WaitingShape DEF Typed
  <1>2. /\ q \in Waiting /\ q.pc = "snapshot" /\ q.out = req[r].out /\ q.in = req[r].in
        /\ q.keys = req[r].keys /\ q.code = req[r].code
    BY <1>1, PcShape
  <1>3. /\ writer' = [by |-> r, store |-> store, consent |-> Empty]
        /\ req' = [req EXCEPT ![r] = q]
        /\ UNCHANGED <<codes, consent, page, disk, store, minted, failed, approved, held, retired,
                       taken, forgotten, forgetting>>
    BY DEF SnapshotTokens, webVars, storeVars, ghosts
  <1> HIDE DEF q
  <1>4. /\ req' \in [Requests -> {Idle} \cup Waiting] /\ req'[r] = q
        /\ \A p \in Requests \ {r} : req'[p] = req[p]
    BY <1>2, <1>3, OneRequest
  <1>5. /\ writer'.by = r /\ writer'.store = store /\ writer'.consent = Empty
        /\ DOMAIN writer' = {"by", "store", "consent"} /\ DOMAIN Empty = {} /\ r # None
    BY <1>3, WaitingShape, FileShapes
  <1>6. Typed'
    <2>1. \A p \in Requests : req'[p].pc \in {"snapshot", "rename"} <=> writer'.by = p
      BY <1>0, <1>2, <1>4, <1>5, WaitingShape DEF Typed
    <2>2. QED
      BY <1>0, <1>3, <1>4, <1>5, <2>1 DEF Typed
  <1>7. Stores'
    <2>1. Stored(store', minted'.tokens) /\ Stored(writer'.store, minted'.tokens)
          /\ Stored(disk.store', minted'.tokens)
      BY <1>0, <1>3, <1>5 DEF Stores
    <2>2. QED
      BY <1>0, <1>1, <1>2, <1>3, <1>4, <2>1 DEF Stores
  <1>8. Approval'
    <2>1. Recorded(consent)' /\ Recorded(writer.consent)' /\ Recorded(disk.consent)'
      BY <1>0, <1>3, <1>5 DEF Approval, Recorded
    <2>2. QED
      BY <1>0, <1>1, <1>2, <1>3, <1>4, <2>1 DEF Approval
  <1>9. Purpose'
    BY <1>0, <1>1, <1>2, <1>3, <1>4, WaitingShape DEF Purpose
  <1>10. Durable'
    <2>1. SUFFICES ASSUME ~ failed' PROVE Withdrawn' /\ Kept' /\ Forgets'
      BY DEF Durable
    <2>2. Withdrawn /\ Kept /\ Forgets
      BY <1>0, <1>3, <2>1 DEF Durable
    <2>3. Withdrawn'
      BY <1>1, <1>2, <1>3, <1>4, <1>5, <2>2 DEF Withdrawn
    <2>4. Kept'
      BY <1>1, <1>2, <1>3, <1>4, <1>5, <2>2 DEF Kept
    <2>5. Forgets'
      BY <1>1, <1>2, <1>3, <1>4, <1>5, <2>2 DEF Forgets
    <2>6. QED
      BY <2>3, <2>4, <2>5
  <1>11. QED
    BY <1>6, <1>7, <1>8, <1>9, <1>10 DEF IInv

LEMMA SnapshotConsentKeeps ==
    ASSUME IInv, NEW r \in Requests, SnapshotConsent(r)
    PROVE  IInv'
  <1> DEFINE q == [req[r] EXCEPT !.pc = "rename"]
  <1>0. /\ Typed /\ Stores /\ Approval /\ Purpose /\ Durable /\ req[r].pc = "snapshot"
        /\ writer.by = r
    BY DEF IInv, SnapshotConsent
  <1>1. req[r] \in Waiting /\ req[r] # Idle
    BY <1>0, WaitingShape DEF Typed
  <1>2. /\ q \in Waiting /\ q.pc = "rename" /\ q.out = req[r].out /\ q.in = req[r].in
        /\ q.keys = req[r].keys /\ q.code = req[r].code
    BY <1>1, PcShape
  <1>3. /\ writer' = [writer EXCEPT !.consent = consent]
        /\ req' = [req EXCEPT ![r] = q]
        /\ UNCHANGED <<codes, consent, page, disk, store, minted, failed, approved, held, retired,
                       taken, forgotten, forgetting>>
    BY DEF SnapshotConsent, webVars, storeVars, ghosts
  <1> HIDE DEF q
  <1>4. /\ req' \in [Requests -> {Idle} \cup Waiting] /\ req'[r] = q
        /\ \A p \in Requests \ {r} : req'[p] = req[p]
    BY <1>2, <1>3, OneRequest
  <1>5. /\ writer'.by = r /\ writer'.store = writer.store /\ writer'.consent = consent
        /\ DOMAIN writer' = {"by", "store", "consent"} /\ r # None
    BY <1>0, <1>3, WaitingShape DEF Typed
  <1>6. Typed'
    <2>1. \A p \in Requests : req'[p].pc \in {"snapshot", "rename"} <=> writer'.by = p
      BY <1>0, <1>2, <1>4, <1>5 DEF Typed
    <2>2. QED
      BY <1>0, <1>3, <1>4, <1>5, <2>1 DEF Typed
  <1>7. Stores'
    <2>1. Stored(store', minted'.tokens) /\ Stored(writer'.store, minted'.tokens)
          /\ Stored(disk.store', minted'.tokens)
      BY <1>0, <1>3, <1>5 DEF Stores
    <2>2. QED
      BY <1>0, <1>1, <1>2, <1>3, <1>4, <2>1 DEF Stores
  <1>8. Approval'
    <2>1. Recorded(consent)' /\ Recorded(writer.consent)' /\ Recorded(disk.consent)'
      BY <1>0, <1>3, <1>5 DEF Approval, Recorded
    <2>2. QED
      BY <1>0, <1>1, <1>2, <1>3, <1>4, <2>1 DEF Approval
  <1>9. Purpose'
    BY <1>0, <1>1, <1>2, <1>3, <1>4, WaitingShape DEF Purpose
  <1>10. Durable'
    <2>1. SUFFICES ASSUME ~ failed' PROVE Withdrawn' /\ Kept' /\ Forgets'
      BY DEF Durable
    <2>2. Withdrawn /\ Kept /\ Forgets
      BY <1>0, <1>3, <2>1 DEF Durable
    <2>3. Withdrawn'
      BY <1>0, <1>1, <1>2, <1>3, <1>4, <1>5, <2>2 DEF Withdrawn
    <2>4. Kept'
      BY <1>0, <1>1, <1>2, <1>3, <1>4, <1>5, <2>2 DEF Kept
    <2>5. Forgets'
      BY <1>0, <1>1, <1>2, <1>3, <1>4, <1>5, <2>2 DEF Forgets
    <2>6. QED
      BY <2>3, <2>4, <2>5
  <1>11. QED
    BY <1>6, <1>7, <1>8, <1>9, <1>10 DEF IInv

(* A write that was tried, whether it succeeded or was only logged: the    *)
(* request forgets, issues or answers.                                     *)
LEMMA WriteKeeps ==
    ASSUME IInv, NEW r \in Requests, WriteState(r)
    PROVE  IInv'
  <1> DEFINE q == req[r]
             a == AfterWrite(req[r])
             done == AfterWrite(req[r]) = Idle
  <1>0. /\ Typed /\ Stores /\ Approval /\ Purpose /\ Durable /\ q.pc = "rename"
        /\ writer.by = r /\ minted.tokens \in Nat
    BY DEF IInv, WriteState, Typed
  <1>1. q \in Waiting /\ q # Idle /\ r # None
    BY <1>0, WaitingShape DEF Typed
  <1>2. /\ done <=> q.keys = {} /\ q.code = None
        /\ ~ done => /\ a \in Waiting /\ a.out = q.out /\ a.in = q.in
                     /\ a.keys = q.keys /\ a.code = q.code
                     /\ a.pc = IF q.keys # {} THEN "forget" ELSE "issue"
        /\ done => a = Idle
    BY <1>1, AfterWriteShape
  <1>3. /\ writer' = NoWriter /\ req' = [req EXCEPT ![r] = a]
        /\ UNCHANGED <<codes, consent, page, store, minted, approved, taken>>
        /\ Answered(r, q, forgetting[r])
    BY DEF WriteState, webVars, storeVars
  <1>4. \/ disk' = [store |-> writer.store, consent |-> writer.consent] /\ failed' = failed
        \/ disk' = disk /\ failed' = TRUE
    BY DEF WriteState
  <1>5. /\ done => /\ retired' = retired \cup q.out /\ held' = held \cup q.in
                   /\ forgotten' = forgotten \cup forgetting[r]
                   /\ forgetting' = [forgetting EXCEPT ![r] = {}]
        /\ ~ done => /\ forgetting' = [forgetting EXCEPT ![r] = forgetting[r]]
                     /\ retired' = retired /\ held' = held /\ forgotten' = forgotten
    BY <1>3 DEF Answered
  <1>6. ~ done => forgetting[r] = {}
    BY <1>0, <1>2 DEF Purpose
  <1>7. /\ forgetting' \in [Requests -> SUBSET Keys] /\ forgetting'[r] = {}
        /\ \A p \in Requests \ {r} : forgetting'[p] = forgetting[p]
    BY <1>0, <1>5, <1>6 DEF Typed
  <1> HIDE DEF q, a, done
  <1>8. a \in {Idle} \cup Waiting
    BY <1>2
  <1>9. /\ req' \in [Requests -> {Idle} \cup Waiting] /\ req'[r] = a
        /\ \A p \in Requests \ {r} : req'[p] = req[p]
    BY <1>3, <1>8, OneRequest
  <1>10. /\ writer'.by = None /\ writer'.store = NoTokens /\ writer'.consent = Empty
         /\ DOMAIN writer' = {"by", "store", "consent"}
         /\ DOMAIN writer'.store.tokens = {} /\ DOMAIN writer'.consent = {}
    BY <1>3, FileShapes
  <1>11. \/ disk'.store = writer.store /\ disk'.consent = writer.consent /\ failed' = failed
         \/ disk' = disk /\ failed' = TRUE
    BY <1>4
  <1>12. /\ a # Idle => /\ a.out = q.out /\ a.in = q.in /\ a.keys = q.keys /\ a.code = q.code
                        /\ a.pc \in {"forget", "issue"}
                        /\ a.pc = "forget" => a.keys # {}
                        /\ a.pc = "issue" => a.code # None
         /\ a = Idle => a.pc = "idle"
         /\ \A p \in Requests \ {r} : req[p].pc \notin {"snapshot", "rename"}
    <2>1. CASE done
      BY <1>0, <1>2, <2>1, WaitingShape DEF Typed
    <2>2. CASE ~ done
      BY <1>0, <1>2, <2>2, WaitingShape DEF Typed
    <2>3. QED
      BY <2>1, <2>2
  <1>13. Typed'
    <2>1. \A p \in Requests : req'[p].pc \in {"snapshot", "rename"} <=> writer'.by = p
      BY <1>9, <1>10, <1>12, WaitingShape
    <2>2. failed' \in BOOLEAN
      BY <1>0, <1>11 DEF Typed
    <2>3. QED
      BY <1>0, <1>3, <1>7, <1>9, <1>10, <2>1, <2>2 DEF Typed
  <1>14. Stores'
    <2>1. Stored(store', minted'.tokens) /\ Stored(writer'.store, minted'.tokens)
          /\ Stored(disk'.store, minted'.tokens)
      BY <1>0, <1>3, <1>10, <1>11, NoTokensStored DEF Stores
    <2>2. q.in \subseteq 1..minted'.tokens /\ q.out \subseteq 1..minted'.tokens
      BY <1>0, <1>1, <1>3 DEF Stores, q
    <2>3. held' \subseteq 1..minted'.tokens /\ retired' \subseteq 1..minted'.tokens
      BY <1>0, <1>3, <1>5, <2>2 DEF Stores
    <2>4. \A p \in Requests : req'[p] # Idle =>
             req'[p].in \subseteq 1..minted'.tokens /\ req'[p].out \subseteq 1..minted'.tokens
      BY <1>0, <1>3, <1>9, <1>12, <2>2 DEF Stores
    <2>5. QED
      BY <2>1, <2>3, <2>4 DEF Stores
  <1>15. Approval'
    <2>1. Recorded(consent)' /\ Recorded(writer.consent)' /\ Recorded(disk.consent)'
      BY <1>0, <1>3, <1>10, <1>11 DEF Approval, Recorded
    <2>2. \A p \in Requests : req'[p] # Idle /\ req'[p].code # None =>
             <<req'[p].code.key, req'[p].code.meta>> \in approved'
      BY <1>0, <1>1, <1>3, <1>9, <1>12 DEF Approval, q
    <2>3. QED
      BY <1>0, <1>3, <2>1, <2>2 DEF Approval
  <1>16. Purpose'
    <2>1. req'[r] # Idle /\ req'[r].code # None => req'[r].keys = {}
      BY <1>0, <1>1, <1>9, <1>12 DEF Purpose, q
    <2>2. req'[r].pc = "forget" => req'[r].keys # {}
      BY <1>9, <1>12, WaitingShape
    <2>3. req'[r].pc = "issue" => req'[r].code # None
      BY <1>9, <1>12, WaitingShape
    <2>4. QED
      BY <1>0, <1>7, <1>9, <2>1, <2>2, <2>3 DEF Purpose
  <1>17. Durable'
    <2>1. SUFFICES ASSUME ~ failed' PROVE Withdrawn' /\ Kept' /\ Forgets'
      BY DEF Durable
    <2>2. /\ Withdrawn /\ Kept /\ Forgets
          /\ disk'.store = writer.store /\ disk'.consent = writer.consent
      BY <1>0, <1>11, <2>1 DEF Durable
    <2>3. /\ q.out \cap DOMAIN store.tokens = {} /\ q.out \cap DOMAIN writer.store.tokens = {}
          /\ q.in \ taken \subseteq DOMAIN store.tokens
          /\ q.in \ taken \subseteq DOMAIN writer.store.tokens
          /\ forgetting[r] \cap DOMAIN consent = {}
          /\ forgetting[r] \cap DOMAIN writer.consent = {}
      BY <1>0, <1>1, <2>2 DEF Withdrawn, Kept, Forgets, q
    <2>4. Withdrawn'
      <3>1. /\ retired' \cap DOMAIN store.tokens = {}
            /\ retired' \cap DOMAIN writer.store.tokens = {}
        BY <1>5, <2>2, <2>3 DEF Withdrawn
      <3>2. \A p \in Requests : req'[p] # Idle =>
               /\ req'[p].out \cap DOMAIN store.tokens = {}
               /\ req'[p].pc \in {"forget", "issue"} =>
                     req'[p].out \cap DOMAIN writer.store.tokens = {}
        BY <1>9, <1>12, <2>2, <2>3 DEF Withdrawn
      <3>3. QED
        BY <1>3, <1>10, <2>2, <3>1, <3>2 DEF Withdrawn
    <2>5. Kept'
      <3>1. /\ held' \ taken \subseteq DOMAIN store.tokens
            /\ held' \ taken \subseteq DOMAIN writer.store.tokens
        BY <1>0, <1>1, <1>5, <2>2, <2>3 DEF Kept
      <3>2. \A p \in Requests : req'[p] # Idle =>
               /\ req'[p].in \ taken \subseteq DOMAIN store.tokens
               /\ req'[p].pc \in {"forget", "issue"} =>
                     req'[p].in \ taken \subseteq DOMAIN writer.store.tokens
        BY <1>0, <1>1, <1>9, <1>12, <2>2, <2>3 DEF Kept
      <3>3. QED
        BY <1>3, <1>10, <2>2, <3>1, <3>2 DEF Kept
    <2>6. Forgets'
      <3>1. /\ forgotten' \cap DOMAIN consent = {}
            /\ forgotten' \cap DOMAIN writer.consent = {}
        BY <1>5, <2>2, <2>3 DEF Forgets
      <3>2. \A p \in Requests :
               /\ forgetting'[p] \cap DOMAIN consent = {}
               /\ req'[p].pc \in {"forget", "issue"} => forgetting'[p] = {}
        BY <1>7, <1>9, <2>2 DEF Forgets
      <3>3. QED
        BY <1>3, <1>10, <2>2, <3>1, <3>2 DEF Forgets
    <2>7. QED
      BY <2>4, <2>5, <2>6
  <1>18. QED
    BY <1>13, <1>14, <1>15, <1>16, <1>17 DEF IInv

(* An approval is dropped from memory first and from the file with the     *)
(* write that follows; where there was none, the request answers at once.  *)
LEMMA ForgetKeeps ==
    ASSUME IInv, NEW r \in Requests, Forget(r)
    PROVE  IInv'
  <1> DEFINE q == req[r]
             rest == [req[r] EXCEPT !.keys = {}]
             gone == req[r].keys \cap DOMAIN consent
             next == [rest EXCEPT !.pc = "dirty"]
  <1>0. /\ Typed /\ Stores /\ Approval /\ Purpose /\ Durable /\ q.pc = "forget"
    BY DEF IInv, Forget
  <1>1. q \in Waiting /\ q # Idle
    BY <1>0, WaitingShape DEF Typed
  <1>2. q.keys \subseteq Keys /\ q.code = None /\ forgetting[r] = {}
    BY <1>0, <1>1, WaitingShape DEF Purpose
  <1>3. /\ rest \in Waiting /\ rest.out = q.out /\ rest.in = q.in /\ rest.keys = {}
        /\ rest.code = None
    BY <1>1, <1>2 DEF Waiting
  <1>4. AfterWrite(rest) = Idle
    BY <1>3, AfterWriteShape
  <1>5. /\ next \in Waiting /\ next.pc = "dirty" /\ next.out = q.out /\ next.in = q.in
        /\ next.keys = {} /\ next.code = None
    <2> HIDE DEF rest
    <2>1. QED
      BY <1>3, PcShape
  <1>6. /\ consent' = [k \in DOMAIN consent \ gone |-> consent[k]]
        /\ UNCHANGED <<codes, page, store, minted, disk, writer, failed, approved, taken>>
    BY DEF Forget, Without, webVars, storeVars, fileVars
  <1>7. gone = {} => req' = [req EXCEPT ![r] = AfterWrite(rest)] /\ Answered(r, rest, {})
    BY DEF Forget
  <1>8. gone # {} => /\ req' = [req EXCEPT ![r] = next]
                     /\ forgetting' = [forgetting EXCEPT ![r] = gone]
                     /\ UNCHANGED <<retired, held, forgotten>>
    BY DEF Forget
  <1>9. gone \subseteq Keys
    BY <1>2
  <1> HIDE DEF q, rest, gone, next
  <1>10. gone = {} => /\ req' = [req EXCEPT ![r] = Idle]
                      /\ retired' = retired \cup q.out /\ held' = held \cup q.in
                      /\ forgotten' = forgotten
                      /\ forgetting' = [forgetting EXCEPT ![r] = gone]
    BY <1>3, <1>4, <1>7 DEF Answered
  <1>11. /\ forgetting' \in [Requests -> SUBSET Keys] /\ forgetting'[r] = gone
         /\ \A p \in Requests \ {r} : forgetting'[p] = forgetting[p]
    BY <1>0, <1>8, <1>9, <1>10 DEF Typed
  <1>12. PICK a \in {Idle} \cup Waiting :
           /\ req' = [req EXCEPT ![r] = a]
           /\ a # Idle => /\ a.pc = "dirty" /\ a.out = q.out /\ a.in = q.in
                          /\ a.keys = {} /\ a.code = None
           /\ gone # {} => a # Idle
    <2>1. CASE gone = {}
      BY <1>10, <2>1
    <2>2. CASE gone # {}
      BY <1>5, <1>8, <2>2, WaitingShape
    <2>3. QED
      BY <2>1, <2>2
  <1>13. /\ req' \in [Requests -> {Idle} \cup Waiting] /\ req'[r] = a
         /\ \A p \in Requests \ {r} : req'[p] = req[p]
    BY <1>12, OneRequest
  <1>14. a.pc \in {"dirty", "idle"}
    BY <1>12, WaitingShape
  <1>15. /\ DOMAIN consent' = DOMAIN consent \ gone
         /\ \A k \in DOMAIN consent' : consent'[k] = consent[k]
    BY <1>6
  <1>16. \/ retired' = retired /\ held' = held
         \/ retired' = retired \cup q.out /\ held' = held \cup q.in
    BY <1>8, <1>10
  <1>17. forgotten' = forgotten
    BY <1>8, <1>10
  <1>18. Typed'
    <2>1. \A p \in Requests : req'[p].pc \in {"snapshot", "rename"} <=> writer'.by = p
      BY <1>0, <1>6, <1>13, <1>14 DEF Typed, q
    <2>2. QED
      BY <1>0, <1>6, <1>11, <1>13, <2>1 DEF Typed
  <1>19. Stores'
    <2>1. Stored(store', minted'.tokens) /\ Stored(writer'.store, minted'.tokens)
          /\ Stored(disk'.store, minted'.tokens)
      BY <1>0, <1>6 DEF Stores
    <2>2. q.in \subseteq 1..minted'.tokens /\ q.out \subseteq 1..minted'.tokens
      BY <1>0, <1>1, <1>6 DEF Stores, q
    <2>3. held' \subseteq 1..minted'.tokens /\ retired' \subseteq 1..minted'.tokens
      BY <1>0, <1>6, <1>16, <2>2 DEF Stores
    <2>4. \A p \in Requests : req'[p] # Idle =>
             req'[p].in \subseteq 1..minted'.tokens /\ req'[p].out \subseteq 1..minted'.tokens
      BY <1>0, <1>6, <1>12, <1>13, <2>2 DEF Stores
    <2>5. QED
      BY <2>1, <2>3, <2>4 DEF Stores
  <1>20. Approval'
    <2>1. Recorded(consent)' /\ Recorded(writer.consent)' /\ Recorded(disk.consent)'
      BY <1>0, <1>6, <1>15 DEF Approval, Recorded
    <2>2. QED
      BY <1>0, <1>6, <1>12, <1>13, <2>1 DEF Approval
  <1>21. Purpose'
    BY <1>0, <1>11, <1>12, <1>13, <1>14 DEF Purpose
  <1>22. Durable'
    <2>1. SUFFICES ASSUME ~ failed' PROVE Withdrawn' /\ Kept' /\ Forgets'
      BY DEF Durable
    <2>2. Withdrawn /\ Kept /\ Forgets
      BY <1>0, <1>6, <2>1 DEF Durable
    <2>3. /\ q.out \cap DOMAIN store.tokens = {} /\ q.out \cap DOMAIN writer.store.tokens = {}
          /\ q.out \cap DOMAIN disk.store.tokens = {}
          /\ q.in \ taken \subseteq DOMAIN store.tokens
          /\ writer.by # None => q.in \ taken \subseteq DOMAIN writer.store.tokens
          /\ q.in \ taken \subseteq DOMAIN disk.store.tokens
      BY <1>0, <1>1, <2>2 DEF Withdrawn, Kept, q
    <2>4. Withdrawn'
      <3>1. /\ retired' \cap DOMAIN store.tokens = {}
            /\ retired' \cap DOMAIN writer.store.tokens = {}
            /\ retired' \cap DOMAIN disk.store.tokens = {}
        BY <1>16, <2>2, <2>3 DEF Withdrawn
      <3>2. \A p \in Requests : req'[p] # Idle =>
               /\ req'[p].out \cap DOMAIN store.tokens = {}
               /\ req'[p].pc # "dirty" => req'[p].out \cap DOMAIN writer.store.tokens = {}
               /\ req'[p].pc \in {"forget", "issue"} =>
                     req'[p].out \cap DOMAIN disk.store.tokens = {}
        BY <1>12, <1>13, <2>2, <2>3 DEF Withdrawn
      <3>3. QED
        BY <1>6, <3>1, <3>2 DEF Withdrawn
    <2>5. Kept'
      <3>1. /\ held' \ taken \subseteq DOMAIN store.tokens
            /\ writer.by # None => held' \ taken \subseteq DOMAIN writer.store.tokens
            /\ held' \ taken \subseteq DOMAIN disk.store.tokens
        BY <1>16, <2>2, <2>3 DEF Kept
      <3>2. \A p \in Requests : req'[p] # Idle =>
               /\ req'[p].in \ taken \subseteq DOMAIN store.tokens
               /\ req'[p].pc # "dirty" /\ writer.by # None =>
                     req'[p].in \ taken \subseteq DOMAIN writer.store.tokens
               /\ req'[p].pc \in {"forget", "issue"} =>
                     req'[p].in \ taken \subseteq DOMAIN disk.store.tokens
        BY <1>12, <1>13, <2>2, <2>3 DEF Kept
      <3>3. QED
        BY <1>6, <3>1, <3>2 DEF Kept
    <2>6. Forgets'
      <3>1. /\ forgotten' \cap DOMAIN consent' = {}
            /\ forgotten' \cap DOMAIN writer.consent = {}
            /\ forgotten' \cap DOMAIN disk.consent = {}
        BY <1>15, <1>17, <2>2 DEF Forgets
      <3>2. \A p \in Requests :
               /\ forgetting'[p] \cap DOMAIN consent' = {}
               /\ req'[p].pc \in {"snapshot", "rename"} =>
                     forgetting'[p] \cap DOMAIN writer.consent = {}
               /\ req'[p].pc \in {"forget", "issue"} => forgetting'[p] = {}
        BY <1>11, <1>13, <1>14, <1>15, <2>2 DEF Forgets
      <3>3. QED
        BY <1>6, <3>1, <3>2 DEF Forgets
    <2>7. QED
      BY <2>4, <2>5, <2>6
  <1>23. QED
    BY <1>18, <1>19, <1>20, <1>21, <1>22 DEF IInv

(* What comes back after the process ended is what the file held, without  *)
(* the families and the approvals that lapsed since.                       *)
LEMMA CrashKeeps ==
    ASSUME IInv, Crash
    PROVE  IInv'
  <1>0. /\ Typed /\ Stores /\ Approval /\ Purpose /\ Durable
    BY DEF IInv
  <1>1. /\ store' = RestoredTokens(disk.store) /\ writer' = NoWriter
        /\ consent' = [k \in {j \in DOMAIN disk.consent : ~ disk.consent[j].lapsed} |->
                          disk.consent[k]]
        /\ codes' = Empty /\ req' = [r \in Requests |-> Idle]
        /\ forgetting' = [r \in Requests |-> {}]
        /\ taken' = taken \cup (DOMAIN disk.store.tokens \ DOMAIN store'.tokens)
        /\ UNCHANGED <<page, disk, minted, failed, approved, held, retired, forgotten>>
    BY DEF Crash, RestoredConsent
  <1>2. Stored(store', minted.tokens)
    BY <1>0, <1>1, RestoredStored DEF Stores
  <1>3. DOMAIN store'.tokens \subseteq DOMAIN disk.store.tokens
    BY <1>1 DEF RestoredTokens
  <1>4. /\ writer'.by = None /\ writer'.store = NoTokens /\ writer'.consent = Empty
        /\ DOMAIN writer' = {"by", "store", "consent"}
        /\ DOMAIN writer'.store.tokens = {} /\ DOMAIN writer'.consent = {}
        /\ DOMAIN codes' = {}
    BY <1>1, FileShapes
  <1>5. /\ DOMAIN consent' \subseteq DOMAIN disk.consent
        /\ \A k \in DOMAIN consent' : consent'[k] = disk.consent[k]
    BY <1>1
  <1>6. Typed'
    <2>1. \A p \in Requests : req'[p].pc \in {"snapshot", "rename"} <=> writer'.by = p
      BY <1>1, <1>4, WaitingShape
    <2>2. req' \in [Requests -> {Idle} \cup Waiting] /\ forgetting' \in [Requests -> SUBSET Keys]
      BY <1>1
    <2>3. QED
      BY <1>0, <1>1, <1>4, <2>1, <2>2 DEF Typed
  <1>7. Stores'
    <2>1. Stored(writer'.store, minted.tokens)
      BY <1>4, NoTokensStored
    <2>2. QED
      BY <1>0, <1>1, <1>2, <2>1 DEF Stores
  <1>8. Approval'
    <2>1. Recorded(consent)' /\ Recorded(writer.consent)' /\ Recorded(disk.consent)'
      BY <1>0, <1>1, <1>4, <1>5 DEF Approval, Recorded
    <2>2. QED
      BY <1>1, <1>4, <2>1 DEF Approval
  <1>9. Purpose'
    BY <1>1, WaitingShape DEF Purpose
  <1>10. Durable'
    <2>1. SUFFICES ASSUME ~ failed' PROVE Withdrawn' /\ Kept' /\ Forgets'
      BY DEF Durable
    <2>2. Withdrawn /\ Kept /\ Forgets
      BY <1>0, <1>1, <2>1 DEF Durable
    <2>3. Withdrawn'
      BY <1>1, <1>3, <1>4, <2>2 DEF Withdrawn
    <2>4. Kept'
      BY <1>1, <1>3, <1>4, <2>2 DEF Kept
    <2>5. Forgets'
      BY <1>1, <1>4, <1>5, <2>2, WaitingShape DEF Forgets
    <2>6. QED
      BY <2>3, <2>4, <2>5
  <1>11. QED
    BY <1>6, <1>7, <1>8, <1>9, <1>10 DEF IInv

----------------------------------------------------------------------------
LEMMA InitSound ==
    ASSUME Init
    PROVE  IInv
  <1>1. /\ page = [s \in Subjects |-> None] /\ codes = Empty /\ store = NoTokens
        /\ consent = Empty /\ writer = NoWriter /\ req = [r \in Requests |-> Idle]
        /\ disk.store = NoTokens /\ disk.consent = Empty
        /\ minted = [tokens |-> 0, codes |-> 0] /\ failed = FALSE
        /\ approved = {} /\ held = {} /\ retired = {} /\ taken = {} /\ forgotten = {}
        /\ forgetting = [r \in Requests |-> {}]
    BY DEF Init, NoFile
  <1>2. Typed
    BY <1>1, FileShapes, WaitingShape DEF Typed
  <1>3. Stores
    BY <1>1, FileShapes, NoTokensStored DEF Stores
  <1>4. Approval
    BY <1>1, FileShapes DEF Approval, Recorded
  <1>5. Purpose
    BY <1>1, WaitingShape DEF Purpose
  <1>6. Durable
    BY <1>1, FileShapes, WaitingShape DEF Durable, Withdrawn, Kept, Forgets
  <1>7. QED
    BY <1>2, <1>3, <1>4, <1>5, <1>6 DEF IInv

LEMMA StutterKeeps ==
    ASSUME IInv, UNCHANGED allVars
    PROVE  IInv'
  <1>1. /\ UNCHANGED <<req, store, disk, writer, failed, held, retired, taken, forgotten,
                       forgetting, minted, page, consent, approved, codes>>
    BY DEF allVars, vars, ghosts
  <1>2. Approval'
    BY <1>1 DEF IInv, Approval, Recorded
  <1>3. QED
    BY <1>1, <1>2, SteadyKeeps DEF IInv, Typed

LEMMA StepKeeps ==
    ASSUME IInv, [Next]_allVars
    PROVE  IInv'
  <1>1. CASE UNCHANGED allVars
    BY <1>1, StutterKeeps
  <1>2. ASSUME NEW r \in Requests,
               \/ SnapshotTokens(r) \/ SnapshotConsent(r) \/ WriteState(r)
               \/ IssueAfterApproval(r) \/ Forget(r)
        PROVE  IInv'
    BY <1>2, SnapshotTokensKeep, SnapshotConsentKeeps, WriteKeeps, IssueKeeps, ForgetKeeps
  <1>3. ASSUME NEW r \in Requests, NEW k \in Keys, AuthorizeGET(r, k) PROVE IInv'
    BY <1>3, WebKeeps
  <1>4. ASSUME NEW r \in Requests, NEW s \in Subjects,
               DenyPOST(r, s) \/ RepromptPOST(r, s) \/ ApprovePOST(r, s) \/ RevokeSubject(r, s)
        PROVE  IInv'
    BY <1>4, WebKeeps, ApproveKeeps, TokensKeep
  <1>5. ASSUME NEW r \in Requests, NEW c \in Codes, RedeemCode(r, c) PROVE IInv'
    BY <1>5, RedeemKeeps
  <1>6. ASSUME NEW r \in Requests, NEW t \in Tokens,
               Rotate(r, t) \/ DetectTheft(r, t) \/ RotateExpired(r, t) \/ HandleRevoke(r, t)
        PROVE  IInv'
    BY <1>6, RotateKeeps, TokensKeep
  <1>7. CASE \/ \E c \in Verified : CacheLapses(c)
             \/ \E c \in Codes : SpendCode(c)
             \/ \E g \in Tokens : GrantLapses(g)
             \/ \E k \in Keys : ConsentLapses(k)
    BY <1>7, WebKeeps
  <1>8. CASE Crash
    BY <1>8, CrashKeeps
  <1>9. QED
    BY <1>1, <1>2, <1>3, <1>4, <1>5, <1>6, <1>7, <1>8 DEF Next

(* The stores, the file, the writer and every request keep in step: what a *)
(* request withdrew is out of the store when it is dirty, out of the       *)
(* snapshot when it writes and out of the file when it goes on.            *)
THEOREM StoresStaySound == Spec => []IInv
  <1>1. Init => IInv
    BY InitSound
  <1>2. IInv /\ [Next]_allVars => IInv'
    BY StepKeeps
  <1>3. QED
    BY <1>1, <1>2, PTL DEF Spec

(* RefreshTokenStore: in memory and in the file, every grant family has    *)
(* one live token, and its history is the consumed tokens followed by it,  *)
(* however long the family and however short the history that is kept.     *)
THEOREM FamiliesHaveOneLive == Spec => []OneLivePerFamily
  <1>1. IInv => OneLivePerFamily
    BY FamiliesSound DEF IInv, Stores, OneLivePerFamily
  <1>2. QED
    BY <1>1, StoresStaySound, PTL

(* handleAuthorizeGET and handleAuthorizePOST: a code is issued only for a *)
(* document a person approved as it stood, however often the client        *)
(* changes it between the page, the form and a later visit.                *)
THEOREM CodesWereApproved == Spec => []ApprovedAsShown
  <1>1. IInv => ApprovedAsShown
    BY DEF IInv, Approval, ApprovedAsShown
  <1>2. QED
    BY <1>1, StoresStaySound, PTL

(* stateFile and its callers: while every write succeeds, no end of the    *)
(* process brings back a token or an approval whose withdrawal was         *)
(* answered, and none loses a token that was handed out.                   *)
THEOREM AnswersSurvive == Spec => []AnswersAreDurable
  <1>1. IInv => TypeOK
    BY DEF IInv, Typed, Stores, Stored, Approval, Recorded, Approvals, TypeOK
  <1>2. IInv => WithdrawnStaysOut /\ HeldIsDurable /\ ForgottenStaysForgotten
    BY DEF IInv, Durable, Withdrawn, Kept, Forgets, WithdrawnStaysOut, HeldIsDurable,
           ForgottenStaysForgotten
  <1>3. IInv => AnswersAreDurable
    BY <1>1, <1>2 DEF AnswersAreDurable
  <1>4. QED
    BY <1>3, StoresStaySound, PTL
=============================================================================
