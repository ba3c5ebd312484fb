---------------------------- MODULE CacheProofs ----------------------------
(***************************************************************************)
(* Proofs about Cache, for every set of services, tasks, members, stacks,  *)
(* nodes, writers, and every content those objects may have.               *)
(***************************************************************************)
EXTENDS Cache, TLAPS

(***************************************************************************)
(* Stacks.  Each incremental operator, applied to a rebuild, is the        *)
(* rebuild of the changed maps.                                            *)
(***************************************************************************)
LEMMA RebuildType ==
    ASSUME NEW svcs \in [Services -> Stored], NEW mems \in [Members -> Stored]
    PROVE  rebuildStacks(svcs, mems) \in [Stacks -> Entry \cup {NoEntry}]
  BY DEF rebuildStacks, Entry, ServicesIn, MembersIn

Full(S, M) == [services |-> S, members |-> M]

LEMMA FullFields ==
    ASSUME NEW S, NEW M
    PROVE  /\ Full(S, M).services = S
           /\ Full(S, M).members = M
           /\ \A X : [Full(S, M) EXCEPT !.services = X] = Full(X, M)
           /\ \A X : [Full(S, M) EXCEPT !.members = X] = Full(S, X)
  BY DEF Full

LEMMA FullEntry ==
    ASSUME NEW S \in SUBSET Services, NEW M \in SUBSET Members
    PROVE  Full(S, M) \in Entry /\ Full(S, M) # NoEntry
  BY EntryAssumption DEF EntryAssumption, Full, Entry

\* What a rebuild holds at one name.
LEMMA RebuildAt ==
    ASSUME NEW svcs \in [Services -> Stored], NEW mems \in [Members -> Stored],
           NEW n \in Stacks
    PROVE  /\ ServicesIn(n, svcs) = {} => rebuildStacks(svcs, mems)[n] = NoEntry
           /\ ServicesIn(n, svcs) # {} =>
                 /\ rebuildStacks(svcs, mems)[n] =
                        Full(ServicesIn(n, svcs), MembersIn(n, mems))
                 /\ rebuildStacks(svcs, mems)[n] # NoEntry
  <1>1. ServicesIn(n, svcs) \in SUBSET Services
        /\ MembersIn(n, mems) \in SUBSET Members
    BY DEF ServicesIn, MembersIn
  <1>2. QED
    BY <1>1, FullEntry DEF rebuildStacks, Full

LEMMA AddServiceRebuilds ==
    ASSUME NEW svcs \in [Services -> Stored], NEW mems \in [Members -> Stored],
           NEW s \in Services, NEW v \in Versions, svcs[s] = Absent
    PROVE  addServiceToStack(rebuildStacks(svcs, mems), s, v, mems) =
           rebuildStacks([svcs EXCEPT ![s] = v], mems)
  <1> DEFINE st  == rebuildStacks(svcs, mems)
             new == [svcs EXCEPT ![s] = v]
             n   == ServiceStack[s][v]
             e   == IF st[n] # NoEntry THEN st[n] ELSE seedStack(n, mems)
             put == [e EXCEPT !.services = e.services \cup {s}]
  <1>1. v \in Stored /\ v # Absent /\ n \in Stacks \cup {NoStack}
    BY ContentAssumption, BoundsAssumption
       DEF ContentAssumption, BoundsAssumption, Versions, Stored, Absent
  <1>2. new \in [Services -> Stored]
    BY <1>1
  <1>3. ASSUME NEW k \in Stacks
        PROVE  ServicesIn(k, new) = IF k = n THEN ServicesIn(k, svcs) \cup {s}
                                    ELSE ServicesIn(k, svcs)
    BY <1>1 DEF ServicesIn
  <1>4. addServiceToStack(st, s, v, mems) =
            IF n = NoStack THEN st ELSE [st EXCEPT ![n] = put]
    BY DEF addServiceToStack
  <1>5. st \in [Stacks -> Entry \cup {NoEntry}] /\ rebuildStacks(new, mems) \in [Stacks -> Entry \cup {NoEntry}]
    BY <1>2, RebuildType
  <1>6. CASE n = NoStack
    <2>1. \A k \in Stacks : ServicesIn(k, new) = ServicesIn(k, svcs)
      BY <1>3, <1>6, NamingAssumption DEF NamingAssumption
    <2>2. rebuildStacks(new, mems) = st
      BY <2>1 DEF rebuildStacks
    <2>3. QED
      BY <1>4, <1>6, <2>2
  <1>7. CASE n # NoStack
    <2>1. n \in Stacks
      BY <1>1, <1>7
    <2>2. put = Full(ServicesIn(n, svcs) \cup {s}, MembersIn(n, mems))
      <3>1. seedStack(n, mems) = Full({}, MembersIn(n, mems))
        BY DEF seedStack, MembersIn, Full
      <3>2. e = Full(ServicesIn(n, svcs), MembersIn(n, mems))
        <4>1. CASE ServicesIn(n, svcs) = {}
          BY <4>1, <3>1, <2>1, RebuildAt
        <4>2. CASE ServicesIn(n, svcs) # {}
          BY <4>2, <2>1, RebuildAt
        <4>3. QED
          BY <4>1, <4>2
      <3> HIDE DEF e
      <3>3. QED
        BY <3>2 DEF Full
    <2>3. rebuildStacks(new, mems)[n] = put
      <3>1. ServicesIn(n, new) = ServicesIn(n, svcs) \cup {s}
        BY <2>1, <1>3
      <3> HIDE DEF new, put
      <3>2. QED
        BY <2>1, <2>2, <3>1, <1>2, RebuildAt
    <2>4. ASSUME NEW k \in Stacks, k # n
          PROVE  rebuildStacks(new, mems)[k] = st[k]
      <3>1. ServicesIn(k, new) = ServicesIn(k, svcs)
        BY <2>4, <1>3
      <3> HIDE DEF new
      <3>2. QED
        BY <3>1, <1>2, RebuildAt
    <2>5. [st EXCEPT ![n] = put] = rebuildStacks(new, mems)
      <3> HIDE DEF st, new, put, n
      <3> QED
        BY <2>1, <2>3, <2>4, <1>5
    <2>6. QED
      BY <1>4, <1>7, <2>5
  <1>8. QED
    BY <1>6, <1>7

LEMMA RemoveServiceRebuilds ==
    ASSUME NEW svcs \in [Services -> Stored], NEW mems \in [Members -> Stored],
           NEW s \in Services, svcs[s] # Absent
    PROVE  removeServiceFromStack(rebuildStacks(svcs, mems), s, svcs[s]) =
           rebuildStacks([svcs EXCEPT ![s] = Absent], mems)
  <1> DEFINE st  == rebuildStacks(svcs, mems)
             new == [svcs EXCEPT ![s] = Absent]
             n   == ServiceStack[s][svcs[s]]
             cut == [st[n] EXCEPT !.services = st[n].services \ {s}]
  <1>1. svcs[s] \in Versions /\ Absent \in Stored /\ n \in Stacks \cup {NoStack}
    BY ContentAssumption, BoundsAssumption
       DEF ContentAssumption, BoundsAssumption, Versions, Stored, Absent
  <1>2. new \in [Services -> Stored]
    BY <1>1
  <1>3. ASSUME NEW k \in Stacks
        PROVE  /\ ServicesIn(k, new) = ServicesIn(k, svcs) \ {s}
               /\ k # n => ServicesIn(k, new) = ServicesIn(k, svcs)
    BY <1>1 DEF ServicesIn
  <1>4. removeServiceFromStack(st, s, svcs[s]) =
            IF n = NoStack \/ st[n] = NoEntry THEN st
            ELSE [st EXCEPT ![n] = Kept(cut)]
    BY DEF removeServiceFromStack
  <1>5. st \in [Stacks -> Entry \cup {NoEntry}] /\ rebuildStacks(new, mems) \in [Stacks -> Entry \cup {NoEntry}]
    BY <1>2, RebuildType
  <1>6. CASE n = NoStack
    <2>1. \A k \in Stacks : ServicesIn(k, new) = ServicesIn(k, svcs)
      BY <1>3, <1>6, NamingAssumption DEF NamingAssumption
    <2>2. rebuildStacks(new, mems) = st
      BY <2>1 DEF rebuildStacks
    <2>3. QED
      BY <1>4, <1>6, <2>2
  <1>7. CASE n # NoStack
    <2>1. n \in Stacks
      BY <1>1, <1>7
    <2>2. s \in ServicesIn(n, svcs)
      BY DEF ServicesIn
    <2>3. st[n] = Full(ServicesIn(n, svcs), MembersIn(n, mems))
      BY <2>1, <2>2, RebuildAt
    <2>4. cut = Full(ServicesIn(n, new), MembersIn(n, mems))
      <3>1. ServicesIn(n, new) = ServicesIn(n, svcs) \ {s}
        BY <2>1, <1>3
      <3> HIDE DEF st, new
      <3>2. QED
        BY <2>3, <3>1 DEF Full
    <2>5. rebuildStacks(new, mems)[n] = Kept(cut)
      <3> HIDE DEF cut, new
      <3>1. cut.services = ServicesIn(n, new)
        BY <2>4, FullFields
      <3>2. QED
        BY <2>1, <2>4, <3>1, <1>2, RebuildAt DEF Kept
    <2>6. ASSUME NEW k \in Stacks, k # n
          PROVE  rebuildStacks(new, mems)[k] = st[k]
      <3>1. ServicesIn(k, new) = ServicesIn(k, svcs)
        BY <2>6, <1>3
      <3> HIDE DEF new
      <3>2. QED
        BY <3>1, <1>2, RebuildAt
    <2>7. [st EXCEPT ![n] = Kept(cut)] = rebuildStacks(new, mems)
      <3> HIDE DEF st, new, cut, n
      <3> QED
        BY <2>1, <2>5, <2>6, <1>5
    <2>8. st[n] # NoEntry
      BY <2>1, <2>2, RebuildAt
    <2>9. QED
      BY <1>4, <1>7, <2>7, <2>8
  <1>8. QED
    BY <1>6, <1>7

LEMMA AddMemberRebuilds ==
    ASSUME NEW svcs \in [Services -> Stored], NEW mems \in [Members -> Stored],
           NEW m \in Members, NEW v \in Versions, mems[m] = Absent,
           NEW new \in [Members -> Stored], new[m] = v,
           \A x \in Members : x # m => new[x] = mems[x]
    PROVE  addMemberToStack(rebuildStacks(svcs, mems), m, v) =
           rebuildStacks(svcs, new)
  <1> DEFINE st  == rebuildStacks(svcs, mems)
             n   == MemberStack[m][v]
             put == [st[n] EXCEPT !.members = st[n].members \cup {m}]
  <1>1. v \in Stored /\ v # Absent /\ n \in Stacks \cup {NoStack}
    BY ContentAssumption, BoundsAssumption
       DEF ContentAssumption, BoundsAssumption, Versions, Stored, Absent
  <1>2. new \in [Members -> Stored]
    OBVIOUS
  <1>3. ASSUME NEW k \in Stacks
        PROVE  /\ k = n => MembersIn(k, new) = MembersIn(k, mems) \cup {m}
               /\ k # n => MembersIn(k, new) = MembersIn(k, mems)
    BY <1>1 DEF MembersIn
  <1>4. addMemberToStack(st, m, v) =
            IF n = NoStack \/ st[n] = NoEntry THEN st
            ELSE [st EXCEPT ![n] = put]
    BY DEF addMemberToStack
  <1>5. st \in [Stacks -> Entry \cup {NoEntry}]
        /\ rebuildStacks(svcs, new) \in [Stacks -> Entry \cup {NoEntry}]
    BY <1>2, RebuildType
  <1>6. ASSUME NEW k \in Stacks, k # n
        PROVE  rebuildStacks(svcs, new)[k] = st[k]
    <2>1. MembersIn(k, new) = MembersIn(k, mems)
      BY <1>6, <1>3
    <2>2. QED
      BY <2>1, <1>2, RebuildAt
  <1>7. CASE n = NoStack
    <2>1. \A k \in Stacks : k # n
      BY <1>7, NamingAssumption DEF NamingAssumption
    <2>2. rebuildStacks(svcs, new) = st
      <3> HIDE DEF st, n
      <3> QED
        BY <2>1, <1>5, <1>6
    <2>3. QED
      BY <1>4, <1>7, <2>2
  <1>8. CASE n # NoStack /\ ServicesIn(n, svcs) = {}
    <2>1. n \in Stacks
      BY <1>1, <1>8
    <2>2. st[n] = NoEntry /\ rebuildStacks(svcs, new)[n] = NoEntry
      <3> QED
        BY <2>1, <1>2, <1>8, RebuildAt
    <2>3. rebuildStacks(svcs, new) = st
      <3> HIDE DEF st, n
      <3> QED
        BY <2>1, <2>2, <1>5, <1>6
    <2>4. QED
      BY <1>4, <2>2, <2>3
  <1>9. CASE n # NoStack /\ ServicesIn(n, svcs) # {}
    <2>1. n \in Stacks
      BY <1>1, <1>9
    <2>2. st[n] = Full(ServicesIn(n, svcs), MembersIn(n, mems)) /\ st[n] # NoEntry
      BY <2>1, <1>9, RebuildAt
    <2>3. put = Full(ServicesIn(n, svcs), MembersIn(n, new))
      <3>1. MembersIn(n, new) = MembersIn(n, mems) \cup {m}
        BY <2>1, <1>3
      <3> HIDE DEF st
      <3>2. QED
        BY <2>2, <3>1 DEF Full
    <2>4. rebuildStacks(svcs, new)[n] = put
      <3> HIDE DEF put
      <3>1. put.services = ServicesIn(n, svcs)
        BY <2>3, FullFields
      <3>2. QED
        BY <2>1, <2>3, <3>1, <1>2, <1>9, RebuildAt DEF Kept
    <2>5. [st EXCEPT ![n] = put] = rebuildStacks(svcs, new)
      <3> HIDE DEF st, put, n
      <3> QED
        BY <2>1, <2>4, <1>5, <1>6
    <2>6. QED
      BY <1>4, <1>9, <2>2, <2>5
  <1>10. QED
    BY <1>7, <1>8, <1>9

LEMMA RemoveMemberRebuilds ==
    ASSUME NEW svcs \in [Services -> Stored], NEW mems \in [Members -> Stored],
           NEW m \in Members, mems[m] # Absent,
           NEW new \in [Members -> Stored], new[m] = Absent,
           \A x \in Members : x # m => new[x] = mems[x]
    PROVE  removeMemberFromStack(rebuildStacks(svcs, mems), m, mems[m]) =
           rebuildStacks(svcs, new)
  <1> DEFINE st  == rebuildStacks(svcs, mems)
             n   == MemberStack[m][mems[m]]
             put == [st[n] EXCEPT !.members = st[n].members \ {m}]
  <1>1. mems[m] \in Versions /\ Absent \in Stored /\ n \in Stacks \cup {NoStack}
    BY ContentAssumption, BoundsAssumption
       DEF ContentAssumption, BoundsAssumption, Versions, Stored, Absent
  <1>2. new \in [Members -> Stored]
    OBVIOUS
  <1>3. ASSUME NEW k \in Stacks
        PROVE  /\ k = n => MembersIn(k, new) = MembersIn(k, mems) \ {m}
               /\ k # n => MembersIn(k, new) = MembersIn(k, mems)
    BY <1>1 DEF MembersIn
  <1>4. removeMemberFromStack(st, m, mems[m]) =
            IF n = NoStack \/ st[n] = NoEntry THEN st
            ELSE [st EXCEPT ![n] = Kept(put)]
    BY DEF removeMemberFromStack
  <1>5. st \in [Stacks -> Entry \cup {NoEntry}]
        /\ rebuildStacks(svcs, new) \in [Stacks -> Entry \cup {NoEntry}]
    BY <1>2, RebuildType
  <1>6. ASSUME NEW k \in Stacks, k # n
        PROVE  rebuildStacks(svcs, new)[k] = st[k]
    <2>1. MembersIn(k, new) = MembersIn(k, mems)
      BY <1>6, <1>3
    <2>2. QED
      BY <2>1, <1>2, RebuildAt
  <1>7. CASE n = NoStack
    <2>1. \A k \in Stacks : k # n
      BY <1>7, NamingAssumption DEF NamingAssumption
    <2>2. rebuildStacks(svcs, new) = st
      <3> HIDE DEF st, n
      <3> QED
        BY <2>1, <1>5, <1>6
    <2>3. QED
      BY <1>4, <1>7, <2>2
  <1>8. CASE n # NoStack /\ ServicesIn(n, svcs) = {}
    <2>1. n \in Stacks
      BY <1>1, <1>8
    <2>2. st[n] = NoEntry /\ rebuildStacks(svcs, new)[n] = NoEntry
      <3> QED
        BY <2>1, <1>2, <1>8, RebuildAt
    <2>3. rebuildStacks(svcs, new) = st
      <3> HIDE DEF st, n
      <3> QED
        BY <2>1, <2>2, <1>5, <1>6
    <2>4. QED
      BY <1>4, <2>2, <2>3
  <1>9. CASE n # NoStack /\ ServicesIn(n, svcs) # {}
    <2>1. n \in Stacks
      BY <1>1, <1>9
    <2>2. st[n] = Full(ServicesIn(n, svcs), MembersIn(n, mems)) /\ st[n] # NoEntry
      BY <2>1, <1>9, RebuildAt
    <2>3. put = Full(ServicesIn(n, svcs), MembersIn(n, new))
      <3>1. MembersIn(n, new) = MembersIn(n, mems) \ {m}
        BY <2>1, <1>3
      <3>2. st[n].members \ {m} = MembersIn(n, new)
        BY <2>2, <3>1, FullFields
      <3>3. [Full(ServicesIn(n, svcs), MembersIn(n, mems)) EXCEPT
                 !.members = MembersIn(n, new)]
            = Full(ServicesIn(n, svcs), MembersIn(n, new))
        BY FullFields
      <3>4. QED
        BY <2>2, <3>2, <3>3
    <2>4. rebuildStacks(svcs, new)[n] = Kept(put)
      <3> HIDE DEF put
      <3>1. put.services = ServicesIn(n, svcs)
        BY <2>3, FullFields
      <3>2. QED
        BY <2>1, <2>3, <3>1, <1>2, <1>9, RebuildAt DEF Kept
    <2>5. [st EXCEPT ![n] = Kept(put)] = rebuildStacks(svcs, new)
      <3> HIDE DEF st, put, n
      <3> QED
        BY <2>1, <2>4, <1>5, <1>6
    <2>6. QED
      BY <1>4, <1>9, <2>2, <2>5
  <1>10. QED
    BY <1>7, <1>8, <1>9

(***************************************************************************)
(* What the operators on references and indexes return.                    *)
(***************************************************************************)
LEMMA RefsType ==
    ASSUME NEW s \in Services, NEW v \in Stored
    PROVE  /\ RefsOf(s, v) \in [Members -> RefKinds]
           /\ v # Absent => serviceRefs(s, v) = RefsOf(s, v)
           /\ NoRefs \in [Members -> RefKinds]
  BY DEF RefsOf, NoRefs, serviceRefs, RefKinds

LEMMA ReindexRefsType ==
    ASSUME NEW idx \in [Members -> [Services -> RefKinds]], NEW s \in Services,
           NEW oldRefs \in [Members -> RefKinds],
           NEW newRefs \in [Members -> RefKinds]
    PROVE  reindexRefs(idx, s, oldRefs, newRefs)
               \in [Members -> [Services -> RefKinds]]
  BY DEF reindexRefs, RefKinds

LEMMA RefNotesType ==
    ASSUME NEW oldRefs, NEW newRefs
    PROVE  notifyRefChanges(oldRefs, newRefs) \in SUBSET Notes
  BY DEF notifyRefChanges, Notes

LEMMA ReindexTaskType ==
    ASSUME NEW P, NEW by \in [P -> SUBSET Tasks], NEW t \in Tasks,
           NEW from, NEW to
    PROVE  reindexTask(by, t, from, to) \in [P -> SUBSET Tasks]
  BY DEF reindexTask

LEMMA KeepNewerType ==
    ASSUME NEW X, NEW listed \in [X -> Stored], NEW cached \in [X -> Stored]
    PROVE  keepNewer(listed, cached) \in [X -> Stored]
  BY DEF keepNewer, Newer, Stored, Absent

(***************************************************************************)
(* The inductive invariant.                                                *)
(***************************************************************************)
Derived == StacksDerived /\ IndexesDerived /\ RefsDerived /\ NamesSound
           /\ GoneHaveTasks
IInv == TypeOK /\ Derived

LEMMA VersionFacts ==
    /\ Absent \in Stored
    /\ Versions \subseteq Stored
    /\ \A v \in Stored : v # Absent <=> v \in Versions
    /\ \A v \in Versions : v # Absent
  BY BoundsAssumption DEF BoundsAssumption, Versions, Stored, Absent

LEMMA InitIInv == Init => IInv
  <1> SUFFICES ASSUME Init PROVE IInv
    OBVIOUS
  <1>1. TypeOK
    <2>1. NoSnapshot \in Contents /\ Nothing \in Owed
      BY VersionFacts, BoundsAssumption
         DEF NoSnapshot, Contents, BoundsAssumption, Nothing, Owed
    <2>2. NoCopy \in [busy: BOOLEAN, maps: Contents]
      BY <2>1 DEF NoCopy
    <2>3. serviceRef \in [Members -> [Services -> RefKinds]]
      BY DEF Init, RefKinds
    <2>4. lives \in 0..MaxRestarts
      BY BoundsAssumption DEF Init, BoundsAssumption
    <2>5. restarts \in [Tasks -> 0..MaxRecords]
      BY BoundsAssumption DEF Init, BoundsAssumption
    <2>6. QED
      BY <2>1, <2>2, <2>3, <2>4, <2>5, VersionFacts DEF Init, TypeOK
  <1>2. StacksDerived
    BY DEF Init, StacksDerived, rebuildStacks, ServicesIn
  <1>3. IndexesDerived
    BY DEF Init, IndexesDerived
  <1>4. RefsDerived
    BY DEF Init, RefsDerived, rebuildRefs, RefsOf, NoRefs
  <1>5. NamesSound /\ GoneHaveTasks
    BY DEF Init, NamesSound, GoneHaveTasks
  <1>6. QED
    BY <1>1, <1>2, <1>3, <1>4, <1>5 DEF IInv, Derived

\* The effects a write owes are well typed.
LEMMA OwesType ==
    ASSUME NEW w \in Writers, NEW e \in Owed, todo \in [Writers -> Owed],
           Owes(w, e)
    PROVE  todo' \in [Writers -> Owed]
  BY DEF Owes

LEMMA OwedParts ==
    ASSUME NEW F \in SUBSET Services, NEW R \in SUBSET Tasks,
           NEW N \in SUBSET Notes, NEW E \in SUBSET Notes
    PROVE  /\ [Nothing EXCEPT !.note = N] \in Owed
           /\ [Nothing EXCEPT !.note = N, !.refs = E] \in Owed
           /\ [Nothing EXCEPT !.record = R, !.note = N] \in Owed
           /\ [Nothing EXCEPT !.forget = F, !.note = N, !.refs = E] \in Owed
  BY DEF Nothing, Owed

\* The reverse references follow one service.
LEMMA ReindexRefsDerived ==
    ASSUME NEW svcs \in [Services -> Stored], NEW s \in Services,
           NEW v \in Stored
    PROVE  reindexRefs([m \in Members |-> [x \in Services |->
                            RefsOf(x, svcs[x])[m]]],
                       s, RefsOf(s, svcs[s]), RefsOf(s, v)) =
           [m \in Members |-> [x \in Services |->
                RefsOf(x, [svcs EXCEPT ![s] = v][x])[m]]]
  <1>1. RefsOf(s, v) \in [Members -> RefKinds]
        /\ RefsOf(s, svcs[s]) \in [Members -> RefKinds]
    BY RefsType
  <1>2. QED
    BY <1>1 DEF reindexRefs

LEMMA SetServiceStep ==
    ASSUME IInv, NEW w \in Writers, NEW s \in Services, NEW v \in Versions,
           SetService(w, s, v)
    PROVE  IInv'
  <1> USE DEF IInv, Derived
  <1> DEFINE old == services[s]
             none == [services EXCEPT ![s] = Absent]
             owed == [Nothing EXCEPT !.note = {<<"service", s>>},
                        !.refs = notifyRefChanges(RefsOf(s, old), serviceRefs(s, v))]
  <1>1. services' = [services EXCEPT ![s] = v] /\ services' \in [Services -> Stored]
        /\ none \in [Services -> Stored]
    BY VersionFacts DEF SetService, TypeOK
  <1>2. stacks' = rebuildStacks(services', members')
    <2>1. (IF old = Absent THEN stacks ELSE removeServiceFromStack(stacks, s, old))
              = rebuildStacks(none, members)
      <3>1. CASE old = Absent
        <4>1. none = services
          BY <3>1 DEF TypeOK
        <4>2. QED
          BY <3>1, <4>1 DEF StacksDerived
      <3>2. CASE old # Absent
        BY <3>2, RemoveServiceRebuilds DEF TypeOK, StacksDerived
      <3>3. QED
        BY <3>1, <3>2
    <2>2. stacks' = addServiceToStack(rebuildStacks(none, members), s, v, members)
      BY <2>1 DEF SetService
    <2>3. none[s] = Absent /\ members \in [Members -> Stored]
      BY DEF TypeOK
    <2> HIDE DEF none
    <2>4. stacks' = rebuildStacks([none EXCEPT ![s] = v], members)
      BY <1>1, <2>2, <2>3, AddServiceRebuilds
    <2>5. [none EXCEPT ![s] = v] = services'
      BY <1>1 DEF TypeOK, none
    <2>6. QED
      BY <2>4, <2>5 DEF SetService
  <1>3. serviceRef' = [m \in Members |-> [x \in Services |-> RefsOf(x, services'[x])[m]]]
    <2>1. serviceRef' = reindexRefs(serviceRef, s, RefsOf(s, old), RefsOf(s, v))
      BY RefsType, VersionFacts DEF SetService
    <2>2. services \in [Services -> Stored] /\ v \in Stored
      BY VersionFacts DEF TypeOK
    <2>3. reindexRefs([m \in Members |-> [x \in Services |-> RefsOf(x, services[x])[m]]],
                      s, RefsOf(s, services[s]), RefsOf(s, v)) =
          [m \in Members |-> [x \in Services |->
               RefsOf(x, [services EXCEPT ![s] = v][x])[m]]]
      BY <2>2, ReindexRefsDerived
    <2>4. QED
      BY <1>1, <2>1, <2>3 DEF RefsDerived, rebuildRefs
  <1>4. byName' \in [Names -> Services \cup {NoService}] /\ NamesSound'
    <2>1. NameOf[s] \in Names
      BY ContentAssumption DEF ContentAssumption
    <2>2. byName' \in [Names -> Services \cup {NoService}]
      BY <2>1 DEF SetService, TypeOK, addName, removeName
    <2>3. byName'[NameOf[s]] = s
      BY <2>1 DEF SetService, TypeOK, addName, removeName
    <2>4. \A n \in Names : n # NameOf[s] => byName'[n] = byName[n]
      BY <2>1 DEF SetService, TypeOK, addName, removeName
    <2>5. services'[s] # Absent /\ \A x \in Services : x # s => services'[x] = services[x]
      BY <1>1, VersionFacts DEF TypeOK
    <2>6. QED
      BY <2>1, <2>2, <2>3, <2>4, <2>5 DEF NamesSound, TypeOK
  <1>5. todo' \in [Writers -> Owed]
    <2>1. owed \in Owed
      <3>1. {<<"service", s>>} \in SUBSET Notes
        BY DEF Notes
      <3>2. notifyRefChanges(RefsOf(s, old), serviceRefs(s, v)) \in SUBSET Notes
        BY RefNotesType
      <3>3. QED
        BY <3>1, <3>2, OwedParts
    <2>2. Owes(w, owed)
      BY DEF SetService
    <2> HIDE DEF owed
    <2>3. QED
      BY <2>1, <2>2, OwesType DEF TypeOK
  <1>6. TypeOK'
    <2>1. stacks' \in [Stacks -> Entry \cup {NoEntry}]
      <3>1. members' \in [Members -> Stored]
        BY DEF SetService, TypeOK
      <3>2. QED
        BY <1>1, <1>2, <3>1, RebuildType
    <2>2. serviceRef' \in [Members -> [Services -> RefKinds]]
      BY <1>1, <1>3, RefsType
    <2>3. QED
      BY <1>1, <1>4, <1>5, <2>1, <2>2
         DEF SetService, TypeOK, tracker, storage
  <1>7. StacksDerived' /\ RefsDerived'
    BY <1>2, <1>3 DEF StacksDerived, RefsDerived, rebuildRefs
  <1>8. IndexesDerived' /\ GoneHaveTasks'
    BY DEF SetService, IndexesDerived, GoneHaveTasks
  <1>9. QED
    BY <1>4, <1>6, <1>7, <1>8

LEMMA DeleteServiceStep ==
    ASSUME IInv, NEW w \in Writers, NEW s \in Services, DeleteService(w, s)
    PROVE  IInv'
  <1> USE DEF IInv, Derived
  <1> DEFINE old == services[s]
             owed == [Nothing EXCEPT !.forget = {s}, !.note = {<<"service", s>>},
                        !.refs = notifyRefChanges(RefsOf(s, old), NoRefs)]
  <1>1. services' = [services EXCEPT ![s] = Absent] /\ services' \in [Services -> Stored]
        /\ (old = Absent => services' = services)
    BY VersionFacts DEF DeleteService, TypeOK
  <1>2. members' = members /\ members \in [Members -> Stored]
        /\ services \in [Services -> Stored]
    BY DEF DeleteService, TypeOK
  <1>3. stacks' = rebuildStacks(services', members')
    <2>1. CASE old = Absent
      BY <2>1, <1>1, <1>2 DEF DeleteService, StacksDerived
    <2>2. CASE old # Absent
      <3>1. stacks' = removeServiceFromStack(stacks, s, services[s])
        BY <2>2 DEF DeleteService
      <3>2. QED
        BY <2>2, <3>1, <1>1, <1>2, RemoveServiceRebuilds DEF StacksDerived
    <2>3. QED
      BY <2>1, <2>2
  <1>4. serviceRef' = [m \in Members |-> [x \in Services |-> RefsOf(x, services'[x])[m]]]
    <2>1. CASE old = Absent
      BY <2>1, <1>1 DEF DeleteService, RefsDerived, rebuildRefs
    <2>2. CASE old # Absent
      <3>1. RefsOf(s, Absent) = NoRefs
        BY DEF RefsOf
      <3>2. serviceRef' = reindexRefs(serviceRef, s, RefsOf(s, old), RefsOf(s, Absent))
        BY <2>2, <3>1 DEF DeleteService
      <3>3. reindexRefs([m \in Members |-> [x \in Services |-> RefsOf(x, services[x])[m]]],
                        s, RefsOf(s, services[s]), RefsOf(s, Absent)) =
            [m \in Members |-> [x \in Services |->
                 RefsOf(x, [services EXCEPT ![s] = Absent][x])[m]]]
        BY <1>2, VersionFacts, ReindexRefsDerived
      <3>4. QED
        BY <1>1, <3>2, <3>3 DEF RefsDerived, rebuildRefs
    <2>3. QED
      BY <2>1, <2>2
  <1>5. byName' \in [Names -> Services \cup {NoService}] /\ NamesSound'
    <2>1. CASE old = Absent
      BY <2>1, <1>1 DEF DeleteService, TypeOK, NamesSound
    <2>2. CASE old # Absent
      <3>1. NameOf[s] \in Names /\ NoService \notin Services
        BY ContentAssumption, NamingAssumption
           DEF ContentAssumption, NamingAssumption
      <3>2. byName' = removeName(byName, s)
        BY <2>2 DEF DeleteService
      <3>3. byName' \in [Names -> Services \cup {NoService}]
        BY <3>1, <3>2 DEF TypeOK, removeName
      <3>4. \A n \in Names : byName'[n] # NoService =>
                byName'[n] = byName[n] /\ byName[n] # s
        BY <3>1, <3>2 DEF TypeOK, removeName, NamesSound
      <3>5. \A x \in Services : x # s => services'[x] = services[x]
        BY <1>1, <1>2
      <3>6. QED
        BY <3>3, <3>4, <3>5 DEF NamesSound, TypeOK
    <2>3. QED
      BY <2>1, <2>2
  <1>6. goneServices' \in [Services -> Stored] /\ GoneHaveTasks'
    <2>1. tasksByService' = tasksByService
      BY DEF DeleteService
    <2>2. CASE old = Absent
      BY <2>1, <2>2 DEF DeleteService, TypeOK, GoneHaveTasks
    <2>3. CASE old # Absent
      <3>1. goneServices' = [goneServices EXCEPT ![s] =
                                GoneFor(s, old, tasksByService[s])]
        BY <2>3 DEF DeleteService
      <3>2. QED
        BY <2>1, <3>1, <1>2 DEF TypeOK, GoneHaveTasks, GoneFor
    <2>4. QED
      BY <2>2, <2>3
  <1>7. todo' \in [Writers -> Owed]
    <2>1. owed \in Owed
      <3>1. {<<"service", s>>} \in SUBSET Notes /\ {s} \in SUBSET Services
        BY DEF Notes
      <3>2. notifyRefChanges(RefsOf(s, old), NoRefs) \in SUBSET Notes
        BY RefNotesType
      <3>3. QED
        BY <3>1, <3>2, OwedParts
    <2>2. Owes(w, owed)
      BY DEF DeleteService
    <2> HIDE DEF owed
    <2>3. QED
      BY <2>1, <2>2, OwesType DEF TypeOK
  <1>8. TypeOK'
    <2>1. stacks' \in [Stacks -> Entry \cup {NoEntry}]
      BY <1>1, <1>2, <1>3, RebuildType
    <2>2. serviceRef' \in [Members -> [Services -> RefKinds]]
      BY <1>1, <1>4, RefsType
    <2>3. QED
      BY <1>1, <1>5, <1>6, <1>7, <2>1, <2>2
         DEF DeleteService, TypeOK, tracker, storage
  <1>9. StacksDerived' /\ RefsDerived'
    BY <1>3, <1>4 DEF StacksDerived, RefsDerived, rebuildRefs
  <1>10. IndexesDerived'
    BY DEF DeleteService, IndexesDerived
  <1>11. QED
    BY <1>5, <1>6, <1>8, <1>9, <1>10

\* Both indexes after one task went from version old to version new.
LEMMA IndexesFollow ==
    ASSUME TypeOK, IndexesDerived, NEW t \in Tasks, NEW v \in Stored,
           tasks' = [tasks EXCEPT ![t] = v],
           tasksByService' = reindexTask(tasksByService, t,
               IF tasks[t] = Absent THEN NoService ELSE TaskService[t],
               IF v = Absent THEN NoService ELSE TaskService[t]),
           tasksByNode' = reindexTask(tasksByNode, t, NodeAt(t, tasks[t]),
                                      NodeAt(t, v))
    PROVE  IndexesDerived'
  <1>1. NoService \notin Services /\ NoNode \notin Nodes
        /\ tasks \in [Tasks -> Stored]
    BY NamingAssumption DEF NamingAssumption, TypeOK
  <1>2. ASSUME NEW s \in Services
        PROVE  tasksByService'[s] =
                   {u \in Tasks : tasks'[u] # Absent /\ TaskService[u] = s}
    BY <1>1 DEF TypeOK, IndexesDerived, reindexTask
  <1>3. ASSUME NEW n \in Nodes
        PROVE  tasksByNode'[n] =
                   {u \in Tasks : tasks'[u] # Absent /\ TaskNode[u][tasks'[u]] = n}
    BY <1>1 DEF TypeOK, IndexesDerived, reindexTask, NodeAt
  <1>4. DOMAIN tasksByService' = Services /\ DOMAIN tasksByNode' = Nodes
    BY DEF TypeOK, reindexTask
  <1>5. tasksByService' = [s \in Services |-> tasksByService'[s]]
        /\ tasksByNode' = [n \in Nodes |-> tasksByNode'[n]]
    BY <1>4 DEF reindexTask
  <1>6. QED
    BY <1>2, <1>3, <1>5 DEF IndexesDerived

LEMMA SetTaskStep ==
    ASSUME IInv, NEW w \in Writers, NEW t \in Tasks, NEW v \in Versions,
           SetTask(w, t, v)
    PROVE  IInv'
  <1> USE DEF IInv, Derived
  <1> DEFINE old == tasks[t]
             rec == IF NewFailure(t, old, v) THEN {t} ELSE {}
             not == IF old # v THEN {<<"task", t>>} ELSE {}
             owed == [Nothing EXCEPT !.record = rec, !.note = not]
  <1>1. tasks' = [tasks EXCEPT ![t] = v] /\ tasks' \in [Tasks -> Stored]
        /\ v \in Stored /\ v # Absent
    BY VersionFacts DEF SetTask, TypeOK
  <1>2. IndexesDerived'
    BY <1>1, IndexesFollow DEF SetTask
  <1>3. tasksByService' \in [Services -> SUBSET Tasks]
        /\ tasksByNode' \in [Nodes -> SUBSET Tasks]
    BY <1>2 DEF IndexesDerived
  <1>4. GoneHaveTasks'
    <2>1. \A s \in Services : tasksByService[s] # {} => tasksByService'[s] # {}
      <3>1. \A u \in Tasks : tasks[u] # Absent => tasks'[u] # Absent
        BY <1>1 DEF TypeOK
      <3>2. QED
        BY <1>2, <3>1 DEF IndexesDerived
    <2>2. QED
      BY <2>1 DEF SetTask, GoneHaveTasks
  <1>5. todo' \in [Writers -> Owed]
    <2>1. owed \in Owed
      <3>1. rec \in SUBSET Tasks /\ not \in SUBSET Notes
        BY DEF Notes
      <3> HIDE DEF rec, not
      <3>2. QED
        BY <3>1, OwedParts
    <2>2. Owes(w, owed)
      BY DEF SetTask
    <2> HIDE DEF owed
    <2>3. QED
      BY <2>1, <2>2, OwesType DEF TypeOK
  <1>6. TypeOK'
    BY <1>1, <1>3, <1>5 DEF SetTask, TypeOK, storage
  <1>7. StacksDerived' /\ RefsDerived' /\ NamesSound'
    BY DEF SetTask, StacksDerived, RefsDerived, NamesSound
  <1>8. QED
    BY <1>2, <1>4, <1>6, <1>7

LEMMA DeleteTaskStep ==
    ASSUME IInv, NEW w \in Writers, NEW t \in Tasks, DeleteTask(w, t)
    PROVE  IInv'
  <1> USE DEF IInv, Derived
  <1> DEFINE old == tasks[t]
             owed == [Nothing EXCEPT !.note = {<<"task", t>>}]
  <1>1. tasks' = [tasks EXCEPT ![t] = Absent] /\ tasks' \in [Tasks -> Stored]
        /\ Absent \in Stored /\ (old = Absent => tasks' = tasks)
    BY VersionFacts DEF DeleteTask, TypeOK
  <1>2. IndexesDerived'
    <2>1. CASE old = Absent
      BY <2>1, <1>1 DEF DeleteTask, IndexesDerived
    <2>2. CASE old # Absent
      <3>1. NodeAt(t, Absent) = NoNode
        BY DEF NodeAt
      <3>2. QED
        BY <2>2, <3>1, <1>1, IndexesFollow DEF DeleteTask
    <2>3. QED
      BY <2>1, <2>2
  <1>3. tasksByService' \in [Services -> SUBSET Tasks]
        /\ tasksByNode' \in [Nodes -> SUBSET Tasks]
    BY <1>2 DEF IndexesDerived
  <1>4. goneServices' \in [Services -> Stored] /\ GoneHaveTasks'
    <2>1. CASE old = Absent
      BY <2>1 DEF DeleteTask, TypeOK, GoneHaveTasks
    <2>2. CASE old # Absent
      <3>1. \A s \in Services : s # TaskService[t] => tasksByService'[s] = tasksByService[s]
        BY <1>1, <1>2 DEF IndexesDerived, TypeOK
      <3>2. goneServices' = IF TaskService[t] = NoService THEN goneServices
                            ELSE [goneServices EXCEPT ![TaskService[t]] =
                               Pruned(goneServices, tasksByService')[TaskService[t]]]
        BY <2>2 DEF DeleteTask
      <3>3. TaskService[t] \in Services \cup {NoService} /\ NoService \notin Services
        BY ContentAssumption, NamingAssumption
           DEF ContentAssumption, NamingAssumption
      <3>4. QED
        BY <3>1, <3>2, <3>3, <1>1 DEF TypeOK, GoneHaveTasks, Pruned
    <2>3. QED
      BY <2>1, <2>2
  <1>5. todo' \in [Writers -> Owed]
    <2>1. owed \in Owed
      <3>1. {<<"task", t>>} \in SUBSET Notes
        BY DEF Notes
      <3>2. QED
        BY <3>1, OwedParts
    <2>2. Owes(w, owed)
      BY DEF DeleteTask
    <2> HIDE DEF owed
    <2>3. QED
      BY <2>1, <2>2, OwesType DEF TypeOK
  <1>6. TypeOK'
    BY <1>1, <1>3, <1>4, <1>5 DEF DeleteTask, TypeOK, tracker, storage
  <1>7. StacksDerived' /\ RefsDerived' /\ NamesSound'
    BY DEF DeleteTask, StacksDerived, RefsDerived, NamesSound
  <1>8. QED
    BY <1>2, <1>4, <1>6, <1>7

LEMMA StoreMemberStep ==
    ASSUME IInv, NEW w \in Writers, NEW m \in Members, NEW v \in Versions,
           StoreMember(w, m, v)
    PROVE  IInv'
  <1> USE DEF IInv, Derived
  <1> DEFINE old == members[m]
             none == [members EXCEPT ![m] = Absent]
             owed == [Nothing EXCEPT !.note = {<<"member", m>>}]
  <1>1. members' = [members EXCEPT ![m] = v] /\ members' \in [Members -> Stored]
        /\ none \in [Members -> Stored] /\ services \in [Services -> Stored]
        /\ services' = services
    BY VersionFacts DEF StoreMember, TypeOK
  <1>2. stacks' = rebuildStacks(services', members')
    <2>1. (IF old = Absent THEN stacks ELSE removeMemberFromStack(stacks, m, old))
              = rebuildStacks(services, none)
      <3>1. CASE old = Absent
        <4>1. none = members
          BY <3>1 DEF TypeOK
        <4>2. QED
          BY <3>1, <4>1 DEF StacksDerived
      <3>2. CASE old # Absent
        <4>1. /\ services \in [Services -> Stored] /\ members \in [Members -> Stored]
              /\ none \in [Members -> Stored] /\ none[m] = Absent
              /\ \A x \in Members : x # m => none[x] = members[x]
          BY <1>1 DEF TypeOK
        <4> HIDE DEF none
        <4>2. QED
          BY <3>2, <4>1, RemoveMemberRebuilds DEF StacksDerived
      <3>3. QED
        BY <3>1, <3>2
    <2>2. stacks' = addMemberToStack(rebuildStacks(services, none), m, v)
      BY <2>1 DEF StoreMember
    <2>3. /\ none[m] = Absent /\ members'[m] = v
          /\ \A x \in Members : x # m => members'[x] = none[x]
      BY <1>1 DEF TypeOK
    <2>4. addMemberToStack(rebuildStacks(services, none), m, v) =
          rebuildStacks(services, members')
      <3>1. /\ members' \in [Members -> Stored] /\ none \in [Members -> Stored]
            /\ services \in [Services -> Stored]
        BY <1>1
      <3> HIDE DEF none
      <3>2. QED
        BY <2>3, <3>1, AddMemberRebuilds
    <2>5. QED
      BY <1>1, <2>2, <2>4
  <1>3. todo' \in [Writers -> Owed]
    <2>1. owed \in Owed
      <3>1. {<<"member", m>>} \in SUBSET Notes
        BY DEF Notes
      <3>2. QED
        BY <3>1, OwedParts
    <2>2. Owes(w, owed)
      BY DEF StoreMember
    <2> HIDE DEF owed
    <2>3. QED
      BY <2>1, <2>2, OwesType DEF TypeOK
  <1>4. TypeOK'
    <2>1. stacks' \in [Stacks -> Entry \cup {NoEntry}]
      BY <1>1, <1>2, RebuildType
    <2>2. QED
      BY <1>1, <1>3, <2>1 DEF StoreMember, TypeOK, tracker, storage
  <1>5. StacksDerived'
    BY <1>2 DEF StacksDerived
  <1>6. IndexesDerived' /\ RefsDerived' /\ NamesSound' /\ GoneHaveTasks'
    BY DEF StoreMember, IndexesDerived, RefsDerived, NamesSound, GoneHaveTasks
  <1>7. QED
    BY <1>4, <1>5, <1>6

LEMMA DeleteMemberStep ==
    ASSUME IInv, NEW w \in Writers, NEW m \in Members, DeleteMember(w, m)
    PROVE  IInv'
  <1> USE DEF IInv, Derived
  <1> DEFINE old == members[m]
             owed == [Nothing EXCEPT !.note = {<<"member", m>>}]
  <1>1. members' = [members EXCEPT ![m] = Absent] /\ members' \in [Members -> Stored]
        /\ services \in [Services -> Stored] /\ members \in [Members -> Stored]
        /\ services' = services /\ (old = Absent => members' = members)
    BY VersionFacts DEF DeleteMember, TypeOK
  <1>2. stacks' = rebuildStacks(services', members')
    <2>1. CASE old = Absent
      BY <2>1, <1>1 DEF DeleteMember, StacksDerived
    <2>2. CASE old # Absent
      <3>1. stacks' = removeMemberFromStack(stacks, m, members[m])
        BY <2>2 DEF DeleteMember
      <3>2. /\ services \in [Services -> Stored] /\ members \in [Members -> Stored]
            /\ members' \in [Members -> Stored] /\ members'[m] = Absent
            /\ \A x \in Members : x # m => members'[x] = members[x]
        BY <1>1
      <3>3. removeMemberFromStack(rebuildStacks(services, members), m, members[m]) =
            rebuildStacks(services, members')
        BY <2>2, <3>2, RemoveMemberRebuilds
      <3>4. QED
        BY <3>1, <3>3, <1>1 DEF StacksDerived
    <2>3. QED
      BY <2>1, <2>2
  <1>3. todo' \in [Writers -> Owed]
    <2>1. owed \in Owed
      <3>1. {<<"member", m>>} \in SUBSET Notes
        BY DEF Notes
      <3>2. QED
        BY <3>1, OwedParts
    <2>2. Owes(w, owed)
      BY DEF DeleteMember
    <2> HIDE DEF owed
    <2>3. QED
      BY <2>1, <2>2, OwesType DEF TypeOK
  <1>4. TypeOK'
    <2>1. stacks' \in [Stacks -> Entry \cup {NoEntry}]
      BY <1>1, <1>2, RebuildType
    <2>2. QED
      BY <1>1, <1>3, <2>1 DEF DeleteMember, TypeOK, tracker, storage
  <1>5. StacksDerived'
    BY <1>2 DEF StacksDerived
  <1>6. IndexesDerived' /\ RefsDerived' /\ NamesSound' /\ GoneHaveTasks'
    BY DEF DeleteMember, IndexesDerived, RefsDerived, NamesSound, GoneHaveTasks
  <1>7. QED
    BY <1>4, <1>5, <1>6

(***************************************************************************)
(* Effects after the lock, and the snapshot's copy, leave the resources    *)
(* and all that is derived from them alone.                                *)
(***************************************************************************)
LEMMA DerivedUnchanged ==
    ASSUME Derived, UNCHANGED <<resources, derived>>
    PROVE  Derived'
  BY DEF Derived, resources, derived, StacksDerived, IndexesDerived,
         RefsDerived, NamesSound, GoneHaveTasks

LEMMA OwedShrinks ==
    ASSUME NEW o \in Owed, NEW x
    PROVE  /\ [o EXCEPT !.forget = o.forget \ {x}] \in Owed
           /\ [o EXCEPT !.record = o.record \ {x}] \in Owed
           /\ [o EXCEPT !.note = o.note \ {x}] \in Owed
           /\ [o EXCEPT !.refs = o.refs \ {x}] \in Owed
  BY DEF Owed

LEMMA ForgetStep ==
    ASSUME IInv, NEW w \in Writers, NEW s \in Services, Forget(w, s)
    PROVE  IInv'
  <1>1. todo' \in [Writers -> Owed]
    BY OwedShrinks, OwesType DEF IInv, TypeOK, Forget
  <1>2. restarts' \in [Tasks -> 0..MaxRecords]
    BY BoundsAssumption DEF IInv, TypeOK, Forget, BoundsAssumption
  <1>3. TypeOK'
    BY <1>1, <1>2 DEF IInv, TypeOK, Forget, resources, derived, storage
  <1>4. QED
    BY <1>3, DerivedUnchanged DEF IInv, Forget

LEMMA RecordStep ==
    ASSUME IInv, NEW w \in Writers, NEW t \in Tasks, Record(w, t)
    PROVE  IInv'
  <1>1. todo' \in [Writers -> Owed]
    BY OwedShrinks, OwesType DEF IInv, TypeOK, Record
  <1>2. restarts' \in [Tasks -> 0..MaxRecords]
    BY BoundsAssumption DEF IInv, TypeOK, Record, BoundsAssumption
  <1>3. TypeOK'
    BY <1>1, <1>2 DEF IInv, TypeOK, Record, resources, derived, storage
  <1>4. QED
    BY <1>3, DerivedUnchanged DEF IInv, Record

LEMMA NotifyStep ==
    ASSUME IInv, NEW w \in Writers, NEW e \in Notes, Notify(w, e)
    PROVE  IInv'
  <1> DEFINE Views == [services: [Services -> Stored], tasks: [Tasks -> Stored],
                       members: [Members -> Stored],
                       refs: [Members -> [Services -> RefKinds]]]
  <1>1. todo' \in [Writers -> Owed]
    BY OwedShrinks, OwesType DEF IInv, TypeOK, Notify
  <1>2. view \in Views /\ services \in [Services -> Stored]
        /\ tasks \in [Tasks -> Stored] /\ members \in [Members -> Stored]
        /\ serviceRef \in [Members -> [Services -> RefKinds]]
    BY DEF IInv, TypeOK
  <1>3. view' \in Views
    <2>1. CASE e \in {"service"} \X Services
      BY <2>1, <1>2 DEF Notify, Reread
    <2>2. CASE e \in {"task"} \X Tasks
      BY <2>2, <1>2 DEF Notify, Reread
    <2>3. CASE e \in {"member", "ref_changed"} \X Members
      <3>1. e[2] \in Members
        BY <2>3
      <3>2. CASE e[1] = "member"
        BY <3>1, <3>2, <1>2 DEF Notify, Reread
      <3>3. CASE e[1] = "ref_changed"
        BY <3>1, <3>3, <1>2 DEF Notify, Reread
      <3>4. QED
        BY <2>3, <3>2, <3>3
    <2>4. CASE e = <<"sync">>
      BY <2>4, <1>2 DEF Notify, Reread
    <2>5. QED
      BY <2>1, <2>2, <2>3, <2>4 DEF Notes
  <1>4. TypeOK'
    BY <1>1, <1>3 DEF IInv, TypeOK, Notify, resources, derived, tracker, storage
  <1>5. QED
    BY <1>4, DerivedUnchanged DEF IInv, Notify

LEMMA SnapshotStep ==
    ASSUME IInv, CopyMaps \/ Publish \/ WriteFails
    PROVE  IInv'
  <1>1. NoSnapshot \in Contents /\ NoCopy \in [busy: BOOLEAN, maps: Contents]
    BY VersionFacts, BoundsAssumption
       DEF NoSnapshot, Contents, BoundsAssumption, NoCopy
  <1>2. CASE CopyMaps
    <2>1. [NoSnapshot EXCEPT !.services = services, !.tasks = tasks,
                             !.members = members] \in Contents
      BY <1>1 DEF IInv, TypeOK, Contents
    <2>2. copying' \in [busy: BOOLEAN, maps: Contents]
      BY <1>2, <2>1 DEF CopyMaps
    <2>3. TypeOK'
      BY <1>2, <2>2 DEF IInv, TypeOK, CopyMaps, resources, derived, tracker
    <2>4. QED
      BY <1>2, <2>3, DerivedUnchanged DEF IInv, CopyMaps
  <1>3. CASE Publish
    <2>1. [copying.maps EXCEPT !.restarts = restarts] \in Contents
      BY DEF IInv, TypeOK, Contents
    <2>2. TypeOK'
      BY <1>1, <1>3, <2>1 DEF IInv, TypeOK, Publish, resources, derived, tracker
    <2>3. QED
      BY <1>3, <2>2, DerivedUnchanged DEF IInv, Publish
  <1>4. CASE WriteFails
    <2>1. TypeOK'
      BY <1>1, <1>4 DEF IInv, TypeOK, WriteFails, resources, derived, tracker
    <2>2. QED
      BY <1>4, <2>1, DerivedUnchanged DEF IInv, WriteFails
  <1>5. QED
    BY <1>2, <1>3, <1>4

(***************************************************************************)
(* A sync and a restart rebuild what is derived.                           *)
(***************************************************************************)
LEMMA SyncedTypes ==
    ASSUME TypeOK, NEW has \in SUBSET Types, NEW listed \in Lists(has)
    PROVE  /\ listed.services \in [Services -> Stored]
           /\ listed.tasks \in [Tasks -> Stored]
           /\ listed.members \in [Members -> Stored]
           /\ SyncedServices(has, listed.services) \in [Services -> Stored]
           /\ SyncedTasks(has, listed.tasks) \in [Tasks -> Stored]
           /\ SyncedMembers(has, listed.members) \in [Members -> Stored]
  <1>1. /\ listed.services \in [Services -> Stored]
        /\ listed.tasks \in [Tasks -> Stored]
        /\ listed.members \in [Members -> Stored]
    BY VersionFacts DEF Lists, NoSnapshot
  <1>2. SyncedServices(has, listed.services) \in [Services -> Stored]
    BY <1>1, KeepNewerType DEF SyncedServices, TypeOK
  <1>3. SyncedTasks(has, listed.tasks) \in [Tasks -> Stored]
    BY <1>1, KeepNewerType DEF SyncedTasks, TypeOK
  <1>4. SyncedMembers(has, listed.members) \in [Members -> Stored]
    <2>1. keepNewer(listed.members, members) \in [Members -> Stored]
      BY <1>1, KeepNewerType DEF TypeOK
    <2>2. QED
      BY <1>1, <2>1 DEF SyncedMembers, TypeOK
  <1>5. QED
    BY <1>1, <1>2, <1>3, <1>4

LEMMA RebuiltRefsType ==
    ASSUME NEW svcs \in [Services -> Stored]
    PROVE  rebuildRefs(svcs) \in [Members -> [Services -> RefKinds]]
  BY RefsType DEF rebuildRefs

LEMMA RebuiltNamesSound ==
    ASSUME NEW names \in [Names -> Services \cup {NoService}], NEW svcs,
           NamesRebuilt(names, svcs), NEW n \in Names, names[n] # NoService
    PROVE  svcs[names[n]] # Absent /\ NameOf[names[n]] = n
  BY DEF NamesRebuilt

\* The listed index, moved for the tasks held newer, is the index of what the
\* sync leaves cached.
LEMMA SyncedIndexes ==
    ASSUME TypeOK, NEW P, NEW at, NEW listed \in [Tasks -> Stored],
           NEW new \in [Tasks -> Stored], new = keepNewer(listed, tasks)
    PROVE  \A p \in P :
             Rehomed(ListedIndex(P, at, listed), at, HeldNewer(listed))[p] =
             {t \in Tasks : new[t] # Absent /\ at[t][new[t]] = p}
  <1> DEFINE by == ListedIndex(P, at, listed)
             held == HeldNewer(listed)
  <1>0. \A t \in Tasks : tasks[t] \in Stored /\ listed[t] \in Stored
    BY DEF TypeOK
  <1>1. \A t \in Tasks : new[t] = IF listed[t] = Absent THEN Absent
                                  ELSE Newer(listed[t], tasks[t])
    BY DEF keepNewer
  <1>2. \A t \in held : new[t] = tasks[t] /\ new[t] # Absent /\ t \in Tasks
    BY <1>0, <1>1, VersionFacts, BoundsAssumption
       DEF HeldNewer, Newer, Stored, Absent, BoundsAssumption
  <1>3. \A t \in Tasks \ held : new[t] = listed[t]
    BY <1>0, <1>1, VersionFacts, BoundsAssumption
       DEF HeldNewer, Newer, Stored, Absent, BoundsAssumption
  <1>4. SUFFICES ASSUME NEW p \in P
                 PROVE  Rehomed(by, at, held)[p] =
                        {t \in Tasks : new[t] # Absent /\ at[t][new[t]] = p}
    OBVIOUS
  <1>5. by[p] = {t \in Tasks : listed[t] # Absent /\ at[t][listed[t]] = p}
        /\ DOMAIN by = P
    BY DEF ListedIndex
  <1> HIDE DEF by, held
  <1>6. Rehomed(by, at, held)[p] =
            (by[p] \ held) \cup {t \in held : at[t][tasks[t]] = p}
    BY <1>5 DEF Rehomed
  <1>7. QED
    BY <1>2, <1>3, <1>5, <1>6

LEMMA RehomedShape ==
    ASSUME NEW P, NEW at, NEW listed, NEW held, NEW by,
           by = Rehomed(ListedIndex(P, at, listed), at, held)
    PROVE  by = [p \in P |-> by[p]]
  BY DEF Rehomed, ListedIndex

LEMMA ServiceIndex ==
    ASSUME NEW new \in [Tasks -> Stored]
    PROVE  [p \in Services |-> {t \in Tasks : new[t] # Absent
                                              /\ ServiceAt[t][new[t]] = p}] =
           [s \in Services |-> {t \in Tasks : new[t] # Absent
                                              /\ TaskService[t] = s}]
  <1>1. \A t \in Tasks : new[t] # Absent => ServiceAt[t][new[t]] = TaskService[t]
    BY VersionFacts DEF ServiceAt
  <1>2. QED
    BY <1>1

LEMMA ReplaceAllStep ==
    ASSUME IInv, NEW w \in Writers, NEW has \in SUBSET Types,
           NEW listed \in Lists(has), ReplaceAll(w, has, listed)
    PROVE  IInv'
  <1> USE DEF IInv, Derived
  <1>1. /\ services' = SyncedServices(has, listed.services)
        /\ tasks' = SyncedTasks(has, listed.tasks)
        /\ members' = SyncedMembers(has, listed.members)
    BY DEF ReplaceAll
  <1>2. /\ services' \in [Services -> Stored]
        /\ tasks' \in [Tasks -> Stored]
        /\ members' \in [Members -> Stored]
        /\ listed.tasks \in [Tasks -> Stored]
    BY <1>1, SyncedTypes
  <1>3. stacks' = rebuildStacks(services', members')
    BY <1>1 DEF ReplaceAll
  <1>4. serviceRef' = rebuildRefs(services')
    BY <1>1 DEF ReplaceAll
  <1>5. byName' \in [Names -> Services \cup {NoService}] /\ NamesSound'
    <2>1. PICK names \in [Names -> Services \cup {NoService}] :
              NamesRebuilt(names, services') /\ byName' = names
      BY <1>1 DEF ReplaceAll
    <2>2. QED
      BY <2>1, RebuiltNamesSound DEF NamesSound
  <1>6. IndexesDerived'
    <2>1. CASE "tasks" \in has
      <3>1. tasks' = keepNewer(listed.tasks, tasks)
        BY <1>1, <2>1 DEF SyncedTasks
      <3>2. tasksByService' = Rehomed(ListedIndex(Services, ServiceAt, listed.tasks),
                                      ServiceAt, HeldNewer(listed.tasks))
        BY <2>1 DEF ReplaceAll
      <3>3. tasksByNode' = Rehomed(ListedIndex(Nodes, TaskNode, listed.tasks),
                                   TaskNode, HeldNewer(listed.tasks))
        BY <2>1 DEF ReplaceAll
      <3>4. tasksByService' = [p \in Services |->
                {t \in Tasks : tasks'[t] # Absent /\ ServiceAt[t][tasks'[t]] = p}]
        <4>1. \A p \in Services : tasksByService'[p] =
                {t \in Tasks : tasks'[t] # Absent /\ ServiceAt[t][tasks'[t]] = p}
          BY <1>2, <3>1, <3>2, SyncedIndexes
        <4>2. tasksByService' = [p \in Services |-> tasksByService'[p]]
          BY <3>2, RehomedShape
        <4>3. QED
          BY <4>1, <4>2
      <3>5. tasksByNode' = [p \in Nodes |->
                {t \in Tasks : tasks'[t] # Absent /\ TaskNode[t][tasks'[t]] = p}]
        <4>1. \A p \in Nodes : tasksByNode'[p] =
                {t \in Tasks : tasks'[t] # Absent /\ TaskNode[t][tasks'[t]] = p}
          BY <1>2, <3>1, <3>3, SyncedIndexes
        <4>2. tasksByNode' = [p \in Nodes |-> tasksByNode'[p]]
          BY <3>3, RehomedShape
        <4>3. QED
          BY <4>1, <4>2
      <3>6. tasksByService' = [s \in Services |->
                {t \in Tasks : tasks'[t] # Absent /\ TaskService[t] = s}]
        BY <1>2, <3>4, ServiceIndex
      <3>7. QED
        BY <3>5, <3>6 DEF IndexesDerived
    <2>2. CASE "tasks" \notin has
      <3>1. tasks' = tasks /\ UNCHANGED <<tasksByService, tasksByNode>>
        BY <1>1, <2>2 DEF ReplaceAll, SyncedTasks
      <3>2. QED
        BY <3>1 DEF IndexesDerived
    <2>3. QED
      BY <2>1, <2>2
  <1>7. tasksByService' \in [Services -> SUBSET Tasks]
        /\ tasksByNode' \in [Nodes -> SUBSET Tasks]
    BY <1>6 DEF IndexesDerived
  <1>8. goneServices' \in [Services -> Stored] /\ GoneHaveTasks'
    <2> DEFINE byService == ListedIndex(Services, ServiceAt, listed.tasks)
               dropped == IF "services" \in has
                          THEN {s \in Services : services[s] # Absent
                                                 /\ listed.services[s] = Absent}
                          ELSE {}
               remaining == IF "tasks" \in has THEN byService ELSE tasksByService
               gone == [s \in Services |->
                          IF s \in dropped
                          THEN GoneFor(s, services[s], remaining[s])
                          ELSE goneServices[s]]
    <2>1. gone \in [Services -> Stored]
      BY DEF TypeOK, GoneFor
    <2>2. CASE "tasks" \in has
      <3>1. goneServices' = Pruned(gone, tasksByService')
        BY <2>2 DEF ReplaceAll
      <3> HIDE DEF gone
      <3>2. QED
        BY <2>1, <3>1, VersionFacts DEF Pruned, GoneHaveTasks
    <2>3. CASE "tasks" \notin has
      <3>1. goneServices' = gone /\ tasksByService' = tasksByService
        BY <2>3 DEF ReplaceAll
      <3>2. ASSUME NEW s \in Services, gone[s] # Absent
            PROVE  tasksByService[s] # {}
        BY <2>3, <3>2 DEF GoneFor, GoneHaveTasks
      <3> HIDE DEF gone
      <3>3. QED
        BY <2>1, <3>1, <3>2 DEF GoneHaveTasks
    <2>4. QED
      BY <2>2, <2>3
  <1>9. todo' \in [Writers -> Owed]
    <2>1. PICK R \in SUBSET Tasks :
              Owes(w, [Nothing EXCEPT !.record = R, !.note = {<<"sync">>}])
      BY DEF ReplaceAll
    <2>2. {<<"sync">>} \in SUBSET Notes
      BY DEF Notes
    <2>3. [Nothing EXCEPT !.record = R, !.note = {<<"sync">>}] \in Owed
      BY <2>2, OwedParts
    <2>4. QED
      BY <2>1, <2>3, OwesType DEF TypeOK
  <1>10. restarts' \in [Tasks -> 0..MaxRecords]
    <2>1. PICK F : restarts' = [t \in Tasks |-> IF t \in F THEN 0 ELSE restarts[t]]
      BY DEF ReplaceAll
    <2>2. QED
      BY <2>1, BoundsAssumption DEF BoundsAssumption, TypeOK
  <1>11. observed' \in SUBSET Tasks
    BY DEF ReplaceAll, TypeOK
  <1>12. tasksSynced' \in BOOLEAN
    BY DEF ReplaceAll, TypeOK
  <1>13. TypeOK'
    <2>1. stacks' \in [Stacks -> Entry \cup {NoEntry}]
      BY <1>2, <1>3, RebuildType
    <2>2. serviceRef' \in [Members -> [Services -> RefKinds]]
      BY <1>2, <1>4, RebuiltRefsType
    <2>3. UNCHANGED <<view, storage>>
      BY DEF ReplaceAll
    <2>4. QED
      BY <1>2, <1>5, <1>7, <1>8, <1>9, <1>10, <1>11, <1>12, <2>1, <2>2, <2>3
         DEF TypeOK, storage
  <1>14. QED
    BY <1>3, <1>4, <1>5, <1>6, <1>8, <1>13 DEF StacksDerived, RefsDerived

LEMMA RestartStep ==
    ASSUME IInv, Restart
    PROVE  IInv'
  <1> USE DEF IInv, Derived
  <1>1. /\ disk.services \in [Services -> Stored]
        /\ disk.tasks \in [Tasks -> Stored]
        /\ disk.members \in [Members -> Stored]
        /\ disk.restarts \in [Tasks -> 0..MaxRecords]
    BY DEF TypeOK, Contents
  <1>2. /\ services' = disk.services /\ tasks' = disk.tasks
        /\ members' = disk.members
    BY DEF Restart
  <1>3. stacks' = rebuildStacks(services', members')
        /\ serviceRef' = rebuildRefs(services')
    BY <1>2 DEF Restart
  <1>4. byName' \in [Names -> Services \cup {NoService}] /\ NamesSound'
    <2>1. PICK names \in [Names -> Services \cup {NoService}] :
              NamesRebuilt(names, services') /\ byName' = names
      BY <1>2 DEF Restart
    <2>2. QED
      BY <2>1, RebuiltNamesSound DEF NamesSound
  <1>5. IndexesDerived'
    <2>1. tasksByService' = [p \in Services |->
              {t \in Tasks : tasks'[t] # Absent /\ ServiceAt[t][tasks'[t]] = p}]
      BY <1>2 DEF Restart, ListedIndex
    <2>2. tasksByNode' = [p \in Nodes |->
              {t \in Tasks : tasks'[t] # Absent /\ TaskNode[t][tasks'[t]] = p}]
      BY <1>2 DEF Restart, ListedIndex
    <2>3. QED
      BY <1>1, <1>2, <2>1, <2>2, ServiceIndex DEF IndexesDerived
  <1>6. tasksByService' \in [Services -> SUBSET Tasks]
        /\ tasksByNode' \in [Nodes -> SUBSET Tasks]
    BY <1>5 DEF IndexesDerived
  <1>7. goneServices' \in [Services -> Stored] /\ GoneHaveTasks'
    BY VersionFacts DEF Restart, GoneHaveTasks
  <1>8. todo' \in [Writers -> Owed] /\ copying' \in [busy: BOOLEAN, maps: Contents]
    <2>1. Nothing \in Owed
      BY DEF Nothing, Owed
    <2>2. NoSnapshot \in Contents
      BY VersionFacts, BoundsAssumption DEF NoSnapshot, Contents, BoundsAssumption
    <2>3. QED
      BY <2>1, <2>2 DEF Restart, NoCopy
  <1>9. TypeOK'
    <2>1. stacks' \in [Stacks -> Entry \cup {NoEntry}]
      BY <1>1, <1>2, <1>3, RebuildType
    <2>2. serviceRef' \in [Members -> [Services -> RefKinds]]
      BY <1>1, <1>2, <1>3, RebuiltRefsType
    <2>3. lives' \in 0..MaxRestarts
      BY BoundsAssumption DEF Restart, TypeOK, BoundsAssumption
    <2>4. view' = [services |-> disk.services, tasks |-> disk.tasks,
                   members |-> disk.members, refs |-> serviceRef']
      BY DEF Restart
    <2>5. observed' \in SUBSET Tasks /\ tasksSynced' \in BOOLEAN
          /\ restarts' = disk.restarts /\ disk' = disk
      BY DEF Restart, TypeOK
    <2>6. QED
      BY <1>1, <1>2, <1>4, <1>6, <1>7, <1>8, <2>1, <2>2, <2>3, <2>4, <2>5
         DEF TypeOK
  <1>10. QED
    BY <1>3, <1>4, <1>5, <1>7, <1>9 DEF StacksDerived, RefsDerived

LEMMA NextIInv == IInv /\ [Next]_vars => IInv'
  <1> SUFFICES ASSUME IInv, [Next]_vars PROVE IInv'
    OBVIOUS
  <1>1. ASSUME NEW w \in Writers, Write(w) PROVE IInv'
    BY <1>1, SetServiceStep, DeleteServiceStep, SetTaskStep, DeleteTaskStep,
       StoreMemberStep, DeleteMemberStep, ReplaceAllStep
       DEF Write, SetMember, AddConfig, Members
  <1>2. ASSUME NEW w \in Writers, Finish(w) PROVE IInv'
    BY <1>2, ForgetStep, RecordStep, NotifyStep DEF Finish
  <1>3. CASE UNCHANGED vars
    BY <1>3 DEF vars, resources, derived, tracker, storage, IInv, Derived,
       TypeOK, StacksDerived, IndexesDerived, RefsDerived, NamesSound,
       GoneHaveTasks
  <1>4. QED
    BY <1>1, <1>2, <1>3, SnapshotStep, RestartStep DEF Next

(***************************************************************************)
(* Theorems.                                                               *)
(***************************************************************************)

\* Every map keeps the type its declaration gives it, for any cluster.
THEOREM TypeCorrect == Spec => []TypeOK
  <1>1. IInv => TypeOK
    BY DEF IInv
  <1>2. QED
    BY InitIInv, NextIInv, <1>1, PTL DEF Spec

\* The stacks addToStack, seedStack and removeFromStack maintain are at every
\* moment what rebuildStacks would compute, for any cluster, any labels and
\* any order of writes, syncs and restarts.
THEOREM StacksAreDerived == Spec => []StacksDerived
  <1>1. IInv => StacksDerived
    BY DEF IInv, Derived
  <1>2. QED
    BY InitIInv, NextIInv, <1>1, PTL DEF Spec

\* The secondary indexes addIndexed, removeIndexed and ReplaceAll maintain list
\* every cached task under its service and its node, and nowhere else.
THEOREM IndexesAreDerived == Spec => []IndexesDerived
  <1>1. IInv => IndexesDerived
    BY DEF IInv, Derived
  <1>2. QED
    BY InitIInv, NextIInv, <1>1, PTL DEF Spec

\* The reverse references serviceRefIndex.add and .remove keep for one service
\* at a time are those a rebuild from all cached services would give.
THEOREM RefsAreDerived == Spec => []RefsDerived
  <1>1. IInv => RefsDerived
    BY DEF IInv, Derived
  <1>2. QED
    BY InitIInv, NextIInv, <1>1, PTL DEF Spec

\* The name index never leads to a service that is gone or called otherwise,
\* whatever the order in which services of one name come and go.
THEOREM NamesAreSound == Spec => []NamesSound
  <1>1. IInv => NamesSound
    BY DEF IInv, Derived
  <1>2. QED
    BY InitIInv, NextIInv, <1>1, PTL DEF Spec

\* goneServices cannot grow without bound: an entry lasts only as long as a
\* cached task of its service.
THEOREM GoneServicesHaveTasks == Spec => []GoneHaveTasks
  <1>1. IInv => GoneHaveTasks
    BY DEF IInv, Derived
  <1>2. QED
    BY InitIInv, NextIInv, <1>1, PTL DEF Spec

(***************************************************************************)
(* What a step may never do.                                               *)
(***************************************************************************)
NoneOlder ==
    /\ \A s \in Services : services'[s] # Absent => services'[s] >= services[s]
    /\ \A t \in Tasks : tasks'[t] # Absent => tasks'[t] >= tasks[t]
    /\ \A m \in Configs : members'[m] # Absent => members'[m] >= members[m]

LEMMA KeepNewerKeeps ==
    ASSUME NEW X, NEW listed \in [X -> Stored], NEW cached \in [X -> Stored]
    PROVE  \A x \in X : keepNewer(listed, cached)[x] # Absent =>
                           keepNewer(listed, cached)[x] >= cached[x]
  BY BoundsAssumption DEF BoundsAssumption, keepNewer, Newer, Stored, Absent

LEMMA WriteNoneOlder ==
    ASSUME TypeOK, NEW w \in Writers, Write(w)
    PROVE  NoneOlder
  <1>0. /\ \A s \in Services : services[s] \in Nat
        /\ \A t \in Tasks : tasks[t] \in Nat
        /\ \A m \in Members : members[m] \in Nat
        /\ Configs \subseteq Members
    BY BoundsAssumption DEF BoundsAssumption, TypeOK, Stored, Members
  <1> USE DEF NoneOlder
  <1>1. CASE UNCHANGED <<tasks, members>> /\
             \E s \in Services, v \in Stored :
                 /\ services' = [services EXCEPT ![s] = v]
                 /\ v = Absent \/ services[s] <= v
    BY <1>0, <1>1, BoundsAssumption DEF TypeOK, Stored, BoundsAssumption
  <1>2. CASE UNCHANGED <<services, members>> /\
             \E t \in Tasks, v \in Stored :
                 /\ tasks' = [tasks EXCEPT ![t] = v]
                 /\ v = Absent \/ tasks[t] <= v
    BY <1>0, <1>2, BoundsAssumption DEF TypeOK, Stored, BoundsAssumption
  <1>3. CASE UNCHANGED <<services, tasks>> /\
             \E m \in Members, v \in Stored :
                 /\ members' = [members EXCEPT ![m] = v]
                 /\ v = Absent \/ (m \in Configs => members[m] <= v)
    BY <1>0, <1>3, BoundsAssumption DEF TypeOK, Stored, BoundsAssumption
  <1>4. ASSUME NEW has \in SUBSET Types, NEW listed \in Lists(has),
               ReplaceAll(w, has, listed)
        PROVE  NoneOlder
    <2>1. /\ services' = SyncedServices(has, listed.services)
          /\ tasks' = SyncedTasks(has, listed.tasks)
          /\ members' = SyncedMembers(has, listed.members)
      BY <1>4 DEF ReplaceAll
    <2>2. /\ listed.services \in [Services -> Stored]
          /\ listed.tasks \in [Tasks -> Stored]
          /\ listed.members \in [Members -> Stored]
      BY SyncedTypes
    <2>3. ASSUME NEW s \in Services, services'[s] # Absent
          PROVE  services'[s] >= services[s]
      <3>1. \A x \in Services : keepNewer(listed.services, services)[x] # Absent =>
                keepNewer(listed.services, services)[x] >= services[x]
        BY <2>2, KeepNewerKeeps DEF TypeOK
      <3>2. QED
        BY <1>0, <2>1, <2>3, <3>1 DEF SyncedServices
    <2>4. ASSUME NEW t \in Tasks, tasks'[t] # Absent
          PROVE  tasks'[t] >= tasks[t]
      <3>1. \A x \in Tasks : keepNewer(listed.tasks, tasks)[x] # Absent =>
                keepNewer(listed.tasks, tasks)[x] >= tasks[x]
        BY <2>2, KeepNewerKeeps DEF TypeOK
      <3>2. QED
        BY <1>0, <2>1, <2>4, <3>1 DEF SyncedTasks
    <2>5. ASSUME NEW m \in Configs, members'[m] # Absent
          PROVE  members'[m] >= members[m]
      <3>1. members'[m] = IF "configs" \in has
                          THEN keepNewer(listed.members, members)[m]
                          ELSE members[m]
        BY <1>0, <2>1 DEF SyncedMembers, TypeOf
      <3>2. \A x \in Members : keepNewer(listed.members, members)[x] # Absent =>
                keepNewer(listed.members, members)[x] >= members[x]
        BY <2>2, KeepNewerKeeps DEF TypeOK
      <3>3. QED
        BY <1>0, <2>5, <3>1, <3>2
    <2>6. QED
      BY <2>3, <2>4, <2>5
  <1>5. ASSUME NEW s \in Services, NEW v \in Versions, SetService(w, s, v)
        PROVE  NoneOlder
    BY <1>1, <1>5, VersionFacts DEF SetService
  <1>6. ASSUME NEW s \in Services, DeleteService(w, s) PROVE NoneOlder
    BY <1>1, <1>6, VersionFacts DEF DeleteService
  <1>7. ASSUME NEW t \in Tasks, NEW v \in Versions, SetTask(w, t, v)
        PROVE  NoneOlder
    BY <1>2, <1>7, VersionFacts DEF SetTask
  <1>8. ASSUME NEW t \in Tasks, DeleteTask(w, t) PROVE NoneOlder
    BY <1>2, <1>8, VersionFacts DEF DeleteTask
  <1>9. ASSUME NEW m \in Members, NEW v \in Versions, SetMember(w, m, v)
        PROVE  NoneOlder
    BY <1>3, <1>9, VersionFacts DEF SetMember, StoreMember
  <1>10. ASSUME NEW m \in Configs, NEW v \in Versions, AddConfig(w, m, v)
         PROVE  NoneOlder
    <2>1. members[m] <= v
      BY <1>10, BoundsAssumption
         DEF AddConfig, Absent, Versions, BoundsAssumption
    <2>2. QED
      BY <1>0, <1>3, <1>10, <2>1, VersionFacts DEF AddConfig, StoreMember
  <1>11. ASSUME NEW m \in Members, DeleteMember(w, m) PROVE NoneOlder
    BY <1>3, <1>11, VersionFacts DEF DeleteMember
  <1>12. QED
    BY <1>4, <1>5, <1>6, <1>7, <1>8, <1>9, <1>10, <1>11 DEF Write

\* Within a process no cached Swarm object is replaced by an older one: the
\* version guard of the setters and keepNewer of a sync leave no way past.
THEOREM VersionsOnlyGrow == Spec => VersionsNeverRegress
  <1>1. ASSUME IInv, [Next]_vars, lives' = lives
        PROVE  NoneOlder
    <2>0. /\ \A s \in Services : services[s] \in Nat
          /\ \A t \in Tasks : tasks[t] \in Nat
          /\ \A m \in Configs : members[m] \in Nat
          /\ lives \in Nat
      BY <1>1, BoundsAssumption
         DEF BoundsAssumption, IInv, TypeOK, Stored, Members
    <2>1. CASE \E w \in Writers : Write(w)
      BY <1>1, <2>1, WriteNoneOlder DEF IInv
    <2>2. CASE UNCHANGED resources
      BY <2>0, <2>2 DEF resources, NoneOlder
    <2>3. CASE Restart
      BY <1>1, <2>0, <2>3 DEF Restart
    <2>4. QED
      BY <1>1, <2>1, <2>2, <2>3
         DEF Next, Finish, Forget, Record, Notify, CopyMaps, Publish,
             WriteFails, vars
  <1>2. IInv /\ [Next]_vars => [lives' = lives => NoneOlder]_vars
    BY <1>1
  <1>3. QED
    BY InitIInv, NextIInv, <1>2, PTL DEF Spec, VersionsNeverRegress, NoneOlder

-----------------------------------------------------------------------------
(***************************************************************************)
(* What the effects a write owes after it released the lock add up to, for *)
(* any number of concurrent writers: no change goes untold                 *)
(* (NoUntoldChange), no failure seen goes uncounted (CountedWhenFailed),   *)
(* and no cached task loses the service it is named by (ParentStaysKnown). *)
(***************************************************************************)

(***************************************************************************)
(* Telling.  A write starts idle, so what was coming before it is owed by  *)
(* another writer and still comes; what it changes itself it must owe a    *)
(* note of.                                                                *)
(***************************************************************************)
LEMMA ComingKept ==
    ASSUME TypeOK, NEW w \in Writers, NEW o \in Owed, Idle(w), Owes(w, o),
           NEW e, Coming(e)
    PROVE  Coming(e)'
  BY DEF TypeOK, Idle, Owes, Coming, Nothing, Owed

LEMMA ComingNow ==
    ASSUME TypeOK, NEW w \in Writers, NEW o \in Owed, Owes(w, o),
           NEW e, e \in o.note \cup o.refs \/ <<"sync">> \in o.note
    PROVE  Coming(e)'
  BY DEF TypeOK, Owes, Coming, Owed

Tells(o) ==
    \/ <<"sync">> \in o.note
    \/ /\ \A s \in Services : services'[s] # services[s] =>
              <<"service", s>> \in o.note
       /\ \A t \in Tasks : tasks'[t] # tasks[t] => <<"task", t>> \in o.note
       /\ \A m \in Members : members'[m] # members[m] =>
              <<"member", m>> \in o.note
       /\ \A m \in Members : serviceRef'[m] # serviceRef[m] =>
              <<"ref_changed", m>> \in o.refs

LEMMA WriteTells ==
    ASSUME TypeOK, NoUntoldChange, NEW w \in Writers, NEW o \in Owed,
           Idle(w), Owes(w, o), view' = view, Tells(o)
    PROVE  NoUntoldChange'
  <1>1. \A e : Coming(e) => Coming(e)'
    BY ComingKept
  <1>2. \A e : e \in o.note \cup o.refs \/ <<"sync">> \in o.note => Coming(e)'
    BY ComingNow
  <1>3. QED
    BY <1>1, <1>2 DEF NoUntoldChange, Tells

\* What the reverse references change by is what notifyRefChanges tells.
LEMMA RefChangesTold ==
    ASSUME IInv, NEW s \in Services, NEW v \in Stored,
           serviceRef' = reindexRefs(serviceRef, s, RefsOf(s, services[s]),
                                     RefsOf(s, v)),
           NEW m \in Members, serviceRef'[m] # serviceRef[m]
    PROVE  <<"ref_changed", m>> \in
               notifyRefChanges(RefsOf(s, services[s]), RefsOf(s, v))
  <1>1. RefsOf(s, services[s]) \in [Members -> RefKinds]
        /\ RefsOf(s, v) \in [Members -> RefKinds]
    BY RefsType DEF IInv, TypeOK
  <1>2. serviceRef'[m] = [serviceRef[m] EXCEPT ![s] =
            IF RefsOf(s, v)[m] # "none" THEN RefsOf(s, v)[m]
            ELSE IF RefsOf(s, services[s])[m] # "none" THEN "none" ELSE @]
    BY DEF reindexRefs
  <1>3. serviceRef[m][s] = RefsOf(s, services[s])[m]
    BY DEF IInv, Derived, RefsDerived, rebuildRefs
  <1>4. serviceRef[m] \in [Services -> RefKinds]
    BY DEF IInv, TypeOK
  <1>5. RefsOf(s, services[s])[m] # RefsOf(s, v)[m]
    BY <1>2, <1>3, <1>4
  <1>6. QED
    BY <1>5 DEF notifyRefChanges

LEMMA SetServiceTells ==
    ASSUME IInv, NoUntoldChange, NEW w \in Writers, NEW s \in Services,
           NEW v \in Versions, SetService(w, s, v)
    PROVE  NoUntoldChange'
  <1> DEFINE changes == notifyRefChanges(RefsOf(s, services[s]), RefsOf(s, v))
             o == [Nothing EXCEPT !.note = {<<"service", s>>}, !.refs = changes]
  <1>1. serviceRefs(s, v) = RefsOf(s, v) /\ v \in Stored
    BY VersionFacts, RefsType
  <1>2. Idle(w) /\ Owes(w, o) /\ TypeOK
    BY <1>1 DEF SetService, IInv
  <1>3. o \in Owed
    <2>1. {<<"service", s>>} \in SUBSET Notes /\ changes \in SUBSET Notes
      BY RefNotesType DEF Notes
    <2>2. QED
      BY <2>1, OwedParts
  <1>4. Tells(o)
    <2>1. serviceRef' = reindexRefs(serviceRef, s, RefsOf(s, services[s]),
                                    RefsOf(s, v))
      BY <1>1 DEF SetService
    <2>2. \A m \in Members : serviceRef'[m] # serviceRef[m] =>
              <<"ref_changed", m>> \in changes
      BY <1>1, <2>1, RefChangesTold
    <2>3. \A x \in Services : services'[x] # services[x] => x = s
      BY DEF SetService, IInv, TypeOK
    <2>4. o.refs = changes /\ o.note = {<<"service", s>>}
      BY DEF Nothing
    <2>5. QED
      BY <2>2, <2>3, <2>4 DEF SetService, Tells
  <1>5. QED
    BY <1>2, <1>3, <1>4, WriteTells DEF SetService

LEMMA DeleteServiceTells ==
    ASSUME IInv, NoUntoldChange, NEW w \in Writers, NEW s \in Services,
           DeleteService(w, s)
    PROVE  NoUntoldChange'
  <1> DEFINE changes == notifyRefChanges(RefsOf(s, services[s]), NoRefs)
             o == [Nothing EXCEPT !.forget = {s}, !.note = {<<"service", s>>},
                                  !.refs = changes]
  <1>1. NoRefs = RefsOf(s, Absent) /\ Absent \in Stored
    BY VersionFacts DEF RefsOf
  <1>2. Idle(w) /\ Owes(w, o) /\ TypeOK
    BY DEF DeleteService, IInv
  <1>3. o \in Owed
    <2>1. {<<"service", s>>} \in SUBSET Notes /\ changes \in SUBSET Notes
      BY RefNotesType DEF Notes
    <2>2. QED
      BY <2>1, OwedParts
  <1>4. Tells(o)
    <2>1. \A m \in Members : serviceRef'[m] # serviceRef[m] =>
              <<"ref_changed", m>> \in changes
      <3>1. CASE services[s] = Absent
        BY <3>1 DEF DeleteService
      <3>2. CASE services[s] # Absent
        <4>1. serviceRef' = reindexRefs(serviceRef, s, RefsOf(s, services[s]),
                                        RefsOf(s, Absent))
          BY <1>1, <3>2 DEF DeleteService
        <4>2. QED
          BY <1>1, <4>1, RefChangesTold
      <3>3. QED
        BY <3>1, <3>2
    <2>2. \A x \in Services : services'[x] # services[x] => x = s
      BY DEF DeleteService, IInv, TypeOK
    <2>3. o.refs = changes /\ o.note = {<<"service", s>>}
      BY DEF Nothing
    <2>4. QED
      BY <2>1, <2>2, <2>3 DEF DeleteService, Tells
  <1>5. QED
    BY <1>2, <1>3, <1>4, WriteTells DEF DeleteService

LEMMA TaskTells ==
    ASSUME IInv, NoUntoldChange, NEW w \in Writers, NEW t \in Tasks,
           DeleteTask(w, t) \/ \E v \in Versions : SetTask(w, t, v)
    PROVE  NoUntoldChange'
  <1>1. PICK o \in Owed : /\ Owes(w, o)
                          /\ tasks'[t] # tasks[t] => <<"task", t>> \in o.note
    <2>1. {<<"task", t>>} \in SUBSET Notes /\ {} \in SUBSET Notes
      BY DEF Notes
    <2>2. CASE DeleteTask(w, t)
      <3> DEFINE o == [Nothing EXCEPT !.note = {<<"task", t>>}]
      <3>1. o \in Owed /\ o.note = {<<"task", t>>}
        BY <2>1, OwedParts DEF Nothing
      <3>2. QED
        BY <2>2, <3>1 DEF DeleteTask
    <2>3. ASSUME NEW v \in Versions, SetTask(w, t, v)
          PROVE  \E o \in Owed : /\ Owes(w, o)
                                 /\ tasks'[t] # tasks[t] =>
                                        <<"task", t>> \in o.note
      <3> DEFINE R == IF NewFailure(t, tasks[t], v) THEN {t} ELSE {}
                 N == IF tasks[t] # v THEN {<<"task", t>>} ELSE {}
                 o == [Nothing EXCEPT !.record = R, !.note = N]
      <3>1. R \in SUBSET Tasks /\ N \in SUBSET Notes
        BY <2>1
      <3>2. o \in Owed /\ o.note = N
        <4> HIDE DEF R, N
        <4>1. QED
          BY <3>1, OwedParts DEF Nothing
      <3>3. Owes(w, o)
        BY <2>3 DEF SetTask
      <3>4. tasks'[t] # tasks[t] => <<"task", t>> \in N
        BY <2>3 DEF SetTask, IInv, TypeOK
      <3> HIDE DEF o, N
      <3>5. QED
        BY <3>2, <3>3, <3>4
    <2>4. QED
      BY <2>2, <2>3
  <1>2. /\ Idle(w) /\ TypeOK /\ view' = view
        /\ UNCHANGED <<services, members, serviceRef>>
        /\ \A x \in Tasks : tasks'[x] # tasks[x] => x = t
    BY DEF SetTask, DeleteTask, IInv, TypeOK
  <1>3. Tells(o)
    BY <1>1, <1>2 DEF Tells
  <1>4. QED
    BY <1>1, <1>2, <1>3, WriteTells

LEMMA MemberTells ==
    ASSUME IInv, NoUntoldChange, NEW w \in Writers, NEW m \in Members,
           \/ DeleteMember(w, m)
           \/ Idle(w) /\ \E v \in Versions : StoreMember(w, m, v)
    PROVE  NoUntoldChange'
  <1> DEFINE o == [Nothing EXCEPT !.note = {<<"member", m>>}]
  <1>1. o \in Owed /\ o.note = {<<"member", m>>}
    <2>1. {<<"member", m>>} \in SUBSET Notes
      BY DEF Notes
    <2>2. QED
      BY <2>1, OwedParts DEF Nothing
  <1>2. /\ Idle(w) /\ Owes(w, o) /\ TypeOK /\ view' = view
        /\ UNCHANGED <<services, tasks, serviceRef>>
        /\ \A x \in Members : members'[x] # members[x] => x = m
    BY DEF StoreMember, DeleteMember, IInv, TypeOK
  <1>3. Tells(o)
    BY <1>1, <1>2 DEF Tells
  <1>4. QED
    BY <1>1, <1>2, <1>3, WriteTells

\* Whatever a full sync replaced, its one note makes listeners read it all.
LEMMA ReplaceAllTells ==
    ASSUME IInv, NoUntoldChange, NEW w \in Writers, NEW has \in SUBSET Types,
           NEW listed \in Lists(has), ReplaceAll(w, has, listed)
    PROVE  NoUntoldChange'
  <1>1. PICK R \in SUBSET Tasks :
            Owes(w, [Nothing EXCEPT !.record = R, !.note = {<<"sync">>}])
    BY DEF ReplaceAll
  <1> DEFINE o == [Nothing EXCEPT !.record = R, !.note = {<<"sync">>}]
  <1>2. o \in Owed /\ o.note = {<<"sync">>}
    <2>1. {<<"sync">>} \in SUBSET Notes /\ {} \in SUBSET Notes
          /\ {} \in SUBSET Services
      BY DEF Notes
    <2>2. QED
      BY <1>1, <2>1, OwedParts DEF Nothing
  <1>3. Idle(w) /\ TypeOK /\ view' = view
    BY DEF ReplaceAll, IInv
  <1>4. Tells(o)
    BY <1>2 DEF Tells
  <1>5. QED
    BY <1>1, <1>2, <1>3, <1>4, WriteTells

\* Telling a note takes it off what is owed, and what it is about is read.
LEMMA NotifyTells ==
    ASSUME IInv, NoUntoldChange, NEW w \in Writers, NEW e \in Notes,
           Notify(w, e)
    PROVE  NoUntoldChange'
  <1>1. view \in [services: [Services -> Stored], tasks: [Tasks -> Stored],
                  members: [Members -> Stored],
                  refs: [Members -> [Services -> RefKinds]]]
    BY DEF IInv, TypeOK
  <1>2. UNCHANGED <<services, tasks, members, serviceRef>>
    BY DEF Notify, resources, derived
  <1>3. ASSUME e # <<"sync">>, NEW x, x # e, Coming(x)
        PROVE  Coming(x)'
    <2>1. PICK u \in Writers : \/ x \in todo[u].note \cup todo[u].refs
                               \/ <<"sync">> \in todo[u].note
      BY <1>3 DEF Coming
    <2>2. todo \in [Writers -> Owed]
      BY DEF IInv, TypeOK
    <2>3. /\ todo[u].note \ {e} \subseteq todo'[u].note
          /\ todo[u].refs \ {e} \subseteq todo'[u].refs
      BY <2>2 DEF Notify, Owes, Owed
    <2>4. QED
      BY <1>3, <2>1, <2>3 DEF Coming
  <1>4. CASE e \in {"service"} \X Services
    <2>1. view' = [view EXCEPT !.services[e[2]] = services[e[2]]]
          /\ e # <<"sync">> /\ e = <<"service", e[2]>>
      BY <1>4 DEF Notify, Reread
    <2>2. /\ view'.services = [view.services EXCEPT ![e[2]] = services[e[2]]]
          /\ view'.tasks = view.tasks /\ view'.members = view.members
          /\ view'.refs = view.refs
      BY <1>1, <2>1
    <2>3. QED
      BY <1>1, <1>2, <1>3, <1>4, <2>1, <2>2 DEF NoUntoldChange
  <1>5. CASE e \in {"task"} \X Tasks
    <2>1. view' = [view EXCEPT !.tasks[e[2]] = tasks[e[2]]]
          /\ e # <<"sync">> /\ e = <<"task", e[2]>>
      BY <1>5 DEF Notify, Reread
    <2>2. /\ view'.tasks = [view.tasks EXCEPT ![e[2]] = tasks[e[2]]]
          /\ view'.services = view.services /\ view'.members = view.members
          /\ view'.refs = view.refs
      BY <1>1, <2>1
    <2>3. QED
      BY <1>1, <1>2, <1>3, <1>5, <2>1, <2>2 DEF NoUntoldChange
  <1>6. CASE e \in {"member"} \X Members
    <2>1. view' = [view EXCEPT !.members[e[2]] = members[e[2]]]
          /\ e # <<"sync">> /\ e = <<"member", e[2]>>
      BY <1>6 DEF Notify, Reread
    <2>2. /\ view'.members = [view.members EXCEPT ![e[2]] = members[e[2]]]
          /\ view'.services = view.services /\ view'.tasks = view.tasks
          /\ view'.refs = view.refs
      BY <1>1, <2>1
    <2>3. QED
      BY <1>1, <1>2, <1>3, <1>6, <2>1, <2>2 DEF NoUntoldChange
  <1>7. CASE e \in {"ref_changed"} \X Members
    <2>1. view' = [view EXCEPT !.refs[e[2]] = serviceRef[e[2]]]
          /\ e # <<"sync">> /\ e = <<"ref_changed", e[2]>>
      BY <1>7 DEF Notify, Reread
    <2>2. /\ view'.refs = [view.refs EXCEPT ![e[2]] = serviceRef[e[2]]]
          /\ view'.services = view.services /\ view'.tasks = view.tasks
          /\ view'.members = view.members
      BY <1>1, <2>1
    <2>3. QED
      BY <1>1, <1>2, <1>3, <1>7, <2>1, <2>2 DEF NoUntoldChange
  <1>8. CASE e = <<"sync">>
    BY <1>2, <1>8 DEF Notify, Reread, NoUntoldChange
  <1>9. QED
    BY <1>4, <1>5, <1>6, <1>7, <1>8 DEF Notes

LEMMA QuietTells ==
    ASSUME NoUntoldChange, UNCHANGED <<resources, serviceRef, view>>,
           \A w \in Writers : todo'[w].note = todo[w].note
                              /\ todo'[w].refs = todo[w].refs
    PROVE  NoUntoldChange'
  BY DEF NoUntoldChange, Coming, resources

LEMMA NextTells == IInv /\ NoUntoldChange /\ [Next]_vars => NoUntoldChange'
  <1> SUFFICES ASSUME IInv, NoUntoldChange, [Next]_vars PROVE NoUntoldChange'
    OBVIOUS
  <1>1. ASSUME NEW w \in Writers, Write(w) PROVE NoUntoldChange'
    BY <1>1, SetServiceTells, DeleteServiceTells, TaskTells, MemberTells,
       ReplaceAllTells DEF Write, SetMember, AddConfig, Members
  <1>2. ASSUME NEW w \in Writers, Finish(w) PROVE NoUntoldChange'
    <2>1. ASSUME NEW s \in Services, Forget(w, s) PROVE NoUntoldChange'
      BY <2>1, QuietTells DEF Forget, Owes, IInv, TypeOK, Owed, derived
    <2>2. ASSUME NEW t \in Tasks, Record(w, t) PROVE NoUntoldChange'
      BY <2>2, QuietTells DEF Record, Owes, IInv, TypeOK, Owed, derived
    <2>3. QED
      BY <1>2, <2>1, <2>2, NotifyTells DEF Finish
  <1>3. CASE CopyMaps \/ Publish \/ WriteFails \/ UNCHANGED vars
    BY <1>3, QuietTells DEF CopyMaps, Publish, WriteFails, vars, derived
  <1>4. CASE Restart
    BY <1>4 DEF Restart, NoUntoldChange
  <1>5. QED
    BY <1>1, <1>2, <1>3, <1>4 DEF Next

\* A listener that reads again on every event it is told of is never left
\* with a stale view: for any writers and any order in which their notify
\* calls follow their unlocks, what changed is still to be told.
THEOREM NothingGoesUntold == Spec => []NoUntoldChange
  <1>1. Init => NoUntoldChange
    BY DEF Init, NoUntoldChange
  <1>2. QED
    BY <1>1, InitIInv, NextIInv, NextTells, PTL DEF Spec

(***************************************************************************)
(* Counting.  CountedWhenFailed is not inductive: a task that leaves the   *)
(* cache failed and comes back failed must find its count.  Counted drops  *)
(* the condition that the task is failed now and adds that a task without  *)
(* a service is never counted.  A restart takes over what WriteToDisk      *)
(* copied at two instants, so the claim is about the first process, or     *)
(* about any when nothing is persisted.                                    *)
(***************************************************************************)
Counted ==
    \A t \in observed :
        /\ TaskService[t] # NoService
        /\ restarts[t] > 0 \/ \E w \in Writers : t \in todo[w].record

Unpersisted ==
    ~Persist => ~copying.busy /\ \A t \in Tasks : disk.tasks[t] = Absent

CInv == Unpersisted /\ (lives = 0 \/ ~Persist => Counted)

LEMMA RecordsKept ==
    ASSUME TypeOK, NEW w \in Writers, NEW o \in Owed, Idle(w), Owes(w, o),
           NEW t, \E u \in Writers : t \in todo[u].record
    PROVE  \E u \in Writers : t \in todo'[u].record
  BY DEF TypeOK, Idle, Owes, Nothing, Owed

\* A write that neither observes nor forgets keeps the count.
LEMMA PlainWriteCounts ==
    ASSUME TypeOK, Counted, NEW w \in Writers, NEW o \in Owed, Idle(w),
           Owes(w, o), UNCHANGED tracker
    PROVE  Counted'
  BY RecordsKept DEF Counted, tracker

LEMMA SetTaskCounts ==
    ASSUME IInv, Counted, NEW w \in Writers, NEW t \in Tasks,
           NEW v \in Versions, SetTask(w, t, v)
    PROVE  Counted'
  <1> DEFINE R == IF NewFailure(t, tasks[t], v) THEN {t} ELSE {}
             N == IF tasks[t] # v THEN {<<"task", t>>} ELSE {}
             o == [Nothing EXCEPT !.record = R, !.note = N]
  <1>1. R \in SUBSET Tasks /\ N \in SUBSET Notes
    BY DEF Notes
  <1>2. o \in Owed /\ o.record = R
    <2> HIDE DEF R, N
    <2>1. QED
      BY <1>1, OwedParts DEF Nothing
  <1>3. Idle(w) /\ Owes(w, o) /\ TypeOK /\ restarts' = restarts
    BY DEF SetTask, IInv
  <1>4. todo'[w] = o
    BY <1>3 DEF Owes, TypeOK
  <1>5. \A x \in observed' : \/ x \in observed
                             \/ x = t /\ NewFailure(t, tasks[t], v)
    BY DEF SetTask, Happened, NewFailure
  <1>6. ASSUME NEW x \in observed'
        PROVE  /\ TaskService[x] # NoService
               /\ restarts'[x] > 0 \/ \E u \in Writers : x \in todo'[u].record
    <2> HIDE DEF o
    <2>1. CASE x \in observed
      BY <1>2, <1>3, <2>1, RecordsKept DEF Counted
    <2>2. CASE x = t /\ NewFailure(t, tasks[t], v)
      BY <1>2, <1>4, <2>2 DEF NewFailure
    <2>3. QED
      BY <1>5, <2>1, <2>2
  <1>7. QED
    BY <1>6 DEF Counted

\* A full sync forgets the tasks of dropped services and owes a record of
\* each failure it observes.
LEMMA ReplaceAllCounts ==
    ASSUME IInv, Counted, NEW w \in Writers, NEW has \in SUBSET Types,
           NEW listed \in Lists(has), ReplaceAll(w, has, listed)
    PROVE  Counted'
  <1>1. PICK R \in SUBSET Tasks, F \in SUBSET Tasks :
            /\ \A t \in R : TaskService[t] # NoService
            /\ observed' = (observed \ F) \cup R
            /\ restarts' = [t \in Tasks |-> IF t \in F THEN 0 ELSE restarts[t]]
            /\ Owes(w, [Nothing EXCEPT !.record = R, !.note = {<<"sync">>}])
    <2> DEFINE dropped == IF "services" \in has
                          THEN {s \in Services : services[s] # Absent
                                          /\ listed.services[s] = Absent}
                          ELSE {}
               F == UNION {TasksOf(s) : s \in dropped}
    <2>1. F \in SUBSET Tasks
      BY DEF TasksOf
    <2>2. PICK R \in SUBSET Tasks :
            /\ \A t \in R : TaskService[t] # NoService
            /\ observed' = (observed \ F) \cup R
            /\ restarts' = [t \in Tasks |-> IF t \in F THEN 0 ELSE restarts[t]]
            /\ Owes(w, [Nothing EXCEPT !.record = R, !.note = {<<"sync">>}])
      BY DEF ReplaceAll
    <2>3. QED
      BY <2>1, <2>2
  <1> DEFINE o == [Nothing EXCEPT !.record = R, !.note = {<<"sync">>}]
  <1>2. o \in Owed /\ o.record = R
    <2>1. {<<"sync">>} \in SUBSET Notes /\ {} \in SUBSET Notes
          /\ {} \in SUBSET Services
      BY DEF Notes
    <2>2. QED
      BY <1>1, <2>1, OwedParts DEF Nothing
  <1>3. Idle(w) /\ Owes(w, o) /\ TypeOK
    BY <1>1 DEF ReplaceAll, IInv
  <1>4. todo'[w] = o
    BY <1>3 DEF Owes, TypeOK
  <1>5. observed \subseteq Tasks
    BY DEF IInv, TypeOK
  <1>6. ASSUME NEW x \in observed'
        PROVE  /\ TaskService[x] # NoService
               /\ restarts'[x] > 0 \/ \E u \in Writers : x \in todo'[u].record
    <2> HIDE DEF o
    <2>1. CASE x \in R
      BY <1>1, <1>2, <1>4, <2>1
    <2>2. CASE x \in observed \ F
      <3>1. restarts'[x] = restarts[x]
        BY <1>1, <1>5, <2>2
      <3>2. QED
        BY <1>2, <1>3, <2>2, <3>1, RecordsKept DEF Counted
    <2>3. QED
      BY <1>1, <2>1, <2>2
  <1>7. QED
    BY <1>6 DEF Counted

LEMMA WriteCounts ==
    ASSUME IInv, Counted, NEW w \in Writers, Write(w)
    PROVE  Counted'
  <1>1. ASSUME NEW s \in Services, NEW v \in Versions, SetService(w, s, v)
        PROVE  Counted'
    <2> DEFINE E == notifyRefChanges(RefsOf(s, services[s]), serviceRefs(s, v))
    <2>1. {<<"service", s>>} \in SUBSET Notes /\ E \in SUBSET Notes
      BY RefNotesType DEF Notes
    <2> HIDE DEF E
    <2>2. [Nothing EXCEPT !.note = {<<"service", s>>}, !.refs = E] \in Owed
      BY <2>1, OwedParts
    <2>3. QED
      BY <1>1, <2>2, PlainWriteCounts DEF SetService, IInv, E
  <1>2. ASSUME NEW s \in Services, DeleteService(w, s) PROVE Counted'
    <2> DEFINE E == notifyRefChanges(RefsOf(s, services[s]), NoRefs)
    <2>1. {<<"service", s>>} \in SUBSET Notes /\ E \in SUBSET Notes
      BY RefNotesType DEF Notes
    <2> HIDE DEF E
    <2>2. [Nothing EXCEPT !.forget = {s}, !.note = {<<"service", s>>},
                          !.refs = E] \in Owed
      BY <2>1, OwedParts
    <2>3. QED
      BY <1>2, <2>2, PlainWriteCounts DEF DeleteService, IInv, E
  <1>3. ASSUME NEW t \in Tasks, DeleteTask(w, t) PROVE Counted'
    <2>1. [Nothing EXCEPT !.note = {<<"task", t>>}] \in Owed
      <3>1. {<<"task", t>>} \in SUBSET Notes
        BY DEF Notes
      <3>2. QED
        BY <3>1, OwedParts
    <2>2. QED
      BY <1>3, <2>1, PlainWriteCounts DEF DeleteTask, IInv
  <1>4. ASSUME NEW m \in Members,
               \/ DeleteMember(w, m)
               \/ Idle(w) /\ \E v \in Versions : StoreMember(w, m, v)
        PROVE  Counted'
    <2>1. [Nothing EXCEPT !.note = {<<"member", m>>}] \in Owed
      <3>1. {<<"member", m>>} \in SUBSET Notes
        BY DEF Notes
      <3>2. QED
        BY <3>1, OwedParts
    <2>2. QED
      BY <1>4, <2>1, PlainWriteCounts DEF DeleteMember, StoreMember, IInv
  <1>5. QED
    BY <1>1, <1>2, <1>3, <1>4, SetTaskCounts, ReplaceAllCounts
       DEF Write, SetMember, AddConfig, Members

LEMMA FinishCounts ==
    ASSUME IInv, Counted, NEW w \in Writers, Finish(w)
    PROVE  Counted'
  <1>0. /\ todo \in [Writers -> Owed] /\ observed \subseteq Tasks
        /\ restarts \in [Tasks -> 0..MaxRecords] /\ MaxRecords \in Nat \ {0}
    BY BoundsAssumption DEF IInv, TypeOK, BoundsAssumption
  <1>1. ASSUME NEW s \in Services, Forget(w, s) PROVE Counted'
    <2>1. \A u \in Writers : todo'[u].record = todo[u].record
      BY <1>0, <1>1 DEF Forget, Owes, Owed
    <2>2. \A t \in observed' : t \in observed /\ restarts'[t] = restarts[t]
      BY <1>0, <1>1 DEF Forget, TasksOf
    <2>3. QED
      BY <2>1, <2>2 DEF Counted
  <1>2. ASSUME NEW t \in Tasks, Record(w, t) PROVE Counted'
    <2>1. \A u \in Writers : todo[u].record \ {t} \subseteq todo'[u].record
      BY <1>0, <1>2 DEF Record, Owes, Owed
    <2>2. \A x \in Tasks : restarts'[x] = IF x # t THEN restarts[x]
                             ELSE IF restarts[t] < MaxRecords
                                  THEN restarts[t] + 1 ELSE restarts[t]
      BY <1>0, <1>2 DEF Record
    <2>3. restarts'[t] > 0
      BY <1>0, <2>2
    <2>4. observed' = observed
      BY <1>2 DEF Record
    <2>5. QED
      BY <1>0, <2>1, <2>2, <2>3, <2>4 DEF Counted
  <1>3. ASSUME NEW e \in Notes, Notify(w, e) PROVE Counted'
    <2>1. \A u \in Writers : todo'[u].record = todo[u].record
      BY <1>0, <1>3 DEF Notify, Owes, Owed
    <2>2. QED
      BY <1>3, <2>1 DEF Counted, Notify, tracker
  <1>4. QED
    BY <1>1, <1>2, <1>3, Zenon DEF Finish

LEMMA NextCounts == IInv /\ CInv /\ [Next]_vars => CInv'
  <1> SUFFICES ASSUME IInv, CInv, [Next]_vars PROVE CInv'
    OBVIOUS
  <1>1. ASSUME NEW w \in Writers, Write(w) \/ Finish(w) PROVE CInv'
    <2>1. UNCHANGED storage
      BY ZenonT(30), <1>1 DEF Write, Finish, SetService, DeleteService, SetTask, DeleteTask,
         SetMember, AddConfig, StoreMember, DeleteMember, ReplaceAll, Forget,
         Record, Notify
    <2>2. QED
      BY <1>1, <2>1, WriteCounts, FinishCounts DEF CInv, Unpersisted, storage
  <1>2. CASE UNCHANGED vars
    BY <1>2 DEF vars, storage, tracker, CInv, Unpersisted, Counted
  <1>3. CASE CopyMaps \/ Publish \/ WriteFails
    <2>1. UNCHANGED <<tracker, todo, lives>>
      BY <1>3 DEF CopyMaps, Publish, WriteFails
    <2>2. Unpersisted'
      <3>1. CASE Persist
        BY <3>1 DEF Unpersisted
      <3>2. CASE ~Persist
        BY <1>3, <3>2 DEF CInv, Unpersisted, CopyMaps, Publish, WriteFails,
           NoCopy
      <3>3. QED
        BY <3>1, <3>2
    <2>3. QED
      BY <2>1, <2>2 DEF CInv, Counted, tracker
  <1>4. CASE Restart
    <2>1. lives' # 0 /\ lives \in Nat
      BY <1>4, BoundsAssumption DEF Restart, IInv, TypeOK, BoundsAssumption
    <2>2. Unpersisted'
      BY <1>4 DEF Restart, CInv, Unpersisted, NoCopy
    <2>3. ~Persist => observed' = {}
      BY <1>4 DEF Restart, CInv, Unpersisted, IsFailure, IInv, TypeOK
    <2>4. QED
      BY <2>1, <2>2, <2>3 DEF CInv, Counted
  <1>5. QED
    BY <1>1, <1>2, <1>3, <1>4 DEF Next

\* However SetTask, ReplaceAll, Forget and Record of concurrent writers
\* interleave, a failure the process saw happen is in the tracker or about to
\* be.  A process that restored a snapshot is left out: its counts may be
\* older than its maps.
THEOREM FailuresAreCounted ==
    Spec => [](lives = 0 \/ ~Persist => CountedWhenFailed)
  <1>1. Init => CInv
    BY DEF Init, CInv, Unpersisted, Counted, NoCopy, NoSnapshot
  <1>2. CInv => (lives = 0 \/ ~Persist => CountedWhenFailed)
    BY DEF CInv, Counted, CountedWhenFailed
  <1>3. QED
    BY <1>1, <1>2, InitIInv, NextIInv, NextCounts, PTL DEF Spec

(***************************************************************************)
(* The service a task is named by.                                         *)
(***************************************************************************)
StaysKnown ==
    \A t \in Tasks :
       (lives' = lives /\ tasks[t] # Absent /\ tasks'[t] # Absent
        /\ ParentKnown(t)) => ParentKnown(t)'

LEMMA ReplaceAllKnows ==
    ASSUME IInv, NEW w \in Writers, NEW has \in SUBSET Types,
           NEW listed \in Lists(has), ReplaceAll(w, has, listed)
    PROVE  StaysKnown
  <1> SUFFICES ASSUME NEW t \in Tasks, tasks[t] # Absent, tasks'[t] # Absent,
                      TaskService[t] # NoService, ParentKnown(t)
               PROVE  LET s == TaskService[t]
                      IN services'[s] # Absent \/ goneServices'[s] # Absent
    BY DEF StaysKnown, ParentKnown
  <1> DEFINE s == TaskService[t]
             byService == ListedIndex(Services, ServiceAt, listed.tasks)
             remaining == IF "tasks" \in has THEN byService ELSE tasksByService
             dropped == IF "services" \in has
                        THEN {x \in Services : services[x] # Absent
                                          /\ listed.services[x] = Absent}
                        ELSE {}
             gone == [x \in Services |->
                      IF x \in dropped
                      THEN GoneFor(x, services[x], remaining[x])
                      ELSE goneServices[x]]
  <1>1. s \in Services
    BY ContentAssumption DEF ContentAssumption
  <1>2. /\ services' = SyncedServices(has, listed.services)
        /\ tasks' = SyncedTasks(has, listed.tasks)
        /\ "tasks" \in has => goneServices' = Pruned(gone, tasksByService')
        /\ "tasks" \notin has => goneServices' = gone
    BY DEF ReplaceAll
  <1>3. /\ listed.tasks \in [Tasks -> Stored]
        /\ listed.services \in [Services -> Stored]
    BY SyncedTypes DEF IInv
  <1>4. t \in remaining[s]
    <2>1. CASE "tasks" \in has
      <3>1. listed.tasks[t] # Absent
        BY <1>2, <1>3, <2>1 DEF SyncedTasks, keepNewer
      <3>2. QED
        BY <1>1, <1>3, <2>1, <3>1, VersionFacts DEF ListedIndex, ServiceAt
    <2>2. CASE "tasks" \notin has
      BY <1>1, <2>2 DEF IInv, Derived, IndexesDerived
    <2>3. QED
      BY <2>1, <2>2
  <1>5. t \in tasksByService'[s]
    <2>1. IndexesDerived'
      BY ReplaceAllStep DEF IInv, Derived
    <2>2. QED
      BY <1>1, <2>1 DEF IndexesDerived
  <1>6. goneServices'[s] = gone[s]
    BY <1>1, <1>2, <1>5 DEF Pruned
  <1>7. CASE s \in dropped
    BY <1>1, <1>4, <1>6, <1>7 DEF GoneFor
  <1>8. CASE s \notin dropped
    <2>1. goneServices'[s] = goneServices[s]
      BY <1>1, <1>6, <1>8
    <2>2. services[s] # Absent => services'[s] # Absent
      <3>1. CASE "services" \notin has
        BY <1>2, <3>1 DEF SyncedServices
      <3>2. CASE "services" \in has
        <4>1. services[s] # Absent => listed.services[s] # Absent
          BY <1>1, <1>8, <3>2
        <4>2. services'[s] = keepNewer(listed.services, services)[s]
          BY <1>2, <3>2 DEF SyncedServices
        <4>3. services[s] \in Nat /\ listed.services[s] \in Nat
          BY <1>1, <1>3, BoundsAssumption DEF IInv, TypeOK, Stored,
             BoundsAssumption
        <4>4. QED
          BY <1>1, <1>3, <4>1, <4>2, <4>3 DEF keepNewer, Newer, Absent
      <3>3. QED
        BY <3>1, <3>2
    <2>3. QED
      BY <2>1, <2>2 DEF ParentKnown
  <1>9. QED
    BY <1>7, <1>8

LEMMA WriteKnows ==
    ASSUME IInv, NEW w \in Writers, Write(w)
    PROVE  StaysKnown
  <1>0. /\ services \in [Services -> Stored] /\ tasks \in [Tasks -> Stored]
        /\ goneServices \in [Services -> Stored]
        /\ \A t \in Tasks : TaskService[t] # NoService => TaskService[t] \in Services
    BY ContentAssumption DEF IInv, TypeOK, ContentAssumption
  <1>1. ASSUME NEW s \in Services, NEW v \in Versions, SetService(w, s, v)
        PROVE  StaysKnown
    BY <1>0, <1>1, VersionFacts DEF SetService, StaysKnown, ParentKnown
  <1>2. ASSUME NEW s \in Services, DeleteService(w, s) PROVE StaysKnown
    <2>1. CASE services[s] = Absent
      BY <1>0, <1>2, <2>1 DEF DeleteService, StaysKnown, ParentKnown
    <2>2. CASE services[s] # Absent
      <3>1. \A t \in Tasks : tasks[t] # Absent /\ TaskService[t] = s =>
                tasksByService[s] # {}
        BY DEF IInv, Derived, IndexesDerived
      <3>2. goneServices' = [goneServices EXCEPT ![s] =
                GoneFor(s, services[s], tasksByService[s])]
            /\ services' = [services EXCEPT ![s] = Absent]
        BY <1>2, <2>2 DEF DeleteService
      <3>3. QED
        BY <1>0, <2>2, <3>1, <3>2 DEF StaysKnown, ParentKnown, GoneFor
    <2>3. QED
      BY <2>1, <2>2
  <1>3. ASSUME NEW t \in Tasks, NEW v \in Versions, SetTask(w, t, v)
        PROVE  StaysKnown
    BY <1>3 DEF SetTask, StaysKnown, ParentKnown
  <1>4. ASSUME NEW t \in Tasks, DeleteTask(w, t) PROVE StaysKnown
    <2>1. services' = services /\ tasks' = [tasks EXCEPT ![t] = Absent]
      BY <1>4 DEF DeleteTask
    <2>2. ASSUME NEW x \in Tasks, tasks'[x] # Absent, TaskService[x] # NoService
          PROVE  goneServices'[TaskService[x]] = goneServices[TaskService[x]]
      <3>1. TaskService[x] \in Services
        BY <1>0, <2>2
      <3>2. x \in tasksByService'[TaskService[x]]
        <4>1. IndexesDerived'
          BY <1>4, DeleteTaskStep DEF IInv, Derived
        <4>2. QED
          BY <2>2, <3>1, <4>1 DEF IndexesDerived
      <3>3. QED
        BY <1>0, <1>4, <3>1, <3>2 DEF DeleteTask, Pruned
    <2>3. QED
      BY <2>1, <2>2 DEF StaysKnown, ParentKnown
  <1>5. ASSUME NEW m \in Members,
               DeleteMember(w, m) \/ \E v \in Versions : StoreMember(w, m, v)
        PROVE  StaysKnown
    BY <1>5 DEF DeleteMember, StoreMember, StaysKnown, ParentKnown
  <1>6. QED
    BY <1>1, <1>2, <1>3, <1>4, <1>5, ReplaceAllKnows
       DEF Write, SetMember, AddConfig, Members

\* removedTaskFromLocked, DeleteService and ReplaceAll never lose the service
\* of a task that stays cached, for any lists a sync brings.
THEOREM ParentsStayKnown == Spec => ParentStaysKnown
  <1>1. ASSUME IInv, [Next]_vars
        PROVE  StaysKnown
    <2>1. CASE \E w \in Writers : Write(w)
      BY <1>1, <2>1, WriteKnows
    <2>2. CASE UNCHANGED <<resources, derived>>
      BY <2>2 DEF resources, derived, StaysKnown, ParentKnown
    <2>3. CASE Restart
      <3>1. lives' # lives
        BY <1>1, <2>3, BoundsAssumption
           DEF Restart, IInv, TypeOK, BoundsAssumption
      <3>2. QED
        BY <3>1 DEF StaysKnown
    <2>4. QED
      BY <1>1, <2>1, <2>2, <2>3
         DEF Next, Finish, Forget, Record, Notify, CopyMaps, Publish,
             WriteFails, vars
  <1>2. IInv /\ [Next]_vars => [StaysKnown]_vars
    BY <1>1
  <1>3. QED
    BY InitIInv, NextIInv, <1>2, PTL DEF Spec, ParentStaysKnown, StaysKnown

=============================================================================
