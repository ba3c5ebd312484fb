------------------------------ MODULE Versions ------------------------------
(***************************************************************************)
(* Configs and secrets cannot be changed in place, so one is replaced by a *)
(* new one under another name; these group what are versions of the same   *)
(* thing (internal/versions, internal/cluster/versions.go), decide which   *)
(* of them a list shows, and which digests a change touches.               *)
(*                                                                         *)
(* An item has its kind, id, stack, what its label declares it a version   *)
(* of ("" for nothing), the stem its name leaves without the suffix of a   *)
(* version and the prefix of its stack, and when it was created.  A use is *)
(* [of |-> an id, by |-> a service's name, rollback |-> ...].              *)
(***************************************************************************)
EXTENDS Integers, Sequences, FiniteSets, SequencesExt, TLC

(* Key *)
Key(it) == <<it.stack, IF it.declared # "" THEN it.declared ELSE it.stem>>

(* Group: the place of an item among its versions, newest first; a tie     *)
(* goes to the greater id.                                                 *)
Newer(a, b) == a.created > b.created \/ (a.created = b.created /\ a.order > b.order)
Versions(items, it) == {x \in items : x.kind = it.kind /\ Key(x) = Key(it)}
Grouped(items, it) == Cardinality(Versions(items, it)) > 1
Rank(items, it) == Cardinality({x \in Versions(items, it) : Newer(x, it)})
Membership(items, it) ==
  [of |-> Key(it), rank |-> Rank(items, it), count |-> Cardinality(Versions(items, it)),
   inferred |-> \E x \in Versions(items, it) : x.declared = ""]

(* inCurrentUse, ReadableUsers: by services the caller may read; what only *)
(* a rollback would use is not in use.                                     *)
ReadableUsers(uses, it, reads) == {u \in uses : u.of = it.id /\ <<"service", u.by>> \in reads}
inCurrentUse(uses, it, reads) == \E u \in ReadableUsers(uses, it, reads) : ~ u.rollback

(* groupVersions: older versions nobody uses are hidden, and counted.      *)
hidden(items, uses, reads, it) ==
  {x \in Versions(items, it) : Rank(items, x) > 0 /\ ~ inCurrentUse(uses, x, reads)}
shown(items, uses, reads, it) == Rank(items, it) = 0 \/ inCurrentUse(uses, it, reads)

Alone == [of |-> <<>>, inferred |-> FALSE, newest |-> TRUE, inUse |-> FALSE, older |-> 0]
CountEveryOlder(items, uses, reads, it) ==
  IF ~ Grouped(items, it) THEN Alone
  ELSE LET m == Membership(items, it)
       IN  [of |-> m.of, inferred |-> m.inferred, newest |-> m.rank = 0,
            inUse |-> m.rank > 0 /\ inCurrentUse(uses, it, reads),
            older |-> IF m.rank = 0 THEN m.count - 1 ELSE 0]

(* VersionGroups.Version *)
Version(items, uses, reads, it) ==
  IF ~ Grouped(items, it) THEN Alone
  ELSE LET m == Membership(items, it)
       IN  [of |-> m.of, inferred |-> m.inferred, newest |-> m.rank = 0,
            inUse |-> m.rank > 0 /\ inCurrentUse(uses, it, reads),
            older |-> IF m.rank = 0 THEN Cardinality(hidden(items, uses, reads, it)) ELSE 0]

(* VersionView.Fields, and with them the rows and records of a list *)
Fields(items, uses, reads, it) ==
  <<Version(items, uses, reads, it), Cardinality(ReadableUsers(uses, it, reads))>>

(* ParseVersionSelection: a list that is narrowed finds older versions.    *)
ParseVersionSelection(arg, of, narrowed) ==
  CASE arg = "" -> [all |-> narrowed, of |-> of]
    [] arg = "newest" -> [all |-> FALSE, of |-> of]
    [] arg = "all" -> [all |-> TRUE, of |-> of]
    [] OTHER -> [all |-> FALSE, of |-> "unknown"]

(* SelectVersions: the versions of one item, newest first, or a list. *)
SelectVersions(items, uses, reads, sel) ==
  IF sel.of # ""
  THEN LET same == UNION {Versions(items, x) : x \in {y \in items : y.id = sel.of}}
       IN  SetToSortSeq(same, Newer)
  ELSE SetToSeq({x \in items : sel.all \/ shown(items, uses, reads, x)})

(* VersionIndex.ConfigVersion, SecretVersion: of one record, with those of *)
(* its siblings the caller may read.                                       *)
IndexedVersion(world, uses, reads, it) ==
  Version({it} \cup {x \in Versions(world, it) : <<x.kind, x.name>> \in reads}, uses, reads, it)

TouchedByRecord(world, now, previous) ==
  {x \in Versions(world, now) : x.id # now.id}

(* digestsTouchedBy: the siblings of what a record is, and was, a version  *)
(* of.                                                                     *)
digestsTouchedBy(world, now, previous) ==
  {x \in Versions(world, now) \cup Versions(world, previous) : x.id # now.id}
=============================================================================
