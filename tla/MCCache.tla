------------------------------ MODULE MCCache ------------------------------
(***************************************************************************)
(* Small instances of Cache.  The contents are chosen so that each object  *)
(* changes what is derived from it between its versions: it moves to       *)
(* another stack, to another node, from the current to the previous spec,  *)
(* and a task fails.                                                       *)
(***************************************************************************)
EXTENDS Cache, TLC

CONSTANTS s1, s2, t1, t2, c1, c2, v1, a, b, n1, n2, web

\* Both tasks belong to s1, so a task can be its last and not its last.
MCTaskService == [t \in Tasks |-> s1]

\* A task is scheduled first and then placed, and t2 moves the other way.
MCTaskNode == [t \in Tasks |-> IF t = t1 THEN <<n1, n2>> ELSE <<n2, n1>>]

\* The last version of a task is a failure.
MCFailed == [t \in Tasks |-> {MaxVersion}]
NeverFailed == [t \in Tasks |-> {}]

MCNameOf == [s \in Services |-> web]

\* s1 leaves stack a for b; s2 joins a.
MCServiceStack == [s \in Services |-> IF s = s1 THEN <<a, b>> ELSE <<NoStack, a>>]
MCMemberStack == [m \in Members |-> IF m = v1 THEN <<b, a>> ELSE <<a, b>>]

\* s1 rotates its config: version 2 needs c2, and c1 only for a rollback.
MCSpecRefs == [s \in Services |-> IF s = s1 THEN <<{c1, v1} \cap Members, {c2, v1} \cap Members>>
                                  ELSE <<{}, {c1} \cap Members>>]
MCPreviousRefs == [s \in Services |-> IF s = s1 THEN <<{}, {c1} \cap Configs>>
                                      ELSE <<{}, {}>>]

\* Writers only name goroutines.
WriterSymmetry == Permutations(Writers)
=============================================================================
