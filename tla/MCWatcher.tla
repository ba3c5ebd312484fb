----------------------------- MODULE MCWatcher -----------------------------
(***************************************************************************)
(* Instances of Watcher: a service that owns every task, and tasks that    *)
(* run from their last version on, until they vanish.                      *)
(***************************************************************************)
EXTENDS Watcher, TLC

CONSTANTS o1, n1, t1

MCOwners == [t \in Tasks |-> Parents]
MCSettled == [action \in {"settle", "started"} |-> [t \in Tasks |->
                 IF action = "started" THEN {MaxVersion} ELSE {}]]
=============================================================================
