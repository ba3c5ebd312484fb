----------------------------- MODULE AuditTrail -----------------------------
(***************************************************************************)
(* What the exec subsystem promises an auditor, whatever its goroutines do: *)
(* a shell is handed to a user only after its start record is in the log,  *)
(* its end record is written only once nobody is using it any more, and a  *)
(* session's records are one start followed by at most one end.            *)
(***************************************************************************)
CONSTANT Sessions

VARIABLES
    trail,    \* what the log holds of each session
    served    \* the sessions whose shell a user is typing into

trailVars == <<trail, served>>

TrailInit ==
    /\ trail = [s \in Sessions |-> "nothing"]
    /\ served = {}

RecordStart(s) ==
    /\ trail[s] = "nothing"
    /\ trail' = [trail EXCEPT ![s] = "started"]
    /\ UNCHANGED served

Serve(s) ==
    /\ trail[s] = "started"
    /\ s \notin served
    /\ served' = served \cup {s}
    /\ UNCHANGED trail

\* One record that cannot be written withdraws several shells at once.
Withdraw(S) ==
    /\ S # {}
    /\ S \subseteq served
    /\ served' = served \ S
    /\ UNCHANGED trail

RecordEnd(s) ==
    /\ trail[s] = "started"
    /\ s \notin served
    /\ trail' = [trail EXCEPT ![s] = "closed"]
    /\ UNCHANGED served

TrailNext ==
    \/ \E s \in Sessions : RecordStart(s) \/ Serve(s) \/ RecordEnd(s)
    \/ \E S \in SUBSET Sessions : Withdraw(S)

TrailSpec == TrailInit /\ [][TrailNext]_trailVars
=============================================================================
