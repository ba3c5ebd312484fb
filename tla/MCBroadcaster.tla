--------------------------- MODULE MCBroadcaster ---------------------------
(***************************************************************************)
(* Instances of Broadcaster for TLC.                                       *)
(***************************************************************************)
EXTENDS Broadcaster, TLC

CONSTANTS b1, b2, h1, h2, alice

OneOwner == [b \in Browsers |-> alice]
\* b1 follows everything, b2 services only.
MCAccepts == [b \in Browsers |-> IF b = b1 THEN Types ELSE Types \ {"gap"}]

Symmetry == Permutations(Handlers)
=============================================================================
