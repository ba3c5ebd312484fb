----------------------------- MODULE Sequencing -----------------------------
(***************************************************************************)
(* Filtering a queue in place, as the code does with a loop that appends   *)
(* what it keeps to the emptied slice.  The loop is a recursive function,  *)
(* which SequencingProofs reasons about for sequences of any length.       *)
(***************************************************************************)
EXTENDS Integers, Sequences

(* What is left of s, in its order, without the elements in gone.          *)
Sifted(s, gone) ==
  LET kept[i \in 0..Len(s)] ==
        IF i = 0 THEN <<>>
        ELSE IF s[i] \in gone THEN kept[i - 1] ELSE Append(kept[i - 1], s[i])
  IN  kept[Len(s)]
=============================================================================
