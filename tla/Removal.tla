------------------------------ MODULE Removal ------------------------------
(* What is left of a sequence when elements are removed: SelectSeq, in a   *)
(* form that can be reasoned about.                                        *)
EXTENDS Naturals, Sequences

(* Nothing comes twice.                                                   *)
Distinct(seq) == \A i, j \in DOMAIN seq : i # j => seq[i] # seq[j]

(* A sequence without what is in S.                                        *)
AllBut(seq, S) ==
    LET kept[n \in 0 .. Len(seq)] ==
          IF n = 0 THEN <<>>
          ELSE IF seq[n] \in S THEN kept[n - 1] ELSE Append(kept[n - 1], seq[n])
    IN  kept[Len(seq)]
=============================================================================
