--------------------------------- MODULE Lists ---------------------------------
(* Operators on sequences, in forms that can be reasoned about: SelectSeq     *)
(* takes an operator, which no proof can instantiate.                        *)
EXTENDS Naturals, Sequences

Elements(seq) == {seq[i] : i \in 1 .. Len(seq)}

(* The elements of seq that are in S, in their order.                        *)
Filtered(seq, S) ==
    LET kept[i \in 0 .. Len(seq)] ==
            IF i = 0 THEN << >>
            ELSE IF seq[i] \in S THEN Append(kept[i - 1], seq[i])
            ELSE kept[i - 1]
    IN  kept[Len(seq)]
================================================================================
