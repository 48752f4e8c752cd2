------------------------------- MODULE Filter -------------------------------
(***************************************************************************)
(* filter() of a JavaScript array, by the elements that are dropped: what  *)
(* SelectSeq does, as a recursive function, which a proof can expand.      *)
(***************************************************************************)
EXTENDS Naturals, Sequences

\* What remains of s without the elements of A, in its order.
Remaining(s, A) ==
  LET kept[i \in 0..Len(s)] ==
        IF i = 0 THEN <<>>
        ELSE IF s[i] \in A THEN kept[i - 1] ELSE Append(kept[i - 1], s[i])
  IN  kept[Len(s)]
=============================================================================
