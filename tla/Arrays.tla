------------------------------- MODULE Arrays -------------------------------
(***************************************************************************)
(* What Array.prototype.filter does to a sequence.  It is a recursive      *)
(* function over the places that are kept, and not SelectSeq, whose        *)
(* argument is an operator, so that theorems can be proved about it.       *)
(***************************************************************************)
EXTENDS Naturals, Sequences

(* The elements of s at the places, in their order.                         *)
Kept(s, places) ==
  LET first[i \in 0 .. Len(s)] ==
        IF i = 0 THEN <<>>
        ELSE IF i \in places THEN Append(first[i - 1], s[i]) ELSE first[i - 1]
  IN first[Len(s)]
=============================================================================
