-------------------------------- MODULE Sifting --------------------------------
(***************************************************************************)
(* The filter of the arrays of the code, as a recursive function of the    *)
(* number of elements seen, which the proofs can reason about.             *)
(***************************************************************************)
EXTENDS Integers, Sequences

(* The elements of s that are in A, in their order.                        *)
Only(s, A) ==
  LET upTo[k \in 0..Len(s)] ==
        IF k = 0 THEN <<>>
        ELSE IF s[k] \in A THEN Append(upTo[k - 1], s[k]) ELSE upTo[k - 1]
  IN  upTo[Len(s)]
==============================================================================
