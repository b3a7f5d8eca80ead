------------------------------- MODULE Lists --------------------------------
(***************************************************************************)
(* A list filtered by membership.  It is what SelectSeq does, written as a *)
(* recursive function of first-order arguments, so that its properties are *)
(* lemmas: SelectSeq is a primitive of the prover that it knows nothing    *)
(* of.                                                                     *)
(***************************************************************************)
EXTENDS Naturals, Sequences

(* The elements of s that are in K, in the order of s. *)
Kept(s, K) ==
  LET kept[i \in 0 .. Len(s)] ==
        IF i = 0 THEN <<>>
        ELSE IF s[i] \in K THEN Append(kept[i - 1], s[i]) ELSE kept[i - 1]
  IN  kept[Len(s)]
=============================================================================
