------------------------------- MODULE Picking -------------------------------
(***************************************************************************)
(* The loop that goes through a sequence and appends the elements it wants *)
(* to another: `for i, x := range s { if wanted { out = append(out, x) } }'.*)
(***************************************************************************)
EXTENDS Integers, Sequences

\* The elements of s at the indices of I, in order.
Pick(s, I) ==
  LET upTo[n \in 0 .. Len(s)] ==
        IF n = 0 THEN <<>>
        ELSE IF n \in I THEN Append(upTo[n - 1], s[n]) ELSE upTo[n - 1]
  IN  upTo[Len(s)]
=============================================================================
