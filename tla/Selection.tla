-------------------------------- MODULE Selection --------------------------------
(***************************************************************************)
(* Selecting from a sequence.  SelectSeq has its condition as a parameter  *)
(* that no theorem can have; here it is the set of what is selected.       *)
(***************************************************************************)
EXTENDS Naturals, Sequences

\* Those elements of s that are in S.
Only(s, S) ==
  LET first[n \in 0 .. Len(s)] ==
        IF n = 0 THEN <<>>
        ELSE IF s[n] \in S THEN Append(first[n - 1], s[n]) ELSE first[n - 1]
  IN  first[Len(s)]
=============================================================================
