---------------------------- MODULE Comprehension ----------------------------
(***************************************************************************)
(* The list comprehension with a condition, [x for x in s if ...], that    *)
(* the pipeline, the recorder and the fixture backend select with: what is *)
(* kept, in the order it came in.  A recursive function instead of         *)
(* SelectSeq, so that it can be proved about.                              *)
(***************************************************************************)
EXTENDS Naturals, Sequences

\* The elements of s that are in chosen, in the order of s.
Only(s, chosen) ==
    LET kept[n \in 0..Len(s)] ==
            IF n = 0 THEN <<>>
            ELSE IF s[n] \in chosen THEN Append(kept[n - 1], s[n]) ELSE kept[n - 1]
    IN  kept[Len(s)]

=============================================================================
