------------------------------ MODULE Selection -----------------------------
(***************************************************************************)
(* SelectSeq for a set: the members of a sequence that are in a set, in    *)
(* their order.  It is a recursive function, which can be proved about.    *)
(***************************************************************************)
EXTENDS Naturals, Sequences

SelectIn(s, S) ==
    LET upTo[n \in 0..Len(s)] ==
            IF n = 0 THEN <<>>
            ELSE IF s[n] \in S THEN Append(upTo[n - 1], s[n])
            ELSE upTo[n - 1]
    IN  upTo[Len(s)]
=============================================================================
