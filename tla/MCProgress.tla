----------------------------- MODULE MCProgress -----------------------------
(* Small dots and rows, and for the bar sizes of every length. *)
EXTENDS Progress

MCSizes ==
    [m \in Meters |->
        IF m = "dot" THEN 0 .. 14
        ELSE {0, 1, 1000, 999999, 1000000000, 2000000000}]

MCTotals == [m \in Meters |-> IF m = "dot" THEN {0, 6} ELSE {0, 1000, 20000000}]
=============================================================================
