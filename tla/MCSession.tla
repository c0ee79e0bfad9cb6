------------------------------ MODULE MCSession -----------------------------
(* A small instance of Session for TLC: two courses with material. *)
EXTENDS Session

A == <<"4", <<"7">>>>
B == <<"4", <<"8">>>>

MCSections == [c \in {A, B} |-> <<"newmaterialdid.asp">>]

\* Up to two links; the page may link to one twice.
MCPages == UNION {[1..n -> {LinkTo(A), LinkTo(B)}] : n \in 1..2}
=============================================================================
