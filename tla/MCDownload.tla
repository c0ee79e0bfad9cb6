----------------------------- MODULE MCDownload -----------------------------
(* Small instances of Download for TLC. *)
EXTENDS Download, TLC

CONSTANTS p1, p2, d1, d2, f, g

\* Each process in a repository of its own.
OwnRoots == p1 :> {d1} @@ p2 :> {d2}

TwoAndOne == {<<d1, f>>, <<d1, g>>, <<d2, f>>}

\* Two processes started on one repository, as the wizard does when its
\* button is pressed twice.
SharedRoots == p1 :> {d1} @@ p2 :> {d1}

OneFile == {<<d1, f>>}

=============================================================================
