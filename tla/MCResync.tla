------------------------------ MODULE MCResync ------------------------------
(* Small instances of Resync for TLC. *)
EXTENDS Resync

CONSTANTS c1, c2, gp, tp

\* One course with files of the same name in two folders, and another course that
\* offers a file of that name too.
TwoCourses == c1 :> {<<gp, "a">>, <<tp, "a">>} @@ c2 :> {<<"a">>}

OneCourse == c1 :> {<<"a">>, <<tp, "a">>}

\* Nothing tells the two folders apart.
FolderSymmetry == Permutations({gp, tp})

Codes == c1 :> <<"1">> @@ c2 :> <<"2">>

\* Two names, and one name in two spellings.
MCTitles == {c1 :> <<"a">> @@ c2 :> <<"b", "\t", " ", "a", " ">>,
             c1 :> <<"a">> @@ c2 :> <<" ", "A", " ">>}

MCDirNames == {<<"1">>, <<"2">>, <<"A">>, <<"B", "\t", "A">>}

\* Both kinds of names, with the report; what a dry run does, one whose downloads
\* fail does too.
ReportOptions == [fancy : BOOLEAN, xenofobe : {TRUE}, dry : {FALSE}]
AllOptions == [fancy : BOOLEAN, xenofobe : BOOLEAN, dry : BOOLEAN]

\* The user's file has the name of one the courses may publish.
DropA == {<<"a">>}

=============================================================================
