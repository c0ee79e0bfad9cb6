------------------------------- MODULE MCSuck -------------------------------
(* A small instance of Suck for TLC. *)
EXTENDS Suck

\* Two courses, a department, one whose code begins with 4, and a course whose
\* code cannot name a directory.
A == <<"4", <<"7", "1">>>>
B == <<"4", <<"3">>>>
D == <<"3", <<"7">>>>
D4 == <<"3", <<"4", "2">>>>
X == <<"4", <<"8", "/">>>>

Files == "newmaterialdid.asp"
Forum == "foroDis.asp"
Other == "horarios.asp"

MCSections == (A :> <<Other, Files, Forum>>) @@ (B :> <<Forum, Other>>) @@ (D :> <<Files>>)
           @@ (D4 :> <<Files>>) @@ (X :> <<Files>>)

\* A link that leaves the page, one to no context at all, and one to a level the
\* program does not know.
Logout4 == <<"4">>
Unknown == LinkTo(<<"4", <<"9">>>>)
Level5 == LinkTo(<<"5", <<"7">>>>)

\* Up to three links out of these; the page may link to one twice.
MCPages == UNION {[1..n -> {LinkTo(A), Append(LinkTo(B), ";"), LinkTo(D), Append(LinkTo(D4), ";"),
                            LinkTo(X), Logout4, Unknown, Level5}] : n \in 1..3}

\* What a command line or a file may leave open, and what the library may refuse.
Values == [SettingNames -> {"good", "bad", "none"}]
MCOptions ==
    LET value(r, p, h, t) == [s \in SettingNames |->
            IF s = "repository" THEN r ELSE IF s = "proxy" THEN p
            ELSE IF s = "server" THEN h ELSE IF s = "proxy_type" THEN t
            ELSE IF s \in {"proxy_user", "dump"} THEN "none" ELSE "good"]
    IN  {[username |-> u, password |-> w, forum |-> f, value |-> value(r, p, h, t)] :
            u, f \in BOOLEAN, w \in {"good", "bad", "none"}, r, p, h \in {"good", "bad", "none"},
            t \in {"good", "bad"}}
=============================================================================
