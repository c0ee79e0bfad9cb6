----------------------------- MODULE LinkParser -----------------------------
(***************************************************************************)
(* The parser of link.c, which finds the links of a page one character at  *)
(* a time: a table of states (st_start ... st_tag_a_end_is_a_again), the   *)
(* functions of its transitions, and two buffers of Cap characters, of     *)
(* which one is for the terminating NUL.                                   *)
(*                                                                         *)
(* A character is one of Alphabet, where letters stand for both cases,     *)
(* the quote for both kinds, "space" for every space and "x" for the       *)
(* rest.  The machine that runs the table, stm of libmisc, is not in the   *)
(* repository: it takes the first row of the state that fits.              *)
(***************************************************************************)
EXTENDS Naturals, Sequences

CONSTANTS
    Cap,             \* sizeof link and comment; 4096 in the code
    None             \* no report

ASSUME CapAssumption == Cap \in Nat \ {0}

Alphabet == {"<", ">", "/", "=", "quote", "a", "h", "r", "e", "f", "space", "x"}

\* What the callback may see.
Reports == [link : Seq(Alphabet), comment : Seq(Alphabet \cup {"NUL"})]

ASSUME NoneAssumption == None \notin Reports /\ None \notin Seq(Alphabet)

VARIABLES
    st,              \* the state of the machine
    link,            \* the string in parser->link
    comment,         \* the string in parser->comment, parser->j its length
    report           \* what the last character made the callback see, or None

parser == <<st, link, comment, report>>

ParserInit ==
    /\ st = "START"
    /\ link = <<>>
    /\ comment = <<>>
    /\ report = None

Row(on, to, do) == [on |-> on, to |-> to, do |-> do]

\* Mutant: what is not href leads to a state the table lacks.
AttributeLost(c, next) ==
    << Row(c, next, "nothing"),
       Row(">", "TAG_A_END", "nothing"),
       Row("else", "TAG_A_NAME", "nothing") >>

\* An attribute of <a ...> that is not href after all.
Attribute(c, next) ==
    << Row(c, next, "nothing"),
       Row(">", "TAG_A_END", "nothing"),
       Row("else", "TAG_A", "nothing") >>

\* Mutant: the name of the tag need not end.
LooseTable ==
    << Row("space", "TAG_A", "nothing"),
       Row(">", "TAG_A_END", "nothing"),
       Row("else", "TAG_A", "nothing") >>

IsTagA ==
    << Row("space", "TAG_A", "nothing"),
       Row(">", "TAG_A_END", "nothing"),
       Row("else", "OTHERTAG", "nothing") >>

Table ==
    [START |->
        << Row("<", "TAG", "nothing"),
           Row("else", "START", "nothing") >>,
     TAG |->
        << Row(">", "START", "nothing"),
           Row("a", "ISTAG_A", "init_parser"),
           Row("else", "OTHERTAG", "nothing") >>,
     ISTAG_A |-> IsTagA,
     OTHERTAG |->
        << Row(">", "START", "nothing"),
           Row("else", "OTHERTAG", "nothing") >>,
     TAG_A |->
        << Row("h", "TAG_A_H", "nothing"),
           Row(">", "TAG_A_END", "nothing"),
           Row("space", "TAG_A_H", "nothing"),
           Row("else", "TAG_A_OTHER", "nothing") >>,
     TAG_A_OTHER |->
        << Row("space", "TAG_A", "nothing"),
           Row(">", "TAG_A_END", "nothing"),
           Row("else", "TAG_A_OTHER", "nothing") >>,
     TAG_A_H |-> Attribute("r", "TAG_A_HR"),
     TAG_A_HR |-> Attribute("e", "TAG_A_HRE"),
     TAG_A_HRE |-> Attribute("f", "TAG_A_HREF"),
     TAG_A_HREF |->
        << Row(">", "TAG_A_END", "nothing"),
           Row("=", "TAG_A_HREF_EQ", "nothing"),
           Row("space", "TAG_A_HREF", "nothing"),
           Row("else", "TAG_A", "nothing") >>,
     TAG_A_HREF_EQ |->
        << Row(">", "TAG_A_END", "nothing"),
           Row("space", "TAG_A_HREF_EQ", "nothing"),
           Row("else", "TAG_A_HREF_EQ_READ", "link_first_char") >>,
     TAG_A_HREF_EQ_READ |->
        << Row("quote", "TAG_A", "nothing"),
           Row(">", "TAG_A_END", "nothing"),
           Row("else", "TAG_A_HREF_EQ_READ", "add_char") >>,
     TAG_A_END |->
        << Row("<", "TAG_A_END_IS_SLASH", "nothing"),
           Row("else", "TAG_A_END", "addcomment") >>,
     TAG_A_END_IS_SLASH |->
        << Row("space", "TAG_A_END_IS_SLASH", "nothing"),
           Row("/", "TAG_A_END_IS_SLASH_A", "nothing"),
           Row("a", "TAG_A_END_IS_A_AGAIN", "nothing"),
           Row("else", "TAG_A_END", "e_is_slash") >>,
     TAG_A_END_IS_SLASH_A |->
        << Row("a", "TAG_A_END_IS_SLASH_A_OTHER", "nothing"),
           Row("else", "TAG_A_END", "e_slash_a") >>,
     TAG_A_END_IS_SLASH_A_OTHER |->
        << Row(">", "START", "done_link"),
           Row("space", "START", "done_link"),
           Row("else", "TAG_A_END", "e_slash_a_other") >>,
     TAG_A_END_IS_A_AGAIN |->
        << Row("space", "TAG_A", "done_link"),
           Row("else", "TAG_A_END", "embeeded_goto_end") >>]

\* The row of a state a character takes: the first that fits.
Taken(s, c) ==
    LET Fits(n) == Table[s][n].on \in {c, "else"}
        n == CHOOSE n \in DOMAIN Table[s] :
               Fits(n) /\ \A m \in 1..n-1 : ~Fits(m)
    IN  Table[s][n]

\* Mutant: the room for the NUL is forgotten.
PutBeyond(buffer, chars) ==
    LET all == buffer \o chars
    IN  SubSeq(all, 1, IF Len(all) < Cap THEN Len(all) ELSE Cap)

\* Characters are added as long as one more fits before the NUL.
Put(buffer, chars) ==
    LET all == buffer \o chars
    IN  SubSeq(all, 1, IF Len(all) < Cap THEN Len(all) ELSE Cap - 1)

\* addcomment: of a run of spaces, one is kept.
AddComment(c) ==
    IF c = "space" /\ comment # <<>> /\ comment[Len(comment)] = "space"
      THEN comment ELSE Put(comment, <<c>>)

\* The transition functions.  endlink only puts the NUL that link's length says,
\* and the one init_parser puts into comment falls on an empty string: parser->j
\* is 0 whenever a tag begins.
Apply(do, c) ==
    /\ link' = CASE do \in {"init_parser", "link_first_char"} -> <<>>
                 [] do = "add_char" -> Put(link, <<c>>)
                 [] OTHER -> link
    /\ comment' = CASE do = "done_link" -> <<>>
                    [] do = "addcomment" -> AddComment(c)
                    [] do = "e_is_slash" -> Put(comment, <<"<", c>>)
                    [] do = "e_slash_a" -> Put(comment, <<"<", "/", c>>)
                    [] do = "e_slash_a_other" -> Put(comment, <<"<", "/", "a", c>>)
                    [] do = "embeeded_goto_end" -> Put(comment, <<"<", "/", "a", c, "NUL">>)
                    [] OTHER -> comment
    /\ report' = IF do = "done_link" THEN [link |-> link, comment |-> comment] ELSE None

\* link_parser_process_char
ProcessChar(c) ==
    /\ st' = Taken(st, c).to
    /\ Apply(Taken(st, c).do, c)

\* Mutant: a link whose text had begun is forgotten.
EndInTags == {"TAG_A_END_IS_SLASH", "TAG_A_END_IS_SLASH_A_OTHER"}

\* The states in which link_parser_end reports the link in the buffer, without
\* its comment.
EndReports == {"TAG_A_END", "TAG_A_END_IS_SLASH", "TAG_A_END_IS_SLASH_A_OTHER"}

\* The strings and their NUL fit the buffers, whatever the page.
BuffersHold == Len(link) < Cap /\ Len(comment) < Cap
=============================================================================
