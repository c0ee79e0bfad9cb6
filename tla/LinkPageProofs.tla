--------------------------- MODULE LinkPageProofs ---------------------------
(***************************************************************************)
(* What the parser of link.c keeps of a page fits its buffers, whatever    *)
(* the page and however small the buffers; and what it reports of a page   *)
(* is what its author wrote.  For the second, every element is followed    *)
(* through the table, from the state the parser is in when it begins to    *)
(* the one it should be in at its end.                                     *)
(***************************************************************************)
EXTENDS LinkPage, SequenceTheorems, TLAPS

Marked == Alphabet \cup {"NUL"}

\* The buffers hold characters, and the author writes characters.
IInv ==
    /\ link \in Seq(Alphabet)
    /\ comment \in Seq(Marked)
    /\ rest \in Seq(Alphabet)
    /\ BuffersHold

\* The four functions that append let nothing pass the room for the NUL.
LEMMA PutHolds ==
    ASSUME NEW X, NEW buffer \in Seq(X), NEW chars \in Seq(X)
    PROVE  Put(buffer, chars) \in Seq(X) /\ Len(Put(buffer, chars)) < Cap
<1> DEFINE all == buffer \o chars
<1>1. all \in Seq(X)
  OBVIOUS
<1>2. CASE Len(all) < Cap
  <2>1. Put(buffer, chars) = SubSeq(all, 1, Len(all))
    BY <1>2 DEF Put
  <2>2. SubSeq(all, 1, Len(all)) \in Seq(X) /\ Len(SubSeq(all, 1, Len(all))) = Len(all)
    BY <1>1
  <2> QED
    BY <1>2, <2>1, <2>2
<1>3. CASE ~(Len(all) < Cap)
  <2>1. Put(buffer, chars) = SubSeq(all, 1, Cap - 1)
    BY <1>3 DEF Put
  <2>2. Cap - 1 \in 0..Len(all)
    BY <1>1, <1>3, CapAssumption
  <2>3. SubSeq(all, 1, Cap - 1) \in Seq(X) /\ Len(SubSeq(all, 1, Cap - 1)) = Cap - 1
    BY <1>1, <2>2, CapAssumption
  <2>4. Cap - 1 < Cap
    BY CapAssumption
  <2> HIDE DEF all
  <2> QED
    BY <2>1, <2>3, <2>4
<1> QED
  BY <1>2, <1>3

\* The elements an author writes are made of characters.
LEMMA ElementsAreText ==
    /\ \A c \in Chars : <<c>> \in Seq(Alphabet)
    /\ \A tag \in Tags \cup TopTags : tag \in Seq(Alphabet)
    /\ \A url \in Urls : Anchors(url) \cup BareAnchors(url) \subseteq Seq(Alphabet)
    /\ <<"<", "/", "a", ">">> \in Seq(Alphabet)
<1>1. \A c \in Chars : <<c>> \in Seq(Alphabet)
  <2>1. Chars \subseteq Alphabet
    BY PageAssumption
  <2> QED
    BY <2>1
<1>2. \A tag \in Tags \cup TopTags : tag \in Seq(Alphabet)
  <2>1. \A tag \in Tags \cup TopTags : IsTag(tag)
    BY PageAssumption
  <2> QED
    BY <2>1 DEF IsTag
<1>3. ASSUME NEW url \in Urls
      PROVE  Anchors(url) \cup BareAnchors(url) \subseteq Seq(Alphabet)
  <2>1. url \in Seq(Alphabet)
    <3> DEFINE Addressed == Alphabet \ {"quote", ">", "space"}
    <3>1. url \in Seq(Addressed) /\ Addressed \subseteq Alphabet
      BY PageAssumption
    <3> HIDE DEF Addressed
    <3> QED
      BY <3>1
  <2>2. Quoted(url) \in Seq(Alphabet)
    <3>1. <<"quote">> \in Seq(Alphabet) /\ <<"quote", ">">> \in Seq(Alphabet)
      BY DEF Alphabet
    <3>2. \A s, t \in Seq(Alphabet) : s \o t \in Seq(Alphabet)
      OBVIOUS
    <3> QED
      BY <2>1, <3>1, <3>2 DEF Quoted
  <2> DEFINE q == Quoted(url)
  <2>3. \A s \in Seq(Alphabet) : s \o q \in Seq(Alphabet)
    BY <2>2
  <2> HIDE DEF q
  <2>4. /\ <<"<", "a", "space", "h", "r", "e", "f", "=">> \in Seq(Alphabet)
        /\ <<"<", "a", "space", "h", "r", "e", "f", "space", "=", "space">> \in Seq(Alphabet)
        /\ <<"<", "a", "space", "x", "=", "x", "space", "h", "r", "e", "f", "=">> \in Seq(Alphabet)
        /\ <<"<", "a", "space", "h", "r", "x", "=", "space", "h", "r", "e", "f", "=">> \in Seq(Alphabet)
    BY DEF Alphabet
  <2>5. /\ <<"<", "a", "space", "x", ">">> \in Seq(Alphabet)
        /\ <<"<", "a", "space", "space", "h", "r", "e", "f", "=">> \in Seq(Alphabet)
    BY DEF Alphabet
  <2>6. Anchors(url) \subseteq Seq(Alphabet)
    BY <2>3, <2>4 DEF Anchors, q
  <2>7. BareAnchors(url) \subseteq Seq(Alphabet)
    BY <2>3, <2>5 DEF BareAnchors, q
  <2> QED
    BY <2>6, <2>7
<1>4. <<"<", "/", "a", ">">> \in Seq(Alphabet)
  BY DEF Alphabet
<1> QED
  BY <1>1, <1>2, <1>3, <1>4

\* Writing an element touches no buffer.
LEMMA BeginIInv ==
    ASSUME IInv, NEW chars \in Seq(Alphabet), NEW reports, Begin(chars, reports)
    PROVE  IInv'
BY DEF IInv, Begin, parser, BuffersHold

\* A character, whatever the state sends it to.
LEMMA ReadIInv ==
    ASSUME IInv, Read
    PROVE  IInv'
<1> DEFINE c == Head(rest)
           do == Taken(st, c).do
<1>1. c \in Alphabet /\ c \in Marked /\ rest' \in Seq(Alphabet)
  BY DEF IInv, Read, Marked
<1>2. Apply(do, c)
  BY DEF Read, ProcessChar
<1>3. link' \in Seq(Alphabet) /\ Len(link') < Cap
  <2>1. link \in Seq(Alphabet) /\ Len(link) < Cap /\ <<c>> \in Seq(Alphabet)
    BY <1>1 DEF IInv, BuffersHold
  <2>2. Put(link, <<c>>) \in Seq(Alphabet) /\ Len(Put(link, <<c>>)) < Cap
    BY <2>1, PutHolds
  <2>3. <<>> \in Seq(Alphabet) /\ Len(<<>>) < Cap
    BY CapAssumption
  <2>4. link' \in {<<>>, Put(link, <<c>>), link}
    BY <1>2 DEF Apply
  <2> QED
    BY <2>1, <2>2, <2>3, <2>4
<1>4. comment' \in Seq(Marked) /\ Len(comment') < Cap
  <2>1. comment \in Seq(Marked) /\ Len(comment) < Cap
    BY DEF IInv, BuffersHold
  <2>2. \A chars \in Seq(Marked) :
           Put(comment, chars) \in Seq(Marked) /\ Len(Put(comment, chars)) < Cap
    BY <2>1, PutHolds
  <2>3. /\ <<c>> \in Seq(Marked)
        /\ <<"<", c>> \in Seq(Marked)
        /\ <<"<", "/", c>> \in Seq(Marked)
        /\ <<"<", "/", "a", c>> \in Seq(Marked)
        /\ <<"<", "/", "a", c, "NUL">> \in Seq(Marked)
    <3>1. {"<", "/", "a", "NUL"} \subseteq Marked
      BY DEF Marked, Alphabet
    <3> QED
      BY <1>1, <3>1
  <2>4. AddComment(c) \in {comment, Put(comment, <<c>>)}
    BY DEF AddComment
  <2>5. <<>> \in Seq(Marked) /\ Len(<<>>) < Cap
    BY CapAssumption
  <2>6. comment' \in {<<>>, AddComment(c), Put(comment, <<"<", c>>),
                      Put(comment, <<"<", "/", c>>), Put(comment, <<"<", "/", "a", c>>),
                      Put(comment, <<"<", "/", "a", c, "NUL">>), comment}
    BY <1>2 DEF Apply
  <2> QED
    BY <2>1, <2>2, <2>3, <2>4, <2>5, <2>6
<1> QED
  BY <1>1, <1>3, <1>4 DEF IInv, BuffersHold

LEMMA InitIInv ==
    ASSUME Init
    PROVE  IInv
BY CapAssumption DEF Init, ParserInit, IInv, BuffersHold

LEMMA NextIInv ==
    ASSUME IInv, [Next]_vars
    PROVE  IInv'
<1>1. CASE \E c \in Chars : WritePlain(<<c>>)
  BY <1>1, BeginIInv, ElementsAreText DEF WritePlain
<1>2. CASE \E tag \in Tags : WritePlain(tag)
  BY <1>2, BeginIInv, ElementsAreText DEF WritePlain
<1>3. CASE \E tag \in TopTags : anchor = None /\ WritePlain(tag)
  BY <1>3, BeginIInv, ElementsAreText DEF WritePlain
<1>4. CASE \E url \in Urls : WriteAnchor(url)
  BY <1>4, BeginIInv, ElementsAreText DEF WriteAnchor
<1>5. CASE \E url \in Urls : WriteBareAnchor(url)
  BY <1>5, BeginIInv, ElementsAreText DEF WriteBareAnchor
<1>6. CASE WriteClose
  BY <1>6, BeginIInv, ElementsAreText DEF WriteClose
<1>7. CASE Read
  BY <1>7, ReadIInv
<1>8. CASE UNCHANGED vars
  BY <1>8 DEF vars, parser, IInv, BuffersHold
<1> QED
  BY <1>1, <1>2, <1>3, <1>4, <1>5, <1>6, <1>7, <1>8 DEF Next

\* However long the addresses and texts of a page, and whatever it is made of,
\* neither buffer is ever written beyond, its NUL included.  (link.c:94-200)
THEOREM BuffersNeverOverrun == Spec => []BuffersHold
<1>1. Init => IInv
  BY InitIInv
<1>2. IInv /\ [Next]_vars => IInv'
  BY NextIInv
<1>3. IInv => BuffersHold
  BY DEF IInv
<1> QED
  BY <1>1, <1>2, <1>3, PTL DEF Spec
-----------------------------------------------------------------------------
(* The table is complete: every state has a row for every character, and   *)
(* every row leads to a state of the table.                                *)

States == {"START", "TAG", "ISTAG_A", "OTHERTAG", "TAG_A", "TAG_A_OTHER",
           "TAG_A_H", "TAG_A_HR", "TAG_A_HRE", "TAG_A_HREF",
           "TAG_A_HREF_EQ", "TAG_A_HREF_EQ_READ", "TAG_A_END",
           "TAG_A_END_IS_SLASH", "TAG_A_END_IS_SLASH_A",
           "TAG_A_END_IS_SLASH_A_OTHER",
           "TAG_A_END_IS_A_AGAIN"}

Leads(rows, last) ==
    /\ DOMAIN rows = 1..last
    /\ rows[last].on = "else"

Two(rows) == Leads(rows, 2) /\ rows[1].to \in States /\ rows[2].to \in States
Three(rows) ==
    Leads(rows, 3) /\ rows[1].to \in States /\ rows[2].to \in States /\ rows[3].to \in States
Four(rows) ==
    /\ Leads(rows, 4)
    /\ rows[1].to \in States /\ rows[2].to \in States
    /\ rows[3].to \in States /\ rows[4].to \in States

Closed(rows) == Two(rows) \/ Three(rows) \/ Four(rows)

LEMMA StatesOfTable == DOMAIN Table = States
BY DEF Table, States

LEMMA TableClosed == \A s \in States : Closed(Table[s])
<1>1. Two(Table["START"])
  BY DEF Two, Leads, States, Row, Table
<1>2. Three(Table["TAG"])
  BY DEF Three, Leads, States, Row, Table
<1>3. Three(Table["ISTAG_A"])
  <2>1. Leads(Table["ISTAG_A"], 3)
    BY DEF Leads, Row, Table, IsTagA
  <2>2. Leads(Table["ISTAG_A"], 3) => Three(Table["ISTAG_A"])
    BY DEF Three, States, Row, Table, IsTagA
  <2> QED
    BY <2>1, <2>2
<1>4. Two(Table["OTHERTAG"])
  BY DEF Two, Leads, States, Row, Table
<1>5. Four(Table["TAG_A"])
  <2>1. Leads(Table["TAG_A"], 4)
    BY DEF Leads, Row, Table
  <2>2. Leads(Table["TAG_A"], 4) => Four(Table["TAG_A"])
    BY DEF Four, States, Row, Table
  <2> QED
    BY <2>1, <2>2
<1>6. Three(Table["TAG_A_OTHER"])
  <2>1. Leads(Table["TAG_A_OTHER"], 3)
    BY DEF Leads, Row, Table
  <2>2. Leads(Table["TAG_A_OTHER"], 3) => Three(Table["TAG_A_OTHER"])
    BY DEF Three, States, Row, Table
  <2> QED
    BY <2>1, <2>2
<1>7. Three(Table["TAG_A_H"])
  BY DEF Three, Leads, States, Row, Table, Attribute
<1>8. Three(Table["TAG_A_HR"])
  BY DEF Three, Leads, States, Row, Table, Attribute
<1>9. Three(Table["TAG_A_HRE"])
  BY DEF Three, Leads, States, Row, Table, Attribute
<1>10. Four(Table["TAG_A_HREF"])
  <2>1. Leads(Table["TAG_A_HREF"], 4)
    BY DEF Leads, Row, Table
  <2>2. Leads(Table["TAG_A_HREF"], 4) => Four(Table["TAG_A_HREF"])
    BY DEF Four, States, Row, Table
  <2> QED
    BY <2>1, <2>2
<1>11. Three(Table["TAG_A_HREF_EQ"])
  <2>1. Leads(Table["TAG_A_HREF_EQ"], 3)
    BY DEF Leads, Row, Table
  <2>2. Leads(Table["TAG_A_HREF_EQ"], 3) => Three(Table["TAG_A_HREF_EQ"])
    BY DEF Three, States, Row, Table
  <2> QED
    BY <2>1, <2>2
<1>12. Three(Table["TAG_A_HREF_EQ_READ"])
  BY DEF Three, Leads, States, Row, Table
<1>13. Two(Table["TAG_A_END"])
  BY DEF Two, Leads, States, Row, Table
<1>14. Four(Table["TAG_A_END_IS_SLASH"])
  <2>1. Leads(Table["TAG_A_END_IS_SLASH"], 4)
    BY DEF Leads, Row, Table
  <2>2. Leads(Table["TAG_A_END_IS_SLASH"], 4) => Four(Table["TAG_A_END_IS_SLASH"])
    BY DEF Four, States, Row, Table
  <2> QED
    BY <2>1, <2>2
<1>15. Two(Table["TAG_A_END_IS_SLASH_A"])
  BY DEF Two, Leads, States, Row, Table
<1>16. Three(Table["TAG_A_END_IS_SLASH_A_OTHER"])
  <2>1. Leads(Table["TAG_A_END_IS_SLASH_A_OTHER"], 3)
    BY DEF Leads, Row, Table
  <2>2. Leads(Table["TAG_A_END_IS_SLASH_A_OTHER"], 3) => Three(Table["TAG_A_END_IS_SLASH_A_OTHER"])
    BY DEF Three, States, Row, Table
  <2> QED
    BY <2>1, <2>2
<1>17. Two(Table["TAG_A_END_IS_A_AGAIN"])
  <2>1. Leads(Table["TAG_A_END_IS_A_AGAIN"], 2)
    BY DEF Leads, Row, Table
  <2>2. Leads(Table["TAG_A_END_IS_A_AGAIN"], 2) => Two(Table["TAG_A_END_IS_A_AGAIN"])
    BY DEF Two, States, Row, Table
  <2> QED
    BY <2>1, <2>2
<1> QED
  BY <1>1, <1>2, <1>3, <1>4, <1>5, <1>6, <1>7, <1>8, <1>9, <1>10, <1>11,
     <1>12, <1>13, <1>14, <1>15, <1>16, <1>17 DEF States, Closed

\* stm_parse finds a row, the first that fits, and goes where it says.
LEMMA TakenIsRow ==
    ASSUME NEW s \in States, NEW c
    PROVE  Taken(s, c).to \in States
<1> DEFINE rows == Table[s]
           Fits(n) == rows[n].on \in {c, "else"}
           First(n) == Fits(n) /\ \A m \in 1..n-1 : ~Fits(m)
<1>1. PICK k \in 1..4 : Leads(rows, k) /\ \A n \in 1..k : rows[n].to \in States
  <2>1. Closed(rows)
    BY TableClosed
  <2> HIDE DEF rows
  <2> QED
    BY <2>1 DEF Closed, Two, Three, Four
<1>2. Fits(k) /\ DOMAIN rows = 1..k
  BY <1>1 DEF Leads
<1>3. Taken(s, c) = rows[CHOOSE n \in DOMAIN rows : First(n)]
  BY DEF Taken
<1> HIDE DEF rows, Fits
<1>4. \E n \in 1..k : First(n)
  BY <1>1, <1>2
<1>5. (CHOOSE n \in DOMAIN rows : First(n)) \in 1..k
  BY <1>2, <1>4
<1> QED
  BY <1>1, <1>3, <1>5

LEMMA StateStep ==
    ASSUME st \in States, [Next]_vars
    PROVE  st' \in States
<1>1. CASE Read
  BY <1>1, TakenIsRow DEF Read, ProcessChar
<1>2. CASE ~Read
  BY <1>2 DEF Next, WritePlain, WriteAnchor, WriteBareAnchor, WriteClose, Begin, parser, vars
<1> QED
  BY <1>1, <1>2

\* The parser is always in a state of its table, and its buffers and what is
\* left of the page are strings.
THEOREM TypeCorrect == Spec => []TypeOK
<1> DEFINE TInv == IInv /\ st \in States
<1>1. Init => TInv
  BY InitIInv DEF Init, ParserInit, States
<1>2. TInv /\ [Next]_vars => TInv'
  BY NextIInv, StateStep
<1>3. TInv => TypeOK
  BY StatesOfTable DEF IInv, TypeOK, Marked
<1> QED
  BY <1>1, <1>2, <1>3, PTL DEF Spec
-----------------------------------------------------------------------------
(* The rows of the table.                                                  *)

\* The first row that fits, of two, three and four rows, the last of which is
\* for every character.
FirstFit(rows, c) ==
    LET Fits(n) == rows[n].on \in {c, "else"}
    IN  rows[CHOOSE n \in DOMAIN rows : Fits(n) /\ \A m \in 1..n-1 : ~Fits(m)]

LEMMA TakenFits == \A s, c : Taken(s, c) = FirstFit(Table[s], c)
BY DEF Taken, FirstFit

FitsFirst(rows, k, j, c) ==
    /\ DOMAIN rows = 1..k /\ j \in 1..k
    /\ rows[j].on \in {c, "else"}
    /\ \A m \in 1..j-1 : rows[m].on \notin {c, "else"}

LEMMA FitsAt ==
    ASSUME NEW rows, NEW c, NEW k \in Nat, NEW j \in Nat, FitsFirst(rows, k, j, c)
    PROVE  FirstFit(rows, c) = rows[j]
<1> USE DEF FitsFirst
<1> DEFINE Fits(n) == rows[n].on \in {c, "else"}
           First(n) == Fits(n) /\ \A m \in 1..n-1 : ~Fits(m)
<1>1. First(j)
  OBVIOUS
<1>2. ASSUME NEW n \in 1..k, First(n) PROVE n = j
  <2>1. ~(n < j)
    <3> SUFFICES ASSUME n < j PROVE FALSE
      OBVIOUS
    <3>1. n \in 1..j-1
      OBVIOUS
    <3> QED
      BY <1>2, <3>1
  <2>2. ~(j < n)
    <3> SUFFICES ASSUME j < n PROVE FALSE
      OBVIOUS
    <3>1. j \in 1..n-1
      OBVIOUS
    <3> QED
      BY <1>1, <1>2, <3>1
  <2> QED
    BY <2>1, <2>2
<1>3. FirstFit(rows, c) = rows[CHOOSE n \in DOMAIN rows : First(n)]
  BY DEF FirstFit
<1> HIDE DEF First
<1>4. (CHOOSE n \in 1..k : First(n)) = j
  BY <1>1, <1>2
<1> QED
  BY <1>3, <1>4

LEMMA TwoRows ==
    ASSUME NEW r1, NEW r2, NEW c, r1.on # "else", r2.on = "else"
    PROVE  FirstFit(<<r1, r2>>, c) = IF r1.on = c THEN r1 ELSE r2
<1> DEFINE rows == <<r1, r2>>
<1>1. /\ DOMAIN rows = 1..2
      /\ rows[1] = r1
      /\ rows[2] = r2
  OBVIOUS
<1> HIDE DEF rows
<1>2. CASE r1.on = c
  <2>1. \A m \in 1..1-1 : FALSE
    OBVIOUS
  <2>2. FitsFirst(rows, 2, 1, c)
    BY <1>1, <1>2, <2>1 DEF FitsFirst
  <2>3. FirstFit(rows, c) = rows[1]
    BY <2>2, FitsAt
  <2> QED
    BY <1>1, <1>2, <2>3 DEF rows
<1>3. CASE r1.on # c
  <2>1. \A m \in 1..2-1 : m = 1
    OBVIOUS
  <2>2. FitsFirst(rows, 2, 2, c)
    BY <1>1, <1>3, <2>1 DEF FitsFirst
  <2>3. FirstFit(rows, c) = rows[2]
    BY <2>2, FitsAt
  <2> QED
    BY <1>1, <1>3, <2>3 DEF rows
<1> QED
  BY <1>2, <1>3 DEF rows

LEMMA ThreeRows ==
    ASSUME NEW r1, NEW r2, NEW r3, NEW c,
           r1.on # "else", r2.on # "else", r3.on = "else"
    PROVE  FirstFit(<<r1, r2, r3>>, c) =
             IF r1.on = c THEN r1 ELSE IF r2.on = c THEN r2 ELSE r3
<1> DEFINE rows == <<r1, r2, r3>>
<1>1. /\ DOMAIN rows = 1..3
      /\ rows[1] = r1
      /\ rows[2] = r2
      /\ rows[3] = r3
  OBVIOUS
<1> HIDE DEF rows
<1>2. CASE r1.on = c
  <2>1. \A m \in 1..1-1 : FALSE
    OBVIOUS
  <2>2. FitsFirst(rows, 3, 1, c)
    BY <1>1, <1>2, <2>1 DEF FitsFirst
  <2>3. FirstFit(rows, c) = rows[1]
    BY <2>2, FitsAt
  <2> QED
    BY <1>1, <1>2, <2>3 DEF rows
<1>3. CASE r1.on # c /\ r2.on = c
  <2>1. \A m \in 1..2-1 : m = 1
    OBVIOUS
  <2>2. FitsFirst(rows, 3, 2, c)
    BY <1>1, <1>3, <2>1 DEF FitsFirst
  <2>3. FirstFit(rows, c) = rows[2]
    BY <2>2, FitsAt
  <2> QED
    BY <1>1, <1>3, <2>3 DEF rows
<1>4. CASE r1.on # c /\ r2.on # c
  <2>1. \A m \in 1..3-1 : m = 1 \/ m = 2
    OBVIOUS
  <2>2. FitsFirst(rows, 3, 3, c)
    BY <1>1, <1>4, <2>1 DEF FitsFirst
  <2>3. FirstFit(rows, c) = rows[3]
    BY <2>2, FitsAt
  <2> QED
    BY <1>1, <1>4, <2>3 DEF rows
<1> QED
  BY <1>2, <1>3, <1>4 DEF rows

LEMMA FourRows ==
    ASSUME NEW r1, NEW r2, NEW r3, NEW r4, NEW c,
           r1.on # "else", r2.on # "else", r3.on # "else", r4.on = "else"
    PROVE  FirstFit(<<r1, r2, r3, r4>>, c) =
             IF r1.on = c THEN r1 ELSE IF r2.on = c THEN r2
             ELSE IF r3.on = c THEN r3 ELSE r4
<1> DEFINE rows == <<r1, r2, r3, r4>>
<1>1. /\ DOMAIN rows = 1..4
      /\ rows[1] = r1
      /\ rows[2] = r2
      /\ rows[3] = r3
      /\ rows[4] = r4
  OBVIOUS
<1> HIDE DEF rows
<1>2. CASE r1.on = c
  <2>1. \A m \in 1..1-1 : FALSE
    OBVIOUS
  <2>2. FitsFirst(rows, 4, 1, c)
    BY <1>1, <1>2, <2>1 DEF FitsFirst
  <2>3. FirstFit(rows, c) = rows[1]
    BY <2>2, FitsAt
  <2> QED
    BY <1>1, <1>2, <2>3 DEF rows
<1>3. CASE r1.on # c /\ r2.on = c
  <2>1. \A m \in 1..2-1 : m = 1
    OBVIOUS
  <2>2. FitsFirst(rows, 4, 2, c)
    BY <1>1, <1>3, <2>1 DEF FitsFirst
  <2>3. FirstFit(rows, c) = rows[2]
    BY <2>2, FitsAt
  <2> QED
    BY <1>1, <1>3, <2>3 DEF rows
<1>4. CASE r1.on # c /\ r2.on # c /\ r3.on = c
  <2>1. \A m \in 1..3-1 : m = 1 \/ m = 2
    OBVIOUS
  <2>2. FitsFirst(rows, 4, 3, c)
    BY <1>1, <1>4, <2>1 DEF FitsFirst
  <2>3. FirstFit(rows, c) = rows[3]
    BY <2>2, FitsAt
  <2> QED
    BY <1>1, <1>4, <2>3 DEF rows
<1>5. CASE r1.on # c /\ r2.on # c /\ r3.on # c
  <2>1. \A m \in 1..4-1 : m = 1 \/ m = 2 \/ m = 3
    OBVIOUS
  <2>2. FitsFirst(rows, 4, 4, c)
    BY <1>1, <1>5, <2>1 DEF FitsFirst
  <2>3. FirstFit(rows, c) = rows[4]
    BY <2>2, FitsAt
  <2> QED
    BY <1>1, <1>5, <2>3 DEF rows
<1> QED
  BY <1>2, <1>3, <1>4, <1>5 DEF rows

LEMMA RowShape ==
    \A on, to, do : /\ Row(on, to, do).on = on
                    /\ Row(on, to, do).to = to
                    /\ Row(on, to, do).do = do
BY DEF Row

(* What each state does with each character. *)

LEMMA TakenStart ==
    \A c : Taken("START", c) =
        IF c = "<" THEN Row("<", "TAG", "nothing")
        ELSE Row("else", "START", "nothing")
<1> TAKE c
<1>1. Row("<", "TAG", "nothing").on = "<"
  BY RowShape
<1>2. Row("else", "START", "nothing").on = "else"
  BY RowShape
<1>3. Table["START"] =
        << Row("<", "TAG", "nothing"),
           Row("else", "START", "nothing") >>
  BY DEF Table
<1> QED
  BY <1>1, <1>2, <1>3, TwoRows, TakenFits

LEMMA TakenTag ==
    \A c : Taken("TAG", c) =
        IF c = ">" THEN Row(">", "START", "nothing")
        ELSE IF c = "a" THEN Row("a", "ISTAG_A", "init_parser")
        ELSE Row("else", "OTHERTAG", "nothing")
<1> TAKE c
<1>1. Row(">", "START", "nothing").on = ">"
  BY RowShape
<1>2. Row("a", "ISTAG_A", "init_parser").on = "a"
  BY RowShape
<1>3. Row("else", "OTHERTAG", "nothing").on = "else"
  BY RowShape
<1>4. Table["TAG"] =
        << Row(">", "START", "nothing"),
           Row("a", "ISTAG_A", "init_parser"),
           Row("else", "OTHERTAG", "nothing") >>
  BY DEF Table
<1> QED
  BY <1>1, <1>2, <1>3, <1>4, ThreeRows, TakenFits

LEMMA TakenIstagA ==
    \A c : Taken("ISTAG_A", c) =
        IF c = "space" THEN Row("space", "TAG_A", "nothing")
        ELSE IF c = ">" THEN Row(">", "TAG_A_END", "nothing")
        ELSE Row("else", "OTHERTAG", "nothing")
<1> TAKE c
<1>1. Row("space", "TAG_A", "nothing").on = "space"
  BY RowShape
<1>2. Row(">", "TAG_A_END", "nothing").on = ">"
  BY RowShape
<1>3. Row("else", "OTHERTAG", "nothing").on = "else"
  BY RowShape
<1>4. Table["ISTAG_A"] =
        << Row("space", "TAG_A", "nothing"),
           Row(">", "TAG_A_END", "nothing"),
           Row("else", "OTHERTAG", "nothing") >>
  BY DEF Table, IsTagA
<1> QED
  BY <1>1, <1>2, <1>3, <1>4, ThreeRows, TakenFits

LEMMA TakenOthertag ==
    \A c : Taken("OTHERTAG", c) =
        IF c = ">" THEN Row(">", "START", "nothing")
        ELSE Row("else", "OTHERTAG", "nothing")
<1> TAKE c
<1>1. Row(">", "START", "nothing").on = ">"
  BY RowShape
<1>2. Row("else", "OTHERTAG", "nothing").on = "else"
  BY RowShape
<1>3. Table["OTHERTAG"] =
        << Row(">", "START", "nothing"),
           Row("else", "OTHERTAG", "nothing") >>
  BY DEF Table
<1> QED
  BY <1>1, <1>2, <1>3, TwoRows, TakenFits

LEMMA TakenTagA ==
    \A c : Taken("TAG_A", c) =
        IF c = "h" THEN Row("h", "TAG_A_H", "nothing")
        ELSE IF c = ">" THEN Row(">", "TAG_A_END", "nothing")
        ELSE IF c = "space" THEN Row("space", "TAG_A_H", "nothing")
        ELSE Row("else", "TAG_A_OTHER", "nothing")
<1> TAKE c
<1>1. Row("h", "TAG_A_H", "nothing").on = "h"
  BY RowShape
<1>2. Row(">", "TAG_A_END", "nothing").on = ">"
  BY RowShape
<1>3. Row("space", "TAG_A_H", "nothing").on = "space"
  BY RowShape
<1>4. Row("else", "TAG_A_OTHER", "nothing").on = "else"
  BY RowShape
<1>5. Table["TAG_A"] =
        << Row("h", "TAG_A_H", "nothing"),
           Row(">", "TAG_A_END", "nothing"),
           Row("space", "TAG_A_H", "nothing"),
           Row("else", "TAG_A_OTHER", "nothing") >>
  BY DEF Table
<1> QED
  BY <1>1, <1>2, <1>3, <1>4, <1>5, FourRows, TakenFits

LEMMA TakenTagAOther ==
    \A c : Taken("TAG_A_OTHER", c) =
        IF c = "space" THEN Row("space", "TAG_A", "nothing")
        ELSE IF c = ">" THEN Row(">", "TAG_A_END", "nothing")
        ELSE Row("else", "TAG_A_OTHER", "nothing")
<1> TAKE c
<1>1. Row("space", "TAG_A", "nothing").on = "space"
  BY RowShape
<1>2. Row(">", "TAG_A_END", "nothing").on = ">"
  BY RowShape
<1>3. Row("else", "TAG_A_OTHER", "nothing").on = "else"
  BY RowShape
<1>4. Table["TAG_A_OTHER"] =
        << Row("space", "TAG_A", "nothing"),
           Row(">", "TAG_A_END", "nothing"),
           Row("else", "TAG_A_OTHER", "nothing") >>
  BY DEF Table
<1> QED
  BY <1>1, <1>2, <1>3, <1>4, ThreeRows, TakenFits

LEMMA TakenTagAH ==
    \A c : Taken("TAG_A_H", c) =
        IF c = "r" THEN Row("r", "TAG_A_HR", "nothing")
        ELSE IF c = ">" THEN Row(">", "TAG_A_END", "nothing")
        ELSE Row("else", "TAG_A", "nothing")
<1> TAKE c
<1>1. Row("r", "TAG_A_HR", "nothing").on = "r"
  BY RowShape
<1>2. Row(">", "TAG_A_END", "nothing").on = ">"
  BY RowShape
<1>3. Row("else", "TAG_A", "nothing").on = "else"
  BY RowShape
<1>4. Table["TAG_A_H"] =
        << Row("r", "TAG_A_HR", "nothing"),
           Row(">", "TAG_A_END", "nothing"),
           Row("else", "TAG_A", "nothing") >>
  BY DEF Table, Attribute
<1> QED
  BY <1>1, <1>2, <1>3, <1>4, ThreeRows, TakenFits

LEMMA TakenTagAHr ==
    \A c : Taken("TAG_A_HR", c) =
        IF c = "e" THEN Row("e", "TAG_A_HRE", "nothing")
        ELSE IF c = ">" THEN Row(">", "TAG_A_END", "nothing")
        ELSE Row("else", "TAG_A", "nothing")
<1> TAKE c
<1>1. Row("e", "TAG_A_HRE", "nothing").on = "e"
  BY RowShape
<1>2. Row(">", "TAG_A_END", "nothing").on = ">"
  BY RowShape
<1>3. Row("else", "TAG_A", "nothing").on = "else"
  BY RowShape
<1>4. Table["TAG_A_HR"] =
        << Row("e", "TAG_A_HRE", "nothing"),
           Row(">", "TAG_A_END", "nothing"),
           Row("else", "TAG_A", "nothing") >>
  BY DEF Table, Attribute
<1> QED
  BY <1>1, <1>2, <1>3, <1>4, ThreeRows, TakenFits

LEMMA TakenTagAHre ==
    \A c : Taken("TAG_A_HRE", c) =
        IF c = "f" THEN Row("f", "TAG_A_HREF", "nothing")
        ELSE IF c = ">" THEN Row(">", "TAG_A_END", "nothing")
        ELSE Row("else", "TAG_A", "nothing")
<1> TAKE c
<1>1. Row("f", "TAG_A_HREF", "nothing").on = "f"
  BY RowShape
<1>2. Row(">", "TAG_A_END", "nothing").on = ">"
  BY RowShape
<1>3. Row("else", "TAG_A", "nothing").on = "else"
  BY RowShape
<1>4. Table["TAG_A_HRE"] =
        << Row("f", "TAG_A_HREF", "nothing"),
           Row(">", "TAG_A_END", "nothing"),
           Row("else", "TAG_A", "nothing") >>
  BY DEF Table, Attribute
<1> QED
  BY <1>1, <1>2, <1>3, <1>4, ThreeRows, TakenFits

LEMMA TakenTagAHref ==
    \A c : Taken("TAG_A_HREF", c) =
        IF c = ">" THEN Row(">", "TAG_A_END", "nothing")
        ELSE IF c = "=" THEN Row("=", "TAG_A_HREF_EQ", "nothing")
        ELSE IF c = "space" THEN Row("space", "TAG_A_HREF", "nothing")
        ELSE Row("else", "TAG_A", "nothing")
<1> TAKE c
<1>1. Row(">", "TAG_A_END", "nothing").on = ">"
  BY RowShape
<1>2. Row("=", "TAG_A_HREF_EQ", "nothing").on = "="
  BY RowShape
<1>3. Row("space", "TAG_A_HREF", "nothing").on = "space"
  BY RowShape
<1>4. Row("else", "TAG_A", "nothing").on = "else"
  BY RowShape
<1>5. Table["TAG_A_HREF"] =
        << Row(">", "TAG_A_END", "nothing"),
           Row("=", "TAG_A_HREF_EQ", "nothing"),
           Row("space", "TAG_A_HREF", "nothing"),
           Row("else", "TAG_A", "nothing") >>
  BY DEF Table
<1> QED
  BY <1>1, <1>2, <1>3, <1>4, <1>5, FourRows, TakenFits

LEMMA TakenTagAHrefEq ==
    \A c : Taken("TAG_A_HREF_EQ", c) =
        IF c = ">" THEN Row(">", "TAG_A_END", "nothing")
        ELSE IF c = "space" THEN Row("space", "TAG_A_HREF_EQ", "nothing")
        ELSE Row("else", "TAG_A_HREF_EQ_READ", "link_first_char")
<1> TAKE c
<1>1. Row(">", "TAG_A_END", "nothing").on = ">"
  BY RowShape
<1>2. Row("space", "TAG_A_HREF_EQ", "nothing").on = "space"
  BY RowShape
<1>3. Row("else", "TAG_A_HREF_EQ_READ", "link_first_char").on = "else"
  BY RowShape
<1>4. Table["TAG_A_HREF_EQ"] =
        << Row(">", "TAG_A_END", "nothing"),
           Row("space", "TAG_A_HREF_EQ", "nothing"),
           Row("else", "TAG_A_HREF_EQ_READ", "link_first_char") >>
  BY DEF Table
<1> QED
  BY <1>1, <1>2, <1>3, <1>4, ThreeRows, TakenFits

LEMMA TakenTagAHrefEqRead ==
    \A c : Taken("TAG_A_HREF_EQ_READ", c) =
        IF c = "quote" THEN Row("quote", "TAG_A", "nothing")
        ELSE IF c = ">" THEN Row(">", "TAG_A_END", "nothing")
        ELSE Row("else", "TAG_A_HREF_EQ_READ", "add_char")
<1> TAKE c
<1>1. Row("quote", "TAG_A", "nothing").on = "quote"
  BY RowShape
<1>2. Row(">", "TAG_A_END", "nothing").on = ">"
  BY RowShape
<1>3. Row("else", "TAG_A_HREF_EQ_READ", "add_char").on = "else"
  BY RowShape
<1>4. Table["TAG_A_HREF_EQ_READ"] =
        << Row("quote", "TAG_A", "nothing"),
           Row(">", "TAG_A_END", "nothing"),
           Row("else", "TAG_A_HREF_EQ_READ", "add_char") >>
  BY DEF Table
<1> QED
  BY <1>1, <1>2, <1>3, <1>4, ThreeRows, TakenFits

LEMMA TakenTagAEnd ==
    \A c : Taken("TAG_A_END", c) =
        IF c = "<" THEN Row("<", "TAG_A_END_IS_SLASH", "nothing")
        ELSE Row("else", "TAG_A_END", "addcomment")
<1> TAKE c
<1>1. Row("<", "TAG_A_END_IS_SLASH", "nothing").on = "<"
  BY RowShape
<1>2. Row("else", "TAG_A_END", "addcomment").on = "else"
  BY RowShape
<1>3. Table["TAG_A_END"] =
        << Row("<", "TAG_A_END_IS_SLASH", "nothing"),
           Row("else", "TAG_A_END", "addcomment") >>
  BY DEF Table
<1> QED
  BY <1>1, <1>2, <1>3, TwoRows, TakenFits

LEMMA TakenTagAEndIsSlash ==
    \A c : Taken("TAG_A_END_IS_SLASH", c) =
        IF c = "space" THEN Row("space", "TAG_A_END_IS_SLASH", "nothing")
        ELSE IF c = "/" THEN Row("/", "TAG_A_END_IS_SLASH_A", "nothing")
        ELSE IF c = "a" THEN Row("a", "TAG_A_END_IS_A_AGAIN", "nothing")
        ELSE Row("else", "TAG_A_END", "e_is_slash")
<1> TAKE c
<1>1. Row("space", "TAG_A_END_IS_SLASH", "nothing").on = "space"
  BY RowShape
<1>2. Row("/", "TAG_A_END_IS_SLASH_A", "nothing").on = "/"
  BY RowShape
<1>3. Row("a", "TAG_A_END_IS_A_AGAIN", "nothing").on = "a"
  BY RowShape
<1>4. Row("else", "TAG_A_END", "e_is_slash").on = "else"
  BY RowShape
<1>5. Table["TAG_A_END_IS_SLASH"] =
        << Row("space", "TAG_A_END_IS_SLASH", "nothing"),
           Row("/", "TAG_A_END_IS_SLASH_A", "nothing"),
           Row("a", "TAG_A_END_IS_A_AGAIN", "nothing"),
           Row("else", "TAG_A_END", "e_is_slash") >>
  BY DEF Table
<1> QED
  BY <1>1, <1>2, <1>3, <1>4, <1>5, FourRows, TakenFits

LEMMA TakenTagAEndIsSlashA ==
    \A c : Taken("TAG_A_END_IS_SLASH_A", c) =
        IF c = "a" THEN Row("a", "TAG_A_END_IS_SLASH_A_OTHER", "nothing")
        ELSE Row("else", "TAG_A_END", "e_slash_a")
<1> TAKE c
<1>1. Row("a", "TAG_A_END_IS_SLASH_A_OTHER", "nothing").on = "a"
  BY RowShape
<1>2. Row("else", "TAG_A_END", "e_slash_a").on = "else"
  BY RowShape
<1>3. Table["TAG_A_END_IS_SLASH_A"] =
        << Row("a", "TAG_A_END_IS_SLASH_A_OTHER", "nothing"),
           Row("else", "TAG_A_END", "e_slash_a") >>
  BY DEF Table
<1> QED
  BY <1>1, <1>2, <1>3, TwoRows, TakenFits

LEMMA TakenTagAEndIsSlashAOther ==
    \A c : Taken("TAG_A_END_IS_SLASH_A_OTHER", c) =
        IF c = ">" THEN Row(">", "START", "done_link")
        ELSE IF c = "space" THEN Row("space", "START", "done_link")
        ELSE Row("else", "TAG_A_END", "e_slash_a_other")
<1> TAKE c
<1>1. Row(">", "START", "done_link").on = ">"
  BY RowShape
<1>2. Row("space", "START", "done_link").on = "space"
  BY RowShape
<1>3. Row("else", "TAG_A_END", "e_slash_a_other").on = "else"
  BY RowShape
<1>4. Table["TAG_A_END_IS_SLASH_A_OTHER"] =
        << Row(">", "START", "done_link"),
           Row("space", "START", "done_link"),
           Row("else", "TAG_A_END", "e_slash_a_other") >>
  BY DEF Table
<1> QED
  BY <1>1, <1>2, <1>3, <1>4, ThreeRows, TakenFits

LEMMA TakenTagAEndIsAAgain ==
    \A c : Taken("TAG_A_END_IS_A_AGAIN", c) =
        IF c = "space" THEN Row("space", "TAG_A", "done_link")
        ELSE Row("else", "TAG_A_END", "embeeded_goto_end")
<1> TAKE c
<1>1. Row("space", "TAG_A", "done_link").on = "space"
  BY RowShape
<1>2. Row("else", "TAG_A_END", "embeeded_goto_end").on = "else"
  BY RowShape
<1>3. Table["TAG_A_END_IS_A_AGAIN"] =
        << Row("space", "TAG_A", "done_link"),
           Row("else", "TAG_A_END", "embeeded_goto_end") >>
  BY DEF Table
<1> QED
  BY <1>1, <1>2, <1>3, TwoRows, TakenFits

-----------------------------------------------------------------------------
(* Reading: the parser and the reports it has made as one value, and what  *)
(* a string of characters makes of it.                                     *)

At(s, l, k, n) == [st |-> s, link |-> l, comment |-> k, seen |-> n]

Now == At(st, link, comment, seen)

Added(k, c) ==
    IF c = "space" /\ k # <<>> /\ k[Len(k)] = "space" THEN k ELSE Put(k, <<c>>)

\* What a transition function makes of the link, the comment and the reports.
LinkBy(do, l, c) ==
    CASE do \in {"init_parser", "link_first_char"} -> <<>>
      [] do = "add_char" -> Put(l, <<c>>)
      [] OTHER -> l

CommentBy(do, k, c) ==
    CASE do = "done_link" -> <<>>
      [] do = "addcomment" -> Added(k, c)
      [] do = "e_is_slash" -> Put(k, <<"<", c>>)
      [] do = "e_slash_a" -> Put(k, <<"<", "/", c>>)
      [] do = "e_slash_a_other" -> Put(k, <<"<", "/", "a", c>>)
      [] do = "embeeded_goto_end" -> Put(k, <<"<", "/", "a", c, "NUL">>)
      [] OTHER -> k

SeenBy(do, l, k, n) ==
    IF do = "done_link" THEN Append(n, [link |-> l, comment |-> k]) ELSE n

After(a, c) ==
    LET do == Taken(a.st, c).do
    IN  At(Taken(a.st, c).to, LinkBy(do, a.link, c), CommentBy(do, a.comment, c),
           SeenBy(do, a.link, a.comment, a.seen))

\* The characters s take a to b.
Reads(a, s, b) ==
    \E path : /\ path[1] = a /\ path[Len(s) + 1] = b
              /\ \A i \in 1..Len(s) : path[i + 1] = After(path[i], s[i])

LEMMA AtFields ==
    \A s, l, k, n : /\ At(s, l, k, n).st = s /\ At(s, l, k, n).link = l
                    /\ At(s, l, k, n).comment = k /\ At(s, l, k, n).seen = n
BY DEF At

LEMMA ReadsNothing ==
    ASSUME NEW a, NEW b
    PROVE  Reads(a, <<>>, b) <=> a = b
<1>1. ASSUME Reads(a, <<>>, b) PROVE a = b
  <2>1. Len(<<>>) + 1 = 1
    OBVIOUS
  <2> QED
    BY <1>1, <2>1 DEF Reads
<1>2. ASSUME a = b PROVE Reads(a, <<>>, b)
  <2>1. Len(<<>>) + 1 = 1 /\ \A i \in 1..Len(<<>>) : FALSE
    OBVIOUS
  <2> DEFINE path == [i \in 1..1 |-> a]
  <2>2. path[1] = a
    OBVIOUS
  <2> HIDE DEF path
  <2> QED
    BY <1>2, <2>1, <2>2 DEF Reads
<1> QED
  BY <1>1, <1>2

\* The first character, and then the rest.
LEMMA ReadsHead ==
    ASSUME NEW X, NEW s \in Seq(X), s # <<>>, NEW a, NEW b, Reads(a, s, b)
    PROVE  Reads(After(a, Head(s)), Tail(s), b)
<1>1. PICK path :
        /\ path[1] = a /\ path[Len(s) + 1] = b
        /\ \A i \in 1..Len(s) : path[i + 1] = After(path[i], s[i])
  BY DEF Reads
<1>2. /\ Len(s) \in Nat /\ 1 \in 1..Len(s) /\ Head(s) = s[1] /\ Len(Tail(s)) = Len(s) - 1
      /\ \A i \in 1..Len(s) - 1 : Tail(s)[i] = s[i + 1]
  OBVIOUS
<1> DEFINE later == [i \in 1..Len(s) |-> path[i + 1]]
<1>3. \A i \in 1..Len(s) : later[i] = path[i + 1]
  OBVIOUS
<1> HIDE DEF later
<1>4. later[1] = After(a, Head(s))
  BY <1>1, <1>2, <1>3
<1>5. later[Len(Tail(s)) + 1] = b
  BY <1>1, <1>2, <1>3
<1>6. ASSUME NEW i \in 1..Len(Tail(s)) PROVE later[i + 1] = After(later[i], Tail(s)[i])
  <2>1. i \in 1..Len(s) /\ i + 1 \in 1..Len(s) /\ Tail(s)[i] = s[i + 1]
    BY <1>2
  <2>2. later[i] = path[i + 1] /\ later[i + 1] = path[i + 1 + 1]
    BY <1>3, <2>1
  <2>3. path[i + 1 + 1] = After(path[i + 1], s[i + 1])
    BY <1>1, <2>1
  <2> QED
    BY <2>1, <2>2, <2>3
<1> QED
  BY <1>4, <1>5, <1>6 DEF Reads

\* One string, and then another.
LEMMA ReadsBoth ==
    ASSUME NEW X, NEW s \in Seq(X), NEW t \in Seq(X), NEW a, NEW b, NEW z,
           Reads(a, s, b), Reads(b, t, z)
    PROVE  Reads(a, s \o t, z)
<1>1. PICK path :
        /\ path[1] = a /\ path[Len(s) + 1] = b
        /\ \A i \in 1..Len(s) : path[i + 1] = After(path[i], s[i])
  BY DEF Reads
<1>2. PICK onward :
        /\ onward[1] = b /\ onward[Len(t) + 1] = z
        /\ \A i \in 1..Len(t) : onward[i + 1] = After(onward[i], t[i])
  BY DEF Reads
<1> DEFINE S == Len(s)
           T == Len(t)
           st2 == s \o t
           whole == [i \in 1..S + T + 1 |-> IF i <= S THEN path[i] ELSE onward[i - S]]
<1>3. /\ S \in Nat /\ T \in Nat /\ Len(st2) = S + T
      /\ \A i \in 1..S : st2[i] = s[i]
      /\ \A i \in S + 1..S + T : st2[i] = t[i - S]
  OBVIOUS
<1> HIDE DEF S, T, st2
<1>4. \A i \in 1..S + T + 1 : whole[i] = IF i <= S THEN path[i] ELSE onward[i - S]
  OBVIOUS
<1> HIDE DEF whole
<1>5. path[S + 1] = b /\ onward[T + 1] = z
  BY <1>1, <1>2 DEF S, T
<1>6. whole[1] = a
  <2>1. CASE S = 0
    BY <1>1, <1>2, <1>3, <1>4, <1>5, <2>1
  <2>2. CASE S > 0
    BY <1>1, <1>3, <1>4, <2>2
  <2> QED
    BY <1>3, <2>1, <2>2
<1>7. whole[S + T + 1] = z
  BY <1>3, <1>4, <1>5
<1>8. ASSUME NEW i \in 1..S + T PROVE whole[i + 1] = After(whole[i], st2[i])
  <2>1. CASE i < S
    <3>1. /\ i \in 1..S /\ i + 1 <= S /\ i <= S
          /\ i \in 1..S + T + 1 /\ i + 1 \in 1..S + T + 1
      BY <1>3, <2>1
    <3>2. path[i + 1] = After(path[i], s[i])
      BY <1>1, <3>1 DEF S
    <3> QED
      BY <1>3, <1>4, <3>1, <3>2
  <2>2. CASE i = S
    <3>1. /\ i \in 1..S /\ ~(i + 1 <= S) /\ i <= S /\ i + 1 - S = 1
          /\ i \in 1..S + T + 1 /\ i + 1 \in 1..S + T + 1
      BY <1>3, <2>2
    <3>2. path[i + 1] = After(path[i], s[i]) /\ path[i + 1] = b
      BY <1>1, <1>5, <2>2, <3>1 DEF S
    <3>3. whole[i + 1] = onward[1] /\ whole[i] = path[i] /\ st2[i] = s[i]
      BY <1>3, <1>4, <3>1
    <3> QED
      BY <1>2, <3>2, <3>3
  <2>3. CASE i > S
    <3>1. /\ ~(i <= S) /\ ~(i + 1 <= S) /\ i \in S + 1..S + T /\ i - S \in 1..T
          /\ i + 1 - S = i - S + 1
          /\ i \in 1..S + T + 1 /\ i + 1 \in 1..S + T + 1
      BY <1>3, <2>3
    <3>2. onward[i - S + 1] = After(onward[i - S], t[i - S])
      BY <1>2, <3>1 DEF T
    <3>3. whole[i + 1] = onward[i - S + 1] /\ whole[i] = onward[i - S] /\ st2[i] = t[i - S]
      BY <1>3, <1>4, <3>1
    <3> QED
      BY <3>2, <3>3
  <2> QED
    BY <1>3, <2>1, <2>2, <2>3
<1>9. Reads(a, st2, z)
  BY <1>3, <1>6, <1>7, <1>8 DEF Reads
<1> QED
  BY <1>9 DEF st2

LEMMA ReadsOne ==
    ASSUME NEW a, NEW c
    PROVE  Reads(a, <<c>>, After(a, c))
<1> DEFINE path == [i \in 1..2 |-> IF i = 1 THEN a ELSE After(a, c)]
<1>1. /\ path[1] = a /\ path[1 + 1] = After(a, c) /\ Len(<<c>>) = 1
      /\ <<c>>[1] = c /\ \A i \in 1..1 : i = 1
  OBVIOUS
<1> HIDE DEF path
<1> QED
  BY <1>1 DEF Reads

\* A character more.
LEMMA ReadsCons ==
    ASSUME NEW X, NEW c \in X, NEW t \in Seq(X), NEW a, NEW b, Reads(After(a, c), t, b)
    PROVE  Reads(a, <<c>> \o t, b)
<1>1. <<c>> \in Seq(X)
  OBVIOUS
<1> QED
  BY <1>1, ReadsOne, ReadsBoth

-----------------------------------------------------------------------------
(* Steps that call no function, and those that do.                         *)

Quiet(s, c, to) == \A l, k, n : After(At(s, l, k, n), c) = At(to, l, k, n)

LEMMA AfterAt ==
    ASSUME NEW s, NEW l, NEW k, NEW n, NEW c, NEW on, NEW to, NEW do,
           Taken(s, c) = Row(on, to, do)
    PROVE  After(At(s, l, k, n), c) =
             At(to, LinkBy(do, l, c), CommentBy(do, k, c), SeenBy(do, l, k, n))
BY RowShape, AtFields DEF After

LEMMA QuietStep ==
    ASSUME NEW s, NEW c, NEW on, NEW to, Taken(s, c) = Row(on, to, "nothing")
    PROVE  Quiet(s, c, to)
<1>1. \A l, k, n : /\ LinkBy("nothing", l, c) = l /\ CommentBy("nothing", k, c) = k
                   /\ SeenBy("nothing", l, k, n) = n
  BY DEF LinkBy, CommentBy, SeenBy
<1> QED
  BY <1>1, AfterAt DEF Quiet

LEMMA QuietOutside ==
    /\ Quiet("START", "<", "TAG")
    /\ \A c : c # "<" => Quiet("START", c, "START")
    /\ \A c : c \notin {">", "a"} => Quiet("TAG", c, "OTHERTAG")
    /\ \A c : c \notin {"space", ">"} => Quiet("ISTAG_A", c, "OTHERTAG")
    /\ Quiet("OTHERTAG", ">", "START")
    /\ \A c : c # ">" => Quiet("OTHERTAG", c, "OTHERTAG")
<1>1. Quiet("START", "<", "TAG")
  BY TakenStart, QuietStep
<1>2. ASSUME NEW c, c # "<" PROVE Quiet("START", c, "START")
  BY <1>2, TakenStart, QuietStep
<1>3. ASSUME NEW c, c \notin {">", "a"} PROVE Quiet("TAG", c, "OTHERTAG")
  BY <1>3, TakenTag, QuietStep
<1>4. ASSUME NEW c, c \notin {"space", ">"} PROVE Quiet("ISTAG_A", c, "OTHERTAG")
  BY <1>4, TakenIstagA, QuietStep
<1>5. Quiet("OTHERTAG", ">", "START")
  BY TakenOthertag, QuietStep
<1>6. ASSUME NEW c, c # ">" PROVE Quiet("OTHERTAG", c, "OTHERTAG")
  BY <1>6, TakenOthertag, QuietStep
<1> QED
  BY <1>1, <1>2, <1>3, <1>4, <1>5, <1>6

LEMMA QuietAttributes ==
    /\ Quiet("ISTAG_A", "space", "TAG_A")
    /\ Quiet("TAG_A", "h", "TAG_A_H")
    /\ Quiet("TAG_A", "space", "TAG_A_H")
    /\ Quiet("TAG_A", ">", "TAG_A_END")
    /\ \A c : c \notin {"h", ">", "space"} => Quiet("TAG_A", c, "TAG_A_OTHER")
    /\ Quiet("TAG_A_OTHER", "space", "TAG_A")
    /\ Quiet("TAG_A_OTHER", ">", "TAG_A_END")
    /\ \A c : c \notin {"space", ">"} => Quiet("TAG_A_OTHER", c, "TAG_A_OTHER")
    /\ Quiet("TAG_A_H", "r", "TAG_A_HR")
    /\ \A c : c \notin {"r", ">"} => Quiet("TAG_A_H", c, "TAG_A")
<1>1. Quiet("ISTAG_A", "space", "TAG_A")
  BY TakenIstagA, QuietStep
<1>2. Quiet("TAG_A", "h", "TAG_A_H")
  BY TakenTagA, QuietStep
<1>3. Quiet("TAG_A", "space", "TAG_A_H")
  BY TakenTagA, QuietStep
<1>4. Quiet("TAG_A", ">", "TAG_A_END")
  BY TakenTagA, QuietStep
<1>5. ASSUME NEW c, c \notin {"h", ">", "space"} PROVE Quiet("TAG_A", c, "TAG_A_OTHER")
  BY <1>5, TakenTagA, QuietStep
<1>6. Quiet("TAG_A_OTHER", "space", "TAG_A")
  BY TakenTagAOther, QuietStep
<1>7. Quiet("TAG_A_OTHER", ">", "TAG_A_END")
  BY TakenTagAOther, QuietStep
<1>8. ASSUME NEW c, c \notin {"space", ">"} PROVE Quiet("TAG_A_OTHER", c, "TAG_A_OTHER")
  BY <1>8, TakenTagAOther, QuietStep
<1>9. Quiet("TAG_A_H", "r", "TAG_A_HR")
  BY TakenTagAH, QuietStep
<1>10. ASSUME NEW c, c \notin {"r", ">"} PROVE Quiet("TAG_A_H", c, "TAG_A")
  BY <1>10, TakenTagAH, QuietStep
<1> QED
  BY <1>1, <1>2, <1>3, <1>4, <1>5, <1>6, <1>7, <1>8, <1>9, <1>10

LEMMA QuietHref ==
    /\ Quiet("TAG_A_HR", "e", "TAG_A_HRE")
    /\ Quiet("TAG_A_HR", "x", "TAG_A")
    /\ Quiet("TAG_A_HRE", "f", "TAG_A_HREF")
    /\ Quiet("TAG_A_HREF", "=", "TAG_A_HREF_EQ")
    /\ Quiet("TAG_A_HREF", "space", "TAG_A_HREF")
    /\ Quiet("TAG_A_HREF_EQ", "space", "TAG_A_HREF_EQ")
    /\ Quiet("TAG_A_HREF_EQ_READ", "quote", "TAG_A")
<1>1. Quiet("TAG_A_HR", "e", "TAG_A_HRE")
  BY TakenTagAHr, QuietStep
<1>2. Quiet("TAG_A_HR", "x", "TAG_A")
  BY TakenTagAHr, QuietStep
<1>3. Quiet("TAG_A_HRE", "f", "TAG_A_HREF")
  BY TakenTagAHre, QuietStep
<1>4. Quiet("TAG_A_HREF", "=", "TAG_A_HREF_EQ")
  BY TakenTagAHref, QuietStep
<1>5. Quiet("TAG_A_HREF", "space", "TAG_A_HREF")
  BY TakenTagAHref, QuietStep
<1>6. Quiet("TAG_A_HREF_EQ", "space", "TAG_A_HREF_EQ")
  BY TakenTagAHrefEq, QuietStep
<1>7. Quiet("TAG_A_HREF_EQ_READ", "quote", "TAG_A")
  BY TakenTagAHrefEqRead, QuietStep
<1> QED
  BY <1>1, <1>2, <1>3, <1>4, <1>5, <1>6, <1>7

LEMMA QuietText ==
    /\ Quiet("TAG_A_END", "<", "TAG_A_END_IS_SLASH")
    /\ Quiet("TAG_A_END_IS_SLASH", "/", "TAG_A_END_IS_SLASH_A")
    /\ Quiet("TAG_A_END_IS_SLASH", "a", "TAG_A_END_IS_A_AGAIN")
    /\ Quiet("TAG_A_END_IS_SLASH_A", "a", "TAG_A_END_IS_SLASH_A_OTHER")
<1>1. Quiet("TAG_A_END", "<", "TAG_A_END_IS_SLASH")
  BY TakenTagAEnd, QuietStep
<1>2. Quiet("TAG_A_END_IS_SLASH", "/", "TAG_A_END_IS_SLASH_A")
  BY TakenTagAEndIsSlash, QuietStep
<1>3. Quiet("TAG_A_END_IS_SLASH", "a", "TAG_A_END_IS_A_AGAIN")
  BY TakenTagAEndIsSlash, QuietStep
<1>4. Quiet("TAG_A_END_IS_SLASH_A", "a", "TAG_A_END_IS_SLASH_A_OTHER")
  BY TakenTagAEndIsSlashA, QuietStep
<1> QED
  BY <1>1, <1>2, <1>3, <1>4

Seen(n, l, k) == Append(n, [link |-> l, comment |-> k])

\* The steps that touch a buffer or report.
LEMMA LinkSteps ==
    ASSUME NEW l, NEW k, NEW n
    PROVE  /\ After(At("TAG", l, k, n), "a") = At("ISTAG_A", <<>>, k, n)
           /\ After(At("TAG_A_HREF_EQ", l, k, n), "quote") = At("TAG_A_HREF_EQ_READ", <<>>, k, n)
           /\ \A c : c \notin {"quote", ">"} =>
                After(At("TAG_A_HREF_EQ_READ", l, k, n), c) =
                  At("TAG_A_HREF_EQ_READ", Put(l, <<c>>), k, n)
<1>1. \A c : LinkBy("init_parser", l, c) = <<>> /\ LinkBy("link_first_char", l, c) = <<>>
             /\ LinkBy("add_char", l, c) = Put(l, <<c>>)
  BY DEF LinkBy
<1>2. \A c, do : do \in {"init_parser", "link_first_char", "add_char"} =>
                   CommentBy(do, k, c) = k /\ SeenBy(do, l, k, n) = n
  BY DEF CommentBy, SeenBy
<1>3. After(At("TAG", l, k, n), "a") = At("ISTAG_A", <<>>, k, n)
  <2>1. Taken("TAG", "a") = Row("a", "ISTAG_A", "init_parser")
    BY TakenTag
  <2> QED
    BY <1>1, <1>2, <2>1, AfterAt
<1>4. After(At("TAG_A_HREF_EQ", l, k, n), "quote") = At("TAG_A_HREF_EQ_READ", <<>>, k, n)
  <2>1. Taken("TAG_A_HREF_EQ", "quote") = Row("else", "TAG_A_HREF_EQ_READ", "link_first_char")
    BY TakenTagAHrefEq
  <2>2. After(At("TAG_A_HREF_EQ", l, k, n), "quote") =
          At("TAG_A_HREF_EQ_READ", LinkBy("link_first_char", l, "quote"),
             CommentBy("link_first_char", k, "quote"), SeenBy("link_first_char", l, k, n))
    BY ONLY <2>1, AfterAt
  <2> QED
    BY <1>1, <1>2, <2>2
<1>5. ASSUME NEW c, c \notin {"quote", ">"}
      PROVE  After(At("TAG_A_HREF_EQ_READ", l, k, n), c) =
               At("TAG_A_HREF_EQ_READ", Put(l, <<c>>), k, n)
  <2>1. Taken("TAG_A_HREF_EQ_READ", c) = Row("else", "TAG_A_HREF_EQ_READ", "add_char")
    BY <1>5, TakenTagAHrefEqRead
  <2> QED
    BY <1>1, <1>2, <2>1, AfterAt
<1> QED
  BY <1>3, <1>4, <1>5

LEMMA CommentSteps ==
    ASSUME NEW l, NEW k, NEW n
    PROVE  /\ \A c : c # "<" =>
                After(At("TAG_A_END", l, k, n), c) = At("TAG_A_END", l, Added(k, c), n)
           /\ \A c : c \notin {"space", "/", "a"} =>
                After(At("TAG_A_END_IS_SLASH", l, k, n), c) =
                  At("TAG_A_END", l, Put(k, <<"<", c>>), n)
           /\ \A c : c # "a" =>
                After(At("TAG_A_END_IS_SLASH_A", l, k, n), c) =
                  At("TAG_A_END", l, Put(k, <<"<", "/", c>>), n)
           /\ \A c : c \notin {">", "space"} =>
                After(At("TAG_A_END_IS_SLASH_A_OTHER", l, k, n), c) =
                  At("TAG_A_END", l, Put(k, <<"<", "/", "a", c>>), n)
<1>1. \A c, do : do \in {"addcomment", "e_is_slash", "e_slash_a", "e_slash_a_other"} =>
                   LinkBy(do, l, c) = l /\ SeenBy(do, l, k, n) = n
  BY DEF LinkBy, SeenBy
<1>2. \A c : /\ CommentBy("addcomment", k, c) = Added(k, c)
             /\ CommentBy("e_is_slash", k, c) = Put(k, <<"<", c>>)
             /\ CommentBy("e_slash_a", k, c) = Put(k, <<"<", "/", c>>)
             /\ CommentBy("e_slash_a_other", k, c) = Put(k, <<"<", "/", "a", c>>)
  BY DEF CommentBy
<1>3. ASSUME NEW c, c # "<"
      PROVE  After(At("TAG_A_END", l, k, n), c) = At("TAG_A_END", l, Added(k, c), n)
  <2>1. Taken("TAG_A_END", c) = Row("else", "TAG_A_END", "addcomment")
    BY <1>3, TakenTagAEnd
  <2> QED
    BY <1>1, <1>2, <2>1, AfterAt
<1>4. ASSUME NEW c, c \notin {"space", "/", "a"}
      PROVE  After(At("TAG_A_END_IS_SLASH", l, k, n), c) =
               At("TAG_A_END", l, Put(k, <<"<", c>>), n)
  <2>1. Taken("TAG_A_END_IS_SLASH", c) = Row("else", "TAG_A_END", "e_is_slash")
    BY <1>4, TakenTagAEndIsSlash
  <2> QED
    BY <1>1, <1>2, <2>1, AfterAt
<1>5. ASSUME NEW c, c # "a"
      PROVE  After(At("TAG_A_END_IS_SLASH_A", l, k, n), c) =
               At("TAG_A_END", l, Put(k, <<"<", "/", c>>), n)
  <2>1. Taken("TAG_A_END_IS_SLASH_A", c) = Row("else", "TAG_A_END", "e_slash_a")
    BY <1>5, TakenTagAEndIsSlashA
  <2> QED
    BY <1>1, <1>2, <2>1, AfterAt
<1>6. ASSUME NEW c, c \notin {">", "space"}
      PROVE  After(At("TAG_A_END_IS_SLASH_A_OTHER", l, k, n), c) =
               At("TAG_A_END", l, Put(k, <<"<", "/", "a", c>>), n)
  <2>1. Taken("TAG_A_END_IS_SLASH_A_OTHER", c) = Row("else", "TAG_A_END", "e_slash_a_other")
    BY <1>6, TakenTagAEndIsSlashAOther
  <2> QED
    BY <1>1, <1>2, <2>1, AfterAt
<1> QED
  BY <1>3, <1>4, <1>5, <1>6

LEMMA DoneSteps ==
    ASSUME NEW l, NEW k, NEW n
    PROVE  /\ After(At("TAG_A_END_IS_SLASH_A_OTHER", l, k, n), ">") =
                At("START", l, <<>>, Seen(n, l, k))
           /\ After(At("TAG_A_END_IS_A_AGAIN", l, k, n), "space") =
                At("TAG_A", l, <<>>, Seen(n, l, k))
<1>1. \A c : /\ LinkBy("done_link", l, c) = l /\ CommentBy("done_link", k, c) = <<>>
             /\ SeenBy("done_link", l, k, n) = Seen(n, l, k)
  BY DEF LinkBy, CommentBy, SeenBy, Seen
<1>2. Taken("TAG_A_END_IS_SLASH_A_OTHER", ">") = Row(">", "START", "done_link")
  BY TakenTagAEndIsSlashAOther
<1>3. Taken("TAG_A_END_IS_A_AGAIN", "space") = Row("space", "TAG_A", "done_link")
  BY TakenTagAEndIsAAgain
<1> QED
  BY <1>1, <1>2, <1>3, AfterAt

-----------------------------------------------------------------------------
(* Words.                                                                  *)

LEMMA Word2 ==
    ASSUME NEW a, NEW b, NEW c1, NEW c2, Reads(After(a, c1), <<c2>>, b)
    PROVE  Reads(a, <<c1, c2>>, b)
<1> DEFINE X == {c1, c2}
<1>1. c1 \in X /\ <<c2>> \in Seq(X)
  OBVIOUS
<1>2. <<c1, c2>> = <<c1>> \o <<c2>>
  <2> DEFINE l == <<c1, c2>>
             r == <<c1>> \o <<c2>>
  <2>1. l \in Seq(X) /\ Len(l) = 2 /\ l[1] = c1 /\ l[2] = c2
    OBVIOUS
  <2>2. r \in Seq(X) /\ Len(r) = 2 /\ r[1] = c1 /\ r[2] = c2
    OBVIOUS
  <2> HIDE DEF l, r
  <2>3. \A i \in 1..2 : l[i] = r[i]
    <3>1. \A i \in 1..2 : i = 1 \/ i = 2
      OBVIOUS
    <3> QED
      BY <2>1, <2>2, <3>1
  <2>4. l = r
    BY <2>1, <2>2, <2>3
  <2> QED
    BY <2>4 DEF l, r
<1> HIDE DEF X
<1> QED
  BY <1>1, <1>2, ReadsCons

LEMMA Word3 ==
    ASSUME NEW a, NEW b, NEW c1, NEW c2, NEW c3, Reads(After(a, c1), <<c2, c3>>, b)
    PROVE  Reads(a, <<c1, c2, c3>>, b)
<1> DEFINE X == {c1, c2, c3}
<1>1. /\ c1 \in X /\ <<c2, c3>> \in Seq(X) /\ <<c1, c2, c3>> = <<c1>> \o <<c2, c3>>
  OBVIOUS
<1> HIDE DEF X
<1> QED
  BY <1>1, ReadsCons

LEMMA Word4 ==
    ASSUME NEW a, NEW b, NEW c1, NEW c2, NEW c3, NEW c4,
           Reads(After(a, c1), <<c2, c3, c4>>, b)
    PROVE  Reads(a, <<c1, c2, c3, c4>>, b)
<1> DEFINE X == {c1, c2, c3, c4}
<1>1. /\ c1 \in X /\ <<c2, c3, c4>> \in Seq(X)
      /\ <<c1, c2, c3, c4>> = <<c1>> \o <<c2, c3, c4>>
  OBVIOUS
<1> HIDE DEF X
<1> QED
  BY <1>1, ReadsCons

LEMMA Word5 ==
    ASSUME NEW a, NEW b, NEW c1, NEW c2, NEW c3, NEW c4, NEW c5,
           Reads(After(a, c1), <<c2, c3, c4, c5>>, b)
    PROVE  Reads(a, <<c1, c2, c3, c4, c5>>, b)
<1> DEFINE X == {c1, c2, c3, c4, c5}
<1>1. /\ c1 \in X /\ <<c2, c3, c4, c5>> \in Seq(X)
      /\ <<c1, c2, c3, c4, c5>> = <<c1>> \o <<c2, c3, c4, c5>>
  OBVIOUS
<1> HIDE DEF X
<1> QED
  BY <1>1, ReadsCons

\* <a and its space, outside a link and in one.
LEMMA TagBegins ==
    ASSUME NEW l, NEW k, NEW n
    PROVE  Reads(At("START", l, k, n), <<"<", "a", "space">>, At("TAG_A", <<>>, k, n))
<1>1. After(At("ISTAG_A", <<>>, k, n), "space") = At("TAG_A", <<>>, k, n)
  BY QuietAttributes DEF Quiet
<1>2. Reads(At("ISTAG_A", <<>>, k, n), <<"space">>, At("TAG_A", <<>>, k, n))
  BY <1>1, ReadsOne
<1>3. Reads(At("TAG", l, k, n), <<"a", "space">>, At("TAG_A", <<>>, k, n))
  BY <1>2, LinkSteps, Word2
<1>4. After(At("START", l, k, n), "<") = At("TAG", l, k, n)
  BY QuietOutside DEF Quiet
<1> QED
  BY <1>3, <1>4, Word3

LEMMA TagBeginsAgain ==
    ASSUME NEW l, NEW k, NEW n
    PROVE  Reads(At("TAG_A_END", l, k, n), <<"<", "a", "space">>,
                 At("TAG_A", l, <<>>, Seen(n, l, k)))
<1>1. Reads(At("TAG_A_END_IS_A_AGAIN", l, k, n), <<"space">>,
            At("TAG_A", l, <<>>, Seen(n, l, k)))
  BY DoneSteps, ReadsOne
<1>2. After(At("TAG_A_END_IS_SLASH", l, k, n), "a") = At("TAG_A_END_IS_A_AGAIN", l, k, n)
  BY QuietText DEF Quiet
<1>3. Reads(At("TAG_A_END_IS_SLASH", l, k, n), <<"a", "space">>,
            At("TAG_A", l, <<>>, Seen(n, l, k)))
  BY <1>1, <1>2, Word2
<1>4. After(At("TAG_A_END", l, k, n), "<") = At("TAG_A_END_IS_SLASH", l, k, n)
  BY QuietText DEF Quiet
<1> QED
  BY <1>3, <1>4, Word3

\* </a>
LEMMA TagEnds ==
    ASSUME NEW l, NEW k, NEW n
    PROVE  Reads(At("TAG_A_END", l, k, n), <<"<", "/", "a", ">">>,
                 At("START", l, <<>>, Seen(n, l, k)))
<1>1. Reads(At("TAG_A_END_IS_SLASH_A_OTHER", l, k, n), <<">">>,
            At("START", l, <<>>, Seen(n, l, k)))
  BY DoneSteps, ReadsOne
<1>2. After(At("TAG_A_END_IS_SLASH_A", l, k, n), "a") =
        At("TAG_A_END_IS_SLASH_A_OTHER", l, k, n)
  BY QuietText DEF Quiet
<1>3. Reads(At("TAG_A_END_IS_SLASH_A", l, k, n), <<"a", ">">>,
            At("START", l, <<>>, Seen(n, l, k)))
  BY <1>1, <1>2, Word2
<1>4. After(At("TAG_A_END_IS_SLASH", l, k, n), "/") = At("TAG_A_END_IS_SLASH_A", l, k, n)
  BY QuietText DEF Quiet
<1>5. Reads(At("TAG_A_END_IS_SLASH", l, k, n), <<"/", "a", ">">>,
            At("START", l, <<>>, Seen(n, l, k)))
  BY <1>3, <1>4, Word3
<1>6. After(At("TAG_A_END", l, k, n), "<") = At("TAG_A_END_IS_SLASH", l, k, n)
  BY QuietText DEF Quiet
<1> QED
  BY <1>5, <1>6, Word4

\* href and its "=", with and without spaces around it.
LEMMA HrefRead ==
    ASSUME NEW l, NEW k, NEW n
    PROVE  /\ Reads(At("TAG_A", l, k, n), <<"h", "r", "e", "f", "=">>,
                    At("TAG_A_HREF_EQ", l, k, n))
           /\ Reads(At("TAG_A", l, k, n), <<"h", "r", "e", "f">>, At("TAG_A_HREF", l, k, n))
           /\ Reads(At("TAG_A_HREF", l, k, n), <<"space", "=", "space">>,
                    At("TAG_A_HREF_EQ", l, k, n))
<1>1. /\ After(At("TAG_A", l, k, n), "h") = At("TAG_A_H", l, k, n)
      /\ After(At("TAG_A_H", l, k, n), "r") = At("TAG_A_HR", l, k, n)
  BY QuietAttributes DEF Quiet
<1>2. /\ After(At("TAG_A_HR", l, k, n), "e") = At("TAG_A_HRE", l, k, n)
      /\ After(At("TAG_A_HRE", l, k, n), "f") = At("TAG_A_HREF", l, k, n)
      /\ After(At("TAG_A_HREF", l, k, n), "=") = At("TAG_A_HREF_EQ", l, k, n)
      /\ After(At("TAG_A_HREF", l, k, n), "space") = At("TAG_A_HREF", l, k, n)
      /\ After(At("TAG_A_HREF_EQ", l, k, n), "space") = At("TAG_A_HREF_EQ", l, k, n)
  BY QuietHref DEF Quiet
<1>3. Reads(At("TAG_A_HREF", l, k, n), <<"=">>, At("TAG_A_HREF_EQ", l, k, n))
  BY <1>2, ReadsOne
<1>4. Reads(At("TAG_A", l, k, n), <<"h", "r", "e", "f", "=">>, At("TAG_A_HREF_EQ", l, k, n))
  <2>1. Reads(At("TAG_A_HRE", l, k, n), <<"f", "=">>, At("TAG_A_HREF_EQ", l, k, n))
    BY <1>2, <1>3, Word2
  <2>2. Reads(At("TAG_A_HR", l, k, n), <<"e", "f", "=">>, At("TAG_A_HREF_EQ", l, k, n))
    BY <1>2, <2>1, Word3
  <2>3. Reads(At("TAG_A_H", l, k, n), <<"r", "e", "f", "=">>, At("TAG_A_HREF_EQ", l, k, n))
    BY <1>1, <2>2, Word4
  <2> QED
    BY <1>1, <2>3, Word5
<1>5. Reads(At("TAG_A", l, k, n), <<"h", "r", "e", "f">>, At("TAG_A_HREF", l, k, n))
  <2>1. Reads(At("TAG_A_HRE", l, k, n), <<"f">>, At("TAG_A_HREF", l, k, n))
    BY <1>2, ReadsOne
  <2>2. Reads(At("TAG_A_HR", l, k, n), <<"e", "f">>, At("TAG_A_HREF", l, k, n))
    BY <1>2, <2>1, Word2
  <2>3. Reads(At("TAG_A_H", l, k, n), <<"r", "e", "f">>, At("TAG_A_HREF", l, k, n))
    BY <1>1, <2>2, Word3
  <2> QED
    BY <1>1, <2>3, Word4
<1>6. Reads(At("TAG_A_HREF", l, k, n), <<"space", "=", "space">>,
            At("TAG_A_HREF_EQ", l, k, n))
  <2>1. Reads(At("TAG_A_HREF_EQ", l, k, n), <<"space">>, At("TAG_A_HREF_EQ", l, k, n))
    BY <1>2, ReadsOne
  <2>2. Reads(At("TAG_A_HREF", l, k, n), <<"=", "space">>, At("TAG_A_HREF_EQ", l, k, n))
    BY <1>2, <2>1, Word2
  <2> QED
    BY <1>2, <2>2, Word3
<1> QED
  BY <1>4, <1>5, <1>6

\* Attributes that are not href.
LEMMA OthersRead ==
    ASSUME NEW l, NEW k, NEW n
    PROVE  /\ Reads(At("TAG_A", l, k, n), <<"x", "=", "x", "space">>, At("TAG_A", l, k, n))
           /\ Reads(At("TAG_A", l, k, n), <<"h", "r", "x", "=", "space">>,
                    At("TAG_A", l, k, n))
           /\ Reads(At("TAG_A", l, k, n), <<"x", ">">>, At("TAG_A_END", l, k, n))
           /\ Reads(At("TAG_A", l, k, n), <<"space", "h", "r">>, At("TAG_A_OTHER", l, k, n))
           /\ Reads(At("TAG_A_OTHER", l, k, n), <<"e", "f", "=">>, At("TAG_A_OTHER", l, k, n))
<1>1. /\ After(At("TAG_A", l, k, n), "x") = At("TAG_A_OTHER", l, k, n)
      /\ After(At("TAG_A", l, k, n), "=") = At("TAG_A_OTHER", l, k, n)
      /\ After(At("TAG_A", l, k, n), "r") = At("TAG_A_OTHER", l, k, n)
      /\ After(At("TAG_A", l, k, n), "h") = At("TAG_A_H", l, k, n)
      /\ After(At("TAG_A", l, k, n), "space") = At("TAG_A_H", l, k, n)
  BY QuietAttributes DEF Quiet
<1>2. /\ After(At("TAG_A_OTHER", l, k, n), "x") = At("TAG_A_OTHER", l, k, n)
      /\ After(At("TAG_A_OTHER", l, k, n), "=") = At("TAG_A_OTHER", l, k, n)
      /\ After(At("TAG_A_OTHER", l, k, n), "e") = At("TAG_A_OTHER", l, k, n)
      /\ After(At("TAG_A_OTHER", l, k, n), "f") = At("TAG_A_OTHER", l, k, n)
      /\ After(At("TAG_A_OTHER", l, k, n), "space") = At("TAG_A", l, k, n)
      /\ After(At("TAG_A_OTHER", l, k, n), ">") = At("TAG_A_END", l, k, n)
  BY QuietAttributes DEF Quiet
<1>3. /\ After(At("TAG_A_H", l, k, n), "r") = At("TAG_A_HR", l, k, n)
      /\ After(At("TAG_A_H", l, k, n), "h") = At("TAG_A", l, k, n)
  BY QuietAttributes DEF Quiet
<1>4. After(At("TAG_A_HR", l, k, n), "x") = At("TAG_A", l, k, n)
  BY QuietHref DEF Quiet
<1>5. Reads(At("TAG_A_OTHER", l, k, n), <<"space">>, At("TAG_A", l, k, n))
  BY <1>2, ReadsOne
<1>6. Reads(At("TAG_A", l, k, n), <<"x", "=", "x", "space">>, At("TAG_A", l, k, n))
  <2>1. Reads(At("TAG_A_OTHER", l, k, n), <<"x", "space">>, At("TAG_A", l, k, n))
    BY <1>2, <1>5, Word2
  <2>2. Reads(At("TAG_A_OTHER", l, k, n), <<"=", "x", "space">>, At("TAG_A", l, k, n))
    BY <1>2, <2>1, Word3
  <2> QED
    BY <1>1, <2>2, Word4
<1>7. Reads(At("TAG_A", l, k, n), <<"h", "r", "x", "=", "space">>, At("TAG_A", l, k, n))
  <2>1. Reads(At("TAG_A", l, k, n), <<"=", "space">>, At("TAG_A", l, k, n))
    BY <1>1, <1>5, Word2
  <2>2. Reads(At("TAG_A_HR", l, k, n), <<"x", "=", "space">>, At("TAG_A", l, k, n))
    BY <1>4, <2>1, Word3
  <2>3. Reads(At("TAG_A_H", l, k, n), <<"r", "x", "=", "space">>, At("TAG_A", l, k, n))
    BY <1>3, <2>2, Word4
  <2> QED
    BY <1>1, <2>3, Word5
<1>8. Reads(At("TAG_A", l, k, n), <<"x", ">">>, At("TAG_A_END", l, k, n))
  <2>1. Reads(At("TAG_A_OTHER", l, k, n), <<">">>, At("TAG_A_END", l, k, n))
    BY <1>2, ReadsOne
  <2> QED
    BY <1>1, <2>1, Word2
<1>9. Reads(At("TAG_A", l, k, n), <<"space", "h", "r">>, At("TAG_A_OTHER", l, k, n))
  <2>1. Reads(At("TAG_A", l, k, n), <<"r">>, At("TAG_A_OTHER", l, k, n))
    BY <1>1, ReadsOne
  <2>2. Reads(At("TAG_A_H", l, k, n), <<"h", "r">>, At("TAG_A_OTHER", l, k, n))
    BY <1>3, <2>1, Word2
  <2> QED
    BY <1>1, <2>2, Word3
<1>10. Reads(At("TAG_A_OTHER", l, k, n), <<"e", "f", "=">>, At("TAG_A_OTHER", l, k, n))
  <2>1. Reads(At("TAG_A_OTHER", l, k, n), <<"=">>, At("TAG_A_OTHER", l, k, n))
    BY <1>2, ReadsOne
  <2>2. Reads(At("TAG_A_OTHER", l, k, n), <<"f", "=">>, At("TAG_A_OTHER", l, k, n))
    BY <1>2, <2>1, Word2
  <2> QED
    BY <1>2, <2>2, Word3
<1> QED
  BY <1>6, <1>7, <1>8, <1>9, <1>10

-----------------------------------------------------------------------------
(* The buffers.                                                            *)

LEMMA CutIs ==
    ASSUME NEW X, NEW s \in Seq(X)
    PROVE  /\ Cut(s) \in Seq(X)
           /\ Len(Cut(s)) = IF Len(s) < Cap THEN Len(s) ELSE Cap - 1
           /\ \A i \in 1..Len(Cut(s)) : Cut(s)[i] = s[i]
<1>1. Len(s) \in Nat /\ Cap \in Nat /\ Cap > 0
  BY CapAssumption
<1> DEFINE m == IF Len(s) < Cap THEN Len(s) ELSE Cap - 1
<1>2. m \in Nat /\ m <= Len(s)
  BY <1>1
<1>3. Cut(s) = SubSeq(s, 1, m)
  BY DEF Cut
<1> HIDE DEF m
<1>4. /\ SubSeq(s, 1, m) \in Seq(X) /\ Len(SubSeq(s, 1, m)) = m
      /\ \A i \in 1..m : SubSeq(s, 1, m)[i] = s[i]
  BY <1>2
<1> QED
  BY <1>3, <1>4 DEF m

LEMMA PutIsCut == \A buffer, chars : Put(buffer, chars) = Cut(buffer \o chars)
BY DEF Put, Cut

LEMMA CutShort ==
    ASSUME NEW X, NEW s \in Seq(X), Len(s) < Cap
    PROVE  Cut(s) = s
<1> DEFINE t == Cut(s)
<1>1. t \in Seq(X) /\ Len(t) = Len(s) /\ \A i \in 1..Len(t) : t[i] = s[i]
  BY CutIs
<1> HIDE DEF t
<1>2. t = s
  BY <1>1
<1> QED
  BY <1>2 DEF t

LEMMA CutNothing == Cut(<<>>) = <<>>
<1>1. <<>> \in Seq({}) /\ Len(<<>>) < Cap
  BY CapAssumption
<1> QED
  BY <1>1, CutShort

\* To cut what is put at the end of what was cut is to cut all of it.
LEMMA CutPut ==
    ASSUME NEW X, NEW s \in Seq(X), NEW t \in Seq(X)
    PROVE  Put(Cut(s), t) = Cut(s \o t)
<1>1. CASE Len(s) < Cap
  BY <1>1, CutShort, PutIsCut
<1>2. CASE ~(Len(s) < Cap)
  <2> DEFINE c == Cut(s)
             u == c \o t
             w == s \o t
             l == Cut(u)
             r == Cut(w)
  <2>1. c \in Seq(X) /\ Len(c) = Cap - 1 /\ \A i \in 1..Cap - 1 : c[i] = s[i]
    BY <1>2, CutIs
  <2>2. /\ Cap \in Nat /\ Cap > 0 /\ Len(s) \in Nat /\ Len(t) \in Nat
    BY CapAssumption
  <2> HIDE DEF c
  <2>3. u \in Seq(X) /\ Len(u) = Cap - 1 + Len(t) /\ \A i \in 1..Cap - 1 : u[i] = c[i]
    BY <2>1, <2>2
  <2>4. w \in Seq(X) /\ Len(w) = Len(s) + Len(t) /\ \A i \in 1..Cap - 1 : w[i] = s[i]
    BY <1>2, <2>2
  <2> HIDE DEF u, w
  <2>5. l \in Seq(X) /\ Len(l) = Cap - 1 /\ \A i \in 1..Cap - 1 : l[i] = u[i]
    <3>1. /\ l \in Seq(X) /\ Len(l) = IF Len(u) < Cap THEN Len(u) ELSE Cap - 1
          /\ \A i \in 1..Len(l) : l[i] = u[i]
      BY <2>3, CutIs
    <3> HIDE DEF l
    <3> QED
      BY <2>2, <2>3, <3>1
  <2>6. r \in Seq(X) /\ Len(r) = Cap - 1 /\ \A i \in 1..Cap - 1 : r[i] = w[i]
    <3>1. /\ r \in Seq(X) /\ Len(r) = IF Len(w) < Cap THEN Len(w) ELSE Cap - 1
          /\ \A i \in 1..Len(r) : r[i] = w[i]
      BY <2>4, CutIs
    <3> HIDE DEF r
    <3> QED
      BY <1>2, <2>2, <2>4, <3>1
  <2> HIDE DEF l, r
  <2>7. \A i \in 1..Cap - 1 : l[i] = r[i]
    BY <2>1, <2>3, <2>4, <2>5, <2>6
  <2>8. l = r
    BY <2>2, <2>5, <2>6, <2>7
  <2> QED
    BY <2>8, PutIsCut DEF l, r, u, w, c
<1> QED
  BY <1>1, <1>2

\* What is cut already stays as it is.
LEMMA CutLong ==
    ASSUME NEW X, NEW s \in Seq(X), NEW t \in Seq(X), ~(Len(s) < Cap)
    PROVE  Cut(s \o t) = Cut(s)
<1> DEFINE w == s \o t
           l == Cut(w)
           r == Cut(s)
<1>1. Cap \in Nat /\ Cap > 0 /\ Len(s) \in Nat /\ Len(t) \in Nat
  BY CapAssumption
<1>2. w \in Seq(X) /\ Len(w) = Len(s) + Len(t) /\ \A i \in 1..Len(s) : w[i] = s[i]
  OBVIOUS
<1> HIDE DEF w
<1>3. /\ l \in Seq(X) /\ Len(l) = IF Len(w) < Cap THEN Len(w) ELSE Cap - 1
      /\ \A i \in 1..Len(l) : l[i] = w[i]
  BY <1>2, CutIs
<1>4. /\ r \in Seq(X) /\ Len(r) = Cap - 1
      /\ \A i \in 1..Len(r) : r[i] = s[i]
  BY CutIs
<1> HIDE DEF l, r
<1>5. Len(l) = Cap - 1
  BY <1>1, <1>2, <1>3
<1>6. \A i \in 1..Cap - 1 : l[i] = r[i]
  BY <1>1, <1>2, <1>3, <1>4, <1>5
<1>7. l = r
  BY <1>1, <1>3, <1>4, <1>5, <1>6
<1> QED
  BY <1>7 DEF l, r, w

\* addcomment drops no character but a space after a space.
LEMMA AddedIs ==
    ASSUME NEW X, NEW q \in Seq(X), NEW c \in X,
           c = "space" => q # <<>> /\ q[Len(q)] # "space"
    PROVE  Added(Cut(q), c) = Cut(q \o <<c>>)
<1>1. <<c>> \in Seq(X)
  OBVIOUS
<1>2. CASE Added(Cut(q), c) = Put(Cut(q), <<c>>)
  BY <1>1, <1>2, CutPut
<1>3. CASE Added(Cut(q), c) # Put(Cut(q), <<c>>)
  <2>1. /\ c = "space" /\ Cut(q)[Len(Cut(q))] = "space"
        /\ Added(Cut(q), c) = Cut(q)
    BY <1>3 DEF Added
  <2>2. ~(Len(q) < Cap)
    <3> SUFFICES ASSUME Len(q) < Cap PROVE FALSE
      OBVIOUS
    <3>1. Cut(q) = q
      BY CutShort
    <3> QED
      BY <2>1, <3>1
  <2> QED
    BY <1>1, <2>1, <2>2, CutLong
<1> QED
  BY <1>2, <1>3

LEMMA Prefixes ==
    ASSUME NEW X, NEW s \in Seq(X)
    PROVE  /\ SubSeq(s, 1, 0) = <<>> /\ SubSeq(s, 1, Len(s)) = s
           /\ \A i \in 0..Len(s) : SubSeq(s, 1, i) \in Seq(X) /\ Len(SubSeq(s, 1, i)) = i
           /\ \A i \in 1..Len(s) :
                /\ SubSeq(s, 1, i) = SubSeq(s, 1, i - 1) \o <<s[i]>>
                /\ SubSeq(s, 1, i)[i] = s[i]
<1>1. SubSeq(s, 1, 0) = <<>>
  OBVIOUS
<1>2. SubSeq(s, 1, Len(s)) = s
  OBVIOUS
<1>3. ASSUME NEW i \in 0..Len(s)
      PROVE  /\ SubSeq(s, 1, i) \in Seq(X) /\ Len(SubSeq(s, 1, i)) = i
             /\ \A j \in 1..i : SubSeq(s, 1, i)[j] = s[j]
  OBVIOUS
<1>4. ASSUME NEW i \in 1..Len(s)
      PROVE  SubSeq(s, 1, i) = SubSeq(s, 1, i - 1) \o <<s[i]>>
  <2> DEFINE l == SubSeq(s, 1, i)
             p == SubSeq(s, 1, i - 1)
             r == p \o <<s[i]>>
  <2>1. l \in Seq(X) /\ Len(l) = i /\ \A j \in 1..i : l[j] = s[j]
    BY <1>3
  <2>2. i - 1 \in 0..Len(s) /\ i \in Nat /\ s[i] \in X
    OBVIOUS
  <2>3. p \in Seq(X) /\ Len(p) = i - 1 /\ \A j \in 1..i - 1 : p[j] = s[j]
    BY <1>3, <2>2
  <2> HIDE DEF l, p
  <2>4. r \in Seq(X) /\ Len(r) = i /\ (\A j \in 1..i - 1 : r[j] = p[j]) /\ r[i] = s[i]
    BY <2>2, <2>3
  <2> HIDE DEF r
  <2>5. \A j \in 1..i : l[j] = r[j]
    BY <2>1, <2>2, <2>3, <2>4
  <2>6. l = r
    BY <2>1, <2>2, <2>4, <2>5
  <2> QED
    BY <2>6 DEF l, p, r
<1> QED
  BY <1>1, <1>2, <1>3, <1>4

-----------------------------------------------------------------------------
(* Addresses.                                                              *)

Addressed == Alphabet \ {"quote", ">", "space"}

LEMMA UrlRead ==
    ASSUME NEW url \in Seq(Addressed), NEW k, NEW n
    PROVE  Reads(At("TAG_A_HREF_EQ_READ", <<>>, k, n), url,
                 At("TAG_A_HREF_EQ_READ", Cut(url), k, n))
<1> DEFINE upto(i) == At("TAG_A_HREF_EQ_READ", Cut(SubSeq(url, 1, i)), k, n)
           path == [i \in 1..Len(url) + 1 |-> upto(i - 1)]
<1> HIDE DEF upto
<1>1. \A i \in 1..Len(url) + 1 : path[i] = upto(i - 1)
  OBVIOUS
<1> HIDE DEF path
<1>2. Len(url) \in Nat
  OBVIOUS
<1>3. path[1] = At("TAG_A_HREF_EQ_READ", <<>>, k, n)
  <2>1. 1 \in 1..Len(url) + 1 /\ 1 - 1 = 0
    BY <1>2
  <2>2. path[1] = upto(0)
    BY <1>1, <2>1
  <2> QED
    BY <2>2, Prefixes, CutNothing DEF upto
<1>4. path[Len(url) + 1] = At("TAG_A_HREF_EQ_READ", Cut(url), k, n)
  <2>1. Len(url) + 1 \in 1..Len(url) + 1 /\ Len(url) + 1 - 1 = Len(url)
    BY <1>2
  <2>2. path[Len(url) + 1] = upto(Len(url))
    BY <1>1, <2>1
  <2> QED
    BY <2>2, Prefixes DEF upto
<1>5. ASSUME NEW i \in 1..Len(url) PROVE path[i + 1] = After(path[i], url[i])
  <2> DEFINE p == SubSeq(url, 1, i - 1)
             c == url[i]
  <2>1. /\ i \in 1..Len(url) + 1 /\ i + 1 \in 1..Len(url) + 1
        /\ i + 1 - 1 = i /\ i - 1 \in 0..Len(url)
    BY <1>2
  <2>2. p \in Seq(Addressed) /\ SubSeq(url, 1, i) = p \o <<c>>
    BY <2>1, Prefixes
  <2>3. c \in Addressed
    OBVIOUS
  <2>4. path[i] = At("TAG_A_HREF_EQ_READ", Cut(p), k, n)
    BY <1>1, <2>1 DEF upto
  <2>5. path[i + 1] = At("TAG_A_HREF_EQ_READ", Cut(p \o <<c>>), k, n)
    <3>1. path[i + 1] = upto(i)
      BY <1>1, <2>1
    <3> QED
      BY <2>2, <3>1 DEF upto
  <2> HIDE DEF p, c
  <2>6. c \notin {"quote", ">"} /\ <<c>> \in Seq(Addressed)
    BY <2>3 DEF Addressed
  <2>7. Put(Cut(p), <<c>>) = Cut(p \o <<c>>)
    BY <2>2, <2>6, CutPut
  <2>8. After(path[i], c) = path[i + 1]
    BY <2>4, <2>5, <2>6, <2>7, LinkSteps
  <2> QED
    BY <2>8 DEF c
<1> QED
  BY <1>3, <1>4, <1>5 DEF Reads

\* An address that is not looked for is passed over.
LEMMA UrlPassed ==
    ASSUME NEW url \in Seq(Addressed), NEW l, NEW k, NEW n
    PROVE  Reads(At("TAG_A_OTHER", l, k, n), url, At("TAG_A_OTHER", l, k, n))
<1> DEFINE path == [i \in 1..Len(url) + 1 |-> At("TAG_A_OTHER", l, k, n)]
<1>1. \A i \in 1..Len(url) + 1 : path[i] = At("TAG_A_OTHER", l, k, n)
  OBVIOUS
<1> HIDE DEF path
<1>2. /\ Len(url) \in Nat
      /\ \A i \in 1..Len(url) : i \in 1..Len(url) + 1 /\ i + 1 \in 1..Len(url) + 1
      /\ 1 \in 1..Len(url) + 1 /\ Len(url) + 1 \in 1..Len(url) + 1
  OBVIOUS
<1>3. ASSUME NEW i \in 1..Len(url) PROVE path[i + 1] = After(path[i], url[i])
  <2>1. url[i] \in Addressed
    OBVIOUS
  <2>2. url[i] \notin {"space", ">"}
    BY <2>1 DEF Addressed
  <2>3. After(At("TAG_A_OTHER", l, k, n), url[i]) = At("TAG_A_OTHER", l, k, n)
    BY <2>2, QuietAttributes DEF Quiet
  <2> QED
    BY <1>1, <1>2, <2>3
<1> QED
  BY <1>1, <1>2, <1>3 DEF Reads

LEMMA QuotedParts ==
    ASSUME NEW url \in Seq(Addressed)
    PROVE  /\ url \in Seq(Alphabet) /\ <<"quote">> \in Seq(Alphabet)
           /\ <<"quote", ">">> \in Seq(Alphabet)
           /\ url \o <<"quote", ">">> \in Seq(Alphabet)
           /\ Quoted(url) \in Seq(Alphabet)
           /\ Quoted(url) = <<"quote">> \o (url \o <<"quote", ">">>)
<1>1. Addressed \subseteq Alphabet
  BY DEF Addressed
<1>2. url \in Seq(Alphabet)
  BY <1>1
<1>3. <<"quote">> \in Seq(Alphabet) /\ <<"quote", ">">> \in Seq(Alphabet)
  BY DEF Alphabet
<1>4. \A s, t \in Seq(Alphabet) : s \o t \in Seq(Alphabet)
  OBVIOUS
<1>5. \A s, t, u \in Seq(Alphabet) : (s \o t) \o u = s \o (t \o u)
  OBVIOUS
<1>6. <<"quote">> \o url \in Seq(Alphabet) /\ url \o <<"quote", ">">> \in Seq(Alphabet)
  BY <1>2, <1>3, <1>4
<1>7. (<<"quote">> \o url) \o <<"quote", ">">> = <<"quote">> \o (url \o <<"quote", ">">>)
  BY <1>2, <1>3, <1>5
<1> QED
  BY <1>2, <1>3, <1>4, <1>6, <1>7 DEF Quoted

LEMMA QuotedRead ==
    ASSUME NEW url \in Seq(Addressed), NEW l, NEW k, NEW n
    PROVE  Reads(At("TAG_A_HREF_EQ", l, k, n), Quoted(url), At("TAG_A_END", Cut(url), k, n))
<1>1. After(At("TAG_A_HREF_EQ_READ", Cut(url), k, n), "quote") = At("TAG_A", Cut(url), k, n)
  BY QuietHref DEF Quiet
<1>2. After(At("TAG_A", Cut(url), k, n), ">") = At("TAG_A_END", Cut(url), k, n)
  BY QuietAttributes DEF Quiet
<1>3. Reads(At("TAG_A", Cut(url), k, n), <<">">>, At("TAG_A_END", Cut(url), k, n))
  BY <1>2, ReadsOne
<1>4. Reads(At("TAG_A_HREF_EQ_READ", Cut(url), k, n), <<"quote", ">">>,
            At("TAG_A_END", Cut(url), k, n))
  BY <1>1, <1>3, Word2
<1>5. Reads(At("TAG_A_HREF_EQ_READ", <<>>, k, n), url \o <<"quote", ">">>,
            At("TAG_A_END", Cut(url), k, n))
  BY <1>4, UrlRead, QuotedParts, ReadsBoth
<1>6. Reads(At("TAG_A_HREF_EQ", l, k, n), <<"quote">>,
            At("TAG_A_HREF_EQ_READ", <<>>, k, n))
  BY LinkSteps, ReadsOne
<1> QED
  BY <1>5, <1>6, QuotedParts, ReadsBoth

LEMMA QuotedPassed ==
    ASSUME NEW url \in Seq(Addressed), NEW l, NEW k, NEW n
    PROVE  Reads(At("TAG_A_OTHER", l, k, n), Quoted(url), At("TAG_A_END", l, k, n))
<1>1. /\ After(At("TAG_A_OTHER", l, k, n), "quote") = At("TAG_A_OTHER", l, k, n)
      /\ After(At("TAG_A_OTHER", l, k, n), ">") = At("TAG_A_END", l, k, n)
  BY QuietAttributes DEF Quiet
<1>2. Reads(At("TAG_A_OTHER", l, k, n), <<">">>, At("TAG_A_END", l, k, n))
  BY <1>1, ReadsOne
<1>3. Reads(At("TAG_A_OTHER", l, k, n), <<"quote", ">">>, At("TAG_A_END", l, k, n))
  BY <1>1, <1>2, Word2
<1>4. Reads(At("TAG_A_OTHER", l, k, n), url \o <<"quote", ">">>, At("TAG_A_END", l, k, n))
  BY <1>3, UrlPassed, QuotedParts, ReadsBoth
<1>5. Reads(At("TAG_A_OTHER", l, k, n), <<"quote">>, At("TAG_A_OTHER", l, k, n))
  BY <1>1, ReadsOne
<1> QED
  BY <1>4, <1>5, QuotedParts, ReadsBoth

-----------------------------------------------------------------------------
(* Sequences.                                                              *)

LEMMA ConcatIs ==
    ASSUME NEW X, NEW s \in Seq(X), NEW t \in Seq(X)
    PROVE  /\ s \o t \in Seq(X) /\ Len(s \o t) = Len(s) + Len(t) /\ Len(s) \in Nat
           /\ \A i \in 1..Len(s) : (s \o t)[i] = s[i]
           /\ \A i \in 1..Len(t) : (s \o t)[Len(s) + i] = t[i]
           /\ \A i \in Len(s) + 1..Len(s) + Len(t) : (s \o t)[i] = t[i - Len(s)]
<1> DEFINE w == s \o t
<1>1. w \in Seq(X) /\ Len(w) = Len(s) + Len(t) /\ Len(s) \in Nat /\ Len(t) \in Nat
  OBVIOUS
<1>2. \A i \in 1..Len(s) : w[i] = s[i]
  OBVIOUS
<1>3. \A i \in Len(s) + 1..Len(s) + Len(t) : w[i] = t[i - Len(s)]
  OBVIOUS
<1> HIDE DEF w
<1>4. \A i \in 1..Len(t) : w[Len(s) + i] = t[i]
  <2> TAKE i \in 1..Len(t)
  <2>1. Len(s) + i \in Len(s) + 1..Len(s) + Len(t) /\ Len(s) + i - Len(s) = i
    BY <1>1
  <2>2. w[Len(s) + i] = t[Len(s) + i - Len(s)]
    BY <1>3, <2>1
  <2> QED
    BY <2>1, <2>2
<1> QED
  BY <1>1, <1>2, <1>3, <1>4 DEF w

\* The beginning of a sequence, as a tuple.
LEMMA FirstTwo ==
    ASSUME NEW X, NEW s \in Seq(X), Len(s) >= 2
    PROVE  SubSeq(s, 1, 2) = <<s[1], s[2]>>
<1> DEFINE l == SubSeq(s, 1, 2)
           r == <<s[1], s[2]>>
<1>1. l \in Seq(X) /\ Len(l) = 2 /\ l[1] = s[1] /\ l[2] = s[2]
  OBVIOUS
<1>2. r \in Seq(X) /\ Len(r) = 2 /\ r[1] = s[1] /\ r[2] = s[2]
  OBVIOUS
<1> HIDE DEF l, r
<1>3. \A i \in 1..2 : i = 1 \/ i = 2
  OBVIOUS
<1>4. l = r
  BY <1>1, <1>2, <1>3
<1> QED
  BY <1>4 DEF l, r

LEMMA FirstThree ==
    ASSUME NEW X, NEW s \in Seq(X), Len(s) >= 3
    PROVE  SubSeq(s, 1, 3) = <<s[1], s[2], s[3]>>
<1> DEFINE l == SubSeq(s, 1, 3)
           r == <<s[1], s[2], s[3]>>
<1>1. l \in Seq(X) /\ Len(l) = 3 /\ l[1] = s[1] /\ l[2] = s[2] /\ l[3] = s[3]
  OBVIOUS
<1>2. r \in Seq(X) /\ Len(r) = 3 /\ r[1] = s[1] /\ r[2] = s[2] /\ r[3] = s[3]
  OBVIOUS
<1> HIDE DEF l, r
<1>3. \A i \in 1..3 : i = 1 \/ i = 2 \/ i = 3
  OBVIOUS
<1>4. l = r
  BY <1>1, <1>2, <1>3
<1> QED
  BY <1>4 DEF l, r

LEMMA FirstFour ==
    ASSUME NEW X, NEW s \in Seq(X), Len(s) > 3
    PROVE  SubSeq(s, 1, 4) = <<s[1], s[2], s[3], s[4]>>
<1> DEFINE l == SubSeq(s, 1, 4)
           r == <<s[1], s[2], s[3], s[4]>>
<1>1. /\ l \in Seq(X) /\ Len(l) = 4
      /\ l[1] = s[1] /\ l[2] = s[2] /\ l[3] = s[3] /\ l[4] = s[4]
  OBVIOUS
<1>2. /\ r \in Seq(X) /\ Len(r) = 4
      /\ r[1] = s[1] /\ r[2] = s[2] /\ r[3] = s[3] /\ r[4] = s[4]
  OBVIOUS
<1> HIDE DEF l, r
<1>3. \A i \in 1..4 : i = 1 \/ i = 2 \/ i = 3 \/ i = 4
  OBVIOUS
<1>4. l = r
  BY <1>1, <1>2, <1>3
<1> QED
  BY <1>4 DEF l, r

-----------------------------------------------------------------------------
(* Other elements.                                                         *)

\* A tag outside links changes nothing but what is left in the link's buffer.
LEMMA TagPassed ==
    ASSUME NEW tag, IsTag(tag), tag[2] = "a" => tag[3] \notin {"space", ">"},
           NEW l, NEW k, NEW n
    PROVE  \E m : Reads(At("START", l, k, n), tag, At("START", m, k, n))
<1> DEFINE N == Len(tag)
           m == IF tag[2] = "a" THEN <<>> ELSE l
           path == [i \in 1..N + 1 |->
                      IF i = 1 THEN At("START", l, k, n)
                      ELSE IF i = 2 THEN At("TAG", l, k, n)
                      ELSE IF i = N + 1 THEN At("START", m, k, n)
                      ELSE IF i = 3 /\ tag[2] = "a" THEN At("ISTAG_A", m, k, n)
                      ELSE At("OTHERTAG", m, k, n)]
<1>1. /\ N \in Nat /\ N >= 3 /\ tag[1] = "<" /\ tag[N] = ">"
      /\ \A i \in 2..N - 1 : tag[i] # ">" /\ tag[i] # "<"
  BY DEF IsTag
<1>2. tag[2] = "a" => N # 3
  BY <1>1
<1> HIDE DEF N
<1>3. \A i \in 1..N + 1 :
        path[i] = IF i = 1 THEN At("START", l, k, n)
                  ELSE IF i = 2 THEN At("TAG", l, k, n)
                  ELSE IF i = N + 1 THEN At("START", m, k, n)
                  ELSE IF i = 3 /\ tag[2] = "a" THEN At("ISTAG_A", m, k, n)
                  ELSE At("OTHERTAG", m, k, n)
  OBVIOUS
<1> HIDE DEF path
<1>4. path[1] = At("START", l, k, n) /\ path[N + 1] = At("START", m, k, n)
  BY <1>1, <1>3
<1>5. ASSUME NEW i \in 1..N PROVE path[i + 1] = After(path[i], tag[i])
  <2>1. CASE i = 1
    <3>1. path[1 + 1] = At("TAG", l, k, n)
      BY <1>1, <1>3
    <3> QED
      BY <1>1, <1>4, <2>1, <3>1, QuietOutside DEF Quiet
  <2>2. CASE i = 2
    <3>1. path[2] = At("TAG", l, k, n) /\ 2 \in 2..N - 1
      BY <1>1, <1>3
    <3>2. CASE tag[2] = "a"
      <4>1. path[2 + 1] = At("ISTAG_A", <<>>, k, n)
        BY <1>1, <1>2, <1>3, <3>2
      <4> QED
        BY <2>2, <3>1, <3>2, <4>1, LinkSteps
    <3>3. CASE tag[2] # "a"
      <4>1. path[2 + 1] = At("OTHERTAG", l, k, n)
        BY <1>1, <1>3, <3>3
      <4>2. tag[2] \notin {">", "a"}
        BY <1>1, <3>1, <3>3
      <4>3. After(At("TAG", l, k, n), tag[2]) = At("OTHERTAG", l, k, n)
        BY <4>2, QuietOutside DEF Quiet
      <4> QED
        BY <2>2, <3>1, <4>1, <4>3
    <3> QED
      BY <3>2, <3>3
  <2>3. CASE i = 3 /\ tag[2] = "a"
    <3>1. path[3] = At("ISTAG_A", m, k, n) /\ path[3 + 1] = At("OTHERTAG", m, k, n)
      BY <1>1, <1>2, <1>3, <2>3
    <3>2. After(At("ISTAG_A", m, k, n), tag[3]) = At("OTHERTAG", m, k, n)
      BY <2>3, QuietOutside DEF Quiet
    <3> QED
      BY <2>3, <3>1, <3>2
  <2>4. CASE i > 2 /\ ~(i = 3 /\ tag[2] = "a") /\ i < N
    <3>1. path[i] = At("OTHERTAG", m, k, n) /\ path[i + 1] = At("OTHERTAG", m, k, n)
      BY <1>1, <1>3, <2>4
    <3>2. tag[i] # ">"
      BY <1>1, <2>4
    <3>3. After(At("OTHERTAG", m, k, n), tag[i]) = At("OTHERTAG", m, k, n)
      BY <3>2, QuietOutside DEF Quiet
    <3> QED
      BY <3>1, <3>3
  <2>5. CASE i = N /\ ~(i = 3 /\ tag[2] = "a")
    <3>1. path[N] = At("OTHERTAG", m, k, n)
      BY <1>1, <1>3, <2>5
    <3>2. After(At("OTHERTAG", m, k, n), ">") = At("START", m, k, n)
      BY QuietOutside DEF Quiet
    <3> QED
      BY <1>1, <1>4, <2>5, <3>1, <3>2
  <2> QED
    BY <1>1, <1>2, <2>1, <2>2, <2>3, <2>4, <2>5
<1>6. Reads(At("START", l, k, n), tag, At("START", m, k, n))
  BY <1>4, <1>5 DEF Reads, N
<1> QED
  BY <1>6

\* The end of a tag in the text of a link, once m characters are there.
LEMMA TagEndRead ==
    ASSUME NEW X, NEW tag \in Seq(X), NEW k \in Seq(X), NEW l, NEW n,
           NEW m \in 1..Len(tag),
           \A i \in m + 1..Len(tag) : tag[i] # "<" /\ (tag[i] = "space" => tag[i - 1] # "space")
    PROVE  Reads(At("TAG_A_END", l, Cut(k \o SubSeq(tag, 1, m)), n),
                 SubSeq(tag, m + 1, Len(tag)),
                 At("TAG_A_END", l, Cut(k \o tag), n))
<1> DEFINE N == Len(tag)
           upto(i) == At("TAG_A_END", l, Cut(k \o SubSeq(tag, 1, i)), n)
           later == SubSeq(tag, m + 1, N)
           path == [i \in 1..N - m + 1 |-> upto(m + i - 1)]
<1>1. N \in Nat /\ m \in Nat /\ m <= N /\ m >= 1
  OBVIOUS
<1>2. Len(later) = N - m /\ \A i \in 1..N - m : later[i] = tag[m + i]
  OBVIOUS
<1> HIDE DEF upto, later, N
<1>3. \A i \in 1..N - m + 1 : path[i] = upto(m + i - 1)
  OBVIOUS
<1> HIDE DEF path
<1>4. path[1] = upto(m)
  <2>1. 1 \in 1..N - m + 1 /\ m + 1 - 1 = m
    BY <1>1
  <2> QED
    BY <1>3, <2>1
<1>5. path[N - m + 1] = upto(N)
  <2>1. N - m + 1 \in 1..N - m + 1 /\ m + (N - m + 1) - 1 = N
    BY <1>1
  <2> QED
    BY <1>3, <2>1
<1>6. ASSUME NEW j \in m + 1..N PROVE After(upto(j - 1), tag[j]) = upto(j)
  <2> DEFINE p == SubSeq(tag, 1, j - 1)
             c == tag[j]
             q == k \o p
  <2>1. j \in 1..N /\ j - 1 \in 1..N /\ j - 1 \in 0..N
    BY <1>1
  <2>2. p \in Seq(X) /\ Len(p) = j - 1 /\ p[j - 1] = tag[j - 1] /\ SubSeq(tag, 1, j) = p \o <<c>>
    BY <2>1, Prefixes DEF N
  <2>3. c \in X /\ c # "<" /\ (c = "space" => tag[j - 1] # "space")
    BY <2>1 DEF N
  <2> HIDE DEF p, c
  <2>4. /\ q \in Seq(X) /\ Len(q) = Len(k) + (j - 1) /\ Len(k) \in Nat
        /\ q[Len(k) + (j - 1)] = p[j - 1]
    <3>0. p \in Seq(X)
      BY <2>2
    <3>1. /\ q \in Seq(X) /\ Len(q) = Len(k) + Len(p) /\ Len(k) \in Nat
          /\ \A i \in 1..Len(p) : q[Len(k) + i] = p[i]
      BY ONLY <3>0, k \in Seq(X), ConcatIs
    <3>2. j - 1 \in 1..Len(p)
      BY <2>1, <2>2
    <3> QED
      BY <2>2, <3>1, <3>2
  <2>5. k \o (p \o <<c>>) = q \o <<c>>
    <3>1. <<c>> \in Seq(X) /\ k \in Seq(X) /\ p \in Seq(X)
      BY <2>2, <2>3
    <3> QED
      BY ONLY <3>1, ConcatAssociative
  <2> HIDE DEF q
  <2>6. c = "space" => q # <<>> /\ q[Len(q)] # "space"
    <3>1. Len(q) > 0
      BY <2>1, <2>4
    <3>2. q # <<>>
      BY <3>1
    <3>3. q[Len(q)] = tag[j - 1]
      BY <2>2, <2>4
    <3> QED
      BY <2>3, <3>2, <3>3
  <2>7. Added(Cut(q), c) = Cut(q \o <<c>>)
    BY <2>3, <2>4, <2>6, AddedIs
  <2>8. upto(j - 1) = At("TAG_A_END", l, Cut(q), n)
    BY DEF upto, p, q
  <2>9. upto(j) = At("TAG_A_END", l, Cut(q \o <<c>>), n)
    BY <2>2, <2>5 DEF upto
  <2>10. After(upto(j - 1), c) = upto(j)
    BY <2>3, <2>7, <2>8, <2>9, CommentSteps
  <2> QED
    BY <2>10 DEF c
<1>7. ASSUME NEW i \in 1..N - m PROVE path[i + 1] = After(path[i], later[i])
  <2> DEFINE j == m + i
  <2>1. /\ j \in m + 1..N /\ i \in 1..N - m + 1 /\ i + 1 \in 1..N - m + 1
        /\ m + i - 1 = j - 1 /\ m + (i + 1) - 1 = j
    BY <1>1
  <2>2. path[i] = upto(j - 1) /\ path[i + 1] = upto(j) /\ later[i] = tag[j]
    BY <1>2, <1>3, <2>1
  <2> HIDE DEF j
  <2> QED
    BY <1>6, <2>1, <2>2
<1>8. Reads(upto(m), later, upto(N))
  BY <1>2, <1>4, <1>5, <1>7 DEF Reads
<1>9. SubSeq(tag, 1, N) = tag
  BY Prefixes DEF N
<1> QED
  BY <1>8, <1>9 DEF upto, later, N

LEMMA SplitAt ==
    ASSUME NEW X, NEW s \in Seq(X), NEW m \in 1..Len(s)
    PROVE  /\ SubSeq(s, 1, m) \in Seq(X) /\ SubSeq(s, m + 1, Len(s)) \in Seq(X)
           /\ s = SubSeq(s, 1, m) \o SubSeq(s, m + 1, Len(s))
<1> DEFINE l == SubSeq(s, 1, m)
           r == SubSeq(s, m + 1, Len(s))
           w == l \o r
<1>1. /\ l \in Seq(X) /\ Len(l) = m /\ \A i \in 1..m : l[i] = s[i]
  OBVIOUS
<1>2. /\ r \in Seq(X) /\ Len(r) = Len(s) - m /\ \A i \in 1..Len(s) - m : r[i] = s[m + i]
  OBVIOUS
<1> HIDE DEF l, r
<1>3. /\ w \in Seq(X) /\ Len(w) = Len(s)
      /\ \A i \in 1..m : w[i] = l[i]
      /\ \A i \in m + 1..Len(s) : w[i] = r[i - m]
  <2>0. l \in Seq(X) /\ r \in Seq(X)
    BY <1>1, <1>2
  <2>1. /\ w \in Seq(X) /\ Len(w) = Len(l) + Len(r)
        /\ \A i \in 1..Len(l) : w[i] = l[i]
        /\ \A i \in Len(l) + 1..Len(l) + Len(r) : w[i] = r[i - Len(l)]
    BY ONLY <2>0, ConcatIs
  <2>2. m \in Nat /\ Len(s) \in Nat /\ Len(l) + Len(r) = Len(s) /\ Len(l) = m
    BY <1>1, <1>2
  <2> QED
    BY <2>1, <2>2
<1> HIDE DEF w
<1>4. \A i \in 1..Len(s) : w[i] = s[i]
  <2> TAKE i \in 1..Len(s)
  <2>1. CASE i <= m
    BY <1>1, <1>3, <2>1
  <2>2. CASE i > m
    <3>1. i \in m + 1..Len(s) /\ i - m \in 1..Len(s) - m /\ m + (i - m) = i
      BY <2>2
    <3> QED
      BY <1>2, <1>3, <3>1
  <2> QED
    BY <2>1, <2>2
<1>5. w = s
  BY <1>3, <1>4
<1> QED
  BY <1>1, <1>2, <1>5 DEF w, l, r

\* Text: what the buffer of the comment holds of it.
Short(k) == k \in Seq(Alphabet) /\ Len(k) < Cap

\* A tag in the text of a link is text.
LEMMA TagInText ==
    ASSUME NEW tag \in Tags, NEW k, Short(k), NEW l, NEW n
    PROVE  Reads(At("TAG_A_END", l, k, n), tag, At("TAG_A_END", l, Cut(k \o tag), n))
<1> DEFINE N == Len(tag)
           first(m) == SubSeq(tag, 1, m)
           after(m) == SubSeq(tag, m + 1, N)
           End == At("TAG_A_END", l, Cut(k \o tag), n)
           Kept(m) == At("TAG_A_END", l, Cut(k \o first(m)), n)
<1>1. /\ tag \in Seq(Alphabet) /\ N \in Nat /\ N >= 3 /\ tag[1] = "<" /\ tag[N] = ">"
      /\ \A i \in 2..N - 1 : tag[i] \notin {"<", ">"}
  <2>1. IsTag(tag)
    BY PageAssumption
  <2> QED
    BY <2>1 DEF IsTag
<1>2. /\ tag[2] \notin {"a", "space"}
      /\ tag[2] = "/" /\ tag[3] = "a" => tag[4] \notin {"space", ">"}
  BY PageAssumption
<1>3. \A i \in 1..N - 1 : tag[i] # "space" \/ tag[i + 1] # "space"
  BY PageAssumption
<1>4. k \in Seq(Alphabet) /\ Cut(k) = k
  BY CutShort DEF Short
<1>5. ASSUME NEW i \in 3..N PROVE tag[i] # "<" /\ (tag[i] = "space" => tag[i - 1] # "space")
  <2>1. i - 1 \in 1..N - 1 /\ i - 1 + 1 = i
    BY <1>1
  <2>2. tag[i - 1] # "space" \/ tag[i] # "space"
    BY <1>3, <2>1
  <2>3. CASE i = N
    BY <1>1, <2>2, <2>3
  <2>4. CASE i # N
    <3>1. i \in 2..N - 1
      BY <1>1, <2>4
    <3> QED
      BY <1>1, <2>2, <3>1
  <2> QED
    BY <2>3, <2>4
<1>6. \A m \in 2..N : Reads(At("TAG_A_END", l, k, n), first(m), Kept(m)) =>
                        Reads(At("TAG_A_END", l, k, n), tag, End)
  <2> TAKE m \in 2..N
  <2> HAVE Reads(At("TAG_A_END", l, k, n), first(m), Kept(m))
  <2>1. m \in 1..N /\ \A i \in m + 1..N : i \in 3..N
    BY <1>1
  <2>2. Reads(Kept(m), after(m), End)
    <3>1. \A i \in m + 1..Len(tag) : tag[i] # "<" /\ (tag[i] = "space" => tag[i - 1] # "space")
      BY <1>5, <2>1
    <3> QED
      BY <1>1, <1>4, <2>1, <3>1, TagEndRead
  <2>3. first(m) \in Seq(Alphabet) /\ after(m) \in Seq(Alphabet) /\ tag = first(m) \o after(m)
    BY <1>1, <2>1, SplitAt
  <2> HIDE DEF first, after, Kept, End
  <2> QED
    BY <2>2, <2>3, ReadsBoth
<1>7. After(At("TAG_A_END", l, k, n), "<") = At("TAG_A_END_IS_SLASH", l, k, n)
  BY QuietText DEF Quiet
<1>8. \A t \in Seq(Alphabet) : Put(k, t) = Cut(k \o t)
  BY PutIsCut
<1>9. \A i \in 1..N : tag[i] \in Alphabet
  BY <1>1
<1>10. CASE tag[2] # "/"
  <2> DEFINE c == tag[2]
  <2>1. c \notin {"space", "/", "a"} /\ c \in Alphabet
    BY <1>1, <1>2, <1>9, <1>10
  <2>2. first(2) = <<"<", c>>
    BY <1>1, FirstTwo
  <2> HIDE DEF c
  <2>3. <<"<", c>> \in Seq(Alphabet)
    BY <2>1 DEF Alphabet
  <2>4. Put(k, <<"<", c>>) = Cut(k \o <<"<", c>>)
    BY <1>8, <2>3
  <2>5. After(At("TAG_A_END_IS_SLASH", l, k, n), c) = At("TAG_A_END", l, Put(k, <<"<", c>>), n)
    BY <2>1, CommentSteps
  <2>6. Reads(At("TAG_A_END_IS_SLASH", l, k, n), <<c>>,
              At("TAG_A_END", l, Put(k, <<"<", c>>), n))
    BY <2>5, ReadsOne
  <2>7. Reads(At("TAG_A_END", l, k, n), <<"<", c>>, At("TAG_A_END", l, Put(k, <<"<", c>>), n))
    BY <1>7, <2>6, Word2
  <2> DEFINE m == 2
  <2>8. first(m) = <<"<", c>> /\ m \in 2..N
    BY <1>1, <2>2, <2>4
  <2> HIDE DEF first, m, End
  <2>20. Kept(m) = At("TAG_A_END", l, Put(k, <<"<", c>>), n)
    BY <2>2, <2>4, <2>8
  <2> HIDE DEF Kept
  <2>21. Reads(At("TAG_A_END", l, k, n), first(m), Kept(m))
    BY <2>7, <2>8, <2>20
  <2>22. m \in 2..N
    BY <2>8
  <2> HIDE DEF m, N
  <2> QED
    BY ONLY <1>6, <2>21, <2>22 DEF End
<1>11. CASE tag[2] = "/" /\ tag[3] # "a"
  <2> DEFINE c == tag[3]
  <2>1. c # "a" /\ c \in Alphabet
    BY <1>1, <1>9, <1>11
  <2>2. first(3) = <<"<", "/", c>>
    BY <1>1, <1>11, FirstThree
  <2> HIDE DEF c
  <2>3. <<"<", "/", c>> \in Seq(Alphabet)
    BY <2>1 DEF Alphabet
  <2>4. Put(k, <<"<", "/", c>>) = Cut(k \o <<"<", "/", c>>)
    BY <1>8, <2>3
  <2> DEFINE z == At("TAG_A_END", l, Put(k, <<"<", "/", c>>), n)
  <2>5. After(At("TAG_A_END_IS_SLASH_A", l, k, n), c) = z
    BY <2>1, CommentSteps
  <2>6. Reads(At("TAG_A_END_IS_SLASH_A", l, k, n), <<c>>, z)
    BY <2>5, ReadsOne
  <2>7. After(At("TAG_A_END_IS_SLASH", l, k, n), "/") = At("TAG_A_END_IS_SLASH_A", l, k, n)
    BY QuietText DEF Quiet
  <2>8. Reads(At("TAG_A_END_IS_SLASH", l, k, n), <<"/", c>>, z)
    BY <2>6, <2>7, Word2
  <2>9. Reads(At("TAG_A_END", l, k, n), <<"<", "/", c>>, z)
    BY <1>7, <2>8, Word3
  <2> DEFINE m == 3
  <2>10. first(m) = <<"<", "/", c>> /\ m \in 2..N
    BY <1>1, <2>2, <2>4
  <2> HIDE DEF first, m, End
  <2>20. Kept(m) = At("TAG_A_END", l, Put(k, <<"<", "/", c>>), n)
    BY <2>2, <2>4, <2>10
  <2> HIDE DEF Kept
  <2>21. Reads(At("TAG_A_END", l, k, n), first(m), Kept(m))
    BY <2>9, <2>10, <2>20
  <2>22. m \in 2..N
    BY <2>10
  <2> HIDE DEF m, N
  <2> QED
    BY ONLY <1>6, <2>21, <2>22 DEF End
<1>12. CASE tag[2] = "/" /\ tag[3] = "a"
  <2> DEFINE c == tag[4]
  <2>1. N > 3
    <3>1. N # 3
      BY <1>1, <1>12
    <3>2. N \in Nat /\ N >= 3
      BY <1>1
    <3> HIDE DEF N
    <3> QED
      BY ONLY <3>1, <3>2
  <2>2. c \notin {"space", ">"} /\ c \in Alphabet
    BY <1>1, <1>2, <1>9, <1>12, <2>1
  <2>3. first(4) = <<"<", "/", "a", c>>
    BY <1>1, <1>12, <2>1, FirstFour
  <2> HIDE DEF c
  <2>4. <<"<", "/", "a", c>> \in Seq(Alphabet)
    BY <2>2 DEF Alphabet
  <2>5. Put(k, <<"<", "/", "a", c>>) = Cut(k \o <<"<", "/", "a", c>>)
    BY <1>8, <2>4
  <2> DEFINE z == At("TAG_A_END", l, Put(k, <<"<", "/", "a", c>>), n)
  <2>6. After(At("TAG_A_END_IS_SLASH_A_OTHER", l, k, n), c) = z
    BY <2>2, CommentSteps
  <2>7. Reads(At("TAG_A_END_IS_SLASH_A_OTHER", l, k, n), <<c>>, z)
    BY <2>6, ReadsOne
  <2>8. /\ After(At("TAG_A_END_IS_SLASH", l, k, n), "/") = At("TAG_A_END_IS_SLASH_A", l, k, n)
        /\ After(At("TAG_A_END_IS_SLASH_A", l, k, n), "a") =
             At("TAG_A_END_IS_SLASH_A_OTHER", l, k, n)
    BY QuietText DEF Quiet
  <2>9. Reads(At("TAG_A_END_IS_SLASH_A", l, k, n), <<"a", c>>, z)
    BY <2>7, <2>8, Word2
  <2>10. Reads(At("TAG_A_END_IS_SLASH", l, k, n), <<"/", "a", c>>, z)
    BY <2>8, <2>9, Word3
  <2>11. Reads(At("TAG_A_END", l, k, n), <<"<", "/", "a", c>>, z)
    BY <1>7, <2>10, Word4
  <2> DEFINE m == 4
  <2>12. first(m) = <<"<", "/", "a", c>> /\ m \in 2..N
    BY <1>1, <2>3, <2>5, <2>1
  <2> HIDE DEF first, m, End
  <2>20. Kept(m) = At("TAG_A_END", l, Put(k, <<"<", "/", "a", c>>), n)
    BY <2>3, <2>5, <2>12
  <2> HIDE DEF Kept
  <2>21. Reads(At("TAG_A_END", l, k, n), first(m), Kept(m))
    BY <2>11, <2>12, <2>20
  <2>22. m \in 2..N
    BY <2>12
  <2> HIDE DEF m, N
  <2> QED
    BY ONLY <1>6, <2>21, <2>22 DEF End
<1> QED
  BY <1>10, <1>11, <1>12

-----------------------------------------------------------------------------
(* Links.                                                                  *)

\* The words of the tags of links, in the parts the parser takes them in.
LEMMA Spelled ==
    /\ <<"<", "a", "space", "h", "r", "e", "f", "=">> =
         <<"<", "a", "space">> \o <<"h", "r", "e", "f", "=">>
    /\ <<"<", "a", "space", "h", "r", "e", "f", "space", "=", "space">> =
         <<"<", "a", "space">> \o (<<"h", "r", "e", "f">> \o <<"space", "=", "space">>)
    /\ <<"<", "a", "space", "x", "=", "x", "space", "h", "r", "e", "f", "=">> =
         <<"<", "a", "space">> \o (<<"x", "=", "x", "space">> \o <<"h", "r", "e", "f", "=">>)
    /\ <<"<", "a", "space", "h", "r", "x", "=", "space", "h", "r", "e", "f", "=">> =
         <<"<", "a", "space">> \o
           (<<"h", "r", "x", "=", "space">> \o <<"h", "r", "e", "f", "=">>)
    /\ <<"<", "a", "space", "x", ">">> = <<"<", "a", "space">> \o <<"x", ">">>
    /\ <<"<", "a", "space", "space", "h", "r", "e", "f", "=">> =
         <<"<", "a", "space">> \o (<<"space", "h", "r">> \o <<"e", "f", "=">>)
OBVIOUS

LEMMA WordsAreText ==
    /\ <<"<", "a", "space">> \in Seq(Alphabet)
    /\ <<"h", "r", "e", "f", "=">> \in Seq(Alphabet)
    /\ <<"h", "r", "e", "f">> \in Seq(Alphabet)
    /\ <<"space", "=", "space">> \in Seq(Alphabet)
    /\ <<"x", "=", "x", "space">> \in Seq(Alphabet)
    /\ <<"h", "r", "x", "=", "space">> \in Seq(Alphabet)
    /\ <<"x", ">">> \in Seq(Alphabet)
    /\ <<"space", "h", "r">> \in Seq(Alphabet)
    /\ <<"e", "f", "=">> \in Seq(Alphabet)
    /\ \A s, t \in Seq(Alphabet) : s \o t \in Seq(Alphabet)
<1>1. /\ <<"<", "a", "space">> \in Seq(Alphabet)
      /\ <<"h", "r", "e", "f", "=">> \in Seq(Alphabet)
      /\ <<"h", "r", "e", "f">> \in Seq(Alphabet)
  BY DEF Alphabet
<1>2. /\ <<"space", "=", "space">> \in Seq(Alphabet)
      /\ <<"x", "=", "x", "space">> \in Seq(Alphabet)
      /\ <<"h", "r", "x", "=", "space">> \in Seq(Alphabet)
  BY DEF Alphabet
<1>3. /\ <<"x", ">">> \in Seq(Alphabet)
      /\ <<"space", "h", "r">> \in Seq(Alphabet)
      /\ <<"e", "f", "=">> \in Seq(Alphabet)
  BY DEF Alphabet
<1>4. \A s, t \in Seq(Alphabet) : s \o t \in Seq(Alphabet)
  OBVIOUS
<1> QED
  BY <1>1, <1>2, <1>3, <1>4

\* The tag of a link, however it is written, leaves its address in the buffer.
LEMMA AnchorRead ==
    ASSUME NEW url \in Seq(Addressed), NEW chars \in Anchors(url),
           NEW a, NEW l, NEW k, NEW n,
           Reads(a, <<"<", "a", "space">>, At("TAG_A", l, k, n))
    PROVE  Reads(a, chars, At("TAG_A_END", Cut(url), k, n))
<1> DEFINE t == <<"<", "a", "space">>
           q == Quoted(url)
           InTag == At("TAG_A", l, k, n)
           Equals == At("TAG_A_HREF_EQ", l, k, n)
           End == At("TAG_A_END", Cut(url), k, n)
<1>1. q \in Seq(Alphabet) /\ Reads(Equals, q, End)
  BY QuotedParts, QuotedRead
<1>2. t \in Seq(Alphabet) /\ Reads(a, t, InTag)
  BY WordsAreText
<1>3. ASSUME NEW w \in Seq(Alphabet), Reads(InTag, w, Equals)
      PROVE  Reads(a, (t \o w) \o q, End)
  <2> HIDE DEF t, q, InTag, Equals, End
  <2>1. Reads(a, t \o w, Equals) /\ t \o w \in Seq(Alphabet)
    BY <1>2, <1>3, ReadsBoth, WordsAreText
  <2> QED
    BY <1>1, <2>1, ReadsBoth
<1>4. Reads(InTag, <<"h", "r", "e", "f", "=">>, Equals)
  BY HrefRead
<1>5. Reads(InTag, <<"h", "r", "e", "f">> \o <<"space", "=", "space">>, Equals)
  BY HrefRead, ReadsBoth, WordsAreText
<1>6. Reads(InTag, <<"x", "=", "x", "space">> \o <<"h", "r", "e", "f", "=">>, Equals)
  <2>1. Reads(InTag, <<"x", "=", "x", "space">>, InTag)
    BY OthersRead
  <2> QED
    BY <1>4, <2>1, ReadsBoth, WordsAreText
<1>7. Reads(InTag, <<"h", "r", "x", "=", "space">> \o <<"h", "r", "e", "f", "=">>, Equals)
  <2>1. Reads(InTag, <<"h", "r", "x", "=", "space">>, InTag)
    BY OthersRead
  <2> QED
    BY <1>4, <2>1, ReadsBoth, WordsAreText
<1> DEFINE Way(w) == Reads(a, (t \o w) \o q, End)
<1>8. /\ Way(<<"h", "r", "e", "f", "=">>)
      /\ Way(<<"h", "r", "e", "f">> \o <<"space", "=", "space">>)
      /\ Way(<<"x", "=", "x", "space">> \o <<"h", "r", "e", "f", "=">>)
      /\ Way(<<"h", "r", "x", "=", "space">> \o <<"h", "r", "e", "f", "=">>)
  BY <1>3, <1>4, <1>5, <1>6, <1>7, WordsAreText
<1>9. chars \in { (t \o <<"h", "r", "e", "f", "=">>) \o q,
                  (t \o (<<"h", "r", "e", "f">> \o <<"space", "=", "space">>)) \o q,
                  (t \o (<<"x", "=", "x", "space">> \o <<"h", "r", "e", "f", "=">>)) \o q,
                  (t \o (<<"h", "r", "x", "=", "space">> \o <<"h", "r", "e", "f", "=">>)) \o q }
  BY Spelled DEF Anchors
<1> QED
  BY <1>8, <1>9

\* One without an address the parser finds leaves the buffer as it is.
LEMMA BareAnchorRead ==
    ASSUME NEW url \in Seq(Addressed), NEW chars \in BareAnchors(url),
           NEW a, NEW l, NEW k, NEW n,
           Reads(a, <<"<", "a", "space">>, At("TAG_A", l, k, n))
    PROVE  Reads(a, chars, At("TAG_A_END", l, k, n))
<1> DEFINE t == <<"<", "a", "space">>
           q == Quoted(url)
           InTag == At("TAG_A", l, k, n)
           Other == At("TAG_A_OTHER", l, k, n)
           End == At("TAG_A_END", l, k, n)
           passed == <<"space", "h", "r">> \o <<"e", "f", "=">>
<1>1. q \in Seq(Alphabet) /\ Reads(Other, q, End)
  BY QuotedParts, QuotedPassed
<1>2. t \in Seq(Alphabet) /\ Reads(a, t, InTag)
  BY WordsAreText
<1>3. Reads(a, t \o <<"x", ">">>, End)
  BY <1>2, OthersRead, ReadsBoth, WordsAreText
<1>4. Reads(InTag, passed, Other) /\ passed \in Seq(Alphabet)
  <2>1. Reads(InTag, <<"space", "h", "r">>, Other) /\ Reads(Other, <<"e", "f", "=">>, Other)
    BY OthersRead
  <2> QED
    BY <2>1, ReadsBoth, WordsAreText
<1>5. Reads(a, (t \o passed) \o q, End)
  <2> HIDE DEF t, q, InTag, Other, End, passed
  <2>1. Reads(a, t \o passed, Other) /\ t \o passed \in Seq(Alphabet)
    BY <1>2, <1>4, ReadsBoth, WordsAreText
  <2> QED
    BY <1>1, <2>1, ReadsBoth
<1>6. chars \in { t \o <<"x", ">">>, (t \o passed) \o q }
  BY Spelled DEF BareAnchors
<1> QED
  BY <1>3, <1>5, <1>6

-----------------------------------------------------------------------------
(* The page and its parser.                                                *)

\* Where the parser should be at the end of an element, with the link an of the
\* text t open, and the reports d made.
Final(b, an, t, d) ==
    IF an = None THEN \E l : b = At("START", l, <<>>, d)
                 ELSE b = At("TAG_A_END", Cut(an), t, d)

\* What is left of the element will take it there.
PInv ==
    /\ IInv
    /\ Short(text)
    /\ anchor = None \/ anchor \in Seq(Alphabet)
    /\ \E b : Reads(Now, rest, b) /\ Final(b, anchor, text, due)

LEMMA Ended ==
    ASSUME PInv, rest = <<>>
    PROVE  Final(Now, anchor, text, due)
BY ReadsNothing DEF PInv

LEMMA Outside ==
    ASSUME PInv, rest = <<>>, anchor = None
    PROVE  st = "START" /\ comment = <<>> /\ seen = due
<1>1. PICK l : At(st, link, comment, seen) = At("START", l, <<>>, due)
  BY Ended DEF Final, Now
<1> QED
  BY <1>1, AtFields

LEMMA Inside ==
    ASSUME PInv, rest = <<>>, anchor # None
    PROVE  st = "TAG_A_END" /\ link = Cut(anchor) /\ comment = text /\ seen = due
<1>1. At(st, link, comment, seen) = At("TAG_A_END", Cut(anchor), text, due)
  BY Ended DEF Final, Now
<1> QED
  BY <1>1, AtFields

LEMMA Begun ==
    ASSUME PInv, NEW chars, NEW reports, Begin(chars, reports)
    PROVE  /\ rest' = chars /\ due' = reports
           /\ anchor = None => Now' = At("START", link, <<>>, <<>>)
           /\ anchor # None => Now' = At("TAG_A_END", Cut(anchor), text, <<>>)
<1>1. /\ rest = <<>> /\ rest' = chars /\ due' = reports /\ seen' = <<>>
      /\ st' = st /\ link' = link /\ comment' = comment
  BY DEF Begin, parser
<1>2. Now' = At(st, link, comment, <<>>)
  BY <1>1 DEF Now
<1>3. anchor = None => st = "START" /\ comment = <<>>
  BY <1>1, Outside
<1>4. anchor # None => st = "TAG_A_END" /\ link = Cut(anchor) /\ comment = text
  BY <1>1, Inside
<1> QED
  BY <1>1, <1>2, <1>3, <1>4

\* A character of text.
LEMMA CharRead ==
    ASSUME NEW c \in Chars, NEW k, NEW l, NEW n
    PROVE  /\ Reads(At("START", l, k, n), <<c>>, At("START", l, k, n))
           /\ Reads(At("TAG_A_END", l, k, n), <<c>>,
                    At("TAG_A_END", l, AsComment(k, <<c>>), n))
<1>1. c # "<"
  BY PageAssumption
<1>2. After(At("START", l, k, n), c) = At("START", l, k, n)
  BY <1>1, QuietOutside DEF Quiet
<1>3. After(At("TAG_A_END", l, k, n), c) = At("TAG_A_END", l, Added(k, c), n)
  BY <1>1, CommentSteps
<1>4. AsComment(k, <<c>>) = Added(k, c)
  <2>1. <<c>> = <<"space">> <=> c = "space"
    OBVIOUS
  <2>2. Put(k, <<c>>) = Cut(k \o <<c>>)
    BY PutIsCut
  <2> QED
    BY <2>1, <2>2 DEF AsComment, Added
<1> QED
  BY <1>2, <1>3, <1>4, ReadsOne

\* Text stays in its buffer.
LEMMA CutIsShort ==
    ASSUME NEW s \in Seq(Alphabet)
    PROVE  Short(Cut(s))
<1>1. Cut(s) \in Seq(Alphabet) /\ Len(Cut(s)) = IF Len(s) < Cap THEN Len(s) ELSE Cap - 1
  BY CutIs
<1>2. Cap \in Nat /\ Len(s) \in Nat
  BY CapAssumption
<1> DEFINE m == Len(Cut(s))
<1> HIDE DEF m
<1>3. m < Cap
  BY <1>1, <1>2 DEF m
<1> QED
  BY <1>1, <1>3 DEF Short, m

LEMMA NoText == Short(<<>>)
<1>1. <<>> \in Seq(Alphabet) /\ Len(<<>>) = 0 /\ 0 < Cap
  BY CapAssumption
<1> QED
  BY <1>1 DEF Short

LEMMA CommentIsShort ==
    ASSUME NEW k, Short(k), NEW chars \in Seq(Alphabet)
    PROVE  Short(AsComment(k, chars))
<1>1. k \o chars \in Seq(Alphabet)
  BY DEF Short
<1> QED
  BY <1>1, CutIsShort DEF AsComment

\* An element whose characters take the parser where it should be.
LEMMA Follows ==
    ASSUME PInv, NEW chars, NEW reports, Begin(chars, reports), IInv',
           Short(text)', anchor' = None \/ anchor' \in Seq(Alphabet),
           NEW b, Reads(Now', chars, b), Final(b, anchor', text', reports)
    PROVE  PInv'
<1>1. rest' = chars /\ due' = reports
  BY Begun
<1>2. (\E z : Reads(Now, rest, z) /\ Final(z, anchor, text, due))'
  BY <1>1
<1> QED
  BY <1>2 DEF PInv

LEMMA PlainFollows ==
    ASSUME PInv, IInv', NEW chars \in Seq(Alphabet), WritePlain(chars),
           \A l, n : anchor = None =>
             \E m : Reads(At("START", l, <<>>, n), chars, At("START", m, <<>>, n)),
           \A l, n : anchor # None =>
             Reads(At("TAG_A_END", l, text, n), chars,
                   At("TAG_A_END", l, AsComment(text, chars), n))
    PROVE  PInv'
<1>1. /\ Begin(chars, <<>>) /\ anchor' = anchor
      /\ text' = IF anchor = None THEN text ELSE AsComment(text, chars)
  BY DEF WritePlain
<1>2. anchor' = None \/ anchor' \in Seq(Alphabet)
  BY <1>1 DEF PInv
<1>3. Short(text)'
  <2>1. Short(text)
    BY DEF PInv
  <2>2. Short(text')
    BY <1>1, <2>1, CommentIsShort
  <2> QED
    BY <2>2 DEF Short
<1>4. CASE anchor = None
  <2>1. PICK m : Reads(At("START", link, <<>>, <<>>), chars, At("START", m, <<>>, <<>>))
    BY <1>4
  <2> DEFINE b == At("START", m, <<>>, <<>>)
  <2>2. Reads(Now', chars, b)
    BY <1>1, <1>4, <2>1, Begun
  <2>3. Final(b, anchor', text', <<>>)
    BY <1>1, <1>4 DEF Final
  <2> QED
    BY <1>1, <1>2, <1>3, <2>2, <2>3, Follows
<1>5. CASE anchor # None
  <2> DEFINE b == At("TAG_A_END", Cut(anchor), AsComment(text, chars), <<>>)
  <2>1. Reads(At("TAG_A_END", Cut(anchor), text, <<>>), chars, b)
    BY <1>5
  <2>2. Reads(Now', chars, b)
    BY <1>1, <1>5, <2>1, Begun
  <2>3. Final(b, anchor', text', <<>>)
    BY <1>1, <1>5 DEF Final
  <2> QED
    BY <1>1, <1>2, <1>3, <2>2, <2>3, Follows
<1> QED
  BY <1>4, <1>5

LEMMA CharFollows ==
    ASSUME PInv, IInv', NEW c \in Chars, WritePlain(<<c>>)
    PROVE  PInv'
<1>1. <<c>> \in Seq(Alphabet)
  BY ElementsAreText
<1>2. \A l, n : \E m : Reads(At("START", l, <<>>, n), <<c>>, At("START", m, <<>>, n))
  BY CharRead
<1>3. \A l, n : Reads(At("TAG_A_END", l, text, n), <<c>>,
                     At("TAG_A_END", l, AsComment(text, <<c>>), n))
  BY CharRead
<1> QED
  BY <1>1, <1>2, <1>3, PlainFollows

LEMMA TagFollows ==
    ASSUME PInv, IInv', NEW tag \in Tags, WritePlain(tag)
    PROVE  PInv'
<1>1. tag \in Seq(Alphabet)
  BY ElementsAreText
<1>2. IsTag(tag) /\ tag[2] # "a"
  BY PageAssumption
<1>3. \A l, n : \E m : Reads(At("START", l, <<>>, n), tag, At("START", m, <<>>, n))
  BY <1>2, TagPassed
<1>4. AsComment(text, tag) = Cut(text \o tag)
  <2>1. tag # <<"space">>
    BY <1>2 DEF IsTag
  <2> QED
    BY <2>1 DEF AsComment
<1>5. Short(text)
  BY DEF PInv
<1>6. \A l, n : Reads(At("TAG_A_END", l, text, n), tag,
                     At("TAG_A_END", l, AsComment(text, tag), n))
  BY <1>4, <1>5, TagInText
<1> QED
  BY <1>1, <1>3, <1>6, PlainFollows

LEMMA TopTagFollows ==
    ASSUME PInv, IInv', NEW tag \in TopTags, anchor = None, WritePlain(tag)
    PROVE  PInv'
<1>1. tag \in Seq(Alphabet)
  BY ElementsAreText
<1>2. IsTag(tag) /\ (tag[2] = "a" => tag[3] \notin {"space", ">"})
  BY PageAssumption
<1>3. \A l, n : \E m : Reads(At("START", l, <<>>, n), tag, At("START", m, <<>>, n))
  BY <1>2, TagPassed
<1> QED
  BY <1>1, <1>3, PlainFollows

\* The tag of a link begins: the link that was open is reported.
LEMMA LinkBegins ==
    ASSUME PInv, NEW chars, Begin(chars, Anchored)
    PROVE  Reads(Now', <<"<", "a", "space">>,
                 At("TAG_A", IF anchor = None THEN <<>> ELSE Cut(anchor), <<>>, Anchored))
<1>1. CASE anchor = None
  BY <1>1, Begun, TagBegins DEF Anchored
<1>2. CASE anchor # None
  <2>1. Anchored = Seen(<<>>, Cut(anchor), text)
    BY <1>2 DEF Anchored, Seen
  <2> QED
    BY <1>2, <2>1, Begun, TagBeginsAgain
<1> QED
  BY <1>1, <1>2

LEMMA UrlsAddressed == \A url \in Urls : url \in Seq(Addressed) /\ url \in Seq(Alphabet)
<1>1. Urls \subseteq Seq(Addressed)
  BY PageAssumption DEF Addressed
<1> QED
  BY <1>1, QuotedParts

LEMMA AnchorFollows ==
    ASSUME PInv, IInv', NEW url \in Urls, WriteAnchor(url)
    PROVE  PInv'
<1>1. PICK chars \in Anchors(url) : Begin(chars, Anchored)
  BY DEF WriteAnchor
<1>2. anchor' = url /\ text' = <<>>
  BY DEF WriteAnchor
<1>3. url \in Seq(Addressed) /\ url \in Seq(Alphabet) /\ url # None
  BY UrlsAddressed, NoneAssumption
<1> DEFINE b == At("TAG_A_END", Cut(url), <<>>, Anchored)
<1>4. Reads(Now', chars, b)
  BY <1>1, <1>3, LinkBegins, AnchorRead
<1>5. Final(b, anchor', text', Anchored)
  BY <1>2, <1>3 DEF Final
<1>6. Short(text)'
  BY <1>2, NoText DEF Short
<1> QED
  BY <1>1, <1>2, <1>3, <1>4, <1>5, <1>6, Follows

LEMMA BareAnchorFollows ==
    ASSUME PInv, IInv', NEW url \in Urls, WriteBareAnchor(url)
    PROVE  PInv'
<1>1. PICK chars \in BareAnchors(url) : Begin(chars, Anchored)
  BY DEF WriteBareAnchor
<1>2. anchor' = (IF anchor = None THEN <<>> ELSE anchor) /\ text' = <<>>
  BY DEF WriteBareAnchor
<1>3. url \in Seq(Addressed)
  BY UrlsAddressed
<1>4. anchor' \in Seq(Alphabet)
  BY <1>2 DEF PInv
<1>5. anchor' # None /\ Cut(anchor') = IF anchor = None THEN <<>> ELSE Cut(anchor)
  BY <1>2, <1>4, CutNothing, NoneAssumption
<1> DEFINE b == At("TAG_A_END", Cut(anchor'), <<>>, Anchored)
<1>6. Reads(Now', chars, b)
  BY <1>1, <1>3, <1>5, LinkBegins, BareAnchorRead
<1>7. Final(b, anchor', text', Anchored)
  BY <1>2, <1>5 DEF Final
<1>8. Short(text)'
  BY <1>2, NoText DEF Short
<1> QED
  BY <1>1, <1>4, <1>6, <1>7, <1>8, Follows

LEMMA CloseFollows ==
    ASSUME PInv, IInv', WriteClose
    PROVE  PInv'
<1> DEFINE chars == <<"<", "/", "a", ">">>
<1>1. /\ anchor # None /\ Begin(chars, Anchored)
      /\ anchor' = None /\ text' = <<>>
  BY DEF WriteClose
<1> HIDE DEF chars
<1>2. Anchored = Seen(<<>>, Cut(anchor), text)
  BY <1>1 DEF Anchored, Seen
<1> DEFINE b == At("START", Cut(anchor), <<>>, Anchored)
<1>3. Now' = At("TAG_A_END", Cut(anchor), text, <<>>)
  BY <1>1, Begun
<1>4. Reads(Now', chars, b)
  BY <1>2, <1>3, TagEnds DEF chars
<1>5. Final(b, anchor', text', Anchored)
  BY <1>1 DEF Final
<1>6. Short(text)'
  BY <1>1, NoText DEF Short
<1> QED
  BY <1>1, <1>4, <1>5, <1>6, Follows

\* A character read is a character less to read.
LEMMA ReadIsAfter ==
    ASSUME IInv, Read
    PROVE  Now' = After(Now, Head(rest))
<1> DEFINE c == Head(rest)
           row == Taken(st, c)
           do == row.do
<1>1. st' = row.to /\ Apply(do, c)
  BY DEF Read, ProcessChar
<1> HIDE DEF c, row, do
<1>2. link' = LinkBy(do, link, c)
  BY <1>1 DEF Apply, LinkBy
<1>3. comment' = CommentBy(do, comment, c)
  BY <1>1 DEF Apply, CommentBy, AddComment, Added
<1>4. seen' = SeenBy(do, link, comment, seen)
  <2>1. [link |-> link, comment |-> comment] # None
    <3>1. [link |-> link, comment |-> comment] \in Reports
      BY DEF IInv, Marked, Reports
    <3> QED
      BY <3>1, NoneAssumption
  <2>2. report' = IF do = "done_link" THEN [link |-> link, comment |-> comment] ELSE None
    BY <1>1 DEF Apply
  <2>3. seen' = IF report' = None THEN seen ELSE Append(seen, report')
    BY DEF Read
  <2> QED
    BY <2>1, <2>2, <2>3 DEF SeenBy
<1> QED
  BY <1>1, <1>2, <1>3, <1>4, AtFields DEF Now, After, do, row, c

LEMMA ReadFollows ==
    ASSUME PInv, IInv', Read
    PROVE  PInv'
<1>1. /\ rest # <<>> /\ rest' = Tail(rest)
      /\ anchor' = anchor /\ text' = text /\ due' = due
  BY DEF Read
<1>2. IInv /\ rest \in Seq(Alphabet)
  BY DEF PInv, IInv
<1>3. PICK b : Reads(Now, rest, b) /\ Final(b, anchor, text, due)
  BY DEF PInv
<1>4. Reads(Now', rest', b)
  BY <1>1, <1>2, <1>3, ReadIsAfter, ReadsHead
<1>5. Final(b, anchor', text', due')
  BY <1>1, <1>3
<1>6. Short(text)' /\ (anchor' = None \/ anchor' \in Seq(Alphabet))
  BY <1>1 DEF PInv, Short
<1> QED
  BY <1>4, <1>5, <1>6 DEF PInv

LEMMA InitPInv ==
    ASSUME Init
    PROVE  PInv
<1>1. /\ st = "START" /\ link = <<>> /\ comment = <<>> /\ seen = <<>> /\ due = <<>>
      /\ rest = <<>> /\ anchor = None /\ text = <<>>
  BY DEF Init, ParserInit
<1>2. Reads(Now, rest, Now)
  BY <1>1, ReadsNothing
<1>3. Final(Now, anchor, text, due)
  BY <1>1 DEF Final, Now
<1> QED
  BY <1>1, <1>2, <1>3, InitIInv, NoText DEF PInv

LEMMA NextPInv ==
    ASSUME PInv, [Next]_vars
    PROVE  PInv'
<1>1. IInv'
  BY NextIInv DEF PInv
<1>2. CASE \E c \in Chars : WritePlain(<<c>>)
  BY <1>1, <1>2, CharFollows
<1>3. CASE \E tag \in Tags : WritePlain(tag)
  BY <1>1, <1>3, TagFollows
<1>4. CASE \E tag \in TopTags : anchor = None /\ WritePlain(tag)
  BY <1>1, <1>4, TopTagFollows
<1>5. CASE \E url \in Urls : WriteAnchor(url)
  BY <1>1, <1>5, AnchorFollows
<1>6. CASE \E url \in Urls : WriteBareAnchor(url)
  BY <1>1, <1>6, BareAnchorFollows
<1>7. CASE WriteClose
  BY <1>1, <1>7, CloseFollows
<1>8. CASE Read
  BY <1>1, <1>8, ReadFollows
<1>9. CASE UNCHANGED vars
  <2>1. /\ Now' = Now /\ rest' = rest /\ anchor' = anchor /\ text' = text /\ due' = due
    BY <1>9 DEF vars, parser, Now
  <2> QED
    BY <1>1, <2>1 DEF PInv, Short
<1> QED
  BY <1>2, <1>3, <1>4, <1>5, <1>6, <1>7, <1>8, <1>9 DEF Next

LEMMA AlwaysPInv == Spec => []PInv
<1>1. Init => PInv
  BY InitPInv
<1>2. PInv /\ [Next]_vars => PInv'
  BY NextPInv
<1> QED
  BY <1>1, <1>2, PTL DEF Spec

\* Whatever the page is made of, and however long: the parser has reported at the
\* end of every element what the element calls for and nothing else, each link once,
\* in order, with its own address and text.  (link.c: the table and its functions)
THEOREM ReportsTellThePage == Spec => []ReportsAsWritten
<1>1. PInv => ReportsAsWritten
  <2> SUFFICES ASSUME PInv, rest = <<>> PROVE seen = due
    BY DEF ReportsAsWritten
  <2> QED
    BY Outside, Inside
<1> QED
  BY <1>1, AlwaysPInv, PTL

\* Whatever the page, a link its author left open is in the buffer, in a state in
\* which link_parser_end reports it; and in no other state is one reported.
\* (link.c: link_parser_end)
THEOREM OpenLinkReported == Spec => []OpenLinkNotLost
<1>1. PInv => OpenLinkNotLost
  <2> SUFFICES ASSUME PInv, rest = <<>>
               PROVE  /\ (st \in EndReports) = (anchor # None)
                      /\ anchor # None => link = Cut(anchor)
    BY DEF OpenLinkNotLost
  <2>1. CASE anchor = None
    <3>1. st \notin EndReports
      BY <2>1, Outside DEF EndReports
    <3> QED
      BY <2>1, <3>1
  <2>2. CASE anchor # None
    <3>1. st \in EndReports
      BY <2>2, Inside DEF EndReports
    <3> QED
      BY <2>2, <3>1, Inside
  <2> QED
    BY <2>1, <2>2
<1> QED
  BY <1>1, AlwaysPInv, PTL
=============================================================================
