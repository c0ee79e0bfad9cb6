------------------------------ MODULE LinkPage ------------------------------
(***************************************************************************)
(* A page and its parser: an author writes, element by element and for as  *)
(* long as he likes, the HTML the IOL server writes; LinkParser reads it.  *)
(* The author knows what every element should make the parser report.      *)
(***************************************************************************)
EXTENDS LinkParser

CONSTANTS
    Urls,            \* bound: the links
    Chars,           \* bound: the characters of text
    Tags,            \* other elements that may stand anywhere
    TopTags          \* other elements that stand outside the text of links

\* An element that is not a link: "<", anything but the two brackets, ">".
IsTag(tag) ==
    /\ tag \in Seq(Alphabet) /\ Len(tag) >= 3
    /\ tag[1] = "<" /\ tag[Len(tag)] = ">"
    /\ \A i \in 2..Len(tag) - 1 : tag[i] \notin {"<", ">"}

\* Outside links any name may begin with an a but for that of a link; inside, only
\* that of an end may.  There runs of spaces are written as one.
ASSUME PageAssumption ==
    /\ Urls \subseteq Seq(Alphabet \ {"quote", ">", "space"})
    /\ Chars \subseteq Alphabet \ {"<"}
    /\ \A tag \in TopTags :
         IsTag(tag) /\ (tag[2] = "a" => tag[3] \notin {"space", ">"})
    /\ \A tag \in Tags :
         /\ IsTag(tag) /\ tag[2] \notin {"a", "space"}
         /\ tag[2] = "/" /\ tag[3] = "a" => tag[4] \notin {"space", ">"}
         /\ \A i \in 1..Len(tag) - 1 : tag[i] # "space" \/ tag[i + 1] # "space"

VARIABLES
    rest,            \* what is left of the element the author is writing
    anchor,          \* the address of the link whose </a> is still to come, or None
    text,            \* its text, as far as it was written
    due,             \* the reports the element should cause
    seen             \* the reports it has caused

vars == <<parser, rest, anchor, text, due, seen>>

Init ==
    /\ ParserInit
    /\ rest = <<>> /\ due = <<>> /\ seen = <<>>
    /\ anchor = None /\ text = <<>>

\* As much of a string as a buffer holds.
Cut(s) == SubSeq(s, 1, IF Len(s) < Cap THEN Len(s) ELSE Cap - 1)

\* Text of a link: runs of spaces count as one.
AsComment(s, chars) ==
    IF chars = <<"space">> /\ s # <<>> /\ s[Len(s)] = "space" THEN s ELSE Cut(s \o chars)

\* The report of the open link.
Anchored == IF anchor = None THEN <<>> ELSE <<[link |-> Cut(anchor), comment |-> text]>>

Begin(chars, reports) ==
    /\ rest = <<>>
    /\ rest' = chars
    /\ due' = reports
    /\ seen' = <<>>
    /\ UNCHANGED parser

\* A character, or an element that is not a link.
WritePlain(chars) ==
    /\ Begin(chars, <<>>)
    /\ text' = IF anchor = None THEN text ELSE AsComment(text, chars)
    /\ UNCHANGED anchor

Quoted(url) == <<"quote">> \o url \o <<"quote", ">">>

\* The ways to write <a href="url">.
Anchors(url) ==
    { <<"<", "a", "space", "h", "r", "e", "f", "=">> \o Quoted(url),
      <<"<", "a", "space", "h", "r", "e", "f", "space", "=", "space">> \o Quoted(url),
      <<"<", "a", "space", "x", "=", "x", "space", "h", "r", "e", "f", "=">> \o Quoted(url),
      <<"<", "a", "space", "h", "r", "x", "=", "space", "h", "r", "e", "f", "=">> \o Quoted(url) }

\* A link begins.  If the last one was not closed, it ends here.
WriteAnchor(url) ==
    /\ \E chars \in Anchors(url) : Begin(chars, Anchored)
    /\ anchor' = url
    /\ text' = <<>>

\* Links the parser finds no address in: <a x>, and <a  href="url">, whose second
\* space stands where the table has the h.
BareAnchors(url) ==
    { <<"<", "a", "space", "x", ">">>,
      <<"<", "a", "space", "space", "h", "r", "e", "f", "=">> \o Quoted(url) }

\* One has the address that is in the buffer: none, or that of the link it ends.
WriteBareAnchor(url) ==
    /\ \E chars \in BareAnchors(url) : Begin(chars, Anchored)
    /\ anchor' = IF anchor = None THEN <<>> ELSE anchor
    /\ text' = <<>>

WriteClose ==
    /\ anchor # None
    /\ Begin(<<"<", "/", "a", ">">>, Anchored)
    /\ anchor' = None
    /\ text' = <<>>

\* The parser reads the next character.
Read ==
    /\ rest # <<>>
    /\ ProcessChar(Head(rest))
    /\ rest' = Tail(rest)
    /\ seen' = IF report' = None THEN seen ELSE Append(seen, report')
    /\ UNCHANGED <<anchor, text, due>>

Next ==
    \/ \E c \in Chars : WritePlain(<<c>>)
    \/ \E tag \in Tags : WritePlain(tag)
    \/ \E tag \in TopTags : anchor = None /\ WritePlain(tag)
    \/ \E url \in Urls : WriteAnchor(url) \/ WriteBareAnchor(url)
    \/ WriteClose
    \/ Read

Spec == Init /\ [][Next]_vars

-----------------------------------------------------------------------------
TypeOK ==
    /\ st \in DOMAIN Table
    /\ link \in Seq(Alphabet) /\ comment \in Seq(Alphabet \cup {"NUL"})
    /\ rest \in Seq(Alphabet)

\* At the end of every element the parser has reported what the element calls
\* for and nothing else: each link once, in order, with its own address and
\* text, cut to the buffers; and no text or tag is taken for a link.  The
\* exception are links without an address, and those with a second space before
\* href, which inside another link are reported with the address of that one.
ReportsAsWritten == rest = <<>> => seen = due

\* If the page ends after any element, the link that was left open is reported
\* by link_parser_end, and no other is.  (link_parser_end: "we have a link in
\* the buffer, but the author forgot about the </a>")
OpenLinkNotLost ==
    rest = <<>> =>
        /\ (st \in EndReports) = (anchor # None)
        /\ anchor # None => link = Cut(anchor)
=============================================================================
