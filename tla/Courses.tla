------------------------------- MODULE Courses ------------------------------
(***************************************************************************)
(* What course.c reads out of the links of a page.  A link is a sequence   *)
(* of parts: characters, and the two parameter names that strstr looks     *)
(* for.  "snivel=" ends in "nivel=", so that a search for the second finds *)
(* the first as well.                                                      *)
(***************************************************************************)
EXTENDS Naturals, SequencesExt, Selection

\* strstr(link, "nivel=4") and strstr(link, "nivel=3").
HasLevel(link, digit) ==
    \E i \in 1..Len(link) - 1 : link[i] \in {"nivel=", "snivel="} /\ link[i + 1] = digit

\* The type of the entry a link stands for.
TypeOf(link) == IF HasLevel(link, "4") THEN "course" ELSE "department"

IsEntry(link) == (HasLevel(link, "4") \/ HasLevel(link, "3")) /\ Contains(link, "snivel=")

\* What comes before the first mark, all of it if there is none.
Before(s, mark) == IF Contains(s, mark) THEN SubSeq(s, 1, SelectInSeq(s, LAMBDA x : x = mark) - 1)
                                        ELSE s

\* The code: from the first "snivel=" to the semicolon that ends the script.
CodeOf(link) ==
    LET at == SelectInSeq(link, LAMBDA x : x = "snivel=")
    IN  Before(SubSeq(link, at + 1, Len(link)), ";")

\* course_load_from_page: the entries of a page, in its order.
Loaded(page) ==
    LET links == SelectIn(page, {link \in ToSet(page) : IsEntry(link)})
    IN  [i \in DOMAIN links |-> [code |-> CodeOf(links[i]), type |-> TypeOf(links[i])]]

\* course_name_is_valid: the code may name a directory, on any system.
CourseNameIsValid(code) == code # <<>> /\ ToSet(code) \cap {"/", "\\", ":", ">"} = {}

\* The sections course_get_capabilities_from_page knows, by their addresses.
Section ==
    [address \in {"newmaterialdid.asp", "reglamentacion.asp", "novlist.asp", "foroDis.asp",
                  "AluList.asp"} |->
        CASE address = "newmaterialdid.asp" -> "FILE"
          [] address = "reglamentacion.asp" -> "RULES"
          [] address = "novlist.asp"        -> "NEWS"
          [] address = "foroDis.asp"        -> "FORUM"
          [] address = "AluList.asp"        -> "ALULIST"]

Capabilities(page) == {Section[link] : link \in ToSet(page) \cap DOMAIN Section}

-----------------------------------------------------------------------------
IsSpace(c) == c \in {" ", "\t"}

\* toupper, of the letters in use.
ToUpper(c) == IF c = "a" THEN "A" ELSE IF c = "b" THEN "B" ELSE c

\* normalize_course_name: no space in front, the first one of several between
\* two words, and none at the end if it is a blank; all in capitals.
NormalizeCourseName(text) ==
    LET kept == SelectSeq([i \in DOMAIN text |-> i],
                          LAMBDA i : ~IsSpace(text[i]) \/ (i > 1 /\ ~IsSpace(text[i - 1])))
        name == [j \in DOMAIN kept |-> ToUpper(text[kept[j]])]
    IN  IF name # <<>> /\ Last(name) = " " THEN Front(name) ELSE name
=============================================================================
