------------------------------ MODULE MCCrawl -------------------------------
(***************************************************************************)
(* Crawl over the sites of three folders below the first page: a, one in a *)
(* whose name has a space, and ab, whose name begins with a's.  A page     *)
(* links to the folders in it, and every folder to itself and to those     *)
(* whose names begin its own.  Besides, the sites have any of three links  *)
(* across, as long as the links that the crawl follows do not go round:    *)
(* round those it would go for ever.                                       *)
(***************************************************************************)
EXTENDS Crawl

MCStart == <<>>
Top == <<"a">>
Deep == <<"a", "/", " ">>
Beside == <<"a", "b">>
MCPages == {MCStart, Top, Deep, Beside}

Across == {<<Top, Beside>>, <<Deep, Beside>>, <<Beside, Deep>>}

\* A link to a folder, two that empty it, and links to elsewhere.
Folder(q) == [base |-> "newmaterialdid.asp", query |-> <<<<"path", q>>>>, text |-> q]
Empties(q) == [base |-> "newmaterialdid.asp",
               query |-> <<<<"path", q>>, <<"cmd", <<"d">>>>>>, text |-> q \o <<"&cmd=d">>]
EmptiesAll(q) == [base |-> "newmaterialdid.asp",
                  query |-> <<<<"path", q>>, <<"all">>, <<"cmd", <<"d">>>>>>,
                  text |-> q \o <<"&all&cmd=d">>]
Outside(q) == [base |-> "http://host/newmaterialdid.asp", query |-> <<<<"path", q>>>>, text |-> q]
Menu == [base |-> "foroDis.asp", query |-> <<>>, text |-> <<>>]

MCLinks(across, p) ==
    LET To(q) == IF <<p, q>> \in across THEN <<Folder(q)>> ELSE <<>>
    IN  CASE p = MCStart -> <<Menu, Folder(Beside), Empties(Beside), Folder(Top)>>
          [] p = Top     -> <<Folder(Top), Empties(Deep), Folder(Deep)>> \o To(Beside)
          [] p = Deep    -> To(Beside) \o <<EmptiesAll(Deep), Folder(Top), Folder(Deep)>>
          [] p = Beside  -> To(Deep) \o <<Outside(Deep), Folder(Top), Folder(Beside)>>

\* A number twice in a row, as pages have it, one on two pages, and calls
\* without a number, first on their page and not.
MCNumbers ==
    (MCStart :> <<>>) @@ (Top :> <<1, 1, None>>) @@ (Deep :> <<2>>) @@ (Beside :> <<None, 1>>)

\* One of the files moves.
MCVersions == <<2, 1>>

GoesRound(across) ==
    \E set \in SUBSET MCPages \ {{}} :
        \A p \in set : \E q \in set : Contains(MCLinks(across, p), Folder(q)) /\ ~IsPrefix(q, p)

MCLayouts == {across \in SUBSET Across : ~GoesRound(across)}
=============================================================================
