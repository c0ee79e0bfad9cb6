----------------------------- MODULE MCLinkPage -----------------------------
(* A small instance of LinkPage for TLC. *)
EXTENDS LinkPage

\* No address, one that fits the buffers and one that does not.
MCUrls == {<<>>, <<"x", "a">>, <<"a", "/", "h", "x", "=">>}

\* <b>, </b>, <hr/>, <br />
MCTags == {<<"<", "x", ">">>, <<"<", "/", "x", ">">>, <<"<", "h", "r", "/", ">">>,
           <<"<", "x", "r", "space", "/", ">">>}

\* <abbr>, </abbr>
MCTopTags == {<<"<", "a", "x", ">">>, <<"<", "/", "a", "x", ">">>}
=============================================================================
