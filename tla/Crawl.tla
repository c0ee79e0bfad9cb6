------------------------------- MODULE Crawl --------------------------------
(***************************************************************************)
(* The crawl of the material of a course (get_file_list_from_current,      *)
(* src/src/iol.c): folders are taken from a queue, their links to folders  *)
(* are queued, and every file number of a page is resolved to an address,  *)
(* which the cache in the repository remembers from one run to the next.   *)
(*                                                                         *)
(* The address of a folder is what follows newmaterialdid.asp?path=, a     *)
(* sequence of characters.  No set of visited pages is kept:               *)
(* is_father_folder alone keeps the crawl from going in circles.  Pages    *)
(* hold other links besides, some of which change the server if they are   *)
(* asked for; link_is_iol_folder tells them from folders by what           *)
(* urihelper.c splits them into.                                           *)
(***************************************************************************)
EXTENDS SequencesExt, Selection

CONSTANTS
    Start,      \* the first page of the material
    Pages,      \* the pages of the course
    Layouts,    \* how the pages may be linked
    Links(_, _),\* the links of a page in a layout
    Numbers,    \* Numbers[p]: the file numbers of page p, in order
    Fids,       \* the numbers of files
    Hosts,      \* the names the server is reached by (-H)
    Versions    \* Versions[f]: how many paths the server gives file f in turn

None == 0
\* http://host/lockers/4/...: a name of the server, and the file's path there.
Addresses(f) == Hosts \X (1 .. Versions[f])
NoAddress == <<>>

\* A link of a page: what comes before the ?, the pieces between & after it, each
\* <<name, value>>, or <<name>> without =, and its text behind ?path=.

\* urihelper_new: the parameters, which are the pieces that have a value.
Params(link) == {piece[1] : piece \in {p \in Range(link.query) : Len(p) = 2}}

\* Mutant: other parameters do not matter.
HasPath(link) == link.base = "newmaterialdid.asp" /\ "path" \in Params(link)

\* link_is_iol_folder: the path and no other parameter.  What link_files_fnc
\* turns away before (external links, scripts, #, ./ and ../) has another base.
IsIolFolder(link) == link.base = "newmaterialdid.asp" /\ Params(link) = {"path"}

\* Page p is in a folder of page q, at whatever depth.
Below(p, q) == p # q /\ (q = Start \/ IsPrefix(Append(q, "/"), p))

\* What the server takes for a request to show a folder, and nothing else.
AsksForPage(link) ==
    /\ link.base = "newmaterialdid.asp"
    /\ {piece[1] : piece \in {x \in Range(link.query) : Len(x) = 2}} = {"path"}

\* The pages link to other things as well; where they link to folders, these are
\* pages, and a page links to the folders in it, by which all below is reached.
ASSUME LinksAssumption ==
    \A l \in Layouts, p \in Pages :
        /\ Links(l, p) \in Seq(ToSet(Links(l, p)))
        /\ \A link \in ToSet(Links(l, p)) : AsksForPage(link) => link.text \in Pages

ASSUME FoldersAssumption ==
    \A l \in Layouts, p, q \in Pages : Below(p, q) =>
        \E link \in ToSet(Links(l, q)) :
            /\ AsksForPage(link) /\ Len(link.text) > Len(q)
            /\ p = link.text \/ Below(p, link.text)

ASSUME SiteAssumption ==
    /\ Start \in Pages /\ \A p \in Pages : p \in Seq(ToSet(p))
    /\ Fids \subseteq Nat \ {0}
    /\ Numbers \in [Pages -> Seq(Fids \cup {None})]
    /\ Versions \in [Fids -> Nat \ {0}]

VARIABLES
    layout,     \* how the pages of the server are linked
    numbers,    \* what file numbers they hold
    version,    \* version[f]: which path f has
    cache,      \* the cache: an address, or None
    noCache,    \* --no-cache
    host,       \* the name the run uses for the server
    pc,         \* idle, fetch, resolve
    pending,    \* the queue of folders
    page,       \* the page being read
    todo,       \* what is left of it: file numbers
    last,       \* last_fid
    files,      \* the list of addresses, each with its number
    ret,        \* the result
    missed,     \* the numbers that were asked for without an answer
    began       \* version[f] when the crawl began

server == <<layout, numbers, version>>
crawl == <<noCache, host, pc, pending, page, todo, last, files, ret, missed, began>>
vars == <<server, cache, crawl>>

\* Mutants: the address of the page is the one the spaces are escaped in, as
\* before version 2.0.26; the arguments are swapped.
Escaped(u) ==
    FlattenSeq([i \in DOMAIN u |->
                   IF u[i] = " " THEN <<"%", "2", "0">> ELSE <<u[i]>>])
FatherEscaped(child, father) == IsPrefix(child, Escaped(father))
FatherSwapped(child, father) == IsPrefix(father, child)

\* is_father_folder: strstr(father, child).  All addresses begin alike, in a
\* way that does not occur again, so child can only be at the beginning.  The
\* page links to itself, to a folder above it or to one whose name begins its.
IsFatherFolder(child, father) == IsPrefix(child, father)

\* link_files_fnc: the folders to queue of those a page links to, in each layout.
Followed == [l \in Layouts |-> [p \in Pages |->
    LET folders == {link \in ToSet(Links(l, p)) :
                       IsIolFolder(link) /\ ~IsFatherFolder(link.text, p)}
        links   == SelectIn(Links(l, p), folders)
    IN  [i \in DOMAIN links |-> links[i].text]]]

Follows(p) == Followed[layout][p]

Init ==
    /\ layout \in Layouts
    /\ numbers = Numbers
    /\ version = [f \in Fids |-> 1]
    /\ cache = [f \in Fids |-> NoAddress]
    /\ noCache = FALSE
    /\ host \in Hosts
    /\ pc = "idle"
    /\ pending = <<>>
    /\ page = Start
    /\ todo = <<>>
    /\ last = None
    /\ files = <<>>
    /\ ret = "E_NETWORK"
    /\ missed = {}
    /\ began = version

\* The server gives a file another address.
Replace(f) ==
    /\ version[f] < Versions[f]
    /\ version' = [version EXCEPT ![f] = @ + 1]
    /\ UNCHANGED <<layout, numbers, cache, crawl>>

Begin ==
    /\ pc = "idle"
    /\ noCache' \in BOOLEAN
    /\ host' \in Hosts
    /\ pc' = "fetch"
    /\ pending' = <<Start>>
    /\ files' = <<>>
    /\ ret' = "E_OK"
    /\ missed' = {}
    /\ began' = version
    /\ UNCHANGED <<server, cache, page, todo, last>>

\* The numbers of the page, then the next folder.
Phase(rest) == IF rest = <<>> THEN "fetch" ELSE "resolve"

\* The server's part of a request: the page it shows, after doing what a link
\* that is not a folder asks for, which empties the folder.
Shown(address) == CHOOSE p \in Pages : IsPrefix(p, address) /\
                     \A q \in Pages : IsPrefix(q, address) => Len(q) <= Len(p)
Served(address) == IF address \in Pages THEN numbers
                   ELSE [numbers EXCEPT ![Shown(address)] = <<>>]

\* Mutant: the folders still queued when a transfer fails are left there.
FetchUncleaned ==
    /\ pc = "fetch"
    /\ pending # <<>>
    /\ page' = Head(pending)
    /\ numbers' = Served(page')
    /\ \/ /\ pending' = Tail(pending) \o Follows(Shown(page'))
          /\ todo' = numbers'[Shown(page')]
          /\ last' = None
          /\ pc' = Phase(todo')
          /\ ret' = ret
       \/ /\ pending' = Tail(pending)
          /\ pc' = "idle"
          /\ ret' = "E_NETWORK"
          /\ UNCHANGED <<todo, last>>
    /\ UNCHANGED <<layout, version, cache, noCache, host, files, missed, began>>

\* A page, its links in the first pass; or the transfer fails, which ends the
\* crawl with what it has.
Fetch ==
    /\ pc = "fetch"
    /\ pending # <<>>
    /\ page' = Head(pending)
    /\ numbers' = Served(page')
    /\ \/ /\ pending' = Tail(pending) \o Follows(Shown(page'))
          /\ todo' = numbers'[Shown(page')]
          /\ last' = None
          /\ pc' = Phase(todo')
          /\ ret' = ret
       \/ /\ pending' = <<>>
          /\ pc' = "idle"
          /\ ret' = "E_NETWORK"
          /\ UNCHANGED <<todo, last>>
    /\ UNCHANGED <<layout, version, cache, noCache, host, files, missed, began>>

End ==
    /\ pc = "fetch"
    /\ pending = <<>>
    /\ pc' = "idle"
    /\ UNCHANGED <<server, cache, noCache, host, pending, page, todo, last, files,
                   ret, missed, began>>

Found(f, address) == files' = <<[fid |-> f, address |-> address]>> \o files

\* Mutant: --no-cache is forgotten.
FromCacheAlways(f) ==
    /\ f \in Fids /\ cache[f] # NoAddress
    /\ Found(f, cache[f])
    /\ UNCHANGED <<cache, missed>>

\* The second pass: a number is resolved by the cache or by the server, which
\* may not answer.  The cache may fail to be read.
FromCache(f) ==
    /\ ~noCache
    /\ f \in Fids /\ cache[f] # NoAddress
    /\ Found(f, cache[f])
    /\ UNCHANGED <<cache, missed>>

\* cache_add_file: nothing is added if the database could not be opened or written.
AddFile(f, address) == cache' \in {cache, [cache EXCEPT ![f] = address]}

FromServer(f) ==
    /\ \/ /\ f \in Fids
          /\ Found(f, <<host, version[f]>>)
          /\ AddFile(f, <<host, version[f]>>)
          /\ UNCHANGED missed
       \/ /\ missed' = missed \cup {f}
          /\ UNCHANGED <<cache, files>>

\* A number twice in a row is resolved once.  A call without a number stands in
\* todo as None: it is resolved, in vain, unless it comes first on a page.
Resolve ==
    /\ pc = "resolve"
    /\ todo' = Tail(todo)
    /\ last' = Head(todo)
    /\ IF Head(todo) = last
       THEN UNCHANGED <<cache, files, missed>>
       ELSE FromCache(Head(todo)) \/ FromServer(Head(todo))
    /\ pc' = Phase(todo')
    /\ UNCHANGED <<server, noCache, host, pending, page, ret, began>>

Step == Fetch \/ End \/ Resolve

Next ==
    \/ Begin
    \/ Step
    \/ \E f \in Fids : Replace(f)

\* A transfer is taken to come to an end, see README.md.
Spec == Init /\ [][Next]_vars /\ WF_vars(Step)

-----------------------------------------------------------------------------
\* The types of the variables; between two crawls no folder is queued; an address
\* is in the list only with its number on some page, and only if the server has
\* given it.
TypeOK ==
    /\ numbers \in [Pages -> Seq(Fids \cup {None})]
    /\ \A f \in Fids : version[f] \in 1 .. Versions[f] /\ cache[f] \in Addresses(f) \cup {NoAddress}
    /\ \A f \in Fids : began[f] <= version[f] /\ (cache[f] # NoAddress => cache[f][2] <= version[f])
    /\ noCache \in BOOLEAN /\ host \in Hosts
    /\ pc \in {"idle", "fetch", "resolve"}
    /\ pc = "idle" => pending = <<>>
    /\ pending \in Seq(Pages) /\ page \in Pages
    /\ pc = "resolve" => todo # <<>>
    /\ todo \in Seq(Fids \cup {None}) /\ last \in Fids \cup {None}
    /\ \A i \in DOMAIN files :
          /\ files[i].fid \in Fids /\ files[i].address \in Addresses(files[i].fid)
          /\ files[i].address[2] <= version[files[i].fid]
          /\ \E p \in Pages : files[i].fid \in Range(numbers[p])
    /\ ret \in {"E_OK", "E_NETWORK"}
    /\ missed \subseteq Fids \cup {None}

\* A crawl that ends with E_OK has every file of every folder of the course in
\* its list, but for those the server gave no address for: taking a link for
\* one to a folder above hides no folder (iol.c:909-913, 1018-1025, 1174-1222).
Complete ==
    pc = "idle" /\ ret = "E_OK" =>
        \A p \in Pages : \A f \in (Range(numbers[p]) \cap Fids) \ missed :
            \E i \in DOMAIN files : files[i].fid = f

\* With --no-cache every address is one the server had when the crawl began or
\* later, below the host of this run, whatever earlier runs have left in the
\* cache: the only way to get a file whose address has changed, or whose server
\* has moved (iol.c:1048-1086).
NoCacheFresh ==
    noCache => \A i \in DOMAIN files :
                  /\ files[i].address[1] = host
                  /\ files[i].address[2] >= began[files[i].fid]

\* The crawl only looks: the pages of the material also link to what changes
\* them, and no such link is ever asked for.  (link_is_iol_folder, and src/NOTES
\* on release 2.0.30)
LooksOnly == [][numbers' = numbers]_vars

\* Every crawl ends, also where folders link to themselves, to those above them
\* and to each other's siblings: the bug fixed in version 2.0.26 (src/NOTES:35).
Terminates == pc # "idle" ~> pc = "idle"
=============================================================================
