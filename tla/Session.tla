------------------------------ MODULE Session -------------------------------
(***************************************************************************)
(* The client's session with the IOL server, as the functions of iol.h     *)
(* keep it: iol_set, iol_login, iol_logout, iol_resync with                *)
(* iol_set_current_course, iol_get_new_novedades and iol_destroy (iol.c),  *)
(* and the course list of course.c.                                        *)
(*                                                                         *)
(* The server keeps one context per session, the course or department      *)
(* whose pages it shows; the client keeps what it believes that context    *)
(* is.  A transfer may fail before the server saw the request or after it  *)
(* acted on it, and the client cannot tell which.  A caller may make the   *)
(* calls in any order (Spec); Suck makes them as main.c does.              *)
(***************************************************************************)
EXTENDS Courses

CONSTANTS
    Sections,        \* Sections[c]: the links of the page of context c = <<level, code>>
    Pages,           \* bound: the pages a user may be shown after the login
    Tuples,          \* user and password: "good", "bad", or "empty" if one is missing
    Asked,           \* bound: the flags a caller asks for
    MaxLogins,       \* bound: logins per process
    None             \* no context, no setting

Contexts == DOMAIN Sections

\* The link of a page to a context, plain or as a script.
LinkTo(c) == <<"nivel=", c[1], "&", "snivel=">> \o c[2]
LinksTo(c) == {LinkTo(c), Append(LinkTo(c), ";")}
Linked(page) == {c \in Contexts : LinksTo(c) \cap ToSet(page) # {}}

Codes == UNION {{e.code : e \in ToSet(Loaded(page))} : page \in Pages}

ASSUME ConstantsAssumption ==
    \* a context has a level and a code, which is text and no other context's
    /\ \A c \in Contexts : /\ c = <<c[1], c[2]>> /\ c[1] \in {"3", "4"}
                          /\ c[2] \in Seq(ToSet(c[2]))
                          /\ ToSet(c[2]) \cap {";", "nivel=", "snivel="} = {}
    /\ \A c, d \in Contexts : c[2] = d[2] => c = d
    \* whoever finds the code of a context in a link has found a link to it
    /\ \A page \in Pages : page \in Seq(ToSet(page)) /\ \A link \in ToSet(page) :
         /\ link \in Seq(ToSet(link))
         /\ IsEntry(link) =>
              \A c \in Contexts : CodeOf(link) = c[2] => link \in LinksTo(c)
    /\ Tuples \subseteq {"good", "bad", "empty"}
    /\ \A flags \in Asked : flags \subseteq {"FILE", "NEWS", "FORUM"}
    /\ None \notin Contexts
    /\ MaxLogins \in Nat

VARIABLES
    session,         \* server: the client's cookie stands for a logged in user
    context,         \* server: the context of that session, or None
    logged,          \* iol->bLogged
    courses,         \* iol->courses, oldest entry first; lookups start at the end
    flags,           \* flags[i]: the flags of entry i
    current,         \* iol->current_course: an entry, or 0
    taken,           \* the settings iol_set has stored
    last,            \* the last call: its name, its argument, its result
    logins,          \* logins so far
    offered,         \* history: the contexts the pages of the session linked to
    synced           \* history: contexts whose material was crawled to the end

server == <<session, context>>
client == <<logged, courses, flags, current, taken>>
history == <<offered, synced>>
vars == <<session, context, logged, courses, flags, current, taken, last, logins,
          offered, synced>>

\* How a transfer may end: answered, failed before or after the server acted.
Outcomes == {"ok", "unsent", "lost"}
Reaches(o) == o # "unsent"

Result(name, arg, ret) == last' = [call |-> name, arg |-> arg, asked |-> {}, ret |-> ret]

Init ==
    /\ session = FALSE /\ context = None
    /\ logged = FALSE
    /\ courses = <<>> /\ flags = <<>> /\ current = 0
    /\ taken = {}
    /\ last = [call |-> "new", arg |-> <<>>, asked |-> {}, ret |-> "E_OK"]
    /\ logins = 0
    /\ offered = {} /\ synced = {}

-----------------------------------------------------------------------------
\* The settings whose value may be refused: by libcurl, or for its characters.
MayBeRefused == {"proxy", "proxy_user", "server", "proxy_type"}
\* Those that are stored whatever they are.
Stored == {"dry", "verbose", "fancy", "wait", "xenofobe", "no_cache", "dump", "ask"}
SettingNames == {"repository"} \cup MayBeRefused \cup Stored

\* iol_set.  A repository is kept even if its directory cannot be made; a
\* setting the table does not list is refused.
Set(name, good) ==
    /\ IF name \notin SettingNames \/ (name \in MayBeRefused /\ ~good)
         THEN Result("set", <<name>>, "E_INVAL") /\ UNCHANGED taken
         ELSE /\ taken' = taken \cup {name}
              /\ Result("set", <<name>>, IF name = "repository" /\ ~good THEN "E_FS" ELSE "E_OK")
    /\ UNCHANGED <<server, logged, courses, flags, current, logins, history>>

\* Mutant: the entries of a page come without flags.
NoFlags(page) == <<>>

\* course_load_from_page_fnc: the flags of new entries.
Flags(page) == [i \in DOMAIN Loaded(page) |-> {}]

\* iol_login: a page for the cookie (o1), then the post of the tuple (o2), whose
\* answer adds the courses it lists to those already known.
Login(tuple, o1, o2) ==
    /\ logins < MaxLogins
    /\ logins' = logins + 1
    /\ \/ /\ tuple = "empty" \/ logged
          /\ Result("login", <<tuple>>, IF tuple = "empty" THEN "E_INVAL" ELSE "E_ALOGED")
          /\ UNCHANGED <<server, client, history>>
       \/ /\ tuple # "empty" /\ ~logged /\ o1 # "ok"
          /\ Result("login", <<tuple>>, "E_NETWORK")
          /\ UNCHANGED <<server, client, history>>
       \/ /\ tuple # "empty" /\ ~logged /\ o1 = "ok"
          /\ IF Reaches(o2) /\ tuple = "good"
               THEN session' = TRUE /\ context' = None
               ELSE UNCHANGED server
          /\ synced' = {}
          /\ IF o2 # "ok"
               THEN /\ Result("login", <<tuple>>, "E_NETWORK")
                    /\ offered' = {}
                    /\ UNCHANGED client
               ELSE \E page \in IF tuple = "good" THEN Pages ELSE {<<>>} :
                    /\ offered' = Linked(page)
                    /\ courses' = courses \o Loaded(page)
                    /\ flags' = flags \o Flags(page)
                    /\ logged' = (courses' # <<>>)
                    /\ Result("login", <<tuple>>,
                              IF courses' = <<>> THEN "E_LOGINTUPLE" ELSE "E_OK")
                    /\ UNCHANGED <<current, taken>>

\* Mutant: the session is believed to be open until the server confirms.
LogoutConfirmed(o) ==
    /\ session' = (session /\ ~(logged /\ Reaches(o)))
    /\ context' = IF session' THEN context ELSE None
    /\ logged' = (logged /\ o # "ok")
    /\ Result("logout", <<>>, "E_OK")
    /\ UNCHANGED <<courses, flags, current, taken, logins, history>>

\* iol_logout: one request, whose outcome is not looked at.
Logout(o) ==
    \/ /\ ~logged
       /\ Result("logout", <<>>, "E_NLOGED")
       /\ UNCHANGED <<server, client, logins, history>>
    \/ /\ logged
       /\ IF Reaches(o) THEN session' = FALSE /\ context' = None ELSE UNCHANGED server
       /\ logged' = FALSE
       /\ Result("logout", <<>>, "E_OK")
       /\ UNCHANGED <<courses, flags, current, taken, logins, history>>

\* course_get_by_name: the entry of a code, the latest there is.
Known(code) == \E i \in DOMAIN courses : courses[i].code = code
Entry(code) == SelectLastInSeq(courses, LAMBDA e : e.code = code)

\* The context an entry asks for: its level is that of the type it was given.
Wanted(code) == <<IF courses[Entry(code)].type = "course" THEN "4" ELSE "3", code>>

\* The server's part of a context change: it ignores one it does not have.
Given(c) == session /\ c \in Contexts

\* The request of iol_set_current_course.  The client notes the course before
\* it asks, its capabilities when it is answered.
AskContext(code, o) ==
    LET c == Wanted(code) IN
    /\ current' = Entry(code)
    /\ context' = IF Reaches(o) /\ Given(c) THEN c ELSE context
    /\ flags' = IF o = "ok"
                  THEN [flags EXCEPT ![Entry(code)] =
                          IF Given(c) THEN Capabilities(Sections[c]) ELSE {}]
                  ELSE flags

\* iol_set_current_course: nothing is asked if the course is the current one.
SetContext(code, o) ==
    IF current # 0 /\ courses[current].code = code
      THEN UNCHANGED <<current, context, flags>>
      ELSE AskContext(code, o)

\* Mutant: the result of the context change is not looked at.
AlwaysSet(code, o) == TRUE

\* Whether SetContext succeeded.
ContextSet(code, o) == (current # 0 /\ courses[current].code = code) \/ o = "ok"

\* The three parts of iol_resync, each done only if those before it succeeded:
\* the material (iol_resync_download, whose crawl may fail, or whose directory
\* cannot be made), the news (a stub), the forum.
Parts(todo, crawled, made, forum) ==
    IF "FILE" \in todo /\ ~made THEN "E_FS"
    ELSE IF "FILE" \in todo /\ ~crawled THEN "E_NETWORK"
    ELSE IF "NEWS" \in todo THEN "E_INVAL"
    ELSE IF "FORUM" \in todo /\ ~forum THEN "E_NETWORK"
    ELSE "E_OK"

Returns(code, asked, ret) ==
    last' = [call |-> "resync", arg |-> code, asked |-> asked, ret |-> ret]

\* iol_resync(code, asked): the context is changed (o), then the parts the caller
\* asked for and the capabilities of the current course have.
Resync(code, asked, o, crawled, made, forum) ==
    LET ready == "repository" \in taken /\ CourseNameIsValid(code)
        todo  == asked \cap flags'[current']
    IN
    /\ \/ /\ ~ready \/ ~logged \/ ~Known(code)
          /\ Returns(code, asked,
                    IF ready /\ ~logged THEN "E_NLOGED" ELSE "E_INVAL")
          /\ UNCHANGED <<context, current, flags, synced>>
       \/ /\ ready /\ logged /\ Known(code)
          /\ SetContext(code, o)
          /\ IF ~ContextSet(code, o)
               THEN Returns(code, asked, "E_NETWORK") /\ UNCHANGED synced
               ELSE /\ Returns(code, asked, Parts(todo, crawled, made, forum))
                    /\ synced' = IF "FILE" \in todo /\ made /\ crawled /\ session
                                 THEN synced \cup {context'} ELSE synced
    /\ UNCHANGED <<session, logged, courses, taken, logins, offered>>

\* iol_get_new_novedades: works in any state.
News(o) ==
    /\ Result("news", <<>>, IF o = "ok" THEN "E_OK" ELSE "E_NETWORK")
    /\ UNCHANGED <<server, client, logins, history>>

Next ==
    \/ \E name \in SettingNames \cup {None}, good \in BOOLEAN : Set(name, good)
    \/ \E tuple \in Tuples, o1, o2 \in Outcomes : Login(tuple, o1, o2)
    \/ \E o \in Outcomes : Logout(o) \/ News(o)
    \/ \E code \in Codes, asked \in Asked, o \in Outcomes, crawled, made, forum \in BOOLEAN :
         Resync(code, asked, o, crawled, made, forum)

Spec == Init /\ [][Next]_vars

-----------------------------------------------------------------------------
TypeOK ==
    /\ session \in BOOLEAN
    /\ context \in Contexts \cup {None}
    /\ logged \in BOOLEAN
    /\ \A i \in DOMAIN courses : ~Contains(courses[i].code, ";")
                              /\ courses[i].type \in {"course", "department"}
    /\ DOMAIN flags = DOMAIN courses
    /\ \A i \in DOMAIN flags : flags[i] \subseteq {Section[l] : l \in DOMAIN Section}
    /\ current \in 0..Len(courses)
    /\ taken \subseteq SettingNames
    /\ last.call \in {"new", "set", "login", "logout", "resync", "news"}
    /\ logins \in 0..MaxLogins
    /\ offered \subseteq Contexts /\ synced \subseteq Contexts \cup {None}

\* The contexts whose link the client reads for what it is: the code of a
\* department that begins with 4 makes it a course (strstr finds "snivel=4").
Told(c) == c[1] = "4" \/ c[2] = <<>> \/ Head(c[2]) # "4"

\* The contexts there is material to get from.
WithMaterial == {c \in Contexts : Told(c) /\ "newmaterialdid.asp" \in ToSet(Sections[c])}

\* A call of iol_resync for the files that returns E_OK has crawled the course,
\* in its own context, in this session, unless it has no material.
\* (iol.h: "resync all the files of the curse code")
ResyncedIfOK ==
    last.call = "resync" /\ last.ret = "E_OK" /\ "FILE" \in last.asked =>
        \A c \in offered \cap WithMaterial : c[2] = last.arg => c \in synced

=============================================================================
