-------------------------------- MODULE Suck --------------------------------
(***************************************************************************)
(* The whole program from its options on: validate_opt() of main.c with    *)
(* the prompt of getpass.c, and suck(), which sets up an IOL object, logs  *)
(* in, resyncs all the courses, asks for news and logs out.  It makes the  *)
(* calls of Session in a fixed order, and lives through their failures.    *)
(* The user may interrupt it.                                              *)
(***************************************************************************)
EXTENDS Session

CONSTANT Options     \* bound: the options and settings the program comes with

\* An option has a value the library takes ("good"), one it refuses ("bad"), or
\* none.  Of the password, whether there is one and whether it is the right one.
ASSUME OptionsAssumption ==
    Options \subseteq [username : BOOLEAN, password : {"good", "bad", "none"},
                      forum : BOOLEAN,
                      value : [SettingNames -> {"good", "bad", "none"}]]

VARIABLES
    opt,             \* struct opt
    echo,            \* the terminal shows what is typed
    deaf,            \* SIGINT and SIGTSTP are ignored
    at,              \* what the program does next
    row,             \* the row of the settings table iol_set is called for next
    visit,           \* the entries iol_resync_all has yet to visit: 1..visit
    status           \* the exit status, once at = "exit"

tty == <<echo, deaf>>
suckVars == <<vars, opt, tty, at, row, visit, status>>

SuckInit ==
    /\ Init
    /\ opt \in Options
    /\ echo = TRUE /\ deaf = FALSE
    /\ at = "validate" /\ row = 1 /\ visit = 0 /\ status = "none"

\* The pointers of struct opt that may be NULL.
MayBeNull == {"proxy", "proxy_user", "server", "dump"}

\* settings_table
Table == <<"repository", "proxy", "proxy_user", "server", "proxy_type", "dry", "verbose",
           "fancy", "wait", "xenofobe", "no_cache", "dump", "ask">>

\* The flags of iol_resync_all.
Flagged == {"FILE"} \cup (IF opt.forum THEN {"FORUM"} ELSE {})

\* What validate_opt makes of the options, with this password.
Judge(password) ==
    IF opt.username /\ password # "none" /\ opt.value["repository"] # "none"
      THEN at' = "set" /\ UNCHANGED status
      ELSE at' = "exit" /\ status' = "failure"

\* validate_opt: a password that is missing is asked for, once.
Validate ==
    /\ at = "validate"
    /\ IF opt.username /\ opt.password = "none"
         THEN at' = "ignore" /\ UNCHANGED status
         ELSE Judge(opt.password)
    /\ UNCHANGED <<vars, opt, tty, row, visit>>

\* The steps of getpass_r.
Prompt(here, there) ==
    /\ at = here /\ at' = there
    /\ UNCHANGED <<vars, row, visit, status>>

\* Mutant: the signals keep their handlers.
IgnoreNone == Prompt("ignore", "hide") /\ UNCHANGED <<opt, tty>>

IgnoreSignals == Prompt("ignore", "hide") /\ deaf' = TRUE /\ UNCHANGED <<opt, echo>>

\* Nothing is hidden if stderr is not the terminal.
HideTyping == Prompt("hide", "read") /\ echo' \in BOOLEAN /\ UNCHANGED <<opt, deaf>>

\* What is typed, short of its last character, which is taken for the newline.
ReadPassword ==
    /\ Prompt("read", "show")
    /\ \E typed \in {"good", "bad", "none"} : opt' = [opt EXCEPT !.password = typed]
    /\ UNCHANGED tty

ShowTyping == Prompt("show", "restore") /\ echo' = TRUE /\ UNCHANGED <<opt, deaf>>

RestoreSignals ==
    /\ at = "restore"
    /\ deaf' = FALSE
    /\ Judge(opt.password)
    /\ UNCHANGED <<vars, opt, echo, row, visit>>

GetPass == IgnoreSignals \/ HideTyping \/ ReadPassword \/ ShowTyping \/ RestoreSignals

\* One row of the settings table; the first that is refused ends the program.
Configure ==
    /\ at = "set" /\ row <= Len(Table)
    /\ row' = row + 1
    /\ IF opt.value[Table[row]] = "none" /\ Table[row] \in MayBeNull
         THEN UNCHANGED vars
         ELSE Set(Table[row], opt.value[Table[row]] # "bad")
    /\ IF last'.ret = "E_OK" THEN UNCHANGED <<at, status>>
                             ELSE at' = "destroy" /\ status' = "failure"
    /\ UNCHANGED <<opt, tty, visit>>

SignIn(o1, o2) ==
    /\ at = "set" /\ row > Len(Table)
    /\ Login(opt.password, o1, o2)
    /\ IF last'.ret = "E_OK"
         THEN at' = "resync" /\ visit' = Len(courses') /\ UNCHANGED status
         ELSE at' = "destroy" /\ status' = "failure" /\ UNCHANGED visit
    /\ UNCHANGED <<opt, tty, row>>

\* Mutant: iol_resync_all goes on after a failure.
ResyncRegardless(o, crawled, made, forum) ==
    /\ at = "resync" /\ visit > 0
    /\ Resync(courses[visit].code, Flagged, o, crawled, made, forum)
    /\ visit' = visit - 1
    /\ UNCHANGED <<opt, tty, at, row, status>>

\* Mutant: a course that fails is tried again.
ResyncAgain(o, crawled, made, forum) ==
    /\ at = "resync" /\ visit > 0
    /\ Resync(courses[visit].code, Flagged, o, crawled, made, forum)
    /\ visit' = IF last'.ret = "E_OK" THEN visit - 1 ELSE visit
    /\ UNCHANGED <<opt, tty, at, row, status>>

\* iol_resync_all: the next course; the first failure ends it.
ResyncNext(o, crawled, made, forum) ==
    /\ at = "resync" /\ visit > 0
    /\ Resync(courses[visit].code, Flagged, o, crawled, made, forum)
    /\ visit' = visit - 1
    /\ IF last'.ret = "E_OK" THEN UNCHANGED <<at, status>>
                             ELSE at' = "logout" /\ status' = "failure"
    /\ UNCHANGED <<opt, tty, row>>

\* All the courses are done: the news.
AskNews(o) ==
    /\ at = "resync" /\ visit = 0
    /\ News(o)
    /\ at' = "logout" /\ status' = IF o = "ok" THEN "success" ELSE "failure"
    /\ UNCHANGED <<opt, tty, row, visit>>

LogOff(o) ==
    /\ at = "logout"
    /\ Logout(o)
    /\ at' = "destroy"
    /\ UNCHANGED <<opt, tty, row, visit, status>>

\* iol_destroy: logs out if that was not done.
Destroy(o) ==
    /\ at = "destroy"
    /\ at' = "exit"
    /\ IF logged THEN Logout(o) ELSE UNCHANGED vars
    /\ UNCHANGED <<opt, tty, row, visit, status>>

\* The user presses ^C, which nothing catches.
Interrupt ==
    /\ at # "exit" /\ ~deaf
    /\ at' = "exit" /\ status' = "interrupted"
    /\ UNCHANGED <<vars, opt, tty, row, visit>>

Advance ==
    \/ Validate
    \/ GetPass
    \/ Configure
    \/ \E o1, o2 \in Outcomes : SignIn(o1, o2)
    \/ \E o \in Outcomes, crawled, made, forum \in BOOLEAN : ResyncNext(o, crawled, made, forum)
    \/ \E o \in Outcomes : AskNews(o) \/ LogOff(o) \/ Destroy(o)

SuckNext == Advance \/ Interrupt

\* The program runs on: every transfer, and the user at the prompt, comes to an end.
SuckSpec == SuckInit /\ [][SuckNext]_suckVars /\ WF_suckVars(Advance)

-----------------------------------------------------------------------------
(* Properties.  ResyncedIfOK of Session is one of them: the order of the   *)
(* calls in main.c keeps the cases that break it away.                     *)

SuckTypeOK ==
    /\ TypeOK
    /\ opt.password \in {"good", "bad", "none"}
    /\ echo \in BOOLEAN /\ deaf \in BOOLEAN
    /\ at \in {"validate", "ignore", "hide", "read", "show", "restore",
               "set", "resync", "logout", "destroy", "exit"}
    /\ row \in 1..Len(Table) + 1
    /\ visit \in 0..Len(courses)
    /\ status \in {"none", "success", "failure", "interrupted"}

\* The program reports success only if it has worked under every setting it was
\* given, and every course or department it was offered, and that has material,
\* was crawled to the end in the session it opened.  (suck, foreach_resync)
SuccessMeansSynced ==
    at = "exit" /\ status = "success" =>
        /\ {s \in SettingNames : opt.value[s] # "none"} \subseteq taken
        /\ offered \cap WithMaterial \subseteq synced

\* A process that ends by itself has asked the server to close the session it
\* knows of, whichever way it ends.  (suck, iol_logout, iol_destroy)
EndsLoggedOff == at = "exit" /\ status # "interrupted" => ~logged

\* Whenever the user interrupts it, and whatever the prompt was told, the program
\* leaves a terminal that shows what is typed; and once the prompt is gone it can
\* be interrupted.  (getpass_r: the signals are ignored as long as the echo is off)
TerminalRestored ==
    /\ at = "exit" => echo
    /\ at \in {"set", "resync", "logout", "destroy"} => echo /\ ~deaf

\* The program comes to its end, whatever fails.
Terminates == <>(at = "exit")
=============================================================================
