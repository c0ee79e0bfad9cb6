------------------------------- MODULE Resync -------------------------------
(***************************************************************************)
(* What a run of iolsucker does to the repository on disk: iol_resync_all, *)
(* iol_resync, iol_resync_download, convertRepository, foreach_getfile     *)
(* (iol.c) and get_common_startpath (common.c).  One run after another,    *)
(* each with its own options, against a server whose courses publish and   *)
(* withdraw files in between, in a repository the user drops files into.   *)
(*                                                                         *)
(* A file of a course is a path: the sequence of the folders it is in and  *)
(* its name.  Its local name is that path without the folders common to    *)
(* the whole list of the run, below the directory of the course, which is  *)
(* named after the course's code or, with --fancy, after its name, which   *)
(* is what course.c makes of the title the server gives it.  The server    *)
(* does not promise that two courses have two names.                       *)
(*                                                                         *)
(* How one download is carried out is in Download: here it is one step.    *)
(***************************************************************************)
EXTENDS Courses

CONSTANTS
    Course,          \* the courses of the user
    Material,        \* Material[c]: bound: the paths course c may ever publish
    Code,            \* Code[c]: the code of a course
    Titles,          \* bound: what the server may call the courses
    DirNames,        \* the names directories may have, codes and names among them
    Options,         \* bound: the options the runs are started with
    Drops,           \* bound: the local names the user gives to files of his own
    Foreign,         \* the content of a file the user put there
    Nothing          \* no file, no course, no directory

Paths == UNION {Material[c] : c \in Course}

\* The names course_load_from_page gives to the courses.
Names == {[c \in Course |-> NormalizeCourseName(title[c])] : title \in Titles}

\* The folders of a path, and the path below its first k folders.
Folders(path) == SubSeq(path, 1, Len(path) - 1)
Below(k, path) == SubSeq(path, k + 1, Len(path))

Locals == {Below(k, path) : k \in 0..2, path \in Paths} \ {<<>>}
Places == DirNames \X Locals

\* What may be cut off a path: none of its folders, or the first of them.
StartPaths == UNION {{SubSeq(path, 1, k) : k \in 0..Len(path) - 1} : path \in Paths}

Contents == (Course \X Paths) \cup {Foreign, Nothing}

ASSUME ConstantsAssumption ==
    /\ \A c \in Course : \A path \in Material[c] :
         path \in Seq(ToSet(path)) /\ Len(path) \in 1..3
    \* no name is both a folder's and a file's
    /\ \A p, q \in Paths : \A k \in 1..Len(q) - 1 : p[Len(p)] # q[k]
    /\ Options \subseteq [fancy : BOOLEAN, xenofobe : BOOLEAN, dry : BOOLEAN]
    /\ Drops \subseteq Locals
    /\ {Foreign, Nothing} \cap (Course \X Paths) = {}
    /\ Foreign # Nothing
    /\ \A c \in Course : Code[c] \in DirNames /\ \A n \in Names : n[c] \in DirNames
    \* a directory named after a code cannot be one named after a course
    /\ \A c, d \in Course : c # d => Code[c] # Code[d]
    /\ \A n \in Names : \A c, d \in Course : Code[c] # n[d]

VARIABLES
    name,            \* name[c]: the name of the course
    server,          \* server[c]: the files the course offers
    disk,            \* disk[<<d, l>>]: whose content is at d/material/l
    dirs,            \* the course directories that exist
    opts,            \* the options of the run: fancy, xenofobe, dry
    pc,              \* "idle", "course" (between two), "crawl", "files"
    todo,            \* the courses iol_resync_all has yet to visit
    cur,             \* the course at hand
    dir,             \* its directory: tmp.prefix of iol_resync_download
    list,            \* the files of it still to be visited
    common,          \* how many folders tmp.url_prefix is
    repfiles,        \* the names the xenofobe scan collected
    \* history:
    used,            \* used[c]: the folders the lists of the course had in common
    synced,          \* synced[c]: the files foreach_getfile was content with
    missed           \* this run: a course's directory was to be renamed, or
                     \* a listed file was not resolved

vars == <<name, server, disk, dirs, opts, pc, todo, cur, dir, list, common, repfiles,
          used, synced, missed>>

world == <<name, server, disk, dirs>>
history == <<used, synced, missed>>

\* The options of a process that has not been started.
NoOptions == [fancy |-> FALSE, xenofobe |-> FALSE, dry |-> FALSE]

Init ==
    /\ name \in Names
    /\ server = [c \in Course |-> {}]
    /\ disk = [x \in Places |-> Nothing]
    /\ dirs = {}
    /\ opts = NoOptions
    /\ pc = "idle"
    /\ todo = {}
    /\ cur = Nothing
    /\ dir = Nothing
    /\ list = {}
    /\ common = 0
    /\ repfiles = {}
    /\ used = [c \in Course |-> {}]
    /\ synced = [c \in Course |-> {}]
    /\ missed = FALSE

-----------------------------------------------------------------------------
(* Between runs.                                                           *)

\* The server adds a file to a course, or takes one away.
Publish(c, path) ==
    /\ pc = "idle" /\ path \notin server[c]
    /\ server' = [server EXCEPT ![c] = @ \cup {path}]
    /\ UNCHANGED <<name, disk, dirs, opts, pc, todo, cur, dir, list, common, repfiles, history>>

Withdraw(c, path) ==
    /\ pc = "idle" /\ path \in server[c]
    /\ server' = [server EXCEPT ![c] = @ \ {path}]
    /\ UNCHANGED <<name, disk, dirs, opts, pc, todo, cur, dir, list, common, repfiles, history>>

\* The user puts a file of his own into the directory of a course.
PutForeign(x) ==
    /\ pc = "idle" /\ x[1] \in dirs /\ x[2] \in Drops /\ disk[x] = Nothing
    /\ disk' = [disk EXCEPT ![x] = Foreign]
    /\ UNCHANGED <<name, server, dirs, opts, pc, todo, cur, dir, list, common, repfiles, history>>

-----------------------------------------------------------------------------
(* A run.                                                                  *)

\* Login succeeded: iol_resync_all starts on the list of courses.
StartRun(o) ==
    /\ pc = "idle"
    /\ opts' = o
    /\ pc' = "course"
    /\ todo' = Course
    /\ UNCHANGED <<world, cur, dir, list, common, repfiles, history>>

\* The directory the options ask for, and the other one.
Wanted(c) == IF opts.fancy THEN name[c] ELSE Code[c]
Other(c)  == IF opts.fancy THEN Code[c] ELSE name[c]

\* Mutant: the scan looks into the directory that is about to be renamed.
ScanOther(c) == {x \in Places : x[1] = Other(c) /\ disk[x] # Nothing}

\* What ftw finds below the directory the options ask for.
Scan(c) == {x \in Places : x[1] = Wanted(c) /\ disk[x] # Nothing}

\* rename(): every file below the one directory is below the other.
Move(from, to) ==
    /\ disk' = [x \in Places |->
                  IF x[1] = to THEN disk[<<from, x[2]>>]
                  ELSE IF x[1] = from THEN Nothing ELSE disk[x]]
    /\ dirs' = (dirs \ {from}) \cup {to}

\* Mutant: the directory of the wanted name is made, the other one forgotten.
SettleAnew(c) ==
    /\ dir' = Wanted(c)
    /\ dirs' = dirs \cup {Wanted(c)}
    /\ UNCHANGED disk

\* Mutant: the old name is that of any course.
SettleStale(c) ==
    \/ \E stale \in Course :
         /\ Other(stale) \in dirs /\ Wanted(c) \notin dirs
         /\ dir' = Wanted(c)
         /\ Move(Other(stale), Wanted(c))
    \/ /\ Other(c) \notin dirs
       /\ dir' = Wanted(c)
       /\ dirs' = dirs \cup {Wanted(c)}
       /\ UNCHANGED disk

\* The directory of the course: the other name is renamed to the wanted one;
\* if that fails, as it must when the wanted one is there, the old is used.
\* What is missing is made.
Settle(c) ==
    \/ /\ Other(c) \in dirs /\ Wanted(c) \notin dirs
       /\ dir' = Wanted(c)
       /\ Move(Other(c), Wanted(c))
    \/ /\ Other(c) \in dirs
       /\ dir' = Other(c)
       /\ UNCHANGED <<disk, dirs>>
    \/ /\ Other(c) \notin dirs
       /\ dir' = Wanted(c)
       /\ dirs' = dirs \cup {Wanted(c)}
       /\ UNCHANGED disk

\* iol_resync(c): the context is changed, the directory scanned for the
\* xenofobe report, and, if the server says the course has material, settled.
Enter(c) ==
    /\ pc = "course" /\ c \in todo
    /\ todo' = todo \ {c}
    /\ repfiles' = repfiles \cup (IF opts.xenofobe THEN Scan(c) ELSE {})
    /\ cur' = c
    /\ missed' = (missed \/ Other(c) \in dirs)
    /\ Settle(c)
    /\ pc' = "crawl"
    /\ UNCHANGED <<name, server, opts, list, common, used, synced>>

\* The course has no material section: only the scan is done.
EnterBare(c) ==
    /\ pc = "course" /\ c \in todo /\ server[c] = {}
    /\ todo' = todo \ {c}
    /\ repfiles' = repfiles \cup (IF opts.xenofobe THEN Scan(c) ELSE {})
    /\ missed' = (missed \/ Other(c) \in dirs)
    /\ UNCHANGED <<world, opts, pc, cur, dir, list, common, used, synced>>

\* Mutant: a name common to all the paths counts as a folder.
CommonNames(l) ==
    LET Shared(k) == \A p, q \in l :
            /\ k <= Len(p)
            /\ SubSeq(p, 1, k) = SubSeq(q, 1, k)
    IN  CHOOSE k \in 0..2 : Shared(k) /\ \A j \in 0..2 : Shared(j) => j <= k

\* get_common_startpath: the folders all the paths of the list begin with.
CommonFolders(l) ==
    LET Shared(k) == \A p, q \in l :
            /\ k <= Len(Folders(p))
            /\ SubSeq(p, 1, k) = SubSeq(q, 1, k)
    IN  CHOOSE k \in 0..2 : Shared(k) /\ \A j \in 0..2 : Shared(j) => j <= k

\* get_file_list_from_current: the list lacks the files whose number could not
\* be resolved (_iol_get_url_from_fid returned NULL, which is not reported),
\* and whatever a folder that could not be read (bad) would have added.  The list
\* is visited all the same, and the failure ends the run after it: Abort.
Crawl ==
    /\ pc = "crawl"
    /\ \E l \in SUBSET server[cur] :
         /\ list' = l
         /\ common' = IF l = {} THEN 0 ELSE CommonFolders(l)
         /\ used' = [used EXCEPT ![cur] = @ \cup {SubSeq(path, 1, common') : path \in l}]
         /\ missed' = (missed \/ l # server[cur])
    /\ pc' = "files"
    /\ UNCHANGED <<world, opts, todo, cur, dir, repfiles, synced>>

\* Mutant: the folders of the path are dropped.
LocalFlat(path) == <<dir, Below(Len(path) - 1, path)>>

\* Where foreach_getfile puts a file.
Local(path) == <<dir, Below(common, path)>>

\* Mutant: only what is downloaded is taken off the xenofobe list.
VisitMissingOnly(path) ==
    /\ pc = "files" /\ path \in list
    /\ list' = list \ {path}
    /\ UNCHANGED repfiles
    /\ disk' = IF disk[Local(path)] # Nothing \/ opts.dry THEN disk
               ELSE [disk EXCEPT ![Local(path)] = <<cur, path>>]
    /\ synced' = synced
    /\ UNCHANGED <<name, server, dirs, opts, pc, todo, cur, dir, common, used, missed>>

\* Mutant: stat() is left out.
VisitBlindly(path) ==
    /\ pc = "files" /\ path \in list
    /\ list' = list \ {path}
    /\ repfiles' = repfiles \ {Local(path)}
    /\ disk' = [disk EXCEPT ![Local(path)] = <<cur, path>>]
    /\ UNCHANGED <<name, server, dirs, opts, pc, todo, cur, dir, common, used, synced, missed>>

\* foreach_getfile: the file is there, or is downloaded, or (not in a dry run)
\* the download fails and the walk goes on.
Visit(path) ==
    /\ pc = "files" /\ path \in list
    /\ list' = list \ {path}
    /\ repfiles' = repfiles \ {Local(path)}
    /\ \/ /\ disk[Local(path)] # Nothing
          /\ synced' = [synced EXCEPT ![cur] = @ \cup {path}]
          /\ UNCHANGED disk
       \/ /\ disk[Local(path)] = Nothing /\ ~opts.dry
          /\ disk' = [disk EXCEPT ![Local(path)] = <<cur, path>>]
          /\ synced' = [synced EXCEPT ![cur] = @ \cup {path}]
       \/ /\ disk[Local(path)] = Nothing
          /\ UNCHANGED <<disk, synced>>
    /\ UNCHANGED <<name, server, dirs, opts, pc, todo, cur, dir, common, used, missed>>

\* The list is done and its crawl had not failed: the next course.
Leave ==
    /\ pc = "files" /\ list = {}
    /\ pc' = "course"
    /\ cur' = Nothing /\ dir' = Nothing /\ common' = 0
    /\ UNCHANGED <<world, opts, todo, list, repfiles, history>>

Stop ==
    /\ pc' = "idle"
    /\ cur' = Nothing /\ dir' = Nothing /\ list' = {} /\ common' = 0
    /\ todo' = {}
    /\ repfiles' = {}
    /\ opts' = NoOptions /\ missed' = FALSE
    /\ UNCHANGED <<world, used, synced>>

\* All the courses are done: the xenofobe list is printed.
Finish == pc = "course" /\ todo = {} /\ Stop

\* A context change, a folder or the directory of a course failed, which ends
\* the whole run (after a folder failed, once its list is visited), or the process
\* died.  No report is printed.
Abort == pc # "idle" /\ Stop

Next ==
    \/ \E c \in Course : \E path \in Material[c] : Publish(c, path) \/ Withdraw(c, path)
    \/ \E x \in Places : PutForeign(x)
    \/ \E o \in Options : StartRun(o)
    \/ \E c \in Course : Enter(c) \/ EnterBare(c)
    \/ Crawl
    \/ \E path \in Paths : Visit(path)
    \/ Leave
    \/ Finish
    \/ Abort

Spec == Init /\ [][Next]_vars

-----------------------------------------------------------------------------
(* Properties.  Those that are true of a course whose name no other has    *)
(* say so: Sole.                                                           *)

TypeOK ==
    /\ name \in [Course -> DirNames]
    /\ server \in [Course -> SUBSET Paths]
    /\ disk \in [Places -> Contents]
    /\ dirs \subseteq DirNames
    /\ opts \in Options \cup {NoOptions}
    /\ pc \in {"idle", "course", "crawl", "files"}
    /\ todo \subseteq Course
    /\ cur \in Course \cup {Nothing}
    /\ dir \in DirNames \cup {Nothing}
    /\ list \subseteq Paths
    /\ common \in 0..2 /\ \A path \in list : common < Len(path)
    /\ repfiles \subseteq Places
    /\ used \in [Course -> SUBSET StartPaths]
    /\ synced \in [Course -> SUBSET Paths]
    /\ missed \in BOOLEAN

Share(c, d) == c = d \/ name[c] = name[d]
Sole(c) == \A d \in Course : Share(c, d) => c = d

\* A downloaded file is in a directory of its own course, or of one that has the
\* same name, and has the name its path gets below the folders that a list of its
\* course had in common: options that change between runs never mix courses of
\* different names.  (iol_resync_download, convertRepository, foreach_getfile)
Placement ==
    \A x \in Places : disk[x] \in Course \X Paths =>
        LET c == disk[x][1]
            path == disk[x][2]
        IN  /\ \E d \in Course : Share(c, d) /\ x[1] \in {Code[d], name[d]}
            /\ \E prefix \in used[c] : path = prefix \o x[2]

\* A course has one directory: switching --fancy on and off moves it and never
\* starts a second one, even when the rename fails.  (iol_resync_download)
OneDirectory == \A c \in Course : Sole(c) => ~(Code[c] \in dirs /\ name[c] \in dirs)

\* No step, of any run, loses or overwrites a file of the repository: it stays
\* under its local name, in the directory or in the one that was renamed to.
\* (stat() in foreach_getfile, rename() in convertRepository)
NoLoss ==
    [][\A x \in Places : disk[x] # Nothing =>
          \/ disk'[x] = disk[x]
          \/ x[1] \notin dirs' /\ \E d \in DirNames : disk'[<<d, x[2]>>] = disk[x]]_vars

\* All the lists of the course that were not empty had the same folders in common.
Stable(c) == \A prefix, other \in used[c] : prefix = other

\* As long as those stay the same, not only as many, every file foreach_getfile
\* was content with is in the repository under its local name and with its own
\* content, or the user's own file is there.  (get_common_startpath)
Delivered ==
    \A c \in Course : Sole(c) /\ Stable(c) =>
        \A path \in synced[c] : \E prefix \in used[c], l \in Locals :
            /\ path = prefix \o l
            /\ \E d \in {Code[c], name[c]} \cap dirs :
                  disk[<<d, l>>] \in {<<c, path>>, Foreign}

\* A run over a course with no failure leaves every file the course offers in
\* the repository, or finds the user's own file in its place.  (iol.h: "resync
\* all the files of the curse code")
SyncComplete ==
    pc = "files" /\ list = {} /\ ~opts.dry /\ ~missed /\ server[cur] \subseteq synced[cur] =>
        \A path \in server[cur] :
            (\E x \in Places : disk[x] = <<cur, path>>) \/ disk[Local(path)] = Foreign

\* The end of a run that prints the xenofobe list.
Reports == pc = "course" /\ todo = {} /\ opts.xenofobe

\* Unless a file was not resolved, or a directory was to be renamed in this
\* run, the list names no file that was stored for a course and that the
\* course still offers.  (stringset_remove in foreach_getfile)
ReportsOnlyForeign ==
    Reports /\ ~missed =>
        \A x \in repfiles, c \in Course : Sole(c) /\ Stable(c) =>
            \A path \in server[c] : disk[x] # <<c, path>>

\* The user's files in the directories of the courses, but those that have the
\* local name of a file on the server.
Unknown(x) ==
    /\ disk[x] = Foreign
    /\ \A c \in Course : x[1] \in {Code[c], name[c]} =>
         \A prefix \in used[c] : prefix \o x[2] \notin server[c]

\* The xenofobe list has every unknown file.  (the manual, option -X: "al
\* terminar lista los archivos que se encuentran en nuestro repositorio y que
\* no estan en iol")
ReportsEveryForeign == Reports => \A x \in Places : Unknown(x) => x \in repfiles

\* It has, in a run that has no directory to rename.
ReportsEveryForeignInPlace == Reports /\ ~missed => ReportsEveryForeign
=============================================================================
